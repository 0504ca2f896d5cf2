--------------------------- MODULE MCDocumentEmbed ---------------------------
EXTENDS DocumentEmbed

CONSTANTS d1, w1, w2

MCDocs == {d1}
MCWorkers == {w1, w2}
=============================================================================

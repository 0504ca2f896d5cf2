--------------------------- MODULE MCAccountImport ---------------------------
EXTENDS AccountImport

CONSTANTS c1, m1, r1, r2, w1, w2

MCConvs == {c1}
MCMedia == {m1}
MCRequests == {r1, r2}
MCWorkers == {w1, w2}
=============================================================================

--------------------------- MODULE MCChatPipeline ---------------------------
(* Small instances of ChatPipeline: the tasks of one thread, its workers    *)
(* and the turns they answer.                                               *)
EXTENDS ChatPipeline, TLC

CONSTANTS t1, t2, h1, w1, w2

\* Tasks and workers are interchangeable in both assignments of turns.
Symmetry == Permutations(Tasks) \cup Permutations(Workers)

OneThread == [t \in Tasks |-> h1]

\* Every task retries one turn, or each answers a turn of its own.
SameTurnOf == [t \in Tasks |-> h1]
OwnTurnOf == [t \in Tasks |-> t]
=============================================================================

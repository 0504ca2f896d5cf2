---------------------------- MODULE DispatchOnce ----------------------------
(***************************************************************************)
(* What a replay-protected dispatch promises: one piece of work is chosen,   *)
(* once; after that, at most one actor performs it, at most once.           *)
(***************************************************************************)
CONSTANTS Actors, Works, NoWork

VARIABLES chosen,       \* the work that was authorised, or NoWork
          performed     \* who performed what

vars == <<chosen, performed>>

Init == chosen = NoWork /\ performed = {}

Choose(w) == /\ chosen = NoWork
             /\ chosen' = w
             /\ UNCHANGED performed

Perform(a) == /\ chosen # NoWork
              /\ performed = {}
              /\ performed' = {<<a, chosen>>}
              /\ UNCHANGED chosen

Next == (\E w \in Works : Choose(w)) \/ (\E a \in Actors : Perform(a))

Spec == Init /\ [][Next]_vars
=============================================================================

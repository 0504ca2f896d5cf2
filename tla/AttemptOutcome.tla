--------------------------- MODULE AttemptOutcome ---------------------------
(***************************************************************************)
(* What the chat-completion pipeline promises about one attempt, with no   *)
(* lock, queue, worker or clock in sight: an attempt is opened once, gets   *)
(* at most one outcome, and a client is only ever shown that outcome.       *)
(*                                                                         *)
(* It abstracts the chat_completion_attempts row (outcome) and the terminal *)
(* events of the task's Redis stream (shown).                               *)
(***************************************************************************)
CONSTANT Tasks          \* backend task ids, one per completion request

VARIABLES
    outcome,            \* outcome[t]: the durable fate of attempt t
    shown               \* shown[t]: the terminal events a client may read

vars == <<outcome, shown>>

Final == {"completed", "failed", "cancelled"}

Init == /\ outcome = [t \in Tasks |-> "absent"]
        /\ shown = [t \in Tasks |-> {}]

\* The row is committed before the task can reach a worker.
Open(t) == /\ outcome[t] = "absent"
           /\ outcome' = [outcome EXCEPT ![t] = "pending"]
           /\ UNCHANGED shown

\* Exactly one writer wins: worker success, worker failure or cancellation,
\* or the deadline controller.
Decide(t) == /\ outcome[t] = "pending"
             /\ \E o \in Final : outcome' = [outcome EXCEPT ![t] = o]
             /\ UNCHANGED shown

\* A terminal event is a projection of the durable outcome.
Show(t) == /\ outcome[t] \in Final
           /\ shown' = [shown EXCEPT ![t] = @ \cup {outcome[t]}]
           /\ UNCHANGED outcome

Next == \E t \in Tasks : Open(t) \/ Decide(t) \/ Show(t)

Spec == Init /\ [][Next]_vars
=============================================================================

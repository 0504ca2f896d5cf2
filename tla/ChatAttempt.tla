---------------------------- MODULE ChatAttempt -----------------------------
(***************************************************************************)
(* The durable chat_completion_attempts row and the transactions on it      *)
(* (guardian/core/db.py, guardian/core/pgdb.py).  Every transaction takes   *)
(* the row FOR UPDATE, so each is one atomic function of the row: an        *)
(* operator that gives the row it commits and one that gives its result.    *)
(*                                                                         *)
(* The original deadline snapshot is the countdown left: the time until     *)
(* terminal_deadline_at, 0 once that instant is reached.  A message is      *)
(* named by the task whose transaction inserted it.                         *)
(***************************************************************************)
EXTENDS ChatDeadline

\* TaskEventType.TASK_FAILED and TASK_CANCELLED: what a worker may record.
TerminalEvents == {"failed", "cancelled"}

Row == [exists    : BOOLEAN,                  \* the row was committed
        accepted  : BOOLEAN,                  \* accepted_at IS NOT NULL
        token     : Nat,                      \* turn_lock_token
        completed : Tasks \cup {NoTask},      \* completed_message_id
        terminal  : {"none"} \cup TerminalEvents,
        orphan    : BOOLEAN]                  \* terminal_outcome = ORPHANED

AbsentRow == [exists |-> FALSE, accepted |-> FALSE, token |-> 0,
              completed |-> NoTask, terminal |-> "none", orphan |-> FALSE]

Completed(r) == r.completed # NoTask
Decided(r) == Completed(r) \/ r.terminal # "none"

\* The terminal event that projects the row (a message outranks an event).
Outcome(r) == IF Completed(r) THEN "completed" ELSE r.terminal

\* Wrong forms of the transactions below, for the mutants of the properties.
RecordLastWins(r, e) == IF r.exists /\ ~Completed(r) THEN [r EXCEPT !.terminal = e] ELSE r
TerminalResultAfterCompletion(r, e) == r.exists
InsertsAfterTerminal(r) == r.exists /\ ~Completed(r)
InsertsAgain(r) == r.exists /\ r.terminal = "none"
PersistUnbound(r, m) == r
ReceiptOrphansOnly(r, left) == r.exists /\ r.orphan

\* create_chat_completion_attempt
CreateAttempt(token) == [AbsentRow EXCEPT !.exists = TRUE, !.token = token]

\* mark_chat_completion_attempt_accepted
MarkAccepted(r) == [r EXCEPT !.accepted = TRUE]

\* record_chat_completion_attempt_success: bind an existing message m.
LinkResult(r, m) == /\ r.exists
                    /\ r.terminal = "none"
                    /\ r.completed \in {NoTask, m}
LinkSuccess(r, m) == IF LinkResult(r, m) THEN [r EXCEPT !.completed = m] ELSE r

\* record_chat_completion_attempt_terminal_event: the first event stays, and
\* repeating it is a success only for the worker's own kind of outcome.
TerminalResult(r, e) == /\ r.exists
                        /\ ~Completed(r)
                        /\ \/ r.terminal = "none"
                           \/ r.terminal = e /\ ~r.orphan
RecordTerminal(r, e) == IF r.exists /\ ~Decided(r) THEN [r EXCEPT !.terminal = e] ELSE r

\* create_assistant_message_for_completion_attempt: insert the message of
\* task m and bind it, or return the message already bound.
PersistInserts(r) == r.exists /\ ~Decided(r)
PersistResult(r) == Completed(r) \/ PersistInserts(r)
PersistAssistant(r, m) == IF PersistInserts(r) THEN [r EXCEPT !.completed = m] ELSE r

\* reconcile_chat_completion_attempt_after_deadline: fence an unresolved
\* accepted attempt once its terminal deadline has been reached.
Fences(r, left) == ~Decided(r) /\ r.accepted /\ ~TerminalOpen(left)
Reconcile(r, left) ==
    IF Fences(r, left) THEN [r EXCEPT !.terminal = "failed", !.orphan = TRUE] ELSE r

\* Receipts run the transaction only for rows it may fence, and again for
\* orphans, whose lock an earlier cleanup may have missed.
ReceiptEligible(r, left) == r.exists /\ (r.orphan \/ Fences(r, left))
=============================================================================

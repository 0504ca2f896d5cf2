---------------------------- MODULE ChatDeadline ----------------------------
(***************************************************************************)
(* The accepted-task envelope (guardian/tasks/chat_deadline.py) and the     *)
(* budgets a worker's PostgreSQL and Redis operations inherit from it       *)
(* (guardian/core/chat_postgres_deadline.py, chat_redis_deadline.py).       *)
(*                                                                         *)
(* A deadline snapshot is frozen when it is built.  It is kept here as the  *)
(* time left to terminal_deadline_at, which only the clock changes, so no   *)
(* absolute time is needed: left = 0 means the instant has been reached.    *)
(***************************************************************************)
EXTENDS Naturals

CONSTANTS
    Tasks,              \* backend task ids, one per completion request
    NoTask,             \* no task: SQL NULL, an absent key, an idle worker
    WorkBudget,         \* ACCEPTED_CHAT_TASK_WORK_BUDGET_SECONDS
    TerminalBudget,     \* ACCEPTED_CHAT_TASK_TERMINAL_BUDGET_SECONDS
    SafetyMargin        \* TURN_LOCK_SAFETY_MARGIN_SECONDS

ASSUME NoTaskAssumption == NoTask \notin Tasks
ASSUME BudgetAssumption == /\ WorkBudget \in Nat \ {0}
                           /\ TerminalBudget \in Nat \ {0}
                           /\ SafetyMargin \in Nat \ {0}

\* ACCEPTED_CHAT_TASK_TOTAL_BUDGET_SECONDS
TotalBudget == WorkBudget + TerminalBudget

\* Mutant: a lease shorter than the envelope.
LeaseOfWork == WorkBudget

\* ACCEPTED_CHAT_TASK_TURN_LOCK_LEASE_SECONDS
Lease == TotalBudget + SafetyMargin

\* Mutant: a deadline that includes the margin of the lock lease.
DeadlineOfLease == Lease

\* build_accepted_chat_task_deadline
BuildDeadline == TotalBudget

\* now < work_deadline_at, and now < terminal_deadline_at
WorkOpen(left) == left > TerminalBudget
TerminalOpen(left) == left > 0

\* _Budget.remaining: an operation is admitted against the work deadline, or
\* against the terminal deadline once the worker uses the terminal reserve.
BudgetOpen(terminal, left) == IF terminal THEN TerminalOpen(left) ELSE WorkOpen(left)

\* One unit of time.
Elapse(left) == IF left = 0 THEN 0 ELSE left - 1
=============================================================================

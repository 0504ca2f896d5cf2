------------------------------ MODULE ToolTurn ------------------------------
(***************************************************************************)
(* The bounded tool turn of an accepted chat completion: the model's first  *)
(* output, the tool-decision checkpoint in the attempt row                   *)
(* (freeze_chat_tool_decision), the Command Bus dispatch (execute_invoke)    *)
(* and the second output that uses the command's result.                     *)
(*                                                                         *)
(* A task may be delivered more than once, to workers that run at the same   *)
(* time, and a worker may die anywhere.  Each delivery is a copy; a language *)
(* model gives every copy its own output.  One action is one transaction or  *)
(* one call out of the process, with the local code that follows it.         *)
(***************************************************************************)
EXTENDS CommandRun

CONSTANT NoDecision

ASSUME DecisionAssumption == NoDecision \notin Decision

VARIABLES
    pc,             \* pc[c]: where copy c is
    decision,       \* decision[c]: the tool decision its model returned
    checkpoint,     \* tool_turn_id and decision frozen in the attempt row
    runs,           \* runs[k]: the CommandRun row of idempotency key k
    events,         \* events[k]: its CommandRunEvent stream
    executed,       \* executed[c]: commands whose handler ran for copy c
    outcome,        \* outcome[c]: how the handler of copy c ended
    reply           \* reply[c]: what execute_invoke returned to copy c

vars == <<pc, decision, checkpoint, runs, events, executed, outcome, reply>>

storeVars == <<runs, events>>
localVars == <<executed, outcome, reply>>

Final == {"plain", "answered", "error", "crashed"}
States == {"idle", "check", "authorize", "freeze", "lookup", "create", "created",
           "policy", "block", "blocked", "start", "started", "execute", "finish",
           "finished", "reply", "second"} \cup Final

NoCheckpoint == [tool_turn_id |-> NoCopy, decision |-> NoDecision]
NoReply == [status |-> "queued", result |-> NoCopy]

Frozen == checkpoint # NoCheckpoint

Init == /\ pc = [c \in Copies |-> "idle"]
        /\ decision = [c \in Copies |-> NoDecision]
        /\ checkpoint = NoCheckpoint
        /\ runs = [k \in Keys |-> NoRun]
        /\ events = [k \in Keys |-> <<>>]
        /\ executed = [c \in Copies |-> {}]
        /\ outcome = [c \in Copies |-> "failed"]
        /\ reply = [c \in Copies |-> NoReply]

Goto(c, s) == pc' = [pc EXCEPT ![c] = s]

\* A committed write whose acknowledgement is lost raises in the caller.
GotoOrError(c, s) == \E s2 \in {s, "error"} : Goto(c, s2)

-----------------------------------------------------------------------------
(* The first output and the checkpoint                                      *)

\* _execute_completion_attempt and normalize_completion_output.
FirstOutput(c) ==
    /\ pc[c] = "idle"
    /\ \/ Goto(c, "check") /\ UNCHANGED decision
       \/ /\ \E d \in Decision : decision' = [decision EXCEPT ![c] = d]
          /\ Goto(c, "authorize")
    /\ UNCHANGED <<checkpoint, storeVars, localVars>>

\* Mutant: the plain answer is returned without reading the checkpoint.
PlainUnchecked(c) ==
    /\ pc[c] = "check"
    /\ Goto(c, "plain")
    /\ UNCHANGED <<decision, checkpoint, storeVars, localVars>>

\* A plain answer must not contradict a decision an earlier copy froze.
get_chat_tool_checkpoint(c) ==
    /\ pc[c] = "check"
    /\ Goto(c, IF Frozen THEN "error" ELSE "plain")
    /\ UNCHANGED <<decision, checkpoint, storeVars, localVars>>

\* The advertised capability is resolved again: refused, or go on.
Authorize(c) ==
    /\ pc[c] = "authorize"
    /\ GotoOrError(c, "freeze")
    /\ UNCHANGED <<decision, checkpoint, storeVars, localVars>>

\* Mutant: the last decision wins.
OverwrittenBy(c) == [tool_turn_id |-> c, decision |-> decision[c]]

\* What freeze_chat_tool_decision leaves in the row: the first decision wins.
FrozenBy(c) == IF Frozen THEN checkpoint
               ELSE [tool_turn_id |-> c, decision |-> decision[c]]

freeze_chat_tool_decision(c) ==
    /\ pc[c] = "freeze"
    /\ checkpoint' = FrozenBy(c)
    /\ IF FrozenBy(c).decision = decision[c]
       THEN GotoOrError(c, "lookup")
       ELSE Goto(c, "error")
    /\ UNCHANGED <<decision, storeVars, localVars>>

-----------------------------------------------------------------------------
(* execute_invoke                                                           *)

IdempotencyKey(c) == <<checkpoint.tool_turn_id, decision[c].command_id>>

\* Mutant: the store is in the memory of each worker process.
ProcessLocalRun(c) ==
    LET r == runs[IdempotencyKey(c)]
    IN  IF r # NoRun /\ r.run_id = c THEN r ELSE NoRun

\* The run that already holds the key, if any.
ExistingRun(c) == runs[IdempotencyKey(c)]

\* Answer with the existing run, or refuse other arguments (409).
Replay(c) ==
    IF ReplayAllowed(ExistingRun(c), decision[c])
    THEN /\ reply' = [reply EXCEPT ![c] = _response_from_existing_run(ExistingRun(c))]
         /\ Goto(c, "reply")
    ELSE Goto(c, "error") /\ UNCHANGED reply

get_run_by_idempotency_key(c) ==
    /\ pc[c] = "lookup"
    /\ IF ExistingRun(c) = NoRun
       THEN Goto(c, "create") /\ UNCHANGED reply
       ELSE Replay(c)
    /\ UNCHANGED <<decision, checkpoint, storeVars, executed, outcome>>

\* Mutant: no unique constraint, the second insert replaces the first.
UpsertRun(c) ==
    /\ pc[c] = "create"
    /\ runs' = [runs EXCEPT ![IdempotencyKey(c)] = create_run(c, decision[c])]
    /\ GotoOrError(c, "created")
    /\ UNCHANGED <<decision, checkpoint, events, localVars>>

\* Insert the run, or lose the race on uq_command_idempotency_key.
CreateRun(c) ==
    /\ pc[c] = "create"
    /\ IF ExistingRun(c) = NoRun
       THEN /\ runs' = [runs EXCEPT ![IdempotencyKey(c)] = create_run(c, decision[c])]
            /\ GotoOrError(c, "created")
            /\ UNCHANGED reply
       ELSE Replay(c) /\ UNCHANGED runs
    /\ UNCHANGED <<decision, checkpoint, events, executed, outcome>>

append_event(c, e) == events' = [events EXCEPT ![IdempotencyKey(c)] = Append(@, e)]

SetStatus(c, s, res) ==
    runs' = [runs EXCEPT ![IdempotencyKey(c)] = update_run(@, s, res)]

RunCreated(c) ==
    /\ pc[c] = "created"
    /\ append_event(c, "created")
    /\ GotoOrError(c, "policy")
    /\ UNCHANGED <<decision, checkpoint, runs, localVars>>

\* The policies and the recursion guard block the command or let it run.
Policy(c) ==
    /\ pc[c] = "policy"
    /\ \E s \in {"block", "start"} : Goto(c, s)
    /\ UNCHANGED <<decision, checkpoint, storeVars, localVars>>

Block(c) ==
    /\ pc[c] = "block"
    /\ SetStatus(c, "blocked", NoCopy)
    /\ GotoOrError(c, "blocked")
    /\ UNCHANGED <<decision, checkpoint, events, localVars>>

RunBlocked(c) ==
    /\ pc[c] = "blocked"
    /\ append_event(c, "blocked")
    /\ GotoOrError(c, "reply")
    /\ reply' = [reply EXCEPT ![c] = [status |-> "blocked", result |-> NoCopy]]
    /\ UNCHANGED <<decision, checkpoint, runs, executed, outcome>>

Start(c) ==
    /\ pc[c] = "start"
    /\ SetStatus(c, "running", NoCopy)
    /\ GotoOrError(c, "started")
    /\ UNCHANGED <<decision, checkpoint, events, localVars>>

RunStarted(c) ==
    /\ pc[c] = "started"
    /\ append_event(c, "started")
    /\ GotoOrError(c, "execute")
    /\ UNCHANGED <<decision, checkpoint, runs, localVars>>

\* execute_internal_command or execute_loopback_request.  A failure may come
\* after the handler's effect (a timeout); a guard blocks before it.
Execute(c) ==
    /\ pc[c] = "execute"
    /\ \/ /\ executed' = [executed EXCEPT ![c] = @ \cup {decision[c]}]
          /\ \E o \in {"completed", "failed"} : outcome' = [outcome EXCEPT ![c] = o]
       \/ /\ \E o \in {"blocked", "failed"} : outcome' = [outcome EXCEPT ![c] = o]
          /\ UNCHANGED executed
    /\ Goto(c, "finish")
    /\ UNCHANGED <<decision, checkpoint, storeVars, reply>>

ResultOf(c) == IF outcome[c] = "completed" THEN c ELSE NoCopy

\* Mutant: a run that raised is recorded as completed.
FinishCompleted(c) ==
    /\ pc[c] = "finish"
    /\ SetStatus(c, "completed", ResultOf(c))
    /\ GotoOrError(c, "finished")
    /\ UNCHANGED <<decision, checkpoint, events, localVars>>

Finish(c) ==
    /\ pc[c] = "finish"
    /\ SetStatus(c, outcome[c], ResultOf(c))
    /\ GotoOrError(c, "finished")
    /\ UNCHANGED <<decision, checkpoint, events, localVars>>

RunFinished(c) ==
    /\ pc[c] = "finished"
    /\ append_event(c, outcome[c])
    /\ GotoOrError(c, "reply")
    /\ reply' = [reply EXCEPT ![c] = [status |-> outcome[c], result |-> ResultOf(c)]]
    /\ UNCHANGED <<decision, checkpoint, runs, executed, outcome>>

-----------------------------------------------------------------------------
(* The second output                                                        *)

\* Mutant: a queued or running run is taken for a result.
UseAnyReply(c) ==
    /\ pc[c] = "reply"
    /\ Goto(c, IF reply[c].status \in {"failed", "blocked"} THEN "error" ELSE "second")
    /\ UNCHANGED <<decision, checkpoint, storeVars, localVars>>

\* Only a completed run with a result is shown to the model; a run found
\* queued or running is tool_command_incomplete.
UseReply(c) ==
    /\ pc[c] = "reply"
    /\ Goto(c, IF reply[c].status = "completed" THEN "second" ELSE "error")
    /\ UNCHANGED <<decision, checkpoint, storeVars, localVars>>

\* A second tool decision is tool_turn_limit_reached.
SecondOutput(c) ==
    /\ pc[c] = "second"
    /\ GotoOrError(c, "answered")
    /\ UNCHANGED <<decision, checkpoint, storeVars, localVars>>

\* A store or provider call refused, the work budget used up, or the task
\* cancelled.  What the handler raises is a failed run, not an error here.
Fail(c) ==
    /\ pc[c] \notin Final \cup {"execute"}
    /\ Goto(c, "error")
    /\ UNCHANGED <<decision, checkpoint, storeVars, localVars>>

\* The worker process dies; its local state is gone.
Crash(c) ==
    /\ pc[c] \notin Final
    /\ Goto(c, "crashed")
    /\ UNCHANGED <<decision, checkpoint, storeVars, localVars>>

Step(c) == \/ FirstOutput(c) \/ get_chat_tool_checkpoint(c)
           \/ Authorize(c) \/ freeze_chat_tool_decision(c)
           \/ get_run_by_idempotency_key(c) \/ CreateRun(c) \/ RunCreated(c)
           \/ Policy(c) \/ Block(c) \/ RunBlocked(c) \/ Start(c) \/ RunStarted(c)
           \/ Execute(c) \/ Finish(c) \/ RunFinished(c)
           \/ UseReply(c) \/ SecondOutput(c) \/ Fail(c)

Next == \E c \in Copies : Step(c) \/ Crash(c)

Spec == Init /\ [][Next]_vars

-----------------------------------------------------------------------------
(* Properties                                                               *)

TypeOK == /\ pc \in [Copies -> States]
          /\ decision \in [Copies -> Decision \cup {NoDecision}]
          /\ checkpoint \in [tool_turn_id : Copies \cup {NoCopy},
                             decision : Decision \cup {NoDecision}]
          /\ runs \in [Keys -> Run \cup {NoRun}]
          /\ events \in [Keys -> Seq(EventTypes)]
          /\ executed \in [Copies -> SUBSET Decision]
          /\ outcome \in [Copies -> TERMINAL_STATUSES]
          /\ reply \in [Copies -> Reply]

\* The turn implements a dispatch that happens at most once: the frozen
\* decision is the work, and an execution of a handler performs it.
Dispatch == INSTANCE DispatchOnce WITH
    Actors <- Copies, Works <- Decision, NoWork <- NoDecision,
    chosen <- checkpoint.decision,
    performed <- {p \in Copies \X Decision : p[2] \in executed[p[1]]}

ImplementsDispatch == Dispatch!Spec

\* However often a task is delivered and wherever its workers die, the command
\* handlers run at most once for it, in one copy and for one decision.
\* (_configure_durable_command_bus_store: "at-most-once dispatch")
AtMostOnceDispatch ==
    \A c1, c2 \in Copies : \A d1 \in executed[c1], d2 \in executed[c2] :
        c1 = c2 /\ d1 = d2

\* What ran is what the attempt row froze before the dispatch.
ExecutedIsFrozen ==
    \A c \in Copies : executed[c] \subseteq {checkpoint.decision}

\* A copy answers after a tool turn only with the result of an execution that
\* really completed, of the very decision its own model made, whichever copy
\* ran it; and the durable run says so.
AnswerFromRun ==
    \A c \in Copies : pc[c] = "answered" =>
        LET r == ExistingRun(c) IN
        /\ r.status = "completed"
        /\ reply[c].result = r.result
        /\ executed[r.result] = {decision[c]}

\* The stream of a run tells its story in order and never contradicts the row:
\* nothing follows a terminal event, a terminal event names the row's status,
\* and a run that was never started has no completed event.
StreamAgrees ==
    \A k \in Keys :
        /\ events[k] \in {<<>>, <<"created">>, <<"created", "blocked">>,
                          <<"created", "started">>}
                         \cup {<<"created", "started", s>> : s \in TERMINAL_STATUSES}
        /\ events[k] # <<>> => runs[k] # NoRun
        /\ \A i \in 1..Len(events[k]) :
               events[k][i] \in TERMINAL_STATUSES => runs[k].status = events[k][i]

\* A run that reached a terminal status keeps it and keeps its result:
\* update_run overwrites whatever it finds, so this rests on who calls it.
TerminalRunFinal ==
    [][\A k \in Keys : (runs[k] # NoRun /\ runs[k].status \in TERMINAL_STATUSES)
                           => runs'[k] = runs[k]]_vars

\* A copy whose model was asked after the decision was frozen never answers
\* plainly, and never answers from another decision.
ReplayHonoursDecision ==
    \A c \in Copies :
        [](Frozen /\ pc[c] = "idle" =>
              [](/\ pc[c] # "plain"
                 /\ pc[c] = "answered" => decision[c] = checkpoint.decision))
=============================================================================

--------------------------- MODULE ToolTurnProofs ---------------------------
(***************************************************************************)
(* What the tool turn guarantees for any number of deliveries, commands and  *)
(* arguments, wherever the workers die.                                      *)
(***************************************************************************)
EXTENDS ToolTurn, SequenceTheorems, TLAPS

\* Where a copy holds the run it inserted, and where it holds a tool decision
\* that agrees with the attempt row.
OwnQueued == {"created", "policy", "block", "start"}
OwnRunning == {"started", "execute", "finish"}
Own == OwnQueued \cup OwnRunning \cup {"blocked", "finished"}
Replied == {"reply", "second", "answered"}
Tool == {"lookup", "create"} \cup Own \cup Replied
HasDecision == {"authorize", "freeze"} \cup Tool

\* All runs of the task live under one key, which the attempt row determines.
TheKey == <<checkpoint.tool_turn_id, checkpoint.decision.command_id>>
TheRun == runs[TheKey]

CheckpointOK == Frozen => checkpoint.tool_turn_id \in Copies /\ checkpoint.decision \in Decision

DecisionOK == \A c \in Copies : /\ pc[c] \in HasDecision => decision[c] \in Decision
                                /\ pc[c] \in Tool => Frozen /\ decision[c] = checkpoint.decision

RunsOK == \A k \in Keys : runs[k] # NoRun => Frozen /\ k = TheKey

\* A copy inside execute_invoke owns the run, in the status its place implies.
OwnerOK == \A c \in Copies : pc[c] \in Own =>
               /\ TheRun # NoRun /\ TheRun.run_id = c
               /\ pc[c] \in OwnQueued => TheRun.status = "queued"
               /\ pc[c] \in OwnRunning => TheRun.status = "running"
               /\ pc[c] = "blocked" => TheRun.status = "blocked" /\ TheRun.result = NoCopy
               /\ pc[c] = "finished" => TheRun.status = outcome[c] /\ TheRun.result = ResultOf(c)

\* Whoever executed owns the run and executed what the row froze.
ExecutedOK == \A c \in Copies : executed[c] # {} =>
                  /\ Frozen /\ executed[c] = {checkpoint.decision}
                  /\ TheRun # NoRun /\ TheRun.run_id = c

\* A completed run has a result, and the result is of a real execution.
ResultOK == /\ \A c \in Copies : pc[c] \in {"finish", "finished"} /\ outcome[c] = "completed"
                                     => executed[c] # {}
            /\ Frozen /\ TheRun # NoRun /\ TheRun.status = "completed" =>
                   TheRun.result \in Copies /\ executed[TheRun.result] # {}

\* A copy that was told of a completed run was told its result.
ReplyOK == \A c \in Copies :
               /\ pc[c] \in {"second", "answered"} => reply[c].status = "completed"
               /\ pc[c] \in Replied /\ reply[c].status = "completed" =>
                      /\ TheRun # NoRun /\ TheRun.status = "completed"
                      /\ TheRun.result = reply[c].result

Inv == /\ TypeOK /\ CheckpointOK /\ DecisionOK /\ RunsOK
       /\ OwnerOK /\ ExecutedOK /\ ResultOK /\ ReplyOK

-----------------------------------------------------------------------------
\* Nothing has happened in an initial state.
LEMMA InitInv == Init => Inv
<1> SUFFICES ASSUME Init PROVE Inv
  OBVIOUS
<1>1. TypeOK
  BY CommandRunAssumption DEF Init, TypeOK, NoCheckpoint, NoReply, Reply, States, Final,
     Statuses,
     TERMINAL_STATUSES
<1>2. QED
  BY <1>1 DEF Init, Inv, CheckpointOK, DecisionOK, RunsOK, OwnerOK, ExecutedOK, ResultOK,
     ReplyOK,
     Frozen, HasDecision, Tool, Own, OwnQueued, OwnRunning, Replied

\* The key of a copy with a frozen decision is the one key.
LEMMA KeyIsOne ==
    ASSUME Inv, NEW c \in Copies, pc[c] \in Tool
    PROVE /\ Frozen /\ TheKey \in Keys
          /\ IdempotencyKey(c) = TheKey
          /\ decision[c] = checkpoint.decision /\ decision[c] \in Decision
BY DEF Inv, CheckpointOK, DecisionOK, TheKey, Keys, IdempotencyKey, Decision, HasDecision

\* A step that only moves copy c, not into a place that promises more, keeps
\* the invariant.
LEMMA MoveInv ==
    ASSUME Inv, NEW c \in Copies, NEW s \in States, Goto(c, s),
           UNCHANGED <<decision, checkpoint, runs, events, executed, outcome, reply>>,
           s \in HasDecision => pc[c] \in HasDecision,
           s \in Tool => pc[c] \in Tool,
           s \in Own => pc[c] \in Own,
           s \in OwnQueued => pc[c] \in OwnQueued,
           s \in OwnRunning => pc[c] \in OwnRunning,
           s \in {"blocked", "finish", "finished"} => pc[c] = s,
           s \in Replied => pc[c] \in Replied,
           s \in {"second", "answered"} => reply[c].status = "completed"
    PROVE Inv'
<1>1. TypeOK'
  BY DEF Inv, TypeOK, Goto
<1>2. CheckpointOK' /\ RunsOK'
  BY DEF Inv, TypeOK, CheckpointOK, RunsOK, Frozen, TheKey
<1>3. DecisionOK'
  BY DEF Inv, TypeOK, Goto, DecisionOK, Frozen
<1>4. OwnerOK'
  BY ZenonT(30) DEF Inv, TypeOK, Goto, OwnerOK, TheRun, TheKey, ResultOf
<1>5. ExecutedOK' /\ ResultOK'
  BY DEF Inv, TypeOK, Goto, ExecutedOK, ResultOK, Frozen, TheRun, TheKey
<1>6. ReplyOK'
  BY DEF Inv, TypeOK, Goto, ReplyOK, TheRun, TheKey
<1>7. QED
  BY <1>1, <1>2, <1>3, <1>4, <1>5, <1>6 DEF Inv

\* The steps that only move a copy, and the lost acknowledgement of any step.
LEMMA LocalMovesInv ==
    ASSUME Inv, NEW c \in Copies,
           \/ get_chat_tool_checkpoint(c) \/ Authorize(c) \/ Policy(c) \/ UseReply(c)
           \/ SecondOutput(c) \/ Fail(c) \/ Crash(c)
    PROVE Inv'
<1> USE DEF storeVars, localVars
<1>1. UNCHANGED <<decision, checkpoint, runs, events, executed, outcome, reply>>
  BY DEF get_chat_tool_checkpoint, Authorize, Policy, UseReply, SecondOutput, Fail, Crash
<1>2. ASSUME NEW s \in {"error", "crashed", "plain"}, Goto(c, s)
      PROVE Inv'
  BY <1>1, <1>2, MoveInv DEF States, Final, HasDecision, Tool, Own, OwnQueued, OwnRunning,
     Replied
<1>3. CASE get_chat_tool_checkpoint(c) \/ Fail(c) \/ Crash(c)
  BY <1>2, <1>3 DEF get_chat_tool_checkpoint, Fail, Crash
<1>4. CASE Authorize(c)
  <2>1. CASE Goto(c, "freeze")
    BY <1>1, <1>4, <2>1, MoveInv DEF Authorize, States, Final, HasDecision, Tool, Own,
       OwnQueued, OwnRunning, Replied
  <2>2. QED
    BY <1>2, <1>4, <2>1 DEF Authorize, GotoOrError
<1>5. CASE Policy(c)
  <2>1. PICK s \in {"block", "start"} : Goto(c, s)
    BY <1>5 DEF Policy
  <2>2. QED
    BY <1>1, <1>5, <2>1, MoveInv DEF Policy, States, Final, HasDecision, Tool, Own,
       OwnQueued, OwnRunning, Replied
<1>6. CASE UseReply(c)
  <2>1. CASE reply[c].status = "completed"
    BY <1>1, <1>6, <2>1, MoveInv DEF UseReply, States, Final, HasDecision, Tool, Own,
       OwnQueued, OwnRunning, Replied
  <2>2. QED
    BY <1>2, <1>6, <2>1 DEF UseReply
<1>7. CASE SecondOutput(c)
  <2>1. CASE Goto(c, "answered")
    <3>1. reply[c].status = "completed"
      BY <1>7 DEF SecondOutput, Inv, ReplyOK
    <3>2. QED
      BY <1>1, <1>7, <2>1, <3>1, MoveInv DEF SecondOutput, States, Final, HasDecision, Tool,
         Own, OwnQueued, OwnRunning, Replied
  <2>2. QED
    BY <1>2, <1>7, <2>1 DEF SecondOutput, GotoOrError
<1>8. QED
  BY <1>3, <1>4, <1>5, <1>6, <1>7

-----------------------------------------------------------------------------
(* The run under the one key                                                *)

\* A run keeps its owner when its status is written.
LEMMA UpdatedRun ==
    ASSUME NEW r \in Run, NEW st \in Statuses, NEW res \in Copies \cup {NoCopy}
    PROVE LET u == update_run(r, st, res)
          IN  u \in Run /\ u.run_id = r.run_id /\ u.status = st /\ u.result = res
BY DEF update_run, Run

\* What the owner's status write does to the store.
LEMMA StatusWritten ==
    ASSUME Inv, NEW c \in Copies, pc[c] \in Own, UNCHANGED checkpoint,
           NEW st \in Statuses, NEW res \in Copies \cup {NoCopy}, SetStatus(c, st, res)
    PROVE /\ runs' \in [Keys -> Run \cup {NoRun}]
          /\ \A k \in Keys : k # TheKey => runs'[k] = runs[k]
          /\ TheRun' # NoRun /\ TheRun'.run_id = c
          /\ TheRun'.status = st /\ TheRun'.result = res
<1>1. /\ TheKey \in Keys /\ IdempotencyKey(c) = TheKey /\ TheKey' = TheKey
  BY KeyIsOne DEF TheKey, Tool
<1>2. TheRun \in Run /\ TheRun.run_id = c
  BY <1>1 DEF Inv, TypeOK, OwnerOK, TheRun
<1>3. runs' = [runs EXCEPT ![TheKey] = update_run(TheRun, st, res)]
  BY <1>1 DEF SetStatus, TheRun
<1>4. TheRun' = update_run(TheRun, st, res)
  BY <1>1, <1>3 DEF Inv, TypeOK, TheRun
<1>5. QED
  BY <1>1, <1>2, <1>3, <1>4, UpdatedRun, CommandRunAssumption DEF Inv, TypeOK

\* A move, to the place an action names or to "error".
LEMMA Moved ==
    ASSUME Inv, NEW c \in Copies, NEW s \in States, Goto(c, s) \/ GotoOrError(c, s)
    PROVE /\ pc' \in [Copies -> States]
          /\ pc'[c] \in {s, "error"}
          /\ \A d \in Copies : d # c => pc'[d] = pc[d]
BY DEF Inv, TypeOK, Goto, GotoOrError, States, Final

\* The first output gives the copy its decision.
LEMMA FirstOutputInv ==
    ASSUME Inv, NEW c \in Copies, FirstOutput(c)
    PROVE Inv'
<1> USE DEF Inv, storeVars, localVars
<1>1. PICK s \in {"check", "authorize"}, d \in Decision \cup {NoDecision} :
          /\ Goto(c, s) /\ decision' = [decision EXCEPT ![c] = d]
          /\ s = "authorize" => d \in Decision
          /\ pc[c] = "idle"
          /\ UNCHANGED <<checkpoint, runs, events, executed, outcome, reply>>
  <2>1. CASE Goto(c, "check") /\ UNCHANGED decision
    <3>1. decision' = [decision EXCEPT ![c] = decision[c]] /\ decision[c] \in Decision \cup {NoDecision}
      BY <2>1 DEF TypeOK
    <3>2. QED
      BY <2>1, <3>1 DEF FirstOutput
  <2>2. QED
    BY <2>1 DEF FirstOutput
<1>2. TypeOK'
  BY <1>1 DEF TypeOK, Goto, States
<1>3. TheRun' = TheRun /\ TheKey' = TheKey /\ Frozen' = Frozen
  BY <1>1 DEF TheRun, TheKey, Frozen
<1>4. CheckpointOK' /\ RunsOK'
  BY <1>1, <1>3 DEF CheckpointOK, RunsOK
<1>5. DecisionOK'
  BY <1>1, <1>3 DEF TypeOK, Goto, DecisionOK, HasDecision, Tool, Own, OwnQueued, OwnRunning,
     Replied
<1>6. OwnerOK'
  BY <1>1, <1>3 DEF TypeOK, Goto, OwnerOK, ResultOf, HasDecision, Tool, Own, OwnQueued,
     OwnRunning, Replied
<1>7. ExecutedOK' /\ ResultOK' /\ ReplyOK'
  BY <1>1, <1>3 DEF TypeOK, Goto, ExecutedOK, ResultOK, ReplyOK, HasDecision, Tool, Own,
     OwnQueued, OwnRunning, Replied
<1>8. QED
  BY <1>2, <1>4, <1>5, <1>6, <1>7

\* The first decision is frozen while no run exists; a later one must agree.
LEMMA FreezeInv ==
    ASSUME Inv, NEW c \in Copies, freeze_chat_tool_decision(c)
    PROVE Inv'
<1> USE DEF Inv, storeVars, localVars
<1>0. /\ pc[c] = "freeze" /\ decision[c] \in Decision
      /\ UNCHANGED <<decision, runs, events, executed, outcome, reply>>
      /\ checkpoint' = FrozenBy(c)
  BY DEF freeze_chat_tool_decision, DecisionOK, HasDecision, Tool, Own, OwnQueued,
     OwnRunning, Replied
<1>1. CASE Frozen
  <2>1. UNCHANGED checkpoint
    BY <1>0, <1>1 DEF FrozenBy
  <2>2. CASE Goto(c, "error")
    BY <1>0, <2>1, <2>2, MoveInv DEF States, Final, HasDecision, Tool, Own, OwnQueued,
       OwnRunning, Replied
  <2>3. CASE Goto(c, "lookup") /\ checkpoint.decision = decision[c]
    <3>1. TypeOK' /\ TheRun' = TheRun /\ TheKey' = TheKey /\ Frozen'
      BY <1>0, <1>1, <2>1, <2>3 DEF TypeOK, Goto, States, TheRun, TheKey, Frozen
    <3>2. CheckpointOK' /\ RunsOK' /\ DecisionOK'
      BY <1>0, <1>1, <2>1, <2>3, <3>1 DEF TypeOK, Goto, CheckpointOK, RunsOK, DecisionOK,
         HasDecision, Tool, Own, OwnQueued, OwnRunning, Replied
    <3>3. OwnerOK'
      BY <1>0, <2>3, <3>1 DEF TypeOK, Goto, OwnerOK, ResultOf, HasDecision, Tool, Own,
         OwnQueued, OwnRunning, Replied
    <3>4. ExecutedOK' /\ ResultOK' /\ ReplyOK'
      BY <1>0, <1>1, <2>1, <2>3, <3>1 DEF TypeOK, Goto, ExecutedOK, ResultOK, ReplyOK,
         HasDecision, Tool, Own, OwnQueued, OwnRunning, Replied
    <3>5. QED
      BY <3>1, <3>2, <3>3, <3>4
  <2>4. QED
    BY <1>0, <1>1, <2>2, <2>3 DEF freeze_chat_tool_decision, FrozenBy, GotoOrError
<1>2. CASE ~Frozen
  <2>1. /\ \A k \in Keys : runs'[k] = NoRun
        /\ \A d \in Copies : executed'[d] = {} /\ pc[d] \notin Tool
    BY <1>0, <1>2 DEF RunsOK, ExecutedOK, DecisionOK
  <2>2. PICK s \in {"lookup", "error"} : Goto(c, s)
    BY DEF freeze_chat_tool_decision, GotoOrError
  <2>3. /\ checkpoint' = [tool_turn_id |-> c, decision |-> decision[c]]
        /\ Frozen' /\ TheKey' \in Keys
    BY <1>0, <1>2, CommandRunAssumption
       DEF FrozenBy, Frozen, NoCheckpoint, TheKey, Keys, Decision
  <2>4. TypeOK'
    BY <1>0, <2>2, <2>3 DEF TypeOK, Goto, States, Final
  <2>5. CheckpointOK' /\ RunsOK' /\ DecisionOK'
    BY <1>0, <2>1, <2>2, <2>3 DEF TypeOK, Goto, CheckpointOK, RunsOK, DecisionOK,
       HasDecision, Tool, Own, OwnQueued, OwnRunning, Replied
  <2>6. \A d \in Copies : pc'[d] \notin Own \cup Replied \cup {"finish", "finished"}
    BY <1>0, <2>1, <2>2 DEF TypeOK, Goto, HasDecision, Tool, Own, OwnQueued, OwnRunning, Replied
  <2>7. TheRun' = NoRun
    BY <2>1, <2>3 DEF TheRun
  <2>8. OwnerOK' /\ ExecutedOK' /\ ResultOK' /\ ReplyOK'
    BY <2>1, <2>6, <2>7 DEF OwnerOK, ExecutedOK, ResultOK, ReplyOK, Replied
  <2>9. QED
    BY <2>4, <2>5, <2>8
<1>3. QED
  BY <1>1, <1>2

\* A replay tells the copy what the run says.
LEMMA ReplayInv ==
    ASSUME Inv, NEW c \in Copies, pc[c] \in {"lookup", "create"}, TheRun # NoRun, Replay(c),
           UNCHANGED <<decision, checkpoint, runs, events, executed, outcome>>
    PROVE Inv'
<1> USE DEF Inv
<1>1. /\ Frozen /\ TheKey \in Keys /\ ExistingRun(c) = TheRun
      /\ TheRun' = TheRun /\ TheKey' = TheKey /\ Frozen' = Frozen
  BY KeyIsOne DEF ExistingRun, TheRun, TheKey, Frozen, Tool
<1>2. CASE Goto(c, "error") /\ UNCHANGED reply
  BY <1>2, MoveInv DEF States, Final, HasDecision, Tool, Own, OwnQueued, OwnRunning, Replied
<1>3. CASE /\ Goto(c, "reply")
           /\ reply' = [reply EXCEPT ![c] = [status |-> TheRun.status, result |-> TheRun.result]]
  <2>1. TheRun \in Run
    BY <1>1 DEF TypeOK, TheRun
  <2>2. pc' \in [Copies -> States] /\ reply' \in [Copies -> Reply]
    BY <1>3, <2>1 DEF TypeOK, Goto, States, Run, Reply
  <2>3. TypeOK'
    BY <2>2 DEF TypeOK
  <2>4. CheckpointOK' /\ RunsOK' /\ DecisionOK'
    BY <1>1, <1>3 DEF TypeOK, Goto, CheckpointOK, RunsOK, DecisionOK, HasDecision, Tool, Own,
       OwnQueued, OwnRunning, Replied
  <2>5. OwnerOK'
    BY <1>1, <1>3 DEF TypeOK, Goto, OwnerOK, ResultOf, HasDecision, Tool, Own, OwnQueued,
       OwnRunning, Replied
  <2>6. ExecutedOK' /\ ResultOK'
    BY <1>1, <1>3 DEF TypeOK, Goto, ExecutedOK, ResultOK
  <2>7. ReplyOK'
    BY <1>1, <1>3 DEF TypeOK, Goto, ReplyOK, Replied
  <2>8. QED
    BY <2>3, <2>4, <2>5, <2>6, <2>7
<1>4. QED
  BY <1>1, <1>2, <1>3 DEF Replay, _response_from_existing_run

LEMMA LookupInv ==
    ASSUME Inv, NEW c \in Copies, get_run_by_idempotency_key(c)
    PROVE Inv'
<1>1. ExistingRun(c) = TheRun /\ pc[c] = "lookup"
  BY KeyIsOne DEF get_run_by_idempotency_key, ExistingRun, TheRun, Tool
<1>2. CASE TheRun = NoRun
  BY <1>1, <1>2, MoveInv DEF get_run_by_idempotency_key, storeVars, States, Final,
     HasDecision, Tool, Own, OwnQueued, OwnRunning, Replied
<1>3. CASE TheRun # NoRun
  BY <1>1, <1>3, ReplayInv DEF get_run_by_idempotency_key, storeVars
<1>4. QED
  BY <1>2, <1>3

\* The unique key gives the run one owner.
LEMMA CreateRunInv ==
    ASSUME Inv, NEW c \in Copies, CreateRun(c)
    PROVE Inv'
<1> USE DEF Inv
<1>1. /\ Frozen /\ TheKey \in Keys /\ IdempotencyKey(c) = TheKey /\ ExistingRun(c) = TheRun
      /\ decision[c] = checkpoint.decision /\ decision[c] \in Decision /\ pc[c] = "create"
      /\ UNCHANGED <<decision, checkpoint, events, executed, outcome>>
      /\ TheKey' = TheKey /\ Frozen' = Frozen
  BY KeyIsOne DEF CreateRun, ExistingRun, TheRun, TheKey, Frozen, Tool
<1>2. CASE TheRun # NoRun
  BY <1>1, <1>2, ReplayInv DEF CreateRun
<1>3. CASE TheRun = NoRun
  <2> DEFINE r == create_run(c, decision[c])
  <2>1. runs' = [runs EXCEPT ![TheKey] = r] /\ UNCHANGED reply /\ GotoOrError(c, "created")
    BY <1>1, <1>3 DEF CreateRun
  <2>2. r \in Run /\ r.run_id = c /\ r.status = "queued"
    BY <1>1 DEF create_run, Run, Decision, Statuses
  <2>3. TheRun' = r /\ TheRun' # NoRun
    BY <1>1, <2>1, <2>2, CommandRunAssumption DEF TypeOK, TheRun
  <2>4. /\ pc' \in [Copies -> States] /\ pc'[c] \in {"created", "error"}
        /\ \A d \in Copies : d # c => pc'[d] = pc[d]
    BY <2>1, Moved DEF States
  <2>5. TypeOK'
    BY <1>1, <2>1, <2>2, <2>4 DEF TypeOK
  <2>6. CheckpointOK' /\ RunsOK'
    BY <1>1, <2>1 DEF TypeOK, CheckpointOK, RunsOK
  <2>7. DecisionOK'
    BY <1>1, <2>4 DEF DecisionOK, HasDecision, Tool, Own, OwnQueued, OwnRunning, Replied
  <2>8. \A d \in Copies : pc[d] \notin Own /\ executed[d] = {}
    BY <1>3 DEF OwnerOK, ExecutedOK
  <2>9. OwnerOK'
    BY <2>2, <2>3, <2>4, <2>8 DEF OwnerOK, HasDecision, Tool, Own, OwnQueued, OwnRunning,
       Replied
  <2>10. ExecutedOK' /\ ResultOK'
    BY <1>1, <2>2, <2>3, <2>4, <2>8 DEF ExecutedOK, ResultOK, HasDecision, Tool, Own,
       OwnQueued, OwnRunning, Replied
  <2>11. ReplyOK'
    BY <1>3, <2>1, <2>4 DEF ReplyOK, HasDecision, Tool, Own, OwnQueued, OwnRunning, Replied
  <2>12. QED
    BY <2>5, <2>6, <2>7, <2>9, <2>10, <2>11
<1>4. QED
  BY <1>2, <1>3

\* The run is not terminal yet when its owner writes a status, so no copy was
\* told of it as completed.
LEMMA StatusInv ==
    ASSUME Inv, NEW c \in Copies, pc[c] \in OwnQueued \cup OwnRunning, NEW st \in Statuses,
           NEW res \in Copies \cup {NoCopy}, SetStatus(c, st, res),
           NEW s \in Own, GotoOrError(c, s),
           UNCHANGED <<decision, checkpoint, events, executed, outcome, reply>>,
           s \notin OwnQueued,
           s \in OwnRunning => st = "running" /\ s # "finish",
           s = "blocked" => st = "blocked" /\ res = NoCopy,
           s = "finished" => st = outcome[c] /\ res = ResultOf(c) /\ pc[c] = "finish",
           st = "completed" => res = c /\ executed[c] # {}
    PROVE Inv'
<1> USE DEF Inv
<1>1. pc[c] \in Own /\ pc[c] \in Tool /\ TheKey' = TheKey /\ Frozen' = Frozen /\ Frozen
  BY KeyIsOne DEF TheKey, Frozen, Tool, Own
<1>2. /\ runs' \in [Keys -> Run \cup {NoRun}]
      /\ \A k \in Keys : k # TheKey => runs'[k] = runs[k]
      /\ TheRun' # NoRun /\ TheRun'.run_id = c
      /\ TheRun'.status = st /\ TheRun'.result = res
  BY <1>1, StatusWritten
<1>3. /\ pc' \in [Copies -> States] /\ pc'[c] \in {s, "error"}
      /\ \A d \in Copies : d # c => pc'[d] = pc[d]
  BY Moved DEF States, HasDecision, Tool, Own, OwnQueued, OwnRunning, Replied
<1>4. TheRun.run_id = c /\ TheRun # NoRun /\ TheRun.status \in {"queued", "running"}
  BY <1>1 DEF OwnerOK
<1>5. TypeOK'
  BY <1>2, <1>3 DEF TypeOK
<1>6. CheckpointOK' /\ RunsOK'
  BY <1>1, <1>2 DEF CheckpointOK, RunsOK
<1>7. DecisionOK'
  BY <1>1, <1>3 DEF DecisionOK, HasDecision, Tool, Own, OwnQueued, OwnRunning, Replied
<1>8. \A d \in Copies : d # c => pc'[d] \notin Own
  BY <1>3, <1>4 DEF OwnerOK
<1>9. OwnerOK'
  BY <1>2, <1>3, <1>8 DEF OwnerOK, ResultOf, HasDecision, Tool, Own, OwnQueued, OwnRunning,
     Replied
<1>10. ExecutedOK'
  BY <1>1, <1>2, <1>4 DEF ExecutedOK
<1>11. ResultOK'
  BY <1>2, <1>3, <1>8 DEF ResultOK, HasDecision, Tool, Own, OwnQueued, OwnRunning, Replied
<1>12. ReplyOK'
  BY <1>3, <1>4 DEF ReplyOK, HasDecision, Tool, Own, OwnQueued, OwnRunning, Replied
<1>13. QED
  BY <1>5, <1>6, <1>7, <1>9, <1>10, <1>11, <1>12

\* Only the owner blocks, starts and finishes its run.
LEMMA StatusWritesInv ==
    ASSUME Inv, NEW c \in Copies, Block(c) \/ Start(c) \/ Finish(c)
    PROVE Inv'
<1> USE DEF localVars, HasDecision, Tool, Own, OwnQueued, OwnRunning, Replied, Statuses,
        TERMINAL_STATUSES
<1>1. CASE Block(c)
  BY <1>1, StatusInv DEF Block
<1>2. CASE Start(c)
  BY <1>2, StatusInv DEF Start
<1>3. CASE Finish(c)
  <2>1. outcome[c] \in Statuses /\ ResultOf(c) \in Copies \cup {NoCopy}
    BY DEF Inv, TypeOK, ResultOf
  <2>2. outcome[c] = "completed" => ResultOf(c) = c /\ executed[c] # {}
    BY <1>3 DEF Finish, ResultOf, Inv, ResultOK
  <2>3. QED
    BY <1>3, <2>1, <2>2, StatusInv DEF Finish
<1>4. QED
  BY <1>1, <1>2, <1>3

\* An event changes the stream only; the terminal one is followed by the reply.
LEMMA EventInv ==
    ASSUME Inv, NEW c \in Copies, pc[c] \in Own, NEW e \in EventTypes, append_event(c, e),
           UNCHANGED <<decision, checkpoint, runs, executed, outcome>>,
           NEW s \in States, GotoOrError(c, s),
           \/ /\ UNCHANGED reply
              /\ \/ s \in OwnQueued /\ pc[c] \in OwnQueued
                 \/ s \in OwnRunning /\ s # "finish" /\ pc[c] \in OwnRunning
           \/ /\ s = "reply"
              /\ TheRun.status \in Statuses /\ TheRun.result \in Copies \cup {NoCopy}
              /\ reply' = [reply EXCEPT ![c] = [status |-> TheRun.status, result |-> TheRun.result]]
    PROVE Inv'
<1> USE DEF Inv
<1>1. /\ Frozen /\ TheKey \in Keys /\ IdempotencyKey(c) = TheKey
      /\ TheRun' = TheRun /\ TheKey' = TheKey /\ Frozen' = Frozen
  BY KeyIsOne DEF TheRun, TheKey, Frozen, Tool
<1>2. /\ pc' \in [Copies -> States] /\ pc'[c] \in {s, "error"}
      /\ \A d \in Copies : d # c => pc'[d] = pc[d]
  BY Moved
<1>3. events' \in [Keys -> Seq(EventTypes)]
  BY <1>1 DEF TypeOK, append_event
<1>4. reply' \in [Copies -> Reply] /\ \A d \in Copies : d # c => reply'[d] = reply[d]
  <2> DEFINE p == [status |-> TheRun.status, result |-> TheRun.result]
  <2>1. CASE UNCHANGED reply
    BY <2>1 DEF TypeOK
  <2>2. CASE p \in Reply /\ reply' = [reply EXCEPT ![c] = p]
    BY <2>2 DEF TypeOK
  <2>3. QED
    BY <2>1, <2>2 DEF Reply
<1>5. TypeOK'
  BY <1>2, <1>3, <1>4 DEF TypeOK
<1>6. CheckpointOK' /\ RunsOK' /\ DecisionOK'
  BY <1>1, <1>2 DEF CheckpointOK, RunsOK, DecisionOK, HasDecision, Tool, Own, OwnQueued,
     OwnRunning, Replied
<1>7. OwnerOK'
  BY <1>1, <1>2 DEF OwnerOK, ResultOf, HasDecision, Tool, Own, OwnQueued, OwnRunning, Replied
<1>8. ExecutedOK' /\ ResultOK'
  BY <1>1, <1>2 DEF ExecutedOK, ResultOK, HasDecision, Tool, Own, OwnQueued, OwnRunning, Replied
<1>9. ReplyOK'
  BY <1>1, <1>2, <1>4 DEF TypeOK, ReplyOK, OwnerOK, HasDecision, Tool, Own, OwnQueued,
     OwnRunning, Replied
<1>10. QED
  BY <1>5, <1>6, <1>7, <1>8, <1>9

LEMMA EventsInv ==
    ASSUME Inv, NEW c \in Copies, RunCreated(c) \/ RunStarted(c) \/ RunBlocked(c) \/ RunFinished(c)
    PROVE Inv'
<1> USE DEF localVars, HasDecision, Tool, Own, OwnQueued, OwnRunning, Replied, EventTypes,
        TERMINAL_STATUSES, States
<1>1. CASE RunCreated(c)
  BY <1>1, EventInv DEF RunCreated
<1>2. CASE RunStarted(c)
  BY <1>2, EventInv DEF RunStarted
<1>3. CASE RunBlocked(c)
  <2>1. TheRun.status = "blocked" /\ TheRun.result = NoCopy
    BY <1>3 DEF RunBlocked, Inv, OwnerOK
  <2>2. QED
    BY <1>3, <2>1, EventInv DEF RunBlocked, Statuses
<1>4. CASE RunFinished(c)
  <2>1. TheRun.status = outcome[c] /\ TheRun.result = ResultOf(c)
    BY <1>4 DEF RunFinished, Inv, OwnerOK
  <2>2. outcome[c] \in EventTypes /\ outcome[c] \in Statuses /\ ResultOf(c) \in Copies \cup {NoCopy}
    BY DEF Inv, TypeOK, ResultOf, Statuses
  <2>3. QED
    BY <1>4, <2>1, <2>2, EventInv DEF RunFinished
<1>5. QED
  BY <1>1, <1>2, <1>3, <1>4

\* Only the owner of the run executes, and only the frozen decision.
LEMMA ExecuteInv ==
    ASSUME Inv, NEW c \in Copies, Execute(c)
    PROVE Inv'
<1> USE DEF Inv
<1>1. /\ Frozen /\ TheKey \in Keys /\ decision[c] = checkpoint.decision /\ decision[c] \in Decision
      /\ UNCHANGED <<decision, checkpoint, runs, events, reply>> /\ pc[c] = "execute"
      /\ TheRun' = TheRun /\ TheKey' = TheKey /\ Frozen' = Frozen /\ Goto(c, "finish")
  BY KeyIsOne DEF Execute, storeVars, TheRun, TheKey, Frozen, HasDecision, Tool, Own,
     OwnQueued, OwnRunning, Replied
<1>2. PICK o \in TERMINAL_STATUSES, E \in {executed[c], executed[c] \cup {decision[c]}} :
          /\ outcome' = [outcome EXCEPT ![c] = o]
          /\ executed' = [executed EXCEPT ![c] = E]
          /\ o = "completed" => E = executed[c] \cup {decision[c]}
  <2>1. CASE UNCHANGED executed /\ \E o \in {"blocked", "failed"} : outcome' = [outcome EXCEPT ![c] = o]
    <3>1. executed' = [executed EXCEPT ![c] = executed[c]]
      BY <2>1 DEF TypeOK
    <3>2. QED
      BY <2>1, <3>1 DEF TERMINAL_STATUSES
  <2>2. QED
    BY <2>1 DEF Execute, TERMINAL_STATUSES
<1>3. TheRun # NoRun /\ TheRun.run_id = c /\ TheRun.status = "running"
  BY <1>1 DEF OwnerOK, HasDecision, Tool, Own, OwnQueued, OwnRunning, Replied
<1>4. TypeOK'
  BY <1>1, <1>2 DEF TypeOK, Goto, States
<1>5. /\ pc' \in [Copies -> States] /\ pc'[c] = "finish"
      /\ \A d \in Copies : d # c => pc'[d] = pc[d]
  BY <1>1 DEF TypeOK, Goto, States
<1>6. CheckpointOK' /\ RunsOK' /\ DecisionOK'
  BY <1>1, <1>5 DEF CheckpointOK, RunsOK, DecisionOK, HasDecision, Tool, Own, OwnQueued,
     OwnRunning, Replied
<1>7. OwnerOK'
  BY <1>1, <1>3, <1>5 DEF OwnerOK, HasDecision, Tool, Own, OwnQueued, OwnRunning, Replied
<1>8. ExecutedOK'
  BY <1>1, <1>2, <1>3 DEF TypeOK, ExecutedOK
<1>9. ResultOK'
  BY <1>1, <1>2, <1>3, <1>5 DEF TypeOK, ResultOK
<1>10. ReplyOK'
  BY <1>1, <1>5 DEF ReplyOK, Replied
<1>11. QED
  BY <1>4, <1>6, <1>7, <1>8, <1>9, <1>10

\* So every step preserves the invariant.
LEMMA NextInv == Inv /\ [Next]_vars => Inv'
<1> SUFFICES ASSUME Inv, [Next]_vars PROVE Inv'
  OBVIOUS
<1>1. ASSUME NEW c \in Copies, Step(c) \/ Crash(c)
      PROVE Inv'
  BY <1>1, LocalMovesInv, FirstOutputInv, FreezeInv, LookupInv, CreateRunInv, StatusWritesInv,
     EventsInv, ExecuteInv DEF Step
<1>2. CASE UNCHANGED vars
  <2>1. TheRun' = TheRun /\ TheKey' = TheKey /\ Frozen' = Frozen
    BY <1>2 DEF vars, TheRun, TheKey, Frozen
  <2>2. TypeOK' /\ CheckpointOK' /\ DecisionOK' /\ RunsOK'
    BY <1>2, <2>1 DEF vars, Inv, TypeOK, CheckpointOK, DecisionOK, RunsOK
  <2>3. OwnerOK' /\ ExecutedOK' /\ ResultOK' /\ ReplyOK'
    BY <1>2, <2>1 DEF vars, Inv, OwnerOK, ExecutedOK, ResultOK, ReplyOK, ResultOf
  <2>4. QED
    BY <2>2, <2>3 DEF Inv
<1>3. QED
  BY <1>1, <1>2 DEF Next

\* The invariant holds throughout.
LEMMA Invariance == Spec => []Inv
  BY InitInv, NextInv, PTL DEF Spec

-----------------------------------------------------------------------------
(* Theorems                                                                 *)

\* Every variable keeps its type.
THEOREM TypeCorrect == Spec => []TypeOK
<1>1. Inv => TypeOK
  BY DEF Inv
<1>2. QED
  BY <1>1, Invariance, PTL

\* However many copies of a task run and wherever they die, the handlers run
\* for one copy and one decision: the unique idempotency key has one owner.
THEOREM DispatchSafety == Spec => []AtMostOnceDispatch
<1>1. Inv => AtMostOnceDispatch
  BY DEF Inv, ExecutedOK, AtMostOnceDispatch
<1>2. QED
  BY <1>1, Invariance, PTL

\* No handler runs for a decision the attempt row did not freeze first.
THEOREM FreezeSafety == Spec => []ExecutedIsFrozen
<1>1. Inv => ExecutedIsFrozen
  BY DEF Inv, ExecutedOK, ExecutedIsFrozen
<1>2. QED
  BY <1>1, Invariance, PTL

\* Every tool answer rests on a completed run and a real execution of the
\* decision of the copy that answers.
THEOREM AnswerSafety == Spec => []AnswerFromRun
<1>1. Inv => AnswerFromRun
  <2> SUFFICES ASSUME Inv, NEW c \in Copies, pc[c] = "answered"
               PROVE /\ TheRun.status = "completed"
                     /\ reply[c].result = TheRun.result
                     /\ executed[TheRun.result] = {decision[c]}
                     /\ ExistingRun(c) = TheRun
    BY DEF AnswerFromRun
  <2>1. ExistingRun(c) = TheRun /\ Frozen /\ decision[c] = checkpoint.decision
    BY KeyIsOne DEF ExistingRun, TheRun, Tool, Replied
  <2>2. TheRun # NoRun /\ TheRun.status = "completed" /\ reply[c].result = TheRun.result
    BY DEF Inv, ReplyOK, Replied
  <2>3. TheRun.result \in Copies /\ executed[TheRun.result] = {checkpoint.decision}
    BY <2>1, <2>2 DEF Inv, ResultOK, ExecutedOK
  <2>4. QED
    BY <2>1, <2>2, <2>3
<1>2. QED
  BY <1>1, Invariance, PTL

\* No step changes a terminal run: update_run overwrites whatever it finds, but
\* only the owner calls it, and its places exclude a terminal status.
LEMMA TerminalRunStep ==
    ASSUME Inv, Next, NEW k \in Keys, runs[k] # NoRun, runs[k].status \in TERMINAL_STATUSES
    PROVE runs'[k] = runs[k]
<1>1. PICK c \in Copies : Step(c) \/ Crash(c)
  BY DEF Next
<1>2. k = TheKey /\ runs[k] = TheRun
  BY DEF Inv, RunsOK, TheRun
<1>3. CASE Block(c) \/ Start(c) \/ Finish(c)
  <2>1. pc[c] \in OwnQueued \cup OwnRunning
    BY <1>3 DEF Block, Start, Finish, OwnQueued, OwnRunning
  <2>2. TheRun.status \in {"queued", "running"}
    BY <2>1 DEF Inv, OwnerOK, Own
  <2>3. QED
    BY <1>2, <2>2 DEF TERMINAL_STATUSES
<1>4. CASE CreateRun(c)
  <2>1. ExistingRun(c) = TheRun
    BY <1>4, KeyIsOne DEF CreateRun, ExistingRun, TheRun, Tool
  <2>2. QED
    BY <1>2, <1>4, <2>1 DEF CreateRun
<1>5. CASE UNCHANGED runs
  BY <1>5
<1>6. QED
  BY <1>1, <1>3, <1>4, <1>5 DEF Step, FirstOutput, get_chat_tool_checkpoint, Authorize,
     freeze_chat_tool_decision, get_run_by_idempotency_key, RunCreated, Policy, RunBlocked,
     RunStarted, Execute, RunFinished, UseReply, SecondOutput, Fail, Crash, storeVars, localVars

\* A run that ended keeps its status and its result.
THEOREM TerminalRunsStand == Spec => TerminalRunFinal
<1>1. Inv /\ [Next]_vars =>
          [\A k \in Keys : (runs[k] # NoRun /\ runs[k].status \in TERMINAL_STATUSES)
                               => runs'[k] = runs[k]]_vars
  BY TerminalRunStep
<1>2. QED
  BY <1>1, Invariance, PTL DEF Spec, TerminalRunFinal

\* The mapped history of executions.
Performed == {p \in Copies \X Decision : p[2] \in executed[p[1]]}

\* A step freezes the decision, performs it, or leaves both alone.
LEMMA DispatchStep ==
    ASSUME Inv, Next
    PROVE \/ \E d \in Decision : Dispatch!Choose(d)
          \/ \E c \in Copies : Dispatch!Perform(c)
          \/ UNCHANGED Dispatch!vars
<1> USE DEF Dispatch!Choose, Dispatch!Perform, Dispatch!vars
<1>1. PICK c \in Copies : Step(c) \/ Crash(c)
  BY DEF Next
<1>2. CASE UNCHANGED <<checkpoint, executed>>
  BY <1>2
<1>3. CASE freeze_chat_tool_decision(c)
  <2>1. UNCHANGED executed /\ decision[c] \in Decision /\ checkpoint' = FrozenBy(c)
    BY <1>3 DEF freeze_chat_tool_decision, localVars, Inv, DecisionOK, HasDecision
  <2>2. CASE Frozen
    BY <2>1, <2>2 DEF FrozenBy
  <2>3. CASE ~Frozen
    <3>1. checkpoint.decision = NoDecision /\ checkpoint'.decision = decision[c]
      BY <2>1, <2>3 DEF FrozenBy, Frozen, NoCheckpoint
    <3>2. QED
      BY <2>1, <3>1
  <2>4. QED
    BY <2>2, <2>3
<1>4. CASE Execute(c)
  <2>1. /\ Frozen /\ decision[c] = checkpoint.decision /\ decision[c] \in Decision
        /\ UNCHANGED checkpoint /\ checkpoint.decision # NoDecision
        /\ TheRun.run_id = c
    BY <1>4, KeyIsOne, DecisionAssumption DEF Execute, Inv, OwnerOK, Tool, Own, OwnRunning
  <2>2. CASE UNCHANGED executed
    BY <2>1, <2>2
  <2>3. CASE executed' = [executed EXCEPT ![c] = @ \cup {decision[c]}]
    <3>1. \A d \in Copies : d # c => executed[d] = {}
      BY <2>1 DEF Inv, ExecutedOK
    <3>2. Performed' = {<<c, checkpoint.decision>>}
      <4>1. executed'[c] = {checkpoint.decision} /\ \A d \in Copies : d # c => executed'[d] = {}
        BY <2>1, <2>3, <3>1 DEF Inv, TypeOK, ExecutedOK
      <4>2. QED
        BY <2>1, <4>1 DEF Performed
    <3>3. CASE executed[c] = {}
      <4>1. Performed = {}
        BY <3>1, <3>3 DEF Performed
      <4>2. QED
        BY <2>1, <3>2, <4>1 DEF Performed
    <3>4. CASE executed[c] # {}
      <4>1. UNCHANGED executed
        BY <2>1, <2>3, <3>4 DEF Inv, TypeOK, ExecutedOK
      <4>2. QED
        BY <2>1, <4>1
    <3>5. QED
      BY <3>3, <3>4
  <2>4. QED
    BY <1>4, <2>2, <2>3 DEF Execute
<1>5. QED
  BY <1>1, <1>2, <1>3, <1>4 DEF Step, FirstOutput, get_chat_tool_checkpoint, Authorize,
     get_run_by_idempotency_key, CreateRun, RunCreated, Policy, Block, RunBlocked, Start,
     RunStarted, Finish, RunFinished, UseReply, SecondOutput, Fail, Crash, storeVars, localVars

\* The tool turn implements the at-most-once dispatch of DispatchOnce: the
\* checkpoint chooses the work, and one copy at most performs it.
THEOREM TurnImplementsDispatch == Spec => ImplementsDispatch
<1>1. Init => Dispatch!Init
  BY DEF Init, Dispatch!Init, NoCheckpoint
<1>2. Inv /\ [Next]_vars => [Dispatch!Next]_(Dispatch!vars)
  <2> SUFFICES ASSUME Inv, [Next]_vars
               PROVE Dispatch!Next \/ UNCHANGED Dispatch!vars
    OBVIOUS
  <2>1. CASE Next
    BY <2>1, DispatchStep DEF Dispatch!Next
  <2>2. CASE UNCHANGED vars
    BY <2>2 DEF vars, Dispatch!vars
  <2>3. QED
    BY <2>1, <2>2
<1>3. QED
  BY <1>1, <1>2, Invariance, PTL DEF Spec, ImplementsDispatch, Dispatch!Spec

-----------------------------------------------------------------------------
(* The event stream                                                         *)

HasCreated == {"policy", "block", "start", "blocked", "started"}
HasStarted == {"execute", "finish", "finished"}

\* The stream under key k tells a prefix of a legal story, and a terminal event
\* names the status of the row.
StoryOK(k) ==
    /\ events[k] \in {<<>>, <<"created">>, <<"created", "blocked">>, <<"created", "started">>}
                     \cup {<<"created", "started", s>> : s \in TERMINAL_STATUSES}
    /\ \A i \in 1..Len(events[k]) :
           events[k][i] \in TERMINAL_STATUSES => runs[k].status = events[k][i]

\* Where the owner is says what the stream holds.
StreamOK == /\ \A k \in Keys : StoryOK(k) /\ (runs[k] = NoRun => events[k] = <<>>)
            /\ \A c \in Copies : /\ pc[c] = "created" => events[TheKey] = <<>>
                                 /\ pc[c] \in HasCreated => events[TheKey] = <<"created">>
                                 /\ pc[c] \in HasStarted =>
                                        events[TheKey] = <<"created", "started">>

\* The streams the appended events make.
LEMMA Stories ==
    /\ Append(<<>>, "created") = <<"created">>
    /\ Append(<<"created">>, "blocked") = <<"created", "blocked">>
    /\ Append(<<"created">>, "started") = <<"created", "started">>
    /\ \A s \in TERMINAL_STATUSES :
           Append(<<"created", "started">>, s) = <<"created", "started", s>>
<1>1. Append(<<>>, "created") = <<"created">>
  OBVIOUS
<1>2. ASSUME NEW e \in EventTypes
      PROVE Append(<<"created">>, e) = <<"created", e>>
  <2>1. <<"created">> \in Seq(EventTypes) /\ <<"created", e>> \in Seq(EventTypes)
    BY DEF EventTypes
  <2> DEFINE a == Append(<<"created">>, e)
             b == <<"created", e>>
  <2>2. a \in Seq(EventTypes) /\ Len(a) = 2 /\ a[1] = "created" /\ a[2] = e
    BY <2>1, AppendProperties
  <2>3. Len(b) = 2 /\ \A i \in 1..2 : a[i] = b[i]
    BY <2>2
  <2>4. a = b
    <3> HIDE DEF a, b
    <3>1. b \in Seq(EventTypes)
      BY <2>1 DEF b
    <3>2. QED
      BY <2>2, <2>3, <3>1, SeqEqual
  <2>5. QED
    BY <2>4
<1>3. ASSUME NEW s \in TERMINAL_STATUSES
      PROVE Append(<<"created", "started">>, s) = <<"created", "started", s>>
  <2>1. /\ <<"created", "started">> \in Seq(EventTypes) /\ s \in EventTypes
        /\ <<"created", "started", s>> \in Seq(EventTypes)
    BY DEF EventTypes
  <2> DEFINE a == Append(<<"created", "started">>, s)
             b == <<"created", "started", s>>
  <2>2. a \in Seq(EventTypes) /\ Len(a) = 3 /\ a[1] = "created" /\ a[2] = "started" /\ a[3] = s
    BY <2>1, AppendProperties
  <2>3. Len(b) = 3 /\ \A i \in 1..3 : a[i] = b[i]
    BY <2>2
  <2>4. a = b
    <3> HIDE DEF a, b
    <3>1. b \in Seq(EventTypes)
      BY <2>1 DEF b
    <3>2. QED
      BY <2>2, <2>3, <3>1, SeqEqual
  <2>5. QED
    BY <2>4
<1>4. "blocked" \in EventTypes /\ "started" \in EventTypes
  BY DEF EventTypes, TERMINAL_STATUSES
<1>5. QED
  BY <1>1, <1>2, <1>3, <1>4

\* The statuses a stream without a terminal event allows: any.
LEMMA OpenStory ==
    ASSUME NEW k, events'[k] \in {<<>>, <<"created">>, <<"created", "started">>}
    PROVE StoryOK(k)'
<1>1. \A i \in 1..Len(events'[k]) : events'[k][i] \notin TERMINAL_STATUSES
  BY DEF TERMINAL_STATUSES
<1>2. QED
  BY <1>1 DEF StoryOK

\* A terminal event that names the row's status closes the story.
LEMMA ClosedStory ==
    ASSUME NEW k, NEW s \in TERMINAL_STATUSES, runs'[k].status = s,
           \/ events'[k] = <<"created", "started", s>>
           \/ events'[k] = <<"created", "blocked">> /\ s = "blocked"
    PROVE StoryOK(k)'
<1>1. \A i \in 1..Len(events'[k]) : events'[k][i] \in TERMINAL_STATUSES => events'[k][i] = s
  BY DEF TERMINAL_STATUSES
<1>2. QED
  BY <1>1 DEF StoryOK

\* A stream and a row that stay keep their story.
LEMMA SameStory ==
    ASSUME StreamOK, NEW k \in Keys, runs'[k] = runs[k], events'[k] = events[k]
    PROVE StoryOK(k)' /\ (runs'[k] = NoRun => events'[k] = <<>>)
BY DEF StreamOK, StoryOK

\* Every step keeps the streams in agreement with the rows.
LEMMA StreamStep ==
    ASSUME Inv, StreamOK, Next
    PROVE StreamOK'
<1>1. PICK c \in Copies : Step(c) \/ Crash(c)
  BY DEF Next
<1> USE DEF storeVars, localVars, Own, OwnQueued, OwnRunning, HasCreated, HasStarted
<1>2. CASE UNCHANGED <<runs, events, checkpoint>> /\
           \E s \in States : /\ Goto(c, s)
                             /\ s # "created"
                             /\ s \in HasCreated => pc[c] \in HasCreated
                             /\ s \in HasStarted => pc[c] \in HasStarted
  <2>1. TheKey' = TheKey
    BY <1>2 DEF TheKey
  <2>2. QED
    BY <1>2, <2>1, ZenonT(30) DEF StreamOK, StoryOK, Goto, Inv, TypeOK
<1>3. CASE freeze_chat_tool_decision(c)
  <2>1. PICK s \in {"lookup", "error"} : Goto(c, s)
    BY <1>3 DEF freeze_chat_tool_decision, GotoOrError
  <2>2. CASE Frozen
    BY <1>2, <1>3, <2>1, <2>2 DEF freeze_chat_tool_decision, FrozenBy, States, Final
  <2>3. CASE ~Frozen
    <3>1. \A d \in Copies : pc[d] \notin Own
      BY <2>3 DEF Inv, DecisionOK, Tool
    <3>2. \A d \in Copies : pc'[d] \notin Own
      BY <2>1, <3>1 DEF Inv, TypeOK, Goto
    <3>3. QED
      BY <1>3, <3>2 DEF freeze_chat_tool_decision, StreamOK, StoryOK
  <2>4. QED
    BY <2>2, <2>3
<1>4. CASE CreateRun(c)
  <2>1. /\ TheKey \in Keys /\ IdempotencyKey(c) = TheKey /\ ExistingRun(c) = TheRun
        /\ TheKey' = TheKey /\ UNCHANGED <<events, checkpoint>>
    BY <1>4, KeyIsOne DEF CreateRun, ExistingRun, TheRun, TheKey, Tool
  <2>2. CASE TheRun # NoRun
    BY <1>2, <1>4, <2>1, <2>2 DEF CreateRun, Replay, States, Final
  <2>3. CASE TheRun = NoRun
    <3>1. events'[TheKey] = <<>> /\ \A d \in Copies : pc[d] \notin Own
      BY <2>1, <2>3 DEF StreamOK, TheRun, Inv, OwnerOK
    <3>2. \A d \in Copies : pc'[d] \in Own => d = c /\ pc'[d] = "created"
      BY <1>4, <2>1, <2>3, <3>1 DEF CreateRun, GotoOrError, Goto, Inv, TypeOK
    <3>3. /\ runs'[TheKey] = create_run(c, decision[c])
          /\ \A k \in Keys : k # TheKey => runs'[k] = runs[k]
      BY <1>4, <2>1, <2>3 DEF CreateRun, Inv, TypeOK
    <3>4. ASSUME NEW k \in Keys PROVE StoryOK(k)' /\ (runs'[k] = NoRun => events'[k] = <<>>)
      BY <2>1, <3>1, <3>3, OpenStory, SameStory
    <3>5. QED
      BY <2>1, <3>1, <3>2, <3>4 DEF StreamOK
  <2>4. QED
    BY <2>2, <2>3
<1>5. CASE Block(c) \/ Start(c) \/ Finish(c)
  <2>1. PICK st \in Statuses, res \in Copies \cup {NoCopy} : SetStatus(c, st, res)
    BY <1>5 DEF Block, Start, Finish, Inv, TypeOK, ResultOf, Statuses, TERMINAL_STATUSES
  <2>2. pc[c] \in {"block", "start", "finish"} /\ UNCHANGED <<events, checkpoint>>
    BY <1>5 DEF Block, Start, Finish
  <2>3. /\ \A k \in Keys : k # TheKey => runs'[k] = runs[k]
        /\ TheRun' # NoRun
    BY <2>1, <2>2, StatusWritten
  <2>4. TheKey' = TheKey /\ TheKey \in Keys
    BY <2>2, KeyIsOne DEF TheKey, Tool
  <2>5. /\ \A d \in Copies : d # c => pc'[d] = pc[d]
        /\ pc'[c] \in HasCreated => pc[c] \in HasCreated
        /\ pc'[c] \in HasStarted => pc[c] \in HasStarted
        /\ pc'[c] # "created"
    BY <1>5 DEF Block, Start, Finish, GotoOrError, Goto, Inv, TypeOK
  <2>6. events[TheKey] \in {<<>>, <<"created">>, <<"created", "started">>}
    BY <2>2 DEF StreamOK
  <2>7. ASSUME NEW k \in Keys PROVE StoryOK(k)' /\ (runs'[k] = NoRun => events'[k] = <<>>)
    <3>1. CASE k = TheKey
      BY <2>2, <2>3, <2>4, <2>6, <3>1, OpenStory DEF TheRun
    <3>2. CASE k # TheKey
      BY <2>2, <2>3, <3>2, SameStory
    <3>3. QED
      BY <3>1, <3>2
  <2>8. QED
    BY <2>2, <2>4, <2>5, <2>7 DEF StreamOK
<1>6. CASE RunCreated(c) \/ RunStarted(c) \/ RunBlocked(c) \/ RunFinished(c)
  <2>1. PICK e \in EventTypes : append_event(c, e)
    BY <1>6 DEF RunCreated, RunStarted, RunBlocked, RunFinished, Inv, TypeOK, EventTypes,
                TERMINAL_STATUSES
  <2>2. /\ pc[c] \in {"created", "started", "blocked", "finished"}
        /\ UNCHANGED <<runs, checkpoint>>
    BY <1>6 DEF RunCreated, RunStarted, RunBlocked, RunFinished
  <2>3. /\ TheKey' = TheKey /\ TheKey \in Keys /\ IdempotencyKey(c) = TheKey
        /\ TheRun # NoRun /\ TheRun.run_id = c /\ runs'[TheKey] = TheRun
    BY <2>2, KeyIsOne DEF TheKey, TheRun, Tool, Inv, OwnerOK
  <2>4. /\ events'[TheKey] = Append(events[TheKey], e)
        /\ \A k \in Keys : k # TheKey => events'[k] = events[k]
    BY <2>1, <2>3 DEF append_event, Inv, TypeOK
  <2>5. \A d \in Copies : d # c => pc'[d] = pc[d] /\ pc'[d] \notin Own
    BY <1>6, <2>3 DEF RunCreated, RunStarted, RunBlocked, RunFinished, GotoOrError, Goto, Inv,
                      TypeOK, OwnerOK
  <2>6. CASE RunCreated(c)
    <3>1. events'[TheKey] = <<"created">> /\ pc'[c] \in {"policy", "error"}
      BY <2>3, <2>6, Stories DEF RunCreated, append_event, StreamOK, GotoOrError, Goto, Inv,
         TypeOK
    <3>2. ASSUME NEW k \in Keys PROVE StoryOK(k)' /\ (runs'[k] = NoRun => events'[k] = <<>>)
      <4>1. CASE k = TheKey
        <5>1. events'[k] \in {<<>>, <<"created">>, <<"created", "started">>}
          BY <3>1, <4>1
        <5>2. QED
          BY <2>3, <4>1, <5>1, OpenStory
      <4>2. CASE k # TheKey
        BY <2>2, <2>4, <4>2, SameStory
      <4>3. QED
        BY <4>1, <4>2
    <3>3. QED
      BY <2>3, <2>5, <3>1, <3>2 DEF StreamOK
  <2>7. CASE RunStarted(c)
    <3>1. events'[TheKey] = <<"created", "started">> /\ pc'[c] \in {"execute", "error"}
      BY <2>3, <2>7, Stories DEF RunStarted, append_event, StreamOK, GotoOrError, Goto, Inv,
         TypeOK
    <3>2. ASSUME NEW k \in Keys PROVE StoryOK(k)' /\ (runs'[k] = NoRun => events'[k] = <<>>)
      <4>1. CASE k = TheKey
        <5>1. events'[k] \in {<<>>, <<"created">>, <<"created", "started">>}
          BY <3>1, <4>1
        <5>2. QED
          BY <2>3, <4>1, <5>1, OpenStory
      <4>2. CASE k # TheKey
        BY <2>2, <2>4, <4>2, SameStory
      <4>3. QED
        BY <4>1, <4>2
    <3>3. QED
      BY <2>3, <2>5, <3>1, <3>2 DEF StreamOK
  <2>8. CASE RunBlocked(c)
    <3>1. events'[TheKey] = <<"created", "blocked">> /\ pc'[c] \in {"reply", "error"}
      BY <2>3, <2>8, Stories DEF RunBlocked, append_event, StreamOK, GotoOrError, Goto, Inv,
         TypeOK
    <3>2. TheRun.status = "blocked"
      BY <2>8 DEF RunBlocked, Inv, OwnerOK
    <3>3. ASSUME NEW k \in Keys PROVE StoryOK(k)' /\ (runs'[k] = NoRun => events'[k] = <<>>)
      BY <2>2, <2>3, <2>4, <3>1, <3>2, ClosedStory, SameStory DEF TERMINAL_STATUSES
    <3>4. QED
      BY <2>3, <2>5, <3>1, <3>3 DEF StreamOK
  <2>9. CASE RunFinished(c)
    <3>1. outcome[c] \in TERMINAL_STATUSES /\ TheRun.status = outcome[c]
      BY <2>9 DEF RunFinished, Inv, TypeOK, OwnerOK
    <3>2. events[TheKey] = <<"created", "started">>
      BY <2>9 DEF RunFinished, StreamOK
    <3>3. events'[TheKey] = <<"created", "started", outcome[c]>> /\ pc'[c] \in {"reply", "error"}
      BY <2>3, <2>9, <3>1, <3>2, Stories DEF RunFinished, append_event, GotoOrError, Goto,
         Inv, TypeOK
    <3>4. ASSUME NEW k \in Keys PROVE StoryOK(k)' /\ (runs'[k] = NoRun => events'[k] = <<>>)
      BY <2>2, <2>3, <2>4, <3>1, <3>3, ClosedStory, SameStory
    <3>5. QED
      BY <2>3, <2>5, <3>3, <3>4 DEF StreamOK
  <2>10. QED
    BY <1>6, <2>6, <2>7, <2>8, <2>9
<1>7. CASE FirstOutput(c) \/ Authorize(c) \/ get_chat_tool_checkpoint(c) \/ UseReply(c)
  BY <1>2, <1>7 DEF FirstOutput, Authorize, get_chat_tool_checkpoint, UseReply, GotoOrError,
                    States, Final
<1>8. CASE get_run_by_idempotency_key(c) \/ SecondOutput(c) \/ Fail(c) \/ Crash(c)
  BY <1>2, <1>8 DEF get_run_by_idempotency_key, Replay, SecondOutput, Fail, Crash, GotoOrError,
                    States, Final
<1>9. CASE Policy(c) \/ Execute(c)
  BY <1>2, <1>9 DEF Policy, Execute, States
<1>10. QED
  BY <1>1, <1>3, <1>4, <1>5, <1>6, <1>7, <1>8, <1>9 DEF Step

\* The stream of a run never contradicts its row, nothing follows a terminal
\* event, and a run without a row has no event.
THEOREM StreamSafety == Spec => []StreamAgrees
<1>1. Init => StreamOK
  <2> SUFFICES ASSUME Init PROVE StreamOK
    OBVIOUS
  <2>1. \A k \in Keys : events[k] = <<>>
    BY DEF Init
  <2>2. QED
    BY <2>1 DEF Init, StreamOK, StoryOK, HasCreated, HasStarted
<1>2. Inv /\ StreamOK /\ [Next]_vars => StreamOK'
  <2>1. ASSUME StreamOK, UNCHANGED vars
        PROVE StreamOK'
    BY <2>1 DEF vars, StreamOK, StoryOK, TheKey
  <2>2. QED
    BY <2>1, StreamStep
<1>3. Inv /\ StreamOK => StreamAgrees
  BY DEF StreamOK, StoryOK, StreamAgrees
<1>4. QED
  BY <1>1, <1>2, <1>3, Invariance, PTL DEF Spec
-----------------------------------------------------------------------------
(* What a later copy may answer                                             *)

\* Copy c has not answered plainly, and the row names a decision.
Bound(c) == Frozen /\ pc[c] # "plain"

\* Once the row names a decision it does so for ever, and a copy that has not
\* answered plainly by then never will.
LEMMA BoundStep ==
    ASSUME Inv, NEW c \in Copies, Bound(c), [Next]_vars
    PROVE Bound(c)'
<1>1. CASE UNCHANGED vars
  BY <1>1 DEF vars, Bound, Frozen
<1>2. ASSUME NEW b \in Copies, Step(b) \/ Crash(b)
      PROVE Bound(c)'
  <2>1. checkpoint' = checkpoint
    BY <1>2 DEF Bound, Step, FirstOutput, get_chat_tool_checkpoint, Authorize,
       freeze_chat_tool_decision, FrozenBy, get_run_by_idempotency_key, CreateRun, RunCreated,
       Policy, Block, RunBlocked, Start, RunStarted, Execute, Finish, RunFinished, UseReply,
       SecondOutput, Fail, Crash
  <2>2. \E s \in States \ {"plain"} : Goto(b, s)
    <3> USE DEF States, Final, GotoOrError
    <3>1. CASE FirstOutput(b) \/ Authorize(b) \/ Policy(b) \/ Fail(b) \/ Crash(b)
      BY <3>1 DEF FirstOutput, Authorize, Policy, Fail, Crash
    <3>2. CASE get_chat_tool_checkpoint(b)
      BY <3>2 DEF get_chat_tool_checkpoint, Bound
    <3>3. CASE freeze_chat_tool_decision(b)
      BY <3>3 DEF freeze_chat_tool_decision
    <3>4. CASE get_run_by_idempotency_key(b) \/ CreateRun(b)
      BY <3>4 DEF get_run_by_idempotency_key, CreateRun, Replay
    <3>5. CASE RunCreated(b) \/ Block(b) \/ RunBlocked(b) \/ Start(b) \/ RunStarted(b) \/ Execute(b)
      BY <3>5 DEF RunCreated, Block, RunBlocked, Start, RunStarted, Execute
    <3>6. CASE Finish(b) \/ RunFinished(b) \/ UseReply(b) \/ SecondOutput(b)
      BY <3>6 DEF Finish, RunFinished, UseReply, SecondOutput
    <3>7. QED
      BY <1>2, <3>1, <3>2, <3>3, <3>4, <3>5, <3>6 DEF Step
  <2>3. QED
    BY <2>1, <2>2 DEF Bound, Frozen, Goto, Inv, TypeOK
<1>3. QED
  BY <1>1, <1>2 DEF Next

\* A copy whose model is asked after the decision was frozen never answers
\* plainly and never from another decision, however the task is redelivered.
THEOREM ReplaySafety == Spec => ReplayHonoursDecision
<1> SUFFICES ASSUME NEW c \in Copies
             PROVE Spec => [](Frozen /\ pc[c] = "idle" =>
                                [](/\ pc[c] # "plain"
                                   /\ pc[c] = "answered" => decision[c] = checkpoint.decision))
  BY DEF ReplayHonoursDecision
<1>1. Frozen /\ pc[c] = "idle" => Bound(c)
  BY DEF Bound
<1>2. Inv /\ Bound(c) /\ [Next]_vars => Bound(c)'
  BY BoundStep
<1>3. Inv /\ Bound(c) => pc[c] # "plain" /\ (pc[c] = "answered" => decision[c] = checkpoint.decision)
  BY DEF Inv, Bound, DecisionOK, Tool, Replied
<1>4. QED
  BY <1>1, <1>2, <1>3, Invariance, PTL DEF Spec
=============================================================================

# Codexify: TLA+ verification of the accepted-work protocols

Codexify is a self-hosted assistant: a FastAPI backend (`guardian/`), Redis queues and event
streams, PostgreSQL, a family of worker processes, and web, desktop and mobile clients. Much of
what it does follows one pattern: an API process commits a row, pushes a task to Redis, a worker
pops it and works under some claim, and the outcome is written back and shown. The promise is
that accepted work ends once and is told honestly, whatever crashes, is delivered twice or times
out on the way. This project models that pattern where the code implements it (chat completion
with its turn lock, deadline, provider rescue and tool turn; coding dispatch; watchdog reviews;
document embedding; account import), checks it with TLC and proves its safety with TLAPS.

## 1. Inventory

### Chat completion

| Part | State | Operations | Source |
|---|---|---|---|
| Deadline envelope | three frozen instants per task | build, admission tests of work and terminal budgets | `tasks/chat_deadline.py`, `core/chat_postgres_deadline.py`, `core/chat_redis_deadline.py` |
| Turn lock | one Redis key per thread: owner, lease token, ttl | acquire, renew, release, terminal release, expiry | `queue/turn_lock.py` |
| Attempt row | one PostgreSQL row per task: accepted_at, lock token, completed_message_id, terminal event, orphan outcome | create, mark accepted, bind message, record event, reconcile, observe | `core/db.py`, `core/pgdb.py` |
| Acceptance | a request's program counter, its token | `enqueue_chat_completion`, `_recover_orphaned_turn_lock` | `core/chat_completion_service.py` |
| Queue, cancel set, streams | Redis list, set, streams | LPUSH, BRPOP, SADD/SREM, XADD | `queue/redis_queue.py`, `queue/task_events.py` |
| Worker | task, program counter, event in hand | `_run_chat_task` and what it calls | `workers/chat_worker.py` |
| Receipts, user-message probe | a page of attempts; the lock for an instant | `reconcile_chat_attempt_receipts`, `_persist_message_to_thread` | `routes/chat.py` |
| Provider rescue | attempts made, output shown, candidates left | `_run_chat_completion_task_compat` | `workers/chat_worker.py`, `core/ai_router.py` |
| Tool turn | frozen decision, command run, event stream | `freeze_chat_tool_decision`, `execute_invoke` | `core/chat_completion_service.py`, `core/db.py`, `command_bus/` |

The API takes the thread's lock, freezes the deadline, renews the lock for the whole envelope,
commits the attempt row, pushes the task and records acceptance. A worker pops it, reads the row,
looks for an earlier message of the same turn, checks for cancellation, calls the provider,
inserts the message and binds it in one transaction, publishes the terminal event, and finally
removes the lock of a row it has seen terminal. If the worker dies, the row stays pending until
somebody reads the thread's receipts, or asks for another completion, after the terminal
deadline: that reader fences the row as an orphaned failure and removes the lock.

### Other accepted work

| Part | State | Operations | Source |
|---|---|---|---|
| Coding dispatch | intent, run with its owner, binding, result message | create, approve, cancel, dispatch, accept, finish, quarantine | `core/guardian_delegation_service.py`, `agents/store.py`, `workers/coding_worker.py` |
| Watchdog review | attempt, snapshot, dispatch and result rows of a head | prepare, supersede, capture, dispatch, claim, execute, map | `watchdog/`, `workers/watchdog_review_worker.py` |
| Document embedding | row with its claim, chunks | upload, push, claim, bounded child, finish, sweep | `routes/media.py`, `queue/document_embed_queue.py`, `workers/document_embed_worker.py` |
| Account import | job, checkpoint, counters, canonical rows, embeddings | stage, finalize, retry, import, checkpoint, hand off, recover | `services/openai_account_import.py`, `workers/account_import_worker.py`, `workers/chat_embedding_worker.py` |

The parts share the Redis client, so they share its hazards, but no rows: each module stands for
one of them and the chat parts are composed with each other.

### What is hard

PostgreSQL and Redis share no transaction, so every pair of steps can be cut in two. A Redis call
that times out may have run (`run_with_redis_timeout`) and a failed one is repeated
(`_with_reconnect`), so a task may be queued twice, or be queued although the caller was told it
was not. BRPOP removes a task before anything is done: it is in nobody's hands if the worker dies.
Deadlines and stale ages run on while any of this happens, and a late worker races whoever gave up
on it. A language model gives a redelivered task a different answer, so a replay is not a
repetition. The hazards, each at its line and with the properties that would catch it, are listed
in `PROJECT.json`; so is every component with the reason it is or is not modelled.

## 2. Modules

```
AttemptOutcome            what the pipeline promises about one attempt
ChatDeadline              budgets, lease, admission tests
 |- ChatAttempt           the row and its transactions, as functions of the row
 `- TurnLock              the Redis key and its operations, as functions of the key
ChatPipeline              EXTENDS both: API, workers, receipts, probe, clock
 `- ChatPipelineProofs    invariant, safety, ChatPipeline implements AttemptOutcome
     `- ChatLeaseProofs   what the turn lock guarantees

ProviderRescue            the inside of Generate: which provider is asked next
 `- ProviderRescueProofs  the candidate list and the rescue loop
DispatchOnce              what a replay-protected dispatch promises
CommandRun                rows, events and duplicate answers of the Command Bus
 `- ToolTurn              the other inside of Generate: freeze, dispatch, answer
     `- ToolTurnProofs    invariant, safety, ToolTurn implements DispatchOnce

CodingDispatch   `- CodingDispatchProofs     invariant, safety, implements DispatchOnce
WatchdogReview   `- WatchdogReviewProofs
DocumentEmbed    `- DocumentEmbedProofs
ImportLedger              what an import job promises its owner
AccountImport    `- AccountImportProofs      invariant, safety, implements ImportLedger

MC<module>                the instances TLC checks
```

`ChatPipeline` has the provider call as one action, `Generate`, with every result it may have.
`ProviderRescue` and `ToolTurn` open it up. They need nothing else of the pipeline: a rescue stays
inside one worker, and all that copies of a task share during a tool turn is the attempt row's
checkpoint and the command run. A copy in `ToolTurn` is any execution of the task that may reach
the tool turn: another delivery, or a rescue attempt inside the same worker.

**Granularity.** One action is one remote operation (a transaction, a Redis command, a call to a
model or a child process) together with the local code up to the next one. A transaction that
holds its row `FOR UPDATE` is one action; one that does not is split where another may come in
(`PrepareInsert`/`PrepareCommit` of the watchdog, the unlocked link of an auto-approved intent, the
sweeper's read and its compare-and-set, the lookup and the insert of an imported conversation or
file). `PrepareInsert` computes the attempts to supersede after the wait for their locks; PostgreSQL
fixes at the start of the statement which rows it waits for and re-checks each of them, which no
property tells apart. A remote write has three results: applied and
acknowledged, refused, or applied-or-not with an error. `PROJECT.json` maps each definition to its
lines.

**Time.** The program compares wall-clock instants. `ChatPipeline` keeps the time `left` until each
terminal deadline and the `ttl` of each key; `DocumentEmbed` keeps the `age` of each claim. `Tick`
lets all of them run at the same rate. This assumes one clock for PostgreSQL, workers and Redis;
skew between hosts is not modelled.

### ChatPipeline

`apc`, `tok`, `seen` are the local state of a request (one request per task id: a retry by the user
is another task, possibly with the same `TurnOf`); `left`, `row`, `inserted` and `stamped` are
durable (the message's turn id is written after the binding, hence the separate set `stamped`);
`lock`, `queue`, `cancelled` and `published` are Redis; `wk` is one record per executor slot: the
task, a program counter, the event in hand, what follows its publication, whether the code is in
the try body, an except block or the early-return path, and whether its operations use the terminal
reserve; `sweep` is the receipt page's pending lock cleanup and `probe` the user-message probe.

*Requests.* `Acquire`, `AcquireRefused` and `AcquireError` are the three results of the SET NX;
`RecoverProbe`, `RecoverReconcile` and `RecoverUnlock` are `_recover_orphaned_turn_lock`; `Snapshot`
stands for the persona read and an acceptance participant's `prepare` (both only decide whether
the turn is given up); `Deadline`, `Renew`, `Create`, `Enqueue` and `Mark` are the rest of
`enqueue_chat_completion`, `Release` and `Delete` its best-effort release, and `ApiCrash` the death of
the process between any two of them.

*Workers.* `Dequeue`, `ReadAttempt`, `LinkDuplicate`/`NoDuplicate` (both turn-id lookups),
`CheckCancelled`, `Generate`, `Persist`, `AfterPersist`, `RecordOutcome`, `Project`,
`PublishTerminal`, `ClearCancelled`, then the `finally` block: `ObserveTerminal`, `CleanupLock`,
`ShowObserved`. `WorkerCrash` may happen anywhere. Progress events, metrics and the heartbeat carry
no authority over the outcome and are left out.

### ProviderRescue and ToolTurn

`ProviderRescue` chooses the fallback order, the resolved provider and whether the selection is
bound, then runs attempts: each streams or not, succeeds, fails retryably or for good, or meets the
deadline or a cancellation, and the loop of `_run_chat_completion_task_compat` decides what follows.

`ToolTurn` gives each copy its own first output. A copy reads the checkpoint, freezes its decision
when the row has none (`freeze_chat_tool_decision`) or replays the frozen one, and calls
`execute_invoke`: create the run under its idempotency key, append events, run the handler, finish.
Every one of these is a transaction of its own and a copy may die between any two. A copy that finds
the key used gets the answer of the duplicate branch, and what it then tells the user depends on the
run's status.

### CodingDispatch

`intent`, `run`, `owner`, `binding`, `visibility` and `review` are rows of the delegation and agent
stores; `queue` is Redis; `req` and `wk` are program counters; `submitted`, `executed`, `decided`,
`posted`, `escalations` and `wasCancelled` are history. A dispatch request authorises, resolves
and persists its binding, commits and pushes, or records the failure of each step. A worker accepts the
task under a claim, executes, and writes result and status only while its claim owns the run.
Cancellation and the operator's quarantine of a silent run may come at any point. Of the delivery of
a result, the degraded branches for lineage data that do not match are left out: the model's lineage
always matches.

### WatchdogReview

Head `h` is the h-th push; its receipt prepares attempt `h` in a transaction that locks the
nonterminal attempts of other heads and supersedes them on commit. Capture reads the head twice around the
files. Dispatch commits an intent, pushes an envelope and records the outcome of the push. A
worker claims the dispatch, creates the result, calls the model, finalises under the row locks and
maps the result back to the dispatch. Faults (a rolled-back transaction, a dead process) may hit
any of these.

### DocumentEmbed

A claim stands for its `embedding_started_at`, so claims are numbered. The route commits the row and
pushes; a worker loads, claims with an unconditional UPDATE, and waits for a child process that
writes the chunks; the parent kills and reaps the child at `Bound`, and has `Margin` left for the
terminal write. The sweeper in the same loop reads stale claims and later fails those that are
unchanged.

### AccountImport

One job of the OpenAI lane. The checkpoint (`ckConvs`, `ckMedia`) and the counters are columns of the
job; `rows` and `assets` count the copies of a conversation or file in the canonical tables, `embed`
is the embedding status in the messages' metadata, `vectors` the copies with a record in the vector
store. A worker takes a snapshot of the checkpoint, hands checkpointed conversations to the embedding
queue again, and then for each batch imports, checkpoints and hands off, in steps that may be cut. A
restarted worker pushes every unfinished job again, so runs of one job overlap.

The lookups of the import (`_find_existing_thread_for_source`, `find_existing_asset`) take no lock, so
they are steps of their own (`FindExistingThread`, `FindExistingAsset`) and two runs may both find
nothing. What keeps the second from storing a copy are two unique indexes:
`uq_chat_messages_source_thread_message` on the source ids in the messages' metadata (created by
migration `b8f7c2d1e4a9`, not declared in `db/models.py`) and `uq_media_assets_active_identity`. A
refused conversation rolls its transaction back, ends the import and fails the job; a refused file is
counted as skipped. A run that finds the conversation writes back the metadata it had read, which may
revert the embedding status another process has set since.

## 3. Runs

| Run | Instance | Checks | States |
|---|---|---|---|
| `redelivery` | one task, two queue copies, two workers, one of which may crash again and again, cancellation, probe, release fallback; `FairSpec` | `TypeOK`, `OutcomeExclusive`, `AssistantBound`, `PublishedAgrees`, `ImplementsOutcome`, `AcceptedResolved` | 846 k |
| `contention` | two requests of one turn, a crashing worker, probe | `LeaseCoversEnvelope`, `OneAcceptedTurn`, `LockLossJustified` | 890 k |
| `tool_turn` | three copies, two commands | `AtMostOnceDispatch`, `AnswerFromRun`, `StreamAgrees`, `TerminalRunFinal`, `ImplementsDispatch`, `ReplayHonoursDecision` | 277 k |
| `provider_rescue` | five providers, one of them invalid and one without a model, orders up to length 3 | `FirstOutputBinds`, `RescueOrder`, `DeadlineWins` | 85 k |
| `watchdog_review` | two heads, two workers, two copies, two faults; `FairSpec` | `AtMostOneModelCall`, `StaleNeverCurrent`, `DispatchTellsResult`, `TerminalFinal`, `QueuedServed` | 93 k |
| `embed_claims` | one document, two workers, two copies, two kills; `FairSpec` | `LiveNotStolen`, `OneEmbedPerTask`, `NoLateWriter`, `ProcessingResolves` | 29 k |
| `coding_dispatch` | three requests, two workers, two copies, one outage; `FairSpec` | `SubmittedOnce`, `OneExecution`, `FencedOutcome`, `NoResultAfterCancel`, `ImplementsAdmission`, `NoTakeover`, `QueuedRunEnds` | 850 k |
| `import_job` | a conversation, a media file, two requests, two workers, two copies, two outages; `FairSpec` | `CompletedCovers`, `CompletedHandedOff`, `CountedOnce`, `StoredOnce`, `ImplementsLedger`, `JobEnds` | 900 k |
| `overlapping_turns` | two turns, two workers | `OneTurnInFlight`: violated | |
| `release_fallback` | two requests, release fallback | `ReleaseOnlyOwnLock`: violated | |
| `rescue_after_output` | three providers, orders up to length 2 | `NoRescueAfterOutput`: violated | |
| `supersession_order` | three heads, one worker | `SupersededByNewer`: violated | |

* `redelivery` asks whether the row is a sufficient authority: two workers run the same task at
  once, copies are lost in crashes, commits may lose their acknowledgement, the canceller and the receipt
  page interfere, the lock may vanish through its fallback, and still the attempt has one outcome,
  one message at most, and a stream that tells the truth. `ImplementsOutcome` says the same as a
  refinement of `AttemptOutcome`. The same run asks whether an accepted attempt gets an outcome when
  every copy of its task is lost (`AcceptedResolved`).
* `contention` asks whether the lock covers what the deadline document calls the envelope, through
  refused acquisitions, orphan recovery by a competitor, lost acknowledgements and failed
  acceptances; `LockLossJustified` is the other half: nobody takes a lock away early.
* `tool_turn`: one command runs at most once and is the frozen one; an answer only uses the result
  of a completed run; row and event stream never contradict each other although they are separate
  transactions; a copy that finds a checkpoint replays its decision (`ImplementsDispatch` refines
  `DispatchOnce`).
* `provider_rescue`: once the resolved provider has shown output, or when the user chose it, no other
  runs; no provider is asked twice, only usable ones are, and local before the other candidates,
  whatever `LLM_FALLBACK_ORDER` holds; and an expired work budget is reported as such. What happens
  after a fallback has shown output is `rescue_after_output`.
* `watchdog_review`: one model call per attempt, no superseded review becomes current, every
  superseded attempt has a successor, a closed dispatch agrees with the result, and a queued
  dispatch whose envelope is still in Redis is closed unless its own worker died. A dispatch whose
  envelope was popped before `queued` was recorded is not: the worker drops the envelope
  (`review_dispatch.py:211`), and the model has that behaviour.
* `embed_claims`: the sweeper takes no live claim, recovery never embeds again, no writer survives
  its task, and no document stays in processing.
* `coding_dispatch`: one submission, one execution (`ImplementsAdmission`: the binding and the
  executions refine `DispatchOnce`), one fenced outcome, no result after the cancellation of an intent that needed approval, no takeover, and a queued run that ends.
* `import_job`: a completed job has imported and handed off everything, items are counted once,
  and an interrupted job is found again. `StoredOnce`: two runs that both looked a conversation or a
  file up and found nothing store it once, and its vector record once. `ImplementsLedger` says
  as a refinement what the owner of the job may rely on: nothing recorded is forgotten, only what is
  checkpointed is offered for embedding, completed is complete and final, and a retry of a failed
  job is allowed only while none of its importable conversations is checkpointed.

**Bounds.** Two of everything that conflicts (requests, workers, copies, heads) is the least that
conflicts; `tool_turn` has three copies because a third may find what the second left of the first.
`MaxCopies = 2` is the length of the reconnect loop. The chat budgets are one tick each, so a task
meets each region (work open, reserve, past terminal, past lease) and every step can fall in any of
them; `Bound = 1`, `Margin = 1`, `Stale = 2` are the least values with `Bound + Margin <= Stale`. Kills,
outages and faults are bounded (two, or one where several actors already conflict) because each
costs a factor; so is `MaxLateCopies = 1`, the copies left in Redis by a push that raises all the
same (two copies arise from a push that succeeds); the theorems of section 4 hold for every bound. `MaxClaims = 2` suffices for two
pushed tasks. Threads share only the queue, whose order no property depends on, so one thread is
enough. In `redelivery` one worker slot may crash, but again and again, so both copies can be lost.
Symmetry permutes tasks and workers in `contention`, a safety run, only. Deadlock is checked in the
chat runs, where `Quiescent` is the only way to stop; the other modules have end states (every
request answered, every job ended), so theirs say `CHECK_DEADLOCK FALSE`.

**Fairness.**

* `redelivery` assumes that time passes and that an eligible receipt is eventually read on a database
  that works. The client reads a thread's receipts after each hydration and the code has no other
  sweeper, so the second is an assumption about use: without it an orphaned attempt of an abandoned
  thread stays pending. No worker, API or cleanup step is assumed fair.
* `watchdog_review`, `embed_claims`, `coding_dispatch` and `import_job` assume weak fairness of the
  workers' steps: each worker is a loop without an exit, and the compose deployment restarts a dead
  one (`restart: unless-stopped` in `docker-compose.private-preview.yml`). Dying is never forced or prevented.
* `watchdog_review` also assumes that an open preparing transaction commits or is rolled back;
  `embed_claims` that time passes and a sweep is due again and again (the worker's own loop);
  `import_job` that a request in progress goes on (its death is a separate action).

### Disagreements between code and documents

Kept as runs:

* *Overlapping turns.* `docs/architecture/data-and-storage.md:440` lists one assistant turn in
  flight per thread as a hard invariant. An `enqueue` that raises after LPUSH ran releases the lock of
  a task that a worker will run; the next request of the thread runs beside it. What does hold is
  `OneAcceptedTurn`: two turns answered as accepted never overlap inside their envelopes.
* *Release only when the owner matches.* The fallback of `release_turn_lock` compares and deletes in
  two commands. With the atomic script alone the docstring is right (theorem `ReleaseSafety`). `renew_turn_lock` and `release_terminal_attempt_turn_lock` refuse such a fallback.
* *Rescue after output.* `docs/architecture/completion_pipeline.md:163` forbids a rescue once anything
  was shown. `_provider_fallback_allowed` looks at the resolved provider's output, once, before the
  rescue; in the loop that follows, a fallback that streamed and then fails is succeeded by the next
  candidate (`chat_worker.py:2146`), so the user sees the beginning of two answers. The same document
  at line 155 and `flows.md:46` also speak of one rescue, to local; the loop (`chat_worker.py:2122`)
  goes through every candidate. `FirstOutputBinds` and `RescueOrder` state what does hold.
* *Newer heads supersede older ones.* `docs/architecture/github-watchdog-control-plane.md:12`. The
  query compares heads for inequality only, so a late delivery of an older head supersedes a newer
  attempt. What does hold, in whatever order heads arrive, is part of `StaleNeverCurrent`: a
  superseded attempt names another that exists and that it did not supersede, and some attempt of
  the pull request is not superseded.

Met while modelling, and part of the models as the code has them:

* `docs/architecture/completion_pipeline.md:201` says the worker releases the lock whatever the
  outcome; it keeps it when the row cannot be read or is not seen terminal (`chat_worker.py:2741`).
* Nothing compares the stale age of the embedding sweep with the execution bound
  (`core/config.py:184`); `LiveNotStolen` needs `Bound + Margin <= Stale`, which the defaults (120 s and 900 s) satisfy.
* In the coding dispatch a duplicate request that is refused still records a failure
  (`guardian_delegation_service.py:2255`), a failure record may overwrite a cancellation (`:2335`), and the
  cancellation of an auto-approved intent while it is planned may be undone (`:677`). That is why
  `NoTakeover` and `NoResultAfterCancel` are stated as they are.
* The retry gate of an import reads counters that lag behind the canonical tables
  (`openai_account_import.py:1923`): a retry is allowed after rows were written but not yet counted.
  The unique indexes and the checkpoint carry the rest: `StoredOnce`, `CountedOnce` and
  `CompletedCovers` hold all the same.
* A run refused by the index on source ids fails the job (`openai_export_conversation_import.py:571`,
  `openai_account_import.py:1883`) while the run that wrote the conversation goes on, unless that one
  completed it first; once that run has recorded a batch, a retry is refused.

## 4. Proofs

Every theorem is for all values of the constants under the assumptions the modules name (positive
budgets, distinct null values, finite sets where something is counted). `PROJECT.json` lists the
theorems; every property of a passing run except those named at the end is one of them.

**ChatPipelineProofs** proves `TypeOK`, `OutcomeExclusive`, `AssistantBound` and `PublishedAgrees`. That
the stream agrees with the row depends on what the worker holds when it publishes, and that on
everything that may have happened to the row since. The inductive invariant `Inv` adds

* `RowOK`: the two exclusions, and a row that does not exist is undecided;
* `LockOK`: a probe's key is not an envelope, so recovery only ever reads a task's name;
* `RequestOK`: a row exists exactly from its own `Create` on, so `Create` cannot overwrite an attempt
  that a worker has already decided;
* `WorkerOK`: past `Persist` the attempt is completed, and a worker about to publish, clean up or show
  holds the outcome of a decided row.

The argument rests on one relation. `RowStep(r, s)` says a transaction may turn row `r` into `s`: it
touches no absent row and changes no decision. `TransactionsStep` proves that every transaction is a
`RowStep`; `RowsStepKeeps` that rows taking only `RowStep`s keep what was decided, shown and inserted.

The same module proves `Spec => ImplementsOutcome`. `StepShape` reduces the steps to four kinds
(a transaction, a new row, a shown outcome, none of them) and `StepSimulation` maps each to a step of
`AttemptOutcome` or a stutter.

**ChatLeaseProofs** proves `LeaseCoversEnvelope`, `OneAcceptedTurn`, `LockLossJustified` and
`ReleaseOnlyOwnLock` when `ReleaseFallback` is off; the run `release_fallback` shows that the hypothesis is needed. `LeaseInv`
adds that whoever is about to clean up a lock has seen its attempt decided, and that every key
expires. `StepLocks` shows that a step other than the clock's takes a free lock, renews it for its
owner, or removes it for cause; `Tick` takes as much from the deadline as from the key.

**ToolTurnProofs.** All runs of a task live under one key, which the attempt row determines
(`RunsOK`); a copy inside `execute_invoke` owns that run in the status its place implies (`OwnerOK`);
whoever executed owns the run and executed what was frozen (`ExecutedOK`); a completed run carries the
result of a real execution (`ResultOK`), and a copy told of it was told that result (`ReplyOK`).
At-most-once, the honesty of answers, the finality of runs and the refinement of `DispatchOnce` follow;
`StreamOK` says for each place of the owner which prefix of the story the stream holds.
`ReplayHonoursDecision` is about a copy from one moment on: `Bound` (the row is frozen and the copy
has not answered plainly) holds when a frozen row meets a copy whose model was not asked yet, and
every step preserves it (`BoundStep`); `DecisionOK` gives the decision it answers from.

**ProviderRescueProofs.** The loop of `_fallback_provider_candidates` is the increasing enumeration
of the surviving positions of the preference list. That every finite set of numbers has one
(`ListExists`) is proved by least counterexample from the well-foundedness of the naturals;
`Candidates` concludes what the list holds. The inductive invariant relates the loop to the list:
before a rescue (`Before`) only the resolved provider was tried, and in one (`Rescue`) what was tried
and what is left are, together, the candidates in order. `FirstOutputBinds`, `RescueOrder` and
`DeadlineWins` follow.

**CodingDispatchProofs.** Nobody is admitted before approval (`UnapprovedOK`), only the request that
bound the attempt may submit it (`AdmissionOK`), whoever executes made the run's one claim
(`ClaimOK`), before its terminal status a run has no decision and no result (`OutcomeOK`), and a
failure record reaches the intent only after the run ended (`CancelOK`), so the cancellation it may
erase can no longer let a result through. `DispatchImplementsOnce` maps the binding to the chosen
work and the executions to what was performed; `TaskOK` (where there is a
task or an execution, the admitted request made its enqueue call) puts an execution after the choice.

**WatchdogReviewProofs.** The row locks of preparing transactions exclude each other and keep what
they selected nonterminal (`PrepOK`); attempt, snapshot and result agree (`ResultOK`); a worker past the
claim is the only one for its head and its place says how far the result is (`WorkOK`), which gives
one model call (`CallsOK`). `Succession` is kept beside it: only the commit of a preparing
transaction supersedes, and the attempt it inserts is new, so nobody names it yet.

**DocumentEmbedProofs.** Every pushed task is in the queue, in one worker's hands or used
(`CountOK`, by counting the set of holders), a child lives only while its worker embeds (`ChildOK`),
a live worker has a claim of its own within its budget (`ClaimOK`), and what a sweep has read is
stale and stays so (`FoundOK`). `LiveSafety` assumes `Bound + Margin <= Stale`: then a stale claim is
not a live one, so the compare-and-set cannot hit a live worker, even if it read an older claim of
the same document.

**AccountImportProofs.** What a worker skips is checkpointed, and what is checkpointed is in the
tables (`DoneOK`); once a worker has reconciled, what it skips was handed off (`HandOK`, which is why
`ReconcileHandoff` comes first); the item a worker is about to record is there as it says (`BatchOK`);
counters count checkpointed items (`CountOK`, with the cardinality lemmas of the library). For
`StoredOnce`, `StoreOK` has at most one copy of everything and a vector record behind every message
that says `ready`, and `MetaOK` that metadata read earlier and not yet written back said `ready` only
if that record exists: records are never removed, so writing back old metadata cannot lie.
`ImportImplementsLedger` sorts the steps into four kinds (`StepKinds`: a record, an offer, a change
of status, an import into the tables) and maps each to a step of `ImportLedger` or a stutter. Two
facts carry it: a step that completes the job leaves `CoverOK` true, and zero counters mean that no
importable conversation is checkpointed (`ZeroWriteMeansNothing`), which is why the retry gate is
sound with respect to the checkpoint although it lags behind the tables.

**Only model-checked.** The liveness properties (`AcceptedResolved`, `QueuedServed`,
`ProcessingResolves`, `QueuedRunEnds`, `JobEnds`): they rest on fairness and `ENABLED`, which are
outside the prover. Every other property of a passing run is a theorem.

## 5. Not modelled

* Of the chat path: legacy tasks without a request id or deadline snapshot and malformed snapshots
  (the worker stops on them before doing anything); clock skew; commit and rollback of acceptance
  participants (they change no state of the pipeline); mirroring of events into the outbox; stream
  trimming; the embedding, graph and audio work that follows a completion; prompt assembly,
  retrieval and provider transport.
* Of the Command Bus: the content of its policies, the raw HTTP lane, work orders.
* Of the coding path: what happens inside one accepted execution (adapter, validation loop, worktree
  and lease files), which is subprocess and file-system work.
* Of the watchdog: signature checks and the receipt row, reduced to a delivery that may come late and
  more than once.
* Of embedding and import: deletion of documents, the built-in help, the Anthropic lane, parsing and
  zip limits, account restore, live-chat embeddings.
* Graph-write receipts and agent messaging carry small protocols of their own and were not reached;
  the event relay, the flow runner and the campaign engine are sequential; retrieval, federation,
  continuity, user interfaces and host shells are data transformation or I/O. Vendored code
  (`codex_runner/vendor`) is left out.

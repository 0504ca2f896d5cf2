----------------------------- MODULE CommandRun -----------------------------
(***************************************************************************)
(* The durable runs of the Command Bus (guardian/command_bus/store.py and   *)
(* the CommandRun and CommandRunEvent tables): a run row with its status,    *)
(* the ordered event stream appended to it, and the answer that              *)
(* execute_invoke gives when it finds the idempotency key already used.      *)
(***************************************************************************)
EXTENDS Naturals, Sequences

CONSTANTS
    Copies,             \* deliveries of one accepted task; each mints ids
    Commands,           \* authorised command ids
    ArgsHashes,         \* values of compute_args_hash
    NoRun, NoCopy

TERMINAL_STATUSES == {"completed", "failed", "blocked"}
Statuses == {"queued", "running"} \cup TERMINAL_STATUSES

EventTypes == {"created", "started"} \cup TERMINAL_STATUSES

\* run_id is minted by the invocation that inserts the row, so the copy stands
\* for it; result is the copy whose execution produced result_json.
Run == [run_id : Copies, args_hash : ArgsHashes, status : Statuses,
        result : Copies \cup {NoCopy}]

ASSUME CommandRunAssumption == NoCopy \notin Copies /\ NoRun \notin Run

Decision == [command_id : Commands, args_hash : ArgsHashes]

\* The idempotency key names the request, the tool turn (the copy that minted
\* it) and the command.
Keys == Copies \X Commands

create_run(c, d) == [run_id |-> c, args_hash |-> d.args_hash,
                     status |-> "queued", result |-> NoCopy]

update_run(r, s, res) == [r EXCEPT !.status = s, !.result = res]

\* The reply of execute_invoke: the status and, when completed, the result.
Reply == [status : Statuses, result : Copies \cup {NoCopy}]

_response_from_existing_run(r) == [status |-> r.status, result |-> r.result]

\* _validate_existing_run_replay: the same command and key, other arguments.
ReplayAllowed(r, d) == r.args_hash = d.args_hash
=============================================================================

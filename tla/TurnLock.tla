------------------------------ MODULE TurnLock ------------------------------
(***************************************************************************)
(* One turn_lock:{thread_id} key of Redis and the operations on it          *)
(* (guardian/queue/turn_lock.py).  A SET NX EX, and each Lua script, is one *)
(* atomic function of the key; ttl is what Redis keeps for it.              *)
(*                                                                         *)
(* A lock taken for a completion holds an envelope with its owner's task id *)
(* and a lease token; the user-message probe stores its bare owner string,  *)
(* which is token 0 here and which the envelope decoder rejects.            *)
(***************************************************************************)
EXTENDS ChatDeadline

CONSTANT Probe          \* "api:chat.messages:user_probe", the probe's owner

ASSUME ProbeAssumption == Probe \notin Tasks \cup {NoTask}

Lock == [owner : Tasks \cup {NoTask, Probe}, token : Nat, ttl : Nat]

NoLock == [owner |-> NoTask, token |-> 0, ttl |-> 0]

Free(l) == l.owner = NoTask
IsEnvelope(l) == ~Free(l) /\ l.token # 0

\* Wrong forms of the operations below, for the mutants of the properties: a
\* renewal that keeps the ttl, and a cleanup that deletes any key.
RenewKeepingTTL(l, owner, token, ttl) == l
ReleaseAnyLock(l, owner, token) == NoLock

\* acquire_turn_lock on a free key
AcquireLock(owner, token, ttl) == [owner |-> owner, token |-> token, ttl |-> ttl]

\* The owner and token test of renew_turn_lock and of
\* release_terminal_attempt_turn_lock: both must match.
HeldBy(l, owner, token) == IsEnvelope(l) /\ l.owner = owner /\ l.token = token

\* renew_turn_lock
RenewLock(l, owner, token, ttl) ==
    IF HeldBy(l, owner, token) THEN [l EXCEPT !.ttl = ttl] ELSE l

\* _matches_expected_lock and the release script: no token means any token.
MatchesExpected(l, owner, token) ==
    ~Free(l) /\ l.owner = owner /\ (token = 0 \/ l.token = token)

\* release_turn_lock, the atomic script
ReleaseLock(l, owner, token) == IF MatchesExpected(l, owner, token) THEN NoLock ELSE l

\* release_terminal_attempt_turn_lock; absent is success, a mismatch is kept.
TerminalReleaseResult(l, owner, token) == Free(l) \/ HeldBy(l, owner, token)
ReleaseTerminalLock(l, owner, token) == IF HeldBy(l, owner, token) THEN NoLock ELSE l

\* One unit of time: Redis drops the key when its ttl is used up.
Age(l) == IF l.ttl > 1 THEN [l EXCEPT !.ttl = @ - 1] ELSE NoLock
=============================================================================

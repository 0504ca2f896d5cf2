---------------------------- MODULE ImportLedger ----------------------------
(***************************************************************************)
(* What an account-import job promises its owner, with no worker, queue or   *)
(* crash in sight: items are recorded one by one and never forgotten, a       *)
(* conversation is offered for embedding only once its record is durable, the *)
(* job is complete only when everything is recorded and offered, that is      *)
(* final, and a failed job may be tried again only while no conversation of   *)
(* it is recorded.                                                           *)
(***************************************************************************)
CONSTANTS Convs, Media

VARIABLES
    phase,              \* "open", "completed" or "failed"
    importable,         \* the conversations that have messages
    convs,              \* conversations the job has recorded
    media,              \* media files the job has recorded
    offered             \* conversations offered for embedding

vars == <<phase, importable, convs, media, offered>>

Init == /\ phase = "open"
        /\ importable \in SUBSET Convs
        /\ convs = {} /\ media = {} /\ offered = {}

RecordConversation(c) == /\ convs' = convs \cup {c}
                         /\ UNCHANGED <<phase, importable, media, offered>>

RecordMedia(m) == /\ media' = media \cup {m}
                  /\ UNCHANGED <<phase, importable, convs, offered>>

Offer(S) == /\ offered' = offered \cup S
            /\ UNCHANGED <<phase, importable, convs, media>>

Move(from, to) == /\ phase = from /\ phase' = to
                  /\ UNCHANGED <<importable, convs, media, offered>>

Complete == /\ convs = Convs /\ media = Media /\ offered = importable
            /\ Move("open", "completed")

Fail == Move("open", "failed")

Retry == importable \cap convs = {} /\ Move("failed", "open")

Next == \/ \E c \in Convs : RecordConversation(c)
        \/ \E m \in Media : RecordMedia(m)
        \/ \E S \in SUBSET (importable \cap convs) : Offer(S)
        \/ Complete \/ Fail \/ Retry

Spec == Init /\ [][Next]_vars
=============================================================================

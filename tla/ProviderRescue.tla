--------------------------- MODULE ProviderRescue ---------------------------
(***************************************************************************)
(* How the chat worker runs one completion over several providers           *)
(* (_run_chat_completion_task_compat): the resolved provider first, and,     *)
(* when its failure allows a rescue, the fallback candidates in order.  A    *)
(* provider streams output to the user while it runs, the work deadline of   *)
(* the accepted task may pass at any time, and the user may cancel.          *)
(***************************************************************************)
EXTENDS Naturals, Sequences, FiniteSets, SequencesExt

CONSTANTS
    Providers,
    Local,              \* the "local" provider
    NoModel,            \* providers no model is configured for
    Invalid,            \* providers whose model selection is not valid
    MaxOrder            \* bound: length of LLM_FALLBACK_ORDER

ASSUME RescueAssumption == /\ Local \in Providers
                           /\ NoModel \cup Invalid \subseteq Providers
                           /\ MaxOrder \in Nat

VARIABLES
    resolved,           \* the provider the selection resolved to
    order,              \* LLM_FALLBACK_ORDER
    bound,              \* explicit selection or pinned provider
    tried,              \* providers dispatched to, in order
    visible,            \* providers whose output reached the user
    running,            \* is the last of tried still executing?
    todo,               \* fallback candidates not tried yet
    open,               \* is the work deadline still ahead?
    cancelled,          \* has the user cancelled the task?
    result              \* how the completion ended

vars == <<resolved, order, bound, tried, visible, running, todo, open, cancelled, result>>

selection == <<resolved, order, bound>>

Results == {"none", "completed", "provider_error", "deadline", "cancelled"}

\* What an execution raises: the accepted-task deadline, ChatTaskCancelled, a
\* tool-loop error or another failure that forbids a retry, or one that allows
\* it.  completed stands for a normal return.
Ends == {"completed", "deadline", "cancelled", "final", "retryable"}

-----------------------------------------------------------------------------
(* The candidates                                                           *)

\* Mutant: duplicates of the configured order are kept.
KeepDuplicates(p, q) == {i \in DOMAIN q : q[i] # p /\ q[i] \notin NoModel \cup Invalid}

\* Positions of q that survive: the first occurrence of a usable provider
\* other than the one that failed.
Survivors(p, q) == {i \in DOMAIN q : /\ q[i] # p
                                     /\ q[i] \notin NoModel
                                     /\ q[i] = Local \/ q[i] \notin Invalid
                                     /\ \A j \in 1..(i - 1) : q[j] # q[i]}

\* The elements of a finite set S of numbers, from the least to the greatest.
Ascending(S) == CHOOSE s \in [1..Cardinality(S) -> S] :
                    \A i, j \in 1..Cardinality(S) : i < j => s[i] < s[j]

\* Where the loop looks: local first, then the configured order.
Preferred == <<Local>> \o order

\* _fallback_provider_candidates: the survivors, in the order of the loop.
_fallback_provider_candidates(p) ==
    [i \in 1..Cardinality(Survivors(p, Preferred)) |->
        Preferred[Ascending(Survivors(p, Preferred))[i]]]

\* Mutant: output that was already streamed does not forbid a rescue.
AllowedAfterOutput(e) == e = "retryable" /\ ~bound

\* _provider_fallback_allowed
_provider_fallback_allowed(e) == e = "retryable" /\ visible = {} /\ ~bound

-----------------------------------------------------------------------------
Init == /\ resolved \in Providers
        /\ order \in UNION {[1..n -> Providers] : n \in 0..MaxOrder}
        /\ bound \in BOOLEAN
        /\ tried = <<resolved>>
        /\ visible = {}
        /\ running = TRUE
        /\ todo = <<>>
        /\ open = TRUE
        /\ cancelled = FALSE
        /\ result = "none"

\* _publish_streaming: a token, a chunk or the whole body.
Emit == /\ running
        /\ visible' = visible \cup {Last(tried)}
        /\ UNCHANGED <<selection, tried, running, todo, open, cancelled, result>>

End(r) == /\ result' = r
          /\ running' = FALSE
          /\ UNCHANGED todo

Complete == /\ running
            /\ visible' = visible \cup {Last(tried)}
            /\ End("completed")
            /\ UNCHANGED <<selection, tried, open, cancelled>>

\* What a failing execution may raise now.
Raised == {"final", "retryable"} \cup (IF open THEN {} ELSE {"deadline"})
                                 \cup (IF cancelled THEN {"cancelled"} ELSE {})

ErrorOf(e) == IF e \in {"deadline", "cancelled"} THEN e ELSE "provider_error"

\* The resolved provider failed: raise, or collect the candidates while the
\* work budget lasts.
FirstFails ==
    /\ running
    /\ Len(tried) = 1
    /\ \E e \in Raised :
           IF _provider_fallback_allowed(e)
           THEN /\ todo' = _fallback_provider_candidates(resolved)
                /\ running' = FALSE
                /\ result' = IF ~open THEN "deadline"
                             ELSE IF todo' = <<>> THEN "provider_error" ELSE "none"
           ELSE End(ErrorOf(e))
    /\ UNCHANGED <<selection, tried, visible, open, cancelled>>

\* The next turn of the candidate loop.
NextCandidate ==
    /\ ~running
    /\ result = "none"
    /\ IF open
       THEN /\ tried' = Append(tried, Head(todo))
            /\ todo' = Tail(todo)
            /\ running' = TRUE
            /\ UNCHANGED result
       ELSE End("deadline") /\ UNCHANGED tried
    /\ UNCHANGED <<selection, visible, open, cancelled>>

\* Mutant: a candidate's failure hides an expired budget.
FallbackIgnoresBudget ==
    /\ running
    /\ Len(tried) > 1
    /\ \E e \in Raised :
           IF e = "deadline" THEN End("deadline")
           ELSE IF todo = <<>> THEN End("provider_error")
           ELSE running' = FALSE /\ UNCHANGED <<result, todo>>
    /\ UNCHANGED <<selection, tried, visible, open, cancelled>>

\* A candidate failed.  Only a deadline failure leaves the loop: whatever else
\* it raised, output or not, the next candidate is tried, and when none is left
\* the error of the resolved provider is raised again.
FallbackFails ==
    /\ running
    /\ Len(tried) > 1
    /\ \E e \in Raised :
           IF e = "deadline" \/ ~open THEN End("deadline")
           ELSE IF todo = <<>> THEN End("provider_error")
           ELSE running' = FALSE /\ UNCHANGED <<result, todo>>
    /\ UNCHANGED <<selection, tried, visible, open, cancelled>>

\* The environment: the clock and the user.
DeadlinePasses == /\ open /\ result = "none"
                  /\ open' = FALSE
                  /\ UNCHANGED <<selection, tried, visible, running, todo, cancelled, result>>

Cancel == /\ ~cancelled /\ result = "none"
          /\ cancelled' = TRUE
          /\ UNCHANGED <<selection, tried, visible, running, todo, open, result>>

Next == \/ Emit \/ Complete \/ FirstFails \/ NextCandidate \/ FallbackFails
        \/ DeadlinePasses \/ Cancel

Spec == Init /\ [][Next]_vars

-----------------------------------------------------------------------------
(* Properties                                                               *)

TypeOK == /\ resolved \in Providers
          /\ bound \in BOOLEAN /\ running \in BOOLEAN
          /\ open \in BOOLEAN /\ cancelled \in BOOLEAN
          /\ order \in Seq(Providers) /\ tried \in Seq(Providers) /\ todo \in Seq(Providers)
          /\ visible \in SUBSET Providers
          /\ result \in Results

\* Once the first provider has shown output, or when the user chose or pinned
\* it, no other provider ever runs.
FirstOutputBinds == bound \/ resolved \in visible => tried = <<resolved>>

\* The providers a rescue may use: those with a model the selection accepts.
Usable == {c \in {Local} \cup Range(order) : c \notin NoModel /\ (c = Local \/ c \notin Invalid)}

\* No provider is asked twice for one completion, whatever the operator wrote
\* in LLM_FALLBACK_ORDER and whichever provider failed first; a rescue asks only
\* usable providers, and local, when it is one, before every other.
RescueOrder ==
    /\ \A i, j \in DOMAIN tried : tried[i] = tried[j] => i = j
    /\ \A i \in DOMAIN tried \ {1} :
           /\ tried[i] \in Usable
           /\ Local \in Usable \ {resolved} => (tried[i] = Local <=> i = 2)

\* "Rescue is forbidden once any user-visible token, chunk, or response body has
\* been emitted", by whichever provider: nobody is asked after a provider whose
\* output was shown.  The candidate loop looks at the output of the resolved
\* provider only.
NoRescueAfterOutput == visible \subseteq {Last(tried)}

\* An expired work budget is reported as such: after the deadline passed, a
\* rescue never ends with a provider error.
DeadlineWins ==
    [][open = FALSE /\ Len(tried) > 1 => result' # "provider_error" \/ result = result']_vars
=============================================================================

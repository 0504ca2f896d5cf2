------------------------ MODULE ProviderRescueProofs ------------------------
(***************************************************************************)
(* Proofs about ProviderRescue for any set of providers and any configured  *)
(* order.  What the candidate loop collects is proved by induction on the    *)
(* length of the order, as an argument about the least counterexample.      *)
(***************************************************************************)
EXTENDS ProviderRescue, FiniteSetTheorems, TLAPS

-----------------------------------------------------------------------------
(* The candidates                                                           *)

LEMMA LessThan == OpToRel(<, Nat) = {ss \in Nat \X Nat : ss[1] < ss[2]}
BY DEF OpToRel

\* Every nonempty set of numbers has a least element.
LEMMA LeastNumber ==
    ASSUME NEW T, T \subseteq Nat, T # {}
    PROVE \E n \in T : \A m \in T : n <= m
<1> DEFINE R == {ss \in Nat \X Nat : ss[1] < ss[2]}
<1>1. IsWellFoundedOn(R, Nat)
  BY NatLessThanWellFounded, LessThan, Zenon
<1>2. \A m, n \in Nat : m < n => <<m, n>> \in R
  OBVIOUS
<1> HIDE DEF R
<1>3. PICK n \in T : \A m \in T : ~(<<m, n>> \in R)
  BY <1>1, WFMin
<1>4. \A m \in T : n <= m
  <2> TAKE m \in T
  <2>1. m \in Nat /\ n \in Nat /\ ~(m < n)
    BY <1>2, <1>3
  <2>2. QED
    BY <2>1
<1>5. QED
  BY <1>4

\* A set of numbers up to m is finite.
LEMMA UpToFinite ==
    ASSUME NEW m \in Nat, NEW S \in SUBSET (1..m)
    PROVE IsFiniteSet(S) /\ Cardinality(S) \in Nat
<1>1. S \in SUBSET Nat /\ \A x \in S : x <= m
  OBVIOUS
<1>2. IsFiniteSet(S)
  BY <1>1, FS_BoundedSetOfNaturals
<1>3. QED
  BY <1>2, FS_CardinalityType

\* s lists the elements of S in ascending order.
Lists(s, S) == /\ s \in [1..Cardinality(S) -> S]
               /\ \A i, j \in 1..Cardinality(S) : i < j => s[i] < s[j]

\* One more number at the end of an ascending list.
LEMMA ListsExtend ==
    ASSUME NEW m \in Nat, NEW S \in SUBSET (1..m), NEW s, Lists(s, S)
    PROVE \E r : Lists(r, S \cup {m + 1})
<1> DEFINE c == Cardinality(S)
           r == [i \in 1..(c + 1) |-> IF i = c + 1 THEN m + 1 ELSE s[i]]
<1>1. IsFiniteSet(S) /\ c \in Nat
  BY UpToFinite
<1>2. Cardinality(S \cup {m + 1}) = c + 1
  BY <1>1, FS_AddElement
<1>3. \A i \in 1..(c + 1) : r[i] \in S \cup {m + 1}
  BY <1>1 DEF Lists
<1>4. \A i, j \in 1..(c + 1) : i < j => r[i] < r[j]
  <2> SUFFICES ASSUME NEW i \in 1..(c + 1), NEW j \in 1..(c + 1), i < j
               PROVE r[i] < r[j]
    OBVIOUS
  <2>1. i \in 1..c /\ r[i] = s[i] /\ s[i] \in 1..m
    <3>1. i \in 1..c /\ i # c + 1
      BY <1>1
    <3>2. s[i] \in S
      BY <3>1 DEF Lists
    <3>3. QED
      BY <3>1, <3>2
  <2>2. CASE j = c + 1
    BY <2>1, <2>2
  <2>3. CASE j # c + 1
    <3>1. j \in 1..c /\ r[j] = s[j]
      BY <1>1, <2>3
    <3>2. QED
      BY <2>1, <3>1 DEF Lists
  <2>4. QED
    BY <2>2, <2>3
<1>5. Lists(r, S \cup {m + 1})
  BY <1>2, <1>3, <1>4 DEF Lists
<1>6. QED
  BY <1>5

\* Every set of numbers up to m can be listed in ascending order.
LEMMA ListExists ==
    ASSUME NEW n \in Nat, NEW U \in SUBSET (1..n)
    PROVE \E s : Lists(s, U)
<1> DEFINE Good(m) == \A S \in SUBSET (1..m) : \E s : Lists(s, S)
           Bad == {m \in Nat : ~Good(m)}
<1>1. Good(0)
  <2> SUFFICES ASSUME NEW S \in SUBSET (1..0)
               PROVE \E s : Lists(s, S)
    OBVIOUS
  <2>1. S = {} /\ Cardinality(S) = 0
    <3>1. S = {}
      OBVIOUS
    <3>2. QED
      BY <3>1, FS_EmptySet
  <2>2. Lists([i \in 1..0 |-> i], S)
    BY <2>1 DEF Lists
  <2>3. QED
    BY <2>2
<1>2. ASSUME NEW m \in Nat, Good(m)
      PROVE Good(m + 1)
  <2> SUFFICES ASSUME NEW S \in SUBSET (1..(m + 1))
               PROVE \E s : Lists(s, S)
    OBVIOUS
  <2>1. CASE m + 1 \notin S
    <3>1. S \in SUBSET (1..m)
      BY <2>1
    <3>2. QED
      BY <1>2, <3>1
  <2>2. CASE m + 1 \in S
    <3>1. S \ {m + 1} \in SUBSET (1..m) /\ S = (S \ {m + 1}) \cup {m + 1}
      BY <2>2
    <3>2. PICK s : Lists(s, S \ {m + 1})
      BY <1>2, <3>1
    <3>3. QED
      BY <3>1, <3>2, ListsExtend
  <2>3. QED
    BY <2>1, <2>2
<1> HIDE DEF Good
<1>3. Bad = {}
  <2> SUFFICES ASSUME Bad # {} PROVE FALSE
    OBVIOUS
  <2>1. PICK k \in Bad : \A m \in Bad : k <= m
    BY LeastNumber
  <2>2. k # 0 /\ k - 1 \in Nat /\ k - 1 \notin Bad
    BY <1>1, <2>1
  <2>3. Good(k)
    BY <1>2, <2>2
  <2>4. QED
    BY <2>3
<1>4. QED
  BY <1>3 DEF Good

\* Ascending is such a list, and it lists every element.
LEMMA AscendingLists ==
    ASSUME NEW n \in Nat, NEW S \in SUBSET (1..n)
    PROVE /\ Cardinality(S) \in Nat
          /\ Lists(Ascending(S), S)
          /\ \A x \in S : \E i \in 1..Cardinality(S) : Ascending(S)[i] = x
<1> DEFINE a == Ascending(S)
           c == Cardinality(S)
<1>0. S \subseteq Nat
  OBVIOUS
<1>1. IsFiniteSet(S) /\ c \in Nat
  BY UpToFinite
<1>2. Lists(a, S)
  BY ListExists DEF Lists, Ascending
<1>3. a \in Injection(1..c, S)
  <2>1. a \in [1..c -> S] /\ \A i, j \in 1..c : i < j => a[i] < a[j]
    BY <1>2 DEF Lists
  <2> HIDE DEF a
  <2>2. ASSUME NEW i \in 1..c, NEW j \in 1..c, a[i] = a[j]
        PROVE i = j
    <3>1. a[i] \in Nat /\ a[j] \in Nat
      BY <1>0, <2>1, Zenon
    <3>2. ~(i < j) /\ ~(j < i)
      BY <2>1, <2>2, <3>1
    <3>3. QED
      BY <1>1, <3>2
  <2>3. QED
    BY <2>1, <2>2 DEF Injection, IsInjective
<1>4. IsFiniteSet(1..c) /\ Cardinality(1..c) = c
  BY <1>1, FS_Interval
<1>5. a \in Surjection(1..c, S)
  BY <1>1, <1>3, <1>4, FS_Injection
<1>6. QED
  BY <1>1, <1>2, <1>5 DEF Surjection

\* What the loop collects when the resolved provider has failed.
Cands == _fallback_provider_candidates(resolved)

\* The candidates are the usable providers other than the resolved one, each
\* of them once, local first.
LEMMA Candidates ==
    ASSUME TypeOK
    PROVE /\ Cands \in Seq(Providers)
          /\ \A i, j \in 1..Len(Cands) : Cands[i] = Cands[j] => i = j
          /\ \A i \in 1..Len(Cands) : Cands[i] # resolved /\ (i > 1 => Cands[i] # Local)
          /\ Range(Cands) = Usable \ {resolved}
<1> DEFINE q == Preferred
           S == Survivors(resolved, q)
           a == Ascending(S)
           c == Cardinality(S)
<1>1. /\ q \in Seq(Providers) /\ Len(q) = Len(order) + 1 /\ Len(q) \in Nat /\ DOMAIN q = 1..Len(q)
      /\ q[1] = Local /\ \A k \in 1..Len(order) : q[k + 1] = order[k]
  BY RescueAssumption DEF TypeOK, Preferred
<1> HIDE DEF q
<1>2. S \in SUBSET (1..Len(q))
  BY <1>1 DEF Survivors
<1>3. \A i, j \in S : q[i] = q[j] => i = j
  BY <1>1 DEF Survivors
<1>4. \A x \in DOMAIN q : q[x] \in Usable \ {resolved} => \E y \in S : q[y] = q[x]
  <2> SUFFICES ASSUME NEW x \in DOMAIN q, q[x] \in Usable \ {resolved}
               PROVE \E y \in S : q[y] = q[x]
    OBVIOUS
  <2> DEFINE T == {k \in DOMAIN q : q[k] = q[x]}
  <2>1. T \subseteq Nat /\ x \in T
    BY <1>1
  <2>2. PICK y \in T : \A k \in T : y <= k
    BY <2>1, LeastNumber
  <2>3. \A j \in 1..(y - 1) : j \in DOMAIN q /\ q[j] # q[y]
    BY <1>1, <2>2
  <2>4. y \in S
    BY <1>1, <2>2, <2>3 DEF Survivors, Usable
  <2>5. QED
    BY <2>2, <2>4
<1>5. /\ c \in Nat /\ a \in [1..c -> S]
      /\ \A i, j \in 1..c : i < j => a[i] < a[j]
      /\ \A x \in S : \E i \in 1..c : a[i] = x
  BY <1>1, <1>2, AscendingLists DEF Lists
<1>6. Cands = [i \in 1..c |-> q[a[i]]]
  BY DEF Cands, _fallback_provider_candidates, q
<1> HIDE DEF S, a, c
<1>7. /\ Cands \in Seq(Providers) /\ Len(Cands) = c /\ DOMAIN Cands = 1..c
      /\ \A i \in 1..c : Cands[i] = q[a[i]] /\ a[i] \in S /\ a[i] \in 1..Len(q)
  <2>1. \A i \in 1..c : a[i] \in S /\ a[i] \in 1..Len(q)
    BY <1>2, <1>5, Zenon
  <2>2. \A i \in 1..c : q[a[i]] \in Providers
    BY <1>1, <2>1
  <2>3. QED
    BY <1>5, <1>6, <2>1, <2>2
<1>8. ASSUME NEW i \in 1..c, NEW j \in 1..c, Cands[i] = Cands[j]
      PROVE i = j
  <2>1. a[i] = a[j]
    BY <1>3, <1>7, <1>8
  <2>2. a[i] \in Nat
    BY <1>1, <1>7
  <2>3. QED
    BY <1>5, <2>1, <2>2
<1>9. ASSUME NEW i \in 1..c
      PROVE Cands[i] \in Usable \ {resolved} /\ (i > 1 => Cands[i] # Local)
  <2>1. a[i] \in S /\ a[i] \in 1..Len(q) /\ Cands[i] = q[a[i]]
    BY <1>2, <1>7, <1>9
  <2>2. /\ q[a[i]] # resolved /\ q[a[i]] \notin NoModel
        /\ q[a[i]] = Local \/ q[a[i]] \notin Invalid
        /\ \A j \in 1..(a[i] - 1) : q[j] # q[a[i]]
    BY <2>1 DEF S, Survivors
  <2>3. q[a[i]] \in {Local} \cup Range(order)
    <3>1. CASE a[i] = 1
      BY <1>1, <3>1
    <3>2. CASE a[i] # 1
      <4>1. a[i] - 1 \in 1..Len(order) /\ a[i] = (a[i] - 1) + 1
        BY <1>1, <2>1, <3>2 DEF TypeOK
      <4>2. q[a[i]] = order[a[i] - 1]
        BY <1>1, <4>1
      <4>3. QED
        BY <4>1, <4>2 DEF TypeOK, Range
    <3>3. QED
      BY <3>1, <3>2
  <2>4. ASSUME i > 1 PROVE q[a[i]] # Local
    <3>1. 1 \in 1..c /\ 1 < i
      BY <1>5, <2>4
    <3>2. a[1] \in 1..Len(q) /\ a[1] < a[i]
      BY <1>5, <1>7, <3>1
    <3>3. 1 \in 1..(a[i] - 1)
      BY <1>1, <2>1, <3>2
    <3>4. QED
      BY <1>1, <2>2, <3>3
  <2>5. QED
    BY <2>1, <2>2, <2>3, <2>4 DEF Usable
<1>10. Range(Cands) = Usable \ {resolved}
  <2>1. Range(Cands) \subseteq Usable \ {resolved}
    BY <1>7, <1>9 DEF Range
  <2>2. ASSUME NEW u \in Usable \ {resolved}
        PROVE u \in Range(Cands)
    <3>1. PICK x \in DOMAIN q : q[x] = u
      <4>1. CASE u = Local
        BY <1>1, <4>1
      <4>2. CASE u \in Range(order)
        <5>1. PICK k \in 1..Len(order) : order[k] = u
          BY <4>2 DEF TypeOK, Range
        <5>2. k + 1 \in DOMAIN q /\ q[k + 1] = u
          BY <1>1, <5>1 DEF TypeOK
        <5>3. QED
          BY <5>2
      <4>3. QED
        BY <4>1, <4>2 DEF Usable
    <3>2. PICK y \in S : q[y] = u
      BY <1>4, <3>1
    <3>3. PICK i \in 1..c : a[i] = y
      BY <1>5, <3>2
    <3>4. QED
      BY <1>7, <3>2, <3>3 DEF Range
  <2>3. QED
    BY <2>1, <2>2
<1>11. QED
  BY <1>7, <1>8, <1>9, <1>10
-----------------------------------------------------------------------------
(* The inductive invariant                                                  *)

\* No rescue was started: the resolved provider runs, or the completion ended
\* with it.
Before == tried = <<resolved>> /\ todo = <<>> /\ (running \/ result # "none")

\* A rescue was started, after a failure that had shown nothing: what was
\* tried and what is left to try are the candidates in order, cut in two.
Rescue == /\ ~bound /\ resolved \notin visible
          /\ Len(tried) + Len(todo) = 1 + Len(Cands)
          /\ \A i \in 1..Len(tried) : i > 1 => tried[i] = Cands[i - 1]
          /\ \A i \in 1..Len(todo) : todo[i] = Cands[Len(tried) - 1 + i]
          /\ running => Len(tried) > 1
          /\ ~running /\ result = "none" => todo # <<>>
          /\ result = "provider_error" => todo = <<>>

PlanOK == /\ Len(tried) > 0 /\ tried[1] = resolved
          /\ running => result = "none"
          /\ Before \/ Rescue

Inv == TypeOK /\ PlanOK

\* The selection never changes, so neither do the candidates.
LEMMA SameCands ==
    ASSUME UNCHANGED selection
    PROVE Cands' = Cands
BY DEF selection, Cands, _fallback_provider_candidates, Survivors, Preferred, Ascending

\* While something was tried, the last of it is a provider, and in a rescue it
\* is another one than the provider that failed.
LEMMA LastTried ==
    ASSUME Inv
    PROVE /\ Last(tried) \in Providers
          /\ tried = <<resolved>> => Last(tried) = resolved
          /\ Rescue /\ Len(tried) > 1 => Last(tried) # resolved
<1>1. Last(tried) = tried[Len(tried)] /\ Len(tried) \in 1..Len(tried) /\ Last(tried) \in Providers
  BY DEF Last, Inv, TypeOK, PlanOK
<1>2. ASSUME Rescue, Len(tried) > 1
      PROVE tried[Len(tried)] # resolved
  <2>1. Len(Cands) \in Nat /\ Len(todo) \in Nat
    BY Candidates DEF Inv, TypeOK
  <2>2. Len(tried) - 1 \in 1..Len(Cands) /\ tried[Len(tried)] = Cands[Len(tried) - 1]
    BY <1>1, <1>2, <2>1 DEF Rescue
  <2>3. QED
    BY <2>2, Candidates DEF Inv
<1>3. QED
  BY <1>1, <1>2

LEMMA InitInv == Init => Inv
<1> SUFFICES ASSUME Init PROVE Inv
  OBVIOUS
<1>1. order \in Seq(Providers)
  BY RescueAssumption DEF Init
<1>2. tried \in Seq(Providers) /\ Len(tried) = 1 /\ tried[1] = resolved /\ todo \in Seq(Providers)
  BY DEF Init
<1>3. TypeOK
  BY <1>1, <1>2 DEF Init, TypeOK, Results
<1>4. PlanOK
  BY <1>2 DEF Init, PlanOK, Before
<1>5. QED
  BY <1>3, <1>4 DEF Inv

\* Output of the resolved provider falls before a rescue, output of a candidate
\* is not the resolved provider's.
LEMMA EmitInv ==
    ASSUME Inv, Emit
    PROVE Inv'
<1>1. TypeOK'
  BY LastTried DEF Inv, TypeOK, Emit, selection
<1>2. PlanOK'
  <2>1. CASE Before
    BY <2>1 DEF Inv, PlanOK, Before, Emit, selection
  <2>2. CASE Rescue
    <3>1. resolved \notin visible'
      BY <2>2, LastTried DEF Emit, Rescue
    <3>2. QED
      BY <2>2, <3>1, SameCands DEF Inv, PlanOK, Rescue, Emit, selection
  <2>3. QED
    BY <2>1, <2>2 DEF Inv, PlanOK
<1>3. QED
  BY <1>1, <1>2 DEF Inv

LEMMA CompleteInv ==
    ASSUME Inv, Complete
    PROVE Inv'
<1>1. TypeOK'
  BY LastTried DEF Inv, TypeOK, Complete, End, Results, selection
<1>2. PlanOK'
  <2>1. CASE Before
    BY <2>1 DEF Inv, PlanOK, Before, Complete, End, selection
  <2>2. CASE Rescue
    <3>1. resolved \notin visible'
      BY <2>2, LastTried DEF Complete, Rescue
    <3>2. QED
      BY <2>2, <3>1, SameCands DEF Inv, PlanOK, Rescue, Complete, End, selection
  <2>3. QED
    BY <2>1, <2>2 DEF Inv, PlanOK
<1>3. QED
  BY <1>1, <1>2 DEF Inv

\* The first failure ends the completion or starts the rescue.
LEMMA FirstFailsInv ==
    ASSUME Inv, FirstFails
    PROVE Inv'
<1>1. PICK e \in Raised :
          IF _provider_fallback_allowed(e)
          THEN /\ todo' = Cands
               /\ running' = FALSE
               /\ result' = IF ~open THEN "deadline"
                            ELSE IF todo' = <<>> THEN "provider_error" ELSE "none"
          ELSE End(ErrorOf(e))
  BY DEF FirstFails, Cands
<1>2. Before /\ Len(tried) = 1
  BY DEF FirstFails, Inv, PlanOK, Rescue
<1>3. UNCHANGED <<selection, tried, visible, open, cancelled>>
  BY DEF FirstFails
<1>4. CASE _provider_fallback_allowed(e)
  <2>1. todo' = Cands /\ running' = FALSE
    BY <1>1, <1>4
  <2>2. Cands \in Seq(Providers)
    BY Candidates DEF Inv
  <2>3. result' \in {"deadline", "provider_error", "none"}
    BY <1>1, <1>4
  <2>4. TypeOK'
    BY <1>3, <2>1, <2>2, <2>3 DEF Inv, TypeOK, selection, Results
  <2>5. ~bound /\ resolved \notin visible
    BY <1>4 DEF _provider_fallback_allowed
  <2>6. result' = "none" => Cands # <<>>
    BY <1>1, <1>4, <2>1
  <2>7. result' = "provider_error" => Cands = <<>>
    BY <1>1, <1>4, <2>1
  <2>8. Rescue'
    <3>1. UNCHANGED <<bound, resolved, visible, tried>> /\ Cands' = Cands
      BY <1>3, SameCands DEF selection
    <3>2. Len(Cands) \in Nat /\ \A i \in 1..Len(Cands) : Cands[i] = Cands[1 - 1 + i]
      BY <2>2
    <3>3. Len(tried) + Len(Cands) = 1 + Len(Cands) /\ \A i \in 1..Len(tried) : ~(i > 1)
      BY <1>2, <3>2
    <3>4. \A i \in 1..Len(Cands) : Cands[i] = Cands[Len(tried) - 1 + i]
      BY <1>2, <3>2
    <3>5. QED
      BY <2>1, <2>5, <2>6, <2>7, <3>1, <3>3, <3>4 DEF Rescue
  <2>9. QED
    BY <1>3, <2>1, <2>4, <2>8 DEF Inv, PlanOK, selection
<1>5. CASE ~_provider_fallback_allowed(e)
  <2>1. result' \in Results \ {"none"} /\ UNCHANGED todo /\ running' = FALSE
    BY <1>1, <1>5 DEF End, ErrorOf, Results, Raised
  <2>2. QED
    BY <1>2, <1>3, <2>1 DEF Inv, TypeOK, PlanOK, Before, selection
<1>6. QED
  BY <1>4, <1>5

\* The next candidate moves from what is left to what was tried.
LEMMA NextCandidateInv ==
    ASSUME Inv, NextCandidate
    PROVE Inv'
<1>1. UNCHANGED <<selection, visible, open, cancelled>> /\ Cands' = Cands
  BY SameCands DEF NextCandidate
<1>2. Rescue /\ todo # <<>> /\ ~running /\ result = "none"
  BY DEF NextCandidate, Inv, PlanOK, Before, Rescue
<1>3. CASE open
  <2>1. tried' = Append(tried, Head(todo)) /\ todo' = Tail(todo) /\ running' = TRUE /\ result' = "none"
    BY <1>2, <1>3 DEF NextCandidate
  <2>2. /\ tried' \in Seq(Providers) /\ Len(tried') = Len(tried) + 1
        /\ \A i \in 1..Len(tried) : tried'[i] = tried[i]
        /\ tried'[Len(tried) + 1] = todo[1]
        /\ Len(tried) \in Nat
    BY <1>2, <2>1 DEF Inv, TypeOK
  <2>3. /\ todo' \in Seq(Providers) /\ Len(todo') = Len(todo) - 1
        /\ \A i \in 1..Len(todo') : todo'[i] = todo[i + 1]
        /\ Len(todo) \in Nat /\ Len(todo) > 0
    BY <1>2, <2>1 DEF Inv, TypeOK
  <2>4. TypeOK'
    BY <1>1, <2>1, <2>2, <2>3 DEF Inv, TypeOK, selection, Results
  <2>5. Len(tried) > 0 /\ tried[1] = resolved
    BY DEF Inv, PlanOK
  <2>6. \A i \in 1..Len(tried') : i > 1 => tried'[i] = Cands[i - 1]
    <3> SUFFICES ASSUME NEW i \in 1..(Len(tried) + 1), i > 1
                 PROVE tried'[i] = Cands[i - 1]
      BY <2>2
    <3>1. CASE i = Len(tried) + 1
      <4>1. todo[1] = Cands[Len(tried) - 1 + 1] /\ Len(tried) - 1 + 1 = i - 1
        BY <1>2, <2>2, <2>3, <3>1 DEF Rescue
      <4>2. QED
        BY <2>2, <3>1, <4>1
    <3>2. CASE i # Len(tried) + 1
      <4>1. i \in 1..Len(tried)
        BY <2>2, <3>2
      <4>2. QED
        BY <1>2, <2>2, <4>1 DEF Rescue
    <3>3. QED
      BY <3>1, <3>2
  <2>7. \A i \in 1..Len(todo') : todo'[i] = Cands[Len(tried') - 1 + i]
    <3> SUFFICES ASSUME NEW i \in 1..Len(todo')
                 PROVE todo'[i] = Cands[Len(tried') - 1 + i]
      OBVIOUS
    <3>1. i + 1 \in 1..Len(todo) /\ Len(tried) - 1 + (i + 1) = Len(tried') - 1 + i
      BY <2>2, <2>3
    <3>2. QED
      BY <1>2, <2>3, <3>1 DEF Rescue
  <2>8. Len(tried') + Len(todo') = 1 + Len(Cands) /\ Len(tried') > 1
    <3>1. Len(tried) + Len(todo) = 1 + Len(Cands)
      BY <1>2 DEF Rescue
    <3>2. /\ Len(tried) \in Nat /\ Len(todo) \in Nat /\ Len(tried) > 0
          /\ Len(tried') = Len(tried) + 1 /\ Len(todo') = Len(todo) - 1
      BY <2>2, <2>3, <2>5
    <3>3. QED
      BY ONLY <3>1, <3>2
  <2>9. Rescue'
    BY <1>1, <1>2, <2>1, <2>6, <2>7, <2>8 DEF Rescue, selection
  <2>10. Len(tried') > 0 /\ tried'[1] = resolved'
    BY <1>1, <2>2, <2>5 DEF selection
  <2>11. QED
    BY <2>1, <2>4, <2>9, <2>10 DEF Inv, PlanOK
<1>4. CASE ~open
  <2>1. result' = "deadline" /\ running' = FALSE /\ UNCHANGED <<todo, tried>>
    BY <1>4 DEF NextCandidate, End
  <2>2. TypeOK'
    BY <1>1, <2>1 DEF Inv, TypeOK, selection, Results
  <2>3. Rescue'
    BY <1>1, <1>2, <2>1 DEF Rescue, selection
  <2>4. QED
    BY <1>1, <2>1, <2>2, <2>3 DEF Inv, PlanOK, selection
<1>5. QED
  BY <1>3, <1>4

\* A failed candidate ends the completion, or leaves the rest to try.
LEMMA FallbackFailsInv ==
    ASSUME Inv, FallbackFails
    PROVE Inv'
<1>1. UNCHANGED <<selection, tried, visible, open, cancelled>> /\ Cands' = Cands
  BY SameCands DEF FallbackFails
<1>2. Rescue /\ running /\ Len(tried) > 1
  <2>1. running
    BY DEF FallbackFails
  <2>2. Len(tried) > 1
    BY DEF FallbackFails
  <2>3. ASSUME Before PROVE FALSE
    <3>1. Len(tried) = 1
      BY <2>3 DEF Before
    <3>2. QED
      BY ONLY <2>2, <3>1
  <2>4. QED
    BY <2>1, <2>2, <2>3 DEF Inv, PlanOK
<1>3. /\ running' = FALSE /\ UNCHANGED todo
      /\ \/ result' = "deadline"
         \/ result' = "provider_error" /\ todo = <<>>
         \/ result' = "none" /\ todo # <<>>
  BY <1>2 DEF FallbackFails, End, Inv, PlanOK
<1>4. TypeOK'
  BY <1>1, <1>3 DEF Inv, TypeOK, selection, Results
<1>5. Rescue'
  BY <1>1, <1>2, <1>3 DEF Rescue, selection
<1>6. QED
  BY <1>1, <1>3, <1>4, <1>5 DEF Inv, PlanOK, selection

\* The clock and the user change neither the plan nor the result.
LEMMA EnvironmentInv ==
    ASSUME Inv, DeadlinePasses \/ Cancel \/ UNCHANGED vars
    PROVE Inv'
<1>1. UNCHANGED <<selection, tried, visible, running, todo, result>> /\ Cands' = Cands
  BY SameCands DEF DeadlinePasses, Cancel, vars, selection
<1>2. TypeOK'
  BY <1>1 DEF Inv, TypeOK, DeadlinePasses, Cancel, vars, selection
<1>3. QED
  BY <1>1, <1>2 DEF Inv, PlanOK, Before, Rescue, selection

LEMMA NextInv ==
    ASSUME Inv, [Next]_vars
    PROVE Inv'
BY EmitInv, CompleteInv, FirstFailsInv, NextCandidateInv, FallbackFailsInv, EnvironmentInv DEF Next

-----------------------------------------------------------------------------
(* Theorems                                                                 *)

\* The invariant holds in every reachable state.
THEOREM Invariance == Spec => []Inv
BY InitInv, NextInv, PTL DEF Spec

\* Type correctness: every state variable of the rescue keeps its type.
THEOREM TypeCorrect == Spec => []TypeOK
BY Invariance, PTL DEF Inv

\* What _fallback_provider_candidates returns, for any LLM_FALLBACK_ORDER and
\* any set of configured and valid providers: every usable provider other than
\* the one that failed, each once, local first.
THEOREM CandidatesComplete ==
    Spec => [](/\ \A i, j \in 1..Len(Cands) : Cands[i] = Cands[j] => i = j
               /\ \A i \in 1..Len(Cands) : i > 1 => Cands[i] # Local
               /\ Range(Cands) = Usable \ {resolved})
<1>1. TypeOK => /\ \A i, j \in 1..Len(Cands) : Cands[i] = Cands[j] => i = j
                /\ \A i \in 1..Len(Cands) : i > 1 => Cands[i] # Local
                /\ Range(Cands) = Usable \ {resolved}
  BY Candidates
<1>2. QED
  BY <1>1, TypeCorrect, PTL

\* Once the resolved provider has shown output, or when it was chosen or
\* pinned, no other provider is dispatched to (_provider_fallback_allowed).
THEOREM FirstOutputSafety == Spec => []FirstOutputBinds
<1>1. Inv => FirstOutputBinds
  BY DEF Inv, PlanOK, Before, Rescue, FirstOutputBinds
<1>2. QED
  BY <1>1, Invariance, PTL

\* No provider is asked twice, a rescue asks usable providers only, and local
\* first.
THEOREM RescueSafety == Spec => []RescueOrder
<1>1. ASSUME Inv PROVE RescueOrder
  <2>1. /\ tried \in Seq(Providers) /\ Len(tried) \in Nat /\ DOMAIN tried = 1..Len(tried)
        /\ tried[1] = resolved /\ Len(todo) \in Nat /\ Len(Cands) \in Nat
    BY <1>1, Candidates DEF Inv, TypeOK, PlanOK
  <2>2. CASE Before
    <3>1. Len(tried) = 1
      BY <2>2 DEF Before
    <3>2. QED
      BY <2>1, <3>1 DEF RescueOrder
  <2>3. CASE Rescue
    <3>1. \A i \in 1..Len(tried) : i > 1 => i - 1 \in 1..Len(Cands) /\ tried[i] = Cands[i - 1]
      BY <2>1, <2>3 DEF Rescue
    <3>2. \A i \in 1..Len(tried) : i > 1 => tried[i] # resolved /\ (i > 2 => tried[i] # Local)
      BY <1>1, <2>1, <3>1, Candidates DEF Inv
    <3>3. ASSUME NEW i \in 1..Len(tried), NEW j \in 1..Len(tried), tried[i] = tried[j]
          PROVE i = j
      <4>1. CASE i = 1 \/ j = 1
        BY <2>1, <3>2, <3>3, <4>1
      <4>2. CASE i > 1 /\ j > 1
        <5>1. Cands[i - 1] = Cands[j - 1] /\ i - 1 \in 1..Len(Cands) /\ j - 1 \in 1..Len(Cands)
          BY <3>1, <3>3, <4>2
        <5>2. i - 1 = j - 1
          BY <1>1, <5>1, Candidates DEF Inv
        <5>3. QED
          BY <2>1, <5>2
      <4>3. QED
        BY <2>1, <4>1, <4>2
    <3>4. Range(Cands) = Usable \ {resolved} /\ Range(Cands) = {Cands[i] : i \in 1..Len(Cands)}
      BY <1>1, <2>1, Candidates DEF Inv, Range
    <3>5. \A i \in 1..Len(tried) : i > 1 => tried[i] \in Usable
      BY <3>1, <3>4
    <3>6. ASSUME Local \in Usable \ {resolved}, NEW i \in 1..Len(tried), i > 1
          PROVE tried[i] = Local <=> i = 2
      <4>1. PICK k \in 1..Len(Cands) : Cands[k] = Local
        BY <3>4, <3>6
      <4>2. ~(k > 1)
        BY <1>1, <4>1, Candidates DEF Inv
      <4>3. Cands[1] = Local
        BY <2>1, <4>1, <4>2
      <4>4. i = 2 => tried[i] = Local
        BY <3>1, <3>6, <4>3
      <4>5. i # 2 => i > 2
        BY <2>1, <3>6
      <4>6. QED
        BY <3>2, <3>6, <4>4, <4>5
    <3>7. QED
      BY <2>1, <3>3, <3>5, <3>6 DEF RescueOrder
  <2>4. QED
    BY <1>1, <2>2, <2>3 DEF Inv, PlanOK
<1>2. QED
  BY <1>1, Invariance, PTL

\* After the work deadline passed, a rescue never ends with a provider error
\* (_require_rescue_work_budget).
THEOREM DeadlineSafety == Spec => DeadlineWins
<1>1. ASSUME [Next]_vars, open = FALSE, Len(tried) > 1
      PROVE result' # "provider_error" \/ result = result'
  <2>1. CASE Emit \/ DeadlinePasses \/ Cancel \/ UNCHANGED vars
    BY <2>1 DEF Emit, DeadlinePasses, Cancel, vars
  <2>2. CASE Complete \/ NextCandidate
    BY <1>1, <2>2 DEF Complete, NextCandidate, End
  <2>3. CASE FirstFails
    BY <1>1, <2>3 DEF FirstFails
  <2>4. CASE FallbackFails
    BY <1>1, <2>4 DEF FallbackFails, End
  <2>5. QED
    BY <1>1, <2>1, <2>2, <2>3, <2>4 DEF Next
<1>2. QED
  BY <1>1, PTL DEF Spec, DeadlineWins
=============================================================================

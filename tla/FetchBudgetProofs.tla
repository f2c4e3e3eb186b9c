-------------------------- MODULE FetchBudgetProofs --------------------------
(***************************************************************************)
(* Proofs about FetchBudget, for any finite number of fetches and any      *)
(* domains, budgets, delays and caps.                                      *)
(***************************************************************************)
EXTENDS FetchBudget, FiniteSetTheorems, TLAPS

USE BudgetAssumption

\* A fetch that is over is a fetch state.
LEMMA IdleType == Idle \in FetchState
<1>1. (CHOOSE d \in Domain : TRUE) \in Domain
  OBVIOUS
<1> QED
  BY <1>1 DEF Idle, FetchState, Pc, Kind

\* The steps after a failed attempt keep the types.
LEMMA AttemptFailsType ==
  ASSUME TypeOK, NEW f \in Fetch, AttemptFails(f)
  PROVE  slots' \in [Key -> Nat] /\ fetch' \in [Fetch -> FetchState]
<1>1. CASE fetch[f].attempt < Retries
           /\ fetch' = [fetch EXCEPT ![f].attempt = @ + 1] /\ UNCHANGED slots
  BY <1>1 DEF TypeOK, FetchState
<1>2. CASE Goto(f, "queueing") /\ UNCHANGED slots
  BY <1>2 DEF TypeOK, FetchState, Goto, Pc
<1>3. CASE Release(f) /\ End(f)
  BY <1>3, IdleType DEF TypeOK, Release, End
<1> QED
  BY <1>1, <1>2, <1>3 DEF AttemptFails

\* Every step keeps the types.
LEMMA TypeStep == TypeOK /\ [Next]_vars => TypeOK'
<1> SUFFICES ASSUME TypeOK, [Next]_vars PROVE TypeOK'
  OBVIOUS
<1>1. CASE UNCHANGED vars
  BY <1>1 DEF TypeOK, vars
<1>2. CASE Tick
  BY <1>2 DEF TypeOK, Tick, FetchState
<1>3. ASSUME NEW f \in Fetch, Enter(f) PROVE TypeOK'
  <2>1. ASSUME NEW d \in Domain, BeginPage(f, d) PROVE TypeOK'
    BY <2>1, IdleType DEF TypeOK, BeginPage, FetchState, Pc, Kind
  <2>2. ASSUME NEW d \in Domain, NEW kind \in Kind, Begin(f, d, kind) PROVE TypeOK'
    <3>1. DelayFor(d) \in Nat
      BY DEF TypeOK, DelayFor
    <3> QED
      BY <2>2, <3>1 DEF TypeOK, Begin, FetchState, Pc
  <2> QED
    BY <1>3, <2>1, <2>2 DEF Enter
<1>4. ASSUME NEW f \in Fetch, Cancel(f) \/ Finish(f) \/ BrowserTimeout(f) PROVE TypeOK'
  BY <1>4, IdleType DEF TypeOK, Cancel, Finish, BrowserTimeout, Release, End
<1>5. ASSUME NEW f \in Fetch, Capped(f) \/ Exhausted(f) PROVE TypeOK'
  BY <1>5, IdleType DEF TypeOK, Capped, Exhausted, End
<1>6. ASSUME NEW f \in Fetch, Wake(f) \/ CheckCap(f) PROVE TypeOK'
  BY <1>6 DEF TypeOK, Wake, CheckCap, Goto, FetchState, Pc
<1>7. ASSUME NEW f \in Fetch, TakeSlot(f) PROVE TypeOK'
  <2>1. fetch[f].domain \in Domain /\ fetch[f].domain \in Key
    BY DEF TypeOK, FetchState, Key
  <2> QED
    BY <1>7, <2>1 DEF TypeOK, TakeSlot, Acquire, Goto, FetchState, Pc
<1>8. ASSUME NEW f \in Fetch, TakeBrowser(f) PROVE TypeOK'
  BY <1>8 DEF TypeOK, TakeBrowser, Acquire, Goto, FetchState, Pc, Key
<1>9. ASSUME NEW f \in Fetch, Record(f) PROVE TypeOK'
  BY <1>9 DEF TypeOK, Record, Goto, FetchState, Pc
<1>10. ASSUME NEW f \in Fetch, Fail(f) PROVE TypeOK'
  BY <1>10, AttemptFailsType DEF TypeOK, Fail
<1>11. ASSUME NEW f \in Fetch, TooMany(f) PROVE TypeOK'
  <2>1. wait' \in [Domain -> Nat]
    BY <1>11 DEF TypeOK, TooMany
  <2> QED
    BY <1>11, <2>1, AttemptFailsType DEF TypeOK, TooMany
<1> QED
  BY <1>1, <1>2, <1>3, <1>4, <1>5, <1>6, <1>7, <1>8, <1>9, <1>10, <1>11
  DEF Next, Step

\* The types hold at the start.
LEMMA TypeInit == Init => TypeOK
BY IdleType DEF Init, TypeOK

\* The tables of the budget manager and the fetches keep their types.
THEOREM TypeCorrect == Spec => []TypeOK
<1>1. TypeOK /\ [Next]_vars => TypeOK'
  BY TypeStep
<1> QED
  BY TypeInit, <1>1, PTL DEF Spec

-----------------------------------------------------------------------------
(* Slots. *)

\* The holders of a key are counted by a natural number.
LEMMA HoldersFinite ==
  ASSUME NEW k PROVE IsFiniteSet(Holders(k)) /\ Cardinality(Holders(k)) \in Nat
BY FS_Subset, FS_CardinalityType, Holders(k) \subseteq Fetch DEF Holders

\* A step that changes neither the slots nor what a fetch holds.
LEMMA HeldUnchanged ==
  ASSUME SlotsMatchHolders, UNCHANGED slots,
         \A g \in Fetch : HeldBy(g)' = HeldBy(g)
  PROVE  SlotsMatchHolders'
<1>1. \A k \in Key : Holders(k)' = Holders(k)
  BY DEF Holders
<1> QED
  BY <1>1 DEF SlotsMatchHolders

\* A step in which one fetch takes a slot it did not hold.
LEMMA HeldTaken ==
  ASSUME TypeOK, SlotsMatchHolders, NEW f \in Fetch, NEW k \in Key, Acquire(k),
         k \notin HeldBy(f), HeldBy(f)' = HeldBy(f) \cup {k},
         \A g \in Fetch \ {f} : HeldBy(g)' = HeldBy(g)
  PROVE  SlotsMatchHolders'
<1> SUFFICES ASSUME NEW j \in Key
             PROVE  slots'[j] = Cardinality(Holders(j)') /\ slots'[j] <= MaxConcurrent[j]
  BY DEF SlotsMatchHolders
<1>1. slots[j] = Cardinality(Holders(j)) /\ slots[j] <= MaxConcurrent[j]
  BY DEF SlotsMatchHolders
<1>2. CASE j = k
  <2>1. Holders(j)' = Holders(j) \cup {f} /\ f \notin Holders(j)
    BY <1>2 DEF Holders
  <2>2. Cardinality(Holders(j)') = Cardinality(Holders(j)) + 1
    BY <2>1, HoldersFinite, FS_AddElement
  <2>3. slots'[j] = slots[j] + 1 /\ slots[j] < MaxConcurrent[j]
        /\ slots[j] \in Nat /\ MaxConcurrent[j] \in Nat
    BY <1>2 DEF Acquire, TypeOK
  <2> QED
    BY <1>1, <2>2, <2>3
<1>3. CASE j # k
  <2>1. Holders(j)' = Holders(j)
    BY <1>3 DEF Holders
  <2>2. slots'[j] = slots[j]
    BY <1>3 DEF Acquire, TypeOK
  <2> QED
    BY <1>1, <2>1, <2>2
<1> QED
  BY <1>2, <1>3

\* A step in which one fetch gives back all it holds.
LEMMA HeldReleased ==
  ASSUME TypeOK, SlotsMatchHolders, NEW f \in Fetch, Release(f), HeldBy(f)' = {},
         \A g \in Fetch \ {f} : HeldBy(g)' = HeldBy(g)
  PROVE  SlotsMatchHolders'
<1> SUFFICES ASSUME NEW j \in Key
             PROVE  slots'[j] = Cardinality(Holders(j)') /\ slots'[j] <= MaxConcurrent[j]
  BY DEF SlotsMatchHolders
<1>1. slots[j] = Cardinality(Holders(j)) /\ slots[j] <= MaxConcurrent[j]
      /\ slots[j] \in Nat /\ MaxConcurrent[j] \in Nat
  BY DEF SlotsMatchHolders, TypeOK
<1>2. Holders(j)' = Holders(j) \ {f}
  BY DEF Holders
<1>3. Cardinality(Holders(j)') = IF f \in Holders(j) THEN Cardinality(Holders(j)) - 1
                                                     ELSE Cardinality(Holders(j))
  BY <1>2, HoldersFinite, FS_RemoveElement
<1>4. f \in Holders(j) <=> j \in HeldBy(f)
  BY DEF Holders
<1>5. Cardinality(Holders(j)') \in Nat
  <2>1. IsFiniteSet(Holders(j) \ {f})
    BY HoldersFinite, FS_RemoveElement
  <2> QED
    BY <1>2, <2>1, FS_CardinalityType
<1>6. slots'[j] = IF j \in HeldBy(f) /\ slots[j] > 0 THEN slots[j] - 1 ELSE slots[j]
  BY DEF Release
<1>7. CASE j \in HeldBy(f)
  BY <1>1, <1>3, <1>4, <1>5, <1>6, <1>7
<1>8. CASE j \notin HeldBy(f)
  BY <1>1, <1>3, <1>4, <1>6, <1>8
<1> QED
  BY <1>7, <1>8

\* What a fetch holds depends on its own state alone.
LEMMA OthersHold ==
  ASSUME TypeOK, NEW f \in Fetch, \A g \in Fetch \ {f} : fetch'[g] = fetch[g]
  PROVE  \A g \in Fetch \ {f} : HeldBy(g)' = HeldBy(g)
BY DEF HeldBy

\* Ending a fetch releases what it held.
LEMMA EndReleases ==
  ASSUME TypeOK, SlotsMatchHolders, NEW f \in Fetch, Release(f), End(f)
  PROVE  SlotsMatchHolders'
<1>1. fetch'[f] = Idle /\ \A g \in Fetch \ {f} : fetch'[g] = fetch[g]
  BY DEF End, TypeOK
<1>2. HeldBy(f)' = {}
  BY <1>1 DEF HeldBy, Idle
<1> QED
  BY <1>1, <1>2, OthersHold, HeldReleased

\* Moving one fetch between states with the same holdings keeps the slots right.
LEMMA MoveHolds ==
  ASSUME TypeOK, SlotsMatchHolders, UNCHANGED slots, NEW f \in Fetch,
         HeldBy(f)' = HeldBy(f), \A g \in Fetch \ {f} : fetch'[g] = fetch[g]
  PROVE  SlotsMatchHolders'
<1>1. \A g \in Fetch : HeldBy(g)' = HeldBy(g)
  BY OthersHold
<1> QED
  BY <1>1, HeldUnchanged

\* The steps after a failed attempt.
LEMMA AttemptFailsHolds ==
  ASSUME TypeOK, SlotsMatchHolders, NEW f \in Fetch, At(f, "requesting"), AttemptFails(f)
  PROVE  SlotsMatchHolders'
<1>1. CASE fetch' = [fetch EXCEPT ![f].attempt = @ + 1] /\ UNCHANGED slots
  <2>1. HeldBy(f)' = HeldBy(f) /\ \A g \in Fetch \ {f} : fetch'[g] = fetch[g]
    BY <1>1 DEF HeldBy, TypeOK, FetchState
  <2> QED
    BY <1>1, <2>1, MoveHolds
<1>2. CASE Goto(f, "queueing") /\ UNCHANGED slots
  <2>1. HeldBy(f)' = HeldBy(f) /\ \A g \in Fetch \ {f} : fetch'[g] = fetch[g]
    BY <1>2 DEF HeldBy, TypeOK, FetchState, Goto, At
  <2> QED
    BY <1>2, <2>1, MoveHolds
<1>3. CASE Release(f) /\ End(f)
  BY <1>3, EndReleases
<1> QED
  BY <1>1, <1>2, <1>3 DEF AttemptFails

\* render_page_html never asks for a slot of a domain: a page that is fetched
\* for a connector is with the browser.
PagesOnlyRender ==
  \A f \in Fetch : fetch[f].kind = "page" => fetch[f].pc \in {"queueing", "rendering"}

\* Every step leaves the pages with the browser.
LEMMA PagesStep == TypeOK /\ PagesOnlyRender /\ [Next]_vars => PagesOnlyRender'
<1> SUFFICES ASSUME TypeOK, PagesOnlyRender, [Next]_vars,
                    NEW g \in Fetch, fetch'[g].kind = "page"
             PROVE  fetch'[g].pc \in {"queueing", "rendering"}
  BY DEF PagesOnlyRender
<1>1. fetch[g].kind = "page" => fetch[g].pc \in {"queueing", "rendering"}
  BY DEF PagesOnlyRender
<1>2. CASE UNCHANGED vars
  BY <1>1, <1>2 DEF vars
<1>3. CASE Tick
  BY <1>1, <1>3 DEF Tick, TypeOK, FetchState
<1>4. ASSUME NEW f \in Fetch, Enter(f) PROVE fetch'[g].pc \in {"queueing", "rendering"}
  <2>1. ASSUME NEW d \in Domain, BeginPage(f, d)
        PROVE  fetch'[g].pc \in {"queueing", "rendering"}
    BY <1>1, <2>1 DEF BeginPage, TypeOK, FetchState, Idle
  <2>2. ASSUME NEW d \in Domain, NEW kind \in Kind, Begin(f, d, kind)
        PROVE  fetch'[g].pc \in {"queueing", "rendering"}
    BY <1>1, <2>2 DEF Begin, TypeOK, FetchState
  <2> QED
    BY <1>4, <2>1, <2>2 DEF Enter
<1>5. ASSUME NEW f \in Fetch, End(f) PROVE fetch'[g].pc \in {"queueing", "rendering"}
  BY <1>1, <1>5 DEF End, Idle, TypeOK, FetchState
<1>6. ASSUME NEW f \in Fetch, Wake(f) \/ CheckCap(f) \/ Record(f) \/ TakeSlot(f)
      PROVE  fetch'[g].pc \in {"queueing", "rendering"}
  BY <1>1, <1>6 DEF Wake, CheckCap, Record, TakeSlot, At, Goto, TypeOK, FetchState
<1>7. ASSUME NEW f \in Fetch, TakeBrowser(f)
      PROVE  fetch'[g].pc \in {"queueing", "rendering"}
  BY <1>1, <1>7 DEF TakeBrowser, Goto, TypeOK, FetchState
<1>8. ASSUME NEW f \in Fetch, Fail(f) \/ TooMany(f)
      PROVE  fetch'[g].pc \in {"queueing", "rendering"}
  <2>1. CASE fetch' = [fetch EXCEPT ![f].attempt = @ + 1]
    BY <1>1, <2>1 DEF TypeOK, FetchState
  <2>2. CASE Goto(f, "queueing")
    BY <1>1, <2>2 DEF Goto, TypeOK, FetchState
  <2> QED
    BY <1>5, <1>8, <2>1, <2>2 DEF Fail, TooMany, AttemptFails
<1> QED
  BY <1>2, <1>3, <1>4, <1>5, <1>6, <1>7, <1>8
  DEF Next, Step, Finish, Cancel, BrowserTimeout, Capped, Exhausted

\* Every step keeps slots and holders together.
LEMMA SlotsStep ==
  TypeOK /\ PagesOnlyRender /\ SlotsMatchHolders /\ [Next]_vars => SlotsMatchHolders'
<1> SUFFICES ASSUME TypeOK, PagesOnlyRender, SlotsMatchHolders, [Next]_vars
             PROVE  SlotsMatchHolders'
  OBVIOUS
<1>1. CASE UNCHANGED vars
  BY <1>1, HeldUnchanged DEF HeldBy, vars
<1>2. CASE Tick
  <2>1. \A g \in Fetch : HeldBy(g)' = HeldBy(g)
    BY <1>2 DEF Tick, HeldBy, TypeOK, FetchState
  <2> QED
    BY <1>2, <2>1, HeldUnchanged DEF Tick
<1>3. ASSUME NEW f \in Fetch, Enter(f) PROVE SlotsMatchHolders'
  <2>1. ASSUME NEW d \in Domain, BeginPage(f, d) PROVE SlotsMatchHolders'
    <3>1. HeldBy(f)' = HeldBy(f) /\ \A g \in Fetch \ {f} : fetch'[g] = fetch[g]
      BY <2>1 DEF BeginPage, At, HeldBy, TypeOK, FetchState, Idle
    <3> QED
      BY <2>1, <3>1, MoveHolds DEF BeginPage
  <2>2. ASSUME NEW d \in Domain, NEW kind \in Kind, Begin(f, d, kind)
        PROVE  SlotsMatchHolders'
    <3>1. HeldBy(f)' = HeldBy(f) /\ \A g \in Fetch \ {f} : fetch'[g] = fetch[g]
      BY <2>2 DEF Begin, At, HeldBy, TypeOK, FetchState
    <3> QED
      BY <2>2, <3>1, MoveHolds DEF Begin
  <2> QED
    BY <1>3, <2>1, <2>2 DEF Enter
<1>4. ASSUME NEW f \in Fetch, Cancel(f) \/ Finish(f) \/ BrowserTimeout(f)
      PROVE  SlotsMatchHolders'
  BY <1>4, EndReleases DEF Cancel, Finish, BrowserTimeout
<1>5. ASSUME NEW f \in Fetch, Capped(f) \/ Exhausted(f) PROVE SlotsMatchHolders'
  <2>1. HeldBy(f)' = HeldBy(f) /\ \A g \in Fetch \ {f} : fetch'[g] = fetch[g]
    BY <1>5 DEF Capped, Exhausted, At, End, HeldBy, TypeOK, Idle
  <2> QED
    BY <1>5, <2>1, MoveHolds DEF Capped, Exhausted
<1>6. ASSUME NEW f \in Fetch, Wake(f) \/ CheckCap(f) \/ Record(f) PROVE SlotsMatchHolders'
  <2>1. HeldBy(f)' = HeldBy(f) /\ \A g \in Fetch \ {f} : fetch'[g] = fetch[g]
    BY <1>6 DEF Wake, CheckCap, Record, At, Goto, HeldBy, TypeOK, FetchState
  <2> QED
    BY <1>6, <2>1, MoveHolds DEF Wake, CheckCap, Record
<1>7. ASSUME NEW f \in Fetch, TakeSlot(f) PROVE SlotsMatchHolders'
  <2>1. fetch[f].domain \in Domain /\ fetch[f].domain \in Key
    BY DEF TypeOK, FetchState, Key
  <2>2. \A g \in Fetch \ {f} : HeldBy(g)' = HeldBy(g)
    BY <1>7, OthersHold DEF TakeSlot, Goto, TypeOK
  <2>3. fetch[f].kind # "page"
    BY <1>7 DEF TakeSlot, At, PagesOnlyRender
  <2>4. HeldBy(f) = {} /\ HeldBy(f)' = {fetch[f].domain}
    BY <1>7, <2>1, <2>3 DEF TakeSlot, At, Goto, HeldBy, TypeOK, FetchState
  <2> QED
    BY <1>7, <2>1, <2>2, <2>4, HeldTaken DEF TakeSlot
<1>8. ASSUME NEW f \in Fetch, TakeBrowser(f) PROVE SlotsMatchHolders'
  <2>1. \A g \in Fetch \ {f} : HeldBy(g)' = HeldBy(g)
    BY <1>8, OthersHold DEF TakeBrowser, Goto, TypeOK
  <2>2. Browser \notin HeldBy(f) /\ HeldBy(f)' = HeldBy(f) \cup {Browser}
    BY <1>8 DEF TakeBrowser, At, Goto, HeldBy, TypeOK, FetchState
  <2> QED
    BY <1>8, <2>1, <2>2, HeldTaken DEF TakeBrowser, Key
<1>9. ASSUME NEW f \in Fetch, Fail(f) \/ TooMany(f) PROVE SlotsMatchHolders'
  BY <1>9, AttemptFailsHolds DEF Fail, TooMany
<1> QED
  BY <1>1, <1>2, <1>3, <1>4, <1>5, <1>6, <1>7, <1>8, <1>9 DEF Next, Step

\* Nothing is held at the start.
LEMMA SlotsInit == Init => PagesOnlyRender /\ SlotsMatchHolders
<1> SUFFICES ASSUME Init PROVE PagesOnlyRender /\ SlotsMatchHolders
  OBVIOUS
<1>1. PagesOnlyRender
  BY DEF Init, Idle, PagesOnlyRender
<1>2. \A k \in Key : Holders(k) = {}
  BY DEF Init, Idle, Holders, HeldBy
<1>3. \A k \in Key : slots[k] = 0 /\ 0 <= MaxConcurrent[k]
  BY DEF Init
<1> QED
  BY <1>1, <1>2, <1>3, FS_EmptySet DEF SlotsMatchHolders

\* Whatever happens to the fetches, a key has as many slots taken as fetches
\* hold one, and no more than max_concurrent.
THEOREM SlotsNeverLeak == Spec => []SlotsMatchHolders
<1>1. TypeOK /\ PagesOnlyRender /\ SlotsMatchHolders /\ [Next]_vars
        => TypeOK' /\ PagesOnlyRender' /\ SlotsMatchHolders'
  BY TypeStep, PagesStep, SlotsStep
<1> QED
  BY TypeInit, SlotsInit, <1>1, PTL DEF Spec

-----------------------------------------------------------------------------
(* The cap. *)

\* The requests of a domain that are counted, and those that passed the guard
\* and are not counted yet, stay together under the bound.
BurstInv ==
  \A d \in Domain : burst[d] + Cardinality(Uncounted(d)) < Limit + Cardinality(Fetch)

\* The fetches that are not counted yet are a finite set of fetches.
LEMMA UncountedFinite ==
  ASSUME NEW d
  PROVE  /\ IsFiniteSet(Uncounted(d))
         /\ Cardinality(Uncounted(d)) \in Nat
         /\ Cardinality(Uncounted(d)) <= Cardinality(Fetch)
         /\ Cardinality(Fetch) \in Nat
BY FS_Subset, FS_CardinalityType, Uncounted(d) \subseteq Fetch DEF Uncounted

\* The same after a step.
LEMMA UncountedFiniteNext ==
  ASSUME NEW d
  PROVE  Cardinality(Uncounted(d)') \in Nat /\ Cardinality(Uncounted(d)') <= Cardinality(Fetch)
BY FS_Subset, FS_CardinalityType, Uncounted(d)' \subseteq Fetch DEF Uncounted

\* A step that counts nothing and lets nobody past the guard.
LEMMA BurstKept ==
  ASSUME TypeOK, BurstInv, UNCHANGED burst, \A d \in Domain : Uncounted(d)' \subseteq Uncounted(d)
  PROVE  BurstInv'
<1> SUFFICES ASSUME NEW d \in Domain
             PROVE  burst'[d] + Cardinality(Uncounted(d)') < Limit + Cardinality(Fetch)
  BY DEF BurstInv
<1>1. Cardinality(Uncounted(d)') <= Cardinality(Uncounted(d))
  BY UncountedFinite, FS_Subset
<1>2. burst[d] + Cardinality(Uncounted(d)) < Limit + Cardinality(Fetch)
  BY DEF BurstInv
<1> QED
  BY <1>1, <1>2, UncountedFinite, UncountedFiniteNext DEF TypeOK

\* A step of one fetch that does not end past the guard.
LEMMA BurstMoved ==
  ASSUME TypeOK, BurstInv, UNCHANGED burst, NEW f \in Fetch,
         \A g \in Fetch \ {f} : fetch'[g] = fetch[g],
         \A d \in Domain : f \in Uncounted(d)' => f \in Uncounted(d)
  PROVE  BurstInv'
<1>1. \A d \in Domain : Uncounted(d)' \subseteq Uncounted(d)
  BY DEF Uncounted
<1> QED
  BY <1>1, BurstKept

\* Passing the guard: the count was under the limit.
LEMMA BurstChecked ==
  ASSUME TypeOK, BurstInv, NEW f \in Fetch, CheckCap(f)
  PROVE  BurstInv'
<1> SUFFICES ASSUME NEW d \in Domain
             PROVE  burst'[d] + Cardinality(Uncounted(d)') < Limit + Cardinality(Fetch)
  BY DEF BurstInv
<1>1. burst' = burst /\ burst[d] \in Nat /\ Limit \in Nat
  BY DEF CheckCap, TypeOK
<1>2. CASE d = fetch[f].domain
  <2>1. burst[d] < Limit
    BY <1>2 DEF CheckCap, UnderCap
  <2> QED
    BY <1>1, <2>1, UncountedFinite, UncountedFiniteNext
<1>3. CASE d # fetch[f].domain
  <2>1. Uncounted(d)' = Uncounted(d)
    BY <1>3 DEF CheckCap, Goto, Uncounted, TypeOK, FetchState
  <2> QED
    BY <1>1, <2>1 DEF BurstInv
<1> QED
  BY <1>2, <1>3

\* Counting a request: the fetch stops being uncounted, and a new window
\* starts from one request.
LEMMA BurstRecorded ==
  ASSUME TypeOK, BurstInv, NEW f \in Fetch, Record(f)
  PROVE  BurstInv'
<1> SUFFICES ASSUME NEW d \in Domain
             PROVE  burst'[d] + Cardinality(Uncounted(d)') < Limit + Cardinality(Fetch)
  BY DEF BurstInv
<1>1. burst[d] \in Nat /\ Limit \in Nat \ {0}
  BY DEF TypeOK
<1>2. burst[d] + Cardinality(Uncounted(d)) < Limit + Cardinality(Fetch)
  BY DEF BurstInv
<1>3. CASE d = fetch[f].domain
  <2>1. Uncounted(d)' = Uncounted(d) \ {f} /\ f \in Uncounted(d)
    BY <1>3 DEF Record, At, Goto, Uncounted, TypeOK, FetchState
  <2>2. Cardinality(Uncounted(d)') = Cardinality(Uncounted(d)) - 1
    BY <2>1, UncountedFinite, FS_RemoveElement
  <2>3. burst'[d] = burst[d] + 1 \/ burst'[d] = 1
    BY <1>3 DEF Record, TypeOK
  <2> QED
    BY <1>1, <1>2, <2>2, <2>3, UncountedFinite
<1>4. CASE d # fetch[f].domain
  <2>1. Uncounted(d)' = Uncounted(d)
    BY <1>4 DEF Record, Goto, Uncounted, TypeOK, FetchState
  <2>2. burst'[d] = burst[d]
    BY <1>4 DEF Record, TypeOK
  <2> QED
    BY <1>2, <2>1, <2>2
<1> QED
  BY <1>3, <1>4

\* Every step keeps the bound.
LEMMA BurstStep == TypeOK /\ BurstInv /\ [Next]_vars => BurstInv'
<1> SUFFICES ASSUME TypeOK, BurstInv, [Next]_vars PROVE BurstInv'
  OBVIOUS
<1>1. CASE UNCHANGED vars
  BY <1>1, BurstKept DEF vars, Uncounted
<1>2. CASE Tick
  <2>1. \A d \in Domain : Uncounted(d)' \subseteq Uncounted(d)
    BY <1>2 DEF Tick, Uncounted, TypeOK, FetchState
  <2> QED
    BY <1>2, <2>1, BurstKept DEF Tick
<1>3. ASSUME NEW f \in Fetch, Enter(f) PROVE BurstInv'
  <2>1. UNCHANGED burst /\ fetch'[f].pc \notin {"checked", "counting"}
        /\ \A g \in Fetch \ {f} : fetch'[g] = fetch[g]
    <3>1. ASSUME NEW d \in Domain, BeginPage(f, d)
          PROVE  /\ UNCHANGED burst
                 /\ fetch'[f].pc = "queueing"
                 /\ \A g \in Fetch \ {f} : fetch'[g] = fetch[g]
      BY <3>1 DEF BeginPage, TypeOK, Idle
    <3>2. ASSUME NEW d \in Domain, NEW kind \in Kind, Begin(f, d, kind)
          PROVE  /\ UNCHANGED burst
                 /\ fetch'[f].pc \in {"sleeping", "ready"}
                 /\ \A g \in Fetch \ {f} : fetch'[g] = fetch[g]
      BY <3>2 DEF Begin, TypeOK
    <3> QED
      BY <1>3, <3>1, <3>2 DEF Enter
  <2> QED
    BY <2>1, BurstMoved DEF Uncounted
<1>4. ASSUME NEW f \in Fetch, End(f), UNCHANGED burst PROVE BurstInv'
  <2>1. fetch'[f].pc \notin {"checked", "counting"}
        /\ \A g \in Fetch \ {f} : fetch'[g] = fetch[g]
    BY <1>4 DEF End, Idle, TypeOK
  <2> QED
    BY <1>4, <2>1, BurstMoved DEF Uncounted
<1>5. ASSUME NEW f \in Fetch, Wake(f) \/ TakeSlot(f) \/ TakeBrowser(f) PROVE BurstInv'
  <2>1. UNCHANGED burst /\ \A g \in Fetch \ {f} : fetch'[g] = fetch[g]
    BY <1>5 DEF Wake, TakeSlot, TakeBrowser, Goto, TypeOK
  <2>2. \A d \in Domain : f \in Uncounted(d)' => f \in Uncounted(d)
    BY <1>5 DEF Wake, TakeSlot, TakeBrowser, At, Goto, Uncounted, TypeOK, FetchState
  <2> QED
    BY <2>1, <2>2, BurstMoved
<1>6. ASSUME NEW f \in Fetch, Fail(f) \/ TooMany(f) PROVE BurstInv'
  <2>1. UNCHANGED burst
    BY <1>6 DEF Fail, TooMany
  <2>2. CASE fetch' = [fetch EXCEPT ![f].attempt = @ + 1] \/ Goto(f, "queueing")
    <3>1. \A g \in Fetch \ {f} : fetch'[g] = fetch[g]
      BY <2>2 DEF Goto, TypeOK
    <3>2. \A d \in Domain : f \in Uncounted(d)' => f \in Uncounted(d)
      BY <1>6, <2>2 DEF Fail, TooMany, At, Goto, Uncounted, TypeOK, FetchState
    <3> QED
      BY <2>1, <3>1, <3>2, BurstMoved
  <2> QED
    BY <1>4, <1>6, <2>1, <2>2 DEF Fail, TooMany, AttemptFails
<1> QED
  BY <1>1, <1>2, <1>3, <1>4, <1>5, <1>6, BurstChecked, BurstRecorded
  DEF Next, Step, Finish, Cancel, BrowserTimeout, Capped, Exhausted

\* Nothing is counted at the start.
LEMMA BurstInit == Init => BurstInv
<1> SUFFICES ASSUME Init, NEW d \in Domain
             PROVE  burst[d] + Cardinality(Uncounted(d)) < Limit + Cardinality(Fetch)
  BY DEF BurstInv
<1>1. Uncounted(d) = {}
  BY DEF Init, Idle, Uncounted
<1>2. burst[d] = 0 /\ Cardinality(Uncounted(d)) = 0
  BY <1>1, FS_EmptySet DEF Init
<1> QED
  BY <1>2, UncountedFinite

\* The bound on both implies the bound on what is counted.
LEMMA BurstInvBounds == TypeOK /\ BurstInv => BurstBounded
<1> SUFFICES ASSUME TypeOK, BurstInv, NEW d \in Domain
             PROVE  burst[d] < Limit + Cardinality(Fetch)
  BY DEF BurstBounded
<1>1. burst[d] + Cardinality(Uncounted(d)) < Limit + Cardinality(Fetch)
  BY DEF BurstInv
<1> QED
  BY <1>1, UncountedFinite DEF TypeOK

\* The cap of a domain is overshot by less than the number of fetches that can
\* be between the guard of acquire and record_request.
THEOREM BurstNeverRunsAway == Spec => []BurstBounded
<1>1. TypeOK /\ BurstInv /\ [Next]_vars => TypeOK' /\ BurstInv'
  BY TypeStep, BurstStep
<1> QED
  BY TypeInit, BurstInit, <1>1, BurstInvBounds, PTL DEF Spec
=============================================================================

----------------------------- MODULE FetchBudget -----------------------------
(***************************************************************************)
(* The budget that all fetches of a process share: concurrent slots and a  *)
(* delay per domain, a cap on the requests of a window, and one slot key   *)
(* for the headless browser (scraper/domain_budget.py), with the fetches   *)
(* that use it (fetch_httpx_text, fetch_httpx_bytes and render_page_html   *)
(* in connectors/common.py).                                               *)
(*                                                                         *)
(* The manager's methods are atomic under its lock, a fetch is not: it     *)
(* asks for the delay, sleeps, checks the cap and takes a slot in separate *)
(* steps, and the fetches of run-all are in different threads.             *)
(***************************************************************************)
EXTENDS Integers, FiniteSets

CONSTANTS
  Fetch,          \* fetches that may be in progress at once
  Domain,         \* hosts
  Browser,        \* the key "playwright"
  MaxConcurrent,  \* max_concurrent of each key
  Delay,          \* delay_seconds of each domain
  RetryAfter,     \* back-offs a 429 can ask for
  Retries,        \* attempts of one fetch
  Limit,          \* settings.throttle_max_per_day
  Window,         \* _burst_window_seconds
  Unopened        \* no window was opened yet

Key == Domain \cup {Browser}

ASSUME BudgetAssumption ==
  /\ IsFiniteSet(Fetch)
  /\ Domain # {} /\ Browser \notin Domain
  /\ MaxConcurrent \in [Key -> Nat \ {0}]
  /\ Delay \in [Domain -> Nat]
  /\ RetryAfter \subseteq Nat \ {0}
  /\ Retries \in Nat \ {0}
  /\ Limit \in Nat \ {0}
  /\ Window \in Nat
  /\ Unopened \notin Nat

VARIABLES
  slots,   \* _slots
  wait,    \* time until delay_seconds have passed since _last_times
  burst,   \* _burst_counts
  age,     \* time since _burst_window_start
  fetch    \* where each fetch is

vars == <<slots, wait, burst, age, fetch>>

\* text: fetch_httpx_text; bytes: fetch_httpx_bytes; page: render_page_html
\* called by a connector, which takes no slot of the domain.
Kind == {"text", "bytes", "page"}

Pc == {"idle", "sleeping", "ready", "checked", "counting", "requesting",
       "queueing", "rendering"}

FetchState == [pc : Pc, kind : Kind, domain : Domain, timer : Nat, attempt : 1..Retries]

Idle == [pc |-> "idle", kind |-> "text", domain |-> CHOOSE d \in Domain : TRUE,
         timer |-> 0, attempt |-> 1]

Init ==
  /\ slots = [k \in Key |-> 0]
  /\ wait = [d \in Domain |-> 0]
  /\ burst = [d \in Domain |-> 0]
  /\ age = [d \in Domain |-> Unopened]
  /\ fetch = [f \in Fetch |-> Idle]

At(f, pc) == fetch[f].pc = pc

Goto(f, pc) == fetch' = [fetch EXCEPT ![f].pc = pc]

End(f) == fetch' = [fetch EXCEPT ![f] = Idle]

\* Keys whose slot f has to give back.
HeldBy(f) ==
  LET t == fetch[f] IN
  {d \in Domain : /\ t.domain = d /\ t.kind # "page"
                  /\ t.pc \in {"counting", "requesting", "queueing", "rendering"}}
    \cup {b \in {Browser} : t.pc = "rendering"}

-----------------------------------------------------------------------------
(* The manager. *)

DelayFor(d) == IF Delay[d] = 0 THEN 0 ELSE wait[d]

Acquire(k) ==
  /\ slots[k] < MaxConcurrent[k]
  /\ slots' = [slots EXCEPT ![k] = @ + 1]

\* Mutant: a fetch that is cancelled in the queue of the browser forgets the
\* slot of its domain.
ReleaseRendered(f) ==
  slots' = [k \in Key |->
    IF k \in HeldBy(f) /\ fetch[f].pc # "queueing" /\ slots[k] > 0
      THEN slots[k] - 1 ELSE slots[k]]

\* The finally blocks of a fetch that returns, raises or is cancelled.
Release(f) ==
  slots' = [k \in Key |-> IF k \in HeldBy(f) /\ slots[k] > 0
                            THEN slots[k] - 1 ELSE slots[k]]

\* Mutant: the cap is compared with >.
UnderCapOrAt(d) == burst[d] <= Limit

UnderCap(d) == burst[d] < Limit

-----------------------------------------------------------------------------
(* A fetch. *)

\* delay_for, and how long the fetch will sleep.
Begin(f, d, kind) ==
  /\ At(f, "idle") /\ kind # "page"
  /\ fetch' = [fetch EXCEPT ![f] = [pc |-> IF DelayFor(d) > 0 THEN "sleeping" ELSE "ready",
                 kind |-> kind, domain |-> d, timer |-> DelayFor(d), attempt |-> 1]]
  /\ UNCHANGED <<slots, wait, burst, age>>

\* render_page_html called directly.
BeginPage(f, d) ==
  /\ At(f, "idle")
  /\ fetch' = [fetch EXCEPT ![f] = [Idle EXCEPT !.pc = "queueing", !.kind = "page",
                                                !.domain = d]]
  /\ UNCHANGED <<slots, wait, burst, age>>

\* Mutant: after its sleep the fetch asks again for the delay.
WakeAndAsk(f) ==
  LET d == fetch[f].domain IN
  /\ At(f, "sleeping") /\ fetch[f].timer = 0
  /\ fetch' = [fetch EXCEPT ![f].pc = IF DelayFor(d) > 0 THEN "sleeping" ELSE "ready",
                            ![f].timer = DelayFor(d)]
  /\ UNCHANGED <<slots, wait, burst, age>>

Wake(f) ==
  /\ At(f, "sleeping") /\ fetch[f].timer = 0
  /\ Goto(f, "ready")
  /\ UNCHANGED <<slots, wait, burst, age>>

\* acquire, first half: the burst guard, which takes the lock by itself.
CheckCap(f) ==
  /\ At(f, "ready")
  /\ UnderCap(fetch[f].domain)
  /\ Goto(f, "checked")
  /\ UNCHANGED <<slots, wait, burst, age>>

Capped(f) ==
  /\ At(f, "ready")
  /\ ~UnderCap(fetch[f].domain)
  /\ End(f)
  /\ UNCHANGED <<slots, wait, burst, age>>

\* acquire, second half: a slot, and the time for delay_for.
TakeSlot(f) ==
  LET d == fetch[f].domain IN
  /\ At(f, "checked")
  /\ Acquire(d)
  /\ wait' = [wait EXCEPT ![d] = Delay[d]]
  /\ Goto(f, IF fetch[f].kind = "text" THEN "counting" ELSE "requesting")
  /\ UNCHANGED <<burst, age>>

\* No slot: "Domain budget exhausted".
Exhausted(f) ==
  /\ At(f, "checked")
  /\ slots[fetch[f].domain] >= MaxConcurrent[fetch[f].domain]
  /\ End(f)
  /\ UNCHANGED <<slots, wait, burst, age>>

\* record_request.
Record(f) ==
  LET d == fetch[f].domain
      fresh == age[d] = Unopened \/ age[d] > Window
  IN  /\ At(f, "counting")
      /\ burst' = [burst EXCEPT ![d] = IF fresh THEN 1 ELSE @ + 1]
      /\ age' = [age EXCEPT ![d] = IF fresh THEN 0 ELSE @]
      /\ Goto(f, "requesting")
      /\ UNCHANGED <<slots, wait>>

\* An answer, or a refusal that is not retried; the page of the browser.
Finish(f) ==
  /\ At(f, "requesting") \/ At(f, "rendering")
  /\ Release(f)
  /\ End(f)
  /\ UNCHANGED <<wait, burst, age>>

\* After a failed attempt: the next one, at once; after the last one the
\* browser, with the slot of the domain, or the error.
AttemptFails(f) ==
  \/ /\ fetch[f].attempt < Retries
     /\ fetch' = [fetch EXCEPT ![f].attempt = @ + 1]
     /\ UNCHANGED slots
  \/ /\ fetch[f].attempt = Retries /\ fetch[f].kind = "text"
     /\ Goto(f, "queueing")
     /\ UNCHANGED slots
  \/ /\ fetch[f].attempt = Retries
     /\ Release(f)
     /\ End(f)

Fail(f) ==
  /\ At(f, "requesting")
  /\ AttemptFails(f)
  /\ UNCHANGED <<wait, burst, age>>

\* An attempt of a text fetch was answered 429: handle_429.
TooMany(f) ==
  /\ At(f, "requesting") /\ fetch[f].kind = "text"
  /\ AttemptFails(f)
  /\ \E r \in RetryAfter : wait' = [wait EXCEPT ![fetch[f].domain] = r]
  /\ UNCHANGED <<burst, age>>

\* The browser's key: nothing records requests or a delay for it.
TakeBrowser(f) ==
  /\ At(f, "queueing")
  /\ Acquire(Browser)
  /\ Goto(f, "rendering")
  /\ UNCHANGED <<wait, burst, age>>

\* The deadline passed and the last try found no slot.
BrowserTimeout(f) ==
  /\ At(f, "queueing")
  /\ slots[Browser] >= MaxConcurrent[Browser]
  /\ Release(f)
  /\ End(f)
  /\ UNCHANGED <<wait, burst, age>>

\* The timeout of the scrape, or a shutdown, cancels the fetch at an await.
Cancel(f) ==
  /\ fetch[f].pc \in {"sleeping", "requesting", "queueing", "rendering"}
  /\ Release(f)
  /\ End(f)
  /\ UNCHANGED <<wait, burst, age>>

Tick ==
  /\ wait' = [d \in Domain |-> IF wait[d] > 0 THEN wait[d] - 1 ELSE 0]
  /\ age' = [d \in Domain |-> IF age[d] # Unopened /\ age[d] <= Window
                                THEN age[d] + 1 ELSE age[d]]
  /\ fetch' = [f \in Fetch |-> IF fetch[f].timer > 0
                                 THEN [fetch[f] EXCEPT !.timer = @ - 1] ELSE fetch[f]]
  /\ UNCHANGED <<slots, burst>>

-----------------------------------------------------------------------------

Enter(f) == \E d \in Domain : BeginPage(f, d) \/ \E kind \in Kind : Begin(f, d, kind)

\* What a fetch that started does by itself.
Step(f) ==
  \/ Wake(f) \/ CheckCap(f) \/ Capped(f) \/ TakeSlot(f) \/ Exhausted(f) \/ Record(f)
  \/ Finish(f) \/ Fail(f) \/ TooMany(f)
  \/ TakeBrowser(f) \/ BrowserTimeout(f)

Next == Tick \/ \E f \in Fetch : Enter(f) \/ Step(f) \/ Cancel(f)

Spec == Init /\ [][Next]_vars

\* Requests, renders and waits have timeouts, and time passes.
Fairness == WF_vars(Tick) /\ \A f \in Fetch : WF_vars(Step(f))

FairSpec == Spec /\ Fairness

-----------------------------------------------------------------------------
(* Properties. *)

\* Type invariant of the manager's tables and of the fetches.
TypeOK ==
  /\ slots \in [Key -> Nat]
  /\ wait \in [Domain -> Nat]
  /\ burst \in [Domain -> Nat]
  /\ age \in [Domain -> Nat \cup {Unopened}]
  /\ fetch \in [Fetch -> FetchState]

Holders(k) == {f \in Fetch : k \in HeldBy(f)}

\* No slot is lost and none is given back twice, on any path out of a fetch
\* (the finally blocks of connectors/common.py); no key is over its budget.
SlotsMatchHolders ==
  \A k \in Key : slots[k] = Cardinality(Holders(k)) /\ slots[k] <= MaxConcurrent[k]

\* Fetches that passed the burst guard and did not record their request yet.
Uncounted(d) ==
  {f \in Fetch : fetch[f].domain = d /\ fetch[f].pc \in {"checked", "counting"}}

\* The guard and the count are separate, so the cap can be overshot, but by
\* less than the number of fetches (acquire, record_request).
BurstBounded == \A d \in Domain : burst[d] < Limit + Cardinality(Fetch)

\* Every fetch ends: nobody keeps a slot or the browser for ever.
FetchesEnd == \A f \in Fetch : fetch[f].pc # "idle" ~> fetch[f].pc = "idle"

\* The comment on _burst_counts: a counter with a window.  A fetch is turned
\* away by the cap only while the window it was counted in lasts.
CappedOnlyInWindow ==
  [][\A f \in Fetch : Capped(f) => age[fetch[f].domain] <= Window]_vars

\* The docstring of domain_budget.py: each domain gets a delay between requests.
\* A slot is taken only when the delay of the domain is over.
SpacingKept ==
  [][\A f \in Fetch : TakeSlot(f) => DelayFor(fetch[f].domain) = 0]_vars
=============================================================================

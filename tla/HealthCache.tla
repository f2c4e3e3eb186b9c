------------------------------ MODULE HealthCache ------------------------------
(***************************************************************************)
(* GET /dashboard/health: six queries and six optional charts, read one    *)
(* after the other by a request thread while others commit, and kept in a  *)
(* dictionary of the process for a while.  Of what was read only the       *)
(* number of parts and the time of the oldest one are modelled: a chart    *)
(* that fails is empty in the payload, and stays empty while it is cached. *)
(***************************************************************************)
EXTENDS Naturals

CONSTANTS
  Viewers,       \* request threads
  Orgs,
  Essential,     \* how many queries the payload needs: 6
  Charts,        \* how many go through _safe_call: 6
  KeptTicks,     \* the 60 s of the cache
  LastClock      \* bound of the model: the clock stops here

ASSUME HealthAssumption ==
  Essential \in Nat /\ Charts \in Nat /\ KeptTicks \in Nat /\ LastClock \in Nat

VARIABLES
  clock,     \* time.monotonic()
  cached,      \* _health_cache: [Orgs -> entry or NoPayload]
  view       \* [Viewers -> the request of a thread]
healthVars == <<clock, cached, view>>

Unread == LastClock + 1
NoParts == [org |-> "none", oldest |-> Unread]
NoPayload == [stamp |-> 0, payload |-> NoParts]
AtRest == [step |-> "idle", stamp |-> 0, have |-> 0, broken |-> FALSE, payload |-> NoParts]

HealthInit ==
  /\ clock = 0 /\ cached = [o \in Orgs |-> NoPayload] /\ view = [v \in Viewers |-> AtRest]

-----------------------------------------------------------------------------
WithinTTL(entry) == entry # NoPayload /\ clock - entry.stamp < KeptTicks

\* The clock is read before the cache, and before the database.
AskHealth(v, o) ==
  /\ view[v].step = "idle"
  /\ view' = [view EXCEPT ![v] =
       IF WithinTTL(cached[o])
         THEN [AtRest EXCEPT !.step = "served", !.payload = cached[o].payload]
         ELSE [AtRest EXCEPT !.step = "reading", !.stamp = clock, !.payload.org = o]]
  /\ UNCHANGED <<clock, cached>>

Older(a, b) == IF a < b THEN a ELSE b
Got(v) == [view EXCEPT ![v].have = @ + 1, ![v].payload.oldest = Older(@, clock)]

\* A query answers, unless an earlier failure left the transaction aborted.
Read(v) ==
  /\ view[v].step = "reading" /\ view[v].have < Essential + Charts /\ ~view[v].broken
  /\ view' = Got(v)
  /\ UNCHANGED <<clock, cached>>

\* A query of the first six fails: the fallback reads five of them again, and
\* the request fails with it when the transaction is aborted.
EssentialFails(v) ==
  /\ view[v].step = "reading" /\ view[v].have < Essential
  /\ \E aborted \in BOOLEAN :
       view' = [view EXCEPT ![v] =
         IF aborted THEN AtRest
         ELSE [AtRest EXCEPT !.step = "fallback", !.payload.org = view[v].payload.org]]
  /\ UNCHANGED <<clock, cached>>

\* _safe_call swallows what a chart raises, the database's errors too; every
\* later query of an aborted transaction fails as well.
ChartFails(v) ==
  /\ view[v].step = "reading" /\ view[v].have \in Essential .. Essential + Charts - 1
  /\ \E aborted \in BOOLEAN :
       /\ view[v].broken => aborted
       /\ view' = [view EXCEPT ![v].have = @ + 1, ![v].broken = aborted]
  /\ UNCHANGED <<clock, cached>>

Stored(v, stamp) ==
  /\ view[v].step = "reading" /\ view[v].have = Essential + Charts
  /\ cached' = [cached EXCEPT ![view[v].payload.org] =
                [stamp |-> stamp, payload |-> view[v].payload]]
  /\ view' = [view EXCEPT ![v] = AtRest]
  /\ UNCHANGED clock

\* The entry is stored under the time the request began, over whatever a
\* request that overtook it has stored.
KeepStampedLate(v) == Stored(v, clock)       \* Mutant: the clock is read again.
Keep(v) == Stored(v, view[v].stamp)

\* The fallback is not cached.
Fallback(v) ==
  /\ view[v].step = "fallback"
  /\ view' = IF view[v].have < Essential - 1 THEN Got(v)
             ELSE [view EXCEPT ![v] = AtRest]
  /\ UNCHANGED <<clock, cached>>

FallbackFails(v) ==
  /\ view[v].step = "fallback" /\ view[v].have < Essential - 1
  /\ view' = [view EXCEPT ![v] = AtRest]
  /\ UNCHANGED <<clock, cached>>

Received(v) ==
  /\ view[v].step = "served" /\ view' = [view EXCEPT ![v] = AtRest]
  /\ UNCHANGED <<clock, cached>>

Tick ==
  /\ clock < LastClock /\ clock' = clock + 1 /\ UNCHANGED <<cached, view>>

HealthNext ==
  \/ Tick
  \/ \E v \in Viewers :
       \/ \E o \in Orgs : AskHealth(v, o)
       \/ Read(v) \/ EssentialFails(v) \/ ChartFails(v) \/ Keep(v)
       \/ Fallback(v) \/ FallbackFails(v) \/ Received(v)

HealthSpec == HealthInit /\ [][HealthNext]_healthVars

-----------------------------------------------------------------------------
(* A payload that comes out of the cache was read for the organisation that *)
(* asks, and the oldest part of it within the time the cache promises,      *)
(* however slow the request was that read it and whichever stored last.     *)
FreshWithinTTL ==
  [][\A v \in Viewers : \A o \in Orgs : AskHealth(v, o) /\ view'[v].step = "served" =>
       /\ view'[v].payload.org = o
       /\ clock - view'[v].payload.oldest < KeptTicks]_healthVars
================================================================================

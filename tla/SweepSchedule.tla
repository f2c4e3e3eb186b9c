----------------------------- MODULE SweepSchedule -----------------------------
(***************************************************************************)
(* The rounds of the scheduler's loop: which sources a round takes (due by *)
(* cadence and back-off, or all of them once a night), in which order, and *)
(* how they pass the two semaphores of the sweep.  What a run does to its  *)
(* row is ScrapeRuns' matter; here it leaves a date and a count of empty   *)
(* runs.  Time goes in steps of Step hours.                                *)
(***************************************************************************)
EXTENDS Naturals, Sequences, SequencesExt, FiniteSets

CONSTANTS
  Sources,      \* the enabled sources
  Tier,         \* of a source: "strategic", "complementary" or "experimental"
  Cadence,      \* of a source, in hours
  Jitter,       \* of a source, in hours
  Threshold,    \* empty runs that pause a source: 5
  HoursPerFail, \* back-off of a source at or past the threshold: 4 per empty run ...
  MaxBackoff,   \* ... and 24 at most
  Cooldown,     \* hours after which the loop re-activates a paused source: 24
  NightHour,    \* nightly_sweep_hour
  GlobalCap,    \* global_concurrency_cap
  TierCap,      \* tier_concurrency
  Step, Day,    \* a step of the clock and a day, in hours
  LongAgo,      \* bound: ages are not told apart from here on; also "never ran"
  MaxReboots    \* bound

ASSUME ScheduleAssumption ==
  /\ GlobalCap > 0 /\ \A s \in Sources : TierCap[Tier[s]] > 0
  /\ \A s \in Sources : Cadence[s] + MaxBackoff + Jitter[s] <= LongAgo

VARIABLES
  hour,         \* of the day, in Colombia
  age,          \* hours since last_run_at of each source
  fails,        \* consecutive_empty_runs of each source
  night,        \* last_nightly_date, in the memory of the process, is today
  inRound,      \* the loop is in a round, not asleep
  busy,         \* sources whose domain had a delay when the round was drawn up
  queue,        \* jobs that wait for the global semaphore, in order
  lobby,        \* jobs that hold it and wait for the one of their tier, in order
  running,      \* jobs that hold both
  reboots,      \* history: restarts so far
  passes        \* history: forced passes begun, and restarts, since midnight

scheduleVars ==
  <<hour, age, fails, night, inRound, busy, queue, lobby, running, reboots, passes>>

-----------------------------------------------------------------------------
Lesser(a, b) == IF a < b THEN a ELSE b

\* source_due_for_scraping, for sources scraped by the hour or by the day.
Backoff(n) == IF n >= Threshold THEN Lesser(MaxBackoff, HoursPerFail * n) ELSE 0
IsDue(s, n) == age[s] = LongAgo \/ age[s] >= Cadence[s] + Backoff(n) + Jitter[s]

\* _nightly_force_due.
ForcedByHour == hour >= NightHour  \* Mutant: the date of the last pass is not kept.
Forced == hour >= NightHour /\ ~night

\* drain_ordered, partition_by_tier and the order of the jobs: the tiers one
\* after the other, in each of them those that never succeeded first, which is
\* not told apart here; sources of a domain with a delay are left out.
Rank(s) == CASE Tier[s] = "strategic" -> 0 [] Tier[s] = "complementary" -> 1 [] OTHER -> 2
Orders(set) ==
  {q \in SetToSeqs(set) : \A i, j \in DOMAIN q : i < j => Rank(q[i]) <= Rank(q[j])}

\* A round begins: the paused sources that have cooled down are re-activated,
\* the sources are chosen, the transaction is committed and the jobs wait.
BeginRound ==
  /\ ~inRound /\ inRound' = TRUE
  /\ fails' = [s \in Sources |-> IF fails[s] >= Threshold /\ age[s] > Cooldown
                                    /\ age[s] # LongAgo
                                  THEN 0 ELSE fails[s]]
  /\ \E delayed \in SUBSET Sources :
       LET due == IF Forced THEN Sources ELSE {s \in Sources : IsDue(s, fails'[s])}
       IN  busy' = delayed /\ queue' \in Orders(due \ delayed)
  /\ night' = (night \/ Forced)
  /\ passes' = [passes EXCEPT !.begun = IF Forced THEN @ + 1 ELSE @]
  /\ UNCHANGED <<hour, age, lobby, running, reboots>>

\* The main session fails before it has committed: its re-activations are
\* lost, what the process remembers is not.
FailRound ==
  /\ ~inRound /\ Forced /\ night' = TRUE
  /\ UNCHANGED <<hour, age, fails, inRound, busy, queue, lobby, running, reboots, passes>>

\* async with global_sem, tier_sem: both let their waiters in in turn.
HoldGlobal ==
  /\ queue # <<>> /\ Len(lobby) + Cardinality(running) < GlobalCap
  /\ queue' = Tail(queue) /\ lobby' = Append(lobby, Head(queue))
  /\ UNCHANGED <<hour, age, fails, night, inRound, busy, running, reboots, passes>>

Peers(s) == {r \in running : Tier[r] = Tier[s]}
HoldTier ==
  \E i \in DOMAIN lobby :
    /\ \A j \in 1..(i - 1) : Tier[lobby[j]] # Tier[lobby[i]]
    /\ Cardinality(Peers(lobby[i])) < TierCap[Tier[lobby[i]]]
    /\ running' = running \cup {lobby[i]} /\ lobby' = RemoveAt(lobby, i)
    /\ UNCHANGED <<hour, age, fails, night, inRound, busy, queue, reboots, passes>>

\* Mutant: a source that is skipped keeps its places.
EndJobLeaks ==
  \E s \in running :
    /\ \/ /\ fails[s] >= Threshold /\ UNCHANGED <<age, fails, running>>
       \/ /\ fails[s] < Threshold /\ running' = running \ {s}
          /\ age' = [age EXCEPT ![s] = 0] /\ fails' = [fails EXCEPT ![s] = Lesser(Threshold, @ + 1)]
    /\ UNCHANGED <<hour, night, inRound, busy, queue, lobby, reboots, passes>>

\* _run_one: nothing is kept of a source that is paused or busy elsewhere, or
\* of a run that raised; a run that found nothing counts towards the pause.
EndJob ==
  \E s \in running :
    /\ running' = running \ {s}
    /\ \/ UNCHANGED <<age, fails>>
       \/ /\ fails[s] < Threshold /\ age' = [age EXCEPT ![s] = 0]
          /\ \E n \in {0, fails[s] + 1} : fails' = [fails EXCEPT ![s] = n]
       \/ \* The dispatcher re-activates at the cooldown, the loop past it.
          /\ fails[s] >= Threshold /\ age[s] >= Cooldown /\ age' = [age EXCEPT ![s] = 0]
          /\ \E n \in {0, 1} : fails' = [fails EXCEPT ![s] = n]
    /\ UNCHANGED <<hour, night, inRound, busy, queue, lobby, reboots, passes>>

EndRound ==
  /\ inRound /\ queue = <<>> /\ lobby = <<>> /\ running = {}
  /\ inRound' = FALSE /\ busy' = {}
  /\ UNCHANGED <<hour, age, fails, night, queue, lobby, running, reboots, passes>>

\* The process stops and starts again: open transactions and its memory are gone.
Reboot ==
  /\ reboots < MaxReboots /\ reboots' = reboots + 1
  /\ passes' = [passes EXCEPT !.reboots = @ + 1]
  /\ night' = FALSE /\ inRound' = FALSE /\ busy' = {}
  /\ queue' = <<>> /\ lobby' = <<>> /\ running' = {}
  /\ UNCHANGED <<hour, age, fails>>

\* Runs are short against Step: the clock moves while none is under way.
PassTime ==
  /\ running = {} /\ hour' = (hour + Step) % Day
  /\ age' = [s \in Sources |-> Lesser(LongAgo, age[s] + Step)]
  /\ IF hour' < hour THEN night' = FALSE /\ passes' = [begun |-> 0, reboots |-> 0]
                     ELSE UNCHANGED <<night, passes>>
  /\ UNCHANGED <<fails, inRound, busy, queue, lobby, running, reboots>>

ScheduleInit ==
  /\ hour = 0 /\ age = [s \in Sources |-> LongAgo] /\ fails = [s \in Sources |-> 0]
  /\ night = FALSE /\ inRound = FALSE /\ busy = {} /\ queue = <<>> /\ lobby = <<>>
  /\ running = {} /\ reboots = 0 /\ passes = [begun |-> 0, reboots |-> 0]

Loop == BeginRound \/ HoldGlobal \/ HoldTier \/ EndJob \/ EndRound
ScheduleNext == Loop \/ FailRound \/ Reboot \/ PassTime
ScheduleSpec == ScheduleInit /\ [][ScheduleNext]_scheduleVars

\* The event loop gets to its tasks, runs end within their time budget, and
\* time goes on, also in a loop of rounds and runs.
ScheduleFairness ==
  /\ WF_scheduleVars(BeginRound) /\ WF_scheduleVars(HoldGlobal \/ HoldTier)
  /\ WF_scheduleVars(EndJob) /\ WF_scheduleVars(EndRound)
  /\ SF_scheduleVars(PassTime)

-----------------------------------------------------------------------------
(* Properties. *)

\* The memory of the loop is enough: all sources are forced once a day, and a
\* restart repeats at most one pass.
OnePassANight == passes.begun <= 1 + passes.reboots

\* "No starvation": whatever its tier, cadence, back-off and pauses, a source
\* that is not delayed by its domain in round after round gets a run again and
\* again, although jobs hold the global semaphore while they wait for that of
\* their tier.
NoStarvation ==
  \A s \in Sources :
    []<>(inRound /\ s \notin busy /\ queue = <<>> /\ lobby = <<>>) => []<>(s \in running)
=============================================================================

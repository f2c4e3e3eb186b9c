------------------------------ MODULE RunLease ------------------------------
(***************************************************************************)
(* What the scrape machinery promises about the runs of a source: a run    *)
(* belongs to one session from start to end, and it ends either recorded,  *)
(* with an outcome, or dropped without a trace.  Nothing else changes what *)
(* is recorded of a source.                                                *)
(***************************************************************************)
CONSTANTS Source, Worker, NoOne, Outcome, NoOutcome

VARIABLES
  active,   \* session that owns the run in progress of a source, or NoOne
  last      \* outcome of the newest recorded run

vars == <<active, last>>

Init ==
  /\ active = [s \in Source |-> NoOne]
  /\ last = [s \in Source |-> NoOutcome]

Start(s, w) ==
  /\ active[s] = NoOne
  /\ active' = [active EXCEPT ![s] = w]
  /\ UNCHANGED last

Record(s, o) ==
  /\ active[s] # NoOne
  /\ active' = [active EXCEPT ![s] = NoOne]
  /\ last' = [last EXCEPT ![s] = o]

Drop(s) ==
  /\ active[s] # NoOne
  /\ active' = [active EXCEPT ![s] = NoOne]
  /\ UNCHANGED last

Finish(s) == Drop(s) \/ \E o \in Outcome : Record(s, o)

Next == \E s \in Source : Finish(s) \/ \E w \in Worker : Start(s, w)

Spec == Init /\ [][Next]_vars

\* A run that started ends.
FairSpec == Spec /\ \A s \in Source : WF_vars(Finish(s))
=============================================================================

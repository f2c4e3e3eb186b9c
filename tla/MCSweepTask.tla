---------------------------- MODULE MCSweepTask ----------------------------
(***************************************************************************)
(* Model values for the two sweeps, that of POST run-all and that of the   *)
(* scheduler, and for the alert round of the scheduler, and their sum: a   *)
(* behaviour picks one of them, the others rest in their initial states.   *)
(***************************************************************************)
EXTENDS SweepTask, SweepSchedule, AlertQueue

CONSTANTS i1, i2, i3, PartNames

VARIABLE part

\* Two sources of one tier, one due every hour, the other once a day; a tier
\* takes one job.
MCTier == [s \in Sources |-> "strategic"]
MCCadence == [s \in Sources |-> IF s = 1 THEN 1 ELSE 24]
MCJitter == [s \in Sources |-> IF s = 2 THEN 1 ELSE 0]
MCTierCap == [t \in {"strategic"} |-> 1]

\* The first two alerts have different subjects.
MCSubject == [a \in Alerts |-> IF a = 1 THEN "call" ELSE "faculty"]

-----------------------------------------------------------------------------
\* Two requests meet a table that a page holds, one request a longer one.
FewAlerts == Cardinality({a \in Alerts : Present(a)}) <= PageSize
OneRequest == \A r \in Requests : r # (CHOOSE q \in Requests : TRUE) => UNCHANGED req[r]

SweepsInit ==
  /\ part \in PartNames /\ Init /\ ScheduleInit
  /\ CASE part = "alerts" -> AlertsInit /\ FewAlerts
       [] part = "page" -> Table(Cardinality(Alerts))
       [] OTHER -> NoAlerts

SweepsNext ==
  /\ UNCHANGED part
  /\ \/ part = "task" /\ Next /\ UNCHANGED <<scheduleVars, alertVars>>
     \/ part = "schedule" /\ ScheduleNext /\ UNCHANGED <<vars, alertVars>>
     \/ part = "alerts" /\ AlertsNext /\ UNCHANGED <<vars, scheduleVars>>
     \/ part = "page" /\ AlertsNext /\ OneRequest /\ UNCHANGED <<vars, scheduleVars>>

SweepsSafe == SweepsInit /\ [][SweepsNext]_<<part, vars, scheduleVars, alertVars>>

Fair(A) == part = "schedule" /\ A
SweepsSpec ==
  /\ SweepsSafe /\ Fairness
  /\ WF_scheduleVars(Fair(BeginRound)) /\ WF_scheduleVars(Fair(HoldGlobal \/ HoldTier))
  /\ WF_scheduleVars(Fair(EndJob)) /\ WF_scheduleVars(Fair(EndRound))
  /\ SF_scheduleVars(Fair(PassTime)) /\ WF_alertVars(Round)
=============================================================================

------------------------------ MODULE SweepTask ------------------------------
(***************************************************************************)
(* The Task row of a background sweep (POST /sources/run-all), the thread  *)
(* that works it off with a pool of futures, and everyone else who closes  *)
(* the row: GET /tasks after a restart of the api, and the stale-run       *)
(* recovery that every boot and every round of the scheduler, in a process *)
(* of its own, performs.                                                   *)
(*                                                                         *)
(* The thread writes its progress through a short session of its own: it   *)
(* reads the row, assigns the columns and commits, and SQLAlchemy writes   *)
(* only the columns that differ from what was read.  A write that fails is *)
(* logged and forgotten.                                                   *)
(***************************************************************************)
EXTENDS Naturals, FiniteSets

CONSTANTS
  Item,         \* enabled sources of the organization
  MaxWorkers,   \* settings.scraping_max_concurrency
  NoWrite       \* the thread has no progress write in flight

ASSUME SweepAssumption ==
  /\ IsFiniteSet(Item)
  /\ MaxWorkers \in Nat \ {0}

VARIABLES
  task,     \* the committed row of table tasks
  thread,   \* _background_sweep
  fut,      \* per source: its future in the thread pool
  api       \* the api process is up

vars == <<task, thread, fut, api>>

Open == {"queued", "running"}
Closed == {"success", "degraded", "failed"}
Statuses == {"none", "archived"} \cup Open \cup Closed

FutState == {"none", "queued", "running", "ok", "error", "cancelled", "lost"}

\* age: 0 fresh, 1 past the ten minutes of the recovery, 2 past the days of
\* the archive.  orphan: created before the boot of the current api process.
TaskRow == [status : Statuses, finished : BOOLEAN, processed : Nat, failed : Nat,
            total : Nat, age : 0..2, orphan : BOOLEAN]

Write == [status : Statuses, seen : Statuses, processed : Nat, failed : Nat,
          finished : BOOLEAN]

ThreadPc == {"none", "starting", "loading", "scoped", "submitting", "waiting",
             "expiring", "ended"}

Thread == [pc : ThreadPc, due : SUBSET Item, pending : SUBSET Item,
           processed : Nat, failed : Nat, write : Write \cup {NoWrite}]

NoThread == [pc |-> "none", due |-> {}, pending |-> {}, processed |-> 0,
             failed |-> 0, write |-> NoWrite]

Init ==
  /\ task = [status |-> "none", finished |-> FALSE, processed |-> 0, failed |-> 0,
             total |-> 0, age |-> 0, orphan |-> FALSE]
  /\ thread = NoThread
  /\ fut = [i \in Item |-> "none"]
  /\ api = TRUE

-----------------------------------------------------------------------------
(* The request and the thread. *)

\* The request commits the row, then starts the daemon thread.
PostRunAll ==
  /\ api /\ task.status = "none"
  /\ task' = [task EXCEPT !.status = "queued"]
  /\ thread' = [thread EXCEPT !.pc = "starting"]
  /\ UNCHANGED <<fut, api>>

StartThread ==
  /\ thread.pc = "starting"
  /\ thread' = [thread EXCEPT !.pc = "loading"]
  /\ UNCHANGED <<task, fut, api>>

\* _update_sweep_task has read the row and assigned its columns.
Progress(status, processed, failed, finished) ==
  [status |-> status, seen |-> task.status, processed |-> processed,
   failed |-> failed, finished |-> finished]

At(pc) == thread.pc = pc /\ thread.write = NoWrite

\* The catalog and the due filter; _record_sweep_scope leaves the status alone.
Load ==
  /\ At("loading")
  /\ \E due \in SUBSET Item :
       thread' = [thread EXCEPT !.pc = "scoped", !.due = due,
                    !.write = Progress(task.status, 0, 0, FALSE)]
  /\ UNCHANGED <<task, fut, api>>

MarkRunning ==
  /\ At("scoped")
  /\ thread' = [thread EXCEPT !.pc = "submitting",
                              !.write = Progress("running", 0, 0, FALSE)]
  /\ UNCHANGED <<task, fut, api>>

Submit ==
  /\ At("submitting")
  /\ fut' = [i \in Item |-> IF i \in thread.due THEN "queued" ELSE fut[i]]
  /\ thread' = [thread EXCEPT !.pc = "waiting", !.pending = thread.due]
  /\ UNCHANGED <<task, api>>

\* The catalog cannot be read, or the pool cannot start a thread: the except
\* branch.  Futures that were already running go on, the others are cancelled.
GiveUp ==
  /\ At("loading") \/ At("submitting")
  /\ \E started \in SUBSET thread.due :
       /\ Cardinality(started) <= MaxWorkers
       /\ fut' = [i \in Item |-> CASE i \in started -> "running"
                                   [] i \in thread.due \ started -> "cancelled"
                                   [] OTHER -> fut[i]]
  /\ thread' = [thread EXCEPT !.pc = "ended", !.failed = Cardinality(thread.due),
                  !.write = Progress("failed", 0, Cardinality(thread.due), TRUE)]
  /\ UNCHANGED <<task, api>>

\* Mutant: a run that raised is counted as processed.
CollectBlind(i) ==
  /\ At("waiting")
  /\ i \in thread.pending /\ fut[i] \in {"ok", "error"}
  /\ thread' = [thread EXCEPT !.pending = @ \ {i}, !.processed = @ + 1,
                  !.write = Progress("running", thread.processed + 1, thread.failed, FALSE)]
  /\ UNCHANGED <<task, fut, api>>

\* A completed future is counted and the count is written.
Collect(i) ==
  LET ok == IF fut[i] = "ok" THEN 1 ELSE 0
      bad == 1 - ok
  IN  /\ At("waiting")
      /\ i \in thread.pending /\ fut[i] \in {"ok", "error"}
      /\ thread' = [thread EXCEPT !.pending = @ \ {i},
                      !.processed = @ + ok, !.failed = @ + bad,
                      !.write = Progress("running", thread.processed + ok,
                                         thread.failed + bad, FALSE)]
      /\ UNCHANGED <<task, fut, api>>

\* The sweep timeout: every pending future counts as failed; only those still
\* queued are really cancelled.
Expire ==
  /\ At("waiting")
  /\ thread.pending # {}
  /\ thread' = [thread EXCEPT !.pc = "expiring"]
  /\ UNCHANGED <<task, fut, api>>

\* Mutant: a cancelled source is not counted.
CancelUncounted(i) ==
  /\ At("expiring")
  /\ i \in thread.pending
  /\ fut' = [fut EXCEPT ![i] = IF @ = "queued" THEN "cancelled" ELSE @]
  /\ thread' = [thread EXCEPT !.pending = @ \ {i}]
  /\ UNCHANGED <<task, api>>

Cancel(i) ==
  /\ At("expiring")
  /\ i \in thread.pending
  /\ fut' = [fut EXCEPT ![i] = IF @ = "queued" THEN "cancelled" ELSE @]
  /\ thread' = [thread EXCEPT !.pending = @ \ {i}, !.failed = @ + 1,
                  !.write = Progress("running", thread.processed, thread.failed + 1, FALSE)]
  /\ UNCHANGED <<task, api>>

Verdict ==
  CASE thread.failed = 0 -> "success"
    [] thread.failed > 0 /\ thread.processed = 0 -> "failed"
    [] OTHER -> "degraded"

Close ==
  /\ At("waiting") \/ At("expiring")
  /\ thread.pending = {}
  /\ thread' = [thread EXCEPT !.pc = "ended",
                  !.write = Progress(Verdict, thread.processed, thread.failed, TRUE)]
  /\ UNCHANGED <<task, fut, api>>

\* The progress session commits: the status column is in the UPDATE only when
\* it differs from the one that was read.
CommitWrite ==
  LET write == thread.write IN
  /\ write # NoWrite
  /\ task' = [task EXCEPT
                !.status = IF write.status = write.seen THEN @ ELSE write.status,
                !.processed = write.processed, !.failed = write.failed,
                !.total = Cardinality(thread.due), !.finished = @ \/ write.finished]
  /\ thread' = [thread EXCEPT !.write = NoWrite]
  /\ UNCHANGED <<fut, api>>

\* The write fails (locked row, lost connection) and the sweep goes on.
LoseWrite ==
  /\ thread.write # NoWrite
  /\ thread' = [thread EXCEPT !.write = NoWrite]
  /\ UNCHANGED <<task, fut, api>>

ThreadStep ==
  \/ StartThread \/ Load \/ MarkRunning \/ Submit \/ GiveUp \/ Expire \/ Close
  \/ CommitWrite \/ LoseWrite
  \/ \E i \in Item : Collect(i) \/ Cancel(i)

-----------------------------------------------------------------------------
(* The pool: a run the thread stopped waiting for still goes on. *)

RunStarts(i) ==
  /\ fut[i] = "queued"
  /\ Cardinality({j \in Item : fut[j] = "running"}) < MaxWorkers
  /\ fut' = [fut EXCEPT ![i] = "running"]
  /\ UNCHANGED <<task, thread, api>>

RunEnds(i) ==
  /\ fut[i] = "running"
  /\ \E result \in {"ok", "error"} : fut' = [fut EXCEPT ![i] = result]
  /\ UNCHANGED <<task, thread, api>>

-----------------------------------------------------------------------------
(* Restarts and the others who close the row. *)

Failed(row) == [row EXCEPT !.status = "failed", !.finished = TRUE]

\* Mutant: a sweep that never left the queue is not recovered.
RecoveredRunning(row) ==
  IF row.status = "running" /\ row.age >= 1 THEN Failed(row) ELSE row

\* mark_stale_runs_failed, as far as it concerns this row.
Recovered(row) == IF row.status \in Open /\ row.age >= 1 THEN Failed(row) ELSE row

\* The process dies and takes its threads with it.
Crash ==
  /\ api
  /\ api' = FALSE
  /\ thread' = [NoThread EXCEPT !.due = thread.due]
  /\ fut' = [i \in Item |-> IF fut[i] \in {"queued", "running"} THEN "lost" ELSE fut[i]]
  /\ UNCHANGED task

\* Mutant: the scheduler's recovery alone, none on boot.
BootUnreconciled ==
  /\ ~api
  /\ api' = TRUE
  /\ task' = [task EXCEPT !.orphan = task.status # "none"]
  /\ UNCHANGED <<thread, fut>>

\* lifespan: recovery on boot; _PROCESS_BOOTED_AT is new.
Boot ==
  /\ ~api
  /\ api' = TRUE
  /\ task' = [Recovered(task) EXCEPT !.orphan = task.status # "none"]
  /\ UNCHANGED <<thread, fut>>

\* A round of the scheduler, in its own process.
Recover ==
  /\ task' = Recovered(task)
  /\ UNCHANGED <<thread, fut, api>>

\* What _mark_stale_source_sweeps selects.
Stale == task.status \in Open /\ ~task.finished /\ task.orphan

\* GET /tasks and GET /tasks/{id}.
ListTasks ==
  /\ api /\ Stale
  /\ task' = Failed(task)
  /\ UNCHANGED <<thread, fut, api>>

\* POST /tasks/archive.
Archive ==
  /\ api /\ task.age = 2 /\ task.status \in Closed
  /\ task' = [task EXCEPT !.status = "archived"]
  /\ UNCHANGED <<thread, fut, api>>

Alive == thread.pc \notin {"none", "ended"} \/ thread.write # NoWrite

\* A sweep lasts less than an hour, far from the seven days of the archive.
GrowOld ==
  /\ task.status # "none"
  /\ task.age = 0 \/ (task.age = 1 /\ ~Alive)
  /\ task' = [task EXCEPT !.age = @ + 1]
  /\ UNCHANGED <<thread, fut, api>>

Next ==
  \/ PostRunAll \/ ThreadStep
  \/ \E i \in Item : RunStarts(i) \/ RunEnds(i)
  \/ Crash \/ Boot \/ Recover \/ ListTasks \/ Archive \/ GrowOld

Spec == Init /\ [][Next]_vars

\* The thread runs while its process does, its waits end with the sweep
\* timeout, time passes and the scheduler's rounds go on.  Nothing makes a run
\* of a source end, a client poll or a crashed api come back.
Fairness == WF_vars(ThreadStep) /\ WF_vars(GrowOld) /\ WF_vars(Recover)

FairSpec == Spec /\ Fairness

-----------------------------------------------------------------------------
(* Properties. *)

\* Type invariant of the row, the thread and the futures.
TypeOK ==
  /\ task \in TaskRow
  /\ thread \in Thread
  /\ fut \in [Item -> FutState]
  /\ api \in BOOLEAN

\* A sweep that reports success ran every due source without an exception,
\* whatever writes were lost and whoever else closed the row meanwhile.
SuccessMeansAllRan ==
  task.status = "success" => \A i \in thread.due : fut[i] = "ok"

\* The published counters never say more than happened, and the verdict of
\* the thread accounts for every due source.
CountersTruthful ==
  /\ task.processed <= Cardinality({i \in Item : fut[i] = "ok"})
  /\ task.processed + task.failed <= task.total
  /\ task.status \in {"success", "degraded"} => task.processed + task.failed = task.total

\* Every sweep ends up closed for good: lost writes, a hung connector and a
\* crash at any point only delay it (recovery.py).
SweepEnds == task.status = "queued" ~> [](task.status \notin Open)

\* The comment on _PROCESS_BOOTED_AT in api/v1/tasks.py: a sweep that lives in
\* this process is never stale, however old it is.  Nobody fails its row.
LiveSweepNotFailed == Alive /\ thread.pc # "ended" => task.status # "failed"

\* After a restart GET /tasks always finds the sweep that the restart killed.
\* It selects only rows that were never finished, and a progress write can
\* reopen a row the recovery had finished: the recovery of lifespan covers it.
OrphansReleasable == task.orphan /\ task.status \in Open /\ ~Alive => Stale
=============================================================================

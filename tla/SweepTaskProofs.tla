--------------------------- MODULE SweepTaskProofs ---------------------------
(***************************************************************************)
(* Proofs about SweepTask, for any finite catalog and any size of the pool *)
(* of workers: what the task row of a sweep says is what happened.         *)
(***************************************************************************)
EXTENDS SweepTask, FiniteSetTheorems, TLAPS

USE SweepAssumption

Ran == {i \in Item : fut[i] = "ok"}

\* Before the futures are submitted none exists, and nothing is counted.
Clean ==
  /\ task.status = "none" => thread = NoThread
  /\ task.status = "none" \/ thread.pc \in {"starting", "loading", "scoped", "submitting"}
       => \A i \in Item : fut[i] = "none"
  /\ thread.pc \in {"starting", "loading", "scoped", "submitting"}
       => thread.processed = 0 /\ thread.failed = 0
  /\ thread.pc = "starting" => thread.write = NoWrite

\* Every due source is pending, processed or failed; only futures that ended
\* well are processed; without a failure all that left the pending set did.
Counted ==
  thread.pc \in {"waiting", "expiring"} =>
    /\ thread.pending \subseteq thread.due
    /\ thread.processed + thread.failed + Cardinality(thread.pending)
         = Cardinality(thread.due)
    /\ thread.processed <= Cardinality(Ran \ thread.pending)
    /\ thread.failed = 0 => \A i \in thread.due \ thread.pending : fut[i] = "ok"

\* What the write in flight will publish.
WriteSound ==
  LET write == thread.write IN
  write # NoWrite =>
    /\ write.status # "none"
    /\ write.status \in {"success", "degraded"} =>
         /\ thread.pc = "ended"
         /\ write.processed + write.failed = Cardinality(thread.due)
    /\ write.status = "success" => \A i \in thread.due : fut[i] = "ok"
    /\ write.processed <= Cardinality(Ran)
    /\ write.processed + write.failed <= Cardinality(thread.due)

\* A verdict is the last write of its sweep.
VerdictLast ==
  task.status \in {"success", "degraded"} =>
    thread.pc \in {"none", "ended"} /\ thread.write = NoWrite

-----------------------------------------------------------------------------
(* Types. *)

\* The sets of sources have sizes.
LEMMA Sizes ==
  ASSUME NEW S \in SUBSET Item
  PROVE  IsFiniteSet(S) /\ Cardinality(S) \in Nat
BY FS_Subset, FS_CardinalityType

\* A write assembled from the row and two counts is a write.
LEMMA ProgressType ==
  ASSUME TypeOK, NEW status \in Statuses, NEW p \in Nat, NEW q \in Nat, NEW b \in BOOLEAN
  PROVE  Progress(status, p, q, b) \in Write
BY DEF Progress, Write, TypeOK, TaskRow

\* A recovered row is a row.
LEMMA RecoveredType ==
  ASSUME TypeOK
  PROVE  Recovered(task) \in TaskRow /\ Failed(task) \in TaskRow
BY DEF Recovered, Failed, TypeOK, TaskRow, Statuses, Closed

\* Every step keeps the types.
LEMMA TypeStep == TypeOK /\ [Next]_vars => TypeOK'
<1> SUFFICES ASSUME TypeOK, [Next]_vars PROVE TypeOK'
  OBVIOUS
<1>1. CASE UNCHANGED vars
  BY <1>1 DEF TypeOK, vars
<1>2. CASE PostRunAll
  BY <1>2 DEF PostRunAll, TypeOK, TaskRow, Statuses, Open, Thread, ThreadPc
<1>3. CASE StartThread \/ Expire \/ LoseWrite
  BY <1>3 DEF StartThread, Expire, LoseWrite, TypeOK, Thread, ThreadPc
<1>4. CASE Load
  <2>1. Progress(task.status, 0, 0, FALSE) \in Write
    BY ProgressType DEF TypeOK, TaskRow
  <2> QED
    BY <1>4, <2>1 DEF Load, TypeOK, Thread, ThreadPc
<1>5. CASE MarkRunning
  <2>1. Progress("running", 0, 0, FALSE) \in Write
    BY ProgressType DEF Statuses, Open
  <2> QED
    BY <1>5, <2>1 DEF MarkRunning, TypeOK, Thread, ThreadPc
<1>6. CASE Submit
  BY <1>6 DEF Submit, TypeOK, Thread, ThreadPc, FutState
<1>7. CASE GiveUp
  <2>1. Cardinality(thread.due) \in Nat
    BY Sizes DEF TypeOK, Thread
  <2>2. Progress("failed", 0, Cardinality(thread.due), TRUE) \in Write
    BY <2>1, ProgressType DEF Statuses, Closed
  <2>3. fut' \in [Item -> FutState]
    BY <1>7 DEF GiveUp, TypeOK, FutState
  <2> QED
    BY <1>7, <2>1, <2>2, <2>3 DEF GiveUp, TypeOK, Thread, ThreadPc
<1>8. ASSUME NEW i \in Item, Collect(i) PROVE TypeOK'
  <2> DEFINE ok == IF fut[i] = "ok" THEN 1 ELSE 0
  <2>1. thread.processed + ok \in Nat /\ thread.failed + (1 - ok) \in Nat
    BY DEF TypeOK, Thread
  <2>2. Progress("running", thread.processed + ok, thread.failed + (1 - ok), FALSE) \in Write
    BY <2>1, ProgressType DEF Statuses, Open
  <2> QED
    BY <1>8, <2>1, <2>2 DEF Collect, TypeOK, Thread
<1>9. ASSUME NEW i \in Item, Cancel(i) PROVE TypeOK'
  <2>1. thread.processed \in Nat /\ thread.failed + 1 \in Nat
    BY DEF TypeOK, Thread
  <2>2. Progress("running", thread.processed, thread.failed + 1, FALSE) \in Write
    BY <2>1, ProgressType DEF Statuses, Open
  <2>3. fut' \in [Item -> FutState]
    BY <1>9 DEF Cancel, TypeOK, FutState
  <2>4. thread' \in Thread
    BY <1>9, <2>1, <2>2 DEF Cancel, TypeOK, Thread
  <2> QED
    BY <1>9, <2>3, <2>4 DEF Cancel, TypeOK
<1>10. CASE Close
  <2>1. Verdict \in Statuses
    BY DEF Verdict, Statuses, Closed, TypeOK, Thread
  <2>2. Progress(Verdict, thread.processed, thread.failed, TRUE) \in Write
    BY <2>1, ProgressType DEF TypeOK, Thread
  <2> QED
    BY <1>10, <2>2 DEF Close, TypeOK, Thread, ThreadPc
<1>11. CASE CommitWrite
  <2>1. Cardinality(thread.due) \in Nat
    BY Sizes DEF TypeOK, Thread
  <2>2. thread.write \in Write
    BY <1>11 DEF CommitWrite, TypeOK, Thread
  <2>3. task' \in TaskRow
    BY <1>11, <2>1, <2>2 DEF CommitWrite, TypeOK, TaskRow, Write
  <2> QED
    BY <1>11, <2>3 DEF CommitWrite, TypeOK, Thread
<1>12. ASSUME NEW i \in Item, RunStarts(i) \/ RunEnds(i) PROVE TypeOK'
  BY <1>12 DEF RunStarts, RunEnds, TypeOK, FutState
<1>13. CASE Crash
  BY <1>13 DEF Crash, NoThread, TypeOK, Thread, ThreadPc, FutState
<1>14. CASE Boot
  BY <1>14, RecoveredType DEF Boot, TypeOK, TaskRow
<1>15. CASE Recover \/ ListTasks
  BY <1>15, RecoveredType DEF Recover, ListTasks, TypeOK
<1>16. CASE Archive \/ GrowOld
  BY <1>16 DEF Archive, GrowOld, TypeOK, TaskRow, Statuses
<1> QED
  BY <1>1, <1>2, <1>3, <1>4, <1>5, <1>6, <1>7, <1>8, <1>9, <1>10, <1>11, <1>12,
     <1>13, <1>14, <1>15, <1>16 DEF Next, ThreadStep

\* The types hold at the start.
LEMMA TypeInit == Init => TypeOK
BY DEF Init, NoThread, TypeOK, TaskRow, Statuses, Thread, ThreadPc, FutState

\* The task row, the thread and the futures keep their types.
THEOREM TypeCorrect == Spec => []TypeOK
<1>1. TypeOK /\ [Next]_vars => TypeOK'
  BY TypeStep
<1> QED
  BY TypeInit, <1>1, PTL DEF Spec

-----------------------------------------------------------------------------
(* Steps that leave the accounting alone. *)

\* What the invariant says beside the types.
Account ==
  /\ Clean
  /\ Counted
  /\ WriteSound
  /\ VerdictLast
  /\ SuccessMeansAllRan
  /\ CountersTruthful

\* Futures that ended well stay so, and their number only grows.
LEMMA RanGrows ==
  ASSUME \A i \in Item : fut[i] = "ok" => fut'[i] = "ok", NEW S
  PROVE  /\ Cardinality(Ran \ S) \in Nat
         /\ Cardinality(Ran' \ S) \in Nat
         /\ Cardinality(Ran \ S) <= Cardinality(Ran' \ S)
<1>1. Ran \ S \subseteq Ran' \ S
  BY DEF Ran
<1>2. Ran \ S \in SUBSET Item /\ Ran' \ S \in SUBSET Item
  BY DEF Ran
<1> QED
  BY <1>1, <1>2, Sizes, FS_Subset

\* Others close or archive the row, or it grows older.
LEMMA RowOnly ==
  ASSUME TypeOK, Account, UNCHANGED <<thread, fut>>,
         task'.processed = task.processed, task'.failed = task.failed,
         task'.total = task.total,
         task'.status = task.status \/ (task.status # "none"
                                          /\ task'.status \in {"failed", "archived"})
  PROVE  Account'
<1>1. Ran' = Ran
  BY DEF Ran
<1>2. Clean' /\ Counted' /\ WriteSound'
  BY <1>1 DEF Account, Clean, Counted, WriteSound
<1>3. VerdictLast' /\ SuccessMeansAllRan'
  BY DEF Account, VerdictLast, SuccessMeansAllRan
<1>4. CountersTruthful'
  BY DEF Account, CountersTruthful
<1> QED
  BY <1>2, <1>3, <1>4 DEF Account

\* A future starts or ends.
LEMMA FutOnly ==
  ASSUME TypeOK, TypeOK', Account, UNCHANGED <<task, thread>>,
         NEW j \in Item, fut[j] \in {"queued", "running"},
         \A i \in Item \ {j} : fut'[i] = fut[i]
  PROVE  Account'
<1>1. \A i \in Item : fut[i] = "ok" => fut'[i] = "ok"
  OBVIOUS
<1>2. Clean'
  BY DEF Account, Clean
<1>3. Counted'
  <2> SUFFICES ASSUME thread.pc \in {"waiting", "expiring"}
               PROVE  /\ thread.processed <= Cardinality(Ran' \ thread.pending)
                      /\ thread.failed = 0 =>
                           \A i \in thread.due \ thread.pending : fut'[i] = "ok"
    BY DEF Account, Counted
  <2>1. thread.processed \in Nat /\ thread.due \subseteq Item
    BY DEF TypeOK, Thread
  <2>2. Cardinality(Ran \ thread.pending) <= Cardinality(Ran' \ thread.pending)
        /\ Cardinality(Ran \ thread.pending) \in Nat
        /\ Cardinality(Ran' \ thread.pending) \in Nat
    BY <1>1, RanGrows
  <2>3. thread.processed <= Cardinality(Ran \ thread.pending)
    BY DEF Account, Counted
  <2>4. thread.failed = 0 => \A i \in thread.due \ thread.pending : fut[i] = "ok"
    BY DEF Account, Counted
  <2> QED
    BY <1>1, <2>1, <2>2, <2>3, <2>4
<1>4. Cardinality(Ran) <= Cardinality(Ran') /\ Cardinality(Ran) \in Nat
      /\ Cardinality(Ran') \in Nat
  BY <1>1, Ran \ {} = Ran, Ran' \ {} = Ran', RanGrows
<1>5. WriteSound'
  <2> SUFFICES ASSUME thread.write # NoWrite
               PROVE  /\ thread.write.processed <= Cardinality(Ran')
                      /\ thread.write.status = "success" =>
                           \A i \in thread.due : fut'[i] = "ok"
    BY DEF Account, WriteSound
  <2>1. thread.write.processed \in Nat /\ thread.due \subseteq Item
    BY DEF TypeOK, Thread, Write
  <2>2. thread.write.processed <= Cardinality(Ran)
        /\ (thread.write.status = "success" => \A i \in thread.due : fut[i] = "ok")
    BY DEF Account, WriteSound
  <2> QED
    BY <1>1, <1>4, <2>1, <2>2
<1>6. VerdictLast' /\ SuccessMeansAllRan'
  BY <1>1 DEF Account, VerdictLast, SuccessMeansAllRan, TypeOK, Thread
<1>7. CountersTruthful'
  <2>1. task.processed \in Nat
    BY DEF TypeOK, TaskRow
  <2>2. task.processed <= Cardinality(Ran)
    BY DEF Account, CountersTruthful, Ran
  <2>3. task.processed <= Cardinality(Ran')
    BY <1>4, <2>1, <2>2
  <2> QED
    BY <2>3 DEF Account, CountersTruthful, Ran
<1> QED
  BY <1>2, <1>3, <1>5, <1>6, <1>7 DEF Account

\* The process dies.
LEMMA CrashStep ==
  ASSUME TypeOK, TypeOK', Account, Crash
  PROVE  Account'
<1>1. Ran' = Ran
  BY DEF Crash, Ran, TypeOK
<1>2. Clean' /\ Counted' /\ WriteSound' /\ VerdictLast'
  BY DEF Crash, NoThread, Account, Clean, Counted, WriteSound, VerdictLast, TypeOK
<1>3. SuccessMeansAllRan'
  BY DEF Crash, NoThread, Account, SuccessMeansAllRan, TypeOK, Thread
<1>4. CountersTruthful'
  BY <1>1 DEF Crash, Account, CountersTruthful, Ran
<1> QED
  BY <1>2, <1>3, <1>4 DEF Account

-----------------------------------------------------------------------------
(* Steps of the thread. *)

\* The row and the published counters do not change while the thread counts.
LEMMA RowKept ==
  ASSUME TypeOK, Account, UNCHANGED task, thread'.due = thread.due,
         \A i \in Item : fut[i] = "ok" => fut'[i] = "ok"
  PROVE  SuccessMeansAllRan' /\ CountersTruthful'
<1>1. SuccessMeansAllRan'
  BY DEF Account, SuccessMeansAllRan, TypeOK, Thread
<1>2. task.processed \in Nat
  BY DEF TypeOK, TaskRow
<1>3. Cardinality(Ran) <= Cardinality(Ran') /\ Cardinality(Ran) \in Nat
      /\ Cardinality(Ran') \in Nat
  BY Ran \ {} = Ran, Ran' \ {} = Ran', RanGrows
<1>4. task.processed <= Cardinality(Ran)
  BY DEF Account, CountersTruthful, Ran
<1>5. task.processed <= Cardinality(Ran')
  BY <1>2, <1>3, <1>4
<1>6. CountersTruthful'
  BY <1>5 DEF Account, CountersTruthful, Ran
<1> QED
  BY <1>1, <1>6

\* The request: the row is new and the thread about to start.
LEMMA PostStep ==
  ASSUME TypeOK, Account, PostRunAll
  PROVE  Account'
<1>1. thread = NoThread /\ \A i \in Item : fut[i] = "none"
  BY DEF PostRunAll, Account, Clean
<1>2. Clean' /\ Counted' /\ WriteSound' /\ VerdictLast'
  BY <1>1 DEF PostRunAll, NoThread, Clean, Counted, WriteSound, VerdictLast, TypeOK, TaskRow
<1>3. SuccessMeansAllRan'
  BY DEF PostRunAll, SuccessMeansAllRan, TypeOK, TaskRow
<1>4. CountersTruthful'
  BY DEF PostRunAll, Account, CountersTruthful, TypeOK, TaskRow
<1> QED
  BY <1>2, <1>3, <1>4 DEF Account

\* The thread starts, gives up waiting, or loses a write: no count changes.
LEMMA QuietStep ==
  ASSUME TypeOK, Account, StartThread \/ Expire \/ LoseWrite
  PROVE  Account'
<1>1. UNCHANGED <<task, fut>> /\ thread'.due = thread.due /\ Ran' = Ran
  BY DEF StartThread, Expire, LoseWrite, TypeOK, Thread, Ran
<1>2. CASE StartThread
  BY <1>1, <1>2, RowKept
  DEF StartThread, Account, Clean, Counted, WriteSound, VerdictLast, NoThread, TypeOK, Thread
<1>3. CASE Expire
  BY <1>1, <1>3, RowKept
  DEF Expire, At, Account, Clean, Counted, WriteSound, VerdictLast, NoThread, TypeOK, Thread
<1>4. CASE LoseWrite
  BY <1>1, <1>4, RowKept
  DEF LoseWrite, Account, Clean, Counted, WriteSound, VerdictLast, NoThread, TypeOK, Thread
<1> QED
  BY <1>2, <1>3, <1>4

\* The catalog is loaded, or the row is to be marked running: nothing is
\* counted yet.
LEMMA ScopeStep ==
  ASSUME TypeOK, TypeOK', Account, Load \/ MarkRunning
  PROVE  Account'
<1>1. UNCHANGED <<task, fut>> /\ Ran' = Ran
  BY DEF Load, MarkRunning, Ran
<1>2. thread.pc \in {"loading", "scoped"} /\ thread.write = NoWrite
  BY DEF Load, MarkRunning, At
<1>3. thread'.pc \in {"scoped", "submitting"}
      /\ thread'.processed = thread.processed /\ thread'.failed = thread.failed
  BY DEF Load, MarkRunning, TypeOK, Thread
<1>4. task.status \notin {"none", "success", "degraded"}
  BY <1>2 DEF Account, Clean, VerdictLast, NoThread
<1>5. thread'.write.status \notin {"none", "success", "degraded"}
      /\ thread'.write.processed = 0 /\ thread'.write.failed = 0
  <2>1. thread'.write \in {Progress(task.status, 0, 0, FALSE), Progress("running", 0, 0, FALSE)}
    BY DEF Load, MarkRunning, TypeOK, Thread
  <2> QED
    BY <1>4, <2>1 DEF Progress
<1>6. Clean' /\ Counted' /\ VerdictLast' /\ SuccessMeansAllRan'
  BY <1>1, <1>2, <1>3, <1>4
  DEF Account, Clean, Counted, VerdictLast, SuccessMeansAllRan
<1>7. Cardinality(Ran') \in Nat /\ Cardinality(thread'.due) \in Nat
  BY Sizes DEF Ran, TypeOK, Thread
<1>8. WriteSound'
  BY <1>5, <1>7 DEF WriteSound
<1>9. CountersTruthful'
  BY <1>1 DEF Account, CountersTruthful
<1> QED
  BY <1>6, <1>8, <1>9 DEF Account

\* The futures are submitted: all due sources are pending.
LEMMA SubmitStep ==
  ASSUME TypeOK, TypeOK', Account, Submit
  PROVE  Account'
<1>1. thread.pc = "submitting" /\ thread.write = NoWrite /\ UNCHANGED task
  BY DEF Submit, At
<1>2. /\ thread'.pc = "waiting" /\ thread'.pending = thread.due
      /\ thread'.due = thread.due /\ thread'.write = NoWrite
      /\ thread'.processed = thread.processed /\ thread'.failed = thread.failed
  BY <1>1 DEF Submit, TypeOK, Thread
<1>3. \A i \in Item : fut[i] = "none"
  BY <1>1 DEF Account, Clean
<1>4. thread.processed = 0 /\ thread.failed = 0
  BY <1>1 DEF Account, Clean
<1>5. task.status \notin {"none", "success", "degraded"}
  BY <1>1 DEF Account, Clean, VerdictLast, NoThread
<1>6. Clean' /\ WriteSound' /\ VerdictLast'
  BY <1>1, <1>2, <1>5 DEF Clean, WriteSound, VerdictLast
<1>7. Counted'
  <2>1. Cardinality(thread.due) \in Nat /\ Cardinality((Ran \ thread.pending)') \in Nat
    BY Sizes DEF Ran, TypeOK, Thread
  <2> QED
    BY <1>2, <1>4, <2>1 DEF Counted
<1>8. SuccessMeansAllRan' /\ CountersTruthful'
  BY <1>1, <1>2, <1>3, RowKept
<1> QED
  BY <1>6, <1>7, <1>8 DEF Account

\* The except branch: every due source counts as failed.
LEMMA GiveUpStep ==
  ASSUME TypeOK, TypeOK', Account, GiveUp
  PROVE  Account'
<1>1. /\ thread.pc \in {"loading", "submitting"} /\ thread.write = NoWrite
      /\ UNCHANGED task /\ thread'.pc = "ended" /\ thread'.due = thread.due
  BY DEF GiveUp, At, TypeOK, Thread
<1>2. \A i \in Item : fut[i] = "none"
  BY <1>1 DEF Account, Clean
<1>3. thread'.write.status = "failed" /\ thread'.write.processed = 0
      /\ thread'.write.failed = Cardinality(thread.due)
  BY DEF GiveUp, Progress, TypeOK, Thread
<1>4. task.status \notin {"none", "success", "degraded"}
  BY <1>1 DEF Account, Clean, VerdictLast, NoThread
<1>5. Clean' /\ Counted' /\ VerdictLast'
  BY <1>1, <1>4 DEF Clean, Counted, VerdictLast
<1>6. Cardinality(Ran') \in Nat /\ Cardinality(thread.due) \in Nat
  BY Sizes DEF Ran, TypeOK, Thread
<1>7. WriteSound'
  BY <1>1, <1>3, <1>6 DEF WriteSound
<1>8. SuccessMeansAllRan' /\ CountersTruthful'
  BY <1>1, <1>2, RowKept
<1> QED
  BY <1>5, <1>7, <1>8 DEF Account

\* One future leaves the pending set, processed or failed.
LEMMA CollectStep ==
  ASSUME TypeOK, TypeOK', Account, NEW i \in Item, Collect(i)
  PROVE  Account'
<1> DEFINE ok == IF fut[i] = "ok" THEN 1 ELSE 0
<1>1. /\ thread.pc = "waiting" /\ thread.write = NoWrite
      /\ i \in thread.pending /\ UNCHANGED <<task, fut>>
  BY DEF Collect, At
<1>2. /\ thread'.pc = "waiting" /\ thread'.due = thread.due
      /\ thread'.pending = thread.pending \ {i}
      /\ thread'.processed = thread.processed + ok
      /\ thread'.failed = thread.failed + (1 - ok)
      /\ thread'.write = Progress("running", thread.processed + ok,
                                  thread.failed + (1 - ok), FALSE)
  BY <1>1 DEF Collect, TypeOK, Thread
<1>3. thread.processed \in Nat /\ thread.failed \in Nat /\ ok \in {0, 1}
      /\ thread.pending \in SUBSET Item /\ thread.due \in SUBSET Item
  BY DEF TypeOK, Thread
<1>4. /\ thread.pending \subseteq thread.due
      /\ thread.processed + thread.failed + Cardinality(thread.pending)
           = Cardinality(thread.due)
      /\ thread.processed <= Cardinality(Ran \ thread.pending)
      /\ thread.failed = 0 => \A j \in thread.due \ thread.pending : fut[j] = "ok"
  BY <1>1 DEF Account, Counted
<1>5. Cardinality(thread.pending \ {i}) = Cardinality(thread.pending) - 1
      /\ Cardinality(thread.pending) \in Nat /\ Cardinality(thread.due) \in Nat
      /\ Cardinality(thread.pending \ {i}) \in Nat
  BY <1>1, <1>3, Sizes, FS_RemoveElement
<1>6. thread.processed + ok <= Cardinality(Ran \ (thread.pending \ {i}))
      /\ Cardinality(Ran \ (thread.pending \ {i})) \in Nat
  <2>1. Ran \ thread.pending \in SUBSET Item /\ Ran \ (thread.pending \ {i}) \in SUBSET Item
    BY DEF Ran
  <2>2. CASE fut[i] = "ok"
    <3>1. Ran \ (thread.pending \ {i}) = (Ran \ thread.pending) \cup {i}
          /\ i \notin Ran \ thread.pending
      BY <1>1, <2>2 DEF Ran
    <3>2. Cardinality(Ran \ (thread.pending \ {i})) = Cardinality(Ran \ thread.pending) + 1
      BY <2>1, <3>1, Sizes, FS_AddElement
    <3> QED
      BY <1>3, <1>4, <2>1, <2>2, <3>2, Sizes
  <2>3. CASE fut[i] # "ok"
    <3>1. Ran \ (thread.pending \ {i}) = Ran \ thread.pending
      BY <2>3 DEF Ran
    <3> QED
      BY <1>3, <1>4, <2>1, <2>3, <3>1, Sizes
  <2> QED
    BY <2>2, <2>3
<1>7. Ran' = Ran
  BY <1>1 DEF Ran
<1>8. thread.processed + ok <= Cardinality(Ran) /\ Cardinality(Ran) \in Nat
  <2>1. Ran \ (thread.pending \ {i}) \subseteq Ran /\ Ran \in SUBSET Item
    BY DEF Ran
  <2>2. Cardinality(Ran \ (thread.pending \ {i})) <= Cardinality(Ran)
        /\ Cardinality(Ran) \in Nat
    BY <2>1, Sizes, FS_Subset
  <2> QED
    BY <1>3, <1>6, <2>2
<1>9. Counted'
  <2>1. thread.processed + ok + (thread.failed + (1 - ok)) + Cardinality(thread.pending \ {i})
          = Cardinality(thread.due)
    BY <1>3, <1>4, <1>5
  <2>2. thread.failed + (1 - ok) = 0 =>
          \A j \in thread.due \ (thread.pending \ {i}) : fut[j] = "ok"
    BY <1>3, <1>4
  <2> QED
    BY <1>1, <1>2, <1>4, <1>6, <1>7, <2>1, <2>2 DEF Counted
<1>10. WriteSound'
  <2>1. thread.processed + ok + (thread.failed + (1 - ok)) <= Cardinality(thread.due)
    BY <1>3, <1>4, <1>5
  <2>2. /\ thread'.write.status = "running"
        /\ thread'.write.processed = thread.processed + ok
        /\ thread'.write.failed = thread.failed + (1 - ok)
    BY <1>2 DEF Progress
  <2> QED
    BY <1>2, <1>7, <1>8, <2>1, <2>2 DEF WriteSound
<1>11. Clean' /\ VerdictLast'
  BY <1>1, <1>2 DEF Account, Clean, VerdictLast, NoThread
<1>12. SuccessMeansAllRan' /\ CountersTruthful'
  BY <1>1, <1>2, RowKept
<1> QED
  BY <1>9, <1>10, <1>11, <1>12 DEF Account

\* A pending source counts as failed at the deadline, cancelled or not.
LEMMA CancelStep ==
  ASSUME TypeOK, TypeOK', Account, NEW i \in Item, Cancel(i)
  PROVE  Account'
<1>1. /\ thread.pc = "expiring" /\ thread.write = NoWrite
      /\ i \in thread.pending /\ UNCHANGED task
  BY DEF Cancel, At
<1>2. /\ thread'.pc = "expiring" /\ thread'.due = thread.due
      /\ thread'.pending = thread.pending \ {i}
      /\ thread'.processed = thread.processed
      /\ thread'.failed = thread.failed + 1
      /\ thread'.write = Progress("running", thread.processed, thread.failed + 1, FALSE)
  BY <1>1 DEF Cancel, TypeOK, Thread
<1>3. thread.processed \in Nat /\ thread.failed \in Nat
      /\ thread.pending \in SUBSET Item /\ thread.due \in SUBSET Item
  BY DEF TypeOK, Thread
<1>4. /\ thread.pending \subseteq thread.due
      /\ thread.processed + thread.failed + Cardinality(thread.pending)
           = Cardinality(thread.due)
      /\ thread.processed <= Cardinality(Ran \ thread.pending)
  BY <1>1 DEF Account, Counted
<1>5. Cardinality(thread.pending \ {i}) = Cardinality(thread.pending) - 1
      /\ Cardinality(thread.pending) \in Nat /\ Cardinality(thread.due) \in Nat
      /\ Cardinality(thread.pending \ {i}) \in Nat
  BY <1>1, <1>3, Sizes, FS_RemoveElement
<1>6. Ran' = Ran
  BY DEF Cancel, Ran, TypeOK
<1>7. thread.processed <= Cardinality(Ran \ (thread.pending \ {i}))
      /\ thread.processed <= Cardinality(Ran)
  <2>1. /\ Ran \ thread.pending \subseteq Ran \ (thread.pending \ {i})
        /\ Ran \ (thread.pending \ {i}) \subseteq Ran /\ Ran \in SUBSET Item
        /\ Ran \ (thread.pending \ {i}) \in SUBSET Item /\ Ran \ thread.pending \in SUBSET Item
    BY DEF Ran
  <2>2. /\ Cardinality(Ran \ thread.pending) <= Cardinality(Ran \ (thread.pending \ {i}))
        /\ Cardinality(Ran \ (thread.pending \ {i})) <= Cardinality(Ran)
    BY <2>1, Sizes, FS_Subset
  <2> QED
    BY <1>3, <1>4, <2>1, <2>2, Sizes
<1>8. Counted'
  <2>1. thread.processed + (thread.failed + 1) + Cardinality(thread.pending \ {i})
          = Cardinality(thread.due) /\ thread.failed + 1 # 0
    BY <1>3, <1>4, <1>5
  <2> QED
    BY <1>2, <1>4, <1>6, <1>7, <2>1 DEF Counted
<1>9. WriteSound'
  <2>1. thread.processed + (thread.failed + 1) <= Cardinality(thread.due)
    BY <1>3, <1>4, <1>5
  <2>2. /\ thread'.write.status = "running"
        /\ thread'.write.processed = thread.processed
        /\ thread'.write.failed = thread.failed + 1
    BY <1>2 DEF Progress
  <2> QED
    BY <1>2, <1>6, <1>7, <2>1, <2>2 DEF WriteSound
<1>10. Clean' /\ VerdictLast'
  BY <1>1, <1>2 DEF Account, Clean, VerdictLast, NoThread
<1>11. SuccessMeansAllRan' /\ CountersTruthful'
  BY <1>1, <1>2, RowKept DEF Cancel, TypeOK
<1> QED
  BY <1>8, <1>9, <1>10, <1>11 DEF Account

\* The verdict: nothing is pending, so the counts are complete.
LEMMA CloseStep ==
  ASSUME TypeOK, TypeOK', Account, Close
  PROVE  Account'
<1>1. /\ thread.pc \in {"waiting", "expiring"} /\ thread.write = NoWrite
      /\ thread.pending = {} /\ UNCHANGED <<task, fut>>
  BY DEF Close, At
<1>2. /\ thread'.pc = "ended" /\ thread'.due = thread.due
      /\ thread'.write = Progress(Verdict, thread.processed, thread.failed, TRUE)
  BY DEF Close, TypeOK, Thread
<1>3. thread.processed \in Nat /\ thread.failed \in Nat /\ thread.due \in SUBSET Item
  BY DEF TypeOK, Thread
<1>4. /\ thread.processed + thread.failed = Cardinality(thread.due)
      /\ thread.processed <= Cardinality(Ran)
      /\ thread.failed = 0 => \A j \in thread.due : fut[j] = "ok"
  <2>1. Cardinality(thread.pending) = 0 /\ Ran \ thread.pending = Ran
        /\ thread.due \ thread.pending = thread.due
    BY <1>1, FS_EmptySet
  <2>2. /\ thread.processed + thread.failed + Cardinality(thread.pending)
             = Cardinality(thread.due)
        /\ thread.processed <= Cardinality(Ran \ thread.pending)
        /\ thread.failed = 0 => \A i \in thread.due \ thread.pending : fut[i] = "ok"
    BY <1>1 DEF Account, Counted
  <2> QED
    BY <1>3, <2>1, <2>2
<1>5. Ran' = Ran
  BY <1>1 DEF Ran
<1>6. WriteSound'
  <2>1. /\ thread'.write.status = Verdict
        /\ thread'.write.processed = thread.processed
        /\ thread'.write.failed = thread.failed
    BY <1>2 DEF Progress
  <2>2. Verdict \in {"success", "failed", "degraded"}
        /\ (Verdict = "success" => thread.failed = 0)
    BY <1>3 DEF Verdict
  <2>3. thread.processed + thread.failed <= Cardinality(thread.due)
    BY <1>3, <1>4
  <2> QED
    BY <1>1, <1>2, <1>4, <1>5, <2>1, <2>2, <2>3 DEF WriteSound
<1>7. task.status \notin {"none", "success", "degraded"}
  BY <1>1 DEF Account, Clean, VerdictLast, NoThread
<1>8. Clean' /\ Counted' /\ VerdictLast'
  BY <1>1, <1>2, <1>7 DEF Clean, Counted, VerdictLast
<1>9. SuccessMeansAllRan' /\ CountersTruthful'
  BY <1>1, <1>2, RowKept
<1> QED
  BY <1>6, <1>8, <1>9 DEF Account

\* The write in flight is committed.
LEMMA CommitStep ==
  ASSUME TypeOK, TypeOK', Account, CommitWrite
  PROVE  Account'
<1> DEFINE write == thread.write
<1>1. /\ write # NoWrite /\ UNCHANGED fut
      /\ thread'.pc = thread.pc /\ thread'.due = thread.due /\ thread'.write = NoWrite
      /\ thread'.pending = thread.pending
      /\ thread'.processed = thread.processed /\ thread'.failed = thread.failed
  BY DEF CommitWrite, TypeOK, Thread
<1>2. /\ task'.status \in {task.status, write.status}
      /\ task'.processed = write.processed /\ task'.failed = write.failed
      /\ task'.total = Cardinality(thread.due)
  BY DEF CommitWrite, TypeOK, TaskRow
<1>3. /\ write.status # "none"
      /\ write.status \in {"success", "degraded"} =>
           /\ thread.pc = "ended"
           /\ write.processed + write.failed = Cardinality(thread.due)
      /\ write.status = "success" => \A i \in thread.due : fut[i] = "ok"
      /\ write.processed <= Cardinality(Ran)
      /\ write.processed + write.failed <= Cardinality(thread.due)
  BY <1>1 DEF Account, WriteSound
<1>4. task.status \notin {"none", "success", "degraded"}
  BY <1>1 DEF Account, Clean, VerdictLast, NoThread
<1>5. Ran' = Ran
  BY <1>1 DEF Ran
<1>6. Clean' /\ Counted'
  BY <1>1, <1>2, <1>3, <1>4, <1>5 DEF Account, Clean, Counted
<1>7. WriteSound' /\ VerdictLast'
  BY <1>1, <1>2, <1>3, <1>4 DEF WriteSound, VerdictLast
<1>8. SuccessMeansAllRan'
  BY <1>1, <1>2, <1>3, <1>4 DEF SuccessMeansAllRan
<1>9. CountersTruthful'
  BY <1>1, <1>2, <1>3, <1>4, <1>5 DEF CountersTruthful, Ran
<1> QED
  BY <1>6, <1>7, <1>8, <1>9 DEF Account

-----------------------------------------------------------------------------

\* Every step keeps the accounting.
LEMMA AccountStep == TypeOK /\ Account /\ [Next]_vars => Account'
<1> SUFFICES ASSUME TypeOK, Account, [Next]_vars PROVE Account'
  OBVIOUS
<1>1. TypeOK'
  BY TypeStep
<1>2. CASE UNCHANGED vars
  BY <1>2, RowOnly DEF vars
<1>3. CASE ThreadStep
  BY <1>1, <1>3, QuietStep, ScopeStep, SubmitStep, GiveUpStep, CollectStep, CancelStep,
     CloseStep, CommitStep DEF ThreadStep
<1>4. ASSUME NEW i \in Item, RunStarts(i) \/ RunEnds(i) PROVE Account'
  <2>1. fut[i] \in {"queued", "running"} /\ \A j \in Item \ {i} : fut'[j] = fut[j]
    BY <1>4 DEF RunStarts, RunEnds, TypeOK
  <2> QED
    BY <1>1, <1>4, <2>1, FutOnly DEF RunStarts, RunEnds
<1>5. CASE Boot \/ Recover \/ ListTasks \/ Archive \/ GrowOld
  <2>1. /\ UNCHANGED <<thread, fut>>
        /\ task'.processed = task.processed /\ task'.failed = task.failed
        /\ task'.total = task.total
        /\ \/ task'.status = task.status
           \/ task.status # "none" /\ task'.status \in {"failed", "archived"}
    BY <1>5 DEF Boot, Recover, ListTasks, Archive, GrowOld, Recovered, Failed, Stale,
                Open, Closed, TypeOK, TaskRow
  <2> QED
    BY <2>1, RowOnly
<1> QED
  BY <1>1, <1>2, <1>3, <1>4, <1>5, PostStep, CrashStep DEF Next

\* The accounting holds at the start.
LEMMA AccountInit == Init => Account
<1> SUFFICES ASSUME Init PROVE Account
  OBVIOUS
<1>1. Clean /\ Counted /\ WriteSound /\ VerdictLast /\ SuccessMeansAllRan
  BY DEF Init, NoThread, Clean, Counted, WriteSound, VerdictLast, SuccessMeansAllRan
<1>2. Cardinality(Ran) \in Nat
  BY Sizes DEF Ran
<1>3. CountersTruthful
  BY <1>2 DEF Init, CountersTruthful, Ran
<1> QED
  BY <1>1, <1>3 DEF Account

\* Types and accounting together.
LEMMA AccountAlways == Spec => [](TypeOK /\ Account)
<1>1. TypeOK /\ Account /\ [Next]_vars => TypeOK' /\ Account'
  BY TypeStep, AccountStep
<1> QED
  BY TypeInit, AccountInit, <1>1, PTL DEF Spec

\* A task row that says success belongs to a sweep in which every due source
\* ran without an exception, whatever was lost, recovered or restarted.
THEOREM SuccessIsTrue == Spec => []SuccessMeansAllRan
<1>1. Account => SuccessMeansAllRan
  BY DEF Account
<1> QED
  BY AccountAlways, <1>1, PTL

\* The counters of the task row never say more than happened, and a verdict
\* of the thread accounts for every due source.
THEOREM CountersAreTrue == Spec => []CountersTruthful
<1>1. Account => CountersTruthful
  BY DEF Account
<1> QED
  BY AccountAlways, <1>1, PTL

-----------------------------------------------------------------------------
(* Sweeps that a restart killed.                                             *)

\* The thread writes nothing more.
Over == thread.pc \in {"none", "ended"} /\ thread.write = NoWrite

\* The last write says that the sweep is closed, and a write that would leave
\* the status of a closed row alone finds it closed.
WriteCloses ==
  thread.write # NoWrite =>
    /\ thread.write.finished => thread.pc = "ended" /\ thread.write.status \in Closed
    /\ thread.write.seen \notin Open => task.status \notin Open

\* A row that was finished and is open was reopened by a write after the
\* recovery had closed it, so it is old; an orphan has no thread and was not
\* finished; and before the request there is neither row nor thread.
Reopened ==
  /\ task.finished => task.age # 0 \/ Over
  /\ task.finished /\ task.status \in Open => task.age # 0
  /\ task.orphan => task.status # "none" /\ thread.pc = "none" /\ thread.write = NoWrite
  /\ task.orphan /\ task.status \in Open => ~task.finished
  /\ ~api => thread.pc = "none" /\ thread.write = NoWrite
  /\ task.status = "none" =>
       ~task.finished /\ ~task.orphan /\ thread.pc = "none" /\ thread.write = NoWrite

Killed == WriteCloses /\ Reopened

\* A step of the thread that starts no write and ends none.
LEMMA ThreadMovesKilled ==
  ASSUME TypeOK, Killed, UNCHANGED <<task, api>>, thread'.write = thread.write,
         thread.pc \notin {"none", "ended"}, thread'.pc \notin {"none", "ended"}
  PROVE  Killed'
BY DEF Killed, WriteCloses, Reopened, Over

\* A step that starts a write, of a thread that had none in flight.
LEMMA WriteStartsKilled ==
  ASSUME TypeOK, Killed, UNCHANGED <<task, api>>, thread.write = NoWrite,
         thread.pc \notin {"none", "ended"}, thread'.pc # "none",
         thread'.write.seen = task.status,
         thread'.write.finished => thread'.pc = "ended" /\ thread'.write.status \in Closed
  PROVE  Killed'
BY DEF Killed, WriteCloses, Reopened, Over

\* Every step of the thread.
LEMMA ThreadKilled == TypeOK /\ Account /\ Killed /\ ThreadStep => Killed'
<1> SUFFICES ASSUME TypeOK, Account, Killed, ThreadStep PROVE Killed'
  OBVIOUS
<1>1. CASE StartThread \/ Submit \/ Expire
  <2>1. /\ UNCHANGED <<task, api>> /\ thread'.write = thread.write
        /\ thread.pc \notin {"none", "ended"} /\ thread'.pc \notin {"none", "ended"}
    BY <1>1 DEF StartThread, Submit, Expire, At, TypeOK, Thread
  <2>2. QED
    BY <2>1, ThreadMovesKilled
<1>2. CASE Load \/ MarkRunning \/ GiveUp \/ Close \/ \E i \in Item : Collect(i) \/ Cancel(i)
  <2>1. /\ UNCHANGED <<task, api>> /\ thread.write = NoWrite
        /\ thread.pc \notin {"none", "ended"} /\ thread'.pc # "none"
    BY <1>2 DEF Load, MarkRunning, GiveUp, Close, Collect, Cancel, At, TypeOK, Thread
  <2>2. PICK status, p, q, b :
          /\ thread'.write = Progress(status, p, q, b)
          /\ b \in BOOLEAN /\ (b => thread'.pc = "ended" /\ status \in Closed)
    <3>1. CASE Load \/ MarkRunning \/ \E i \in Item : Collect(i) \/ Cancel(i)
      <4>1. \E status, p, q : thread'.write = Progress(status, p, q, FALSE)
        <5>1. CASE Load
          <6>1. thread'.write = Progress(task.status, 0, 0, FALSE)
            BY <5>1 DEF Load, TypeOK, Thread
          <6>2. QED
            BY <6>1
        <5>2. CASE MarkRunning
          <6>1. thread'.write = Progress("running", 0, 0, FALSE)
            BY <5>2 DEF MarkRunning, TypeOK, Thread
          <6>2. QED
            BY <6>1
        <5>3. ASSUME NEW i \in Item, Collect(i)
              PROVE  \E p, q : thread'.write = Progress("running", p, q, FALSE)
          BY <5>3 DEF Collect, TypeOK, Thread
        <5>4. ASSUME NEW i \in Item, Cancel(i)
              PROVE  \E p, q : thread'.write = Progress("running", p, q, FALSE)
          BY <5>4 DEF Cancel, TypeOK, Thread
        <5>5. QED
          BY <3>1, <5>1, <5>2, <5>3, <5>4
      <4>2. QED
        BY <4>1
    <3>2. CASE GiveUp
      <4>1. thread'.pc = "ended" /\
            thread'.write = Progress("failed", 0, Cardinality(thread.due), TRUE)
        BY <3>2 DEF GiveUp, TypeOK, Thread
      <4>2. QED
        BY <4>1 DEF Closed
    <3>3. CASE Close
      <4>1. thread'.pc = "ended" /\
            thread'.write = Progress(Verdict, thread.processed, thread.failed, TRUE)
        BY <3>3 DEF Close, TypeOK, Thread
      <4>2. Verdict \in Closed
        BY DEF Verdict, Closed, TypeOK, Thread
      <4>3. QED
        BY <4>1, <4>2
    <3>4. QED
      BY <1>2, <3>1, <3>2, <3>3
  <2>3. /\ thread'.write.seen = task.status
        /\ thread'.write.finished => thread'.pc = "ended" /\ thread'.write.status \in Closed
    BY <2>2 DEF Progress
  <2>4. QED
    BY <2>1, <2>3, WriteStartsKilled
<1>3. CASE LoseWrite
  <2>1. /\ UNCHANGED <<task, api>> /\ thread'.pc = thread.pc /\ thread'.write = NoWrite
        /\ thread.write # NoWrite
    BY <1>3 DEF LoseWrite, TypeOK, Thread
  <2>2. QED
    BY <2>1 DEF Killed, WriteCloses, Reopened, Over
<1>4. CASE CommitWrite
  <2> DEFINE write == thread.write
  <2>1. /\ write # NoWrite /\ write \in Write /\ UNCHANGED api
        /\ thread'.write = NoWrite /\ thread'.pc = thread.pc
    BY <1>4 DEF CommitWrite, TypeOK, Thread
  <2>2. /\ task'.status = IF write.status = write.seen THEN task.status ELSE write.status
        /\ task'.finished = (task.finished \/ write.finished)
        /\ task'.age = task.age /\ task'.orphan = task.orphan
    BY <1>4 DEF CommitWrite, TypeOK, TaskRow
  <2>3. ~task.orphan /\ api /\ task.status # "none" /\ (task.finished => task.age # 0)
    BY <2>1 DEF Killed, Reopened, Over, TypeOK, TaskRow
  <2>4. write.finished => thread.pc = "ended" /\ task'.status \notin Open
    BY <2>1, <2>2 DEF Killed, WriteCloses, Open, Closed
  <2>5. WriteCloses'
    BY <2>1 DEF WriteCloses
  <2>6. task'.status # "none"
    BY <2>1, <2>2, <2>3 DEF Account, WriteSound
  <2>7. QED
    BY <2>1, <2>2, <2>3, <2>4, <2>5, <2>6 DEF Killed, Reopened, Over
<1>5. QED
  BY <1>1, <1>2, <1>3, <1>4 DEF ThreadStep

\* Others who close or age the row, and the restarts.
LEMMA OthersKilled ==
  ASSUME TypeOK, Killed, Crash \/ Boot \/ Recover \/ ListTasks \/ Archive \/ GrowOld
  PROVE  Killed'
<1>1. CASE Crash
  <2>1. thread'.pc = "none" /\ thread'.write = NoWrite /\ UNCHANGED task
    BY <1>1 DEF Crash, NoThread
  <2>2. QED
    BY <2>1 DEF Killed, WriteCloses, Reopened, Over
<1>2. CASE Boot
  <2>1. thread.pc = "none" /\ thread.write = NoWrite /\ UNCHANGED thread /\ api'
    BY <1>2 DEF Boot, Killed, Reopened
  <2>2. /\ task'.orphan = (task.status # "none") /\ task'.age = task.age
        /\ \/ task'.status = task.status /\ task'.finished = task.finished
           \/ task'.status = "failed" /\ task.age # 0 /\ task.status \in Open
    <3>1. task' = [Recovered(task) EXCEPT !.orphan = task.status # "none"]
      BY <1>2 DEF Boot
    <3>2. /\ Recovered(task) \in TaskRow /\ Recovered(task).age = task.age
          /\ \/ Recovered(task) = task
             \/ /\ Recovered(task).status = "failed"
                /\ task.age # 0 /\ task.status \in Open
      BY RecoveredType DEF Recovered, Failed, TypeOK, TaskRow
    <3>3. task'.orphan = (task.status # "none")
      BY <3>1, <3>2 DEF TaskRow
    <3>4. /\ task'.age = Recovered(task).age /\ task'.status = Recovered(task).status
          /\ task'.finished = Recovered(task).finished
      BY <3>1, <3>2 DEF TaskRow
    <3>5. QED
      BY <3>2, <3>3, <3>4
  <2>3. task.status \in Open /\ task'.status = task.status => task.age = 0
    BY <1>2 DEF Boot, Recovered, Failed, TypeOK, TaskRow, Open
  <2>4. QED
    BY <2>1, <2>2, <2>3 DEF Killed, WriteCloses, Reopened, Over, Open
<1>3. CASE Recover
  <2>1. /\ UNCHANGED <<thread, api>> /\ task'.age = task.age /\ task'.orphan = task.orphan
        /\ \/ UNCHANGED task
           \/ task'.status = "failed" /\ task.age # 0 /\ task.status \in Open
    BY <1>3 DEF Recover, Recovered, Failed, TypeOK, TaskRow
  <2>2. QED
    BY <2>1 DEF Killed, WriteCloses, Reopened, Over, Open
<1>4. CASE ListTasks
  <2>1. /\ UNCHANGED <<thread, api>> /\ task'.age = task.age /\ task'.orphan = task.orphan
        /\ task'.status = "failed" /\ task.orphan
    BY <1>4 DEF ListTasks, Stale, Failed, TypeOK, TaskRow
  <2>2. QED
    BY <2>1 DEF Killed, WriteCloses, Reopened, Over, Open
<1>5. CASE Archive \/ GrowOld
  <2>1. /\ UNCHANGED <<thread, api>> /\ task'.finished = task.finished
        /\ task'.orphan = task.orphan /\ (task.age # 0 => task'.age # 0)
        /\ \/ task'.status = task.status
           \/ task'.status = "archived" /\ task.status \in Closed
    BY <1>5 DEF Archive, GrowOld, TypeOK, TaskRow
  <2>2. QED
    BY <2>1 DEF Killed, WriteCloses, Reopened, Over, Open, Closed
<1>6. QED
  BY <1>1, <1>2, <1>3, <1>4, <1>5

\* Every step keeps what restarts rely on.
LEMMA KilledStep == TypeOK /\ Account /\ Killed /\ [Next]_vars => Killed'
<1> SUFFICES ASSUME TypeOK, Account, Killed, [Next]_vars PROVE Killed'
  OBVIOUS
<1>1. CASE UNCHANGED vars
  BY <1>1 DEF vars, Killed, WriteCloses, Reopened, Over
<1>2. CASE PostRunAll
  <2>1. /\ thread'.pc = "starting" /\ thread'.write = NoWrite /\ api /\ UNCHANGED api
        /\ task'.status = "queued" /\ ~task'.finished /\ ~task'.orphan
    BY <1>2 DEF PostRunAll, Killed, Reopened, TypeOK, TaskRow, Thread
  <2>2. QED
    BY <2>1 DEF Killed, WriteCloses, Reopened, Over
<1>3. CASE ThreadStep
  BY <1>3, ThreadKilled
<1>4. CASE \E i \in Item : RunStarts(i) \/ RunEnds(i)
  BY <1>4 DEF RunStarts, RunEnds, Killed, WriteCloses, Reopened, Over
<1>5. CASE Crash \/ Boot \/ Recover \/ ListTasks \/ Archive \/ GrowOld
  BY <1>5, OthersKilled
<1>6. QED
  BY <1>1, <1>2, <1>3, <1>4, <1>5 DEF Next

\* At the start there is neither row nor thread.
LEMMA KilledInit == Init => Killed
BY DEF Init, NoThread, Killed, WriteCloses, Reopened, Over, Open

\* After a restart GET /tasks finds every sweep that the restart killed: its
\* row is open and was never finished.
THEOREM OrphansAreFound == Spec => []OrphansReleasable
<1>1. TypeOK /\ Killed => OrphansReleasable
  BY DEF TypeOK, TaskRow, Killed, Reopened, OrphansReleasable, Stale
<1>2. TypeOK /\ Account /\ Killed /\ [Next]_vars => Killed'
  BY KilledStep
<1>3. QED
  BY AccountAlways, KilledInit, <1>1, <1>2, PTL DEF Spec
=============================================================================

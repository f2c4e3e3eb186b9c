-------------------------- MODULE ScrapeRunsProofs --------------------------
(***************************************************************************)
(* Proofs about ScrapeRuns, for any sources, sessions, pages, threshold    *)
(* and cooldown.                                                           *)
(*                                                                         *)
(* The inductive invariant says who may hold a lock: the row lock of a     *)
(* source is held exactly by the session that is live on it, a dispatched  *)
(* session that passed the lock decision holds the advisory lock, and a    *)
(* session that is about to commit carries a final status.                 *)
(***************************************************************************)
EXTENDS ScrapeRuns, TLAPS

Final == {"success", "degraded", "failed"}

RowLockMeansLive ==
  \A s \in Source : \A w \in Scrapers : rowLock[s] = w <=> LiveOn(w, s)

AdvisoryHeld ==
  \A w \in Dispatchers :
    txn[w].pc \in {"locked", "scraping", "persisting", "finished"}
      => advLock[txn[w].source] = w

FinalStatus == \A w \in Session : txn[w].pc = "finished" => txn[w].status \in Final

IInv == TypeOK /\ RowLockMeansLive /\ AdvisoryHeld /\ FinalStatus /\ NoOpenRun

-----------------------------------------------------------------------------

\* An idle session's record is well typed.
LEMMA BlankType == Blank \in Txn /\ Blank.pc = "idle"
<1>1. (CHOOSE s \in Source : TRUE) \in Source
  BY ConstantsAssumption
<1>2. QED
  BY <1>1 DEF Blank, Txn, NewRow, Row, Phase, Status

\* A flush of well-typed rows leaves a well-typed row.
LEMMA FlushedType ==
  ASSUME NEW a \in Row, NEW b \in Row, NEW c \in Row
  PROVE  Flushed(a, b, c) \in Row
BY DEF Flushed, Written, Row

\* Counting a run keeps the row well typed.
LEMMA CountedType ==
  ASSUME NEW r \in Row, NEW found \in BOOLEAN
  PROVE  Counted(r, found) \in Row
<1> DEFINE empty == IF found THEN 0 ELSE r.empty + 1
           sel   == IF found THEN 0 ELSE r.sel + 1
           paused == IF empty >= PauseAfter \/ sel >= PauseAfter
                       THEN TRUE ELSE r.paused
<1>1. empty \in Nat /\ sel \in Nat
  BY DEF Row
<1>2. paused \in BOOLEAN
  BY Zenon DEF Row
<1>3. Counted(r, found) = [r EXCEPT !.empty = empty, !.sel = sel, !.paused = paused]
  BY Zenon DEF Counted
<1> HIDE DEF empty, sel, paused
<1>4. QED
  BY <1>1, <1>2, <1>3 DEF Row

\* Re-activating a row keeps it well typed.
LEMMA RevivedType == \A r \in Row : Revived(r) \in Row
BY DEF Revived, Row

\* The audit count stays a natural number.
LEMMA DryType ==
  ASSUME NEW d \in Nat, NEW revived \in BOOLEAN, NEW found \in BOOLEAN
  PROVE  DryAfter(d, revived, found) \in Nat
BY ConstantsAssumption DEF DryAfter

\* The initial states satisfy the inductive invariant.
LEMMA InitIInv == Init => IInv
<1> SUFFICES ASSUME Init PROVE IInv
  OBVIOUS
<1> USE ConstantsAssumption
<1>1. TypeOK
  BY BlankType DEF Init, TypeOK, NewRow, Row, RunLog, Status
<1>2. RowLockMeansLive /\ AdvisoryHeld /\ FinalStatus /\ NoOpenRun
  BY BlankType DEF Init, RowLockMeansLive, LiveOn, AdvisoryHeld, FinalStatus,
     NoOpenRun, Scrapers, Session, Dispatchers
<1>3. QED
  BY <1>1, <1>2 DEF IInv

-----------------------------------------------------------------------------
(* Preservation, one lemma per shape of step. *)

Locks == RowLockMeansLive /\ AdvisoryHeld /\ FinalStatus

\* A session that only loads its source holds nothing.
LEMMA BeginKeeps ==
  ASSUME IInv, NEW w \in Session, NEW s \in Source, NEW mem \in Row,
         NEW pc \in {"loaded", "writeback"}, NEW revived \in BOOLEAN,
         Begin(w, s, mem, pc, revived)
  PROVE  IInv'
<1> DEFINE rec == [Blank EXCEPT !.pc = pc, !.source = s, !.mem = mem,
                     !.draft = src[s], !.revived = revived]
<1>1. rec \in Txn /\ rec.pc = pc
  BY BlankType DEF IInv, TypeOK, Txn, Phase
<1>2. txn' = [txn EXCEPT ![w] = rec]
  BY DEF Begin
<1>3. txn[w].pc = "idle"
  BY DEF Begin
<1>4. UNCHANGED <<src, age, log, stored, page, advLock, rowLock>>
  BY DEF Begin
<1> HIDE DEF rec
<1>5. TypeOK'
  BY <1>1, <1>2, <1>4 DEF IInv, TypeOK
<1>6. Locks'
  BY <1>1, <1>2, <1>3, <1>4
     DEF IInv, TypeOK, Locks, RowLockMeansLive, AdvisoryHeld, FinalStatus,
         LiveOn, Session, Scrapers
<1>7. NoOpenRun'
  BY <1>4 DEF IInv, NoOpenRun
<1>8. QED
  BY <1>5, <1>6, <1>7 DEF IInv, Locks

\* A session that ends leaves the locks consistent.
LEMMA EndKeeps ==
  ASSUME IInv, NEW w \in Session, End(w)
  PROVE  /\ Locks'
         /\ txn' \in [Session -> Txn]
         /\ advLock' \in [Source -> Dispatchers \cup {NoOne}]
         /\ rowLock' \in [Source -> Scrapers \cup {NoOne}]
<1> USE ConstantsAssumption
<1>1. txn' \in [Session -> Txn]
  BY BlankType DEF IInv, TypeOK, End
<1>2. /\ advLock' \in [Source -> Dispatchers \cup {NoOne}]
      /\ rowLock' \in [Source -> Scrapers \cup {NoOne}]
  BY DEF IInv, TypeOK, End, Released
<1>3. \A v \in Session : txn'[v] = IF v = w THEN Blank ELSE txn[v]
  BY DEF IInv, TypeOK, End
<1>4. RowLockMeansLive'
  BY <1>3, BlankType
     DEF IInv, TypeOK, End, Released, RowLockMeansLive, LiveOn, Session, Scrapers
<1>5. AdvisoryHeld'
  BY <1>3, BlankType
     DEF IInv, TypeOK, End, Released, AdvisoryHeld, Session, Scrapers, Txn
<1>6. FinalStatus'
  BY <1>3, BlankType DEF IInv, FinalStatus
<1>7. QED
  BY <1>1, <1>2, <1>4, <1>5, <1>6 DEF Locks

\* A rollback.
LEMMA RollbackKeeps ==
  ASSUME IInv, NEW w \in Session, End(w),
         UNCHANGED <<src, age, log, stored, page>>
  PROVE  IInv'
BY EndKeeps DEF IInv, TypeOK, Locks, NoOpenRun

\* The last flush of a run.
LEMMA FinishKeeps ==
  ASSUME IInv, NEW w \in Scrapers, txn[w].pc \in {"scraping", "persisting"},
         NEW mem \in Row, NEW status \in Final,
         NEW found \in BOOLEAN, NEW full \in BOOLEAN,
         Finish(w, mem, status, found, full)
  PROVE  IInv'
<1> DEFINE rec == [txn[w] EXCEPT !.pc = "finished", !.mem = mem,
                     !.draft = Flushed(txn[w].draft, txn[w].mem, mem),
                     !.status = status, !.found = found, !.full = full]
<1>1. w \in Session /\ txn[w] \in Txn
  BY DEF IInv, TypeOK, Session
<1>2. txn[w].draft \in Row /\ txn[w].mem \in Row
  BY <1>1 DEF Txn
<1>3. Flushed(txn[w].draft, txn[w].mem, mem) \in Row
  BY <1>2, FlushedType
<1>4. /\ rec \in Txn /\ rec.pc = "finished"
      /\ rec.source = txn[w].source /\ rec.status = status
  BY <1>1, <1>3 DEF Txn, Phase, Status, Final
<1>5. txn' = [txn EXCEPT ![w] = rec]
  BY Zenon DEF Finish
<1>6. UNCHANGED <<src, age, log, stored, page, advLock, rowLock>>
  BY DEF Finish
<1> HIDE DEF rec
<1>7. \A v \in Session : txn'[v] = IF v = w THEN rec ELSE txn[v]
  BY <1>1, <1>5 DEF IInv, TypeOK
<1>8. TypeOK'
  BY <1>1, <1>4, <1>5, <1>6 DEF IInv, TypeOK
<1>9. Locks'
  BY <1>1, <1>4, <1>6, <1>7
     DEF IInv, Locks, RowLockMeansLive, AdvisoryHeld, FinalStatus, LiveOn,
         Session, Scrapers
<1>10. NoOpenRun'
  BY <1>6 DEF IInv, NoOpenRun
<1>11. QED
  BY <1>8, <1>9, <1>10 DEF IInv, Locks

\* A session keeps its source and its locks fit its new phase.
LEMMA MoveKeeps ==
  ASSUME IInv, NEW w \in Scrapers, NEW rec \in Txn,
         rec.source = txn[w].source, rec.pc # "finished",
         txn' = [txn EXCEPT ![w] = rec],
         UNCHANGED <<src, age, log, stored, page>>,
         advLock' \in [Source -> Dispatchers \cup {NoOne}],
         rowLock' \in [Source -> Scrapers \cup {NoOne}],
         RowLockMeansLive', AdvisoryHeld'
  PROVE  IInv'
<1>1. w \in Session
  BY DEF Session
<1>2. TypeOK'
  BY <1>1 DEF IInv, TypeOK
<1>3. FinalStatus' /\ NoOpenRun'
  BY <1>1 DEF IInv, TypeOK, FinalStatus, NoOpenRun
<1>4. QED
  BY <1>2, <1>3 DEF IInv

\* Taking the advisory lock keeps the invariant: it was free.
LEMMA TryLockKeeps ==
  ASSUME IInv, NEW w \in Dispatchers, TryLock(w)
  PROVE  IInv'
<1> USE ConstantsAssumption
<1> DEFINE s == txn[w].source
           rec == [txn[w] EXCEPT !.pc = "locked"]
<1>1. w \in Scrapers /\ w \in Session /\ txn[w] \in Txn /\ s \in Source
  BY DEF IInv, TypeOK, Session, Scrapers, Txn
<1>2. rec \in Txn /\ rec.pc = "locked" /\ rec.source = s
  BY <1>1 DEF Txn, Phase
<1>3. txn' = [txn EXCEPT ![w] = rec]
  BY Zenon DEF TryLock
<1>4. /\ txn[w].pc = "loaded" /\ advLock[s] = NoOne
      /\ advLock' = [advLock EXCEPT ![s] = w]
      /\ UNCHANGED <<src, age, log, stored, page, rowLock>>
  BY DEF TryLock, Admitted
<1> HIDE DEF rec
<1>5. \A v \in Session : txn'[v] = IF v = w THEN rec ELSE txn[v]
  BY <1>1, <1>3 DEF IInv, TypeOK
<1>6. RowLockMeansLive'
  BY <1>1, <1>2, <1>4, <1>5 DEF IInv, RowLockMeansLive, LiveOn, Session
<1>7. AdvisoryHeld'
  BY <1>1, <1>2, <1>4, <1>5
     DEF IInv, TypeOK, AdvisoryHeld, Session, Scrapers, Txn
<1>8. /\ advLock' \in [Source -> Dispatchers \cup {NoOne}]
      /\ rowLock' \in [Source -> Scrapers \cup {NoOne}]
  BY <1>1, <1>4 DEF IInv, TypeOK
<1>9. rec.pc # "finished"
  BY <1>2
<1>10. UNCHANGED <<src, age, log, stored, page>>
  BY <1>4
<1> HIDE DEF s
<1>11. rec.source = txn[w].source
  BY <1>2 DEF s
<1>12. QED
  BY <1>1, <1>2, <1>3, <1>6, <1>7, <1>8, <1>9, <1>10, <1>11, MoveKeeps

\* run-all skipping a source keeps the invariant: the session holds nothing.
LEMMA RunAllSkipKeeps ==
  ASSUME IInv, NEW w \in RunAllThreads, RunAllSkip(w)
  PROVE  IInv'
<1> USE ConstantsAssumption
<1>1. /\ w \in Scrapers /\ w \in Session /\ w \in Dispatchers /\ txn[w] \in Txn
      /\ txn[w].pc = "loaded"
  BY DEF IInv, TypeOK, Session, Scrapers, Dispatchers, RunAllSkip
<1>2. UNCHANGED <<src, age, log, stored, page, advLock, rowLock>>
  BY DEF RunAllSkip
<1>3. PICK rec \in Txn : /\ rec.pc \in {"idle", "writeback"}
                         /\ txn' = [txn EXCEPT ![w] = rec]
  <2>1. CASE txn[w].revived
    <3>1. [txn[w] EXCEPT !.pc = "writeback"] \in Txn
      BY <1>1 DEF Txn, Phase
    <3>2. txn' = [txn EXCEPT ![w] = [txn[w] EXCEPT !.pc = "writeback"]]
      BY <2>1, Zenon DEF RunAllSkip
    <3>3. [txn[w] EXCEPT !.pc = "writeback"].pc = "writeback"
      BY <1>1 DEF Txn
    <3>4. QED
      BY <3>1, <3>2, <3>3
  <2>2. CASE ~txn[w].revived
    <3>1. txn' = [txn EXCEPT ![w] = Blank]
      BY <2>2, Zenon DEF RunAllSkip
    <3>2. QED
      BY <3>1, BlankType
  <2>3. QED
    BY <2>1, <2>2
<1>4. \A v \in Session : txn'[v] = IF v = w THEN rec ELSE txn[v]
  BY <1>1, <1>3 DEF IInv, TypeOK
<1>5. TypeOK'
  BY <1>1, <1>2, <1>3 DEF IInv, TypeOK
<1>6. Locks'
  BY <1>1, <1>2, <1>3, <1>4
     DEF IInv, Locks, RowLockMeansLive, AdvisoryHeld, FinalStatus, LiveOn,
         Session, Scrapers
<1>7. NoOpenRun'
  BY <1>2 DEF IInv, NoOpenRun
<1>8. QED
  BY <1>5, <1>6, <1>7 DEF IInv, Locks

\* The first flush of a run takes a free row lock and nothing else.
LEMMA SetupRunKeeps ==
  ASSUME IInv, NEW w \in Scrapers, SetupRun(w)
  PROVE  IInv'
<1> USE ConstantsAssumption
<1> DEFINE s == txn[w].source
           rec == [txn[w] EXCEPT !.pc = "scraping", !.age = 0,
                     !.draft = Flushed(src[s], txn[w].draft, txn[w].mem)]
<1>1. /\ w \in Session /\ txn[w] \in Txn /\ s \in Source /\ src[s] \in Row
      /\ txn[w].draft \in Row /\ txn[w].mem \in Row
  BY DEF IInv, TypeOK, Session, Txn
<1>2. Flushed(src[s], txn[w].draft, txn[w].mem) \in Row
  BY <1>1, FlushedType
<1>3. rec \in Txn /\ rec.pc = "scraping" /\ rec.source = s
  BY <1>1, <1>2 DEF Txn, Phase
<1>4. txn' = [txn EXCEPT ![w] = rec]
  BY Zenon DEF SetupRun
<1>5. /\ txn[w].pc = (IF w \in Requests THEN "loaded" ELSE "locked")
      /\ rowLock[s] = NoOne
      /\ rowLock' = [rowLock EXCEPT ![s] = w]
      /\ UNCHANGED <<src, age, log, stored, page, advLock>>
  BY DEF SetupRun
<1> HIDE DEF rec
<1>6. \A v \in Session : txn'[v] = IF v = w THEN rec ELSE txn[v]
  BY <1>1, <1>4 DEF IInv, TypeOK
<1>7. RowLockMeansLive'
  BY <1>1, <1>3, <1>5, <1>6
     DEF IInv, TypeOK, RowLockMeansLive, LiveOn, Session, Scrapers
<1>8. AdvisoryHeld'
  BY <1>1, <1>3, <1>5, <1>6 DEF IInv, AdvisoryHeld, Session, Scrapers
<1>9. /\ advLock' \in [Source -> Dispatchers \cup {NoOne}]
      /\ rowLock' \in [Source -> Scrapers \cup {NoOne}]
  BY <1>1, <1>5 DEF IInv, TypeOK
<1>10. rec.pc # "finished" /\ UNCHANGED <<src, age, log, stored, page>>
  BY <1>3, <1>5
<1> HIDE DEF s
<1>11. rec.source = txn[w].source
  BY <1>3 DEF s
<1>12. QED
  BY <1>3, <1>4, <1>7, <1>8, <1>9, <1>10, <1>11, MoveKeeps

\* The flush before the persist loop keeps the locks as they are.
LEMMA ScrapeFoundKeeps ==
  ASSUME IInv, NEW w \in Scrapers, ScrapeFound(w)
  PROVE  IInv'
<1> USE ConstantsAssumption
<1> DEFINE mem == [txn[w].mem EXCEPT !.dom = page[txn[w].source]]
           rec == [txn[w] EXCEPT !.pc = "persisting", !.mem = mem,
                     !.draft = Flushed(txn[w].draft, txn[w].mem, mem)]
<1>1. /\ w \in Session /\ txn[w] \in Txn /\ page[txn[w].source] \in Page
      /\ txn[w].draft \in Row /\ txn[w].mem \in Row
  BY DEF IInv, TypeOK, Session, Txn
<1>2. mem \in Row
  BY <1>1 DEF Row
<1>3. Flushed(txn[w].draft, txn[w].mem, mem) \in Row
  BY <1>1, <1>2, FlushedType
<1>4. rec \in Txn /\ rec.pc = "persisting" /\ rec.source = txn[w].source
  BY <1>1, <1>2, <1>3 DEF Txn, Phase
<1>5. txn' = [txn EXCEPT ![w] = rec]
  BY Zenon DEF ScrapeFound
<1>6. /\ txn[w].pc = "scraping"
      /\ UNCHANGED <<src, age, log, stored, page, advLock, rowLock>>
  BY DEF ScrapeFound
<1> HIDE DEF rec
<1>7. \A v \in Session : txn'[v] = IF v = w THEN rec ELSE txn[v]
  BY <1>1, <1>5 DEF IInv, TypeOK
<1>8. RowLockMeansLive' /\ AdvisoryHeld'
  BY <1>1, <1>4, <1>6, <1>7
     DEF IInv, RowLockMeansLive, AdvisoryHeld, LiveOn, Session, Scrapers
<1>9. /\ advLock' \in [Source -> Dispatchers \cup {NoOne}]
      /\ rowLock' \in [Source -> Scrapers \cup {NoOne}]
  BY <1>6 DEF IInv, TypeOK
<1>10. rec.pc # "finished" /\ UNCHANGED <<src, age, log, stored, page>>
  BY <1>4, <1>6
<1>11. QED
  BY <1>4, <1>5, <1>8, <1>9, <1>10, MoveKeeps

\* An aborted transaction loses both locks and can no longer commit.
LEMMA PoisonKeeps ==
  ASSUME IInv, NEW w \in Scrapers, Poison(w)
  PROVE  IInv'
<1> USE ConstantsAssumption
<1> DEFINE rec == [txn[w] EXCEPT !.pc = "poisoned"]
<1>1. w \in Session /\ txn[w] \in Txn
  BY DEF IInv, TypeOK, Session
<1>2. rec \in Txn /\ rec.pc = "poisoned" /\ rec.source = txn[w].source
  BY <1>1 DEF Txn, Phase
<1>3. txn' = [txn EXCEPT ![w] = rec]
  BY Zenon DEF Poison
<1>4. /\ advLock' = Released(advLock, w) /\ rowLock' = Released(rowLock, w)
      /\ UNCHANGED <<src, age, log, stored, page>>
  BY DEF Poison
<1> HIDE DEF rec
<1>5. \A v \in Session : txn'[v] = IF v = w THEN rec ELSE txn[v]
  BY <1>1, <1>3 DEF IInv, TypeOK
<1>6. RowLockMeansLive'
  BY <1>1, <1>2, <1>4, <1>5
     DEF IInv, TypeOK, RowLockMeansLive, LiveOn, Released, Session, Scrapers
<1>7. AdvisoryHeld'
  BY <1>1, <1>2, <1>4, <1>5
     DEF IInv, TypeOK, AdvisoryHeld, Released, Session, Scrapers, Txn
<1>8. /\ advLock' \in [Source -> Dispatchers \cup {NoOne}]
      /\ rowLock' \in [Source -> Scrapers \cup {NoOne}]
  BY <1>4 DEF IInv, TypeOK, Released
<1>9. rec.pc # "finished"
  BY <1>2
<1>10. QED
  BY <1>2, <1>3, <1>4, <1>6, <1>7, <1>8, <1>9, MoveKeeps

\* A committed re-activation opens no run and touches nobody's lock.
LEMMA CommitRevivalKeeps ==
  ASSUME IInv, NEW w \in Session, CommitRevival(w)
  PROVE  IInv'
<1> DEFINE s == txn[w].source
<1>1. /\ txn[w] \in Txn /\ s \in Source /\ src[s] \in Row
      /\ txn[w].draft \in Row /\ txn[w].mem \in Row
  BY DEF IInv, TypeOK, Txn
<1>2. Flushed(src[s], txn[w].draft, txn[w].mem) \in Row
  BY <1>1, FlushedType
<1>3. End(w) /\ UNCHANGED <<age, stored, page>>
  BY DEF CommitRevival
<1>4. src' = [src EXCEPT ![s] = Flushed(src[s], txn[w].draft, txn[w].mem)]
  BY Zenon DEF CommitRevival
<1>5. src' \in [Source -> Row]
  BY <1>1, <1>2, <1>4 DEF IInv, TypeOK
<1>6. /\ log' \in [Source -> RunLog]
      /\ NoOpenRun'
  <2> DEFINE stale == IF w \in Schedulers THEN {r \in Source : log[r].open} ELSE {}
             closed == [r \in Source |->
                  [last |-> IF r \in stale /\ log[r].last = "running"
                              THEN "failed" ELSE log[r].last,
                   open |-> log[r].open /\ r \notin stale,
                   dry  |-> log[r].dry]]
  <2>1. log' = [closed EXCEPT ![s].dry = 0]
    BY Zenon DEF CommitRevival
  <2>2. \A r \in Source : log[r] \in RunLog /\ ~log[r].open /\ log[r].last # "running"
    BY DEF IInv, TypeOK, NoOpenRun
  <2>3. closed \in [Source -> RunLog]
    BY <2>2 DEF RunLog, Status
  <2>4. \A r \in Source : ~closed[r].open /\ closed[r].last # "running"
    BY <2>2
  <2> HIDE DEF closed, stale
  <2>5. QED
    BY <1>1, <2>1, <2>3, <2>4 DEF RunLog, NoOpenRun
<1>7. TypeOK'
  BY <1>3, <1>5, <1>6, EndKeeps DEF IInv, TypeOK
<1>8. QED
  BY <1>3, <1>6, <1>7, EndKeeps DEF IInv, Locks

\* The hard budget of run-all leaves no lock and no open run behind.
LEMMA HardBudgetKeeps ==
  ASSUME IInv, NEW w \in Scrapers, HardBudget(w)
  PROVE  IInv'
<1> DEFINE s == txn[w].source
<1>1. w \in Session /\ s \in Source
  BY DEF IInv, TypeOK, Session, Txn
<1>2. End(w) /\ UNCHANGED <<src, age, stored, page>>
  BY DEF HardBudget
<1>3. log' \in [Source -> RunLog] /\ NoOpenRun'
  <2> DEFINE rec == [log[s] EXCEPT !.open = FALSE,
                       !.last = IF @ = "running" THEN "failed" ELSE @]
  <2>1. log' = [log EXCEPT ![s] = rec]
    BY <1>1, Zenon DEF HardBudget
  <2>2. log[s] \in RunLog
    BY <1>1 DEF IInv, TypeOK
  <2>3. rec \in RunLog /\ ~rec.open /\ rec.last # "running"
    BY <2>2 DEF RunLog, Status
  <2> HIDE DEF rec
  <2>4. QED
    BY <1>1, <2>1, <2>3 DEF IInv, TypeOK, NoOpenRun
<1>4. TypeOK'
  BY <1>1, <1>2, <1>3, EndKeeps DEF IInv, TypeOK
<1>5. QED
  BY <1>1, <1>2, <1>3, <1>4, EndKeeps DEF IInv, Locks

\* A committed run is closed, with a final status, and its locks are free.
LEMMA CommitRunKeeps ==
  ASSUME IInv, NEW w \in Scrapers, CommitRun(w)
  PROVE  IInv'
<1> USE ConstantsAssumption
<1> DEFINE s == txn[w].source
<1>1. /\ w \in Session /\ txn[w] \in Txn /\ s \in Source
      /\ txn[w].draft \in Row /\ txn[w].mem \in Row
      /\ txn[w].age \in Nat /\ log[s].dry \in Nat /\ log[s] \in RunLog
      /\ txn[w].revived \in BOOLEAN /\ txn[w].found \in BOOLEAN
  BY DEF IInv, TypeOK, Session, Txn, RunLog
<1>2. /\ txn[w].pc = "finished" /\ End(w) /\ page' = page
      /\ src' = [src EXCEPT ![s] = txn[w].draft]
      /\ age' = [age EXCEPT ![s] = txn[w].age]
      /\ log' = [log EXCEPT ![s] = [last |-> txn[w].status, open |-> log[s].open,
                   dry |-> DryAfter(log[s].dry, txn[w].revived, txn[w].found)]]
  BY DEF CommitRun
<1>3. stored' = [stored EXCEPT ![s] = IF txn[w].full
                   THEN stored[s] \cup {txn[w].mem.dom} ELSE stored[s]]
  BY Zenon DEF CommitRun
<1>4. txn[w].status \in Final
  BY <1>1, <1>2 DEF IInv, FinalStatus
<1>5. log' \in [Source -> RunLog] /\ NoOpenRun'
  BY <1>1, <1>2, <1>4, DryType
     DEF IInv, TypeOK, NoOpenRun, RunLog, Status, Final
<1>6. src' \in [Source -> Row] /\ age' \in [Source -> Nat \cup {Never}]
  BY <1>1, <1>2 DEF IInv, TypeOK
<1>7. stored' \in [Source -> SUBSET (Page \cup {NoHash})]
  BY <1>1, <1>3 DEF IInv, TypeOK, Row
<1>8. TypeOK'
  BY <1>1, <1>2, <1>5, <1>6, <1>7, EndKeeps DEF IInv, TypeOK
<1>9. QED
  BY <1>1, <1>2, <1>5, <1>8, EndKeeps DEF IInv, Locks

\* Time only ages the sessions: every phase, source and status stays.
LEMMA TickKeeps ==
  ASSUME IInv, Tick
  PROVE  IInv'
<1> USE ConstantsAssumption
<1>1. UNCHANGED <<src, log, stored, page, advLock, rowLock>>
  BY DEF Tick
<1>2. \A n \in Nat : Older(n) \in Nat
  BY DEF Older
<1>3. age' \in [Source -> Nat \cup {Never}]
  BY <1>2 DEF IInv, TypeOK, Tick
<1>4. \A w \in Session : /\ txn'[w] \in Txn
                         /\ txn'[w].pc = txn[w].pc
                         /\ txn'[w].source = txn[w].source
                         /\ txn'[w].status = txn[w].status
  <2> SUFFICES ASSUME NEW w \in Session
               PROVE  /\ txn'[w] \in Txn
                      /\ txn'[w].pc = txn[w].pc
                      /\ txn'[w].source = txn[w].source
                      /\ txn'[w].status = txn[w].status
    OBVIOUS
  <2>1. txn[w] \in Txn /\ Older(txn[w].age) \in Nat
    BY <1>2 DEF IInv, TypeOK, Txn
  <2>2. \/ txn'[w] = txn[w]
        \/ txn'[w] = [txn[w] EXCEPT !.age = Older(txn[w].age)]
    BY Zenon DEF Tick
  <2> HIDE DEF Older
  <2>3. QED
    BY <2>1, <2>2 DEF Txn
<1>5. txn' \in [Session -> Txn]
  <2>1. txn' = [w \in Session |->
               IF txn[w].pc \in {"scraping", "persisting", "finished"}
                 THEN [txn[w] EXCEPT !.age = Older(@)] ELSE txn[w]]
    BY Zenon DEF Tick
  <2>2. DOMAIN txn' = Session /\ txn' = [w \in Session |-> txn'[w]]
    BY <2>1, Zenon
  <2>3. QED
    BY <2>2, <1>4, Zenon
<1>6. TypeOK'
  BY <1>1, <1>3, <1>5 DEF IInv, TypeOK
<1>7. Locks'
  BY <1>1, <1>4 DEF IInv, Locks, RowLockMeansLive, AdvisoryHeld, FinalStatus, LiveOn,
     Session, Scrapers
<1>8. NoOpenRun'
  BY <1>1 DEF IInv, NoOpenRun
<1>9. QED
  BY <1>6, <1>7, <1>8 DEF IInv, Locks

\* A change of the site touches no session.
LEMMA SiteChangesKeeps ==
  ASSUME IInv, NEW s \in Source, SiteChanges(s)
  PROVE  IInv'
<1>1. page' \in [Source -> Page]
  BY DEF SiteChanges, IInv, TypeOK
<1>2. UNCHANGED <<src, age, log, stored, advLock, rowLock, txn>>
  BY DEF SiteChanges
<1>3. QED
  BY <1>1, <1>2
     DEF IInv, TypeOK, RowLockMeansLive, LiveOn, AdvisoryHeld, FinalStatus, NoOpenRun

\* The five ends of a scrape keep the invariant.
LEMMA OutcomeKeeps ==
  ASSUME IInv, NEW w \in Scrapers,
         \/ ScrapeUnchanged(w) \/ ScrapeEmpty(w) \/ PersistDone(w) \/ RunError(w)
  PROVE  IInv'
<1>1. /\ txn[w] \in Txn /\ txn[w].mem \in Row
      /\ page[txn[w].source] \in Page
  BY DEF IInv, TypeOK, Session, Txn
<1>2. [txn[w].mem EXCEPT !.dom = page[txn[w].source]] \in Row
  BY <1>1 DEF Row
<1>3. /\ Counted(txn[w].mem, FALSE) \in Row
      /\ Counted(txn[w].mem, TRUE) \in Row
      /\ Counted([txn[w].mem EXCEPT !.dom = page[txn[w].source]], FALSE) \in Row
  BY <1>1, <1>2, CountedType
<1>4. CASE ScrapeUnchanged(w)
  <2>1. txn[w].pc \in {"scraping", "persisting"}
        /\ Finish(w, Counted(txn[w].mem, FALSE), "success", FALSE, FALSE)
    BY <1>4, Zenon DEF ScrapeUnchanged
  <2>2. "success" \in Final
    BY DEF Final
  <2>3. QED
    BY <1>3, <2>1, <2>2, FinishKeeps
<1>5. CASE ScrapeEmpty(w)
  <2>1. txn[w].pc \in {"scraping", "persisting"}
        /\ Finish(w, Counted([txn[w].mem EXCEPT !.dom = page[txn[w].source]], FALSE),
                  "degraded", FALSE, TRUE)
    BY <1>5, Zenon DEF ScrapeEmpty
  <2>2. "degraded" \in Final
    BY DEF Final
  <2>3. QED
    BY <1>3, <2>1, <2>2, FinishKeeps
<1>6. CASE PersistDone(w)
  <2>1. txn[w].pc \in {"scraping", "persisting"}
    BY <1>6 DEF PersistDone
  <2>2. PICK full \in BOOLEAN : Finish(w, Counted(txn[w].mem, TRUE), "success", TRUE, full)
    BY <1>6, Zenon DEF PersistDone
  <2>3. "success" \in Final
    BY DEF Final
  <2>4. QED
    BY <1>3, <2>1, <2>2, <2>3, FinishKeeps
<1>7. CASE RunError(w)
  <2>1. txn[w].pc \in {"scraping", "persisting"}
    BY <1>7 DEF RunError
  <2>2. PICK status \in {"failed", "degraded"} :
          Finish(w, Counted(txn[w].mem, FALSE), status, FALSE, FALSE)
    BY <1>7, Zenon DEF RunError
  <2>3. status \in Final
    BY DEF Final
  <2>4. QED
    BY <1>3, <2>1, <2>2, <2>3, FinishKeeps
<1>8. QED
  BY <1>4, <1>5, <1>6, <1>7

\* Every way to load a source keeps the invariant.
LEMMA LoadKeeps ==
  ASSUME IInv, NEW w \in Session, NEW s \in Source,
         \/ Dispatch(w, s) \/ RequestRun(w, s) \/ ReadCooled(w, s)
  PROVE  IInv'
<1>1. src[s] \in Row /\ src[s].paused \in BOOLEAN
  BY DEF IInv, TypeOK, Row
<1>2. Revived(src[s]) \in Row
  BY <1>1, RevivedType
<1>3. CASE Dispatch(w, s)
  <2> DEFINE mem == IF src[s].paused THEN Revived(src[s]) ELSE src[s]
  <2>1. mem \in Row
    BY <1>1, <1>2
  <2>2. Begin(w, s, mem, "loaded", src[s].paused)
    BY <1>3, Zenon DEF Dispatch
  <2> HIDE DEF mem
  <2>3. QED
    BY <1>1, <2>1, <2>2, BeginKeeps
<1>4. CASE RequestRun(w, s)
  <2>1. Begin(w, s, src[s], "loaded", FALSE)
    BY <1>4, Zenon DEF RequestRun
  <2>2. QED
    BY <1>1, <2>1, BeginKeeps
<1>5. CASE ReadCooled(w, s)
  <2>1. Begin(w, s, Revived(src[s]), "writeback", TRUE)
    BY <1>5, Zenon DEF ReadCooled
  <2>2. QED
    BY <1>2, <2>1, BeginKeeps
<1>6. QED
  BY <1>3, <1>4, <1>5

\* Every rollback keeps the invariant.
LEMMA DropKeeps ==
  ASSUME IInv, NEW w \in Session,
         \/ SweepSkip(w) \/ LockTimeout(w) \/ PoisonRaises(w) \/ Abort(w)
  PROVE  IInv'
<1>1. End(w) /\ UNCHANGED <<src, age, log, stored, page>>
  BY DEF SweepSkip, LockTimeout, PoisonRaises, Abort
<1>2. QED
  BY <1>1, RollbackKeeps

-----------------------------------------------------------------------------
(* The theorems. *)

\* Every step keeps the inductive invariant.
LEMMA NextIInv == IInv /\ [Next]_vars => IInv'
<1> SUFFICES ASSUME IInv, [Next]_vars PROVE IInv'
  OBVIOUS
<1> USE DEF Session, Scrapers, Dispatchers
<1>1. ASSUME NEW w \in Scrapers, Progress(w) \/ Poison(w)
      PROVE  IInv'
  BY <1>1, SetupRunKeeps, DropKeeps, OutcomeKeeps, ScrapeFoundKeeps, CommitRunKeeps,
     PoisonKeeps DEF Progress
<1>2. ASSUME NEW w \in Dispatchers, LockDecision(w)
      PROVE  IInv'
  BY <1>2, TryLockKeeps, DropKeeps, RunAllSkipKeeps, CommitRevivalKeeps DEF LockDecision
<1>3. ASSUME NEW w \in Session, NEW s \in Source,
             Dispatch(w, s) \/ RequestRun(w, s) \/ ReadCooled(w, s)
      PROVE  IInv'
  BY <1>3, LoadKeeps
<1>4. ASSUME NEW w \in RunAllThreads, HardBudget(w)
      PROVE  IInv'
  BY <1>4, HardBudgetKeeps
<1>5. ASSUME NEW w \in Schedulers, Revive(w) \/ CommitRevival(w)
      PROVE  IInv'
  BY <1>3, <1>5, DropKeeps, CommitRevivalKeeps DEF Revive
<1>6. ASSUME NEW w \in Session, Abort(w)
      PROVE  IInv'
  BY <1>6, DropKeeps
<1>7. CASE Tick
  BY <1>7, TickKeeps
<1>8. ASSUME NEW s \in Source, SiteChanges(s)
      PROVE  IInv'
  BY <1>8, SiteChangesKeeps
<1>9. CASE UNCHANGED vars
  BY <1>9 DEF vars, IInv, TypeOK, RowLockMeansLive, LiveOn, AdvisoryHeld,
     FinalStatus, NoOpenRun
<1>10. QED
  BY <1>1, <1>2, <1>3, <1>4, <1>5, <1>6, <1>7, <1>8, <1>9, Zenon DEF Next

\* The inductive invariant holds in every reachable state.
LEMMA Invariance == Spec => []IInv
<1>1. QED
  BY InitIInv, NextIInv, PTL DEF Spec

\* Sessions, locks and tables are well typed, whatever the interleaving of
\* sweeps, run-all threads and requests.
THEOREM TypeCorrect == Spec => []TypeOK
<1>1. IInv => TypeOK
  BY DEF IInv
<1>2. QED
  BY <1>1, Invariance, PTL

\* No committed source_runs row is ever 'running': run_source_inline writes the
\* row and its outcome in one transaction.
THEOREM NoOpenRunIsSafe == Spec => []NoOpenRun
<1>1. IInv => NoOpenRun
  BY DEF IInv
<1>2. QED
  BY <1>1, Invariance, PTL

\* The row lock that _setup_run takes leaves at most one live run per source,
\* for any number of sweeps, run-all threads and requests.
THEOREM AtMostOneLiveRun == Spec => []OneLiveRun
<1>1. IInv => OneLiveRun
  BY DEF IInv, RowLockMeansLive, OneLiveRun
<1>2. QED
  BY <1>1, Invariance, PTL

\* Because the advisory lock is tried first, no sweep slot ever waits for a
\* row that another slot of the same event loop holds.
THEOREM NoSlotBlocks == Spec => []SlotsNeverBlockEachOther
<1>1. ASSUME IInv PROVE SlotsNeverBlockEachOther
  <2> SUFFICES ASSUME NEW w \in Sweepers, txn[w].pc = "locked",
                      NEW v \in Sweepers, rowLock[txn[w].source] = v
               PROVE  FALSE
    BY DEF SlotsNeverBlockEachOther
  <2> DEFINE s == txn[w].source
  <2>1. w \in Dispatchers /\ v \in Dispatchers /\ v \in Scrapers
    BY DEF Dispatchers, Scrapers
  <2>2. s \in Source
    BY <1>1, <2>1 DEF IInv, TypeOK, Session, Scrapers, Txn
  <2>3. LiveOn(v, s)
    BY <1>1, <2>1, <2>2 DEF IInv, RowLockMeansLive
  <2>4. advLock[s] = v /\ advLock[s] = w
    BY <1>1, <2>1, <2>3 DEF IInv, AdvisoryHeld, LiveOn
  <2>5. QED
    BY <2>3, <2>4 DEF LiveOn
<1>2. QED
  BY <1>1, Invariance, PTL

\* A run that is live owns the row of its source: the only step that changes the
\* committed row then is the run's own commit.
THEOREM RunOwnsItsRow == Spec => RowOwnedDuringRun
<1>1. ASSUME IInv, [Next]_vars PROVE RowOwned
  <2> USE ConstantsAssumption
  <2>1. \/ UNCHANGED src
        \/ \E w \in Session : CommitRevival(w)
        \/ \E w \in Scrapers : CommitRun(w)
    BY <1>1, Zenon DEF Next, vars, Progress, LockDecision, Revive, Begin, Finish, Dispatch,
       RequestRun, ReadCooled, TryLock, SweepSkip, RunAllSkip, SetupRun, LockTimeout,
       ScrapeUnchanged, ScrapeEmpty, ScrapeFound, PersistDone, RunError, Poison,
       PoisonRaises, Abort, HardBudget, Tick, SiteChanges, Session, Scrapers, Dispatchers
  <2>2. ASSUME NEW w \in Session, CommitRevival(w) PROVE RowOwned
    <3>1. /\ rowLock[txn[w].source] = NoOne
          /\ src' = [src EXCEPT ![txn[w].source] =
                       Flushed(src[txn[w].source], txn[w].draft, txn[w].mem)]
      BY <2>2, Zenon DEF CommitRevival
    <3>2. QED
      BY <1>1, <3>1 DEF IInv, TypeOK, RowOwned
  <2>3. ASSUME NEW w \in Scrapers, CommitRun(w) PROVE RowOwned
    <3>1. /\ txn[w].pc = "finished"
          /\ src' = [src EXCEPT ![txn[w].source] = txn[w].draft]
          /\ rowLock' = Released(rowLock, w)
      BY <2>3 DEF CommitRun, End
    <3>2. txn[w].source \in Source
      BY <1>1 DEF IInv, TypeOK, Session, Txn
    <3>3. rowLock[txn[w].source] = w
      BY <1>1, <3>1, <3>2 DEF IInv, RowLockMeansLive, LiveOn
    <3>4. QED
      BY <1>1, <3>1, <3>2, <3>3 DEF IInv, TypeOK, RowOwned, Released
  <2>4. CASE UNCHANGED src
    BY <2>4 DEF RowOwned
  <2>5. QED
    BY <2>1, <2>2, <2>3, <2>4
<1>2. IInv /\ [Next]_vars => [RowOwned]_vars
  BY <1>1
<1>3. QED
  BY <1>2, Invariance, PTL DEF Spec, RowOwnedDuringRun

-----------------------------------------------------------------------------
(* ScrapeRuns implements RunLease. *)

lastRun == [s \in Source |-> log[s].last]

\* A step that touches neither the row locks nor the recorded outcomes.
LeaseStutters == UNCHANGED <<rowLock, lastRun>>

\* A step after which session w holds no row lock, and that records nothing.
LeaseDropped(w) == rowLock' = Released(rowLock, w) /\ UNCHANGED lastRun

\* A session holds the row lock of its own source only.
LEMMA LocksOwnSource ==
  ASSUME IInv, NEW w \in Session, NEW s \in Source, rowLock[s] = w
  PROVE  s = txn[w].source /\ w \in Scrapers
BY ConstantsAssumption DEF IInv, TypeOK, RowLockMeansLive, LiveOn

\* Losing the row locks of a session drops its run, if it had one.
LEMMA DroppedIsLeaseStep ==
  ASSUME IInv, NEW w \in Session, LeaseDropped(w)
  PROVE  [Lease!Next]_(Lease!vars)
<1> USE ConstantsAssumption
<1> DEFINE s == txn[w].source
<1>1. s \in Source /\ rowLock \in [Source -> Scrapers \cup {NoOne}]
  BY DEF IInv, TypeOK, Txn
<1>2. CASE rowLock[s] = w
  <2>1. rowLock' = [rowLock EXCEPT ![s] = NoOne]
    BY <1>1, <1>2, LocksOwnSource DEF LeaseDropped, Released
  <2>2. rowLock[s] # NoOne
    BY <1>2
  <2>3. UNCHANGED lastRun
    BY DEF LeaseDropped
  <2>4. Lease!Drop(s)
    BY <2>1, <2>2, <2>3 DEF Lease!Drop, lastRun
  <2>5. QED
    BY <1>1, <2>4 DEF Lease!Next, Lease!Finish
<1>3. CASE rowLock[s] # w
  <2>1. rowLock' = rowLock
    BY <1>1, <1>3, LocksOwnSource DEF LeaseDropped, Released
  <2>2. QED
    BY <2>1 DEF LeaseDropped, lastRun, Lease!vars
<1>4. QED
  BY <1>2, <1>3

\* The first flush of a run starts a lease.
LEMMA SetupIsLeaseStep ==
  ASSUME IInv, NEW w \in Scrapers, SetupRun(w)
  PROVE  Lease!Next
<1> DEFINE s == txn[w].source
<1>1. s \in Source
  BY DEF IInv, TypeOK, Session, Txn
<1>2. rowLock[s] = NoOne /\ rowLock' = [rowLock EXCEPT ![s] = w] /\ UNCHANGED log
  BY DEF SetupRun
<1>3. Lease!Start(s, w)
  BY <1>2 DEF Lease!Start
<1>4. QED
  BY <1>1, <1>3 DEF Lease!Next

\* The commit of a run records its outcome and ends the lease.
LEMMA CommitIsLeaseStep ==
  ASSUME IInv, NEW w \in Scrapers, CommitRun(w)
  PROVE  Lease!Next
<1> USE ConstantsAssumption
<1> DEFINE s == txn[w].source
<1>1. /\ s \in Source /\ w \in Session
      /\ rowLock \in [Source -> Scrapers \cup {NoOne}]
      /\ log \in [Source -> RunLog]
  BY DEF IInv, TypeOK, Session, Txn
<1>2. /\ txn[w].pc = "finished" /\ rowLock' = Released(rowLock, w)
      /\ log' = [log EXCEPT ![s] = [last |-> txn[w].status, open |-> log[s].open,
                   dry |-> DryAfter(log[s].dry, txn[w].revived, txn[w].found)]]
  BY DEF CommitRun, End
<1>3. rowLock[s] = w
  BY <1>1, <1>2 DEF IInv, RowLockMeansLive, LiveOn
<1>4. rowLock' = [rowLock EXCEPT ![s] = NoOne] /\ rowLock[s] # NoOne
  BY <1>1, <1>2, <1>3, LocksOwnSource DEF Released, Session
<1>5. lastRun' = [lastRun EXCEPT ![s] = txn[w].status]
  BY <1>1, <1>2 DEF lastRun
<1>6. txn[w].status \in {"success", "degraded", "failed"}
  BY <1>1, <1>2 DEF IInv, FinalStatus, Final
<1>7. PICK r \in Source, o \in {"success", "degraded", "failed"} :
        r = s /\ o = txn[w].status
  BY <1>1, <1>6
<1>8. Lease!Record(r, o)
  BY <1>4, <1>5, <1>7 DEF Lease!Record, lastRun
<1>9. QED
  BY <1>8 DEF Lease!Next, Lease!Finish

\* Every other step of the scrape machinery drops a run or leaves the lease alone.
LEMMA OtherLeaseSteps ==
  ASSUME IInv, [Next]_vars,
         ~ \E w \in Scrapers : SetupRun(w) \/ CommitRun(w)
  PROVE  LeaseStutters \/ \E w \in Session : LeaseDropped(w)
<1> USE DEF Session, Scrapers, Dispatchers
<1>1. ASSUME NEW w \in Session, End(w), UNCHANGED log
      PROVE  LeaseDropped(w)
  BY <1>1 DEF End, LeaseDropped, lastRun
<1>2. ASSUME NEW w \in Session, CommitRevival(w) PROVE LeaseDropped(w)
  <2>1. \A r \in Source : ~log[r].open
    BY DEF IInv, NoOpenRun
  <2> DEFINE s == txn[w].source
             stale == IF w \in Schedulers THEN {r \in Source : log[r].open} ELSE {}
             closed == [r \in Source |->
                  [last |-> IF r \in stale /\ log[r].last = "running"
                              THEN "failed" ELSE log[r].last,
                   open |-> log[r].open /\ r \notin stale,
                   dry  |-> log[r].dry]]
  <2>2. log' = [closed EXCEPT ![s].dry = 0]
    BY <1>2, Zenon DEF CommitRevival
  <2>3. stale = {}
    BY <2>1
  <2>4. \A r \in Source : closed[r].last = log[r].last
    BY <2>3
  <2>5. closed \in [Source -> [last : Status, open : BOOLEAN, dry : Nat]]
    BY <2>3 DEF IInv, TypeOK, RunLog
  <2> HIDE DEF closed, stale
  <2>6. lastRun' = lastRun
    BY <2>2, <2>4, <2>5 DEF lastRun
  <2>7. QED
    BY <1>2, <2>6 DEF CommitRevival, End, LeaseDropped
<1>3. ASSUME NEW w \in RunAllThreads, HardBudget(w) PROVE LeaseDropped(w)
  <2> DEFINE s == txn[w].source
             rec == [log[s] EXCEPT !.open = FALSE,
                       !.last = IF @ = "running" THEN "failed" ELSE @]
  <2>1. log' = [log EXCEPT ![s] = rec]
    BY <1>3, Zenon DEF HardBudget
  <2>2. s \in Source /\ log \in [Source -> RunLog] /\ log[s].last # "running"
    BY DEF IInv, TypeOK, Txn, NoOpenRun
  <2>3. rec.last = log[s].last
    BY <2>2 DEF RunLog
  <2> HIDE DEF rec
  <2>4. lastRun' = lastRun
    BY <2>1, <2>2, <2>3 DEF lastRun
  <2>5. QED
    BY <1>3, <2>4 DEF HardBudget, End, LeaseDropped
<1>4. ASSUME NEW w \in Session,
             \/ SweepSkip(w) \/ LockTimeout(w) \/ PoisonRaises(w) \/ Abort(w)
      PROVE  LeaseDropped(w)
  BY <1>1, <1>4 DEF SweepSkip, LockTimeout, PoisonRaises, Abort
<1>5. ASSUME NEW w \in Session, Poison(w) PROVE LeaseDropped(w)
  BY <1>5 DEF Poison, LeaseDropped, lastRun
<1>6. ASSUME NEW w \in Session,
             \/ TryLock(w) \/ RunAllSkip(w) \/ ScrapeUnchanged(w) \/ ScrapeEmpty(w)
             \/ ScrapeFound(w) \/ PersistDone(w) \/ RunError(w)
      PROVE  LeaseStutters
  BY <1>6 DEF TryLock, RunAllSkip, ScrapeUnchanged, ScrapeEmpty, ScrapeFound,
     PersistDone, RunError, Finish, LeaseStutters, lastRun
<1>7. ASSUME NEW w \in Session, NEW s \in Source,
             Dispatch(w, s) \/ RequestRun(w, s) \/ ReadCooled(w, s)
      PROVE  LeaseStutters
  BY <1>7 DEF Dispatch, RequestRun, ReadCooled, Begin, LeaseStutters, lastRun
<1>8. CASE Tick \/ (\E s \in Source : SiteChanges(s)) \/ UNCHANGED vars
  BY <1>8 DEF Tick, SiteChanges, vars, LeaseStutters, lastRun
<1>9. CASE Next
  <2>1. ASSUME NEW w \in Scrapers, Progress(w) \/ Poison(w)
        PROVE  LeaseStutters \/ LeaseDropped(w)
    BY <2>1, <1>4, <1>5, <1>6, Zenon DEF Progress
  <2>2. ASSUME NEW w \in Dispatchers, LockDecision(w)
        PROVE  LeaseStutters \/ LeaseDropped(w)
    BY <2>2, <1>2, <1>4, <1>6, Zenon DEF LockDecision
  <2>3. ASSUME NEW w \in Schedulers, Revive(w) \/ CommitRevival(w)
        PROVE  LeaseStutters \/ LeaseDropped(w)
    BY <2>3, <1>2, <1>4, <1>7, Zenon DEF Revive
  <2>4. QED
    BY <1>9, <2>1, <2>2, <2>3, <1>3, <1>4, <1>7, <1>8, Zenon DEF Next
<1>10. QED
  BY <1>8, <1>9

\* The scrapes of a source, with all their locks and sessions, implement the
\* promise of RunLease: one owner from start to end, then recorded or dropped.
THEOREM ScrapeRunsImplementLease == Spec => ImplementsLease
<1>1. Init => Lease!Init
  BY DEF Init, Lease!Init
<1>2. IInv /\ [Next]_vars => [Lease!Next]_(Lease!vars)
  <2> SUFFICES ASSUME IInv, [Next]_vars PROVE [Lease!Next]_(Lease!vars)
    OBVIOUS
  <2>1. LeaseStutters => UNCHANGED Lease!vars
    BY DEF LeaseStutters, lastRun, Lease!vars
  <2>2. QED
    BY <2>1, SetupIsLeaseStep, CommitIsLeaseStep, OtherLeaseSteps, DroppedIsLeaseStep
<1>3. QED
  BY <1>1, <1>2, Invariance, PTL DEF Spec, ImplementsLease, Lease!Spec

-----------------------------------------------------------------------------
(* The counters.  They agree with the table of runs as long as the sessions on *)
(* one source follow each other; a session that loads the row while another is *)
(* live writes its counters from a stale copy, and no lock prevents that.    *)

\* No two sessions have loaded the same source, and no request runs one that is
\* paused, which it would leave paused after a run with items.
Apart ==
  /\ \A v, w \in Session :
       txn[v].pc # "idle" /\ txn[w].pc # "idle" /\ txn[v].source = txn[w].source => v = w
  /\ \A q \in Requests : txn[q].pc = "loaded" => ~txn[q].mem.paused

\* The counter that the run of w goes on from.
Before(w) == IF txn[w].revived THEN 0 ELSE src[txn[w].source].empty

\* What the copy of the row in a session says, phase by phase.
FreshCopy(w) ==
  /\ txn[w].pc \in {"loaded", "locked", "writeback"} =>
       /\ txn[w].draft = src[txn[w].source]
       /\ txn[w].mem = IF txn[w].revived THEN Revived(src[txn[w].source])
                       ELSE src[txn[w].source]
       /\ w \in Dispatchers => ~txn[w].mem.paused
       /\ txn[w].pc = "writeback" => txn[w].revived
  /\ txn[w].pc \in {"scraping", "persisting"} =>
       /\ txn[w].mem.empty = Before(w) /\ txn[w].mem.sel = Before(w)
       /\ ~txn[w].mem.paused /\ txn[w].draft = txn[w].mem
  /\ txn[w].pc = "finished" =>
       /\ txn[w].draft.empty = IF txn[w].found THEN 0 ELSE Before(w) + 1
       /\ txn[w].draft.sel = txn[w].draft.empty
       /\ txn[w].draft.paused = (txn[w].draft.empty >= PauseAfter)

\* CountersMatchLog, of one source.
CountersAgree(s) ==
  /\ src[s].empty = src[s].sel
  /\ src[s].empty < PauseAfter => log[s].dry = src[s].empty
  /\ src[s].empty >= PauseAfter => log[s].dry = PauseAfter
  /\ src[s].paused => log[s].dry = PauseAfter

Counters == (\A s \in Source : CountersAgree(s)) /\ \A w \in Session : FreshCopy(w)

-----------------------------------------------------------------------------
\* A flush of all that was loaded leaves what is in memory.
LEMMA FlushedAll ==
  ASSUME NEW row \in Row, NEW mem \in Row
  PROVE  Flushed(row, row, mem) = mem
BY DEF Flushed, Written, Row

\* An idle session has no copy that could be stale.
LEMMA IdleFresh == ASSUME NEW w \in Session, txn[w].pc = "idle" PROVE FreshCopy(w)
BY DEF FreshCopy

\* The same of the next state.
LEMMA IdleFreshNext == ASSUME NEW w \in Session, txn'[w].pc = "idle" PROVE FreshCopy(w)'
BY DEF FreshCopy

\* Nor has one whose transaction is aborted.
LEMMA PoisonedFreshNext == ASSUME NEW w \in Session, txn'[w].pc = "poisoned" PROVE FreshCopy(w)'
BY DEF FreshCopy

\* A step of one session that commits nothing keeps the counters, if its own copy
\* stays fresh.
LEMMA OneMoves ==
  ASSUME Counters, NEW w \in Session, UNCHANGED src,
         \A s \in Source : log'[s].dry = log[s].dry,
         \A v \in Session \ {w} : txn'[v] = txn[v],
         FreshCopy(w)'
  PROVE  Counters'
<1>1. \A v \in Session \ {w} : FreshCopy(v)'
  BY DEF Counters, FreshCopy, Before
<1>2. \A s \in Source : CountersAgree(s)'
  BY DEF Counters, CountersAgree
<1> QED
  BY <1>1, <1>2 DEF Counters

\* A session that ends without a commit keeps the counters.
LEMMA EndsWithout ==
  ASSUME IInv, Counters, NEW w \in Session, End(w), UNCHANGED src,
         \A s \in Source : log'[s].dry = log[s].dry
  PROVE  Counters'
<1>1. txn'[w].pc = "idle" /\ \A v \in Session \ {w} : txn'[v] = txn[v]
  BY BlankType DEF End, IInv, TypeOK
<1> QED
  BY <1>1, OneMoves, IdleFreshNext

\* The commit of a session that is alone on its source: the row it leaves agrees
\* with the count it leaves.
LEMMA OneCommits ==
  ASSUME IInv, Apart, Counters, NEW w \in Session, txn[w].pc # "idle", End(w),
         NEW row \in Row, src' = [src EXCEPT ![txn[w].source] = row],
         \A s \in Source \ {txn[w].source} : log'[s].dry = log[s].dry,
         row.empty = row.sel,
         row.empty < PauseAfter => log'[txn[w].source].dry = row.empty,
         row.empty >= PauseAfter => log'[txn[w].source].dry = PauseAfter,
         row.paused => log'[txn[w].source].dry = PauseAfter
  PROVE  Counters'
<1>1. /\ txn \in [Session -> Txn] /\ src \in [Source -> Row]
      /\ \A v \in Session : txn[v].source \in Source
  BY DEF IInv, TypeOK, Txn
<1>2. txn'[w].pc = "idle" /\ \A v \in Session \ {w} : txn'[v] = txn[v]
  BY <1>1, BlankType DEF End
<1>3. \A s \in Source : src'[s] = IF s = txn[w].source THEN row ELSE src[s]
  BY <1>1
<1>4. \A s \in Source : CountersAgree(s)'
  BY <1>1, <1>3 DEF Counters, CountersAgree
<1>5. ASSUME NEW v \in Session \ {w}, txn[v].pc # "idle" PROVE FreshCopy(v)'
  <2>1. txn[v].source # txn[w].source
    BY <1>5 DEF Apart
  <2>2. src'[txn[v].source] = src[txn[v].source] /\ txn'[v] = txn[v]
    BY <1>1, <1>2, <1>3, <2>1
  <2> QED
    BY <2>2 DEF Counters, FreshCopy, Before
<1>6. \A v \in Session : FreshCopy(v)'
  BY <1>2, <1>5, IdleFreshNext
<1> QED
  BY <1>4, <1>6 DEF Counters

\* What a re-activation sets.
LEMMA RevivedCounts ==
  ASSUME NEW r \in Row
  PROVE  Revived(r).empty = 0 /\ Revived(r).sel = 0 /\ Revived(r).paused = FALSE
<1>1. [r EXCEPT !.paused = FALSE] \in Row
  BY DEF Row
<1>2. [[r EXCEPT !.paused = FALSE] EXCEPT !.empty = 0] \in Row
  BY <1>1 DEF Row
<1> QED
  BY <1>1, <1>2 DEF Revived, Row

\* A session loads the row as it is, or re-activated.
LEMMA LoadsFresh ==
  ASSUME IInv, Counters, NEW w \in Session, NEW s \in Source, NEW mem \in Row,
         NEW pc \in {"loaded", "writeback"}, NEW revived \in BOOLEAN,
         Begin(w, s, mem, pc, revived),
         mem = IF revived THEN Revived(src[s]) ELSE src[s],
         w \in Dispatchers => ~mem.paused,
         pc = "writeback" => revived
  PROVE  Counters'
<1>1. /\ UNCHANGED <<src, log>>
      /\ txn' = [txn EXCEPT ![w] = [Blank EXCEPT !.pc = pc, !.source = s, !.mem = mem,
                                      !.draft = src[s], !.revived = revived]]
  BY DEF Begin
<1>2. /\ txn'[w].pc = pc /\ txn'[w].source = s /\ txn'[w].mem = mem
      /\ txn'[w].draft = src[s] /\ txn'[w].revived = revived
      /\ \A v \in Session \ {w} : txn'[v] = txn[v]
  BY <1>1 DEF IInv, TypeOK, Blank
<1>3. FreshCopy(w)'
  BY <1>1, <1>2 DEF FreshCopy
<1> QED
  BY <1>1, <1>2, <1>3, OneMoves

\* The three ways to load a source.
LEMMA LoadCounters ==
  ASSUME IInv, Counters, NEW w \in Session, NEW s \in Source,
         \/ w \in Dispatchers /\ Dispatch(w, s)
         \/ w \in Requests /\ RequestRun(w, s)
         \/ w \in Schedulers /\ ReadCooled(w, s)
  PROVE  Counters'
<1>1. src[s] \in Row /\ Revived(src[s]) \in Row
      /\ src[s].paused \in BOOLEAN /\ Revived(src[s]).paused = FALSE
  <2>1. src[s] \in Row
    BY DEF IInv, TypeOK
  <2> QED
    BY <2>1, RevivedType, RevivedCounts DEF Row
<1>2. CASE w \in Dispatchers /\ Dispatch(w, s)
  BY <1>1, <1>2, LoadsFresh DEF Dispatch
<1>3. CASE w \in Requests /\ RequestRun(w, s)
  BY <1>1, <1>3, LoadsFresh, ConstantsAssumption DEF RequestRun
<1>4. CASE w \in Schedulers /\ ReadCooled(w, s)
  BY <1>1, <1>4, LoadsFresh, ConstantsAssumption DEF ReadCooled, Scrapers
<1> QED
  BY <1>2, <1>3, <1>4

\* The lock decision and the first flush carry the copy along.
LEMMA MoveCounters ==
  ASSUME IInv, Counters, NEW w \in Session, \/ w \in Dispatchers /\ (TryLock(w) \/ RunAllSkip(w))
  PROVE  Counters'
<1>1. /\ txn \in [Session -> Txn] /\ txn[w] \in Txn
  BY DEF IInv, TypeOK
<1>2. CASE TryLock(w)
  <2>1. /\ UNCHANGED <<src, log>> /\ txn[w].pc = "loaded"
        /\ txn' = [txn EXCEPT ![w].pc = "locked"]
    BY <1>2 DEF TryLock
  <2>2. /\ txn'[w] = [txn[w] EXCEPT !.pc = "locked"]
        /\ \A v \in Session \ {w} : txn'[v] = txn[v]
    BY <1>1, <2>1
  <2>3. /\ txn'[w].pc = "locked" /\ txn'[w].source = txn[w].source
        /\ txn'[w].mem = txn[w].mem /\ txn'[w].draft = txn[w].draft
        /\ txn'[w].revived = txn[w].revived
    BY <1>1, <2>2 DEF Txn
  <2>4. FreshCopy(w)'
    BY <2>1, <2>3 DEF FreshCopy, Counters
  <2> QED
    BY <2>1, <2>2, <2>4, OneMoves
<1>3. CASE RunAllSkip(w) /\ txn[w].revived
  <2>1. /\ UNCHANGED <<src, log>> /\ txn[w].pc = "loaded"
        /\ txn' = [txn EXCEPT ![w] = [@ EXCEPT !.pc = "writeback"]]
    BY <1>3 DEF RunAllSkip
  <2>2. /\ txn'[w] = [txn[w] EXCEPT !.pc = "writeback"]
        /\ \A v \in Session \ {w} : txn'[v] = txn[v]
    BY <1>1, <2>1
  <2>3. /\ txn'[w].pc = "writeback" /\ txn'[w].source = txn[w].source
        /\ txn'[w].mem = txn[w].mem /\ txn'[w].draft = txn[w].draft
        /\ txn'[w].revived = txn[w].revived
    BY <1>1, <2>2 DEF Txn
  <2>4. FreshCopy(w)'
    BY <1>3, <2>1, <2>3 DEF FreshCopy, Counters
  <2> QED
    BY <2>1, <2>2, <2>4, OneMoves
<1>4. CASE RunAllSkip(w) /\ ~txn[w].revived
  <2>1. UNCHANGED <<src, log>> /\ txn' = [txn EXCEPT ![w] = Blank]
    BY <1>4 DEF RunAllSkip
  <2>2. txn'[w].pc = "idle" /\ \A v \in Session \ {w} : txn'[v] = txn[v]
    BY <1>1, <2>1, BlankType
  <2> QED
    BY <2>1, <2>2, OneMoves, IdleFreshNext
<1> QED
  BY <1>2, <1>3, <1>4

\* The first flush publishes nothing yet, and the counter to go on from is that of
\* the committed row.
LEMMA SetupCounters ==
  ASSUME IInv, Apart, Counters, NEW w \in Scrapers, SetupRun(w)
  PROVE  Counters'
<1>1. /\ w \in Session /\ txn \in [Session -> Txn] /\ txn[w] \in Txn
      /\ txn[w].source \in Source /\ src[txn[w].source] \in Row /\ txn[w].mem \in Row
  BY DEF IInv, TypeOK, Session, Txn
<1>2. /\ txn[w].pc \in {"loaded", "locked"} /\ UNCHANGED <<src, log>>
      /\ w \in Requests => txn[w].pc = "loaded"
      /\ txn' = [txn EXCEPT ![w] = [txn[w] EXCEPT !.pc = "scraping", !.age = 0,
                   !.draft = Flushed(src[txn[w].source], txn[w].draft, txn[w].mem)]]
  BY DEF SetupRun
<1>3. /\ txn[w].draft = src[txn[w].source]
      /\ txn[w].mem = IF txn[w].revived THEN Revived(src[txn[w].source]) ELSE src[txn[w].source]
      /\ w \in Dispatchers => ~txn[w].mem.paused
  BY <1>1, <1>2 DEF Counters, FreshCopy
<1>4. ~txn[w].mem.paused
  BY <1>2, <1>3 DEF Apart, Scrapers
<1>5. txn[w].mem.empty = Before(w) /\ txn[w].mem.sel = Before(w)
  BY <1>1, <1>3 DEF Counters, CountersAgree, Before, Revived, Row
<1>6. Flushed(src[txn[w].source], txn[w].draft, txn[w].mem) = txn[w].mem
  BY <1>1, <1>3, FlushedAll
<1>7. /\ txn'[w].pc = "scraping" /\ txn'[w].source = txn[w].source
      /\ txn'[w].mem = txn[w].mem /\ txn'[w].draft = txn[w].mem
      /\ txn'[w].revived = txn[w].revived
      /\ \A v \in Session \ {w} : txn'[v] = txn[v]
  BY <1>1, <1>2, <1>6 DEF Txn
<1>8. FreshCopy(w)'
  BY <1>2, <1>4, <1>5, <1>7 DEF FreshCopy, Before
<1> QED
  BY <1>1, <1>2, <1>7, <1>8, OneMoves

\* Counting a run from a fresh, active row.
LEMMA CountedFrom ==
  ASSUME NEW row \in Row, NEW n \in Nat, row.empty = n, row.sel = n, ~row.paused, NEW found \in BOOLEAN
  PROVE  LET c == Counted(row, found)
         IN  /\ c \in Row
             /\ c.empty = IF found THEN 0 ELSE n + 1
             /\ c.sel = c.empty
             /\ c.paused = (c.empty >= PauseAfter)
<1> DEFINE m == IF found THEN 0 ELSE n + 1
           p == IF m >= PauseAfter \/ m >= PauseAfter THEN TRUE ELSE row.paused
<1>1. Counted(row, found) = [row EXCEPT !.empty = m, !.sel = m, !.paused = p]
  BY Zenon DEF Counted
<1>2. row.paused = FALSE
  BY DEF Row
<1>3. p = (m >= PauseAfter)
  <2> HIDE DEF m
  <2>1. CASE m >= PauseAfter
    BY <2>1
  <2>2. CASE ~(m >= PauseAfter)
    <3>1. p = FALSE
      BY <2>2, <1>2, Zenon
    <3>2. (m >= PauseAfter) = FALSE
      BY <2>2
    <3> QED
      BY <3>1, <3>2
  <2> QED
    BY <2>1, <2>2
<1>4. m \in Nat
  OBVIOUS
<1> HIDE DEF m, p
<1>5. /\ Counted(row, found).empty = m /\ Counted(row, found).sel = m
      /\ Counted(row, found).paused = p
  BY <1>1 DEF Row
<1> QED
  BY <1>3, <1>5, CountedType DEF m

\* The last flush of a run counts it once.
LEMMA FinishCounters ==
  ASSUME IInv, Counters, NEW w \in Scrapers, txn[w].pc \in {"scraping", "persisting"},
         NEW row \in Row, row.empty = txn[w].mem.empty, row.sel = txn[w].mem.sel,
         row.paused = txn[w].mem.paused,
         NEW status, NEW found \in BOOLEAN, NEW full,
         Finish(w, Counted(row, found), status, found, full)
  PROVE  Counters'
<1>1. /\ w \in Session /\ txn \in [Session -> Txn] /\ txn[w] \in Txn
      /\ txn[w].source \in Source /\ src[txn[w].source] \in Row /\ txn[w].mem \in Row
  BY DEF IInv, TypeOK, Session, Txn
<1>2. /\ txn[w].mem.empty = Before(w) /\ txn[w].mem.sel = Before(w) /\ ~txn[w].mem.paused
      /\ txn[w].draft = txn[w].mem
  BY <1>1 DEF Counters, FreshCopy
<1>3. Before(w) \in Nat
  BY <1>1 DEF Before, Row
<1> DEFINE c == Counted(row, found)
<1>4. /\ c \in Row /\ c.empty = (IF found THEN 0 ELSE Before(w) + 1)
      /\ c.sel = c.empty /\ c.paused = (c.empty >= PauseAfter)
  BY <1>2, <1>3, CountedFrom
<1> HIDE DEF c
<1>5. /\ UNCHANGED <<src, log>>
      /\ txn' = [txn EXCEPT ![w] = [txn[w] EXCEPT !.pc = "finished", !.mem = c,
                   !.draft = Flushed(txn[w].draft, txn[w].mem, c),
                   !.status = status, !.found = found, !.full = full]]
  BY DEF Finish, c
<1>6. Flushed(txn[w].draft, txn[w].mem, c) = c
  BY <1>1, <1>2, <1>4, FlushedAll
<1>7. /\ txn'[w].pc = "finished" /\ txn'[w].source = txn[w].source
      /\ txn'[w].draft = c /\ txn'[w].found = found /\ txn'[w].revived = txn[w].revived
      /\ \A v \in Session \ {w} : txn'[v] = txn[v]
  BY <1>1, <1>5, <1>6 DEF Txn
<1>8. FreshCopy(w)'
  BY <1>4, <1>5, <1>7 DEF FreshCopy, Before
<1> QED
  BY <1>1, <1>5, <1>7, <1>8, OneMoves

\* Whatever becomes of a scrape, it is counted once or not at all.
LEMMA OutcomeCounters ==
  ASSUME IInv, Counters, NEW w \in Scrapers,
         \/ ScrapeUnchanged(w) \/ ScrapeEmpty(w) \/ PersistDone(w) \/ RunError(w)
  PROVE  Counters'
<1>1. /\ w \in Session /\ txn[w] \in Txn /\ txn[w].mem \in Row
      /\ txn[w].source \in Source /\ page[txn[w].source] \in Page
  BY DEF IInv, TypeOK, Session, Txn
<1>2. CASE ScrapeUnchanged(w)
  BY <1>1, <1>2, FinishCounters DEF ScrapeUnchanged
<1>3. CASE ScrapeEmpty(w)
  <2> DEFINE row == [txn[w].mem EXCEPT !.dom = page[txn[w].source]]
  <2>1. /\ row \in Row /\ row.empty = txn[w].mem.empty /\ row.sel = txn[w].mem.sel
        /\ row.paused = txn[w].mem.paused
    BY <1>1 DEF Row
  <2>2. txn[w].pc = "scraping" /\ Finish(w, Counted(row, FALSE), "degraded", FALSE, TRUE)
    BY <1>3 DEF ScrapeEmpty
  <2> HIDE DEF row
  <2> QED
    BY <2>1, <2>2, FinishCounters
<1>4. CASE PersistDone(w)
  BY <1>1, <1>4, FinishCounters DEF PersistDone
<1>5. CASE RunError(w)
  BY <1>1, <1>5, FinishCounters DEF RunError
<1> QED
  BY <1>2, <1>3, <1>4, <1>5

\* A parse with items flushes the fingerprint and no counter.
LEMMA FoundCounters ==
  ASSUME IInv, Counters, NEW w \in Scrapers, ScrapeFound(w)
  PROVE  Counters'
<1>1. /\ w \in Session /\ txn \in [Session -> Txn] /\ txn[w] \in Txn
      /\ txn[w].mem \in Row /\ txn[w].source \in Source /\ page[txn[w].source] \in Page
  BY DEF IInv, TypeOK, Session, Txn
<1> DEFINE row == [txn[w].mem EXCEPT !.dom = page[txn[w].source]]
<1>2. /\ row \in Row /\ row.empty = txn[w].mem.empty /\ row.sel = txn[w].mem.sel
      /\ row.paused = txn[w].mem.paused
  BY <1>1 DEF Row
<1>3. /\ txn[w].pc = "scraping" /\ UNCHANGED <<src, log>>
      /\ txn' = [txn EXCEPT ![w] = [txn[w] EXCEPT !.pc = "persisting", !.mem = row,
                   !.draft = Flushed(txn[w].draft, txn[w].mem, row)]]
  BY DEF ScrapeFound
<1> HIDE DEF row
<1>4. /\ txn[w].mem.empty = Before(w) /\ txn[w].mem.sel = Before(w) /\ ~txn[w].mem.paused
      /\ txn[w].draft = txn[w].mem
  BY <1>1, <1>3 DEF Counters, FreshCopy
<1>5. Flushed(txn[w].draft, txn[w].mem, row) = row
  BY <1>1, <1>2, <1>4, FlushedAll
<1>6. /\ txn'[w].pc = "persisting" /\ txn'[w].source = txn[w].source
      /\ txn'[w].mem = row /\ txn'[w].draft = row /\ txn'[w].revived = txn[w].revived
      /\ \A v \in Session \ {w} : txn'[v] = txn[v]
  BY <1>1, <1>3, <1>5 DEF Txn
<1>7. FreshCopy(w)'
  BY <1>2, <1>3, <1>4, <1>6 DEF FreshCopy, Before
<1> QED
  BY <1>1, <1>3, <1>6, <1>7, OneMoves

\* The commit of a run counts it in the row as in the table.
LEMMA CommitCounters ==
  ASSUME IInv, Apart, Counters, NEW w \in Scrapers, CommitRun(w)
  PROVE  Counters'
<1> USE ConstantsAssumption
<1> DEFINE s == txn[w].source
           row == txn[w].draft
<1>1. /\ w \in Session /\ txn[w] \in Txn /\ s \in Source /\ row \in Row /\ src[s] \in Row
      /\ log \in [Source -> RunLog] /\ log[s].dry \in Nat /\ txn[w].found \in BOOLEAN
      /\ txn[w].revived \in BOOLEAN /\ src[s].empty \in Nat
  BY DEF IInv, TypeOK, Session, Txn, RunLog, Row
<1>2. /\ txn[w].pc = "finished" /\ End(w) /\ src' = [src EXCEPT ![s] = row]
      /\ log' = [log EXCEPT ![s] = [last |-> txn[w].status, open |-> log[s].open,
                   dry |-> DryAfter(log[s].dry, txn[w].revived, txn[w].found)]]
  BY DEF CommitRun
<1>3. /\ row.empty = IF txn[w].found THEN 0 ELSE Before(w) + 1
      /\ row.sel = row.empty /\ row.paused = (row.empty >= PauseAfter)
  BY <1>1, <1>2 DEF Counters, FreshCopy
<1>4. CountersAgree(s)
  BY <1>1 DEF Counters
<1>5. /\ log'[s].dry = DryAfter(log[s].dry, txn[w].revived, txn[w].found)
      /\ \A r \in Source \ {s} : log'[r].dry = log[r].dry
  BY <1>1, <1>2
<1>6. Before(w) = IF txn[w].revived THEN 0 ELSE src[s].empty
  BY DEF Before
<1> HIDE DEF s, row
<1>7. /\ row.empty < PauseAfter => log'[s].dry = row.empty
      /\ row.empty >= PauseAfter => log'[s].dry = PauseAfter
  BY <1>1, <1>3, <1>4, <1>5, <1>6 DEF DryAfter, CountersAgree
<1> QED
  BY <1>1, <1>2, <1>3, <1>5, <1>7, OneCommits DEF s, row

\* A re-activation starts both counts anew.
LEMMA RevivalCounters ==
  ASSUME IInv, Apart, Counters, NEW w \in Session, CommitRevival(w)
  PROVE  Counters'
<1> USE ConstantsAssumption
<1> DEFINE s == txn[w].source
<1>1. /\ txn[w] \in Txn /\ s \in Source /\ src[s] \in Row /\ log \in [Source -> RunLog]
  BY DEF IInv, TypeOK, Txn
<1>2. /\ txn[w].pc = "writeback" /\ End(w)
      /\ src' = [src EXCEPT ![s] = Flushed(@, txn[w].draft, txn[w].mem)]
  BY DEF CommitRevival
<1>3. txn[w].draft = src[s] /\ txn[w].mem = Revived(src[s])
  BY <1>2 DEF Counters, FreshCopy
<1>4. Revived(src[s]) \in Row /\ Flushed(src[s], src[s], Revived(src[s])) = Revived(src[s])
  BY <1>1, RevivedType, FlushedAll
<1>5. log'[s].dry = 0 /\ \A r \in Source \ {s} : log'[r].dry = log[r].dry
  BY <1>1 DEF CommitRevival
<1>6. /\ Revived(src[s]).empty = 0 /\ Revived(src[s]).sel = 0 /\ Revived(src[s]).paused = FALSE
  BY <1>1, RevivedCounts
<1>7. src' = [src EXCEPT ![s] = Revived(src[s])]
  BY <1>2, <1>3, <1>4
<1>8. /\ Revived(src[s]).empty = Revived(src[s]).sel
      /\ Revived(src[s]).empty < PauseAfter => log'[s].dry = Revived(src[s]).empty
      /\ Revived(src[s]).empty >= PauseAfter => log'[s].dry = PauseAfter
      /\ Revived(src[s]).paused => log'[s].dry = PauseAfter
  BY <1>5, <1>6
<1>9. txn[w].pc # "idle"
  BY <1>2
<1> HIDE DEF s
<1> QED
  BY <1>2, <1>4, <1>5, <1>7, <1>8, <1>9, OneCommits DEF s

\* A session that gives up keeps the counters.
LEMMA DropCounters ==
  ASSUME IInv, Counters, NEW w \in Session,
         SweepSkip(w) \/ LockTimeout(w) \/ PoisonRaises(w) \/ Abort(w) \/ HardBudget(w)
  PROVE  Counters'
<1>1. /\ log \in [Source -> RunLog] /\ txn[w].source \in Source
  BY DEF IInv, TypeOK, Txn
<1>2. CASE SweepSkip(w) \/ LockTimeout(w) \/ PoisonRaises(w) \/ Abort(w)
  BY <1>2, EndsWithout DEF SweepSkip, LockTimeout, PoisonRaises, Abort
<1>3. CASE HardBudget(w)
  <2>1. \A s \in Source : log'[s].dry = log[s].dry
    BY <1>1, <1>3 DEF HardBudget, RunLog
  <2> QED
    BY <1>3, <2>1, EndsWithout DEF HardBudget
<1> QED
  BY <1>2, <1>3

\* An aborted transaction waits for its end.
LEMMA PoisonCounters ==
  ASSUME IInv, Counters, NEW w \in Session, Poison(w)
  PROVE  Counters'
<1>1. /\ UNCHANGED <<src, log>> /\ txn'[w].pc = "poisoned"
      /\ \A v \in Session \ {w} : txn'[v] = txn[v]
  BY DEF Poison, IInv, TypeOK, Txn
<1> QED
  BY <1>1, OneMoves, PoisonedFreshNext

\* The clock leaves all copies as they are.
LEMMA TickCounters == ASSUME IInv, Counters, Tick PROVE Counters'
<1>1. /\ UNCHANGED <<src, log>>
      /\ \A w \in Session :
           /\ txn'[w].pc = txn[w].pc /\ txn'[w].source = txn[w].source
           /\ txn'[w].mem = txn[w].mem /\ txn'[w].draft = txn[w].draft
           /\ txn'[w].revived = txn[w].revived /\ txn'[w].found = txn[w].found
  BY DEF Tick, IInv, TypeOK, Txn
<1>2. \A w \in Session : FreshCopy(w)'
  BY <1>1 DEF Counters, FreshCopy, Before
<1>3. \A s \in Source : CountersAgree(s)'
  BY <1>1 DEF Counters, CountersAgree
<1> QED
  BY <1>2, <1>3 DEF Counters

\* At the start nothing has run.
LEMMA InitCounters == Init => Counters
<1> SUFFICES ASSUME Init PROVE Counters
  OBVIOUS
<1>1. \A w \in Session : FreshCopy(w)
  BY BlankType, IdleFresh DEF Init
<1>2. ASSUME NEW s \in Source PROVE CountersAgree(s)
  <2>1. src[s].empty = 0 /\ src[s].sel = 0 /\ src[s].paused = FALSE
    BY DEF Init, NewRow
  <2>2. log[s].dry = 0
    BY DEF Init
  <2> QED
    BY <2>1, <2>2, ConstantsAssumption DEF CountersAgree
<1> QED
  BY <1>1, <1>2 DEF Counters

\* Every step of sessions that stay apart keeps the counters.
LEMMA NextCounters == IInv /\ Apart /\ Counters /\ [Next]_vars => Counters'
<1> SUFFICES ASSUME IInv, Apart, Counters, [Next]_vars PROVE Counters'
  OBVIOUS
<1> USE DEF Session, Scrapers, Dispatchers
<1>1. ASSUME NEW w \in Scrapers, Progress(w) PROVE Counters'
  BY <1>1, SetupCounters, DropCounters, OutcomeCounters, FoundCounters, CommitCounters
  DEF Progress
<1>2. ASSUME NEW w \in Scrapers, Poison(w) PROVE Counters'
  BY <1>2, PoisonCounters
<1>3. ASSUME NEW w \in Dispatchers, LockDecision(w) PROVE Counters'
  BY <1>3, MoveCounters, DropCounters, RevivalCounters DEF LockDecision
<1>4. ASSUME NEW w \in Dispatchers, NEW s \in Source, Dispatch(w, s) PROVE Counters'
  BY <1>4, LoadCounters
<1>5. ASSUME NEW w \in RunAllThreads, HardBudget(w) PROVE Counters'
  BY <1>5, DropCounters
<1>6. ASSUME NEW w \in Requests, NEW s \in Source, RequestRun(w, s) PROVE Counters'
  BY <1>6, LoadCounters
<1>7. ASSUME NEW w \in Schedulers, Revive(w) \/ CommitRevival(w) PROVE Counters'
  BY <1>7, LoadCounters, DropCounters, RevivalCounters DEF Revive
<1>8. ASSUME NEW w \in Session, Abort(w) PROVE Counters'
  BY <1>8, DropCounters
<1>9. CASE Tick
  BY <1>9, TickCounters
<1>10. CASE (\E s \in Source : SiteChanges(s)) \/ UNCHANGED vars
  <2>1. UNCHANGED <<src, log, txn>>
    BY <1>10 DEF SiteChanges, vars
  <2> QED
    BY <2>1 DEF Counters, CountersAgree, FreshCopy, Before
<1> QED
  BY <1>1, <1>2, <1>3, <1>4, <1>5, <1>6, <1>7, <1>8, <1>9, <1>10, Zenon DEF Next

\* While the sessions on each source follow each other, the counters of its row
\* and its pause flag say what the table of runs says.
THEOREM CountersOfSessionsApart == Spec /\ []Apart => []CountersMatchLog
<1>1. Counters => CountersMatchLog
  BY DEF Counters, CountersAgree, CountersMatchLog
<1> QED
  BY <1>1, InitCounters, NextCounters, Invariance, PTL DEF Spec

-----------------------------------------------------------------------------
(* One slot and the scheduler before it: they are always apart.              *)

\* The slot and the main session of the sweep wait for each other.
OneAtATime == Idle(Sweepers) \/ Idle(Schedulers)

\* Only a session that starts leaves idleness.
LEMMA StaysIdle ==
  ASSUME IInv, Next, NEW w \in Session, txn[w].pc = "idle", txn'[w].pc # "idle"
  PROVE  \E s \in Source :
           \/ w \in Dispatchers /\ Dispatch(w, s)
           \/ w \in Requests /\ RequestRun(w, s)
           \/ w \in Schedulers /\ ReadCooled(w, s)
<1>1. txn \in [Session -> Txn] /\ Blank.pc = "idle"
  BY BlankType DEF IInv, TypeOK
<1> USE DEF Session, Scrapers, Dispatchers
<1>2. ASSUME NEW v \in Session, \/ \E s \in Source : Dispatch(v, s) \/ RequestRun(v, s) \/ ReadCooled(v, s)
      PROVE  v = w
  BY <1>1, <1>2 DEF Dispatch, RequestRun, ReadCooled, Begin
<1>3. ASSUME NEW v \in Scrapers, Progress(v) \/ Poison(v) PROVE FALSE
  BY <1>1, <1>3 DEF Progress, SetupRun, LockTimeout, ScrapeUnchanged, ScrapeEmpty, ScrapeFound,
     PersistDone, RunError, Finish, PoisonRaises, CommitRun, Poison, End
<1>4. ASSUME NEW v \in Dispatchers, LockDecision(v) PROVE FALSE
  BY <1>1, <1>4 DEF LockDecision, TryLock, SweepSkip, RunAllSkip, CommitRevival, End
<1>5. ASSUME NEW v \in Session, HardBudget(v) \/ Abort(v) \/ LockTimeout(v) \/ CommitRevival(v)
      PROVE FALSE
  BY <1>1, <1>5 DEF HardBudget, Abort, LockTimeout, CommitRevival, End
<1>6. CASE Tick
  BY <1>1, <1>6 DEF Tick
<1>7. CASE \E s \in Source : SiteChanges(s)
  BY <1>7 DEF SiteChanges
<1> QED
  BY <1>2, <1>3, <1>4, <1>5, <1>6, <1>7, Zenon DEF Next, Revive

\* No step ends the waiting of the two for each other.
LEMMA WaitsStep == IInv /\ OneAtATime /\ [Next]_vars => OneAtATime'
<1> SUFFICES ASSUME IInv, OneAtATime, [Next]_vars PROVE OneAtATime'
  OBVIOUS
<1>1. CASE UNCHANGED vars
  BY <1>1 DEF vars, OneAtATime, Idle
<1>2. CASE Next
  <2> SUFFICES ASSUME NEW v \in Sweepers, NEW w \in Schedulers,
                      txn'[v].pc # "idle", txn'[w].pc # "idle"
               PROVE  FALSE
    BY DEF OneAtATime, Idle
  <2> USE ConstantsAssumption DEF Session, Scrapers, Dispatchers
  <2>1. v \in Session /\ w \in Session /\ v # w
    OBVIOUS
  <2>2. txn \in [Session -> Txn]
    BY DEF IInv, TypeOK
  <2>3. CASE txn[v].pc = "idle"
    <3>1. PICK s \in Source : Dispatch(v, s)
      BY <1>2, <2>1, <2>3, StaysIdle
    <3> QED
      BY <2>1, <2>2, <3>1 DEF Dispatch, Begin, Idle
  <2>4. CASE txn[w].pc = "idle"
    <3>1. PICK s \in Source : ReadCooled(w, s)
      BY <1>2, <2>1, <2>4, StaysIdle
    <3> QED
      BY <2>1, <2>2, <3>1 DEF ReadCooled, Begin, Idle
  <2> QED
    BY <2>3, <2>4 DEF OneAtATime, Idle
<1> QED
  BY <1>1, <1>2

\* The sweep with one slot and no other way to run a source: every counter is
\* that of the table of runs.
THEOREM SequentialCounters ==
  ASSUME Requests = {}, RunAllThreads = {},
         \A v, w \in Sweepers : v = w, \A v, w \in Schedulers : v = w
  PROVE  Spec => []CountersMatchLog
<1>1. OneAtATime => Apart
  BY DEF OneAtATime, Idle, Apart, Session, Scrapers, Dispatchers
<1>2. Init => OneAtATime
  BY BlankType DEF Init, OneAtATime, Idle, Session, Scrapers, Dispatchers
<1> QED
  BY <1>1, <1>2, WaitsStep, Invariance, CountersOfSessionsApart, PTL DEF Spec

=============================================================================

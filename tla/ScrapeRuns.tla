----------------------------- MODULE ScrapeRuns -----------------------------
(***************************************************************************)
(* The life of a scrape of one source, from the session that loads the     *)
(* source row to the commit or rollback of everything the scrape wrote.    *)
(*                                                                         *)
(* Three kinds of session scrape a source:                                 *)
(*   Sweepers       _run_one in the periodic sweep (main.py)               *)
(*   RunAllThreads  _run_source_via_dispatcher in POST /sources/run-all    *)
(*   Requests       POST /sources/{id}/run                                 *)
(* The first two go through dispatcher.run_source and take a PostgreSQL    *)
(* transaction advisory lock; a request does not.  A fourth kind, the      *)
(* Schedulers, is the main session of a sweep, which re-activates paused   *)
(* sources before the sweep starts.                                        *)
(*                                                                         *)
(* The database is PostgreSQL under READ COMMITTED: what a session wrote   *)
(* is seen by the others when it commits; the first UPDATE of a source row *)
(* takes its row lock until commit or rollback.  SQLAlchemy writes, at a   *)
(* flush, only the columns whose value differs from the one it loaded.     *)
(***************************************************************************)
EXTENDS Naturals

CONSTANTS
  Source,         \* rows of table sources
  Sweepers, RunAllThreads, Requests, Schedulers,  \* sessions, by kind
  Page,           \* fingerprints the listing page of a source can have
  NoHash,         \* sources.dom_hash IS NULL
  Never,          \* sources.last_run_at IS NULL
  NoOne,          \* no session holds the lock
  PauseAfter,     \* empty runs that pause a source: 5 in the code
  Cooldown,       \* clock units in the cooldown: 24 h in the code
  CounterBound    \* bound of the model: no run starts from a counter above it

Dispatchers == Sweepers \cup RunAllThreads
Scrapers == Dispatchers \cup Requests
Session == Scrapers \cup Schedulers

ASSUME ConstantsAssumption ==
  /\ Source # {}
  /\ NoOne \notin Session
  /\ Requests \cap Dispatchers = {}
  /\ Schedulers \cap Scrapers = {}
  /\ NoHash \notin Page
  /\ PauseAfter \in Nat \ {0}
  /\ Cooldown \in Nat
  /\ CounterBound \in Nat
  /\ Never \notin Nat

VARIABLES
  src,      \* committed source rows
  age,      \* time since the committed last_run_at
  log,      \* what the committed source_runs rows of a source say
  stored,   \* pages all of whose items are committed opportunities
  page,     \* the page the site serves now
  advLock,  \* holder of the advisory lock of a source
  rowLock,  \* holder of the row lock of a source
  txn       \* per session: phase and uncommitted work

vars == <<src, age, log, stored, page, advLock, rowLock, txn>>

Row == [paused : BOOLEAN, empty : Nat, sel : Nat, dom : Page \cup {NoHash}]
Status == {"none", "running", "success", "degraded", "failed"}

\* last: status of the newest row; open: a row is still 'running';
\* dry: newest rows in a line without items, counted from the last row with
\* items or the last re-activation, up to PauseAfter.
RunLog == [last : Status, open : BOOLEAN, dry : Nat]

Phase == {"idle", "loaded", "locked", "writeback",
          "scraping", "persisting", "poisoned", "finished"}

\* mem: the ORM object.  draft: before the first flush the row as loaded,
\* after it the row version this transaction will commit.
Txn == [pc : Phase, source : Source, mem : Row, draft : Row,
        revived : BOOLEAN, age : Nat,
        status : Status, found : BOOLEAN, full : BOOLEAN]

NewRow == [paused |-> FALSE, empty |-> 0, sel |-> 0, dom |-> NoHash]

Blank == [pc |-> "idle", source |-> CHOOSE s \in Source : TRUE,
          mem |-> NewRow, draft |-> NewRow, revived |-> FALSE, age |-> 0,
          status |-> "none", found |-> FALSE, full |-> FALSE]

Init ==
  /\ src = [s \in Source |-> NewRow]
  /\ age = [s \in Source |-> Never]
  /\ log = [s \in Source |-> [last |-> "none", open |-> FALSE, dry |-> 0]]
  /\ stored = [s \in Source |-> {}]
  /\ page \in [Source -> Page]
  /\ advLock = [s \in Source |-> NoOne]
  /\ rowLock = [s \in Source |-> NoOne]
  /\ txn = [w \in Session |-> Blank]

-----------------------------------------------------------------------------
(* Rows, flushes and locks. *)

Written(old, loaded, now) == IF now = loaded THEN old ELSE now

\* The version of row that a flush leaves: only columns that changed in
\* memory since the last load or flush are in the UPDATE.
Flushed(row, loaded, mem) ==
  [paused |-> Written(row.paused, loaded.paused, mem.paused),
   empty  |-> Written(row.empty,  loaded.empty,  mem.empty),
   sel    |-> Written(row.sel,    loaded.sel,    mem.sel),
   dom    |-> Written(row.dom,    loaded.dom,    mem.dom)]

\* Mutants: a re-activation that forgets one column.
RevivedButSelector(row) == [row EXCEPT !.paused = FALSE, !.empty = 0]
RevivedButPaused(row) == [row EXCEPT !.empty = 0, !.sel = 0]

Revived(row) == [row EXCEPT !.paused = FALSE, !.empty = 0, !.sel = 0]

Released(lock, w) ==
  [s \in Source |-> IF lock[s] = w THEN NoOne ELSE lock[s]]

CooldownElapsed(s) == age[s] # Never /\ age[s] >= Cooldown

\* Mutant: the connection goes back to the pool with its transaction open.
EndLeaksRow(w) ==
  /\ txn' = [txn EXCEPT ![w] = Blank]
  /\ advLock' = Released(advLock, w)
  /\ UNCHANGED rowLock

\* Session w ends: its transaction is gone and so are its locks.
End(w) ==
  /\ txn' = [txn EXCEPT ![w] = Blank]
  /\ advLock' = Released(advLock, w)
  /\ rowLock' = Released(rowLock, w)

\* Saturating count of the empty rows in a line.
DryAfter(dry, revived, found) ==
  LET before == IF revived THEN 0 ELSE dry
  IN  CASE found -> 0
        [] ~found /\ before < PauseAfter -> before + 1
        [] OTHER -> before

-----------------------------------------------------------------------------
(* Loading the source and deciding whether to run it. *)

Begin(w, s, mem, pc, revived) ==
  /\ txn[w].pc = "idle"
  /\ mem.empty < CounterBound
  /\ txn' = [txn EXCEPT ![w] = [Blank EXCEPT !.pc = pc, !.source = s,
                 !.mem = mem, !.draft = src[s], !.revived = revived]]
  /\ UNCHANGED <<src, age, log, stored, page, advLock, rowLock>>

Idle(W) == \A w \in W : txn[w].pc = "idle"

\* run_source up to the lock: a paused source in its cooldown is skipped, one
\* whose cooldown elapsed is re-activated in memory.  The sweep starts its
\* slots after the commit of its main session.
Dispatch(w, s) ==
  /\ w \in Sweepers => Idle(Schedulers)
  /\ src[s].paused => CooldownElapsed(s)
  /\ Begin(w, s, IF src[s].paused THEN Revived(src[s]) ELSE src[s],
           "loaded", src[s].paused)

\* POST /sources/{id}/run: dispatch_block_reason, then straight to the runner.
\* A paused source past its cooldown is neither blocked nor re-activated.
RequestRun(w, s) ==
  /\ IF src[s].paused THEN CooldownElapsed(s) ELSE ~log[s].open
  /\ Begin(w, s, src[s], "loaded", FALSE)

\* The sweep's main session reads a source paused for more than the cooldown;
\* the slots of the previous sweep are over.
ReadCooled(w, s) ==
  /\ Idle(Sweepers)
  /\ src[s].paused
  /\ age[s] # Never /\ age[s] > Cooldown
  /\ Begin(w, s, Revived(src[s]), "writeback", TRUE)

\* Mutant: the check for a running SourceRun alone, without the advisory lock.
AdmittedUnlocked(w) == ~log[txn[w].source].open

\* pg_try_advisory_xact_lock and the check for a running SourceRun.
Admitted(w) ==
  LET s == txn[w].source IN advLock[s] = NoOne /\ ~log[s].open

TryLock(w) ==
  /\ txn[w].pc = "loaded"
  /\ Admitted(w)
  /\ advLock' = [advLock EXCEPT ![txn[w].source] = w]
  /\ txn' = [txn EXCEPT ![w].pc = "locked"]
  /\ UNCHANGED <<src, age, log, stored, page, rowLock>>

\* run_source returned None: the sweep rolls back.
SweepSkip(w) ==
  /\ txn[w].pc = "loaded"
  /\ ~Admitted(w)
  /\ End(w)
  /\ UNCHANGED <<src, age, log, stored, page>>

\* run_source returned None: run-all commits, so a re-activation it made in
\* memory is still to be flushed.
RunAllSkip(w) ==
  /\ txn[w].pc = "loaded"
  /\ ~Admitted(w)
  /\ txn' = [txn EXCEPT ![w] = IF @.revived THEN [@ EXCEPT !.pc = "writeback"]
                                           ELSE Blank]
  /\ UNCHANGED <<src, age, log, stored, page, advLock, rowLock>>

\* Mutant: a re-activation that does not wait for the row lock.
CommitRevivalUnlocked(w) ==
  LET s == txn[w].source
  IN  /\ txn[w].pc = "writeback"
      /\ src' = [src EXCEPT ![s] = Flushed(@, txn[w].draft, txn[w].mem)]
      /\ log' = [log EXCEPT ![s].dry = 0]
      /\ End(w)
      /\ UNCHANGED <<age, stored, page>>

\* Flush and commit of a re-activation that runs nothing; it waits for the
\* row lock.  The main session of a sweep also marks stale 'running' rows as
\* failed in this transaction.
CommitRevival(w) ==
  LET s == txn[w].source
      stale == IF w \in Schedulers THEN {r \in Source : log[r].open} ELSE {}
      closed == [r \in Source |->
                  [last |-> IF r \in stale /\ log[r].last = "running"
                              THEN "failed" ELSE log[r].last,
                   open |-> log[r].open /\ r \notin stale,
                   dry  |-> log[r].dry]]
  IN  /\ txn[w].pc = "writeback"
      /\ rowLock[s] = NoOne
      /\ src' = [src EXCEPT ![s] = Flushed(@, txn[w].draft, txn[w].mem)]
      /\ log' = [closed EXCEPT ![s].dry = 0]
      /\ End(w)
      /\ UNCHANGED <<age, stored, page>>

-----------------------------------------------------------------------------
(* The run: run_source_inline. *)

\* Mutants of SetupRun: the row is not locked, last_run_at is not written, or
\* the 'running' row is committed before the scrape.
SetupRunUnlocked(w) ==
  LET t == txn[w]
  IN  /\ t.pc = (IF w \in Requests THEN "loaded" ELSE "locked")
      /\ txn' = [txn EXCEPT ![w] = [t EXCEPT !.pc = "scraping", !.age = 0,
                   !.draft = Flushed(src[t.source], t.draft, t.mem)]]
      /\ UNCHANGED <<src, age, log, stored, page, advLock, rowLock>>

\* _setup_run: the first flush takes the row lock and writes last_run_at.
SetupRun(w) ==
  LET s == txn[w].source
      t == txn[w]
  IN  /\ t.pc = (IF w \in Requests THEN "loaded" ELSE "locked")
      /\ rowLock[s] = NoOne
      /\ rowLock' = [rowLock EXCEPT ![s] = w]
      /\ txn' = [txn EXCEPT ![w] = [t EXCEPT !.pc = "scraping", !.age = 0,
                   !.draft = Flushed(src[s], t.draft, t.mem)]]
      /\ UNCHANGED <<src, age, log, stored, page, advLock>>

\* Mutant: lock_timeout = 0, a wait for a row has no end.
LockTimeoutOff(w) == FALSE /\ End(w)

\* The UPDATE waited lock_timeout for the row: the exception leaves the runner
\* and the caller rolls back.
LockTimeout(w) ==
  /\ txn[w].pc \in {"loaded", "locked", "writeback"}
  /\ rowLock[txn[w].source] \notin {NoOne, w}
  /\ txn[w].pc = "loaded" => w \in Requests
  /\ End(w)
  /\ UNCHANGED <<src, age, log, stored, page>>

\* Counters and pause flag after a run with or without items.
Counted(row, found) ==
  LET empty == IF found THEN 0 ELSE row.empty + 1
      sel   == IF found THEN 0 ELSE row.sel + 1
  IN  [row EXCEPT !.empty = empty, !.sel = sel,
         !.paused = IF empty >= PauseAfter \/ sel >= PauseAfter THEN TRUE ELSE @]

\* The last flush of the run, with the status that the commit will publish.
Finish(w, mem, status, found, full) ==
  /\ txn' = [txn EXCEPT ![w] = [@ EXCEPT !.pc = "finished", !.mem = mem,
               !.draft = Flushed(txn[w].draft, txn[w].mem, mem),
               !.status = status, !.found = found, !.full = full]]
  /\ UNCHANGED <<src, age, log, stored, page, advLock, rowLock>>

\* Fetched the page the stored fingerprint names: nothing is parsed, and
\* _finalize_run counts a success without items.
ScrapeUnchanged(w) ==
  LET t == txn[w] IN
  /\ t.pc = "scraping"
  /\ t.mem.dom = page[t.source]
  /\ Finish(w, Counted(t.mem, FALSE), "success", FALSE, FALSE)

\* Parsed a new page and no candidate survived.
ScrapeEmpty(w) ==
  LET t == txn[w] IN
  /\ t.pc = "scraping"
  /\ t.mem.dom # page[t.source]
  /\ Finish(w, Counted([t.mem EXCEPT !.dom = page[t.source]], FALSE),
            "degraded", FALSE, TRUE)

\* Parsed a new page with items; _update_dom_hash and the flush come before
\* the items are persisted.
ScrapeFound(w) ==
  LET t == txn[w]
      mem == [t.mem EXCEPT !.dom = page[t.source]]
  IN  /\ t.pc = "scraping"
      /\ t.mem.dom # page[t.source]
      /\ txn' = [txn EXCEPT ![w] = [t EXCEPT !.pc = "persisting", !.mem = mem,
                   !.draft = Flushed(t.draft, t.mem, mem)]]
      /\ UNCHANGED <<src, age, log, stored, page, advLock, rowLock>>

\* The loop over the items ended: all of them persisted, or some of them
\* failed, were over the cap or came after the deadline.
PersistDone(w) ==
  /\ txn[w].pc = "persisting"
  /\ \E full \in BOOLEAN :
       Finish(w, Counted(txn[w].mem, TRUE), "success", TRUE, full)

\* An exception or a timeout of the scrape or of the persist loop:
\* _handle_run_error.  Items flushed before it stay in the transaction.
RunError(w) ==
  /\ txn[w].pc \in {"scraping", "persisting"}
  /\ \E status \in {"failed", "degraded"} :
       /\ txn[w].pc = "persisting" => status = "failed"
       /\ Finish(w, Counted(txn[w].mem, FALSE), status, FALSE, FALSE)

\* A statement of the persist loop fails in the database: the transaction is
\* aborted, its locks are free, and the loop goes on without it.
Poison(w) ==
  /\ txn[w].pc = "persisting"
  /\ txn' = [txn EXCEPT ![w].pc = "poisoned"]
  /\ advLock' = Released(advLock, w)
  /\ rowLock' = Released(rowLock, w)
  /\ UNCHANGED <<src, age, log, stored, page>>

\* Mutant: the failed run is committed by a transaction of its own.
PoisonCommits(w) ==
  /\ txn[w].pc = "poisoned"
  /\ log' = [log EXCEPT ![txn[w].source].last = "failed"]
  /\ End(w)
  /\ UNCHANGED <<src, age, stored, page>>

\* The next flush of a poisoned session raises; so does the error handler's,
\* and the caller rolls back.
PoisonRaises(w) ==
  /\ txn[w].pc = "poisoned"
  /\ End(w)
  /\ UNCHANGED <<src, age, log, stored, page>>

\* Cancellation, shutdown, crash or a lost connection: rollback.  What the
\* CancelledError handler wrote into the run goes with it.
Abort(w) ==
  /\ txn[w].pc # "idle"
  /\ End(w)
  /\ UNCHANGED <<src, age, log, stored, page>>

\* The hard budget of run-all: rollback, then _fail_hung_source_runs.
HardBudget(w) ==
  LET s == txn[w].source IN
  /\ txn[w].pc \in {"scraping", "persisting", "poisoned"}
  /\ End(w)
  /\ log' = [log EXCEPT ![s].open = FALSE,
               ![s].last = IF @ = "running" THEN "failed" ELSE @]
  /\ UNCHANGED <<src, age, stored, page>>

\* The caller commits: the row, the run and its items become visible at once.
CommitRun(w) ==
  LET t == txn[w]
      s == t.source
  IN  /\ t.pc = "finished"
      /\ src' = [src EXCEPT ![s] = t.draft]
      /\ age' = [age EXCEPT ![s] = t.age]
      /\ log' = [log EXCEPT ![s] = [last |-> t.status, open |-> log[s].open,
                   dry |-> DryAfter(log[s].dry, t.revived, t.found)]]
      /\ stored' = [stored EXCEPT ![s] = IF t.full THEN @ \cup {t.mem.dom} ELSE @]
      /\ End(w)
      /\ UNCHANGED page

-----------------------------------------------------------------------------
(* The environment: the clock and the sites. *)

Older(n) == IF n <= Cooldown THEN n + 1 ELSE n

Tick ==
  /\ age' = [s \in Source |-> IF age[s] = Never THEN Never ELSE Older(age[s])]
  /\ txn' = [w \in Session |->
               IF txn[w].pc \in {"scraping", "persisting", "finished"}
                 THEN [txn[w] EXCEPT !.age = Older(@)] ELSE txn[w]]
  /\ UNCHANGED <<src, log, stored, page, advLock, rowLock>>

SiteChanges(s) ==
  /\ page' \in {[page EXCEPT ![s] = p] : p \in Page \ {page[s]}}
  /\ UNCHANGED <<src, age, log, stored, advLock, rowLock, txn>>

-----------------------------------------------------------------------------

\* What a started run does until it is over; which outcome is up to the site.
Progress(w) ==
  \/ SetupRun(w) \/ LockTimeout(w)
  \/ ScrapeUnchanged(w) \/ ScrapeEmpty(w) \/ ScrapeFound(w)
  \/ PersistDone(w) \/ RunError(w) \/ PoisonRaises(w) \/ CommitRun(w)

\* A dispatched session leaves the lock decision.
LockDecision(w) ==
  \/ TryLock(w)
  \/ w \in Sweepers /\ SweepSkip(w)
  \/ w \in RunAllThreads /\ (RunAllSkip(w) \/ CommitRevival(w))

Revive(w) == (\E s \in Source : ReadCooled(w, s)) \/ LockTimeout(w)

Next ==
  \/ \E w \in Scrapers : Progress(w) \/ Poison(w)
  \/ \E w \in Dispatchers : LockDecision(w) \/ \E s \in Source : Dispatch(w, s)
  \/ \E w \in RunAllThreads : HardBudget(w)
  \/ \E w \in Requests, s \in Source : RequestRun(w, s)
  \/ \E w \in Schedulers : Revive(w) \/ CommitRevival(w)
  \/ \E w \in Session : Abort(w)
  \/ Tick
  \/ \E s \in Source : SiteChanges(s)

Spec == Init /\ [][Next]_vars

\* Every await of a run has a timeout, a wait for a row ends in lock_timeout
\* and the clock advances, so a session that started moves on.  The main
\* session of the sweep opens every round of slots (strong fairness: the slots
\* of each round disable it for a while), and some of its commits get through.
\* Nothing makes a dispatch, a request or a change of the site happen.
Fairness ==
  /\ \A w \in Requests : WF_vars(Progress(w))
  /\ \A w \in Dispatchers : WF_vars(Progress(w) \/ LockDecision(w))
  /\ \A w \in Schedulers : /\ WF_vars(Revive(w) \/ CommitRevival(w))
                           /\ SF_vars(\E s \in Source : ReadCooled(w, s))
                           /\ SF_vars(CommitRevival(w))
  /\ WF_vars(Tick)

FairSpec == Spec /\ Fairness

-----------------------------------------------------------------------------
(* Properties. *)

\* Type invariant of the sessions, the locks and the committed tables.
TypeOK ==
  /\ src \in [Source -> Row]
  /\ age \in [Source -> Nat \cup {Never}]
  /\ log \in [Source -> RunLog]
  /\ stored \in [Source -> SUBSET (Page \cup {NoHash})]
  /\ page \in [Source -> Page]
  /\ advLock \in [Source -> Dispatchers \cup {NoOne}]
  /\ rowLock \in [Source -> Scrapers \cup {NoOne}]
  /\ txn \in [Session -> Txn]

\* w has written to the row of s and can still commit.
LiveOn(w, s) ==
  txn[w].source = s /\ txn[w].pc \in {"scraping", "persisting", "finished"}

\* One source is never scraped by two transactions that can both commit,
\* although requests take no advisory lock (dispatcher.run_source, run_source
\* of api/v1/sources.py): the flush of _setup_run is what keeps them apart.
OneLiveRun ==
  \A s \in Source : \A v, w \in Scrapers : LiveOn(v, s) /\ LiveOn(w, s) => v = w

\* A sweep slot never waits for a row that another sweep slot holds.  The slots
\* share one event loop and the wait blocks its thread, so the holder could
\* not go on to release the row.  The advisory lock must be tried first.
SlotsNeverBlockEachOther ==
  \A w \in Sweepers : txn[w].pc = "locked" => rowLock[txn[w].source] \notin Sweepers

\* No committed source_runs row is ever 'running': whatever a run meets, its
\* row is committed with its outcome or not at all.
NoOpenRun == \A s \in Source : ~log[s].open /\ log[s].last # "running"

\* While a run is live nobody else changes the committed row of its source,
\* so the run's own UPDATEs never overwrite columns changed under it.
RowOwned ==
  \A s \in Source :
    rowLock[s] # NoOne /\ src'[s] # src[s]
      => txn[rowLock[s]].pc = "finished" /\ rowLock'[s] = NoOne

RowOwnedDuringRun == [][RowOwned]_vars

\* The runs of a source keep the promise of RunLease: the row lock is the
\* lease, the newest committed source_runs row is what is recorded.
Lease == INSTANCE RunLease WITH
  Worker <- Scrapers, Outcome <- {"success", "degraded", "failed"},
  NoOutcome <- "none", active <- rowLock, last <- [s \in Source |-> log[s].last]

ImplementsLease == Lease!Spec

\* The same with the promise that every run ends.
ImplementsFairLease == Lease!FairSpec

\* The commit that pauses a source is the last of PauseAfter empty ones.
PauseNeedsStreak ==
  [][\A s \in Source : ~src[s].paused /\ src'[s].paused
       => log'[s].dry = PauseAfter]_vars

\* The two counters the runner keeps never disagree, below the threshold they
\* are the number of empty runs in the table, and a source is paused only when
\* its last PauseAfter runs, since it last had items or was re-activated, found
\* nothing (should_auto_pause).
CountersMatchLog ==
  \A s \in Source :
    /\ src[s].empty = src[s].sel
    /\ src[s].empty < PauseAfter => log[s].dry = src[s].empty
    /\ src[s].empty >= PauseAfter => log[s].dry = PauseAfter
    /\ src[s].paused => log[s].dry = PauseAfter

\* The comment of _finalize_run: an unchanged page is a successful monitoring
\* tick, not degradation.  A source whose newest run succeeded is not paused.
SuccessNotPaused ==
  \A s \in Source : log[s].last = "success" => ~src[s].paused

\* The stored fingerprint names a page whose items are all in the database:
\* only then is there, as _finalize_run has it, simply nothing new when the
\* page is met again.
FingerprintMeansStored ==
  \A s \in Source : src[s].dom # NoHash => src[s].dom \in stored[s]

\* POST /sources/{id}/run answers 409 when a run of the source is in progress
\* and so never starts beside one.
RequestsMeetNoLiveRun ==
  [][\A q \in Requests :
       txn[q].pc = "idle" /\ txn'[q].pc = "loaded"
         => \A w \in Scrapers : ~LiveOn(w, txn'[q].source)]_vars

\* Every session that loaded a source ends, whoever holds its locks.
SessionsEnd ==
  \A w \in Session : txn[w].pc # "idle" ~> txn[w].pc = "idle"

\* No source stays paused for ever (the cooldown of dispatcher.py).
PauseEnds == \A s \in Source : src[s].paused ~> ~src[s].paused
=============================================================================

--------------------------- MODULE OpportunityStore ---------------------------
(***************************************************************************)
(* Table opportunities and what hangs from its rows, written by three      *)
(* kinds of transaction:                                                   *)
(*   runs   _persist_opportunities: one create_opportunity per candidate,  *)
(*          in the transaction of the run (ScrapeRuns has its other half)  *)
(*   users  favourites, scores, faculty matches and alerts                 *)
(*   admin  POST /admin/opportunities/deduplicate                          *)
(*                                                                         *)
(* PostgreSQL under READ COMMITTED and sessions without autoflush: a query *)
(* of a run sees the committed rows and what the run has flushed, and the  *)
(* flush that inserts a row first takes the row lock of every row the run  *)
(* changed since the flush before it.  A flush is a blocking call: while   *)
(* one run of the event loop is inside it no other run of the loop moves.  *)
(***************************************************************************)
EXTENDS Naturals, FiniteSets, Sequences

CONSTANTS
  Runs,        \* scrape runs, each one transaction
  Loop,        \* the runs that share the sweep's event loop
  SourceOf,    \* the source a run scrapes
  OrgOf,       \* the organisation a run writes for
  Orgs, NoOrg, \* organisations; opportunities.organization_id IS NULL
  Page,        \* candidates a source shows: source -> set of candidates
  Tables,      \* what the table may hold before the first run: id -> row
  Dying,       \* URLs that may not answer the HEAD request
  Within,      \* <<a, b>>: identifier a is part of the text of identifier b
  NoUrl, NoExt, NoNum, NoClose,   \* columns that are NULL
  NoItem,      \* no candidate is being inserted
  Keep,        \* a column that is not in the UPDATE
  Marking,     \* bound of the model: <<user's organisation, row>> users act on
  MarksPerRow, \* bound of the model: favourite, match and alerts of one row
  MaxRows      \* ids: enough for every candidate of every run

Ids == 1 .. MaxRows

ASSUME StoreAssumption ==
  /\ Loop \subseteq Runs
  /\ NoOrg \notin Orgs
  /\ OrgOf \in [Runs -> Orgs]
  /\ \A seed \in Tables : DOMAIN seed \subseteq Ids
  /\ MaxRows \in Nat

\* A candidate carries the source it was scraped from.
ASSUME PageAssumption == \A r \in Runs : \A c \in Page[SourceOf[r]] : c.src = SourceOf[r]

\* The columns of the table, and the external ids of one source and organisation.
RowColumns == {"src", "ext", "url", "num", "title", "slug", "close", "org",
               "fav", "scored", "emb", "alerts", "matched"}
IsRow(row) ==
  /\ row = [f \in RowColumns |-> row[f]]
  /\ row.fav \in BOOLEAN /\ row.emb \in BOOLEAN
SameCallId(x, y) ==
  x.ext # NoExt /\ x.ext = y.ext /\ x.src = y.src /\ x.org = y.org
NoTwins(tbl) == \A i, j \in DOMAIN tbl : SameCallId(tbl[i], tbl[j]) => i = j

\* The runs keep external ids apart; the rows they start from must be so.
ASSUME SeedAssumption ==
  \A seed \in Tables : NoTwins(seed) /\ \A i \in DOMAIN seed : IsRow(seed[i])

VARIABLES
  rows,    \* committed opportunities: id -> Row
  used,    \* ids given so far, committed or not
  txn      \* per run

storeVars == <<rows, used, txn>>


\* A row: the columns the lookups read, and the relations of the row.
Row(c, url, org) ==
  [src |-> c.src, ext |-> c.ext, url |-> url, num |-> c.num, title |-> c.title,
   slug |-> c.title, close |-> c.close, org |-> org,
   fav |-> FALSE, scored |-> {}, emb |-> FALSE, alerts |-> {}, matched |-> FALSE]

NoTxn == [pc |-> "idle", todo |-> {}, item |-> NoItem, url |-> NoUrl,
          mem |-> <<>>, sent |-> <<>>, fresh |-> <<>>, scored |-> {}, emb |-> {},
          created |-> 0, updated |-> 0, failed |-> 0]

Ended == [NoTxn EXCEPT !.pc = "ended"]

StoreInit ==
  /\ rows \in Tables
  /\ used = DOMAIN rows
  /\ txn = [r \in Runs |-> NoTxn]

-----------------------------------------------------------------------------
(* Keys, visibility and the five lookups of create_opportunity. *)

\* opportunity_dedup_key: the identifier in the URL, else the URL, else the
\* number in the text, else the title.
KeyOf(x) ==
  CASE x.url # NoUrl -> <<x.url.kind, x.url.id>>
    [] x.url = NoUrl /\ x.num # NoNum -> <<"number", x.num>>
    [] OTHER -> <<"title", x.title>>

\* Mutant: a scope without the organisation.
AnyScope(row, org) == TRUE

InScope(row, org) == row.org \in {org, NoOrg}

Or(new, old) == IF new = Keep THEN old ELSE new

\* The row with the columns c of an UPDATE.
Updated(row, c) ==
  [row EXCEPT !.url = Or(c.url, @), !.num = Or(c.num, @),
              !.title = Or(c.title, @), !.close = Or(c.close, @)]

Over(f, g) == [i \in DOMAIN f \cup DOMAIN g |-> IF i \in DOMAIN g THEN g[i] ELSE f[i]]

Patch(tbl, cols) ==
  [i \in DOMAIN tbl |-> IF i \in DOMAIN cols THEN Updated(tbl[i], cols[i]) ELSE tbl[i]]

\* What the queries of run r see, and what its objects hold.
View(r) == Patch(Over(rows, txn[r].fresh), txn[r].sent)
Objects(r) == Patch(View(r), txn[r].mem)

Oldest(s) == {i \in s : \A j \in s : i <= j}

SameExternal(tbl, c, org) ==
  {i \in DOMAIN tbl : /\ c.ext # NoExt
                      /\ tbl[i].src = c.src /\ tbl[i].ext = c.ext
                      /\ InScope(tbl[i], org)}

\* The external ids made of the key (candidate_external_id) cross sources.
SameKeyId(tbl, c, org) ==
  {i \in DOMAIN tbl : /\ c.ext # NoExt /\ c.ext.made
                      /\ tbl[i].ext = c.ext /\ InScope(tbl[i], org)}

UrlHolds(row, kinds, id) ==
  row.url # NoUrl /\ row.url.kind \in kinds /\ <<id, row.url.id>> \in Within

\* find_duplicate_opportunity.  A grants.gov id is looked for in the text of
\* the URL with nothing after it, so the URL of a longer id matches; simpler
\* and tender keys have no lookup.
SameCall(tbl, c, url, org) ==
  LET k == KeyOf([c EXCEPT !.url = url])
  IN  {i \in DOMAIN tbl : InScope(tbl[i], org) /\
         CASE k[1] = "grants" -> UrlHolds(tbl[i], {"grants", "simpler"}, k[2])
           [] k[1] = "topic"  -> UrlHolds(tbl[i], {"grants", "simpler", "topic", "plain"}, k[2])
           [] k[1] = "number" -> tbl[i].num # NoNum /\ <<k[2], tbl[i].num>> \in Within
           [] k[1] = "plain"  ->
                /\ tbl[i].url # NoUrl /\ tbl[i].url.kind = "plain" /\ tbl[i].url.id = k[2]
                /\ ~(tbl[i].src = c.src /\ c.ext # NoExt
                       /\ tbl[i].ext \notin {NoExt, c.ext})
           [] k[1] = "title"  -> c.close # NoClose /\ tbl[i].close = c.close
                                   /\ tbl[i].title = c.title
           [] OTHER -> FALSE}

SameUrl(tbl, c, url, org) ==
  {i \in DOMAIN tbl : /\ url # NoUrl /\ tbl[i].url = url /\ tbl[i].src = c.src
                      /\ InScope(tbl[i], org)
                      /\ c.ext # NoExt => tbl[i].ext \in {NoExt, c.ext}}

SameSlug(tbl, c, org) ==
  {i \in DOMAIN tbl : /\ InScope(tbl[i], org)
                      /\ tbl[i].slug = c.title /\ tbl[i].close = c.close}

\* The rows one of which the candidate is folded into: those of the first
\* lookup that finds any.
Matches(tbl, c, url, org) ==
  LET found == << SameExternal(tbl, c, org), Oldest(SameKeyId(tbl, c, org)),
                  Oldest(SameCall(tbl, c, url, org)), SameUrl(tbl, c, url, org),
                  SameSlug(tbl, c, org) >>
      hits == {n \in DOMAIN found : found[n] # {}}
  IN  IF hits = {} THEN {} ELSE found[CHOOSE n \in hits : \A m \in hits : n <= m]

-----------------------------------------------------------------------------
(* One run. *)

\* The HEAD request before the lookups: a dead URL is stored as NULL.
Reached(url) == IF url \in Dying THEN {url, NoUrl} ELSE {url}

InFlush(r) == txn[r].pc \in {"inserting", "finishing"}
Live(r) == txn[r].pc \in {"items", "inserting", "finishing", "flushed", "lost"}

\* Another run of the event loop is inside a flush.
Frozen(r) == r \in Loop /\ \E q \in Loop \ {r} : InFlush(q)

\* Mutant: no lock on the source row.
StartUnlocked(r) ==
  /\ txn[r].pc = "idle" /\ ~Frozen(r)
  /\ txn' = [txn EXCEPT ![r] = [NoTxn EXCEPT !.pc = "items",
                                             !.todo = Page[SourceOf[r]]]]
  /\ UNCHANGED <<rows, used>>

\* The source row lock of _setup_run keeps the runs of a source apart.
Start(r) ==
  /\ txn[r].pc = "idle" /\ ~Frozen(r)
  /\ \A q \in Runs \ {r} : Live(q) => SourceOf[q] # SourceOf[r]
  /\ txn' = [txn EXCEPT ![r] = [NoTxn EXCEPT !.pc = "items",
                                             !.todo = Page[SourceOf[r]]]]
  /\ UNCHANGED <<rows, used>>

Diff(loaded, new) == IF new = loaded THEN Keep ELSE new

\* _update_opportunity: title and url follow the page, a stored close stays.
Columns(row, c, url) ==
  [url |-> Diff(row.url, url), num |-> IF c.num = NoNum THEN Keep ELSE Diff(row.num, c.num),
   title |-> Diff(row.title, c.title),
   close |-> IF row.close = NoClose THEN Diff(row.close, c.close) ELSE Keep]

Merge(cols, i, c) ==
  Over(cols, [j \in {i} |->
    IF i \in DOMAIN cols
      THEN [f \in DOMAIN c |-> Or(c[f], cols[i][f])] ELSE c])

\* The candidate is a known call: its row is updated in memory, embedded and
\* scored.  A timeout of the item in the embedding loses the count and the score.
Folded(r, c, url, i, done) ==
  LET t == txn[r]
      slugHit == i \notin SameExternal(View(r), c, OrgOf[r]) \cup SameKeyId(View(r), c, OrgOf[r])
                   \cup SameCall(View(r), c, url, OrgOf[r]) \cup SameUrl(View(r), c, url, OrgOf[r])
  IN  [t EXCEPT !.todo = @ \ {c},
                !.mem = Merge(@, i, Columns(Objects(r)[i], c, url)),
                !.emb = IF done /\ ~View(r)[i].emb THEN @ \cup {i} ELSE @,
                !.scored = IF done /\ ~slugHit /\ OrgOf[r] \notin View(r)[i].scored
                             THEN @ \cup {i} ELSE @,
                !.updated = IF done THEN @ + 1 ELSE @,
                !.failed = IF done THEN @ ELSE @ + 1]

Fold(r, c) ==
  \E url \in Reached(c.url), done \in BOOLEAN :
    \E i \in Matches(View(r), c, url, OrgOf[r]) :
      txn' = [txn EXCEPT ![r] = Folded(r, c, url, i, done)]

\* Nothing matches: the flush that inserts the row begins.
BeginInsert(r, c) ==
  \E url \in Reached(c.url) :
    /\ Matches(View(r), c, url, OrgOf[r]) = {}
    /\ txn' = [txn EXCEPT ![r].pc = "inserting", ![r].item = c, ![r].url = url]

\* Noise, or a timeout before the lookups.
Reject(r, c) ==
  txn' = [txn EXCEPT ![r].todo = @ \ {c}, ![r].failed = @ + 1]

PersistItem(r) ==
  /\ txn[r].pc = "items" /\ ~Frozen(r)
  /\ \E c \in txn[r].todo : Fold(r, c) \/ BeginInsert(r, c) \/ Reject(r, c)
  /\ UNCHANGED <<rows, used>>

\* Rows the flush of r must lock, and those it can no longer write.
Dirty(r) == DOMAIN txn[r].mem \ DOMAIN txn[r].fresh
LockFree(r) == \A q \in Runs \ {r} : Live(q) => Dirty(r) \cap DOMAIN txn[q].sent = {}
Doomed(r) ==
  \/ ~(Dirty(r) \subseteq DOMAIN rows)
  \/ \E i \in DOMAIN rows :
       \/ i \in txn[r].scored /\ OrgOf[r] \in rows[i].scored
       \/ i \in txn[r].emb /\ rows[i].emb

Sent(r) == Over(txn[r].sent, [i \in DOMAIN txn[r].mem |->
  IF i \in DOMAIN txn[r].sent
    THEN [f \in DOMAIN txn[r].mem[i] |-> Or(txn[r].mem[i][f], txn[r].sent[i][f])]
    ELSE txn[r].mem[i]])

\* The flush of an insert.  The embedding that follows may run into the
\* item's timeout: the row stays, counted as failed.
Inserted(r, i, done) ==
  LET t == txn[r]
  IN  [t EXCEPT !.pc = "items", !.item = NoItem, !.url = NoUrl,
                !.todo = @ \ {t.item},
                !.fresh = Over(@, [n \in {i} |-> Row(t.item, t.url, OrgOf[r])]),
                !.sent = Sent(r), !.mem = <<>>,
                !.scored = IF done THEN @ \cup {i} ELSE @,
                !.emb = IF done THEN @ \cup {i} ELSE @,
                !.created = IF done THEN @ + 1 ELSE @,
                !.failed = IF done THEN @ ELSE @ + 1]

NextId == CHOOSE n \in Ids \ used : \A m \in Ids \ used : n <= m

Insert(r) ==
  /\ txn[r].pc = "inserting" /\ LockFree(r) /\ ~Doomed(r)
  /\ Ids \ used # {}   \* bound of the model
  /\ \E done \in BOOLEAN : txn' = [txn EXCEPT ![r] = Inserted(r, NextId, done)]
  /\ used' = used \cup {NextId}
  /\ UNCHANGED rows

\* Mutant: a wait for a row without end.
NoLockTimeout(r) ==
  /\ InFlush(r) /\ LockFree(r) /\ Doomed(r)
  /\ txn' = [txn EXCEPT ![r].pc = "lost"]
  /\ UNCHANGED <<rows, used>>

\* A flush that fails, or waits for a row beyond lock_timeout, leaves a session
\* that can only be rolled back.
FlushFails(r) ==
  /\ InFlush(r)
  /\ LockFree(r) => Doomed(r)
  /\ txn' = [txn EXCEPT ![r].pc = "lost"]
  /\ UNCHANGED <<rows, used>>

\* The candidates are done, or the time budget is: the last flush begins.
BeginFinish(r) ==
  /\ txn[r].pc = "items" /\ ~Frozen(r)
  /\ txn' = [txn EXCEPT ![r].pc = "finishing"]
  /\ UNCHANGED <<rows, used>>

FlushRun(r) ==
  /\ txn[r].pc = "finishing" /\ LockFree(r) /\ ~Doomed(r)
  /\ txn' = [txn EXCEPT ![r].pc = "flushed", ![r].sent = Sent(r), ![r].mem = <<>>]
  /\ UNCHANGED <<rows, used>>

\* The rows after the commit of run r.
Merged(r) ==
  LET t == txn[r]
      tbl == View(r)
  IN  [i \in DOMAIN tbl |->
        [tbl[i] EXCEPT !.scored = IF i \in t.scored THEN @ \cup {OrgOf[r]} ELSE @,
                       !.emb = @ \/ i \in t.emb]]

CommitRows(r) ==
  /\ txn[r].pc = "flushed" /\ ~Frozen(r)
  /\ rows' = Merged(r)
  /\ txn' = [txn EXCEPT ![r] = Ended]
  /\ UNCHANGED used

\* The rollback of a lost run, and a cancellation or a crash at any point.
Rollback(r) ==
  /\ txn[r].pc = "lost" /\ ~Frozen(r)
  /\ txn' = [txn EXCEPT ![r] = Ended]
  /\ UNCHANGED <<rows, used>>

Crash(r) ==
  /\ Live(r)
  /\ txn' = [txn EXCEPT ![r] = Ended]
  /\ UNCHANGED <<rows, used>>

-----------------------------------------------------------------------------
(* Users and administrators: one short transaction each. *)

\* No live run holds the lock of a row of s.
Unlocked(s) == \A r \in Runs : Live(r) => s \cap DOMAIN txn[r].sent = {}

\* Favourite, score, faculty match and alert of a row that organisation org sees.
Favourite(i) == \E on \in BOOLEAN : rows' = [rows EXCEPT ![i].fav = on]
Score(org, i) == rows' = [rows EXCEPT ![i].scored = @ \cup {org}, ![i].emb = TRUE]
MatchFaculty(org, i) == rows' = [rows EXCEPT ![i].matched = TRUE]
RaiseAlert(org, i) == rows' = [rows EXCEPT ![i].alerts = @ \cup {org}]

Marks(row) == Cardinality({n \in 1 .. 3 : <<row.fav, row.matched, row.alerts # {}>>[n]})

UserMarks(org, i) ==
  /\ InScope(rows[i], org) /\ Unlocked({i})
  /\ Favourite(i) \/ Score(org, i) \/ MatchFaculty(org, i) \/ RaiseAlert(org, i)
  /\ rows' # rows /\ Marks(rows'[i]) <= MarksPerRow
  /\ UNCHANGED <<used, txn>>

\* deduplicate_opportunities: rows with the same key, oldest first.
Visible(org) == {i \in DOMAIN rows : InScope(rows[i], org)}
Group(org, i) == {j \in Visible(org) : KeyOf(rows[j]) = KeyOf(rows[i])}
Duplicates(org) == {i \in Visible(org) : \E j \in Group(org, i) : j < i}

\* The reassignment is one flush, without autoflush between the rows of a
\* group: two duplicates that both bring a score of one organisation or an
\* embedding break the unique index, and a faculty match of a duplicate,
\* which is not reassigned, breaks its foreign key.
CannotMerge(org) ==
  \E i \in Duplicates(org) :
    \/ rows[i].matched
    \/ \E j \in (Duplicates(org) \cap Group(org, i)) \ {i} :
         LET s == CHOOSE n \in Group(org, i) : \A m \in Group(org, i) : n <= m
         IN  \/ rows[i].emb /\ rows[j].emb /\ ~rows[s].emb
             \/ (rows[i].scored \cap rows[j].scored) \ rows[s].scored # {}

\* Mutant: a merge that forgets a column.
SurvivorWithoutFavourite(row, gone) ==
  [row EXCEPT !.scored = @ \cup UNION {d.scored : d \in gone},
              !.emb = @ \/ \E d \in gone : d.emb,
              !.alerts = @ \cup UNION {d.alerts : d \in gone}]

\* What the survivor of a group is after the reassignment.
Survivor(row, gone) ==
  [row EXCEPT !.fav = @ \/ \E d \in gone : d.fav,
              !.scored = @ \cup UNION {d.scored : d \in gone},
              !.emb = @ \/ \E d \in gone : d.emb,
              !.alerts = @ \cup UNION {d.alerts : d \in gone}]

Deduplicate(org) ==
  /\ Duplicates(org) # {} /\ ~CannotMerge(org)
  /\ Unlocked(UNION {Group(org, i) : i \in Duplicates(org)})
  /\ rows' = [i \in DOMAIN rows \ Duplicates(org) |->
       IF i \in Visible(org)
         THEN Survivor(rows[i], {rows[j] : j \in Group(org, i) \ {i}}) ELSE rows[i]]
  /\ UNCHANGED <<used, txn>>

-----------------------------------------------------------------------------

Progresses(r) ==
  \/ Insert(r) \/ FlushFails(r) \/ BeginFinish(r)
  \/ FlushRun(r) \/ CommitRows(r) \/ Rollback(r)

StoreNext ==
  \/ \E r \in Runs : Start(r) \/ PersistItem(r) \/ Progresses(r) \/ Crash(r)
  \/ \E m \in Marking : m[2] \in DOMAIN rows /\ UserMarks(m[1], m[2])
  \/ \E org \in Orgs : Deduplicate(org)

StoreSpec == StoreInit /\ [][StoreNext]_storeVars

\* The time budget ends the loop over the candidates (BeginFinish), a wait for
\* a row ends in lock_timeout (db/session.py), and the event loop runs what is
\* ready.
FairStore == StoreSpec /\ \A r \in Runs : WF_storeVars(Progresses(r))

-----------------------------------------------------------------------------
(* Properties. *)

\* External ids stay unique per source and organisation although no constraint
\* says so: the lookup of create_opportunity and the row lock of the source
\* do, whatever other runs and the deduplication do in between.
OneRowPerExternalId == NoTwins(rows)

\* A run never writes the row of another organisation, whichever of the five
\* lookups found it.
RunsStayInScope ==
  \A r \in Runs : \A i \in DOMAIN txn[r].mem \cup DOMAIN txn[r].sent :
    i \in DOMAIN rows => rows[i].org \in {OrgOf[r], NoOrg}

\* A row disappears only when an older row with its key takes over its
\* favourite, scores, alerts and embedding.
MergeKeepsMarks ==
  [][\A i \in DOMAIN rows \ DOMAIN rows' :
       \E j \in DOMAIN rows' :
         /\ j < i /\ KeyOf(rows'[j]) = KeyOf(rows[i])
         /\ rows[i].fav => rows'[j].fav
         /\ rows[i].scored \subseteq rows'[j].scored
         /\ rows[i].alerts \subseteq rows'[j].alerts
         /\ rows[i].emb => rows'[j].emb]_storeVars

\* The comment of _update_opportunity: "never overwriting a stored close".
CloseNeverReplaced ==
  [][\A i \in DOMAIN rows \cap DOMAIN rows' :
       rows[i].close # NoClose => rows'[i].close = rows[i].close]_storeVars

\* Every run ends, also when it waits for a row another run of its own event
\* loop holds: lock_timeout is what frees the loop.
RunsEnd == \A r \in Runs : Live(r) ~> ~Live(r)

\* README.md: "URL hash + external ID deduplication across runs".  An
\* organisation never sees two committed rows of one external id made from
\* the key of the call.
NoTwinsAcrossRuns ==
  \A i, j \in DOMAIN rows :
    /\ rows[i].ext # NoExt /\ rows[i].ext.made /\ rows[i].ext = rows[j].ext
    /\ rows[i].org = rows[j].org
    => i = j

\* db/session.py bounds the waits "so failures stay local": no run of the
\* sweep's event loop waits for a row that another run of the loop holds.
LoopNeverBlocksItself ==
  \A r \in Loop : InFlush(r) =>
    \A q \in Loop \ {r} : Live(q) => Dirty(r) \cap DOMAIN txn[q].sent = {}
=============================================================================

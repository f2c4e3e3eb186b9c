------------------------ MODULE OpportunityStoreProofs ------------------------
(***************************************************************************)
(* Proofs about OpportunityStore, for any runs, sources, organisations and *)
(* pages: external ids stay unique, runs stay in their organisation, and a *)
(* deduplication loses no mark of a row.                                   *)
(***************************************************************************)
EXTENDS OpportunityStore, FiniteSetTheorems, TLAPS

USE StoreAssumption

-----------------------------------------------------------------------------
(* The least element of a set of numbers. *)

UpTo(T, x) == {y \in T : y <= x}

\* Every set of numbers that is not empty has a least one: of the finite sets
\* of numbers up to a member, one is minimal.
LEMMA LeastElement ==
  ASSUME NEW T \in SUBSET Nat, T # {}
  PROVE  \E x \in T : \A y \in T : x <= y
<1> DEFINE Parts == {UpTo(T, x) : x \in T}
           Smaller == StrictSubsetOrdering(Nat)
<1>1. \A x \in T : UpTo(T, x) \in FiniteSubsetsOf(Nat)
  <2> SUFFICES ASSUME NEW x \in T PROVE UpTo(T, x) \in FiniteSubsetsOf(Nat)
    OBVIOUS
  <2>1. UpTo(T, x) \in SUBSET Nat /\ x \in Nat /\ \A s \in UpTo(T, x) : s <= x
    BY DEF UpTo
  <2>2. IsFiniteSet(UpTo(T, x))
    BY <2>1, FS_BoundedSetOfNaturals
  <2> QED
    BY <2>1, <2>2 DEF FiniteSubsetsOf
<1>2. IsWellFoundedOn(Smaller, FiniteSubsetsOf(Nat))
  BY FS_StrictSubsetOrderingWellFounded
<1>3. Parts \subseteq FiniteSubsetsOf(Nat) /\ Parts # {}
  BY <1>1
<1>4. PICK U \in Parts : \A V \in Parts : <<V, U>> \notin Smaller
  <2> HIDE DEF Parts, Smaller
  <2> QED
    BY <1>2, <1>3, WFMin
<1>5. PICK x \in T : U = UpTo(T, x)
  OBVIOUS
<1>6. ASSUME NEW y \in T, ~(x <= y) PROVE FALSE
  <2>1. T \subseteq Nat /\ x \in Nat /\ y \in Nat /\ y < x
    BY <1>6
  <2>2. UpTo(T, y) \subseteq UpTo(T, x) /\ x \in UpTo(T, x) /\ x \notin UpTo(T, y)
    <3>1. \A z \in Nat : z <= y => z <= x
      BY <2>1
    <3>2. x <= x /\ ~(x <= y)
      BY <2>1
    <3> QED
      BY <2>1, <3>1, <3>2 DEF UpTo
  <2>3. UpTo(T, x) \subseteq Nat /\ UpTo(T, y) \subseteq Nat
    BY DEF UpTo
  <2>4. <<UpTo(T, y), U>> \in Smaller
    BY <2>2, <2>3, <1>5 DEF StrictSubsetOrdering
  <2> QED
    BY <2>4, <1>4
<1> QED
  BY <1>6

-----------------------------------------------------------------------------
(* Rows, tables and lookups. *)

\* The columns that no operation on a row changes.
SameIdentity(x, y) == x.src = y.src /\ x.ext = y.ext /\ x.org = y.org
IsTable(tbl) == \A i \in DOMAIN tbl : IsRow(tbl[i])

\* An UPDATE of a run leaves source, external id and organisation alone.
LEMMA UpdatedKeeps ==
  ASSUME NEW row, IsRow(row), NEW c
  PROVE  IsRow(Updated(row, c)) /\ SameIdentity(Updated(row, c), row)
BY DEF IsRow, Updated, SameIdentity, RowColumns

\* So does a batch of them.
LEMMA PatchKeeps ==
  ASSUME NEW tbl, IsTable(tbl), NEW cols
  PROVE  /\ DOMAIN Patch(tbl, cols) = DOMAIN tbl
         /\ IsTable(Patch(tbl, cols))
         /\ \A i \in DOMAIN tbl : SameIdentity(Patch(tbl, cols)[i], tbl[i])
BY UpdatedKeeps DEF IsTable, Patch, SameIdentity

\* A new row is a row.
LEMMA RowIsRow ==
  ASSUME NEW c, NEW url, NEW org
  PROVE  /\ IsRow(Row(c, url, org))
         /\ Row(c, url, org).src = c.src /\ Row(c, url, org).ext = c.ext
         /\ Row(c, url, org).org = org
BY DEF IsRow, Row, RowColumns

\* Whatever the lookups find is a row that the organisation sees.
LEMMA MatchesInScope ==
  ASSUME NEW tbl, NEW c, NEW url, NEW org, NEW i \in Matches(tbl, c, url, org)
  PROVE  i \in DOMAIN tbl /\ InScope(tbl[i], org)
<1> DEFINE found == << SameExternal(tbl, c, org), Oldest(SameKeyId(tbl, c, org)),
                       Oldest(SameCall(tbl, c, url, org)), SameUrl(tbl, c, url, org),
                       SameSlug(tbl, c, org) >>
           hits == {n \in DOMAIN found : found[n] # {}}
           Sound(s) == \A j \in s : j \in DOMAIN tbl /\ InScope(tbl[j], org)
<1>1. Sound(SameExternal(tbl, c, org)) /\ Sound(SameUrl(tbl, c, url, org))
      /\ Sound(SameSlug(tbl, c, org))
  BY DEF SameExternal, SameUrl, SameSlug
<1>2. Sound(Oldest(SameKeyId(tbl, c, org)))
  BY DEF Oldest, SameKeyId
<1>3. Sound(Oldest(SameCall(tbl, c, url, org)))
  BY DEF Oldest, SameCall
<1>4. \A n \in DOMAIN found : Sound(found[n])
  <2> HIDE DEF Sound
  <2> QED
    BY <1>1, <1>2, <1>3
<1>5. hits # {} /\ i \in found[CHOOSE n \in hits : \A m \in hits : n <= m]
  BY DEF Matches
<1>6. hits \in SUBSET Nat
  OBVIOUS
<1>7. \E n \in hits : \A m \in hits : n <= m
  <2> HIDE DEF hits
  <2> QED
    BY <1>5, <1>6, LeastElement
<1>8. (CHOOSE n \in hits : \A m \in hits : n <= m) \in DOMAIN found
  BY <1>7
<1> HIDE DEF found, hits
<1> QED
  BY <1>4, <1>5, <1>8

\* When no lookup finds anything, the first one does not.
LEMMA NoMatchNoTwin ==
  ASSUME NEW tbl, NEW c, NEW url, NEW org, Matches(tbl, c, url, org) = {}
  PROVE  SameExternal(tbl, c, org) = {}
<1> DEFINE found == << SameExternal(tbl, c, org), Oldest(SameKeyId(tbl, c, org)),
                       Oldest(SameCall(tbl, c, url, org)), SameUrl(tbl, c, url, org),
                       SameSlug(tbl, c, org) >>
           hits == {n \in DOMAIN found : found[n] # {}}
<1>1. hits \in SUBSET Nat
  OBVIOUS
<1>2. ASSUME hits # {} PROVE FALSE
  <2>1. \E n \in hits : \A m \in hits : n <= m
    <3> HIDE DEF hits
    <3> QED
      BY <1>1, <1>2, LeastElement
  <2>2. (CHOOSE n \in hits : \A m \in hits : n <= m) \in hits
    BY <2>1
  <2>3. found[CHOOSE n \in hits : \A m \in hits : n <= m] = {}
    BY <1>2 DEF Matches
  <2> QED
    BY <2>2, <2>3
<1>3. 1 \in DOMAIN found /\ found[1] = SameExternal(tbl, c, org)
  OBVIOUS
<1> HIDE DEF found
<1> QED
  BY <1>2, <1>3
-----------------------------------------------------------------------------
(* The inductive invariant. *)

TxnColumns == {"pc", "todo", "item", "url", "mem", "sent", "fresh", "scored", "emb",
               "created", "updated", "failed"}
IsTxn(t) == t = [f \in TxnColumns |-> t[f]]

\* What run r may touch, the rows it sees, and those it has written or will.
Known(tbl, t) == Over(tbl, t.fresh)
Touched(t) == DOMAIN t.mem \cup DOMAIN t.sent
IsLive(t) == t.pc \in {"items", "inserting", "finishing", "flushed", "lost"}

\* The flush inserts a candidate that no row the run knows has the id of.
IsNew(tbl, t, org) ==
  \A i \in DOMAIN tbl : ~(/\ t.item.ext # NoExt /\ tbl[i].ext = t.item.ext
                          /\ tbl[i].src = t.item.src /\ tbl[i].org = org)

\* What one transaction t of run r satisfies beside the table.
RunOK(tbl, ids, r, t) ==
  /\ IsTxn(t)
  /\ \A i \in DOMAIN t.fresh : /\ IsRow(t.fresh[i])
                               /\ t.fresh[i].src = SourceOf[r] /\ t.fresh[i].org = OrgOf[r]
  /\ DOMAIN t.fresh \subseteq ids \ DOMAIN tbl
  /\ Touched(t) \subseteq ids
  /\ \A i \in Touched(t) \cap DOMAIN tbl : InScope(tbl[i], OrgOf[r])
  /\ ~IsLive(t) => DOMAIN t.fresh = {} /\ Touched(t) = {}
  /\ NoTwins(Known(tbl, t))
  /\ t.pc = "items" => t.todo \subseteq Page[SourceOf[r]]
  /\ t.pc = "inserting" => /\ t.todo \subseteq Page[SourceOf[r]]
                           /\ t.item \in Page[SourceOf[r]]
                           /\ IsNew(Known(tbl, t), t, OrgOf[r])

\* Two transactions: live runs scrape different sources, and an id that one of
\* them has given to a row is none of the other's.
Apart(q, r, t) ==
  /\ IsLive(txn[q]) /\ IsLive(t) => SourceOf[q] # SourceOf[r]
  /\ DOMAIN txn[q].fresh \cap (DOMAIN t.fresh \cup Touched(t)) = {}
  /\ DOMAIN t.fresh \cap Touched(txn[q]) = {}

StoreInv ==
  /\ used \subseteq Ids /\ DOMAIN rows \subseteq used
  /\ IsTable(rows) /\ NoTwins(rows)
  /\ DOMAIN txn = Runs /\ txn = [r \in Runs |-> txn[r]]
  /\ \A r \in Runs : RunOK(rows, used, r, txn[r])
  /\ \A q, r \in Runs : q # r => Apart(q, r, txn[r])

\* The invariant of the next state, with the primes at the variables.
LEMMA StoreInvNext ==
  ASSUME used' \subseteq Ids, DOMAIN rows' \subseteq used',
         IsTable(rows'), NoTwins(rows'),
         DOMAIN txn' = Runs, txn' = [r \in Runs |-> txn'[r]],
         \A r \in Runs : RunOK(rows', used', r, txn'[r]),
         \A q, r \in Runs : q # r => Apart(q, r, txn[r])'
  PROVE  StoreInv'
<1>1. \A r \in Runs : RunOK(rows, used, r, txn[r])' <=> RunOK(rows', used', r, txn'[r])
  BY DEF RunOK, Known, Over, IsNew, IsTxn, IsRow, NoTwins, SameCallId, Touched, IsLive, InScope
<1> QED
  BY <1>1 DEF StoreInv, IsTable, NoTwins, SameCallId, IsRow, Ids

\* A transaction that has not begun, or is over, wrote nothing.
LEMMA NoTxnOK ==
  ASSUME StoreInv, NEW r \in Runs, NEW t, t \in {NoTxn, Ended}
  PROVE  RunOK(rows, used, r, t) /\ \A q \in Runs \ {r} : Apart(q, r, t)
<1>1. IsTxn(t) /\ t.fresh = <<>> /\ t.mem = <<>> /\ t.sent = <<>> /\ t.pc \in {"idle", "ended"}
  BY DEF NoTxn, Ended, IsTxn, TxnColumns
<1>2. DOMAIN t.fresh = {} /\ Touched(t) = {} /\ ~IsLive(t)
  BY <1>1 DEF Touched, IsLive
<1>3. DOMAIN Known(rows, t) = DOMAIN rows /\ \A i \in DOMAIN rows : Known(rows, t)[i] = rows[i]
  BY <1>2 DEF Known, Over
<1>4. NoTwins(Known(rows, t))
  BY <1>3 DEF StoreInv, NoTwins, SameCallId
<1> QED
  BY <1>1, <1>2, <1>4 DEF RunOK, Apart

\* Steps of one run that write no row: enough that its own part holds.
LEMMA RunStep ==
  ASSUME StoreInv, NEW r \in Runs, NEW t, txn' = [txn EXCEPT ![r] = t],
         UNCHANGED <<rows, used>>,
         RunOK(rows, used, r, t), \A q \in Runs \ {r} : Apart(q, r, t)
  PROVE  StoreInv'
<1>1. /\ DOMAIN txn' = Runs /\ txn'[r] = t
      /\ \A q \in Runs \ {r} : txn'[q] = txn[q]
      /\ txn' = [q \in Runs |-> txn'[q]]
  BY DEF StoreInv
<1>3. \A q \in Runs : RunOK(rows, used, q, txn'[q])
  BY <1>1 DEF StoreInv
<1>4. ASSUME NEW q \in Runs, NEW p \in Runs, q # p PROVE Apart(q, p, txn[p])'
  <2>1. CASE p = r
    BY <2>1, <1>1, <1>4 DEF Apart, Touched, IsLive
  <2>2. CASE q = r
    BY <2>2, <1>1, <1>4 DEF Apart, Touched, IsLive
  <2>3. CASE p # r /\ q # r
    BY <2>3, <1>1, <1>4 DEF StoreInv, Apart, Touched, IsLive
  <2> QED
    BY <2>1, <2>2, <2>3
<1> QED
  BY <1>1, <1>3, <1>4, StoreInvNext DEF StoreInv

\* Steps of users and administrators: rows keep their identity or disappear.
LEMMA RowsStep ==
  ASSUME StoreInv, UNCHANGED <<used, txn>>, DOMAIN rows' \subseteq DOMAIN rows,
         \A i \in DOMAIN rows' : IsRow(rows'[i]) /\ SameIdentity(rows'[i], rows[i])
  PROVE  StoreInv'
<1>1. NoTwins(rows')
  BY DEF StoreInv, NoTwins, SameCallId, SameIdentity
<1>2. ASSUME NEW r \in Runs PROVE RunOK(rows', used, r, txn[r])
  <2> DEFINE new == Known(rows', txn[r])
             old == Known(rows, txn[r])
  <2>1. RunOK(rows, used, r, txn[r])
    BY DEF StoreInv
  <2>2. /\ DOMAIN new \subseteq DOMAIN old
        /\ \A i \in DOMAIN new : SameIdentity(new[i], old[i])
    BY DEF Known, Over, SameIdentity
  <2> HIDE DEF new, old
  <2>3. NoTwins(new)
    BY <2>1, <2>2 DEF RunOK, old, NoTwins, SameCallId, SameIdentity
  <2>4. txn[r].pc = "inserting" => IsNew(new, txn[r], OrgOf[r])
    BY <2>1, <2>2 DEF RunOK, old, IsNew, SameIdentity
  <2>5. \A i \in Touched(txn[r]) \cap DOMAIN rows' : InScope(rows'[i], OrgOf[r])
    BY <2>1 DEF RunOK, InScope, SameIdentity
  <2> QED
    BY <2>1, <2>3, <2>4, <2>5 DEF RunOK, new
<1>3. \A q, r \in Runs : q # r => Apart(q, r, txn[r])'
  BY DEF StoreInv, Apart, Touched, IsLive
<1> QED
  BY <1>1, <1>2, <1>3, StoreInvNext DEF StoreInv, IsTable

\* What a run sees has the identities of the committed rows and its own.
LEMMA ViewKnown ==
  ASSUME StoreInv, NEW r \in Runs
  PROVE  /\ IsTable(Known(rows, txn[r]))
         /\ DOMAIN View(r) = DOMAIN Known(rows, txn[r])
         /\ IsTable(View(r))
         /\ \A i \in DOMAIN View(r) : SameIdentity(View(r)[i], Known(rows, txn[r])[i])
<1>1. IsTable(Known(rows, txn[r]))
  BY DEF StoreInv, RunOK, IsTable, Known, Over
<1>2. View(r) = Patch(Known(rows, txn[r]), txn[r].sent)
  BY DEF View, Known
<1> QED
  BY <1>1, <1>2, PatchKeeps

-----------------------------------------------------------------------------
(* The steps of a run. *)

\* Start takes a source that no live run scrapes.
LEMMA StartStep == ASSUME StoreInv, NEW r \in Runs, Start(r) PROVE StoreInv'
<1> DEFINE t == [NoTxn EXCEPT !.pc = "items", !.todo = Page[SourceOf[r]]]
<1>1. /\ IsTxn(t) /\ t.fresh = <<>> /\ t.mem = <<>> /\ t.sent = <<>> /\ t.pc = "items"
      /\ t.todo = Page[SourceOf[r]]
  BY DEF NoTxn, IsTxn, TxnColumns
<1>2. txn' = [txn EXCEPT ![r] = t] /\ UNCHANGED <<rows, used>>
      /\ \A q \in Runs \ {r} : IsLive(txn[q]) => SourceOf[q] # SourceOf[r]
  BY DEF Start, Live, IsLive
<1> HIDE DEF t
<1>3. RunOK(rows, used, r, NoTxn) /\ \A q \in Runs \ {r} : Apart(q, r, NoTxn)
  BY NoTxnOK
<1>4. NoTxn.fresh = t.fresh /\ NoTxn.mem = t.mem /\ NoTxn.sent = t.sent
  BY <1>1 DEF NoTxn
<1>5. Touched(t) = Touched(NoTxn) /\ Known(rows, t) = Known(rows, NoTxn) /\ Touched(t) = {}
      /\ DOMAIN t.fresh = {}
  BY <1>1, <1>4 DEF Touched, Known
<1>6. RunOK(rows, used, r, t)
  BY <1>1, <1>3, <1>5 DEF RunOK
<1>7. \A q \in Runs \ {r} : Apart(q, r, t)
  BY <1>2, <1>5 DEF Apart
<1> QED
  BY <1>2, <1>6, <1>7, RunStep

\* A known call is folded into a row that the run's organisation sees.
LEMMA FoldStep ==
  ASSUME StoreInv, NEW r \in Runs, txn[r].pc = "items", UNCHANGED <<rows, used>>,
         NEW c \in txn[r].todo, Fold(r, c)
  PROVE  StoreInv'
<1>1. PICK url \in Reached(c.url), done \in BOOLEAN :
        \E i \in Matches(View(r), c, url, OrgOf[r]) :
          txn' = [txn EXCEPT ![r] = Folded(r, c, url, i, done)]
  BY DEF Fold
<1>10. PICK i \in Matches(View(r), c, url, OrgOf[r]) :
        txn' = [txn EXCEPT ![r] = Folded(r, c, url, i, done)]
  BY <1>1
<1> DEFINE t == Folded(r, c, url, i, done)
<1>4. RunOK(rows, used, r, txn[r]) /\ \A q \in Runs : RunOK(rows, used, q, txn[q])
  BY DEF StoreInv
<1>2. /\ IsTxn(t) /\ t.fresh = txn[r].fresh /\ t.sent = txn[r].sent /\ t.pc = txn[r].pc
      /\ t.todo \subseteq txn[r].todo
      /\ t.mem = Merge(txn[r].mem, i, Columns(Objects(r)[i], c, url))
  <2>1. IsTxn(txn[r])
    BY <1>4 DEF RunOK
  <2> QED
    BY <2>1 DEF IsTxn, TxnColumns, Folded
<1>12. txn' = [txn EXCEPT ![r] = t]
  BY <1>10
<1> HIDE DEF t
<1>11. DOMAIN t.mem = DOMAIN txn[r].mem \cup {i}
  BY <1>2 DEF Merge, Over
<1>3. i \in DOMAIN Known(rows, txn[r]) /\ InScope(Known(rows, txn[r])[i], OrgOf[r])
  <2>1. i \in DOMAIN View(r) /\ InScope(View(r)[i], OrgOf[r])
    BY MatchesInScope
  <2> QED
    BY <2>1, ViewKnown DEF SameIdentity, InScope
<1>5. /\ i \in DOMAIN rows \cup DOMAIN txn[r].fresh
      /\ i \in DOMAIN rows => InScope(rows[i], OrgOf[r])
  BY <1>3, <1>4 DEF Known, Over, RunOK
<1>6. Touched(t) = Touched(txn[r]) \cup {i} /\ Known(rows, t) = Known(rows, txn[r])
      /\ IsLive(t) = IsLive(txn[r]) /\ IsLive(t)
  BY <1>2, <1>11 DEF Touched, Known, IsLive
<1>7. used \subseteq Ids /\ DOMAIN rows \subseteq used
  BY DEF StoreInv
<1>8. RunOK(rows, used, r, t)
  BY <1>2, <1>4, <1>5, <1>6, <1>7 DEF RunOK
<1>9. ASSUME NEW q \in Runs \ {r} PROVE Apart(q, r, t)
  <2>1. Apart(q, r, txn[r])
    BY DEF StoreInv
  <2>2. DOMAIN txn[q].fresh \cap DOMAIN rows = {}
    BY <1>4 DEF RunOK
  <2> QED
    BY <1>2, <1>5, <1>6, <2>1, <2>2 DEF Apart
<1> QED
  BY <1>12, <1>8, <1>9, RunStep

\* What begins to be inserted is new to the run: the first lookup failed.
LEMMA BeginInsertStep ==
  ASSUME StoreInv, NEW r \in Runs, txn[r].pc = "items", UNCHANGED <<rows, used>>,
         NEW c \in txn[r].todo, BeginInsert(r, c)
  PROVE  StoreInv'
<1>1. PICK url \in Reached(c.url) :
        /\ Matches(View(r), c, url, OrgOf[r]) = {}
        /\ txn' = [txn EXCEPT ![r].pc = "inserting", ![r].item = c, ![r].url = url]
  BY DEF BeginInsert
<1> DEFINE t == [txn[r] EXCEPT !.pc = "inserting", !.item = c, !.url = url]
<1>2. RunOK(rows, used, r, txn[r]) /\ c \in Page[SourceOf[r]]
  BY DEF StoreInv, RunOK
<1>3. /\ IsTxn(t) /\ t.fresh = txn[r].fresh /\ t.sent = txn[r].sent /\ t.mem = txn[r].mem
      /\ t.todo = txn[r].todo /\ t.pc = "inserting" /\ t.item = c
  BY <1>2 DEF RunOK, IsTxn, TxnColumns
<1>4. txn' = [txn EXCEPT ![r] = t]
  BY <1>1 DEF StoreInv
<1> HIDE DEF t
<1>5. SameExternal(View(r), c, OrgOf[r]) = {}
  BY <1>1, NoMatchNoTwin
<1>6. IsNew(View(r), t, OrgOf[r])
  <2>1. c.src = SourceOf[r]
    BY <1>2, PageAssumption
  <2> QED
    BY <1>3, <1>5, <2>1 DEF IsNew, SameExternal, InScope
<1>7. IsNew(Known(rows, txn[r]), t, OrgOf[r])
  BY <1>6, ViewKnown DEF IsNew, SameIdentity
<1>8. /\ Touched(t) = Touched(txn[r]) /\ Known(rows, t) = Known(rows, txn[r])
      /\ IsLive(t) /\ IsLive(txn[r])
  BY <1>3 DEF Touched, Known, IsLive
<1>9. RunOK(rows, used, r, t)
  BY <1>2, <1>3, <1>7, <1>8 DEF RunOK
<1>10. \A q \in Runs \ {r} : Apart(q, r, t)
  BY <1>3, <1>8 DEF StoreInv, Apart
<1> QED
  BY <1>4, <1>9, <1>10, RunStep

\* Steps that only move the program counter, or drop a candidate.
LEMMA QuietStep ==
  ASSUME StoreInv, NEW r \in Runs, UNCHANGED <<rows, used>>, NEW t, IsTxn(t),
         txn' = [txn EXCEPT ![r] = t], IsLive(txn[r]), IsLive(t), t.pc # "inserting",
         t.pc = "items" => txn[r].pc = "items", t.todo \subseteq txn[r].todo,
         t.fresh = txn[r].fresh, Touched(t) = Touched(txn[r])
  PROVE  StoreInv'
<1>1. RunOK(rows, used, r, txn[r])
  BY DEF StoreInv
<1>2. Known(rows, t) = Known(rows, txn[r])
  BY DEF Known
<1>3. RunOK(rows, used, r, t)
  BY <1>1, <1>2 DEF RunOK
<1>4. \A q \in Runs \ {r} : Apart(q, r, t)
  BY DEF StoreInv, Apart
<1> QED
  BY <1>3, <1>4, RunStep

\* Every candidate is folded, inserted or rejected.
LEMMA PersistStep == ASSUME StoreInv, NEW r \in Runs, PersistItem(r) PROVE StoreInv'
<1>1. PICK c \in txn[r].todo : Fold(r, c) \/ BeginInsert(r, c) \/ Reject(r, c)
  BY DEF PersistItem
<1>2. txn[r].pc = "items" /\ UNCHANGED <<rows, used>>
  BY DEF PersistItem
<1>3. CASE Reject(r, c)
  <2> DEFINE t == [txn[r] EXCEPT !.todo = @ \ {c}, !.failed = @ + 1]
  <2>1. IsTxn(txn[r])
    BY DEF StoreInv, RunOK
  <2>2. /\ IsTxn(t) /\ t.fresh = txn[r].fresh /\ Touched(t) = Touched(txn[r])
        /\ t.todo \subseteq txn[r].todo /\ t.pc = txn[r].pc
    BY <2>1 DEF IsTxn, TxnColumns, Touched
  <2>3. txn' = [txn EXCEPT ![r] = t]
    BY <1>3 DEF Reject, StoreInv
  <2> HIDE DEF t
  <2> QED
    BY <1>2, <2>2, <2>3, QuietStep DEF IsLive
<1> QED
  BY <1>1, <1>2, <1>3, FoldStep, BeginInsertStep

\* Sent adds to what was sent the rows in memory.
LEMMA SentDomain ==
  ASSUME NEW r \in Runs
  PROVE  DOMAIN Sent(r) = DOMAIN txn[r].sent \cup DOMAIN txn[r].mem
BY DEF Sent, Over

\* The last flush and the failed one only send what is in memory, or nothing.
LEMMA PcSteps ==
  ASSUME StoreInv, NEW r \in Runs, BeginFinish(r) \/ FlushFails(r) \/ FlushRun(r)
  PROVE  StoreInv'
<1>1. IsTxn(txn[r]) /\ DOMAIN txn = Runs
  BY DEF StoreInv, RunOK
<1>2. CASE BeginFinish(r) \/ FlushFails(r)
  <2>1. PICK pc \in {"finishing", "lost"} : txn' = [txn EXCEPT ![r].pc = pc]
    BY <1>2 DEF BeginFinish, FlushFails
  <2> DEFINE t == [txn[r] EXCEPT !.pc = pc]
  <2>2. /\ IsTxn(t) /\ t.fresh = txn[r].fresh /\ Touched(t) = Touched(txn[r])
        /\ t.todo = txn[r].todo /\ t.pc \in {"finishing", "lost"}
    BY <1>1 DEF IsTxn, TxnColumns, Touched
  <2>3. txn' = [txn EXCEPT ![r] = t]
    BY <1>1, <2>1
  <2>4. IsLive(txn[r]) /\ UNCHANGED <<rows, used>>
    BY <1>2 DEF BeginFinish, FlushFails, InFlush, IsLive
  <2> HIDE DEF t
  <2> QED
    BY <2>2, <2>3, <2>4, QuietStep DEF IsLive
<1>3. CASE FlushRun(r)
  <2> DEFINE t == [txn[r] EXCEPT !.pc = "flushed", !.sent = Sent(r), !.mem = <<>>]
  <2>1. /\ IsTxn(t) /\ t.fresh = txn[r].fresh /\ t.sent = Sent(r) /\ t.mem = <<>>
        /\ t.todo = txn[r].todo /\ t.pc = "flushed"
    BY <1>1 DEF IsTxn, TxnColumns
  <2>2. Touched(t) = Touched(txn[r])
    <3> HIDE DEF t
    <3>1. DOMAIN t.mem = {}
      BY <2>1
    <3>2. DOMAIN t.sent = DOMAIN txn[r].sent \cup DOMAIN txn[r].mem
      BY <2>1, SentDomain
    <3> QED
      BY <3>1, <3>2 DEF Touched
  <2>3. txn' = [txn EXCEPT ![r] = t]
    BY <1>1, <1>3 DEF FlushRun
  <2>4. IsLive(txn[r]) /\ UNCHANGED <<rows, used>>
    BY <1>3 DEF FlushRun, IsLive
  <2> HIDE DEF t
  <2> QED
    BY <2>1, <2>2, <2>3, <2>4, QuietStep DEF IsLive
<1> QED
  BY <1>2, <1>3

\* A run that is rolled back leaves nothing.
LEMMA EndStep ==
  ASSUME StoreInv, NEW r \in Runs, Rollback(r) \/ Crash(r) PROVE StoreInv'
<1>1. txn' = [txn EXCEPT ![r] = Ended] /\ UNCHANGED <<rows, used>>
  BY DEF Rollback, Crash
<1> QED
  BY <1>1, NoTxnOK, RunStep

\* Insert gives the row an id nobody has, and its external id is new as well.
LEMMA InsertStep == ASSUME StoreInv, NEW r \in Runs, Insert(r) PROVE StoreInv'
<1> DEFINE i == NextId
           row == Row(txn[r].item, txn[r].url, OrgOf[r])
<1>1. RunOK(rows, used, r, txn[r]) /\ txn[r].pc = "inserting" /\ UNCHANGED rows
  BY DEF StoreInv, Insert
<1>2. i \in Ids \ used
  <2>1. Ids \ used \in SUBSET Nat /\ Ids \ used # {}
    BY DEF Ids, Insert
  <2> QED
    BY <2>1, LeastElement DEF NextId
<1>3. PICK done \in BOOLEAN : txn' = [txn EXCEPT ![r] = Inserted(r, i, done)]
  BY DEF Insert
<1>4. used' = used \cup {i}
  BY DEF Insert
<1> HIDE DEF i
<1> DEFINE t == Inserted(r, i, done)
<1>5. /\ IsTxn(t) /\ t.pc = "items" /\ t.todo \subseteq txn[r].todo
      /\ t.fresh = Over(txn[r].fresh, [n \in {i} |-> row]) /\ t.sent = Sent(r) /\ t.mem = <<>>
  BY <1>1 DEF RunOK, IsTxn, TxnColumns, Inserted
<1>6. txn' = [txn EXCEPT ![r] = t]
  BY <1>3
<1> HIDE DEF t, row
<1>7. /\ DOMAIN t.fresh = DOMAIN txn[r].fresh \cup {i} /\ t.fresh[i] = row
      /\ \A j \in DOMAIN txn[r].fresh : j # i => t.fresh[j] = txn[r].fresh[j]
  BY <1>5 DEF Over
<1>8. Touched(t) = Touched(txn[r])
  <2>1. DOMAIN t.mem = {}
    BY <1>5
  <2>2. DOMAIN t.sent = DOMAIN txn[r].sent \cup DOMAIN txn[r].mem
    BY <1>5, SentDomain
  <2> QED
    BY <2>1, <2>2 DEF Touched
<1>9. /\ IsRow(row) /\ row.src = txn[r].item.src /\ row.ext = txn[r].item.ext
      /\ row.org = OrgOf[r] /\ txn[r].item.src = SourceOf[r]
  BY <1>1, RowIsRow, PageAssumption DEF row, RunOK
<1>10. used \subseteq Ids /\ DOMAIN rows \subseteq used /\ DOMAIN txn[r].fresh \subseteq used
       /\ i \notin used
  BY <1>1, <1>2 DEF StoreInv, RunOK
<1>11. /\ DOMAIN Known(rows, t) = DOMAIN Known(rows, txn[r]) \cup {i}
       /\ Known(rows, t)[i] = row /\ i \notin DOMAIN Known(rows, txn[r])
       /\ \A j \in DOMAIN Known(rows, txn[r]) :
            Known(rows, t)[j] = Known(rows, txn[r])[j]
  BY <1>7, <1>10 DEF Known, Over
<1>12. NoTwins(Known(rows, t))
  BY <1>1, <1>9, <1>11 DEF RunOK, NoTwins, SameCallId, IsNew
<1>13. IsLive(t) /\ IsLive(txn[r])
  BY <1>1, <1>5 DEF IsLive
<1>14. RunOK(rows, used', r, t)
  <2>1. \A j \in DOMAIN t.fresh : /\ IsRow(t.fresh[j])
                                  /\ t.fresh[j].src = SourceOf[r] /\ t.fresh[j].org = OrgOf[r]
    BY <1>1, <1>7, <1>9 DEF RunOK
  <2>2. DOMAIN t.fresh \subseteq used' \ DOMAIN rows
    BY <1>1, <1>4, <1>7, <1>10 DEF RunOK
  <2>3. /\ Touched(t) \subseteq used'
        /\ \A j \in Touched(t) \cap DOMAIN rows : InScope(rows[j], OrgOf[r])
        /\ t.todo \subseteq Page[SourceOf[r]]
    BY <1>1, <1>4, <1>5, <1>8 DEF RunOK
  <2> QED
    BY <1>5, <1>12, <1>13, <2>1, <2>2, <2>3 DEF RunOK
<1>15. /\ DOMAIN txn' = Runs /\ txn'[r] = t /\ \A q \in Runs \ {r} : txn'[q] = txn[q]
       /\ txn' = [q \in Runs |-> txn'[q]]
  BY <1>6 DEF StoreInv
<1>16. \A q \in Runs : RunOK(rows', used', q, txn'[q])
  <2>1. \A q \in Runs \ {r} : RunOK(rows, used, q, txn[q])
    BY DEF StoreInv
  <2>2. \A q \in Runs \ {r} : RunOK(rows, used', q, txn[q])
    BY <1>4, <2>1 DEF RunOK
  <2> QED
    BY <1>1, <1>14, <1>15, <2>2
<1>17. ASSUME NEW q \in Runs, NEW p \in Runs, q # p PROVE Apart(q, p, txn[p])'
  <2>1. /\ Apart(q, p, txn[p])
        /\ \A n \in Runs : Touched(txn[n]) \subseteq used /\ DOMAIN txn[n].fresh \subseteq used
    BY <1>17 DEF StoreInv, RunOK
  <2>2. CASE p = r
    BY <2>1, <2>2, <1>7, <1>8, <1>10, <1>13, <1>15, <1>17 DEF Apart, Touched, IsLive
  <2>3. CASE q = r
    BY <2>1, <2>3, <1>7, <1>8, <1>10, <1>13, <1>15, <1>17 DEF Apart, Touched, IsLive
  <2>4. CASE p # r /\ q # r
    BY <2>1, <2>4, <1>15 DEF Apart, Touched, IsLive
  <2> QED
    BY <2>2, <2>3, <2>4
<1> QED
  BY <1>1, <1>2, <1>4, <1>15, <1>16, <1>17, StoreInvNext DEF StoreInv

\* A commit brings rows of a source that no other live run scrapes.
LEMMA CommitStep == ASSUME StoreInv, NEW r \in Runs, CommitRows(r) PROVE StoreInv'
<1> DEFINE known == Known(rows, txn[r])
<1>1. /\ RunOK(rows, used, r, txn[r]) /\ IsLive(txn[r]) /\ used' = used /\ rows' = Merged(r)
      /\ txn' = [txn EXCEPT ![r] = Ended]
  BY DEF StoreInv, CommitRows, IsLive
<1>2. /\ DOMAIN rows' = DOMAIN known
      /\ \A i \in DOMAIN rows' : IsRow(rows'[i]) /\ SameIdentity(rows'[i], known[i])
  <2>1. /\ DOMAIN rows' = DOMAIN View(r)
        /\ \A i \in DOMAIN rows' : IsRow(View(r)[i]) => IsRow(rows'[i]) /\ SameIdentity(rows'[i], View(r)[i])
    BY <1>1 DEF Merged, IsRow, RowColumns, SameIdentity
  <2> QED
    BY <2>1, ViewKnown DEF IsTable, SameIdentity
<1>3. DOMAIN known = DOMAIN rows \cup DOMAIN txn[r].fresh
  BY DEF Known, Over
<1>4. /\ \A i \in DOMAIN rows : known[i] = rows[i]
      /\ \A i \in DOMAIN known \ DOMAIN rows : known[i].src = SourceOf[r]
  BY <1>1, <1>3 DEF RunOK, Known, Over
<1>5. NoTwins(known)
  BY <1>1 DEF RunOK
<1> HIDE DEF known
<1>6. NoTwins(rows') /\ IsTable(rows') /\ DOMAIN rows' \subseteq used'
  <2>1. NoTwins(rows')
    BY <1>2, <1>5 DEF NoTwins, SameCallId, SameIdentity
  <2>2. DOMAIN rows' \subseteq used'
    BY <1>1, <1>2, <1>3 DEF StoreInv, RunOK
  <2> QED
    BY <1>2, <2>1, <2>2 DEF IsTable
<1>7. ASSUME NEW q \in Runs \ {r} PROVE RunOK(rows', used', q, txn[q])
  <2> DEFINE old == Known(rows, txn[q])
             new == Known(rows', txn[q])
             mine == DOMAIN txn[q].fresh
  <2>1. /\ RunOK(rows, used, q, txn[q]) /\ Apart(q, r, txn[r])
        /\ IsLive(txn[q]) => SourceOf[q] # SourceOf[r]
        /\ mine \cap DOMAIN txn[r].fresh = {} /\ DOMAIN txn[r].fresh \cap Touched(txn[q]) = {}
    BY <1>1 DEF StoreInv, Apart
  <2>2. mine \subseteq used' \ DOMAIN rows'
    BY <1>1, <1>2, <1>3, <2>1 DEF RunOK
  <2>3. \A i \in Touched(txn[q]) \cap DOMAIN rows' : InScope(rows'[i], OrgOf[q])
    <3> SUFFICES ASSUME NEW i \in Touched(txn[q]) \cap DOMAIN rows'
                 PROVE  InScope(rows'[i], OrgOf[q])
      OBVIOUS
    <3>1. i \in DOMAIN rows /\ SameIdentity(rows'[i], rows[i])
      BY <1>2, <1>3, <1>4, <2>1
    <3> QED
      BY <3>1, <2>1 DEF RunOK, InScope, SameIdentity
  <2>4. /\ DOMAIN new = DOMAIN rows' \cup mine
        /\ \A i \in mine : new[i] = old[i] /\ i \in DOMAIN old
        /\ \A i \in DOMAIN rows' : new[i] = rows'[i]
        /\ \A i \in DOMAIN rows : i \in DOMAIN old /\ old[i] = rows[i]
    BY <2>1, <2>2 DEF Known, Over, RunOK
  <2>5. \A i \in DOMAIN new :
          \/ i \in DOMAIN old /\ SameIdentity(new[i], old[i])
          \/ i \in DOMAIN rows' /\ new[i].src = SourceOf[r]
    <3> SUFFICES ASSUME NEW i \in DOMAIN new
                 PROVE  \/ i \in DOMAIN old /\ SameIdentity(new[i], old[i])
                        \/ i \in DOMAIN rows' /\ new[i].src = SourceOf[r]
      OBVIOUS
    <3>1. CASE i \in mine
      BY <3>1, <2>4 DEF SameIdentity
    <3>2. CASE i \in DOMAIN rows
      BY <3>2, <1>2, <1>3, <1>4, <2>4 DEF SameIdentity
    <3>3. CASE i \in DOMAIN rows' \ DOMAIN rows
      BY <3>3, <1>2, <1>4, <2>4 DEF SameIdentity
    <3> QED
      BY <3>1, <3>2, <3>3, <2>4
  <2>6. \A i \in mine : i \in DOMAIN old /\ old[i].src = SourceOf[q] /\ i \notin DOMAIN rows'
    BY <2>1, <2>2 DEF RunOK, Known, Over
  <2>7. NoTwins(old) /\ (mine # {} => SourceOf[q] # SourceOf[r])
    BY <2>1 DEF RunOK
  <2>8. NoTwins(new)
    <3> HIDE DEF old, new, mine
    <3> SUFFICES ASSUME NEW i \in DOMAIN new, NEW j \in DOMAIN new, SameCallId(new[i], new[j])
                 PROVE  i = j
      BY DEF NoTwins
    <3>1. CASE i \in DOMAIN rows' /\ j \in DOMAIN rows'
      BY <3>1, <1>6, <2>4 DEF NoTwins
    <3>2. CASE i \in DOMAIN old /\ j \in DOMAIN old
               /\ SameIdentity(new[i], old[i]) /\ SameIdentity(new[j], old[j])
      BY <3>2, <2>7 DEF NoTwins, SameCallId, SameIdentity
    <3>3. CASE i \in mine /\ new[j].src = SourceOf[r]
      BY <3>3, <2>4, <2>6, <2>7 DEF SameCallId
    <3>4. CASE j \in mine /\ new[i].src = SourceOf[r]
      BY <3>4, <2>4, <2>6, <2>7 DEF SameCallId
    <3> QED
      BY <3>1, <3>2, <3>3, <3>4, <2>4, <2>5
  <2>9. txn[q].pc = "inserting" => IsNew(new, txn[q], OrgOf[q])
    <3> SUFFICES ASSUME txn[q].pc = "inserting" PROVE IsNew(new, txn[q], OrgOf[q])
      OBVIOUS
    <3>1. /\ IsNew(old, txn[q], OrgOf[q]) /\ txn[q].item.src = SourceOf[q]
          /\ SourceOf[q] # SourceOf[r]
      BY <2>1, PageAssumption DEF RunOK, IsLive
    <3> HIDE DEF old, new, mine
    <3> QED
      BY <3>1, <2>5 DEF IsNew, SameIdentity
  <2>10. /\ IsTxn(txn[q]) /\ Touched(txn[q]) \subseteq used'
         /\ ~IsLive(txn[q]) => mine = {} /\ Touched(txn[q]) = {}
    BY <1>1, <2>1 DEF RunOK
  <2> QED
    BY <2>1, <2>2, <2>3, <2>8, <2>9, <2>10 DEF RunOK
<1>8. RunOK(rows', used', r, Ended)
  <2>0. /\ IsTxn(Ended) /\ Ended.pc = "ended" /\ Ended.fresh = <<>> /\ Ended.mem = <<>>
        /\ Ended.sent = <<>>
    BY DEF Ended, NoTxn, IsTxn, TxnColumns
  <2>1. DOMAIN Ended.fresh = {} /\ Touched(Ended) = {} /\ ~IsLive(Ended)
    BY <2>0 DEF Touched, IsLive
  <2>2. /\ DOMAIN Known(rows', Ended) = DOMAIN rows'
        /\ \A i \in DOMAIN rows' : Known(rows', Ended)[i] = rows'[i]
    BY <2>1 DEF Known, Over
  <2>3. NoTwins(Known(rows', Ended))
    BY <1>6, <2>2 DEF NoTwins, SameCallId
  <2> QED
    BY <2>0, <2>1, <2>3 DEF RunOK
<1>9. /\ DOMAIN txn' = Runs /\ txn'[r] = Ended /\ \A q \in Runs \ {r} : txn'[q] = txn[q]
      /\ txn' = [q \in Runs |-> txn'[q]]
  BY <1>1 DEF StoreInv
<1>10. \A q \in Runs : RunOK(rows', used', q, txn'[q])
  BY <1>7, <1>8, <1>9
<1>11. ASSUME NEW q \in Runs, NEW p \in Runs, q # p PROVE Apart(q, p, txn[p])'
  <2>1. Apart(q, p, txn[p])
    BY <1>11 DEF StoreInv
  <2>2. DOMAIN Ended.fresh = {} /\ Touched(Ended) = {} /\ ~IsLive(Ended)
    BY DEF Ended, NoTxn, Touched, IsLive
  <2>3. CASE p = r \/ q = r
    BY <2>2, <2>3, <1>9, <1>11 DEF Apart, Touched, IsLive
  <2>4. CASE p # r /\ q # r
    BY <2>1, <2>4, <1>9 DEF Apart, Touched, IsLive
  <2> QED
    BY <2>3, <2>4
<1> QED
  BY <1>1, <1>6, <1>9, <1>10, <1>11, StoreInvNext DEF StoreInv

-----------------------------------------------------------------------------
(* Users and administrators. *)

\* What users attach to a row does not change which row it is.
LEMMA UserStep ==
  ASSUME StoreInv, NEW org, NEW i \in DOMAIN rows, UserMarks(org, i) PROVE StoreInv'
<1>1. UNCHANGED <<used, txn>> /\ IsTable(rows)
  BY DEF UserMarks, StoreInv
<1>2. /\ DOMAIN rows' = DOMAIN rows
      /\ \A j \in DOMAIN rows : IsRow(rows'[j]) /\ SameIdentity(rows'[j], rows[j])
  BY <1>1 DEF UserMarks, Favourite, Score, MatchFaculty, RaiseAlert, IsTable, IsRow,
              RowColumns, SameIdentity
<1> QED
  BY <1>1, <1>2, RowsStep

\* A survivor is the row it was, with the marks of the others.
LEMMA SurvivorKeeps ==
  ASSUME NEW row, IsRow(row), NEW gone
  PROVE  /\ IsRow(Survivor(row, gone)) /\ SameIdentity(Survivor(row, gone), row)
         /\ KeyOf(Survivor(row, gone)) = KeyOf(row)
         /\ row.fav \/ (\E d \in gone : d.fav) => Survivor(row, gone).fav
         /\ row.emb \/ (\E d \in gone : d.emb) => Survivor(row, gone).emb
         /\ \A d \in gone : /\ d.scored \subseteq Survivor(row, gone).scored
                            /\ d.alerts \subseteq Survivor(row, gone).alerts
BY DEF IsRow, RowColumns, Survivor, SameIdentity, KeyOf

\* The deduplication removes rows and leaves the others what they are.
LEMMA DeduplicateStep == ASSUME StoreInv, NEW org, Deduplicate(org) PROVE StoreInv'
<1>1. UNCHANGED <<used, txn>> /\ IsTable(rows)
  BY DEF Deduplicate, StoreInv
<1>2. /\ DOMAIN rows' \subseteq DOMAIN rows
      /\ \A j \in DOMAIN rows' : IsRow(rows'[j]) /\ SameIdentity(rows'[j], rows[j])
  BY <1>1, SurvivorKeeps DEF Deduplicate, IsTable, SameIdentity
<1> QED
  BY <1>1, <1>2, RowsStep

-----------------------------------------------------------------------------
(* The theorems. *)

\* The table the runs start from keeps external ids apart.
LEMMA StoreInvInit == StoreInit => StoreInv
<1> SUFFICES ASSUME StoreInit PROVE StoreInv
  OBVIOUS
<1>1. IsTable(rows) /\ NoTwins(rows) /\ DOMAIN rows \subseteq Ids /\ used = DOMAIN rows
  BY SeedAssumption DEF StoreInit, IsTable
<1>2. txn = [r \in Runs |-> NoTxn]
  BY DEF StoreInit
<1>3. /\ IsTxn(NoTxn) /\ NoTxn.fresh = <<>> /\ NoTxn.mem = <<>> /\ NoTxn.sent = <<>>
      /\ NoTxn.pc = "idle"
  BY DEF NoTxn, IsTxn, TxnColumns
<1>4. DOMAIN NoTxn.fresh = {} /\ Touched(NoTxn) = {} /\ ~IsLive(NoTxn)
  BY <1>3 DEF Touched, IsLive
<1>5. DOMAIN Known(rows, NoTxn) = DOMAIN rows /\ \A i \in DOMAIN rows : Known(rows, NoTxn)[i] = rows[i]
  BY <1>4 DEF Known, Over
<1>6. NoTwins(Known(rows, NoTxn))
  BY <1>1, <1>5 DEF NoTwins, SameCallId
<1>7. \A r \in Runs : RunOK(rows, used, r, NoTxn)
  BY <1>3, <1>4, <1>6 DEF RunOK
<1>8. \A q, r \in Runs : q # r => Apart(q, r, txn[r])
  BY <1>2, <1>4 DEF Apart
<1> QED
  BY <1>1, <1>2, <1>7, <1>8 DEF StoreInv

\* Every step keeps the invariant.
LEMMA StoreInvStep == StoreInv /\ [StoreNext]_storeVars => StoreInv'
<1> SUFFICES ASSUME StoreInv, [StoreNext]_storeVars PROVE StoreInv'
  OBVIOUS
<1>1. CASE UNCHANGED storeVars
  <2>1. UNCHANGED <<rows, used, txn>>
    BY <1>1 DEF storeVars
  <2> QED
    BY <2>1, RowsStep DEF StoreInv, IsTable, SameIdentity
<1>2. ASSUME NEW r \in Runs, Start(r) \/ PersistItem(r) \/ Progresses(r) \/ Crash(r)
      PROVE  StoreInv'
  BY <1>2, StartStep, PersistStep, InsertStep, PcSteps, CommitStep, EndStep DEF Progresses
<1>3. ASSUME NEW m \in Marking, m[2] \in DOMAIN rows, UserMarks(m[1], m[2]) PROVE StoreInv'
  BY <1>3, UserStep
<1>4. ASSUME NEW org \in Orgs, Deduplicate(org) PROVE StoreInv'
  BY <1>4, DeduplicateStep
<1> QED
  BY <1>1, <1>2, <1>3, <1>4 DEF StoreNext

\* The invariant holds in every state, for any runs, pages and users.
THEOREM StoreInvariant == StoreSpec => []StoreInv
<1> QED
  BY StoreInvInit, StoreInvStep, PTL DEF StoreSpec

\* External ids stay unique per source and organisation with no constraint in
\* the database: create_opportunity's first lookup and the row lock on the
\* source are enough, for any number of runs and whatever else is committed.
THEOREM StoreOneRowPerExternalId == StoreSpec => []OneRowPerExternalId
<1>1. StoreInv => OneRowPerExternalId
  BY DEF StoreInv, OneRowPerExternalId
<1> QED
  BY <1>1, StoreInvariant, PTL

\* No run ever writes a row of another organisation.
THEOREM StoreRunsStayInScope == StoreSpec => []RunsStayInScope
<1>1. StoreInv => RunsStayInScope
  BY DEF StoreInv, RunOK, RunsStayInScope, Touched, InScope
<1> QED
  BY <1>1, StoreInvariant, PTL

\* A row that disappears has an older one with its key that takes its marks: the
\* oldest row of the group is no duplicate.
LEMMA DeduplicateKeepsMarks ==
  ASSUME StoreInv, NEW org, Deduplicate(org), NEW i \in DOMAIN rows \ DOMAIN rows'
  PROVE  \E j \in DOMAIN rows' :
           /\ j < i /\ KeyOf(rows'[j]) = KeyOf(rows[i])
           /\ rows[i].fav => rows'[j].fav
           /\ rows[i].scored \subseteq rows'[j].scored
           /\ rows[i].alerts \subseteq rows'[j].alerts
           /\ rows[i].emb => rows'[j].emb
<1>1. i \in Duplicates(org) /\ DOMAIN rows' = DOMAIN rows \ Duplicates(org)
  BY DEF Deduplicate
<1>2. DOMAIN rows \subseteq Nat /\ IsTable(rows)
  BY DEF StoreInv, Ids
<1>3. Group(org, i) \in SUBSET Nat /\ Group(org, i) \subseteq Visible(org) /\ i \in Group(org, i)
  BY <1>1, <1>2 DEF Group, Visible, Duplicates
<1>4. PICK j \in Group(org, i) : \A k \in Group(org, i) : j <= k
  BY <1>3, LeastElement
<1>5. KeyOf(rows[j]) = KeyOf(rows[i]) /\ Group(org, j) = Group(org, i)
  BY <1>4 DEF Group
<1>6. j < i
  <2>1. PICK k \in Group(org, i) : k < i
    BY <1>1 DEF Duplicates
  <2> QED
    BY <1>3, <1>4, <2>1
<1>7. j \notin Duplicates(org)
  <2> SUFFICES ASSUME NEW k \in Group(org, j), k < j PROVE FALSE
    BY DEF Duplicates
  <2> QED
    BY <1>3, <1>4, <1>5
<1> DEFINE gone == {rows[k] : k \in Group(org, j) \ {j}}
<1>8. j \in DOMAIN rows' /\ rows'[j] = Survivor(rows[j], gone)
  BY <1>1, <1>3, <1>4, <1>7 DEF Deduplicate, Visible
<1>9. rows[i] \in gone /\ IsRow(rows[j])
  BY <1>2, <1>3, <1>5, <1>6, <1>8 DEF IsTable, Visible
<1> HIDE DEF gone
<1> QED
  BY <1>5, <1>6, <1>8, <1>9, SurvivorKeeps

\* Only the deduplication removes rows, and what users attached to one is on its
\* survivor afterwards.
THEOREM StoreMergeKeepsMarks == StoreSpec => MergeKeepsMarks
<1> DEFINE Kept == \A i \in DOMAIN rows \ DOMAIN rows' :
       \E j \in DOMAIN rows' :
         /\ j < i /\ KeyOf(rows'[j]) = KeyOf(rows[i])
         /\ rows[i].fav => rows'[j].fav
         /\ rows[i].scored \subseteq rows'[j].scored
         /\ rows[i].alerts \subseteq rows'[j].alerts
         /\ rows[i].emb => rows'[j].emb
<1>1. StoreInv /\ [StoreNext]_storeVars => [Kept]_storeVars
  <2> SUFFICES ASSUME StoreInv, StoreNext PROVE Kept
    OBVIOUS
  <2>1. ASSUME NEW r \in Runs, Start(r) \/ PersistItem(r) \/ Progresses(r) \/ Crash(r)
        PROVE  DOMAIN rows \subseteq DOMAIN rows'
    BY <2>1 DEF Start, PersistItem, Progresses, Crash, Insert, FlushFails, BeginFinish,
                FlushRun, CommitRows, Rollback, Merged, View, Patch, Over
  <2>2. ASSUME NEW m \in Marking, UserMarks(m[1], m[2]) PROVE DOMAIN rows \subseteq DOMAIN rows'
    BY <2>2 DEF UserMarks, Favourite, Score, MatchFaculty, RaiseAlert
  <2>3. ASSUME NEW org \in Orgs, Deduplicate(org) PROVE Kept
    BY <2>3, DeduplicateKeepsMarks
  <2> QED
    BY <2>1, <2>2, <2>3 DEF StoreNext
<1> QED
  BY <1>1, StoreInvariant, PTL DEF StoreSpec, MergeKeepsMarks

=============================================================================

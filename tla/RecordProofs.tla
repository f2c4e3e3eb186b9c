------------------------------ MODULE RecordProofs ------------------------------
(***************************************************************************)
(* Proofs about the rows that users rely on: the files that documents      *)
(* point to, the amounts of the calls, the scores of an organisation, the  *)
(* sources that it owns, what the dashboard counts of all of them, and the *)
(* sectors that the backfill gives them.                                   *)
(* Each section states the inductive invariant of one specification and    *)
(* then its property.                                                      *)
(***************************************************************************)
EXTENDS Artifacts, OpportunityFields, Scoring, SourceCatalog, Dashboard, Sectors,
  SequenceTheorems, FiniteSetTheorems, TLAPS

-----------------------------------------------------------------------------
(* Artifacts.  An upload holds its key between its two writes; what could take *)
(* the object away is the deletion of another row with the same key, and then  *)
(* the key is among the shared.                                                *)

\* The requests between their two writes, and the keys the reports point to.
WorkTyped ==
  /\ docs \in [Documents -> Files \cup {Nothing}]
  /\ DOMAIN reports = Reports
  /\ \A r \in Reports : reports[r] \in Files => reports[r] \in {Nothing, NoReport}
  /\ \A w \in work :
       /\ w.kind = "upload" => w.row \in Documents /\ w.key \in Files /\ docs[w.row] = Nothing
       /\ w.kind = "delete" => w.row \in Documents
       /\ w.kind \notin {"upload", "delete"} => (w.key \in Files => w.key = Nothing)

\* One request at a time works on a document row.
OneUpload ==
  \A v, w \in work :
    /\ v.kind \in {"upload", "delete"} /\ w.kind \in {"upload", "delete"} /\ v.row = w.row
    => v = w

\* Two holders of a key: it is shared.
SharersKnown ==
  /\ \A v, w \in work :
       v.kind = "upload" /\ w.kind = "upload" /\ v.key = w.key => v = w \/ v.key \in shared
  /\ \A d \in Documents, w \in work :
       w.kind = "upload" /\ docs[d] = w.key => docs[d] = Nothing \/ w.key \in shared

\* An upload has its object until it commits.
UploadStored == \A w \in work : w.kind = "upload" => w.key \in objects \cup shared

ArtifactsInv == WorkTyped /\ OneUpload /\ SharersKnown /\ UploadStored

\* The promise of DocumentsReadable, as a condition on one step.
StepReadable ==
  \A d \in Documents :
    docs'[d] # Nothing /\ docs'[d] \notin shared' /\ docs[d] = Nothing => docs'[d] \in objects'

\* Before the first request nothing is held.
LEMMA ArtifactsStart == ArtifactsInit => ArtifactsInv
BY DEF ArtifactsInit, ArtifactsInv, WorkTyped, OneUpload, SharersKnown, UploadStored, NoReport,
  Nothing

\* An upload finds its row free and joins the holders of its key.
LEMMA UploadKeeps ==
  ASSUME ArtifactsInv, NEW d \in Documents, NEW f \in Files, Upload(d, f)
  PROVE  ArtifactsInv' /\ StepReadable
<1> DEFINE t == Task("upload", d, f)
<1>1. /\ docs[d] = Nothing /\ \A w \in work : w.row # d
      /\ objects' = objects \cup {f} /\ work' = work \cup {t}
      /\ UNCHANGED <<docs, reports>>
  BY DEF Upload, Busy
<1>2. t.kind = "upload" /\ t.row = d /\ t.key = f
  BY DEF Task
<1>3. shared \subseteq shared' /\ (InUse(f) => f \in shared')
  BY DEF Upload
<1> HIDE DEF t
<1>4. WorkTyped'
  BY <1>1, <1>2 DEF ArtifactsInv, WorkTyped
<1>5. OneUpload'
  BY <1>1, <1>2 DEF ArtifactsInv, OneUpload
<1>6. SharersKnown'
  BY <1>1, <1>2, <1>3 DEF ArtifactsInv, SharersKnown, InUse
<1>7. UploadStored'
  BY <1>1, <1>2, <1>3 DEF ArtifactsInv, UploadStored
<1> QED
  BY <1>1, <1>4, <1>5, <1>6, <1>7 DEF ArtifactsInv, StepReadable

\* A deletion removes an object that no upload holds alone.
LEMMA DeleteKeeps ==
  ASSUME ArtifactsInv, NEW d \in Documents, DeleteDocument(d)
  PROVE  ArtifactsInv' /\ StepReadable
<1> DEFINE t == Task("delete", d, docs[d])
<1>1. /\ docs[d] # Nothing /\ \A w \in work : w.row # d
      /\ objects' = objects \ {docs[d]} /\ work' = work \cup {t}
      /\ UNCHANGED <<docs, reports, shared>>
  BY DEF DeleteDocument, Busy
<1>2. t.kind = "delete" /\ t.row = d
  BY DEF Task
<1> HIDE DEF t
<1>3. WorkTyped' /\ OneUpload' /\ SharersKnown'
  BY <1>1, <1>2 DEF ArtifactsInv, WorkTyped, OneUpload, SharersKnown
<1>4. UploadStored'
  BY <1>1, <1>2 DEF ArtifactsInv, UploadStored, SharersKnown
<1> QED
  BY <1>1, <1>3, <1>4 DEF ArtifactsInv, StepReadable

\* Reports have keys of their own.
LEMMA ReportKeeps ==
  ASSUME ArtifactsInv, NEW r \in Reports,
         \/ \E day \in Days : Download(r, day)
         \/ Discard(r, "regenerate") \/ Discard(r, "scrap")
  PROVE  ArtifactsInv' /\ StepReadable
<1>1. UNCHANGED <<docs, reports, shared>>
  BY DEF Download, Discard
<1>2. PICK t : /\ work' = work \cup {t} /\ t.kind \notin {"upload", "delete"}
               /\ t.key \notin Files \/ t.key = Nothing
  <2>1. CASE \E day \in Days : Download(r, day)
    <3>1. PICK day \in Days : Download(r, day)
      BY <2>1
    <3> DEFINE x == Task("download", r, Artefact(r, day))
    <3>2. x.kind = "download" /\ x.key = Artefact(r, day)
      BY DEF Task
    <3>3. work' = work \cup {x}
      BY <3>1 DEF Download
    <3> HIDE DEF x
    <3> QED
      BY <3>2, <3>3, ArtifactsAssumption
  <2>2. ASSUME NEW kind \in {"regenerate", "scrap"}, Discard(r, kind)
        PROVE  \E x : /\ work' = work \cup {x} /\ x.kind \notin {"upload", "delete"}
                      /\ x.key \notin Files \/ x.key = Nothing
    <3> DEFINE x == Task(kind, r, Nothing)
    <3>1. x.kind = kind /\ x.key = Nothing
      BY DEF Task
    <3>2. work' = work \cup {x}
      BY <2>2 DEF Discard
    <3> HIDE DEF x
    <3> QED
      BY <3>1, <3>2
  <2> QED
    BY <2>1, <2>2
<1>3. objects \cap Files \subseteq objects'
  BY DEF ArtifactsInv, WorkTyped, Download, Discard
<1>4. WorkTyped' /\ OneUpload' /\ SharersKnown'
  BY <1>1, <1>2 DEF ArtifactsInv, WorkTyped, OneUpload, SharersKnown
<1>5. UploadStored'
  BY <1>1, <1>2, <1>3 DEF ArtifactsInv, UploadStored, WorkTyped
<1> QED
  BY <1>1, <1>4, <1>5 DEF ArtifactsInv, StepReadable

\* A commit turns the holder of a key from a request into a row.
LEMMA CommitKeeps ==
  ASSUME ArtifactsInv, NEW w \in work, Commit(w)
  PROVE  ArtifactsInv' /\ StepReadable
<1>1. work' = work \ {w} /\ UNCHANGED <<objects, shared>>
  BY DEF Commit
<1>2. CASE w.kind = "upload"
  <2>1. docs' = [docs EXCEPT ![w.row] = w.key] /\ UNCHANGED reports
    BY <1>2 DEF Commit
  <2>2. /\ w.row \in Documents /\ w.key \in Files
        /\ \A d \in Documents : docs'[d] = IF d = w.row THEN w.key ELSE docs[d]
    BY <1>2, <2>1 DEF ArtifactsInv, WorkTyped
  <2>3. WorkTyped'
    BY <1>1, <1>2, <2>1, <2>2 DEF ArtifactsInv, WorkTyped, OneUpload
  <2>4. OneUpload' /\ SharersKnown'
    BY <1>1, <1>2, <2>2 DEF ArtifactsInv, OneUpload, SharersKnown
  <2>5. UploadStored' /\ StepReadable
    BY <1>1, <1>2, <2>2 DEF ArtifactsInv, UploadStored, StepReadable
  <2> QED
    BY <2>3, <2>4, <2>5 DEF ArtifactsInv
<1>3. CASE w.kind = "delete"
  <2>1. docs' = [docs EXCEPT ![w.row] = Nothing] /\ UNCHANGED reports
    BY <1>3 DEF Commit
  <2>2. /\ w.row \in Documents
        /\ \A d \in Documents : docs'[d] = IF d = w.row THEN Nothing ELSE docs[d]
    BY <1>3, <2>1 DEF ArtifactsInv, WorkTyped
  <2>3. WorkTyped'
    BY <1>1, <2>1, <2>2 DEF ArtifactsInv, WorkTyped
  <2>4. OneUpload' /\ SharersKnown'
    BY <1>1, <2>2 DEF ArtifactsInv, OneUpload, SharersKnown
  <2>5. UploadStored' /\ StepReadable
    BY <1>1, <2>2 DEF ArtifactsInv, UploadStored, StepReadable
  <2> QED
    BY <2>3, <2>4, <2>5 DEF ArtifactsInv
<1>4. CASE w.kind \notin {"upload", "delete"}
  <2>1. /\ UNCHANGED docs
        /\ reports' = IF reports[w.row] = NoReport THEN reports
                      ELSE [reports EXCEPT ![w.row] =
                              IF w.kind = "scrap" THEN NoReport ELSE w.key]
    BY <1>4 DEF Commit
  <2>2. WorkTyped'
    BY <1>1, <1>4, <2>1 DEF ArtifactsInv, WorkTyped
  <2>3. OneUpload' /\ SharersKnown' /\ UploadStored' /\ StepReadable
    BY <1>1, <2>1 DEF ArtifactsInv, OneUpload, SharersKnown, UploadStored, StepReadable
  <2> QED
    BY <2>2, <2>3 DEF ArtifactsInv
<1> QED
  BY <1>2, <1>3, <1>4

\* Cutting a request forgets it.
LEMMA CutKeeps ==
  ASSUME ArtifactsInv, NEW w \in work, Cut(w)
  PROVE  ArtifactsInv' /\ StepReadable
BY DEF ArtifactsInv, WorkTyped, OneUpload, SharersKnown, UploadStored, StepReadable, Cut

\* Every step keeps the holders of the keys known.
LEMMA ArtifactsStep == ArtifactsInv /\ [ArtifactsNext]_artifactVars => ArtifactsInv' /\ StepReadable
<1> SUFFICES ASSUME ArtifactsInv, [ArtifactsNext]_artifactVars PROVE ArtifactsInv' /\ StepReadable
  OBVIOUS
<1>1. CASE UNCHANGED artifactVars
  BY <1>1 DEF ArtifactsInv, WorkTyped, OneUpload, SharersKnown, UploadStored, StepReadable,
     artifactVars
<1>2. CASE ArtifactsNext
  BY <1>2, UploadKeeps, DeleteKeeps, ReportKeeps, CommitKeeps, CutKeeps DEF ArtifactsNext
<1> QED
  BY <1>1, <1>2

\* A new document row can be read at once, unless its file is shared with another
\* row or request: whatever uploads, deletions, reports and cuts come in between.
THEOREM DocumentsStayReadable == ArtifactsSpec => DocumentsReadable
<1>1. StepReadable =>
        [\A d \in Documents :
           docs'[d] # Nothing /\ docs'[d] \notin shared' /\ docs[d] = Nothing
             => docs'[d] \in objects']_artifactVars
  BY DEF StepReadable
<1> QED
  BY <1>1, ArtifactsStart, ArtifactsStep, PTL DEF ArtifactsSpec, DocumentsReadable

-----------------------------------------------------------------------------
(* OpportunityFields.  A row has its columns as long as it exists; each operation *)
(* is then an update of some of them.                                          *)

FieldNames == {"summary", "lists", "raw", "value", "cur", "close", "open", "words", "ctx",
               "mentions", "status"}

HasColumns == Exists => FieldNames \subseteq DOMAIN row

\* An amount and its currency stay, as a condition on one step.
AmountStays ==
  Exists /\ row.value # NoValue =>
    row'.value = row.value /\ (row.cur # None => row'.cur = row.cur)

\* Neither a merge nor an analysis touches a stored amount.
LEMMA MergedFundingKeeps ==
  ASSUME NEW old, NEW p, old.value # NoValue
  PROVE  /\ MergedFunding(old, p).value = old.value
         /\ old.cur # None => MergedFunding(old, p).cur = old.cur
BY DEF MergedFunding, Either

\* Nor does an analysis, forced or not.
LEMMA ReanalyzedKeeps ==
  ASSUME NEW e, NEW force \in BOOLEAN, FieldNames \subseteq DOMAIN row, row.value # NoValue
  PROVE  /\ ReanalyzedRow(e, force).value = row.value
         /\ ReanalyzedRow(e, force).cur = row.cur
BY DEF ReanalyzedRow, FieldNames

\* An analysis keeps the columns.
LEMMA ReanalyzedColumns ==
  ASSUME NEW e, NEW force
  PROVE  DOMAIN ReanalyzedRow(e, force) = DOMAIN row
BY DEF ReanalyzedRow

\* A merge takes a new summary that is worth something, or keeps the old one.
LEMMA SummaryKeeps ==
  ASSUME NEW old, NEW new, ~Thin(old)
  PROVE  ~Thin(MergedSummary(old, new))
BY DEF MergedSummary

\* A row of a candidate has all columns.
LEMMA InsertColumns ==
  ASSUME NEW p \in Scraped, InsertRow(p)
  PROVE  HasColumns' /\ AmountStays
<1>1. FieldNames \ {"status"} \subseteq DOMAIN p
  BY DEF Scraped, Columns, FieldNames
<1>2. DOMAIN row' = DOMAIN p \cup {"status"}
  BY DEF InsertRow
<1> QED
  BY <1>1, <1>2 DEF HasColumns, AmountStays, InsertRow

\* A merge keeps the amount, and a summary that says something.
LEMMA MergeKeeps ==
  ASSUME HasColumns, NEW p, MergeRow(p)
  PROVE  HasColumns' /\ AmountStays /\ (~Thin(row.summary) => ~Thin(row'.summary))
<1>1. Exists /\ FieldNames \subseteq DOMAIN row
  BY DEF MergeRow, HasColumns
<1> DEFINE money == MergedFunding(row, p)
<1>2. /\ DOMAIN row' = DOMAIN row
      /\ row'.value = money.value /\ row'.cur = money.cur
      /\ row'.summary = MergedSummary(row.summary, p.summary)
  BY <1>1 DEF MergeRow, FieldNames
<1> QED
  BY <1>1, <1>2, MergedFundingKeeps, SummaryKeeps DEF HasColumns, AmountStays

\* An analysis keeps the amount, whatever the model answers.
LEMMA ReanalyzeKeeps ==
  ASSUME HasColumns, NEW force \in BOOLEAN, Reanalyze(force)
  PROVE  HasColumns' /\ AmountStays
<1>1. Exists /\ FieldNames \subseteq DOMAIN row
  BY DEF Reanalyze, HasColumns
<1>2. PICK e \in Extractions :
        \/ row' = row
        \/ \E status : row' = [ReanalyzedRow(e, force) EXCEPT !.status = status]
  BY DEF Reanalyze
<1>3. CASE row' = row
  BY <1>1, <1>3 DEF HasColumns, AmountStays
<1>4. ASSUME NEW status, row' = [ReanalyzedRow(e, force) EXCEPT !.status = status]
      PROVE  HasColumns' /\ AmountStays
  <2>1. DOMAIN ReanalyzedRow(e, force) = DOMAIN row
    BY ReanalyzedColumns
  <2>2. DOMAIN row' = DOMAIN row /\ row'.value = ReanalyzedRow(e, force).value
        /\ row'.cur = ReanalyzedRow(e, force).cur
    BY <1>1, <1>4, <2>1 DEF FieldNames
  <2> QED
    BY <1>1, <2>2, ReanalyzedKeeps DEF HasColumns, AmountStays
<1> QED
  BY <1>2, <1>3, <1>4

\* The user and the administrator's backfills fill what is missing.
LEMMA BackfillKeeps ==
  ASSUME HasColumns, PatchSummary \/ BackfillClose \/ BackfillFunding \/ SummarizeMissing
  PROVE  HasColumns' /\ AmountStays
<1>1. Exists /\ FieldNames \subseteq DOMAIN row
  BY DEF PatchSummary, BackfillClose, BackfillFunding, SummarizeMissing, HasColumns
<1>2. CASE BackfillFunding
  BY <1>1, <1>2 DEF BackfillFunding, HasColumns, AmountStays
<1>3. CASE PatchSummary \/ SummarizeMissing
  BY <1>1, <1>3 DEF PatchSummary, SummarizeMissing, HasColumns, AmountStays, FieldNames
<1>4. CASE BackfillClose
  BY <1>1, <1>4 DEF BackfillClose, HasColumns, AmountStays, FieldNames
<1> QED
  BY <1>2, <1>3, <1>4

\* Every step keeps the best values of the row.
LEMMA FieldsStep ==
  HasColumns /\ [FieldsNext]_fieldsVars
    => /\ HasColumns' /\ AmountStays
       /\ how' = "merge" /\ ~Thin(row.summary) => ~Thin(row'.summary) \/ UNCHANGED fieldsVars
<1> SUFFICES ASSUME HasColumns, [FieldsNext]_fieldsVars
             PROVE  /\ HasColumns' /\ AmountStays
                    /\ how' = "merge" /\ ~Thin(row.summary)
                         => ~Thin(row'.summary) \/ UNCHANGED fieldsVars
  OBVIOUS
<1>1. CASE UNCHANGED fieldsVars
  BY <1>1 DEF fieldsVars, HasColumns, AmountStays, Exists
<1>2. ASSUME NEW p \in Scraped, InsertRow(p) PROVE HasColumns' /\ AmountStays /\ how' # "merge"
  BY <1>2, InsertColumns DEF InsertRow
<1>3. ASSUME NEW force \in BOOLEAN, Reanalyze(force)
      PROVE  HasColumns' /\ AmountStays /\ how' # "merge"
  BY <1>3, ReanalyzeKeeps DEF Reanalyze
<1>4. CASE PatchSummary \/ BackfillClose \/ BackfillFunding \/ SummarizeMissing
  <2>1. how' # "merge"
    BY <1>4 DEF PatchSummary, BackfillClose, BackfillFunding, SummarizeMissing
  <2> QED
    BY <1>4, <2>1, BackfillKeeps
<1>5. CASE NextDay
  BY <1>5 DEF NextDay, HasColumns, AmountStays, Exists
<1> QED
  BY <1>1, <1>2, <1>3, <1>4, <1>5, MergeKeeps DEF FieldsNext

\* Merges, analyses and backfills keep a stored amount with its currency, and a
\* merge keeps a summary that says something, for all candidates and all answers of
\* the model.
THEOREM StoredValuesStay == FieldsSpec => BestValuesStay
<1>1. FieldsInit => HasColumns
  BY DEF FieldsInit, NoRow, HasColumns, Exists
<1>2. /\ AmountStays
      /\ how' = "merge" /\ ~Thin(row.summary) => ~Thin(row'.summary) \/ UNCHANGED fieldsVars
      => [/\ Exists /\ row.value # NoValue
            => /\ row'.value = row.value
               /\ row.cur # None => row'.cur = row.cur
          /\ how' = "merge" /\ ~Thin(row.summary) => ~Thin(row'.summary)]_fieldsVars
  BY DEF AmountStays
<1> QED
  BY <1>1, <1>2, FieldsStep, PTL DEF FieldsSpec, BestValuesStay

-----------------------------------------------------------------------------
(* Scoring.  What a unit of work has in memory agrees with the table for every *)
(* call that no other unit has overtaken.                                      *)

PriorityNames == {"high", "medium", "low", "not_recommended", "none"}
ScoreRow == [value : Int, priority : PriorityNames]
RowMap == UNION {[D -> ScoreRow] : D \in SUBSET Scorable}
Kinds == {"request", "run", "round", "score_all", "rescore_all"}

UnitTyped(s) ==
  s \in [kind : Kinds, todo : Seq(Scorable), seen : [Scorable -> Contents],
         edits : SUBSET Scorable, loaded : RowMap, made : RowMap, new : Seq(Scorable),
         sent : RowMap, overtaken : SUBSET Scorable]

\* The rows in memory are the scores of the columns seen; where nobody overtook, the
\* rows loaded are those flushed or committed, and those added are not in the table.
InMemory(s) ==
  /\ DOMAIN s.loaded = DOMAIN s.made /\ DOMAIN s.sent \subseteq DOMAIN s.made
  /\ \A c \in DOMAIN s.made : s.made[c] = Rated(s.seen[c])
  /\ \A c \in DOMAIN s.made \ s.overtaken :
       s.loaded[c] = IF c \in DOMAIN s.sent THEN s.sent[c] ELSE score[c]

Added(s) ==
  /\ \A i \in DOMAIN s.new :
       s.new[i] \in DOMAIN s.made /\ (s.new[i] \notin s.overtaken => score[s.new[i]] = Unrated)
  /\ \A i, j \in DOMAIN s.new : s.new[i] = s.new[j] => i = j

ScoringInv ==
  /\ content \in [Scorable -> Contents] /\ score \in [Scorable -> ScoreRow]
  /\ DOMAIN unit = Units
  /\ \A u \in Units : unit[u] = NoUnit \/ (UnitTyped(unit[u]) /\ InMemory(unit[u]) /\ Added(unit[u]))

\* ScoresSettle, as a condition on one step.
UnitSettles(u) ==
  LET s == unit[u] IN
  /\ Duplicate(s) => Range(s.new) \cap s.overtaken # {}
  /\ s # NoUnit /\ unit'[u] = NoUnit /\ score' # score =>
       \A c \in DOMAIN s.made \ s.overtaken : score'[c] = Rated(s.seen[c])

\* A score is a natural number, never the -1 of a missing row.
LEMMA RatingType == \A f \in Contents : Rating(f) \in Nat
<1> TAKE f \in Contents
<1> USE ScoringAssumption
<1>1. CountryPoints[f.country] \in Int
  BY DEF CountryPoints
<1>2. TypePoints[f.type] \in Int
  BY DEF TypePoints
<1>3. TopicPoints[f.topics] \in Int
  BY DEF TopicPoints
<1>4. AmountPoints[f.amount] \in Int
  BY DEF AmountPoints
<1>5. DeadlinePoints[f.close] \in Int
  BY DEF DeadlinePoints
<1> QED
  BY <1>1, <1>2, <1>3, <1>4, <1>5 DEF Rating

\* A rating is a row.
LEMMA RatedType == \A f \in Contents : Rated(f) \in ScoreRow /\ Rated(f) # Unrated
<1> TAKE f \in Contents
<1>1. Rating(f) \in Nat
  BY RatingType
<1>2. Priority(Rating(f)) \in PriorityNames
  BY <1>1 DEF Priority, PriorityNames
<1>3. Rated(f).value # Unrated.value
  BY <1>1 DEF Rated, Unrated
<1> QED
  BY <1>1, <1>2, <1>3 DEF Rated, ScoreRow

\* The value of a missing row is a row as well.
LEMMA UnratedType == Unrated \in ScoreRow
BY DEF Unrated, ScoreRow, PriorityNames

\* Members of RowMap.
LEMMA RowMaps ==
  ASSUME NEW m
  PROVE  m \in RowMap <=> DOMAIN m \subseteq Scorable /\ m \in [DOMAIN m -> ScoreRow]
BY DEF RowMap

\* One row is a map of rows, and so is one map on top of another.
LEMMA RowOfType ==
  ASSUME NEW c \in Scorable, NEW r \in ScoreRow
  PROVE  RowOf(c, r) \in RowMap
BY RowMaps DEF RowOf

\* The map on top has its rows, the other one those it lacks.
LEMMA OnTopType ==
  ASSUME NEW m \in RowMap, NEW n \in RowMap
  PROVE  OnTop(m, n) \in RowMap
<1>1. DOMAIN m \subseteq Scorable /\ DOMAIN n \subseteq Scorable
      /\ m \in [DOMAIN m -> ScoreRow] /\ n \in [DOMAIN n -> ScoreRow]
  BY RowMaps
<1>2. OnTop(m, n) \in [DOMAIN m \cup DOMAIN n -> ScoreRow]
  BY <1>1 DEF OnTop
<1> QED
  BY <1>1, <1>2, RowMaps

\* What an UPDATE leaves is a row; when the table has what was loaded, it is the row
\* in memory.
LEMMA UpdateType ==
  ASSUME NEW r \in ScoreRow, NEW l \in ScoreRow, NEW m \in ScoreRow
  PROVE  Update(r, l, m) \in ScoreRow /\ Update(l, l, m) = m
BY DEF Update, ScoreRow

\* A finite set can be listed.
LEMMA ListedType == \A S \in SUBSET Scorable : SetToSeq(S) \in Seq(Scorable)
<1> TAKE S \in SUBSET Scorable
<1>1. IsFiniteSet(S)
  BY ScoringAssumption, FS_Subset
<1>2. Cardinality(S) \in Nat /\ ExistsBijection(1 .. Cardinality(S), S)
  BY <1>1, FS_CardinalityType
<1>3. \E f \in [1 .. Cardinality(S) -> S] : IsInjective(f)
  BY <1>2 DEF ExistsBijection, Bijection, Injection, IsInjective
<1>4. SetToSeq(S) \in [1 .. Cardinality(S) -> S]
  BY <1>3, Zenon DEF SetToSeq
<1> QED
  BY <1>2, <1>4

\* The start has no unit.
LEMMA ScoringStart == ScoringInit => ScoringInv
<1> SUFFICES ASSUME ScoringInit PROVE ScoringInv
  OBVIOUS
<1>1. content \in [Scorable -> Contents]
  BY ScoringAssumption DEF ScoringInit
<1> QED
  BY <1>1, UnratedType DEF ScoringInit, ScoringInv

\* A step of one unit keeps the invariant if the unit it leaves does.
LEMMA OneUnit ==
  ASSUME ScoringInv, NEW u \in Units, NEW s, UNCHANGED <<content, score>>,
         unit' = [unit EXCEPT ![u] = s],
         s = NoUnit \/ (UnitTyped(s) /\ InMemory(s) /\ Added(s))
  PROVE  ScoringInv'
<1>1. DOMAIN unit' = Units /\ \A v \in Units : unit'[v] = IF v = u THEN s ELSE unit[v]
  BY DEF ScoringInv
<1> DEFINE Good(x) == x = NoUnit \/ (UnitTyped(x) /\ InMemory(x) /\ Added(x))
<1>2. ASSUME NEW v \in Units PROVE Good(unit[v])'
  <2>1. CASE v = u
    <3>1. unit'[v] = s
      BY <1>1, <2>1
    <3> QED
      BY <3>1 DEF UnitTyped, InMemory, Added
  <2>2. CASE v # u
    <3>1. unit'[v] = unit[v]
      BY <1>1, <2>2
    <3> QED
      BY <3>1 DEF ScoringInv, UnitTyped, InMemory, Added
  <2> QED
    BY <2>1, <2>2
<1> QED
  BY <1>1, <1>2 DEF ScoringInv

\* A unit begins with the committed columns and nothing in memory.
LEMMA BeginUnitKeeps ==
  ASSUME ScoringInv, NEW u \in Units, NEW kind \in Kinds, BeginUnit(u, kind)
  PROVE  ScoringInv'
<1>1. PICK todo \in Todo(kind) :
        unit' = [unit EXCEPT ![u] = NewUnit(kind, todo, content)]
  BY DEF BeginUnit
<1> DEFINE s == NewUnit(kind, todo, content)
<1>2. DOMAIN NoRows = {} /\ NoRows \in RowMap
  BY RowMaps DEF NoRows
<1>3. todo \in Seq(Scorable)
  <2>1. CASE kind = "request"
    <3>1. PICK c \in Scorable : todo = <<c>>
      BY <2>1, <1>1 DEF Todo
    <3> QED
      BY <3>1
  <2>2. CASE kind = "run"
    <3>1. PICK c \in Scorable : todo = <<c, c>>
      BY <2>2, <1>1 DEF Todo
    <3> QED
      BY <3>1
  <2>3. CASE kind \in {"round", "score_all"}
    <3>1. todo = SetToSeq({c \in Scorable : score[c] = Unrated})
      BY <2>3, <1>1 DEF Todo
    <3> QED
      BY <3>1, ListedType
  <2>4. CASE kind = "rescore_all"
    <3>1. todo = SetToSeq(Scorable)
      BY <2>4, <1>1 DEF Todo
    <3> QED
      BY <3>1, ListedType
  <2> QED
    BY <2>1, <2>2, <2>3, <2>4 DEF Kinds
<1>4. content \in [Scorable -> Contents]
  BY DEF ScoringInv
<1>5. UnitTyped(s)
  BY <1>2, <1>3, <1>4 DEF UnitTyped, NewUnit
<1>6. InMemory(s) /\ Added(s)
  BY <1>2 DEF InMemory, Added, NewUnit
<1>7. unit' = [unit EXCEPT ![u] = s] /\ UNCHANGED <<content, score>>
  BY <1>1 DEF BeginUnit
<1> HIDE DEF s
<1> QED
  BY <1>5, <1>6, <1>7, OneUnit

\* A calculation puts one call into memory.
LEMMA CalculateKeeps ==
  ASSUME ScoringInv, NEW u \in Units, Calculate(u)
  PROVE  ScoringInv'
<1> DEFINE s == unit[u]
           c == Head(s.todo)
           r == RowFor(u, c)
<1>1. s # NoUnit
  BY DEF Calculate, NoUnit, NewUnit
<1>2. UnitTyped(s) /\ InMemory(s) /\ Added(s) /\ score \in [Scorable -> ScoreRow]
  BY <1>1 DEF ScoringInv
<1>3. s.todo \in Seq(Scorable) /\ s.todo # <<>> /\ s.seen \in [Scorable -> Contents]
      /\ s.new \in Seq(Scorable)
  BY <1>2 DEF UnitTyped, Calculate
<1>4. c \in Scorable /\ Tail(s.todo) \in Seq(Scorable)
  BY <1>3
<1>5. PICK f \in Contents :
        unit' = [unit EXCEPT ![u] =
          [s EXCEPT !.todo = Tail(@), !.seen[c] = f,
                    !.edits = IF f # s.seen[c] THEN @ \cup {c} ELSE @,
                    !.made = OnTop(RowOf(c, Rated(f)), @), !.loaded = OnTop(@, RowOf(c, r)),
                    !.new = IF r = Unrated THEN Append(@, c) ELSE @]]
  BY <1>3, <1>4 DEF Calculate
<1> DEFINE t == [s EXCEPT !.todo = Tail(@), !.seen[c] = f,
                    !.edits = IF f # s.seen[c] THEN @ \cup {c} ELSE @,
                    !.made = OnTop(RowOf(c, Rated(f)), @), !.loaded = OnTop(@, RowOf(c, r)),
                    !.new = IF r = Unrated THEN Append(@, c) ELSE @]
<1>6. /\ t.kind = s.kind /\ t.todo = Tail(s.todo) /\ t.seen = [s.seen EXCEPT ![c] = f]
      /\ t.edits = (IF f # s.seen[c] THEN s.edits \cup {c} ELSE s.edits)
      /\ t.made = OnTop(RowOf(c, Rated(f)), s.made)
      /\ t.loaded = OnTop(s.loaded, RowOf(c, r))
      /\ t.new = (IF r = Unrated THEN Append(s.new, c) ELSE s.new)
      /\ t.sent = s.sent /\ t.overtaken = s.overtaken
      /\ DOMAIN t = {"kind", "todo", "seen", "edits", "loaded", "made", "new", "sent", "overtaken"}
      /\ t = [k \in DOMAIN t |-> t[k]]
  BY <1>2 DEF UnitTyped
<1> HIDE DEF t
<1>7. RowOf(c, Rated(f)) \in RowMap /\ RowOf(c, r) \in RowMap
      /\ s.made \in RowMap /\ s.loaded \in RowMap /\ s.sent \in RowMap
  <2>1. s.made \in RowMap /\ s.loaded \in RowMap /\ s.sent \in RowMap
    BY <1>2 DEF UnitTyped
  <2>2. r \in ScoreRow
    BY <1>2, <1>4, <2>1, RowMaps DEF RowFor
  <2> HIDE DEF r
  <2> QED
    BY <1>4, <2>1, <2>2, RatedType, RowOfType
<1>8. UnitTyped(t)
  <2>1. t.seen \in [Scorable -> Contents] /\ t.todo \in Seq(Scorable)
    BY <1>3, <1>4, <1>6
  <2>2. t.made \in RowMap /\ t.loaded \in RowMap /\ t.sent \in RowMap
    BY <1>6, <1>7, OnTopType
  <2>3. t.new \in Seq(Scorable)
    BY <1>3, <1>4, <1>6
  <2>4. t.kind \in Kinds /\ t.edits \in SUBSET Scorable /\ t.overtaken \in SUBSET Scorable
    BY <1>2, <1>4, <1>6 DEF UnitTyped
  <2> QED
    BY <1>6, <2>1, <2>2, <2>3, <2>4 DEF UnitTyped
<1>9. /\ DOMAIN t.made = DOMAIN s.made \cup {c} /\ DOMAIN t.loaded = DOMAIN s.loaded \cup {c}
      /\ \A k \in DOMAIN t.made : t.made[k] = IF k = c THEN Rated(f) ELSE s.made[k]
      /\ \A k \in DOMAIN t.loaded : t.loaded[k] = IF k \in DOMAIN s.loaded THEN s.loaded[k] ELSE r
  BY <1>6 DEF OnTop, RowOf
<1>10. r = IF c \in DOMAIN s.made THEN s.made[c] ELSE score[c]
  BY DEF RowFor
<1>11. \A k \in Scorable : t.seen[k] = IF k = c THEN f ELSE s.seen[k]
  BY <1>3, <1>4, <1>6
<1>12. DOMAIN s.made \subseteq Scorable
  BY <1>7, RowMaps
<1> HIDE DEF s, c, r
<1>13. InMemory(t)
  BY <1>2, <1>4, <1>6, <1>9, <1>10, <1>11, <1>12 DEF InMemory
<1>14. Added(t)
  <2>1. CASE r = Unrated
    <3>1. c \notin DOMAIN s.made
      BY <1>2, <1>3, <1>4, <1>10, <2>1, RatedType DEF InMemory
    <3>2. t.new = Append(s.new, c)
      BY <1>6, <2>1
    <3>3. /\ DOMAIN t.new = 1 .. Len(s.new) + 1 /\ DOMAIN s.new = 1 .. Len(s.new)
          /\ t.new[Len(s.new) + 1] = c /\ \A i \in DOMAIN s.new : t.new[i] = s.new[i]
          /\ Len(s.new) \in Nat
      BY <1>3, <1>4, <3>2
    <3> QED
      BY <1>2, <1>6, <1>9, <1>10, <2>1, <3>1, <3>3 DEF Added
  <2>2. CASE r # Unrated
    BY <1>2, <1>6, <1>9, <2>2 DEF Added
  <2> QED
    BY <2>1, <2>2
<1>15. unit' = [unit EXCEPT ![u] = t] /\ UNCHANGED <<content, score>>
  BY <1>5 DEF Calculate, t, s, c, r
<1> QED
  BY <1>8, <1>13, <1>14, <1>15, OneUnit

\* A flush writes what is in memory on top of what the table has.
LEMMA FlushKeeps ==
  ASSUME ScoringInv, NEW u \in Units, Flush(u)
  PROVE  ScoringInv'
<1> DEFINE s == unit[u]
           t == [s EXCEPT !.new = <<>>, !.loaded = s.made, !.sent = OnTop(Sending(s), s.sent)]
<1>1. s # NoUnit
  BY DEF Flush, Dirty, NoUnit, NewUnit, NoRows
<1>2. UnitTyped(s) /\ InMemory(s) /\ Added(s) /\ score \in [Scorable -> ScoreRow]
  BY <1>1 DEF ScoringInv
<1>3. /\ s.made \in RowMap /\ s.loaded \in RowMap /\ s.sent \in RowMap
      /\ DOMAIN s.loaded = DOMAIN s.made /\ DOMAIN s.sent \subseteq DOMAIN s.made
  BY <1>2 DEF UnitTyped, InMemory
<1>4. unit' = [unit EXCEPT ![u] = t] /\ UNCHANGED <<content, score>>
  BY DEF Flush
<1>5. /\ t.kind = s.kind /\ t.todo = s.todo /\ t.seen = s.seen /\ t.edits = s.edits
      /\ t.made = s.made /\ t.loaded = s.made /\ t.new = <<>>
      /\ t.sent = OnTop(Sending(s), s.sent) /\ t.overtaken = s.overtaken
      /\ DOMAIN t = {"kind", "todo", "seen", "edits", "loaded", "made", "new", "sent", "overtaken"}
      /\ t = [k \in DOMAIN t |-> t[k]]
  BY <1>2 DEF UnitTyped
<1> HIDE DEF t
<1>6. /\ DOMAIN s.made \subseteq Scorable /\ s.made \in [DOMAIN s.made -> ScoreRow]
      /\ s.loaded \in [DOMAIN s.made -> ScoreRow]
      /\ s.sent \in [DOMAIN s.sent -> ScoreRow]
  BY <1>3, RowMaps
<1> DEFINE base(c) == IF c \in DOMAIN s.sent THEN s.sent[c] ELSE score[c]
           d == Dirty(s)
<1>7. /\ d \subseteq DOMAIN s.made
      /\ \A c \in d : base(c) \in ScoreRow /\ s.loaded[c] \in ScoreRow /\ s.made[c] \in ScoreRow
  BY <1>2, <1>6 DEF Dirty
<1>8. DOMAIN Sending(s) = d /\ Sending(s) \in [d -> ScoreRow]
      /\ \A c \in d : Sending(s)[c] = Update(base(c), s.loaded[c], s.made[c])
  BY <1>7, UpdateType DEF Sending
<1>9. Sending(s) \in RowMap
  BY <1>6, <1>7, <1>8, RowMaps
<1>10. UnitTyped(t)
  <2>1. t.sent \in RowMap
    BY <1>3, <1>5, <1>9, OnTopType
  <2>2. t.new \in Seq(Scorable)
    BY <1>5
  <2> QED
    BY <1>2, <1>5, <2>1, <2>2 DEF UnitTyped
<1>11. ASSUME NEW c \in DOMAIN t.made \ t.overtaken
       PROVE  t.loaded[c] = IF c \in DOMAIN t.sent THEN t.sent[c] ELSE score[c]
  <2>1. s.loaded[c] = base(c) /\ c \in DOMAIN s.made
    BY <1>2, <1>5, <1>11 DEF InMemory
  <2>2. CASE c \in d
    <3>1. t.sent[c] = Sending(s)[c] /\ c \in DOMAIN t.sent
      BY <1>5, <1>8, <2>2 DEF OnTop
    <3>2. Sending(s)[c] = s.made[c]
      BY <1>7, <1>8, <2>1, <2>2, UpdateType
    <3> QED
      BY <1>5, <3>1, <3>2
  <2>3. CASE c \notin d
    <3>1. s.made[c] = s.loaded[c]
      BY <2>1, <2>3 DEF Dirty
    <3>2. /\ c \in DOMAIN t.sent <=> c \in DOMAIN s.sent
          /\ c \in DOMAIN s.sent => t.sent[c] = s.sent[c]
      BY <1>5, <1>8, <2>3 DEF OnTop
    <3> QED
      BY <1>5, <2>1, <3>1, <3>2
  <2> QED
    BY <2>2, <2>3
<1>12. DOMAIN t.sent \subseteq DOMAIN t.made
  BY <1>3, <1>5, <1>7, <1>8 DEF OnTop
<1>13. InMemory(t)
  BY <1>2, <1>5, <1>11, <1>12 DEF InMemory
<1>14. Added(t)
  BY <1>5 DEF Added
<1> HIDE DEF s
<1> QED
  BY <1>4, <1>10, <1>13, <1>14, OneUnit

\* A commit overtakes the other units at the calls it writes and they know.
LEMMA CommitUnitKeeps ==
  ASSUME ScoringInv, NEW u \in Units, CommitUnit(u)
  PROVE  ScoringInv'
<1> DEFINE s == unit[u]
<1>1. UnitTyped(s) /\ InMemory(s)
      /\ score \in [Scorable -> ScoreRow] /\ content \in [Scorable -> Contents]
  BY DEF ScoringInv, CommitUnit
<1>2. s.sent \in RowMap /\ s.seen \in [Scorable -> Contents]
  BY <1>1 DEF UnitTyped
<1>3. DOMAIN s.sent \subseteq Scorable /\ s.sent \in [DOMAIN s.sent -> ScoreRow]
  BY <1>2, RowMaps
<1>4. score' = OnTop(s.sent, score)
      /\ content' = [c \in Scorable |-> IF c \in s.edits THEN s.seen[c] ELSE content[c]]
      /\ unit' = [q \in Units |->
           IF q = u THEN NoUnit
           ELSE [unit[q] EXCEPT !.overtaken = @ \cup (DOMAIN s.sent \cap DOMAIN unit[q].made)]]
  BY DEF CommitUnit
<1> HIDE DEF s
<1>5. score' \in [Scorable -> ScoreRow]
      /\ \A c \in Scorable : score'[c] = IF c \in DOMAIN s.sent THEN s.sent[c] ELSE score[c]
  BY <1>1, <1>3, <1>4 DEF OnTop
<1>6. content' \in [Scorable -> Contents]
  BY <1>1, <1>2, <1>4
<1> DEFINE Good(x) == x = NoUnit \/ (UnitTyped(x) /\ InMemory(x) /\ Added(x))
<1>7. ASSUME NEW v \in Units PROVE Good(unit[v])'
  <2>1. CASE v = u
    BY <1>4, <2>1
  <2>2. CASE v # u /\ unit[v] = NoUnit
    <3>1. unit'[v] = [NoUnit EXCEPT !.overtaken = @ \cup (DOMAIN s.sent \cap DOMAIN NoUnit.made)]
      BY <1>4, <2>2
    <3>2. DOMAIN NoUnit.made = {} /\ NoUnit.overtaken = {}
      BY DEF NoUnit, NewUnit, NoRows
    <3>3. unit'[v] = [NoUnit EXCEPT !.overtaken = {}]
      BY <3>1, <3>2
    <3>4. unit'[v] = NoUnit
      BY <3>2, <3>3, Zenon DEF NoUnit, NewUnit
    <3> QED
      BY <3>4
  <2>3. CASE v # u /\ unit[v] # NoUnit
    <3> DEFINE x == unit[v]
               y == unit'[v]
    <3>1. UnitTyped(x) /\ InMemory(x) /\ Added(x)
      BY <2>3 DEF ScoringInv
    <3>2. y = [x EXCEPT !.overtaken = @ \cup (DOMAIN s.sent \cap DOMAIN x.made)]
      BY <1>4, <2>3
    <3>3. /\ y.kind = x.kind /\ y.todo = x.todo /\ y.seen = x.seen /\ y.edits = x.edits
          /\ y.made = x.made /\ y.loaded = x.loaded /\ y.new = x.new /\ y.sent = x.sent
          /\ y.overtaken = x.overtaken \cup (DOMAIN s.sent \cap DOMAIN x.made)
      BY <3>1, <3>2 DEF UnitTyped
    <3>4. UnitTyped(y)
      BY <1>3, <3>1, <3>2 DEF UnitTyped
    <3>5. DOMAIN x.made \subseteq Scorable
      BY <3>1, RowMaps DEF UnitTyped
    <3> HIDE DEF x, y
    <3>6. y = unit'[v]
      BY DEF y
    <3>7. InMemory(unit[v])' /\ Added(unit[v])'
      BY <1>5, <3>1, <3>3, <3>5, <3>6 DEF InMemory, Added
    <3>8. UnitTyped(unit[v])'
      BY <3>4, <3>6 DEF UnitTyped
    <3> QED
      BY <3>7, <3>8
  <2> QED
    BY <2>1, <2>2, <2>3
<1>8. DOMAIN unit' = Units
  BY <1>4
<1> QED
  BY <1>5, <1>6, <1>7, <1>8 DEF ScoringInv

\* A unit runs into the constraint only where it was overtaken.
LEMMA DuplicateOvertaken ==
  ASSUME ScoringInv, NEW u \in Units, Duplicate(unit[u])
  PROVE  Range(unit[u].new) \cap unit[u].overtaken # {}
<1> DEFINE s == unit[u]
<1>1. s # NoUnit
  BY DEF Duplicate, NoUnit, NewUnit
<1>2. Added(s)
  BY <1>1 DEF ScoringInv
<1>3. PICK i \in DOMAIN s.new : score[s.new[i]] # Unrated
  BY <1>2 DEF Duplicate, Added
<1>4. s.new[i] \in s.overtaken
  BY <1>2, <1>3 DEF Added
<1> QED
  BY <1>3, <1>4 DEF Range

\* The commit of a unit leaves the scores of the columns it saw.
LEMMA CommitSettles ==
  ASSUME ScoringInv, NEW u \in Units, CommitUnit(u)
  PROVE  \A c \in DOMAIN unit[u].made \ unit[u].overtaken : score'[c] = Rated(unit[u].seen[c])
<1> DEFINE s == unit[u]
<1>1. UnitTyped(s) /\ InMemory(s) /\ score \in [Scorable -> ScoreRow]
  BY DEF ScoringInv, CommitUnit
<1>2. s.made \in RowMap /\ s.sent \in RowMap
  BY <1>1 DEF UnitTyped
<1>3. DOMAIN s.made \subseteq Scorable
  BY <1>2, RowMaps
<1>4. score' = OnTop(s.sent, score) /\ Dirty(s) = {}
  BY DEF CommitUnit
<1> HIDE DEF s
<1>5. ASSUME NEW c \in DOMAIN s.made \ s.overtaken PROVE score'[c] = Rated(s.seen[c])
  <2>1. score'[c] = IF c \in DOMAIN s.sent THEN s.sent[c] ELSE score[c]
    BY <1>1, <1>3, <1>4 DEF OnTop
  <2>2. s.made[c] = s.loaded[c]
    BY <1>4 DEF Dirty
  <2> QED
    BY <1>1, <2>1, <2>2 DEF InMemory
<1> QED
  BY <1>5 DEF s

\* Every step keeps the invariant, and a unit that ends with a commit settles.
LEMMA ScoringStep == ScoringInv /\ [ScoringNext]_scoringVars => ScoringInv' /\ \A u \in Units : UnitSettles(u)
<1> SUFFICES ASSUME ScoringInv, [ScoringNext]_scoringVars
             PROVE  ScoringInv' /\ \A u \in Units : UnitSettles(u)
  OBVIOUS
<1> DEFINE Ends(u) == unit[u] # NoUnit /\ unit'[u] = NoUnit /\ score' # score
<1>1. SUFFICES ScoringInv'
               /\ \A u \in Units : Ends(u) => \A c \in DOMAIN unit[u].made \ unit[u].overtaken :
                                                score'[c] = Rated(unit[u].seen[c])
  BY DuplicateOvertaken DEF UnitSettles
<1>2. CASE UNCHANGED scoringVars
  BY <1>2 DEF ScoringInv, scoringVars, UnitTyped, InMemory, Added
<1>3. ASSUME NEW u \in Units, NEW kind \in Kinds, BeginUnit(u, kind) PROVE ScoringInv' /\ score' = score
  BY <1>3, BeginUnitKeeps DEF BeginUnit
<1>4. ASSUME NEW u \in Units, Calculate(u) PROVE ScoringInv' /\ score' = score
  BY <1>4, CalculateKeeps DEF Calculate
<1>5. ASSUME NEW u \in Units, Flush(u) PROVE ScoringInv' /\ score' = score
  BY <1>5, FlushKeeps DEF Flush
<1>6. ASSUME NEW u \in Units, Drop(u) PROVE ScoringInv' /\ score' = score
  BY <1>6, OneUnit DEF Drop
<1>7. ASSUME NEW v \in Units, CommitUnit(v)
      PROVE  ScoringInv' /\ \A u \in Units : Ends(u) => u = v
  <2>1. ASSUME NEW u \in Units \ {v} PROVE unit'[u].kind = unit[u].kind
    <3>1. "kind" \in DOMAIN unit[u]
      BY DEF ScoringInv, UnitTyped, NoUnit, NewUnit
    <3> QED
      BY <1>7, <3>1 DEF CommitUnit
  <2>2. \A u \in Units : unit[u] # NoUnit => unit[u].kind # NoUnit.kind
    BY DEF ScoringInv, UnitTyped, NoUnit, NewUnit, Kinds
  <2> QED
    BY <1>7, <2>1, <2>2, CommitUnitKeeps
<1>8. CASE ScoringNext
  BY <1>3, <1>4, <1>5, <1>6, <1>7, <1>8, CommitSettles DEF ScoringNext, Kinds
<1> QED
  BY <1>2, <1>8 DEF scoringVars

\* However the units of work interleave, a unit fails at the constraint only where
\* another one was faster, and what it commits are the scores of what it saw.
THEOREM UnitsSettle == ScoringSpec => ScoresSettle
<1>1. (\A u \in Units : UnitSettles(u)) =>
        [\A u \in Units :
           LET s == unit[u] IN
           /\ Duplicate(s) => Range(s.new) \cap s.overtaken # {}
           /\ s # NoUnit /\ unit'[u] = NoUnit /\ score' # score =>
                \A c \in DOMAIN s.made \ s.overtaken : score'[c] = Rated(s.seen[c])]_scoringVars
  BY DEF UnitSettles
<1> QED
  BY <1>1, ScoringStart, ScoringStep, PTL DEF ScoringSpec, ScoresSettle

-----------------------------------------------------------------------------
(* SourceCatalog.  A row without an owner is as the defaults say, in the table *)
(* and in what a session has read of it, but for what runs keep in it; so a    *)
(* claim has nothing else to write but the owner.                              *)

SourceRow ==
  [key : CatalogKeys, owner : Tenants \cup {NoOwner}, edited : BOOLEAN, config : {"default", "run"}]

\* A row that exists.
GoodRow(r) == r \in SourceRow /\ (r.owner = NoOwner => r.edited = FALSE)

\* What a session looked up, key by key.
GoodSeeding(s) ==
  /\ s.at \in Nat /\ s.seen \in Seq([id : Rows \cup {0}, row : SourceRow \cup {NoSource}])
  /\ s.at # 0 => Len(s.seen) = s.at - 1 /\ s.at <= Len(Order) + 1
  /\ \A n \in DOMAIN s.seen : s.seen[n].id # 0 => GoodRow(s.seen[n].row)

CatalogInv ==
  /\ DOMAIN source = Rows /\ \A i \in Rows : source[i] = NoSource \/ GoodRow(source[i])
  /\ DOMAIN seeding = Tenants
  /\ \A o \in Tenants : GoodSeeding(seeding[o]) /\ (~up => seeding[o].at = 0)

\* OwnerEditsStay, as a condition on one step.
OwnedStay ==
  \A i \in Rows :
    /\ OwnedRow(i) /\ source[i] # source'[i]
    /\ \/ ~up
       \/ \E o \in Tenants : ~seeding[o].force /\ seeding[o].at # 0 /\ seeding'[o].at = 0
    => source'[i] = [source[i] EXCEPT !.owner = source'[i].owner, !.config = source'[i].config]
ProfileStays == ~up /\ profile.version > 1 => UNCHANGED profile

\* Where there is room there is an id for each.
LEMMA RoomForAll ==
  ASSUME NEW A, NEW B, IsFiniteSet(A), IsFiniteSet(B), Cardinality(B) >= Cardinality(A)
  PROVE  \E g \in [A -> B] : \A x, y \in A : x # y => g[x] # g[y]
<1> DEFINE m == Cardinality(A)
           n == Cardinality(B)
<1>1. m \in Nat /\ n \in Nat /\ ExistsBijection(1 .. m, A) /\ ExistsBijection(1 .. n, B)
  BY FS_CardinalityType
<1> HIDE DEF m, n
<1>2. PICK f \in [1 .. m -> A] : \A x \in A : \E k \in 1 .. m : f[k] = x
  BY <1>1 DEF ExistsBijection, Bijection, Surjection
<1>3. PICK h \in [1 .. n -> B] : \A j, k \in 1 .. n : h[j] = h[k] => j = k
  BY <1>1 DEF ExistsBijection, Bijection, Injection, IsInjective
<1> DEFINE at(x) == CHOOSE k \in 1 .. m : f[k] = x
           g == [x \in A |-> h[at(x)]]
<1>4. \A x \in A : at(x) \in 1 .. m /\ f[at(x)] = x
  BY <1>2
<1>5. \A x \in A : at(x) \in 1 .. n
  BY <1>1, <1>4 DEF m, n
<1> HIDE DEF at
<1>6. g \in [A -> B] /\ \A x, y \in A : x # y => g[x] # g[y]
  BY <1>3, <1>4, <1>5
<1> QED
  BY <1>6

\* New rows take ids that are free.
LEMMA NewIdsFree ==
  ASSUME NEW wanted, IsFiniteSet(wanted), Cardinality(Free) >= Cardinality(wanted)
  PROVE  \A k \in wanted : NewIds(wanted)[k] \in Free
<1>1. IsFiniteSet(Free)
  BY CatalogAssumption, FS_Subset DEF Free
<1>2. \E g \in [wanted -> Free] : \A a, b \in wanted : a # b => g[a] # g[b]
  BY <1>1, RoomForAll
<1>3. NewIds(wanted) \in [wanted -> Free]
  BY <1>2, Zenon DEF NewIds
<1> QED
  BY <1>3

\* The catalog is finite.
LEMMA KeysFinite == IsFiniteSet(CatalogKeys)
<1>1. Order \in Seq(ToSet(Order))
  BY CatalogAssumption
<1>2. Len(Order) \in Nat /\ DOMAIN Order = 1 .. Len(Order)
  BY <1>1
<1>3. Order \in Surjection(1 .. Len(Order), ToSet(Order))
  BY <1>1, <1>2 DEF Surjection, ToSet
<1> QED
  BY <1>2, <1>3, FS_Interval, FS_Surjection DEF CatalogKeys

\* A default is a row that is not edited.
LEMMA DefaultGood ==
  ASSUME NEW k \in CatalogKeys, NEW o \in Tenants \cup {NoOwner}
  PROVE  GoodRow(Default(k, o))
BY DEF GoodRow, Default, SourceRow

\* Whatever was loaded, writing a default over a row leaves a row.
LEMMA OverwrittenGood ==
  ASSUME NEW now, GoodRow(now), NEW loaded, NEW k \in CatalogKeys, NEW o \in Tenants
  PROVE  GoodRow(Overwritten(now, loaded, Default(k, o)))
<1> DEFINE d == Default(k, o)
           cs == ChangedColumns(loaded, d)
<1>1. cs \subseteq {"owner", "edited", "config"}
  BY DEF ChangedColumns, CatalogFields
<1>2. d.owner = o /\ d.edited = FALSE /\ d.config = "default"
  BY DEF Default
<1>3. now \in SourceRow /\ (now.owner = NoOwner => now.edited = FALSE)
  BY DEF GoodRow
<1> HIDE DEF d, cs
<1> DEFINE w == [f \in DOMAIN now |-> IF f \in cs THEN d[f] ELSE now[f]]
<1>4. Overwritten(now, loaded, d) = w
  BY DEF Overwritten, cs
<1>5. w = [key |-> w.key, owner |-> w.owner, edited |-> w.edited, config |-> w.config]
  BY <1>3 DEF SourceRow
<1>6. /\ w.key = now.key /\ w.owner \in {o, now.owner} /\ w.edited \in {FALSE, now.edited}
      /\ w.config \in {"default", now.config}
  BY <1>1, <1>2, <1>3 DEF SourceRow
<1> HIDE DEF w
<1>7. w \in SourceRow
  BY <1>3, <1>5, <1>6 DEF SourceRow
<1>8. w.owner = NoOwner => w.edited = FALSE
  BY <1>3, <1>6, CatalogAssumption
<1> QED
  BY <1>4, <1>7, <1>8 DEF GoodRow, d

\* What was loaded without an owner changes the owner and what runs keep.
LEMMA ClaimChangesOwner ==
  ASSUME NEW now \in SourceRow, NEW loaded, GoodRow(loaded), loaded.owner = NoOwner,
         NEW k \in CatalogKeys, NEW o \in Tenants
  PROVE  /\ Overwritten(now, loaded, Default(k, o)).key = now.key
         /\ Overwritten(now, loaded, Default(k, o)).edited = now.edited
<1> DEFINE d == Default(k, o)
           w == Overwritten(now, loaded, d)
<1>1. ChangedColumns(loaded, d) \subseteq {"owner", "config"}
  <2>1. loaded.edited = FALSE /\ d.edited = FALSE
    BY DEF GoodRow, Default
  <2> HIDE DEF d
  <2>2. ~(d["edited"] # loaded["edited"])
    BY <2>1
  <2> QED
    BY <2>2 DEF ChangedColumns, CatalogFields
<1>2. w = [f \in DOMAIN now |-> IF f \in ChangedColumns(loaded, d) THEN d[f] ELSE now[f]]
  BY DEF Overwritten
<1> HIDE DEF d, w
<1>3. w.key = now.key /\ w.edited = now.edited
  BY <1>1, <1>2 DEF SourceRow
<1> QED
  BY <1>3 DEF w, d

\* A session that looks nothing up.
LEMMA NoSeedingGood == GoodSeeding(NoSeeding) /\ NoSeeding.at = 0
<1>1. NoSeeding.at = 0 /\ NoSeeding.seen = <<>>
  BY DEF NoSeeding
<1> QED
  BY <1>1 DEF GoodSeeding

\* Before the first start the table is empty.
LEMMA CatalogStart == CatalogInit => CatalogInv
BY NoSeedingGood DEF CatalogInit, CatalogInv

\* The start of the api leaves owned rows and edited profiles as they are.
LEMMA BootKeeps ==
  ASSUME CatalogInv, BootApi
  PROVE  CatalogInv' /\ OwnedStay /\ ProfileStays
<1>1. PICK pick \in Picks(CatalogKeys) :
        LET missing == {k \in CatalogKeys : pick[k] = 0}
            idOf == NewIds(missing)
        IN  /\ Cardinality(Free) >= Cardinality(missing)
            /\ source' =
                 [i \in Rows |->
                    IF \E k \in missing : idOf[k] = i
                      THEN Default(CHOOSE k \in missing : idOf[k] = i, NoOwner)
                    ELSE IF \E k \in CatalogKeys : pick[k] = i /\ Mine(source[i], FALSE)
                      THEN Overwritten(source[i], source[i], Default(source[i].key, LocalOrg))
                    ELSE source[i]]
  BY DEF BootApi
<1> DEFINE missing == {k \in CatalogKeys : pick[k] = 0}
           idOf == NewIds(missing)
           Gets(i) == \E k \in missing : idOf[k] = i
           Taken(i) == \E k \in CatalogKeys : pick[k] = i /\ Mine(source[i], FALSE)
<1>2. DOMAIN source' = Rows
  BY <1>1
<1>3. \A k \in missing : idOf[k] \in Free
  BY <1>1, KeysFinite, FS_Subset, NewIdsFree
<1>4. \A i \in Rows : ~Gets(i) /\ ~Taken(i) => source'[i] = source[i]
  BY <1>1
<1>5. \A i \in Rows : Gets(i) => source[i] = NoSource /\ GoodRow(source'[i])
  <2> SUFFICES ASSUME NEW i \in Rows, Gets(i)
               PROVE  source[i] = NoSource /\ GoodRow(source'[i])
    OBVIOUS
  <2> DEFINE new == CHOOSE k \in missing : idOf[k] = i
  <2>1. source[i] = NoSource
    BY <1>3 DEF Free
  <2>2. source'[i] = Default(new, NoOwner)
    BY <1>1
  <2>3. new \in missing
    OBVIOUS
  <2>4. new \in CatalogKeys
    BY <2>3
  <2> HIDE DEF new
  <2> QED
    BY <2>1, <2>2, <2>4, DefaultGood
<1>6. \A i \in Rows : ~Gets(i) /\ Taken(i) =>
        /\ GoodRow(source[i]) /\ source[i].owner = NoOwner /\ GoodRow(source'[i])
  <2> SUFFICES ASSUME NEW i \in Rows, ~Gets(i), Taken(i)
               PROVE  GoodRow(source[i]) /\ source[i].owner = NoOwner /\ GoodRow(source'[i])
    OBVIOUS
  <2>1. PICK k \in CatalogKeys : pick[k] = i /\ Mine(source[i], FALSE)
    OBVIOUS
  <2>2. i # 0 /\ pick[k] \in Found(k)
    BY <2>1, CatalogAssumption DEF Picks
  <2>3. source[i].key = k
    BY <2>1, <2>2 DEF Found, RowsOf
  <2>4. source[i] # NoSource
    BY <2>3, CatalogAssumption DEF NoSource, CatalogKeys
  <2>5. GoodRow(source[i])
    BY <2>4 DEF CatalogInv
  <2>6. source'[i] = Overwritten(source[i], source[i], Default(source[i].key, LocalOrg))
    BY <1>1
  <2> QED
    BY <2>1, <2>3, <2>5, <2>6, OverwrittenGood, CatalogAssumption DEF Mine
<1> HIDE DEF Gets, Taken
<1>7. CatalogInv'
  <2>1. \A i \in Rows : (source[i] = NoSource \/ GoodRow(source[i]))'
    BY <1>4, <1>5, <1>6 DEF CatalogInv, GoodRow
  <2> QED
    BY <1>2, <2>1 DEF CatalogInv, BootApi, GoodSeeding, GoodRow
<1>8. OwnedStay
  BY <1>4, <1>5, <1>6 DEF OwnedStay, OwnedRow, NoSource
<1>9. ProfileStays
  BY DEF ProfileStays, BootApi, SeededProfile
<1> QED
  BY <1>7, <1>8, <1>9

\* A stop rolls the open sessions back.
LEMMA StopKeeps == ASSUME CatalogInv, StopApi PROVE CatalogInv' /\ OwnedStay /\ ProfileStays
<1>1. CatalogInv'
  BY NoSeedingGood DEF CatalogInv, StopApi, GoodRow, GoodSeeding
<1> QED
  BY <1>1 DEF StopApi, OwnedStay, ProfileStays

\* A step that ends no session while the api serves, or changes no row, keeps what is
\* owned.
LEMMA OthersStay ==
  ASSUME UNCHANGED source \/ (up /\ \A o \in Tenants : seeding'[o].at = 0 => seeding[o].at = 0)
  PROVE  OwnedStay
BY DEF OwnedStay

\* A session that begins has looked nothing up.
LEMMA BeginKeeps ==
  ASSUME CatalogInv, NEW o \in Tenants, NEW force \in BOOLEAN, BeginSeeding(o, force)
  PROVE  CatalogInv' /\ OwnedStay /\ ProfileStays
<1> DEFINE s == [at |-> 1, force |-> force, seen |-> <<>>]
<1>1. GoodSeeding(s)
  <2>1. s.at = 1 /\ s.seen = <<>> /\ Len(Order) \in Nat
    BY CatalogAssumption
  <2> HIDE DEF s
  <2> QED
    BY <2>1 DEF GoodSeeding
<1>2. up /\ UNCHANGED <<source, up, profile>> /\ seeding' = [seeding EXCEPT ![o] = s]
  BY DEF BeginSeeding
<1> HIDE DEF s
<1>3. CatalogInv'
  BY <1>1, <1>2 DEF CatalogInv, GoodRow, GoodSeeding
<1> QED
  BY <1>2, <1>3, OthersStay DEF ProfileStays

\* A lookup reads a committed row.
LEMMA LookUpKeeps ==
  ASSUME CatalogInv, NEW o \in Tenants, LookUp(o)
  PROVE  CatalogInv' /\ OwnedStay /\ ProfileStays
<1> DEFINE s == seeding[o]
<1>1. GoodSeeding(s) /\ s.at \in DOMAIN Order
  BY DEF CatalogInv, LookUp
<1>2. PICK i \in Found(Order[s.at]) :
        seeding' = [seeding EXCEPT
          ![o].at = s.at + 1,
          ![o].seen = Append(@, [id |-> i, row |-> IF i = 0 THEN NoSource ELSE source[i]])]
  BY DEF LookUp
<1> DEFINE r == [id |-> i, row |-> IF i = 0 THEN NoSource ELSE source[i]]
<1>3. DOMAIN Order = 1 .. Len(Order) /\ Len(Order) \in Nat /\ Order[s.at] \in CatalogKeys
  BY <1>1, CatalogAssumption DEF CatalogKeys
<1>4. i # 0 => i \in Rows /\ GoodRow(source[i])
  <2> SUFFICES ASSUME i # 0 PROVE i \in Rows /\ GoodRow(source[i])
    OBVIOUS
  <2>1. i \in Rows /\ source[i].key = Order[s.at]
    BY <1>2 DEF Found, RowsOf
  <2>2. source[i] # NoSource
    BY <1>3, <2>1, CatalogAssumption DEF NoSource, CatalogKeys
  <2> QED
    BY <2>1, <2>2 DEF CatalogInv
<1>5. r \in [id : Rows \cup {0}, row : SourceRow \cup {NoSource}] /\ r.id = i
      /\ (i # 0 => GoodRow(r.row))
  BY <1>2, <1>4 DEF Found, RowsOf, GoodRow
<1> HIDE DEF r
<1> DEFINE t == seeding'[o]
<1>6. DOMAIN seeding = Tenants /\ DOMAIN seeding' = Tenants
      /\ \A q \in Tenants \ {o} : seeding'[q] = seeding[q]
  BY <1>2 DEF CatalogInv
<1>7. t.at = s.at + 1 /\ t.seen = Append(s.seen, r)
  BY <1>2 DEF CatalogInv, r
<1> HIDE DEF s, t
<1>8. GoodSeeding(t)
  <2>1. /\ s.at \in Nat /\ s.at # 0 /\ s.at <= Len(Order) /\ Len(s.seen) = s.at - 1
        /\ s.seen \in Seq([id : Rows \cup {0}, row : SourceRow \cup {NoSource}])
    BY <1>1, <1>3 DEF GoodSeeding
  <2>2. /\ t.seen \in Seq([id : Rows \cup {0}, row : SourceRow \cup {NoSource}])
        /\ Len(t.seen) = s.at
    BY <1>5, <1>7, <2>1
  <2>3. \A n \in DOMAIN t.seen : t.seen[n].id # 0 => GoodRow(t.seen[n].row)
    <3>1. \A n \in DOMAIN t.seen : t.seen[n] = r \/ (n \in DOMAIN s.seen /\ t.seen[n] = s.seen[n])
      BY <1>5, <1>7, <2>1
    <3> QED
      BY <1>1, <1>5, <3>1 DEF GoodSeeding
  <2> QED
    BY <1>3, <1>7, <2>1, <2>2, <2>3 DEF GoodSeeding
<1>9. up /\ UNCHANGED <<source, up, profile>>
  BY <1>1, <1>3 DEF CatalogInv, LookUp, s
<1>10. CatalogInv'
  <2>1. \A q \in Tenants : GoodSeeding(seeding[q])'
    <3> SUFFICES ASSUME NEW q \in Tenants PROVE GoodSeeding(seeding[q])'
      OBVIOUS
    <3>1. CASE q = o
      <4>1. seeding'[q] = t
        BY <3>1 DEF t
      <4> QED
        BY <1>8, <4>1 DEF GoodSeeding, GoodRow
    <3>2. CASE q # o
      <4>1. seeding'[q] = seeding[q] /\ GoodSeeding(seeding[q])
        BY <1>6, <3>2 DEF CatalogInv
      <4> QED
        BY <4>1 DEF GoodSeeding, GoodRow
    <3> QED
      BY <3>1, <3>2
  <2> QED
    BY <1>6, <1>9, <2>1 DEF CatalogInv, GoodRow
<1> QED
  BY <1>9, <1>10, OthersStay DEF ProfileStays

\* The commit of a session writes the owner of the rows it claims.
LEMMA CommitSeedingKeeps ==
  ASSUME CatalogInv, NEW o \in Tenants, CommitSeeding(o)
  PROVE  CatalogInv' /\ OwnedStay /\ ProfileStays
<1> DEFINE s == seeding[o]
           lacking == {n \in DOMAIN s.seen : s.seen[n].id = 0}
           claimed == {n \in DOMAIN s.seen : s.seen[n].id # 0 /\ Mine(s.seen[n].row, s.force)}
           idOf == NewIds(lacking)
           Gets(i) == \E n \in lacking : idOf[n] = i
           Taken(i) == source[i] # NoSource /\ \E n \in claimed : s.seen[n].id = i
<1>1. /\ s.at > Len(Order) /\ GoodSeeding(s) /\ Len(Order) \in Nat /\ DOMAIN Order = 1 .. Len(Order)
      /\ \A n \in DOMAIN Order : Order[n] \in CatalogKeys
  BY CatalogAssumption DEF CatalogInv, CommitSeeding, CatalogKeys
<1>2. up /\ UNCHANGED <<up, profile>> /\ seeding' = [seeding EXCEPT ![o] = NoSeeding]
  BY <1>1 DEF CatalogInv, CommitSeeding
<1>3. DOMAIN s.seen = 1 .. Len(s.seen) /\ \A n \in DOMAIN s.seen : Order[n] \in CatalogKeys
  BY <1>1 DEF GoodSeeding
<1>4. CASE UNCHANGED source
  <2>1. CatalogInv'
    BY <1>2, <1>4, NoSeedingGood DEF CatalogInv, GoodRow, GoodSeeding
  <2> QED
    BY <1>2, <1>4, <2>1, OthersStay DEF ProfileStays
<1>5. CASE /\ Cardinality(Free) >= Cardinality(lacking)
           /\ source' =
                [i \in Rows |->
                   IF \E n \in lacking : idOf[n] = i
                     THEN Default(Order[CHOOSE n \in lacking : idOf[n] = i], o)
                   ELSE IF source[i] # NoSource /\ \E n \in claimed : s.seen[n].id = i
                     THEN LET n == CHOOSE n \in claimed : s.seen[n].id = i
                          IN  Overwritten(source[i], s.seen[n].row, Default(Order[n], o))
                   ELSE source[i]]
  <2>1. DOMAIN source' = Rows
    BY <1>5
  <2>2. \A n \in lacking : idOf[n] \in Free
    <3>1. IsFiniteSet(lacking)
      <4>1. Len(s.seen) \in Nat
        BY <1>1 DEF GoodSeeding
      <4>2. IsFiniteSet(1 .. Len(s.seen))
        BY <4>1, FS_Interval
      <4> QED
        BY <1>3, <4>2, FS_Subset
    <3> QED
      BY <1>5, <3>1, NewIdsFree
  <2>3. \A i \in Rows : ~Gets(i) /\ ~Taken(i) => source'[i] = source[i]
    BY <1>5
  <2>4. \A i \in Rows : Gets(i) => source[i] = NoSource /\ GoodRow(source'[i])
    <3> SUFFICES ASSUME NEW i \in Rows, Gets(i)
                 PROVE  source[i] = NoSource /\ GoodRow(source'[i])
      OBVIOUS
    <3> DEFINE new == CHOOSE n \in lacking : idOf[n] = i
    <3>1. source[i] = NoSource
      BY <2>2 DEF Free
    <3>2. source'[i] = Default(Order[new], o)
      BY <1>5
    <3>3. new \in lacking
      OBVIOUS
    <3>4. Order[new] \in CatalogKeys
      BY <1>3, <3>3
    <3> HIDE DEF new
    <3> QED
      BY <3>1, <3>2, <3>4, DefaultGood
  <2>5. \A i \in Rows : ~Gets(i) /\ Taken(i) =>
          \E n \in claimed : /\ source'[i] = Overwritten(source[i], s.seen[n].row, Default(Order[n], o))
                             /\ GoodRow(s.seen[n].row) /\ Order[n] \in CatalogKeys
    <3> SUFFICES ASSUME NEW i \in Rows, ~Gets(i), Taken(i)
                 PROVE  \E n \in claimed :
                          /\ source'[i] = Overwritten(source[i], s.seen[n].row, Default(Order[n], o))
                          /\ GoodRow(s.seen[n].row) /\ Order[n] \in CatalogKeys
      OBVIOUS
    <3> DEFINE old == CHOOSE n \in claimed : s.seen[n].id = i
    <3>1. source'[i] = Overwritten(source[i], s.seen[old].row, Default(Order[old], o))
      BY <1>5
    <3>2. old \in claimed
      OBVIOUS
    <3> HIDE DEF old
    <3>3. GoodRow(s.seen[old].row)
      BY <1>1, <3>2 DEF GoodSeeding
    <3>4. Order[old] \in CatalogKeys
      BY <1>3, <3>2
    <3> QED
      BY <3>1, <3>2, <3>3, <3>4
  <2>6. \A i \in Rows : Taken(i) => GoodRow(source[i])
    BY DEF CatalogInv
  <2>7. \A n \in claimed : ~s.force => s.seen[n].row.owner = NoOwner
    BY DEF Mine
  <2> HIDE DEF Gets, Taken, claimed
  <2>8. CatalogInv'
    <3>1. \A i \in Rows : (source[i] = NoSource \/ GoodRow(source[i]))'
      <4> SUFFICES ASSUME NEW i \in Rows PROVE source'[i] = NoSource \/ GoodRow(source'[i])
        BY DEF GoodRow
      <4>1. CASE ~Gets(i) /\ ~Taken(i)
        BY <2>3, <4>1 DEF CatalogInv
      <4>2. CASE Gets(i)
        BY <2>4, <4>2
      <4>3. CASE ~Gets(i) /\ Taken(i)
        BY <2>5, <2>6, <4>3, OverwrittenGood
      <4> QED
        BY <4>1, <4>2, <4>3
    <3> QED
      BY <1>2, <2>1, <3>1, NoSeedingGood DEF CatalogInv, GoodSeeding, GoodRow
  <2>9. ASSUME NEW i \in Rows, OwnedRow(i), source[i] # source'[i], ~s.force
        PROVE  source'[i] = [source[i] EXCEPT !.owner = source'[i].owner,
                                               !.config = source'[i].config]
    <3>1. ~Gets(i) /\ Taken(i)
      BY <2>3, <2>4, <2>9 DEF OwnedRow, NoSource
    <3>2. PICK n \in claimed :
            /\ source'[i] = Overwritten(source[i], s.seen[n].row, Default(Order[n], o))
            /\ GoodRow(s.seen[n].row) /\ Order[n] \in CatalogKeys
      BY <2>5, <3>1
    <3>3. source[i] \in SourceRow
      BY <2>6, <3>1 DEF GoodRow
    <3>4. s.seen[n].row.owner = NoOwner
      BY <2>7, <2>9
    <3>5. source'[i].key = source[i].key /\ source'[i].edited = source[i].edited
      BY <3>2, <3>3, <3>4, ClaimChangesOwner
    <3>6. source'[i] \in SourceRow
      BY <2>6, <3>1, <3>2, OverwrittenGood DEF GoodRow
    <3> QED
      BY <3>3, <3>5, <3>6 DEF SourceRow
  <2>10. \A q \in Tenants : seeding[q].at # 0 /\ seeding'[q].at = 0 => q = o
    BY <1>2 DEF CatalogInv
  <2> HIDE DEF s
  <2>11. OwnedStay
    BY <1>2, <2>9, <2>10 DEF OwnedStay, s
  <2> QED
    BY <1>2, <2>8, <2>11 DEF ProfileStays
<1> QED
  BY <1>4, <1>5 DEF CommitSeeding

\* Users change what they own.
LEMMA UserKeeps ==
  ASSUME CatalogInv, NEW o \in Tenants,
         \/ \E key \in CatalogKeys : CreateSource(o, key)
         \/ \E i \in Rows : EditSource(o, i) \/ DeleteSource(o, i)
  PROVE  CatalogInv' /\ OwnedStay /\ ProfileStays
<1>1. up /\ UNCHANGED <<seeding, up, profile>>
  BY DEF CreateSource, EditSource, DeleteSource, User
<1>2. PICK i \in Rows : \E new : /\ source' = [source EXCEPT ![i] = new]
                                 /\ new = NoSource \/ GoodRow(new)
  <2>1. ASSUME NEW key \in CatalogKeys, CreateSource(o, key)
        PROVE  \E i \in Rows : \E new : /\ source' = [source EXCEPT ![i] = new]
                                        /\ new = NoSource \/ GoodRow(new)
    <3> DEFINE new == [Default(key, o) EXCEPT !.edited = TRUE]
    <3>1. GoodRow(new)
      BY CatalogAssumption DEF GoodRow, SourceRow, Default
    <3>2. PICK i \in Rows : source' = [source EXCEPT ![i] = new]
      BY <2>1 DEF CreateSource
    <3> HIDE DEF new
    <3> QED
      BY <3>1, <3>2
  <2>2. ASSUME NEW i \in Rows, EditSource(o, i)
        PROVE  \E new : /\ source' = [source EXCEPT ![i] = new]
                        /\ new = NoSource \/ GoodRow(new)
    <3> DEFINE new == [source[i] EXCEPT !.edited = TRUE]
    <3>1. source[i] \in SourceRow /\ source[i].owner = o
      BY <2>2 DEF EditSource, OwnedRow, NoSource, CatalogInv, GoodRow
    <3>2. GoodRow(new)
      BY <3>1, CatalogAssumption DEF GoodRow, SourceRow
    <3>3. source' = [source EXCEPT ![i] = new]
      BY <2>2 DEF EditSource
    <3> HIDE DEF new
    <3> QED
      BY <3>2, <3>3
  <2>3. ASSUME NEW i \in Rows, DeleteSource(o, i)
        PROVE  \E new : /\ source' = [source EXCEPT ![i] = new]
                        /\ new = NoSource \/ GoodRow(new)
    BY <2>3 DEF DeleteSource
  <2> QED
    BY <2>1, <2>2, <2>3
<1>3. CatalogInv'
  <2>1. DOMAIN source = Rows /\ \A j \in Rows : source[j] = NoSource \/ GoodRow(source[j])
    BY DEF CatalogInv
  <2>2. PICK new : source' = [source EXCEPT ![i] = new] /\ (new = NoSource \/ GoodRow(new))
    BY <1>2
  <2>3. DOMAIN source' = Rows /\ \A j \in Rows : source'[j] = NoSource \/ GoodRow(source'[j])
    BY <2>1, <2>2
  <2>4. \A j \in Rows : (source[j] = NoSource \/ GoodRow(source[j]))'
    BY <2>3 DEF GoodRow
  <2> QED
    BY <1>1, <2>3, <2>4 DEF CatalogInv, GoodSeeding, GoodRow
<1> QED
  BY <1>1, <1>3, OthersStay DEF ProfileStays

\* A run writes its column and no other.
LEMMA RunKeeps ==
  ASSUME CatalogInv, NEW i \in Rows, RunKeepsConfig(i)
  PROVE  CatalogInv' /\ OwnedStay /\ ProfileStays
<1>1. GoodRow(source[i]) /\ DOMAIN source = Rows
  BY DEF CatalogInv, RunKeepsConfig
<1>2. source'[i] = [source[i] EXCEPT !.config = "run"] /\ DOMAIN source' = Rows
      /\ \A j \in Rows \ {i} : source'[j] = source[j]
  BY <1>1 DEF RunKeepsConfig
<1>3. GoodRow(source'[i])
  BY <1>1, <1>2 DEF GoodRow, SourceRow
<1>4. source'[i] = [source[i] EXCEPT !.owner = source'[i].owner, !.config = source'[i].config]
  BY <1>1, <1>2 DEF GoodRow, SourceRow
<1>5. \A j \in Rows : (source[j] = NoSource \/ GoodRow(source[j]))'
  BY <1>2, <1>3 DEF CatalogInv, GoodRow
<1>6. CatalogInv'
  BY <1>2, <1>5 DEF RunKeepsConfig, CatalogInv, GoodSeeding, GoodRow
<1>7. OwnedStay
  BY <1>2, <1>4 DEF OwnedStay
<1> QED
  BY <1>6, <1>7 DEF RunKeepsConfig, ProfileStays

\* Every step keeps the invariant and what the organisations edited.
LEMMA CatalogStep ==
  CatalogInv /\ [CatalogNext]_catalogVars => CatalogInv' /\ OwnedStay /\ ProfileStays
<1> SUFFICES ASSUME CatalogInv, [CatalogNext]_catalogVars
             PROVE  CatalogInv' /\ OwnedStay /\ ProfileStays
  OBVIOUS
<1>1. CASE UNCHANGED <<source, seeding, up>> /\ (UpdateProfile \/ UNCHANGED catalogVars)
  <2>1. CatalogInv'
    BY <1>1 DEF CatalogInv, GoodSeeding, GoodRow
  <2> QED
    BY <1>1, <2>1, OthersStay DEF ProfileStays, UpdateProfile, User, catalogVars
<1>2. ASSUME NEW o \in Tenants, NewOrganization(o) \/ ClaimDefaults(o)
      PROVE  CatalogInv' /\ OwnedStay /\ ProfileStays
  BY <1>2, BeginKeeps DEF NewOrganization, ClaimDefaults
<1>3. CASE CatalogNext
  BY <1>1, <1>2, <1>3, BootKeeps, StopKeeps, LookUpKeeps, CommitSeedingKeeps, UserKeeps, RunKeeps
  DEF CatalogNext, UpdateProfile
<1> QED
  BY <1>1, <1>3 DEF catalogVars

\* Starts of the api and claims without force leave what an organisation edited alone,
\* however they interleave with its edits and with other claims, and a start leaves
\* an edited profile alone.
THEOREM EditsOfOwnersStay == CatalogSpec => OwnerEditsStay
<1>1. OwnedStay /\ ProfileStays =>
        [/\ \A i \in Rows :
              /\ OwnedRow(i) /\ source[i] # source'[i]
              /\ \/ ~up
                 \/ \E o \in Tenants :
                      ~seeding[o].force /\ seeding[o].at # 0 /\ seeding'[o].at = 0
              => source'[i] = [source[i] EXCEPT !.owner = source'[i].owner,
                                                !.config = source'[i].config]
         /\ ~up /\ profile.version > 1 => UNCHANGED profile]_catalogVars
  BY DEF OwnedStay, ProfileStays
<1> QED
  BY <1>1, CatalogStart, CatalogStep, PTL DEF CatalogSpec, OwnerEditsStay


-----------------------------------------------------------------------------
(* Dashboard.  Most of what the views agree on is a matter of arithmetic with  *)
(* the hour and midnight; that no list of closed calls shows a row of the      *)
(* pipeline also needs to know when a row was stored as closed.                *)

USE DashboardAssumption

Statuses == {"absent", "unknown", "open", "closing_soon", "closed"}

\* A row with a date is stored as closed only after its day.
DashInv ==
  /\ tick \in Nat
  /\ stored \in [Entries -> Statuses]
  /\ \A e \in Entries : stored[e] = "closed" /\ ~Undated(e) => ~NotOver(e)

\* Midnight is at most a day before the hour, and never moves back.
LEMMA MidnightIs ==
  ASSUME tick \in Nat
  PROVE  /\ Midnight \in Nat /\ Midnight <= tick /\ tick < Midnight + DayTicks
         /\ ((tick + 1) \div DayTicks) * DayTicks >= Midnight
<1> DEFINE d == DayTicks
           t == tick
<1>1. d \in Nat \ {0} /\ t \in Nat
  BY DEF d
<1> HIDE DEF d, t
<1>2. (t \div d) \in Nat /\ (t \div d) * d <= t /\ t < (t \div d) * d + d
  BY <1>1
<1>3. (t \div d) * d <= ((t + 1) \div d) * d
  BY <1>1
<1> QED
  BY <1>1, <1>2, <1>3 DEF Midnight, d, t

\* At the start there is no row.
LEMMA DashInvInit == DashInit => DashInv
BY DEF DashInit, DashInv, Statuses

\* Every step keeps the invariant: a scrape writes the status of the hour.
LEMMA DashInvStep == DashInv /\ [DashNext]_dashVars => DashInv'
<1> SUFFICES ASSUME DashInv, [DashNext]_dashVars PROVE DashInv'
  OBVIOUS
<1>1. CASE UNCHANGED dashVars
  BY <1>1 DEF dashVars, DashInv, Undated, NotOver, Midnight
<1>2. CASE Hour
  <2>1. tick' = tick + 1 /\ stored' = stored /\ tick \in Nat
    BY <1>2 DEF Hour, DashInv
  <2>2. Midnight' >= Midnight /\ Midnight \in Nat /\ Midnight' \in Nat
    BY <2>1, MidnightIs, DashboardAssumption DEF Midnight
  <2>3. ASSUME NEW e \in Entries, stored[e] = "closed", ~Undated(e) PROVE ~NotOver(e)'
    <3>1. Posting[e].close \in Nat /\ ~(Posting[e].close >= Midnight)
      BY <2>3 DEF DashInv, NotOver
    <3> QED
      BY <2>2, <2>3, <3>1 DEF NotOver, Undated
  <2> QED
    BY <2>1, <2>3 DEF DashInv, Undated
<1>3. ASSUME NEW e \in Entries, Scrape(e) PROVE DashInv'
  <2>1. PICK s \in StatusAt(e) : stored' = [stored EXCEPT ![e] = s]
    BY <1>3 DEF Scrape
  <2>2. s \in Statuses /\ (s = "closed" /\ ~Undated(e) => ~NotOver(e))
    BY <2>1 DEF StatusAt, Statuses
  <2>3. tick' = tick
    BY <1>3 DEF Scrape
  <2> QED
    BY <2>1, <2>2, <2>3 DEF DashInv, Undated, NotOver, Midnight
<1>4. ASSUME NEW e \in Entries, SetUserStatus(e) PROVE DashInv'
  BY <1>4 DEF SetUserStatus, DashInv, Undated, NotOver, Midnight
<1> QED
  BY <1>1, <1>2, <1>3, <1>4 DEF DashNext

-----------------------------------------------------------------------------
\* The bars of a chart whose bars share no row count no row twice, and count
\* all of S when each of its rows is in some bar.
LEMMA BarsAddUp ==
  ASSUME NEW chart, NEW S \in SUBSET Entries,
         \A k \in DOMAIN chart : chart[k] \subseteq S,
         \A k, l \in DOMAIN chart : \A e \in S : e \in chart[k] /\ e \in chart[l] => k = l
  PROVE  /\ Total(chart) <= Cardinality(S)
         /\ (\A e \in S : \E k \in DOMAIN chart : e \in chart[k]) => Total(chart) = Cardinality(S)
<1> DEFINE P == {p \in (DOMAIN chart) \X Entries : p[2] \in chart[p[1]]}
           f == [p \in P |-> p[2]]
<1>1. f \in [P -> S]
  OBVIOUS
<1>2. ASSUME NEW p \in P, NEW q \in P, p[2] = q[2] PROVE p = q
  <2>1. /\ p[1] \in DOMAIN chart /\ q[1] \in DOMAIN chart
        /\ p[2] \in chart[p[1]] /\ p[2] \in chart[q[1]] /\ p[2] \in S
    BY <1>2
  <2>2. p[1] = q[1]
    BY <2>1
  <2> QED
    BY <1>2, <2>2
<1>3. f \in Injection(P, S)
  BY <1>1, <1>2 DEF Injection, IsInjective
<1>4. IsFiniteSet(S)
  BY FS_Subset
<1>5. /\ Cardinality(P) <= Cardinality(S)
      /\ Cardinality(P) = Cardinality(S) <=> f \in Surjection(P, S)
  BY <1>3, <1>4, FS_Injection
<1>6. ASSUME \A e \in S : \E k \in DOMAIN chart : e \in chart[k]
      PROVE  f \in Surjection(P, S)
  <2>1. ASSUME NEW e \in S PROVE \E p \in P : f[p] = e
    <3>1. PICK k \in DOMAIN chart : e \in chart[k]
      BY <1>6
    <3>2. <<k, e>> \in P
      BY <3>1
    <3> QED
      BY <3>2
  <2> QED
    BY <1>1, <2>1 DEF Surjection
<1> QED
  BY <1>5, <1>6 DEF Total

\* The rows in sight are few, and their columns are numbers.
LEMMA InSight ==
  ASSUME DashInv
  PROVE  /\ Visible \subseteq Entries /\ Owned \subseteq Visible
         /\ \A e \in Visible : stored[e] \in Statuses \ {"absent"}
         /\ \A e \in Entries : /\ Posting[e].close \in Nat /\ Posting[e].amount \in Nat
                               /\ Posting[e].score \in Nat /\ Posting[e].score <= NoScore
         /\ \A S \in SUBSET Visible : IsFiniteSet(S) /\ Cardinality(S) \in Nat
<1>1. Visible \subseteq Entries /\ Owned \subseteq Visible
  BY DEF Visible, Owned, OnFile
<1>2. \A e \in Visible : stored[e] \in Statuses \ {"absent"}
  BY <1>1 DEF Visible, OnFile, DashInv
<1>3. ASSUME NEW S \in SUBSET Visible PROVE IsFiniteSet(S) /\ Cardinality(S) \in Nat
  <2>1. IsFiniteSet(S)
    BY <1>1, FS_Subset
  <2> QED
    BY <2>1, FS_CardinalityType
<1>4. ASSUME NEW e \in Entries
      PROVE  /\ Posting[e].close \in Nat /\ Posting[e].amount \in Nat
             /\ Posting[e].score \in Nat /\ Posting[e].score <= NoScore
  BY DEF NoScore
<1> QED
  BY <1>1, <1>2, <1>3, <1>4

\* What the list shows to whoever asks it for every row, for open calls, for
\* closed calls and for those of a stored status.
LEMMA ListsAre ==
  ASSUME DashInv
  PROVE  /\ ListOf("any", TRUE) = {e \in Titled(Visible) : NotOver(e)}
         /\ ListOf("open", TRUE) \subseteq {e \in Titled(Visible) : NotOver(e)}
         /\ ListOf("closing_soon", TRUE) =
              {e \in Titled(Visible) : stored[e] = "closing_soon" /\ NotOver(e)}
         /\ ListOf("closed", TRUE) =
              {e \in Titled(Visible) : stored[e] = "closed" \/ ~NotOver(e)}
<1>1. OfStatus("any") = {e \in Visible : NotOver(e)}
  BY DEF OfStatus
<1>2. OfStatus("open") \subseteq {e \in Visible : NotOver(e)}
  BY DEF OfStatus
<1>3. OfStatus("closing_soon") = {e \in Visible : stored[e] = "closing_soon" /\ NotOver(e)}
  BY DEF OfStatus
<1>4. OfStatus("closed") = {e \in Visible : stored[e] = "closed" \/ ~NotOver(e)}
  BY DEF OfStatus
<1> QED
  BY <1>1, <1>2, <1>3, <1>4 DEF ListOf, Titled

\* What is not over by the hour is not over by the day.
LEMMA CountedNotOver ==
  ASSUME DashInv
  PROVE  KpiScope \subseteq {e \in Titled(Visible) : NotOver(e)}
<1> SUFFICES ASSUME NEW e \in KpiScope PROVE e \in Titled(Visible) /\ NotOver(e)
  OBVIOUS
<1>1. e \in Titled(Visible) /\ (Undated(e) \/ Posting[e].close >= tick)
  BY DEF KpiScope
<1>2. e \in Entries /\ Posting[e].close \in Nat
  BY <1>1, InSight DEF Titled
<1>3. Midnight <= tick /\ Midnight \in Nat /\ tick \in Nat
  BY MidnightIs DEF DashInv
<1> QED
  BY <1>1, <1>2, <1>3 DEF NotOver

\* The rows that are counted under a status are listed under it.
LEMMA StatusListed ==
  ASSUME DashInv, NEW s \in DOMAIN StatusBreakdown
  PROVE  StatusBreakdown[s] \subseteq ListOf(s, TRUE)
<1> SUFFICES ASSUME NEW e \in StatusBreakdown[s] PROVE e \in ListOf(s, TRUE)
  OBVIOUS
<1>1. e \in KpiScope /\ stored[e] = s
  BY DEF StatusBreakdown
<1>2. e \in Visible /\ e \in Titled(Visible) /\ NotOver(e)
  BY <1>1, CountedNotOver DEF Titled
<1>3. s \in {"unknown", "open", "closing_soon", "closed"}
  BY <1>1, <1>2, InSight DEF Statuses
<1>4. e \in OfStatus(s)
  <2>1. CASE s = "unknown"
    BY <1>1, <1>2, <2>1 DEF OfStatus
  <2>2. CASE s = "open"
    BY <1>1, <1>2, <2>2 DEF OfStatus
  <2>3. CASE s = "closing_soon"
    BY <1>1, <1>2, <2>3 DEF OfStatus
  <2>4. CASE s = "closed"
    BY <1>1, <1>2, <2>4 DEF OfStatus
  <2> QED
    BY <1>3, <2>1, <2>2, <2>3, <2>4
<1> QED
  BY <1>2, <1>4 DEF ListOf, Titled

\* The first rows of a week are among the first rows of its month.
LEMMA WeekInMonth == ASSUME DashInv PROVE ClosingSoon7d \subseteq ClosingSoon
<1> DEFINE week == Between(Visible, Midnight, tick + WeekDays * DayTicks)
           month == Between(Visible, Midnight, Midnight + (MonthDays + 1) * DayTicks - 1)
           Before(S, e) == {d \in S : Posting[d].close < Posting[e].close}
<1>1. tick + WeekDays * DayTicks <= Midnight + (MonthDays + 1) * DayTicks - 1
  <2>1. /\ tick \in Nat /\ Midnight \in Nat /\ tick < Midnight + DayTicks
        /\ DayTicks \in Nat /\ WeekDays \in Nat /\ MonthDays \in Nat /\ WeekDays <= MonthDays
    BY MidnightIs DEF DashInv
  <2>2. WeekDays * DayTicks <= MonthDays * DayTicks
    BY <2>1
  <2>3. (MonthDays + 1) * DayTicks = MonthDays * DayTicks + DayTicks
    BY <2>1
  <2>4. WeekDays * DayTicks \in Nat /\ MonthDays * DayTicks \in Nat
    BY <2>1
  <2> QED
    BY <2>1, <2>2, <2>3, <2>4
<1>2. /\ tick + WeekDays * DayTicks \in Int
      /\ Midnight + (MonthDays + 1) * DayTicks - 1 \in Int
      /\ Midnight \in Int
  <2>1. tick \in Nat /\ Midnight \in Nat /\ DayTicks \in Nat /\ WeekDays \in Nat /\ MonthDays \in Nat
    BY MidnightIs DEF DashInv
  <2>2. WeekDays * DayTicks \in Nat /\ (MonthDays + 1) * DayTicks \in Nat
    BY <2>1
  <2> QED
    BY <2>1, <2>2
<1> DEFINE top == tick + WeekDays * DayTicks
           end == Midnight + (MonthDays + 1) * DayTicks - 1
<1>3. top <= end /\ top \in Int /\ end \in Int /\ Midnight \in Int
  BY <1>1, <1>2
<1>4. week = Between(Visible, Midnight, top) /\ month = Between(Visible, Midnight, end)
  OBVIOUS
<1> HIDE DEF top, end, week, month
<1>5. week \subseteq month /\ month \subseteq Visible
  BY <1>3, <1>4, InSight DEF Between
<1>6. ASSUME NEW e \in First(week) PROVE e \in First(month)
  <2>1. e \in week /\ Cardinality(Before(week, e)) < LaneSize
    BY <1>6 DEF First
  <2>2. Before(month, e) \subseteq Before(week, e)
    <3> SUFFICES ASSUME NEW d \in month, Posting[d].close < Posting[e].close PROVE d \in week
      OBVIOUS
    <3>1. /\ d \in Visible /\ ~Undated(d) /\ Posting[d].close \in Midnight .. end
          /\ Posting[e].close \in Midnight .. top
      BY <1>4, <2>1 DEF Between
    <3>2. Posting[d].close \in Midnight .. top
      BY <1>3, <3>1
    <3> QED
      BY <1>4, <3>1, <3>2 DEF Between
  <2>3. /\ Before(week, e) \subseteq Visible /\ Before(month, e) \subseteq Visible
        /\ Before(month, e) \in SUBSET Before(week, e)
    BY <1>5, <2>2
  <2>4. /\ IsFiniteSet(Before(week, e)) /\ Cardinality(Before(week, e)) \in Nat
        /\ Cardinality(Before(month, e)) \in Nat
    BY <2>3, InSight
  <2>5. Cardinality(Before(month, e)) <= Cardinality(Before(week, e))
    <3> HIDE DEF Before
    <3> QED
      BY <2>3, <2>4, FS_Subset
  <2>6. Cardinality(Before(month, e)) < LaneSize
    <3> HIDE DEF Before
    <3> QED
      BY <2>1, <2>4, <2>5, DashboardAssumption
  <2> QED
    BY <1>5, <2>1, <2>6 DEF First
<1> QED
  BY <1>6 DEF ClosingSoon7d, ClosingSoon, week, month

\* A row of the pipeline has a date, and its day is not over.
LEMMA PipelineIs ==
  ASSUME DashInv
  PROVE  \A e \in ClosingSoon : e \in Visible /\ ~Undated(e) /\ NotOver(e)
<1> SUFFICES ASSUME NEW e \in ClosingSoon PROVE e \in Visible /\ ~Undated(e) /\ NotOver(e)
  OBVIOUS
<1>1. /\ e \in Visible /\ ~Undated(e)
      /\ Posting[e].close \in Midnight .. Midnight + (MonthDays + 1) * DayTicks - 1
  BY DEF ClosingSoon, First, Between
<1> QED
  BY <1>1, InSight DEF NotOver

\* Whatever is better than a row that is shown as one of the best is shown too.
LEMMA BestShown ==
  ASSUME DashInv, NEW e \in TopScored, NEW h \in Scored(Visible),
         Posting[h].score > Posting[e].score
  PROVE  h \in TopScored
<1> DEFINE Better(r) == {d \in Scored(Visible) : Posting[d].score > Posting[r].score}
<1>1. e \in Scored(Visible) /\ Cardinality(Better(e)) < LaneSize
  BY DEF TopScored
<1>2. Scored(Visible) \subseteq Visible /\ Visible \subseteq Entries
  BY InSight DEF Scored
<1>3. Better(h) \in SUBSET Better(e)
  <2> SUFFICES ASSUME NEW d \in Scored(Visible), Posting[d].score > Posting[h].score
               PROVE  Posting[d].score > Posting[e].score
    OBVIOUS
  <2>1. Posting[d].score \in Nat /\ Posting[h].score \in Nat /\ Posting[e].score \in Nat
    BY <1>1, <1>2, InSight
  <2> QED
    BY <2>1
<1>4. /\ IsFiniteSet(Better(e)) /\ Cardinality(Better(e)) \in Nat
      /\ Cardinality(Better(h)) \in Nat
  <2>1. Better(e) \in SUBSET Visible /\ Better(h) \in SUBSET Visible
    BY <1>2
  <2> HIDE DEF Better
  <2> QED
    BY <2>1, InSight
<1>5. Cardinality(Better(h)) <= Cardinality(Better(e))
  <2> HIDE DEF Better
  <2> QED
    BY <1>3, <1>4, FS_Subset
<1>6. Cardinality(Better(h)) < LaneSize
  <2> HIDE DEF Better
  <2> QED
    BY <1>1, <1>4, <1>5, DashboardAssumption
<1> QED
  BY <1>6 DEF TopScored

\* Three marks divide a number into four bands, and what is above the second is
\* in the upper two.
LEMMA BandOfThree ==
  ASSUME NEW x \in Nat
  PROVE  /\ Band(x, {25, 50, 75}) \in 0 .. 3
         /\ x >= 50 => Band(x, {25, 50, 75}) \in {2, 3}
<1> DEFINE C == {c \in {25, 50, 75} : x >= c}
<1>1. /\ IsFiniteSet({25}) /\ Cardinality({25}) = 1
      /\ IsFiniteSet({25, 50}) /\ Cardinality({25, 50}) = 2
      /\ IsFiniteSet({25, 50, 75}) /\ Cardinality({25, 50, 75}) = 3
  <2>1. IsFiniteSet({25}) /\ Cardinality({25}) = 1
    BY FS_Singleton
  <2>2. IsFiniteSet({25, 50}) /\ Cardinality({25, 50}) = 2
    <3> DEFINE one == {25}
    <3>1. {25, 50} = one \cup {50} /\ 50 \notin one
      OBVIOUS
    <3>2. IsFiniteSet(one) /\ Cardinality(one) = 1
      BY <2>1
    <3> HIDE DEF one
    <3>3. IsFiniteSet(one \cup {50}) /\ Cardinality(one \cup {50}) = 1 + 1
      BY <3>1, <3>2, FS_AddElement
    <3> QED
      BY <3>1, <3>3
  <2>3. IsFiniteSet({25, 50, 75}) /\ Cardinality({25, 50, 75}) = 3
    <3> DEFINE two == {25, 50}
    <3>1. {25, 50, 75} = two \cup {75} /\ 75 \notin two
      OBVIOUS
    <3>2. IsFiniteSet(two) /\ Cardinality(two) = 2
      BY <2>2
    <3> HIDE DEF two
    <3>3. IsFiniteSet(two \cup {75}) /\ Cardinality(two \cup {75}) = 2 + 1
      BY <3>1, <3>2, FS_AddElement
    <3> QED
      BY <3>1, <3>3
  <2> QED
    BY <2>1, <2>2, <2>3
<1>2. C \in SUBSET {25, 50, 75}
  OBVIOUS
<1>3. x >= 50 => {25, 50} \in SUBSET C
  OBVIOUS
<1> HIDE DEF C
<1>4. IsFiniteSet(C) /\ Cardinality(C) <= 3
  <2> DEFINE cuts == {25, 50, 75}
  <2>1. IsFiniteSet(cuts) /\ Cardinality(cuts) = 3 /\ C \in SUBSET cuts
    BY <1>1, <1>2
  <2> HIDE DEF cuts
  <2> QED
    BY <2>1, FS_Subset
<1>5. Cardinality(C) \in Nat
  BY <1>4, FS_CardinalityType
<1>6. x >= 50 => 2 <= Cardinality(C)
  BY <1>1, <1>3, <1>4, FS_Subset
<1>7. Cardinality(C) \in 0 .. 3 /\ (x >= 50 => Cardinality(C) \in {2, 3})
  BY <1>4, <1>5, <1>6
<1> QED
  BY <1>7 DEF Band, C

\* A score that the list calls high is 60 or more.
LEMMA HighIs ==
  ASSUME NEW x \in Nat
  PROVE  Priority(x) = "high" <=> x >= 60
<1>1. CASE x >= 60
  BY <1>1 DEF Priority
<1>2. CASE x \in 55 .. 59
  BY <1>2 DEF Priority
<1>3. CASE x \in 30 .. 54
  BY <1>3 DEF Priority
<1>4. CASE x \in 0 .. 29
  BY <1>4 DEF Priority
<1> QED
  BY <1>1, <1>2, <1>3, <1>4

\* The chart of the scores counts each scored row once.
LEMMA ScoresAddUp ==
  ASSUME DashInv
  PROVE  Total(ScoreDistribution) = Cardinality(Scored(Visible))
<1> DEFINE S == Scored(Visible)
           B(e) == Band(Posting[e].score, {25, 50, 75})
<1>1. S \in SUBSET Entries /\ \A e \in S : B(e) \in 0 .. 3
  BY InSight, BandOfThree DEF Scored
<1>2. /\ DOMAIN ScoreDistribution = 0 .. 3
      /\ \A k \in 0 .. 3 : ScoreDistribution[k] = {e \in S : B(e) = k}
  BY DEF ScoreDistribution
<1> HIDE DEF S, B
<1>3. /\ \A k \in DOMAIN ScoreDistribution : ScoreDistribution[k] \subseteq S
      /\ \A k, l \in DOMAIN ScoreDistribution :
           \A e \in S : e \in ScoreDistribution[k] /\ e \in ScoreDistribution[l] => k = l
      /\ \A e \in S : \E k \in DOMAIN ScoreDistribution : e \in ScoreDistribution[k]
  BY <1>1, <1>2
<1>4. Total(ScoreDistribution) = Cardinality(S)
  BY <1>1, <1>3, BarsAddUp
<1> QED
  BY <1>4 DEF S

\* The chart of the amounts counts no row twice, and only rows with an amount.
LEMMA AmountsAddUp ==
  ASSUME DashInv
  PROVE  Total(FundingRanges) <= Cardinality(Coverage.amount)
<1> DEFINE S == Coverage.amount
           B(e) == Band(Posting[e].amount, {100, 500, 1000, 5000})
<1>1. S = {e \in Visible : Posting[e].amount # NoAmount \/ Posting[e].raw}
  BY DEF Coverage
<1>2. /\ DOMAIN FundingRanges = 0 .. 4
      /\ \A k \in 0 .. 4 :
           FundingRanges[k] = {e \in Visible : Posting[e].amount # NoAmount /\ B(e) = k}
  BY DEF FundingRanges
<1> HIDE DEF S, B
<1>3. S \in SUBSET Entries
  BY <1>1, InSight
<1>4. /\ \A k \in DOMAIN FundingRanges : FundingRanges[k] \subseteq S
      /\ \A k, l \in DOMAIN FundingRanges :
           \A e \in S : e \in FundingRanges[k] /\ e \in FundingRanges[l] => k = l
  BY <1>1, <1>2
<1>5. Total(FundingRanges) <= Cardinality(S)
  BY <1>3, <1>4, BarsAddUp
<1> QED
  BY <1>5 DEF S

\* A row counts for the status it has.
LEMMA StatusAddsUp ==
  ASSUME DashInv
  PROVE  Total(StatusBreakdown) = Cardinality(KpiScope)
<1> DEFINE C == StatusBreakdown
<1>1. KpiScope \in SUBSET Entries
  BY InSight DEF KpiScope, Titled
<1>2. /\ DOMAIN C = {stored[e] : e \in KpiScope}
      /\ \A s \in DOMAIN C : C[s] = {e \in KpiScope : stored[e] = s}
  BY DEF StatusBreakdown
<1> HIDE DEF C
<1>3. /\ \A k \in DOMAIN C : C[k] \subseteq KpiScope
      /\ \A k, l \in DOMAIN C : \A e \in KpiScope : e \in C[k] /\ e \in C[l] => k = l
      /\ \A e \in KpiScope : \E k \in DOMAIN C : e \in C[k]
  BY <1>2
<1>4. Total(C) = Cardinality(KpiScope)
  BY <1>1, <1>3, BarsAddUp
<1> QED
  BY <1>4 DEF C

\* The chart of the sources counts every row that has one, while they are ten.
LEMMA SourcesAddUp ==
  ASSUME DashInv
  PROVE  /\ Total(SourceContribution) <= Cardinality(Coverage.source)
         /\ Cardinality(Contributors) <= 10
              => Total(SourceContribution) = Cardinality(Coverage.source)
<1> DEFINE S == Coverage.source
           C == SourceContribution
           More(t) == {u \in Contributors : Cardinality(BySource(u)) > Cardinality(BySource(t))}
<1>1. S = {e \in Visible : Posting[e].source # "none"} /\ S \in SUBSET Entries
  BY InSight DEF Coverage
<1>2. /\ DOMAIN C = {t \in Contributors : Cardinality(More(t)) < 10}
      /\ \A s \in DOMAIN C : C[s] = {e \in Visible : Posting[e].source = s}
  BY DEF SourceContribution, BySource
<1>3. Contributors = {Posting[e].source : e \in S}
  BY DEF Contributors
<1> HIDE DEF S, C
<1>4. /\ \A k \in DOMAIN C : C[k] \subseteq S
      /\ \A k, l \in DOMAIN C : \A e \in S : e \in C[k] /\ e \in C[l] => k = l
  <2> HIDE DEF More
  <2> QED
    BY <1>1, <1>2, <1>3
<1>5. Total(C) <= Cardinality(S)
  BY <1>1, <1>4, BarsAddUp
<1>6. ASSUME Cardinality(Contributors) <= 10 PROVE Total(C) = Cardinality(S)
  <2>1. IsFiniteSet(Contributors)
    <3>1. IsFiniteSet(S)
      BY <1>1, FS_Subset
    <3> DEFINE f == [e \in S |-> Posting[e].source]
    <3>2. f \in Surjection(S, Contributors)
      BY <1>3 DEF Surjection
    <3> QED
      BY <3>1, <3>2, FS_Surjection
  <2>2. ASSUME NEW t \in Contributors PROVE Cardinality(More(t)) < 10
    <3>1. Cardinality(BySource(t)) \in Nat
      <4>1. BySource(t) \in SUBSET Visible
        BY DEF BySource
      <4> QED
        BY <4>1, InSight
    <3>2. More(t) \in SUBSET Contributors /\ t \notin More(t)
      BY <3>1
    <3> HIDE DEF More
    <3>3. /\ IsFiniteSet(More(t)) /\ Cardinality(More(t)) <= Cardinality(Contributors)
          /\ Cardinality(Contributors) # Cardinality(More(t))
      BY <2>1, <3>2, FS_Subset
    <3>4. Cardinality(More(t)) \in Nat /\ Cardinality(Contributors) \in Nat
      BY <2>1, <3>3, FS_CardinalityType
    <3> QED
      BY <1>6, <3>3, <3>4
  <2>3. DOMAIN C = Contributors
    BY <1>2, <2>2
  <2>4. ASSUME NEW e \in S PROVE \E k \in DOMAIN C : e \in C[k]
    <3>1. Posting[e].source \in DOMAIN C /\ e \in Visible
      BY <1>1, <1>3, <2>3
    <3>2. C[Posting[e].source] = {d \in Visible : Posting[d].source = Posting[e].source}
      BY <1>2, <3>1
    <3> QED
      BY <3>1, <3>2
  <2> QED
    BY <1>1, <1>4, <2>4, BarsAddUp
<1> QED
  BY <1>5, <1>6 DEF S, C

\* A category counts every row of the sources that have a tag of it.
LEMMA CategoriesCount ==
  ASSUME DashInv, NEW e \in Coverage.source, NEW t \in TagsOf(e)
  PROVE  CategoryTotal(Translated(t)) >= Cardinality(BySource(Posting[e].source))
<1> DEFINE S == Coverage.source
           D == BySource(Posting[e].source)
           P == {p \in S \X Tags : p[2] \in TagsOf(p[1]) /\ Translated(p[2]) = Translated(t)}
           f == [d \in D |-> <<d, t>>]
<1>1. S = {d \in Visible : Posting[d].source # "none"} /\ S \in SUBSET Entries
  BY InSight DEF Coverage
<1>2. D \subseteq S /\ \A d \in D : Posting[d].source = Posting[e].source
  BY <1>1 DEF BySource
<1>3. t \in Tags
  <2>1. Posting[e].source \in DOMAIN Origin
    BY <1>1, DashboardAssumption
  <2> QED
    BY <2>1 DEF Tags, TagsOf
<1>4. ASSUME NEW d \in D PROVE <<d, t>> \in P
  <2>1. d \in S /\ t \in TagsOf(d)
    BY <1>2 DEF TagsOf
  <2> QED
    BY <1>3, <2>1
<1>5. IsFiniteSet(P)
  <2>1. IsFiniteSet(S) /\ IsFiniteSet(Tags)
    BY <1>1, FS_Subset, DashboardAssumption
  <2>2. IsFiniteSet(S \X Tags)
    BY <2>1, FS_Product
  <2>3. P \in SUBSET (S \X Tags)
    OBVIOUS
  <2> HIDE DEF P
  <2> QED
    BY <2>2, <2>3, FS_Subset
<1>6. f \in Injection(D, P)
  <2> HIDE DEF P, D
  <2> QED
    BY <1>4 DEF Injection, IsInjective
<1> HIDE DEF f
<1>7. IsFiniteSet(D) /\ Cardinality(D) <= Cardinality(P)
  <2> HIDE DEF P, D
  <2> QED
    BY <1>5, <1>6, FS_Injection
<1>8. Cardinality(D) \in Nat /\ Cardinality(P) \in Nat
  <2> HIDE DEF P, D
  <2> QED
    BY <1>5, <1>7, FS_CardinalityType
<1>9. Cardinality(P) >= Cardinality(D)
  <2> HIDE DEF P, D
  <2> QED
    BY <1>7, <1>8
<1> QED
  BY <1>9 DEF CategoryTotal

-----------------------------------------------------------------------------
\* The views agree with each other in every state of the invariant.
LEMMA ViewsAgree == DashInv => CountedIsListed
<1> SUFFICES ASSUME DashInv PROVE CountedIsListed
  OBVIOUS
<1> DEFINE Live == {e \in Titled(Visible) : NotOver(e)}
<1>1. /\ ListOf("any", TRUE) = Live /\ ListOf("open", TRUE) \subseteq Live
      /\ ListOf("closing_soon", TRUE) =
           {e \in Titled(Visible) : stored[e] = "closing_soon" /\ NotOver(e)}
      /\ ListOf("closed", TRUE) =
           {e \in Titled(Visible) : stored[e] = "closed" \/ ~NotOver(e)}
  BY ListsAre
<1>2. KpiScope \subseteq Live
  BY CountedNotOver
<1>3. KpiHighMatch \subseteq ListPriority("high")
  BY <1>1, <1>2 DEF KpiHighMatch, ListPriority, OfPriority, Scored
<1>4. ASSUME NEW e \in Live, ~Undated(e) PROVE ReadStatus(e) # {"closed"}
  <2>1. "closing_soon" # "closed" /\ "open" # "closed"
    OBVIOUS
  <2> QED
    BY <1>4, <2>1 DEF ReadStatus, StatusAt
<1>5. ASSUME NEW e \in ListOf("closed", TRUE), stored[e] # "closed"
      PROVE  ReadStatus(e) = {"closed"}
  <2>1. ~NotOver(e)
    BY <1>1, <1>5
  <2>2. ~Undated(e)
    BY <2>1 DEF NotOver
  <2> QED
    BY <2>1, <2>2 DEF ReadStatus, StatusAt
<1>6. Titled(ReviewQueue) \subseteq Live
  BY InSight DEF ReviewQueue, First, Titled
<1>7. ClosingSoon \cap ListOf("closed", TRUE) = {}
  <2> SUFFICES ASSUME NEW e \in ClosingSoon, e \in ListOf("closed", TRUE) PROVE FALSE
    OBVIOUS
  <2>1. e \in Visible /\ ~Undated(e) /\ NotOver(e)
    BY PipelineIs
  <2>2. e \in Entries
    BY <2>1, InSight
  <2> QED
    BY <1>1, <2>1, <2>2 DEF DashInv
<1>8. ClosingSoon \subseteq Coverage.dated
  <2>1. Coverage.dated = {e \in Visible : ~Undated(e)}
    BY DEF Coverage
  <2> QED
    BY <2>1, PipelineIs
<1>9. ASSUME NEW e \in TopScored, Priority(Posting[e].score) # "high", NEW h \in KpiHighMatch
      PROVE  h \in TopScored
  <2>1. h \in Scored(Visible) /\ Priority(Posting[h].score) = "high"
    BY <1>2 DEF KpiHighMatch, OfPriority, Scored, Titled
  <2>2. e \in Entries /\ h \in Entries
    BY <2>1, InSight DEF TopScored, Scored
  <2>3. /\ Posting[e].score \in Nat /\ Posting[h].score \in Nat
        /\ Posting[h].score >= 60 /\ ~(Posting[e].score >= 60)
    BY <1>9, <2>1, <2>2, InSight, HighIs
  <2> QED
    BY <2>1, <2>3, BestShown
<1>10. SummaryClosingSoon =
         {e \in First(ListOf("closing_soon", TRUE)) : Posting[e].noise = "none"}
  <2>1. ASSUME NEW e \in First(ListOf("closing_soon", TRUE))
        PROVE  stored[e] # "closed" /\ (Undated(e) \/ Posting[e].close + DayTicks >= tick)
    <3>1. e \in Titled(Visible) /\ stored[e] = "closing_soon" /\ NotOver(e)
      BY <1>1 DEF First
    <3>2. Posting[e].close \in Nat
      BY <3>1, InSight DEF Titled
    <3>3. tick \in Nat /\ Midnight \in Nat /\ tick < Midnight + DayTicks /\ DayTicks \in Nat
      BY MidnightIs DEF DashInv
    <3> QED
      BY <3>1, <3>2, <3>3 DEF NotOver
  <2> QED
    BY <2>1 DEF SummaryClosingSoon
<1>11. KpiHighMatch \subseteq ScoreDistribution[2] \cup ScoreDistribution[3]
  <2> SUFFICES ASSUME NEW h \in KpiHighMatch
               PROVE  h \in ScoreDistribution[2] \cup ScoreDistribution[3]
    OBVIOUS
  <2>1. h \in Scored(Visible) /\ Priority(Posting[h].score) = "high"
    BY <1>2 DEF KpiHighMatch, OfPriority, Scored, Titled
  <2>2. Posting[h].score \in Nat /\ Posting[h].score >= 60
    BY <2>1, InSight, HighIs DEF Scored
  <2>3. Band(Posting[h].score, {25, 50, 75}) \in {2, 3}
    BY <2>2, BandOfThree
  <2>4. \A k \in {2, 3} : ScoreDistribution[k] =
          {e \in Scored(Visible) : Band(Posting[e].score, {25, 50, 75}) = k}
    BY DEF ScoreDistribution
  <2> QED
    BY <2>1, <2>3, <2>4
<1>12. \A s \in DOMAIN StatusBreakdown : StatusBreakdown[s] \subseteq ListOf(s, TRUE)
  BY StatusListed
<1>13. \A e \in ListOf("any", TRUE) \cup ListOf("open", TRUE) :
         ~Undated(e) => ReadStatus(e) # {"closed"}
  BY <1>1, <1>4
<1>14. \A e \in ListOf("closed", TRUE) : stored[e] # "closed" => ReadStatus(e) = {"closed"}
  BY <1>5
<1>15. (\E e \in TopScored : Priority(Posting[e].score) # "high")
         => KpiHighMatch \subseteq TopScored
  BY <1>9
<1>16. \A e \in Coverage.source : \A t \in TagsOf(e) :
         CategoryTotal(Translated(t)) >= Cardinality(BySource(Posting[e].source))
  BY CategoriesCount
<1>17. /\ KpiScope \subseteq ListOf("any", TRUE)
       /\ Titled(ReviewQueue) \subseteq ListOf("any", TRUE)
  BY <1>1, <1>2, <1>6
<1> QED
  BY <1>3, <1>7, <1>8, <1>10, <1>11, <1>12, <1>13, <1>14, <1>15, <1>16, <1>17,
     StatusAddsUp, WeekInMonth, ScoresAddUp, AmountsAddUp, SourcesAddUp DEF CountedIsListed

\* Whatever the dashboard counts the list shows, at any hour, with any number of
\* rows to a lane and whatever was scraped when.
THEOREM ViewsStayHonest == DashSpec => []CountedIsListed
<1>1. DashInit => DashInv
  BY DashInvInit
<1>2. DashInv /\ [DashNext]_dashVars => DashInv'
  BY DashInvStep
<1>3. DashInv => CountedIsListed
  BY ViewsAgree
<1> QED
  BY <1>1, <1>2, <1>3, PTL DEF DashSpec

-----------------------------------------------------------------------------
(* Sectors.  What a run of the backfill has counted, what it has put down for  *)
(* its batch and what it knows of the rows; and how stale that is, unless      *)
(* another run has committed since.                                            *)

HIDE DashboardAssumption
USE SectorAssumption

LabelSet == {NoLabel, Deleted, Otros} \cup
  UNION {{Sector(o, raw) : raw \in Judgements} : o \in SectorRows}
Maps == UNION {[D -> LabelSet] : D \in SUBSET SectorRows}
Modes == {"fill", "force", "null", "dry"}
BackfillRuns ==
  [step : {"idle", "rows", "commit", "ended", "aborted"}, mode : Modes,
   todo : Seq(SectorRows), at : Nat, seen : Maps, got : Maps,
   filled : Nat, skipped : Nat, failed : Nat, wrote : Nat, raced : BOOLEAN]

BackfillTyped ==
  /\ label \in [SectorRows -> LabelSet] /\ age \in [SectorRows -> Nat]
  /\ script \in [Scripts -> BackfillRuns]

\* A run counts every row it has passed once; those of its batch are put down.
Counts(s) ==
  /\ s.at <= Len(s.todo) /\ (s.step = "rows" => s.at < Len(s.todo))
  /\ \A i, j \in 1 .. Len(s.todo) : s.todo[i] = s.todo[j] => i = j
  /\ \A i \in 1 .. Len(s.todo) : s.todo[i] \in DOMAIN s.seen
  /\ \A o \in DOMAIN s.got : \E i \in 1 .. s.at : s.todo[i] = o
  /\ s.filled + s.skipped + s.failed + Cardinality(DOMAIN s.got) = s.at
  /\ s.mode # "dry" => s.filled = s.wrote
  /\ s.step = "commit" => s.at >= BatchSize \/ s.at = Len(s.todo)

\* A row is as it was read, or gone.
AsRead(was, is) == is = was \/ is = Deleted

\* Until another run commits, the rows of the batch are as they were read, and
\* they were read as rows that need a sector.
UpToDate(s, is) ==
  s.mode \in {"fill", "null"} /\ ~s.raced =>
    /\ \A o \in DOMAIN s.got : NeedsSector(s.seen[o], s.mode) /\ AsRead(s.seen[o], is[o])
    /\ s.step = "rows" /\ s.at < BatchSize => \A o \in DOMAIN s.seen : AsRead(s.seen[o], is[o])

Backfilling(s) == s.step \in {"rows", "commit"}
BackfillInv ==
  /\ BackfillTyped
  /\ \A r \in Scripts : Backfilling(script[r]) => Counts(script[r]) /\ UpToDate(script[r], label)

-----------------------------------------------------------------------------
\* A label weaker than that of the rules is the judge's, and the rules are unsure.
LEMMA SectorKeeps ==
  ASSUME NEW o \in SectorRows, NEW raw \in Judgements,
         Sector(o, raw).conf < ByRules[o].conf
  PROVE  /\ ByRules[o].conf < Low
         /\ Sector(o, raw) = JudgeLabel(raw) /\ JudgeLabel(raw) # Otros
<1>1. ByRules[o].conf \in 0 .. 3 /\ ByVectors[o].conf \in 0 .. 3
  BY SectorAssumption
<1>2. Near(o).conf >= ByRules[o].conf
  BY <1>1, SectorAssumption DEF Near
<1>3. ByRules[o].conf >= Low => Near(o) = ByRules[o] /\ ByRules[o].sector # "otros"
  BY <1>1, SectorAssumption DEF Near, Low
<1>4. ByRules[o].conf < Low
  BY <1>1, <1>3 DEF Sector, Low
<1>5. Sector(o, raw) # Near(o)
  BY <1>1, <1>2 DEF Near
<1> QED
  BY <1>4, <1>5 DEF Sector

\* A map with one more key.
LEMMA WithIs ==
  ASSUME NEW f \in Maps, NEW o \in SectorRows, NEW l \in LabelSet
  PROVE  /\ With(f, o, l) \in Maps /\ DOMAIN With(f, o, l) = DOMAIN f \cup {o}
         /\ With(f, o, l)[o] = l
         /\ \A p \in DOMAIN f : p # o => With(f, o, l)[p] = f[p]
<1>1. PICK D \in SUBSET SectorRows : f \in [D -> LabelSet]
  BY DEF Maps
<1>2. With(f, o, l) \in [D \cup {o} -> LabelSet] /\ D \cup {o} \in SUBSET SectorRows
  BY <1>1 DEF With
<1> QED
  BY <1>1, <1>2 DEF With, Maps

\* The keys of a map are few.
LEMMA MapKeysFinite ==
  ASSUME NEW f \in Maps
  PROVE  IsFiniteSet(DOMAIN f) /\ Cardinality(DOMAIN f) \in Nat /\ DOMAIN f \subseteq SectorRows
<1>1. DOMAIN f \in SUBSET SectorRows
  BY DEF Maps
<1>2. IsFiniteSet(DOMAIN f)
  BY <1>1, FS_Subset
<1> QED
  BY <1>1, <1>2, FS_CardinalityType

\* The end of a batch is a full batch or the last row.
LEMMA BatchEnds ==
  ASSUME NEW s \in BackfillRuns, StepAfter(s) = "commit"
  PROVE  s.at + 1 >= BatchSize \/ s.at + 1 = Len(s.todo)
<1> DEFINE n == s.at + 1
           b == BatchSize
<1>1. n \in Nat \ {0} /\ b \in Nat \ {0}
  BY DEF BackfillRuns
<1> HIDE DEF n, b
<1>2. n < b => n % b = n
  BY <1>1
<1>3. n % b = 0 => n >= b
  BY <1>1, <1>2
<1> QED
  BY <1>3 DEF StepAfter, n, b

\* A run that ends, is killed or waits is as it began.
LEMMA AtEaseTyped == AtEase \in BackfillRuns /\ ~Backfilling(AtEase)
<1>1. [o \in {} |-> NoLabel] \in Maps
  <2>1. [o \in {} |-> NoLabel] \in [{} -> LabelSet] /\ {} \in SUBSET SectorRows
    OBVIOUS
  <2> QED
    BY <2>1 DEF Maps
<1>2. <<>> \in Seq(SectorRows)
  OBVIOUS
<1> QED
  BY <1>1, <1>2 DEF AtEase, BackfillRuns, Modes, Backfilling

\* At the start no run works, and the rows have an order.
LEMMA BackfillInit == SectorInit => BackfillInv
<1> SUFFICES ASSUME SectorInit PROVE BackfillInv
  OBVIOUS
<1>1. age \in [SectorRows -> Nat]
  <2> DEFINE n == Cardinality(SectorRows)
  <2>1. n \in Nat
    BY FS_CardinalityType
  <2>2. IsFiniteSet(1 .. n) /\ Cardinality(1 .. n) = n
    BY <2>1, FS_Interval
  <2>3. Bijection(SectorRows, 1 .. n) # {}
    BY <2>2, FS_SameCardinalityBij DEF ExistsBijection
  <2>4. age \in Bijection(SectorRows, 1 .. n)
    BY <2>3 DEF SectorInit
  <2> QED
    BY <2>1, <2>4 DEF Bijection, Injection
<1> QED
  BY <1>1, AtEaseTyped DEF SectorInit, BackfillInv, BackfillTyped, LabelSet

\* A step of one run alone.
LEMMA OnlyOne ==
  ASSUME BackfillInv, NEW r \in Scripts, NEW t \in BackfillRuns,
         script' = [script EXCEPT ![r] = t], UNCHANGED <<label, age>>,
         Backfilling(t) => Counts(t) /\ UpToDate(t, label)
  PROVE  BackfillInv'
BY DEF BackfillInv, BackfillTyped

\* The rows that a run loads are those it will pass, in their order.
LEMMA FetchKeeps ==
  ASSUME BackfillInv, NEW r \in Scripts, NEW mode \in Modes, Fetch(r, mode)
  PROVE  BackfillInv'
<1> DEFINE due == {o \in SectorRows : label[o] # Deleted /\ NeedsSector(label[o], mode)}
           n == Cardinality(due)
<1> DEFINE New(todo) == [AtEase EXCEPT !.step = "rows", !.mode = mode, !.todo = todo,
                                       !.seen = [o \in due |-> label[o]]]
<1>1. PICK todo \in ByAge(due) : script' = [script EXCEPT ![r] = New(todo)]
  BY DEF Fetch
<1>2. due # {} /\ UNCHANGED <<label, age>>
  BY DEF Fetch
<1>3. due \in SUBSET SectorRows /\ IsFiniteSet(due) /\ n \in Nat /\ n # 0
  <2>1. due \in SUBSET SectorRows
    OBVIOUS
  <2> HIDE DEF due
  <2>2. IsFiniteSet(due)
    BY <2>1, FS_Subset
  <2> QED
    BY <1>2, <2>1, <2>2, FS_CardinalityType, FS_EmptySet
<1> HIDE DEF due, n
<1>4. /\ todo \in [1 .. n -> due]
      /\ \A i, j \in 1 .. n : i < j => age[todo[i]] < age[todo[j]]
  BY <1>1 DEF ByAge, n
<1>5. todo \in Seq(SectorRows) /\ Len(todo) = n
  <2>1. todo \in [1 .. n -> SectorRows]
    BY <1>3, <1>4
  <2>2. todo \in Seq(SectorRows)
    BY <1>3, <2>1, SeqDef
  <2> QED
    BY <1>3, <2>1, <2>2, LenProperties
<1>6. \A i, j \in 1 .. n : todo[i] = todo[j] => i = j
  <2> SUFFICES ASSUME NEW i \in 1 .. n, NEW j \in 1 .. n, todo[i] = todo[j], i < j PROVE FALSE
    <3>1. \A i, j \in 1 .. n : i < j \/ j < i \/ i = j
      BY <1>3
    <3> QED
      BY <3>1
  <2>1. todo[i] \in SectorRows
    BY <1>3, <1>4
  <2>2. age[todo[i]] \in Nat /\ age[todo[i]] < age[todo[i]]
    BY <1>4, <2>1 DEF BackfillInv, BackfillTyped
  <2> QED
    BY <2>2
<1> DEFINE t == New(todo)
<1>7. [o \in due |-> label[o]] \in Maps
  <2>1. [o \in due |-> label[o]] \in [due -> LabelSet]
    BY <1>3 DEF BackfillInv, BackfillTyped
  <2> QED
    BY <1>3, <2>1 DEF Maps
<1>8. t \in BackfillRuns
  BY <1>5, <1>7, AtEaseTyped DEF BackfillRuns
<1>9. /\ t.step = "rows" /\ t.mode = mode /\ t.todo = todo /\ t.seen = [o \in due |-> label[o]]
      /\ t.at = 0 /\ DOMAIN t.got = {} /\ t.filled = 0 /\ t.skipped = 0 /\ t.failed = 0
      /\ t.wrote = 0 /\ t.raced = FALSE
  BY DEF AtEase
<1> HIDE DEF New, t
<1>10. Counts(t)
  <2>1. Cardinality(DOMAIN t.got) = 0
    BY <1>9, FS_EmptySet
  <2>2. \A i \in 1 .. n : todo[i] \in DOMAIN t.seen
    BY <1>4, <1>9
  <2>3. t.at <= n /\ t.at < n
    BY <1>3, <1>9
  <2> QED
    BY <1>5, <1>6, <1>9, <2>1, <2>2, <2>3 DEF Counts
<1>11. UpToDate(t, label)
  BY <1>9 DEF UpToDate, AsRead
<1> QED
  BY <1>1, <1>2, <1>8, <1>10, <1>11, OnlyOne DEF t

\* A row of the batch is passed: it is kept, fails, or gets a label.
LEMMA ClassifyKeeps ==
  ASSUME BackfillInv, NEW r \in Scripts, Classify(r)
  PROVE  BackfillInv'
<1> DEFINE s == script[r]
           o == Turn(r)
           read == Loaded(r, o)
           moved == [s EXCEPT !.at = @ + 1, !.step = StepAfter(s)]
<1>1. s \in BackfillRuns /\ s.step = "rows" /\ Counts(s) /\ UpToDate(s, label)
  BY DEF Classify, BackfillInv, BackfillTyped, Backfilling
<1>2. /\ s.at \in Nat /\ s.todo \in Seq(SectorRows) /\ Len(s.todo) \in Nat
      /\ s.seen \in Maps /\ s.got \in Maps
      /\ s.filled \in Nat /\ s.skipped \in Nat /\ s.failed \in Nat /\ s.wrote \in Nat
  BY <1>1, LenProperties DEF BackfillRuns
<1>3. /\ s.at + 1 \in 1 .. Len(s.todo) /\ o = s.todo[s.at + 1]
      /\ o \in SectorRows /\ o \in DOMAIN s.seen
  BY <1>1, <1>2, ElementOfSeq DEF Counts, Turn
<1>4. o \notin DOMAIN s.got
  <2> SUFFICES ASSUME o \in DOMAIN s.got PROVE FALSE
    OBVIOUS
  <2>1. PICK i \in 1 .. s.at : s.todo[i] = o
    BY <1>1 DEF Counts
  <2>2. i \in 1 .. Len(s.todo) /\ i # s.at + 1
    BY <1>2, <1>3
  <2> QED
    BY <1>1, <1>3, <2>1, <2>2 DEF Counts
<1>5. read # Deleted /\ UNCHANGED <<label, age>> /\ read \in LabelSet
  <2>1. label[o] \in LabelSet /\ s.seen[o] \in LabelSet
    BY <1>2, <1>3 DEF BackfillInv, BackfillTyped, Maps
  <2> QED
    BY <2>1 DEF Classify, Loaded
<1>6. StepAfter(s) \in {"rows", "commit"}
  BY DEF StepAfter
<1>7. StepAfter(s) = "rows" => s.at + 1 < Len(s.todo)
  BY <1>2, <1>3 DEF StepAfter
<1>8. StepAfter(s) = "commit" => s.at + 1 >= BatchSize \/ s.at + 1 = Len(s.todo)
  BY <1>1, BatchEnds
<1>9. s.mode \in {"fill", "null"} /\ ~s.raced => AsRead(read, label[o])
  <2>1. CASE s.at >= BatchSize
    BY <2>1 DEF Loaded, AsRead
  <2>2. CASE ~(s.at >= BatchSize)
    BY <1>1, <1>2, <1>3, <2>2 DEF Loaded, UpToDate
  <2> QED
    BY <2>1, <2>2
<1>10. \/ script' = [script EXCEPT ![r] = [moved EXCEPT !.skipped = @ + 1]]
       \/ script' = [script EXCEPT ![r] = [moved EXCEPT !.failed = @ + 1]]
       \/ /\ NeedsSector(read, s.mode)
          /\ \E raw \in Judgements :
               script' = [script EXCEPT ![r] =
                 [moved EXCEPT !.got = With(@, o, Sector(o, raw)), !.seen = With(@, o, read)]]
  BY DEF Classify
<1> HIDE DEF o, read, s
<1>11. moved \in BackfillRuns /\ moved.at = s.at + 1 /\ moved.step = StepAfter(s)
  <2>1. s.at + 1 \in Nat
    BY <1>2
  <2>2. StepAfter(s) \in {"idle", "rows", "commit", "ended", "aborted"}
    BY <1>6
  <2> QED
    BY <1>1, <2>1, <2>2 DEF BackfillRuns
<1>12. /\ moved.mode = s.mode /\ moved.todo = s.todo /\ moved.seen = s.seen /\ moved.got = s.got
       /\ moved.filled = s.filled /\ moved.skipped = s.skipped /\ moved.failed = s.failed
       /\ moved.wrote = s.wrote /\ moved.raced = s.raced
  BY <1>1 DEF BackfillRuns
<1> HIDE DEF moved
<1>13. \A p \in DOMAIN s.got : \E i \in 1 .. s.at + 1 : s.todo[i] = p
  <2>1. \A i \in 1 .. s.at : i \in 1 .. s.at + 1
    BY <1>2
  <2> QED
    BY <1>1, <2>1 DEF Counts
<1>14. Cardinality(DOMAIN s.got) \in Nat /\ IsFiniteSet(DOMAIN s.got)
  BY <1>2, MapKeysFinite
<1>15. ASSUME NEW t \in BackfillRuns, t.at = s.at + 1, t.step = StepAfter(s), t.mode = s.mode,
              t.todo = s.todo, t.seen = s.seen, t.got = s.got, t.filled = s.filled,
              t.skipped + t.failed = s.skipped + s.failed + 1,
              t.wrote = s.wrote, t.raced = s.raced
       PROVE  Counts(t) /\ UpToDate(t, label)
  <2>1. t.filled + t.skipped + t.failed + Cardinality(DOMAIN t.got) = t.at
    <3> DEFINE k == Cardinality(DOMAIN s.got)
               a == t.skipped
               b == t.failed
    <3>1. /\ t.filled = s.filled /\ a \in Nat /\ b \in Nat
          /\ a + b = s.skipped + s.failed + 1
      BY <1>15 DEF BackfillRuns
    <3>2. Cardinality(DOMAIN t.got) = k /\ t.at = s.at + 1 /\ k \in Nat
      BY <1>14, <1>15
    <3>3. s.filled + s.skipped + s.failed + k = s.at
      BY <1>1 DEF Counts
    <3> HIDE DEF k, a, b
    <3>4. s.filled \in Nat /\ s.skipped \in Nat /\ s.failed \in Nat /\ s.at \in Nat
      BY <1>2
    <3>5. s.filled + a + b + k = s.at + 1
      BY <3>1, <3>2, <3>3, <3>4
    <3> QED
      BY <3>1, <3>2, <3>5 DEF a, b
  <2>2. t.at <= Len(t.todo) /\ (t.step = "rows" => t.at < Len(t.todo))
    BY <1>2, <1>3, <1>7, <1>15
  <2>3. t.step = "commit" => t.at >= BatchSize \/ t.at = Len(t.todo)
    BY <1>8, <1>15
  <2>4. Counts(t)
    BY <1>1, <1>13, <1>15, <2>1, <2>2, <2>3 DEF Counts
  <2>5. t.at < BatchSize => s.at < BatchSize
    BY <1>2, <1>15
  <2>6. UpToDate(t, label)
    BY <1>1, <1>15, <2>5 DEF UpToDate
  <2> QED
    BY <2>4, <2>6
<1>16. CASE script' = [script EXCEPT ![r] = [moved EXCEPT !.skipped = @ + 1]]
  <2> DEFINE t == [moved EXCEPT !.skipped = @ + 1]
  <2>1. /\ t \in BackfillRuns /\ t.skipped = s.skipped + 1 /\ t.failed = s.failed
        /\ t.at = s.at + 1 /\ t.step = StepAfter(s) /\ t.mode = s.mode
        /\ t.todo = s.todo /\ t.seen = s.seen /\ t.got = s.got /\ t.filled = s.filled
        /\ t.wrote = s.wrote /\ t.raced = s.raced
    <3>1. s.skipped + 1 \in Nat
      BY <1>2
    <3> QED
      BY <1>11, <1>12, <3>1 DEF BackfillRuns
  <2>2. t.skipped + t.failed = s.skipped + s.failed + 1
    BY <1>2, <2>1
  <2> HIDE DEF t
  <2>3. Counts(t) /\ UpToDate(t, label)
    BY <1>15, <2>1, <2>2
  <2> QED
    BY <1>5, <1>16, <2>1, <2>3, OnlyOne DEF t
<1>17. CASE script' = [script EXCEPT ![r] = [moved EXCEPT !.failed = @ + 1]]
  <2> DEFINE t == [moved EXCEPT !.failed = @ + 1]
  <2>1. /\ t \in BackfillRuns /\ t.skipped = s.skipped /\ t.failed = s.failed + 1
        /\ t.at = s.at + 1 /\ t.step = StepAfter(s) /\ t.mode = s.mode
        /\ t.todo = s.todo /\ t.seen = s.seen /\ t.got = s.got /\ t.filled = s.filled
        /\ t.wrote = s.wrote /\ t.raced = s.raced
    <3>1. s.failed + 1 \in Nat
      BY <1>2
    <3> QED
      BY <1>11, <1>12, <3>1 DEF BackfillRuns
  <2>2. t.skipped + t.failed = s.skipped + s.failed + 1
    BY <1>2, <2>1
  <2> HIDE DEF t
  <2>3. Counts(t) /\ UpToDate(t, label)
    BY <1>15, <2>1, <2>2
  <2> QED
    BY <1>5, <1>17, <2>1, <2>3, OnlyOne DEF t
<1>18. ASSUME NEW raw \in Judgements, NeedsSector(read, s.mode),
              script' = [script EXCEPT ![r] =
                [moved EXCEPT !.got = With(@, o, Sector(o, raw)), !.seen = With(@, o, read)]]
       PROVE  BackfillInv'
  <2> DEFINE g == With(s.got, o, Sector(o, raw))
             v == With(s.seen, o, read)
             t == [moved EXCEPT !.got = g, !.seen = v]
  <2>1. Sector(o, raw) \in LabelSet
    BY <1>3 DEF LabelSet
  <2>2. /\ g \in Maps /\ DOMAIN g = DOMAIN s.got \cup {o}
        /\ v \in Maps /\ DOMAIN v = DOMAIN s.seen \cup {o} /\ v[o] = read
        /\ \A p \in DOMAIN s.seen : p # o => v[p] = s.seen[p]
    <3> DEFINE l == Sector(o, raw)
               f == s.got
               h == s.seen
    <3>1. f \in Maps /\ h \in Maps /\ o \in SectorRows /\ l \in LabelSet /\ read \in LabelSet
      BY <1>2, <1>3, <1>5, <2>1
    <3> HIDE DEF f, h, l
    <3>2. With(f, o, l) \in Maps /\ DOMAIN With(f, o, l) = DOMAIN f \cup {o}
      BY <3>1, WithIs
    <3>3. /\ With(h, o, read) \in Maps /\ DOMAIN With(h, o, read) = DOMAIN h \cup {o}
          /\ With(h, o, read)[o] = read
          /\ \A p \in DOMAIN h : p # o => With(h, o, read)[p] = h[p]
      BY <3>1, WithIs
    <3> QED
      BY <3>2, <3>3 DEF f, h, l
  <2>3. script' = [script EXCEPT ![r] = t]
    BY <1>12, <1>18
  <2> HIDE DEF g, v
  <2>4. /\ t \in BackfillRuns /\ t.skipped = s.skipped /\ t.failed = s.failed
        /\ t.at = s.at + 1 /\ t.step = StepAfter(s) /\ t.mode = s.mode
        /\ t.todo = s.todo /\ t.seen = v /\ t.got = g /\ t.filled = s.filled
        /\ t.wrote = s.wrote /\ t.raced = s.raced
    BY <1>11, <1>12, <2>2 DEF BackfillRuns
  <2> HIDE DEF t
  <2>5. Cardinality(DOMAIN t.got) = Cardinality(DOMAIN s.got) + 1
    <3> DEFINE D == DOMAIN s.got
    <3>1. DOMAIN t.got = D \cup {o} /\ o \notin D /\ IsFiniteSet(D)
      BY <1>4, <1>14, <2>2, <2>4
    <3> HIDE DEF D
    <3>2. Cardinality(D \cup {o}) = Cardinality(D) + 1
      BY <3>1, FS_AddElement
    <3>3. Cardinality(DOMAIN t.got) = Cardinality(D) + 1
      BY <3>1, <3>2
    <3> QED
      BY <3>3 DEF D
  <2>6. t.filled + t.skipped + t.failed + Cardinality(DOMAIN t.got) = t.at
    <3> DEFINE k == Cardinality(DOMAIN s.got)
    <3>1. s.filled + s.skipped + s.failed + k = s.at /\ k \in Nat
      BY <1>1, <1>14 DEF Counts
    <3>2. Cardinality(DOMAIN t.got) = k + 1
      BY <2>5
    <3> HIDE DEF k
    <3>3. s.filled + s.skipped + s.failed + (k + 1) = s.at + 1
      <4>1. s.filled \in Nat /\ s.skipped \in Nat /\ s.failed \in Nat /\ s.at \in Nat
        BY <1>2
      <4> QED
        BY <3>1, <4>1
    <3> QED
      BY <2>4, <3>2, <3>3
  <2>7. t.at <= Len(t.todo) /\ (t.step = "rows" => t.at < Len(t.todo))
    BY <1>2, <1>3, <1>7, <2>4
  <2>8. t.step = "commit" => t.at >= BatchSize \/ t.at = Len(t.todo)
    BY <1>8, <2>4
  <2>9. ASSUME NEW p \in DOMAIN t.got PROVE \E i \in 1 .. t.at : t.todo[i] = p
    <3>1. CASE p = o
      <4>1. s.at + 1 \in 1 .. s.at + 1
        BY <1>2
      <4> QED
        BY <1>3, <2>4, <3>1, <4>1
    <3>2. CASE p \in DOMAIN s.got
      BY <1>13, <2>4, <3>2
    <3> QED
      BY <2>2, <2>4, <2>9, <3>1, <3>2
  <2>10. \A i \in 1 .. Len(t.todo) : t.todo[i] \in DOMAIN t.seen
    BY <1>1, <2>2, <2>4 DEF Counts
  <2>11. Counts(t)
    BY <1>1, <2>4, <2>6, <2>7, <2>8, <2>9, <2>10 DEF Counts
  <2>12. UpToDate(t, label)
    <3> SUFFICES ASSUME t.mode \in {"fill", "null"}, ~t.raced
                 PROVE  /\ \A p \in DOMAIN t.got : /\ NeedsSector(t.seen[p], t.mode)
                                                   /\ AsRead(t.seen[p], label[p])
                        /\ t.step = "rows" /\ t.at < BatchSize =>
                             \A p \in DOMAIN t.seen : AsRead(t.seen[p], label[p])
      BY DEF UpToDate
    <3>1. s.mode \in {"fill", "null"} /\ ~s.raced
      BY <2>4
    <3>2. NeedsSector(v[o], s.mode) /\ AsRead(v[o], label[o])
      BY <1>9, <1>18, <2>2, <3>1
    <3>3. ASSUME NEW p \in DOMAIN s.got
          PROVE  NeedsSector(v[p], s.mode) /\ AsRead(v[p], label[p])
      <4>1. PICK i \in 1 .. s.at : s.todo[i] = p
        BY <1>1 DEF Counts
      <4>2. i \in 1 .. Len(s.todo)
        BY <1>2, <1>3
      <4>3. p \in DOMAIN s.seen /\ p # o
        BY <1>1, <1>4, <4>1, <4>2 DEF Counts
      <4>4. NeedsSector(s.seen[p], s.mode) /\ AsRead(s.seen[p], label[p])
        BY <1>1, <3>1 DEF UpToDate
      <4> QED
        BY <2>2, <4>3, <4>4
    <3>4. ASSUME t.at < BatchSize, NEW p \in DOMAIN t.seen PROVE AsRead(v[p], label[p])
      <4>1. CASE p = o
        BY <3>2, <4>1
      <4>2. CASE p # o
        <5>1. s.at < BatchSize
          BY <1>2, <2>4, <3>4
        <5>2. p \in DOMAIN s.seen /\ v[p] = s.seen[p]
          BY <2>2, <2>4, <3>4, <4>2
        <5> QED
          BY <1>1, <3>1, <5>1, <5>2 DEF UpToDate
      <4> QED
        BY <4>1, <4>2
    <3> QED
      BY <2>2, <2>4, <3>2, <3>3, <3>4
  <2> QED
    BY <1>5, <2>3, <2>4, <2>11, <2>12, OnlyOne
<1> QED
  BY <1>10, <1>16, <1>17, <1>18

\* A batch is over: what was put down is added to a count.
LEMMA AfterIs ==
  ASSUME NEW s \in BackfillRuns, Counts(s), s.step = "commit",
         NEW t \in BackfillRuns, NEW u \in BackfillRuns, u = After(s),
         t.step = u.step, t.mode = s.mode, t.todo = s.todo, t.at = s.at,
         t.seen = s.seen, t.got = u.got, t.skipped = s.skipped,
         t.filled + t.failed = s.filled + s.failed + Unsaved(s),
         t.mode # "dry" => t.filled = t.wrote
  PROVE  Backfilling(t) => Counts(t) /\ UpToDate(t, label)
<1>1. /\ u.step = IF s.at = Len(s.todo) THEN "ended" ELSE "rows"
      /\ u.got = [o \in {} |-> NoLabel]
  BY DEF After, BackfillRuns
<1> SUFFICES ASSUME Backfilling(t) PROVE Counts(t) /\ UpToDate(t, label)
  OBVIOUS
<1>2. t.step = "rows" /\ s.at # Len(s.todo) /\ DOMAIN t.got = {}
  BY <1>1 DEF Backfilling
<1>3. /\ s.at \in Nat /\ Len(s.todo) \in Nat /\ s.at <= Len(s.todo) /\ s.at >= BatchSize
      /\ s.filled \in Nat /\ s.failed \in Nat /\ s.skipped \in Nat
      /\ t.filled \in Nat /\ t.failed \in Nat
      /\ s.filled + s.skipped + s.failed + Unsaved(s) = s.at
  <2>1. s.todo \in Seq(SectorRows)
    BY DEF BackfillRuns
  <2> QED
    BY <1>2, <2>1, LenProperties DEF BackfillRuns, Counts, Unsaved
<1>4. t.at <= Len(t.todo) /\ t.at < Len(t.todo)
  BY <1>2, <1>3
<1>5. Unsaved(s) \in Nat
  BY MapKeysFinite DEF Unsaved, BackfillRuns
<1>6. t.filled + t.skipped + t.failed + Cardinality(DOMAIN t.got) = t.at
  <2> DEFINE a == t.filled
             b == t.failed
             k == Unsaved(s)
  <2>1. Cardinality(DOMAIN t.got) = 0
    BY <1>2, FS_EmptySet
  <2>2. /\ a \in Nat /\ b \in Nat /\ k \in Nat /\ a + b = s.filled + s.failed + k
        /\ s.filled + s.skipped + s.failed + k = s.at
    BY <1>3, <1>5
  <2> HIDE DEF a, b, k
  <2>3. a + s.skipped + b + 0 = s.at
    <3>1. s.filled \in Nat /\ s.skipped \in Nat /\ s.failed \in Nat /\ s.at \in Nat
      BY <1>3
    <3> QED
      BY <2>2, <3>1
  <2> QED
    BY <2>1, <2>3 DEF a, b
<1>7. Counts(t)
  BY <1>2, <1>4, <1>6 DEF Counts
<1>8. UpToDate(t, label)
  BY <1>2, <1>3 DEF UpToDate
<1> QED
  BY <1>7, <1>8

\* What After makes of a run is a run.
LEMMA AfterTyped ==
  ASSUME NEW s \in BackfillRuns
  PROVE  /\ After(s) \in BackfillRuns /\ After(s).mode = s.mode /\ After(s).todo = s.todo
         /\ After(s).at = s.at /\ After(s).seen = s.seen /\ After(s).skipped = s.skipped
         /\ After(s).filled = s.filled /\ After(s).failed = s.failed
         /\ After(s).wrote = s.wrote /\ After(s).raced = FALSE
<1>1. [o \in {} |-> NoLabel] \in Maps
  BY AtEaseTyped DEF AtEase, BackfillRuns
<1> QED
  BY <1>1 DEF After, BackfillRuns

\* The commit fails: nothing is written, and the batch has failed.
LEMMA FailKeeps ==
  ASSUME BackfillInv, NEW r \in Scripts, CommitFails(r)
  PROVE  BackfillInv'
<1> DEFINE s == script[r]
           u == After(s)
           t == [u EXCEPT !.failed = @ + Unsaved(s)]
<1>1. s \in BackfillRuns /\ s.step = "commit" /\ s.mode # "dry" /\ Counts(s)
  BY DEF CommitFails, BackfillInv, BackfillTyped, Backfilling
<1>2. script' = [script EXCEPT ![r] = t] /\ UNCHANGED <<label, age>>
  BY DEF CommitFails
<1>3. /\ u \in BackfillRuns /\ u.mode = s.mode /\ u.todo = s.todo
      /\ u.at = s.at /\ u.seen = s.seen /\ u.skipped = s.skipped
      /\ u.filled = s.filled /\ u.failed = s.failed /\ u.wrote = s.wrote
  BY <1>1, AfterTyped
<1>4. Unsaved(s) \in Nat /\ s.failed \in Nat /\ s.filled \in Nat
  BY <1>1, MapKeysFinite DEF Unsaved, BackfillRuns
<1> HIDE DEF s
<1>5. u = After(s)
  OBVIOUS
<1> HIDE DEF u
<1>6. /\ t \in BackfillRuns /\ t.step = u.step /\ t.mode = s.mode /\ t.todo = s.todo
      /\ t.at = s.at /\ t.seen = s.seen /\ t.got = u.got /\ t.skipped = s.skipped
      /\ t.filled = s.filled /\ t.failed = s.failed + Unsaved(s) /\ t.wrote = s.wrote
  <2>1. s.failed + Unsaved(s) \in Nat
    BY <1>4
  <2> QED
    BY <1>3, <2>1 DEF BackfillRuns
<1> HIDE DEF t
<1>7. t.filled + t.failed = s.filled + s.failed + Unsaved(s)
  BY <1>4, <1>6
<1>8. t.mode # "dry" => t.filled = t.wrote
  BY <1>1, <1>6 DEF Counts
<1>9. Backfilling(t) => Counts(t) /\ UpToDate(t, label)
  BY <1>1, <1>3, <1>5, <1>6, <1>7, <1>8, AfterIs
<1> QED
  BY <1>2, <1>6, <1>9, OnlyOne

\* The rows stay in an order.
LEMMA AgedTyped == ASSUME NEW S PROVE Aged(S) \in [SectorRows -> Nat]
<1> DEFINE stamp == [o \in SectorRows |->
                       IF o \in S THEN age[o] + Cardinality(SectorRows) ELSE age[o]]
<1>1. ASSUME NEW o \in SectorRows
      PROVE  Cardinality({p \in SectorRows : stamp[p] <= stamp[o]}) \in Nat
  <2> DEFINE T == {p \in SectorRows : stamp[p] <= stamp[o]}
  <2>1. T \in SUBSET SectorRows
    OBVIOUS
  <2> HIDE DEF T
  <2>2. IsFiniteSet(T)
    BY <2>1, FS_Subset
  <2>3. Cardinality(T) \in Nat
    BY <2>2, FS_CardinalityType
  <2> QED
    BY <2>3 DEF T
<1>2. Aged(S) = [o \in SectorRows |-> Cardinality({p \in SectorRows : stamp[p] <= stamp[o]})]
  BY DEF Aged
<1> HIDE DEF stamp
<1> QED
  BY <1>1, <1>2

\* The batch is committed: the others know less of the rows.
LEMMA BatchCommitKeeps ==
  ASSUME BackfillInv, NEW r \in Scripts, CommitBatch(r)
  PROVE  BackfillInv'
<1> DEFINE s == script[r]
           new == {o \in DOMAIN s.got : s.got[o] # s.seen[o]}
           u == After(s)
           n == Unsaved(s)
           t == [u EXCEPT !.filled = @ + n,
                          !.wrote = IF s.mode = "dry" THEN @ ELSE @ + n]
           raced(q) == s.mode # "dry" \/ script[q].raced
           other(q) == [script[q] EXCEPT !.raced = raced(q)]
<1>1. s \in BackfillRuns /\ s.step = "commit" /\ Counts(s)
  BY DEF CommitBatch, BackfillInv, BackfillTyped, Backfilling
<1>2. /\ script' \in [Scripts -> {script'[q] : q \in Scripts}]
      /\ script'[r] = t /\ \A q \in Scripts : q # r => script'[q] = other(q)
  BY DEF CommitBatch
<1>3. IF s.mode = "dry" THEN UNCHANGED <<label, age>>
      ELSE /\ label' = [o \in SectorRows |-> IF o \in new THEN s.got[o] ELSE label[o]]
           /\ age' = Aged(new)
  BY DEF CommitBatch
<1>4. /\ u \in BackfillRuns /\ u.mode = s.mode /\ u.todo = s.todo
      /\ u.at = s.at /\ u.seen = s.seen /\ u.skipped = s.skipped
      /\ u.filled = s.filled /\ u.failed = s.failed /\ u.wrote = s.wrote
  BY <1>1, AfterTyped
<1>5. n \in Nat /\ s.failed \in Nat /\ s.filled \in Nat /\ s.wrote \in Nat /\ s.got \in Maps
  BY <1>1, MapKeysFinite DEF Unsaved, BackfillRuns
<1>6. u = After(s) /\ n = Unsaved(s)
  OBVIOUS
<1> HIDE DEF u, n
<1>7. /\ t \in BackfillRuns /\ t.step = u.step /\ t.mode = s.mode /\ t.todo = s.todo
      /\ t.at = s.at /\ t.seen = s.seen /\ t.got = u.got /\ t.skipped = s.skipped
      /\ t.filled = s.filled + n /\ t.failed = s.failed
      /\ s.mode # "dry" => t.wrote = s.wrote + n
  <2> HIDE DEF s
  <2>1. s.filled + n \in Nat /\ (IF s.mode = "dry" THEN s.wrote ELSE s.wrote + n) \in Nat
    BY <1>5
  <2> QED
    BY <1>4, <2>1 DEF BackfillRuns
<1> HIDE DEF t
<1>8. t.filled + t.failed = s.filled + s.failed + n
  BY <1>5, <1>7
<1>9. t.mode # "dry" => t.filled = t.wrote
  BY <1>1, <1>7 DEF Counts
<1>10. ASSUME NEW l PROVE Backfilling(t) => Counts(t) /\ UpToDate(t, l)
  <2>1. Backfilling(t) => Counts(t) /\ UpToDate(t, label)
    <3> HIDE DEF s
    <3> QED
      BY <1>1, <1>4, <1>6, <1>7, <1>8, <1>9, AfterIs
  <2>2. Backfilling(t) => t.step = "rows" /\ t.at >= BatchSize /\ DOMAIN t.got = {}
    <3> HIDE DEF s
    <3>1. /\ u.step = IF s.at = Len(s.todo) THEN "ended" ELSE "rows"
          /\ u.got = [o \in {} |-> NoLabel]
      BY <1>1, <1>6 DEF After, BackfillRuns
    <3> QED
      BY <1>1, <1>7, <3>1 DEF Backfilling, Counts
  <2>3. t.at \in Nat
    BY <1>7 DEF BackfillRuns
  <2>4. Backfilling(t) => UpToDate(t, l)
    BY <2>2, <2>3 DEF UpToDate
  <2> QED
    BY <2>1, <2>4
<1>11. label' \in [SectorRows -> LabelSet] /\ age' \in [SectorRows -> Nat]
  <2>1. CASE s.mode = "dry"
    BY <1>3, <2>1 DEF BackfillInv, BackfillTyped
  <2>2. CASE s.mode # "dry"
    <3>1. \A o \in new : s.got[o] \in LabelSet
      BY <1>5 DEF Maps
    <3> HIDE DEF s, new
    <3>2. label \in [SectorRows -> LabelSet]
      BY DEF BackfillInv, BackfillTyped
    <3>3. label' \in [SectorRows -> LabelSet]
      BY <1>3, <2>2, <3>1, <3>2
    <3> QED
      BY <1>3, <2>2, <3>3, AgedTyped
  <2> QED
    BY <2>1, <2>2
<1>12. ASSUME NEW q \in Scripts, q # r
       PROVE  /\ other(q) \in BackfillRuns
              /\ Backfilling(other(q)) => Counts(other(q)) /\ UpToDate(other(q), label')
  <2> DEFINE v == script[q]
             w == other(q)
  <2>1. v \in BackfillRuns /\ (Backfilling(v) => Counts(v) /\ UpToDate(v, label))
    BY DEF BackfillInv, BackfillTyped
  <2>2. raced(q) \in BOOLEAN
    BY <2>1 DEF BackfillRuns
  <2> HIDE DEF s
  <2>3. /\ w \in BackfillRuns /\ w.step = v.step /\ w.mode = v.mode /\ w.todo = v.todo
        /\ w.at = v.at /\ w.seen = v.seen /\ w.got = v.got /\ w.filled = v.filled
        /\ w.skipped = v.skipped /\ w.failed = v.failed /\ w.wrote = v.wrote
        /\ w.raced = raced(q)
    <3> HIDE DEF raced
    <3> QED
      BY <2>1, <2>2 DEF BackfillRuns
  <2>4. ~w.raced => s.mode = "dry" /\ ~v.raced
    BY <2>3
  <2> HIDE DEF v, w, raced
  <2>5. Counts(v) => Counts(w)
    BY <2>3 DEF Counts
  <2>6. UpToDate(v, label) => UpToDate(w, label')
    BY <1>3, <2>3, <2>4 DEF UpToDate
  <2>7. Backfilling(w) => Backfilling(v)
    BY <2>3 DEF Backfilling
  <2> QED
    BY <2>1, <2>3, <2>5, <2>6, <2>7 DEF w
<1> HIDE DEF other
<1>13. script' \in [Scripts -> BackfillRuns]
  BY <1>2, <1>7, <1>12
<1>14. \A q \in Scripts : Backfilling(script'[q]) => Counts(script'[q]) /\ UpToDate(script'[q], label')
  BY <1>2, <1>10, <1>12
<1> QED
  BY <1>11, <1>13, <1>14 DEF BackfillInv, BackfillTyped, Backfilling, Counts, UpToDate

\* Every step keeps the invariant.
LEMMA BackfillStep == BackfillInv /\ [SectorNext]_sectorVars => BackfillInv'
<1> SUFFICES ASSUME BackfillInv, [SectorNext]_sectorVars PROVE BackfillInv'
  OBVIOUS
<1>1. CASE UNCHANGED sectorVars
  BY <1>1 DEF sectorVars, BackfillInv, BackfillTyped
<1>2. ASSUME NEW r \in Scripts, NEW mode \in {"fill", "force", "null", "dry"}, Fetch(r, mode)
      PROVE  BackfillInv'
  BY <1>2, FetchKeeps DEF Modes
<1>3. ASSUME NEW r \in Scripts, Classify(r) PROVE BackfillInv'
  BY <1>3, ClassifyKeeps
<1>4. ASSUME NEW r \in Scripts, RowGone(r) PROVE BackfillInv'
  <2> DEFINE t == [AtEase EXCEPT !.step = "aborted"]
  <2>1. t \in BackfillRuns /\ t.step = "aborted"
    BY AtEaseTyped DEF BackfillRuns
  <2>2. ~Backfilling(t)
    BY <2>1 DEF Backfilling
  <2>3. script' = [script EXCEPT ![r] = t] /\ UNCHANGED <<label, age>>
    BY <1>4 DEF RowGone
  <2> HIDE DEF t
  <2> QED
    BY <2>1, <2>2, <2>3, OnlyOne
<1>5. ASSUME NEW r \in Scripts, Leave(r) PROVE BackfillInv'
  <2>1. script' = [script EXCEPT ![r] = AtEase] /\ UNCHANGED <<label, age>>
    BY <1>5 DEF Leave
  <2> QED
    BY <2>1, AtEaseTyped, OnlyOne
<1>6. ASSUME NEW r \in Scripts, CommitBatch(r) PROVE BackfillInv'
  BY <1>6, BatchCommitKeeps
<1>7. ASSUME NEW r \in Scripts, CommitFails(r) PROVE BackfillInv'
  BY <1>7, FailKeeps
<1>8. ASSUME NEW o \in SectorRows, DeleteRow(o) PROVE BackfillInv'
  <2>1. label' = [label EXCEPT ![o] = Deleted] /\ UNCHANGED <<age, script>>
    BY <1>8 DEF DeleteRow
  <2>2. Deleted \in LabelSet /\ label \in [SectorRows -> LabelSet]
    BY DEF LabelSet, BackfillInv, BackfillTyped
  <2>3. \A p : label'[p] = label[p] \/ label'[p] = Deleted
    BY <2>1, <2>2
  <2>4. ASSUME NEW r \in Scripts, Backfilling(script[r])
        PROVE  UpToDate(script[r], label')
    <3>1. UpToDate(script[r], label)
      BY <2>4 DEF BackfillInv
    <3> QED
      BY <2>3, <3>1 DEF UpToDate, AsRead
  <2> QED
    BY <2>1, <2>2, <2>4 DEF BackfillInv, BackfillTyped
<1> QED
  BY <1>1, <1>2, <1>3, <1>4, <1>5, <1>6, <1>7, <1>8 DEF SectorNext

-----------------------------------------------------------------------------
\* What a step of a run does to its counts and its batch, seen from outside.
Honest(r) ==
  LET s == script[r] t == script'[r] IN
  /\ s.step = "commit" /\ t.step = "ended" =>
       /\ t.filled + t.skipped + t.failed = Len(t.todo)
       /\ t.mode # "dry" => t.filled = t.wrote
  /\ s.step = "commit" /\ t.step # "commit" /\ s.mode # "force" /\ ~s.raced =>
       \A o \in SectorRows : label[o].conf = Sure => label'[o] = label[o]
  /\ s.step = "rows" =>
       \A o \in DOMAIN t.got \ DOMAIN s.got :
         t.got[o].conf < ByRules[o].conf =>
           /\ ByRules[o].conf < Low
           /\ t.got[o] \in {JudgeLabel(raw) : raw \in Judgements} \ {Otros}

\* Every step is honest.
LEMMA StepHonest ==
  ASSUME BackfillInv, [SectorNext]_sectorVars, NEW r \in Scripts
  PROVE  Honest(r)
<1> DEFINE s == script[r]
           t == script'[r]
<1>1. s \in BackfillRuns /\ (Backfilling(s) => Counts(s) /\ UpToDate(s, label))
  BY DEF BackfillInv, BackfillTyped
<1>2. ASSUME t.step = s.step, t.got = s.got, s.step = "commit" => t.step = "commit"
      PROVE  Honest(r)
  BY <1>2 DEF Honest
<1>3. CASE UNCHANGED script
  BY <1>2, <1>3
<1>4. \/ UNCHANGED script
      \/ \E q \in Scripts :
           \/ \E mode \in {"fill", "force", "null", "dry"} : Fetch(q, mode)
           \/ Classify(q) \/ RowGone(q) \/ CommitBatch(q) \/ CommitFails(q) \/ Leave(q)
  BY DEF SectorNext, DeleteRow, sectorVars
<1>5. ASSUME NEW q \in Scripts, q # r,
             \/ \E mode \in {"fill", "force", "null", "dry"} : Fetch(q, mode)
             \/ Classify(q) \/ RowGone(q) \/ CommitBatch(q) \/ CommitFails(q) \/ Leave(q)
      PROVE  Honest(r)
  <2>1. CASE CommitBatch(q)
    <3>1. t = [s EXCEPT !.raced = script[q].mode # "dry" \/ @]
      BY <1>5, <2>1 DEF CommitBatch
    <3> HIDE DEF t, s
    <3>2. t.step = s.step /\ t.got = s.got
      BY <1>1, <3>1 DEF BackfillRuns
    <3> QED
      BY <1>2, <3>2 DEF t, s
  <2>2. CASE script'[r] = script[r]
    BY <1>2, <2>2
  <2>3. \E x : script' = [script EXCEPT ![q] = x] \/ CommitBatch(q)
    BY <1>5 DEF Fetch, Classify, RowGone, CommitFails, Leave
  <2>4. CommitBatch(q) \/ script'[r] = script[r]
    BY <1>5, <2>3 DEF BackfillInv, BackfillTyped
  <2> QED
    BY <2>1, <2>2, <2>4
<1>6. ASSUME NEW mode \in {"fill", "force", "null", "dry"}, Fetch(r, mode) PROVE Honest(r)
  BY <1>6 DEF Fetch, Honest
<1>7. ASSUME Classify(r) PROVE Honest(r)
  <2> DEFINE o == Turn(r)
             moved == [s EXCEPT !.at = @ + 1, !.step = StepAfter(s)]
  <2>1. s.step = "rows" /\ o \in SectorRows
    <3>1. s.step = "rows" /\ Counts(s) /\ s.todo \in Seq(SectorRows) /\ s.at \in Nat
      BY <1>1, <1>7 DEF Classify, Backfilling, BackfillRuns
    <3>2. s.at + 1 \in 1 .. Len(s.todo)
      BY <3>1, LenProperties DEF Counts
    <3> QED
      BY <3>1, <3>2, ElementOfSeq DEF Turn
  <2>2. moved.got = s.got /\ moved \in [step : {moved.step}, mode : {s.mode}, todo : {s.todo},
          at : {s.at + 1}, seen : {s.seen}, got : {s.got}, filled : {s.filled},
          skipped : {s.skipped}, failed : {s.failed}, wrote : {s.wrote}, raced : {s.raced}]
    BY <1>1 DEF BackfillRuns
  <2>3. \/ t = [moved EXCEPT !.skipped = @ + 1]
        \/ t = [moved EXCEPT !.failed = @ + 1]
        \/ \E raw \in Judgements :
             t = [moved EXCEPT !.got = With(@, o, Sector(o, raw)),
                               !.seen = With(@, o, Loaded(r, o))]
    BY <1>7 DEF Classify, BackfillInv, BackfillTyped
  <2> HIDE DEF moved, o, t, s
  <2>4. t.got = s.got \/ \E raw \in Judgements : t.got = With(s.got, o, Sector(o, raw))
    BY <2>2, <2>3
  <2>5. ASSUME NEW p \in DOMAIN t.got \ DOMAIN s.got, t.got[p].conf < ByRules[p].conf
        PROVE  /\ ByRules[p].conf < Low
               /\ t.got[p] \in {JudgeLabel(raw) : raw \in Judgements} \ {Otros}
    <3>1. PICK raw \in Judgements : t.got = With(s.got, o, Sector(o, raw))
      BY <2>4, <2>5
    <3>2. p = o /\ t.got[p] = Sector(o, raw)
      BY <2>5, <3>1 DEF With
    <3>3. Sector(o, raw).conf < ByRules[o].conf
      BY <2>5, <3>2
    <3>4. /\ ByRules[o].conf < Low
          /\ Sector(o, raw) = JudgeLabel(raw) /\ JudgeLabel(raw) # Otros
      BY <2>1, <3>3, SectorKeeps
    <3> QED
      BY <3>2, <3>4
  <2> QED
    BY <2>1, <2>5 DEF Honest, t, s
<1>8. ASSUME RowGone(r) \/ Leave(r) PROVE Honest(r)
  <2>1. t.step # "ended" /\ DOMAIN t.got = {} /\ label' = label
    <3>1. t = AtEase \/ t = [AtEase EXCEPT !.step = "aborted"]
      BY <1>8 DEF RowGone, Leave, BackfillInv, BackfillTyped
    <3> QED
      BY <1>8, <3>1 DEF AtEase, RowGone, Leave
  <2> QED
    BY <2>1 DEF Honest
<1>9. ASSUME NEW u, u = After(s), s.step = "commit",
             t \in BackfillRuns, t.step = u.step, t.todo = s.todo, t.mode = s.mode,
             t.skipped = s.skipped,
             t.filled + t.failed = s.filled + s.failed + Unsaved(s),
             t.mode # "dry" => t.filled = t.wrote,
             s.mode # "force" /\ ~s.raced =>
               \A o \in SectorRows : label[o].conf = Sure => label'[o] = label[o]
      PROVE  Honest(r)
  <2> HIDE DEF t
  <2>1. u.step = "ended" => s.at = Len(s.todo)
    <3> HIDE DEF s
    <3> QED
      BY <1>1, <1>9 DEF After, BackfillRuns
  <2>2. s.filled + s.skipped + s.failed + Unsaved(s) = s.at
    BY <1>1, <1>9 DEF Backfilling, Counts, Unsaved
  <2>3. t.filled + t.skipped + t.failed = s.at
    <3> DEFINE a == t.filled
               b == t.failed
               k == Unsaved(s)
    <3>1. a \in Nat /\ b \in Nat /\ a + b = s.filled + s.failed + k
      BY <1>9 DEF BackfillRuns
    <3>2. /\ s.filled \in Nat /\ s.skipped \in Nat /\ s.failed \in Nat /\ s.at \in Nat
          /\ s.got \in Maps
      BY <1>1 DEF BackfillRuns
    <3>3. k \in Nat
      BY <3>2, MapKeysFinite DEF Unsaved
    <3>4. s.filled + s.skipped + s.failed + k = s.at
      BY <2>2
    <3> HIDE DEF a, b, k, s
    <3>5. a + s.skipped + b = s.at
      BY <3>1, <3>2, <3>3, <3>4
    <3> QED
      BY <1>9, <3>5 DEF a, b
  <2> QED
    BY <1>9, <2>1, <2>3 DEF Honest, t
<1>10. ASSUME CommitFails(r) PROVE Honest(r)
  <2> DEFINE u == After(s)
  <2>1. s.step = "commit" /\ s.mode # "dry" /\ label' = label
    BY <1>10 DEF CommitFails
  <2>2. t = [u EXCEPT !.failed = @ + Unsaved(s)]
    BY <1>10 DEF CommitFails, BackfillInv, BackfillTyped
  <2>3. /\ u \in BackfillRuns /\ u.mode = s.mode /\ u.todo = s.todo
        /\ u.skipped = s.skipped /\ u.filled = s.filled /\ u.failed = s.failed
        /\ u.wrote = s.wrote
    BY <1>1, AfterTyped
  <2>4. Unsaved(s) \in Nat /\ s.failed \in Nat /\ s.filled \in Nat
    BY <1>1, MapKeysFinite DEF Unsaved, BackfillRuns
  <2>5. Counts(s)
    BY <1>1, <2>1 DEF Backfilling
  <2>6. u = After(s)
    OBVIOUS
  <2> HIDE DEF u, s, t
  <2>7. /\ t \in BackfillRuns /\ t.step = u.step /\ t.mode = s.mode /\ t.todo = s.todo
        /\ t.skipped = s.skipped /\ t.filled = s.filled
        /\ t.failed = s.failed + Unsaved(s) /\ t.wrote = s.wrote
    <3>1. s.failed + Unsaved(s) \in Nat
      BY <2>4
    <3> QED
      BY <2>2, <2>3, <3>1 DEF BackfillRuns
  <2>8. /\ t.filled + t.failed = s.filled + s.failed + Unsaved(s)
        /\ t.mode # "dry" => t.filled = t.wrote
    BY <2>1, <2>4, <2>5, <2>7 DEF Counts
  <2> QED
    BY <1>9, <2>1, <2>6, <2>7, <2>8
<1>11. ASSUME CommitBatch(r) PROVE Honest(r)
  <2> DEFINE u == After(s)
             n == Unsaved(s)
  <2>1. s.step = "commit"
    BY <1>11 DEF CommitBatch
  <2>2. t = [u EXCEPT !.filled = @ + n, !.wrote = IF s.mode = "dry" THEN @ ELSE @ + n]
    BY <1>11 DEF CommitBatch
  <2>3. /\ u \in BackfillRuns /\ u.mode = s.mode /\ u.todo = s.todo
        /\ u.skipped = s.skipped /\ u.filled = s.filled /\ u.failed = s.failed
        /\ u.wrote = s.wrote
    BY <1>1, AfterTyped
  <2>4. n \in Nat /\ s.failed \in Nat /\ s.filled \in Nat /\ s.wrote \in Nat
    BY <1>1, MapKeysFinite DEF Unsaved, BackfillRuns
  <2>5. Counts(s) /\ UpToDate(s, label)
    BY <1>1, <2>1 DEF Backfilling
  <2>6. u = After(s) /\ n = Unsaved(s)
    OBVIOUS
  <2>7. s.mode # "force" /\ ~s.raced =>
          \A o \in SectorRows : label[o].conf = Sure => label'[o] = label[o]
    <3> SUFFICES ASSUME s.mode # "force", ~s.raced, NEW o \in SectorRows,
                        label[o].conf = Sure, label'[o] # label[o]
                 PROVE  FALSE
      OBVIOUS
    <3>1. s.mode # "dry"
      BY <1>11 DEF CommitBatch
    <3>2. /\ \A p \in DOMAIN s.got : label[p] # Deleted
          /\ label' = [p \in SectorRows |->
               IF p \in {q \in DOMAIN s.got : s.got[q] # s.seen[q]} THEN s.got[p] ELSE label[p]]
      BY <1>11, <3>1 DEF CommitBatch
    <3>3. o \in DOMAIN s.got /\ label[o] # Deleted
      BY <3>2
    <3>4. s.mode \in {"fill", "null"}
      BY <1>1, <3>1 DEF BackfillRuns, Modes
    <3>5. NeedsSector(label[o], s.mode)
      BY <2>5, <3>3, <3>4 DEF UpToDate, AsRead
    <3>6. label[o] = NoLabel \/ label[o].conf < Sure
      BY <3>4, <3>5 DEF NeedsSector
    <3> QED
      BY <3>6 DEF NoLabel, Label, Sure
  <2> HIDE DEF u, s, t, n
  <2>8. /\ t \in BackfillRuns /\ t.step = u.step /\ t.mode = s.mode /\ t.todo = s.todo
        /\ t.skipped = s.skipped /\ t.filled = s.filled + n /\ t.failed = s.failed
        /\ s.mode # "dry" => t.wrote = s.wrote + n
    <3>1. s.filled + n \in Nat /\ (IF s.mode = "dry" THEN s.wrote ELSE s.wrote + n) \in Nat
      BY <2>4
    <3> QED
      BY <2>2, <2>3, <3>1 DEF BackfillRuns
  <2>9. /\ t.filled + t.failed = s.filled + s.failed + n
        /\ t.mode # "dry" => t.filled = t.wrote
    BY <2>4, <2>5, <2>8 DEF Counts
  <2> QED
    BY <1>9, <2>1, <2>6, <2>7, <2>8, <2>9
<1> QED
  BY <1>3, <1>4, <1>5, <1>6, <1>7, <1>8, <1>10, <1>11

\* A run that ends has counted every row it scanned and filled those it stored; a
\* commit that is not forced keeps the confident labels unless another run
\* committed since the batch was read; and a row gets less confidence than the
\* rules have in it only from a judge that spoke of one they are unsure of.
THEOREM BackfillsStayHonest == SectorSpec => BackfillHonest
<1>1. SectorInit => BackfillInv
  BY BackfillInit
<1>2. BackfillInv /\ [SectorNext]_sectorVars => BackfillInv'
  BY BackfillStep
<1>3. BackfillInv /\ [SectorNext]_sectorVars => [\A r \in Scripts : Honest(r)]_sectorVars
  BY StepHonest
<1>4. [\A r \in Scripts : Honest(r)]_sectorVars => [\A r \in Scripts :
       LET s == script[r] t == script'[r] IN
       /\ s.step = "commit" /\ t.step = "ended" =>
            /\ t.filled + t.skipped + t.failed = Len(t.todo)
            /\ t.mode # "dry" => t.filled = t.wrote
       /\ s.step = "commit" /\ t.step # "commit" /\ s.mode # "force" /\ ~s.raced =>
            \A o \in SectorRows : label[o].conf = Sure => label'[o] = label[o]
       /\ s.step = "rows" =>
            \A o \in DOMAIN t.got \ DOMAIN s.got :
              t.got[o].conf < ByRules[o].conf =>
                /\ ByRules[o].conf < Low
                /\ t.got[o] \in {JudgeLabel(raw) : raw \in Judgements} \ {Otros}]_sectorVars
  BY DEF Honest
<1> QED
  BY <1>1, <1>2, <1>3, <1>4, PTL DEF SectorSpec, BackfillHonest

=============================================================================

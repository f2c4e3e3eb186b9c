-------------------------------- MODULE Sectors --------------------------------
(***************************************************************************)
(* The sector of a call: rules, then embeddings, then a judge, as the      *)
(* backfill script stores it, one row after the other, a batch to a        *)
(* commit.  Several runs of the script may overlap, and rows may be        *)
(* deleted under them.  A confidence is one of four levels: 0, below 0.5,  *)
(* below 0.8, and 0.8 or more.                                             *)
(***************************************************************************)
EXTENDS Naturals, Sequences, FiniteSets, Functions

CONSTANTS
  SectorRows,     \* opportunities
  ByRules,        \* [SectorRows -> the label classify_by_rules gives]
  ByVectors,      \* [SectorRows -> the nearest prototype, Otros below the threshold]
  Judgements,     \* what the language model may answer
  Scripts,        \* processes that run the backfill
  BatchSize,      \* BACKFILL_BATCH_SIZE
  MaxScripts      \* bound of the model: runs that are started

\* The rules know no sector, and the vectors have one below the threshold, with
\* a confidence of 0.
ASSUME SectorAssumption ==
  /\ BatchSize \in Nat \ {0} /\ MaxScripts \in Nat /\ IsFiniteSet(SectorRows)
  /\ \A o \in SectorRows :
       /\ ByRules[o].conf \in 0 .. 3 /\ ByVectors[o].conf \in 0 .. 3
       /\ ByRules[o].sector = "otros" => ByRules[o].conf = 0

VARIABLES
  label,      \* [SectorRows -> sector and sector_confidence, NoLabel, or Deleted]
  age,        \* [SectorRows -> its place by updated_at], the oldest first
  script,     \* [Scripts -> a run of the backfill]
  started
sectorVars == <<label, age, script, started>>

Label(sector, conf) == [sector |-> sector, conf |-> conf]
Otros == Label("otros", 0)
NoLabel == Label("null", 0)
Deleted == Label("deleted", 0)

Low == 2      \* LLM_JUDGE_LOW_CONFIDENCE_THRESHOLD
Sure == 3     \* SECTOR_HIGH_CONFIDENCE_KEEP

-----------------------------------------------------------------------------
(* aclassify_sector. *)

Taxonomy == {"otros", "salud", "cultura"}

\* No client, no key, an exception, a reply that is not JSON: no sector at all.
Heard(raw) == raw.sector \in Taxonomy

\* An unreadable confidence is 0, and the sector stays.
Confidence(raw) == IF raw.conf \in 0 .. 3 THEN raw.conf ELSE 0

\* The judge abstains with Otros.
JudgeLabel(raw) == IF Heard(raw) THEN Label(raw.sector, Confidence(raw)) ELSE Otros

\* Vectors speak only where the rules are silent.
Near(o) == IF ByRules[o].sector = "otros" THEN ByVectors[o] ELSE ByRules[o]

\* Mutant: a judge that abstains has spoken.
SectorJudged(o, raw) ==
  IF ByRules[o].sector # "otros" /\ ByRules[o].conf >= Low THEN ByRules[o]
  ELSE JudgeLabel(raw)

Sector(o, raw) ==
  IF Near(o).sector # "otros" /\ Near(o).conf >= Low THEN Near(o)
  ELSE IF JudgeLabel(raw) # Otros THEN JudgeLabel(raw)
  ELSE Near(o)

-----------------------------------------------------------------------------
(* run_backfill. *)

NeedsSector(l, mode) ==
  CASE mode = "null" -> l = NoLabel
    [] mode = "force" -> TRUE
    [] OTHER -> l = NoLabel \/ l.conf < Sure

AtEase == [step |-> "idle", mode |-> "fill", todo |-> <<>>, at |-> 0,
           seen |-> [o \in {} |-> NoLabel], got |-> [o \in {} |-> NoLabel],
           filled |-> 0, skipped |-> 0, failed |-> 0, wrote |-> 0, raced |-> FALSE]

SectorInit ==
  /\ label = [o \in SectorRows |-> NoLabel]
  /\ age = CHOOSE f \in Bijection(SectorRows, 1 .. Cardinality(SectorRows)) : TRUE
  /\ script = [r \in Scripts |-> AtEase] /\ started = 0

\* fetch_targets, oldest first; the rows are loaded.
ByAge(S) == {s \in [1 .. Cardinality(S) -> S] :
               \A i, j \in 1 .. Cardinality(S) : i < j => age[s[i]] < age[s[j]]}
Fetch(r, mode) ==
  LET due == {o \in SectorRows : label[o] # Deleted /\ NeedsSector(label[o], mode)} IN
  /\ script[r].step = "idle" /\ started < MaxScripts /\ started' = started + 1
  /\ due # {}
  /\ \E todo \in ByAge(due) :
       script' = [script EXCEPT ![r] =
         [AtEase EXCEPT !.step = "rows", !.mode = mode, !.todo = todo,
                        !.seen = [o \in due |-> label[o]]]]
  /\ UNCHANGED <<label, age>>

\* A commit or a rollback expires what the session has loaded: the rows of later
\* batches are read again, each in its turn.
Loaded(r, o) ==
  IF script[r].mode # "dry" /\ script[r].at >= BatchSize THEN label[o] ELSE script[r].seen[o]

Turn(r) == script[r].todo[script[r].at + 1]
With(f, o, l) == [p \in DOMAIN f \cup {o} |-> IF p = o THEN l ELSE f[p]]
StepAfter(s) ==
  IF (s.at + 1) % BatchSize = 0 \/ s.at + 1 = Len(s.todo) THEN "commit" ELSE "rows"

\* One row: kept, classified, or failed by an exception of the embedding layer.
Classify(r) ==
  LET s == script[r]
      moved == [s EXCEPT !.at = @ + 1, !.step = StepAfter(s)] IN
  /\ s.step = "rows" /\ Loaded(r, Turn(r)) # Deleted
  /\ \/ /\ ~NeedsSector(Loaded(r, Turn(r)), s.mode)
        /\ script' = [script EXCEPT ![r] = [moved EXCEPT !.skipped = @ + 1]]
     \/ /\ NeedsSector(Loaded(r, Turn(r)), s.mode)
        /\ \/ /\ ByRules[Turn(r)].sector = "otros"
              /\ script' = [script EXCEPT ![r] = [moved EXCEPT !.failed = @ + 1]]
           \/ \E raw \in Judgements :
                script' = [script EXCEPT ![r] =
                  [moved EXCEPT !.got = With(@, Turn(r), Sector(Turn(r), raw)),
                                !.seen = With(@, Turn(r), Loaded(r, Turn(r)))]]
  /\ UNCHANGED <<label, age, started>>

\* A row that is gone when it is read again ends the run.
RowGone(r) ==
  /\ script[r].step = "rows" /\ Loaded(r, Turn(r)) = Deleted
  /\ script' = [script EXCEPT ![r] = [AtEase EXCEPT !.step = "aborted"]]
  /\ UNCHANGED <<label, age, started>>

Unsaved(s) == Cardinality(DOMAIN s.got)
After(s) == [s EXCEPT !.step = IF s.at = Len(s.todo) THEN "ended" ELSE "rows",
                      !.got = [o \in {} |-> NoLabel], !.raced = FALSE]

\* The rows in their order, those of S last.
Aged(S) ==
  LET stamp == [o \in SectorRows |->
                  IF o \in S THEN age[o] + Cardinality(SectorRows) ELSE age[o]]
  IN  [o \in SectorRows |-> Cardinality({p \in SectorRows : stamp[p] <= stamp[o]})]

\* The batch is committed.  A row that gets the label it was read with is not
\* written and keeps its updated_at.
CommitBatch(r) ==
  LET s == script[r]
      new == {o \in DOMAIN s.got : s.got[o] # s.seen[o]}
  IN
  /\ s.step = "commit"
  /\ IF s.mode = "dry" THEN UNCHANGED <<label, age>>
     ELSE /\ \A o \in DOMAIN s.got : label[o] # Deleted
          /\ label' = [o \in SectorRows |-> IF o \in new THEN s.got[o] ELSE label[o]]
          /\ age' = Aged(new)
  /\ script' = [q \in Scripts |->
       IF q = r THEN [After(s) EXCEPT !.filled = @ + Unsaved(s),
                                      !.wrote = IF s.mode = "dry" THEN @ ELSE @ + Unsaved(s)]
       ELSE [script[q] EXCEPT !.raced = s.mode # "dry" \/ @]]
  /\ UNCHANGED started

\* The commit fails, always if a row of the batch was deleted.
CommitFails(r) ==
  LET s == script[r] IN
  /\ s.step = "commit" /\ s.mode # "dry"
  /\ script' = [script EXCEPT ![r] = [After(s) EXCEPT !.failed = @ + Unsaved(s)]]
  /\ UNCHANGED <<label, age, started>>

\* The process ends, or is killed.
Leave(r) ==
  /\ script[r].step # "idle" /\ script' = [script EXCEPT ![r] = AtEase]
  /\ UNCHANGED <<label, age, started>>

\* Quarantine or the merge of duplicates deletes a row.
DeleteRow(o) ==
  /\ label[o] # Deleted /\ \A x \in SectorRows : label[x] # Deleted
  /\ label' = [label EXCEPT ![o] = Deleted] /\ UNCHANGED <<age, script, started>>

SectorNext ==
  \/ \E r \in Scripts :
       \/ \E mode \in {"fill", "force", "null", "dry"} : Fetch(r, mode)
       \/ Classify(r) \/ RowGone(r) \/ CommitBatch(r) \/ CommitFails(r) \/ Leave(r)
  \/ \E o \in SectorRows : DeleteRow(o)

SectorSpec == SectorInit /\ [][SectorNext]_sectorVars

-----------------------------------------------------------------------------
(* What a run says is what it did: every row it scanned is filled, skipped or *)
(* failed, and the filled ones are those its commits stored, through rollbacks *)
(* and deleted rows.  Unless forced it replaces a confident label only when    *)
(* another run committed after it had read the batch.  Whatever the mode, a    *)
(* row gets less confidence than the rules have in it only from a judge that   *)
(* spoke, and only where the rules are unsure.                                 *)
BackfillHonest ==
  [][\A r \in Scripts :
       LET s == script[r] t == script'[r] IN
       /\ s.step = "commit" /\ t.step = "ended" =>
            /\ t.filled + t.skipped + t.failed = Len(t.todo)
            /\ t.mode # "dry" => t.filled = t.wrote
       /\ s.step = "commit" /\ t.step # "commit" /\ s.mode # "force" /\ ~s.raced =>
            \A o \in SectorRows : label[o].conf = Sure => label'[o] = label[o]
       /\ s.step = "rows" =>
            \A o \in DOMAIN t.got \ DOMAIN s.got :
              t.got[o].conf < ByRules[o].conf =>
                /\ ByRules[o].conf < Low
                /\ t.got[o] \in {JudgeLabel(raw) : raw \in Judgements} \ {Otros}]_sectorVars
================================================================================

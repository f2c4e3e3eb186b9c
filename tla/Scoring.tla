-------------------------------- MODULE Scoring --------------------------------
(***************************************************************************)
(* The scores of one organisation: the arithmetic, and the units of work   *)
(* that store them.  A request, a run, the round of the scheduler and two  *)
(* endpoints of the administrator each look for the row of a call, change  *)
(* it in memory or add a new one, and flush; the database allows one row   *)
(* to a call, and an UPDATE carries the columns that changed in memory.    *)
(***************************************************************************)
EXTENDS Priorities, Integers, FiniteSets, Sequences, SequencesExt

CONSTANTS
  Scorable,      \* the calls
  Contents,      \* what their columns may say, as the features of Rating
  Units,         \* sessions
  MaxUnits       \* bound of the model: units of work that begin

VARIABLES
  content,       \* [Scorable -> Contents], the committed columns
  score,         \* [Scorable -> row of opportunity_scores or Unrated]
  unit,          \* [Units -> a unit of work]
  begun
scoringVars == <<content, score, unit, begun>>

-----------------------------------------------------------------------------
(* _compute_score.  The points for topics of no overlap go by the embedding, *)
(* 8 to 18 of them when the texts are alike.                                 *)

CountryPoints == [same |-> 15, latam |-> 12, international |-> 10, other |-> 5]
TypePoints == [listed |-> 20, partly |-> 15, unlisted |-> 5, anyone |-> 15]
TopicPoints == [half |-> 25, quarter |-> 18, some |-> 12, alike |-> 18, near |-> 8,
                apart |-> 5, no_areas |-> 5, no_topics |-> 10]
AmountPoints == [low |-> 15, within |-> 12, over |-> 5, no_range |-> 8, none |-> -5]
DeadlinePoints == [far |-> 5, weeks |-> 3, soon |-> 0, past |-> 0, none |-> -10]

\* The columns say what the scorer knows how to count.
ASSUME ScoringAssumption ==
  /\ IsFiniteSet(Scorable) /\ Contents # {}
  /\ \A f \in Contents :
       /\ f.country \in DOMAIN CountryPoints /\ f.type \in DOMAIN TypePoints
       /\ f.topics \in DOMAIN TopicPoints /\ f.amount \in DOMAIN AmountPoints
       /\ f.close \in DOMAIN DeadlinePoints

Rating(f) ==
  LET sum == CountryPoints[f.country] + TypePoints[f.type] + TopicPoints[f.topics]
               + AmountPoints[f.amount] + DeadlinePoints[f.close]
               + (IF f.requirements THEN 3 ELSE 0) + (IF f.documents THEN 2 ELSE 0)
  IN  IF sum < 0 THEN 0 ELSE sum

Rated(f) == [value |-> Rating(f), priority |-> Priority(Rating(f))]
Unrated == [value |-> -1, priority |-> "none"]

-----------------------------------------------------------------------------
(* A unit of work: the columns it sees or has written, the rows as they were *)
(* selected or last flushed, as they are in memory, those in db.new, and those *)
(* flushed; overtaken are the calls whose row another unit committed since     *)
(* this one looked for it.                                                     *)

\* Rows by their calls: one of them, and those of m where there are any, else those
\* of n.
RowOf(c, row) == [k \in {c} |-> row]
OnTop(m, n) == [k \in DOMAIN m \cup DOMAIN n |-> IF k \in DOMAIN m THEN m[k] ELSE n[k]]

NoRows == [c \in {} |-> Unrated]
NewUnit(kind, todo, seen) ==
  [kind |-> kind, todo |-> todo, seen |-> seen, edits |-> {}, loaded |-> NoRows,
   made |-> NoRows, new |-> <<>>, sent |-> NoRows, overtaken |-> {}]
NoUnit == NewUnit("none", <<>>, NoRows)

ScoringInit ==
  /\ content = [c \in Scorable |-> CHOOSE f \in Contents : TRUE]
  /\ score = [c \in Scorable |-> Unrated]
  /\ unit = [u \in Units |-> NoUnit] /\ begun = 0

\* A run may meet a call twice, under two candidates; the round of the scheduler and
\* score-all ask for the calls without a score, rescore-all for all of them.
Todo(kind) ==
  CASE kind = "request" -> {<<c>> : c \in Scorable}
    [] kind = "run" -> {<<c, c>> : c \in Scorable}
    [] kind \in {"round", "score_all"} -> {SetToSeq({c \in Scorable : score[c] = Unrated})}
    [] OTHER -> {SetToSeq(Scorable)}

BeginUnit(u, kind) ==
  /\ unit[u] = NoUnit /\ begun < MaxUnits /\ begun' = begun + 1
  /\ \E todo \in Todo(kind) \ {<<>>} :
       unit' = [unit EXCEPT ![u] = NewUnit(kind, todo, content)]
  /\ UNCHANGED <<content, score>>

\* Mutant: autoflush is off, and db.new is not looked at.
RowByQuery(u, c) == IF c \in DOMAIN unit[u].sent THEN unit[u].made[c] ELSE score[c]

\* The row is pending in this session, known to it, or selected.
RowFor(u, c) == IF c \in DOMAIN unit[u].made THEN unit[u].made[c] ELSE score[c]

\* calculate_score, and the loop of rescore-all.  Requests and runs may have changed
\* the columns of the call first.
Calculate(u) ==
  LET s == unit[u]
      c == Head(s.todo)
      row == RowFor(u, c)
  IN
  /\ s.todo # <<>>
  /\ \E f \in IF s.kind \in {"request", "run"} THEN Contents ELSE {s.seen[c]} :
       unit' = [unit EXCEPT ![u] =
         [s EXCEPT !.todo = Tail(@), !.seen[c] = f,
                   !.edits = IF f # s.seen[c] THEN @ \cup {c} ELSE @,
                   !.made = OnTop(RowOf(c, Rated(f)), @), !.loaded = OnTop(@, RowOf(c, row)),
                   !.new = IF row = Unrated THEN Append(@, c) ELSE @]]
  /\ UNCHANGED <<content, score, begun>>

Dirty(s) == {c \in DOMAIN s.made : s.made[c] # s.loaded[c]}

\* An insert of a row the table has, or of one row twice.
Duplicate(s) ==
  \/ \E i \in DOMAIN s.new : score[s.new[i]] # Unrated
  \/ \E i, j \in DOMAIN s.new : i # j /\ s.new[i] = s.new[j]

\* The other transaction that holds a row of the flush is waited for.
Waits(u) == \E q \in Units \ {u} : DOMAIN unit[q].sent \cap Dirty(unit[u]) # {}

\* The columns that changed in memory, on top of those the row has by now.
Update(row, loaded, made) ==
  [col \in DOMAIN row |-> IF made[col] # loaded[col] THEN made[col] ELSE row[col]]

Sending(s) ==
  [c \in Dirty(s) |-> Update(IF c \in DOMAIN s.sent THEN s.sent[c] ELSE score[c],
                             s.loaded[c], s.made[c])]

Flush(u) ==
  LET s == unit[u] IN
  /\ s.kind = "run" \/ s.todo = <<>>
  /\ Dirty(s) # {} /\ ~Duplicate(s) /\ ~Waits(u)
  /\ unit' = [unit EXCEPT ![u] =
       [s EXCEPT !.new = <<>>, !.loaded = s.made, !.sent = OnTop(Sending(s), s.sent)]]
  /\ UNCHANGED <<content, score, begun>>

\* The constraint, lock_timeout, a crash: nothing of the unit stays.
Drop(u) ==
  /\ unit[u] # NoUnit /\ unit' = [unit EXCEPT ![u] = NoUnit]
  /\ UNCHANGED <<content, score, begun>>

CommitUnit(u) ==
  LET s == unit[u] IN
  /\ s # NoUnit /\ s.todo = <<>> /\ Dirty(s) = {}
  /\ score' = OnTop(s.sent, score)
  /\ content' = [c \in Scorable |-> IF c \in s.edits THEN s.seen[c] ELSE content[c]]
  /\ unit' = [q \in Units |->
       IF q = u THEN NoUnit
       ELSE [unit[q] EXCEPT !.overtaken = @ \cup (DOMAIN s.sent \cap DOMAIN unit[q].made)]]
  /\ UNCHANGED begun

ScoringNext ==
  \E u \in Units :
    \/ \E kind \in {"request", "run", "round", "score_all", "rescore_all"} : BeginUnit(u, kind)
    \/ Calculate(u) \/ Flush(u) \/ Drop(u) \/ CommitUnit(u)

ScoringSpec == ScoringInit /\ [][ScoringNext]_scoringVars

-----------------------------------------------------------------------------
(* A unit of work runs into the constraint only when another one stored the row  *)
(* after it had looked, however often it met the call itself; and the row it      *)
(* commits has the score and the priority of the columns it saw, unless another   *)
(* one overtook it.                                                               *)
ScoresSettle ==
  [][\A u \in Units :
       LET s == unit[u] IN
       /\ Duplicate(s) => Range(s.new) \cap s.overtaken # {}
       /\ s # NoUnit /\ unit'[u] = NoUnit /\ score' # score =>
            \A c \in DOMAIN s.made \ s.overtaken : score'[c] = Rated(s.seen[c])]_scoringVars

\* The priority is that of the score.  The code breaks it: of two units that loaded
\* one row the second to commit writes its score and, when its priority is the one
\* it had loaded, leaves the priority of the first.
PriorityOfScore ==
  \A c \in Scorable : score[c] # Unrated => score[c].priority = Priority(score[c].value)
================================================================================

-------------------------- MODULE OpportunityFields --------------------------
(***************************************************************************)
(* The columns of one opportunity row as scrapes fill them, AI analyses    *)
(* change them, users edit them and readers are shown them, while days     *)
(* pass.  A day is a number; texts are reduced to what the code tests.     *)
(***************************************************************************)
EXTENDS Naturals, FiniteSets, FiniteSetsExt, TLC

CONSTANTS
  Payloads,      \* candidates that sources show for this call
  Extractions,   \* what the language model or the heuristics return
  LastDay,       \* bound of the model: the clock stops here
  Soon,          \* scraping_closing_soon_days
  WindowFrom,    \* first and last day the year guard accepts
  WindowTo,
  AmountCap      \* amounts above it are parsing errors: 10^12 in the code

NoDate == 0      \* a date column that is NULL; days are 1 .. LastDay
NoValue == 0     \* funding_amount_value NULL, and the 0 the code treats alike
None == "none"   \* text columns that are NULL

ASSUME FieldsAssumption == LastDay \in Nat /\ Soon \in Nat

VARIABLES row, today, how    \* how: the last operation on the row
fieldsVars == <<row, today, how>>

Either(a, b, null) == IF a # null THEN a ELSE b

-----------------------------------------------------------------------------
(* Dates in texts. *)

\* _year_guard: allow_past opens the past side only.
Guarded(days, past) == {d \in days : d <= WindowTo /\ (past \/ d >= WindowFrom)}

\* extract_dates: the earliest mention opens, the latest closes; one alone
\* closes.
Dates(days, past) ==
  LET ok == Guarded(days, past) IN
  CASE ok = {} -> [open |-> NoDate, close |-> NoDate]
    [] Cardinality(ok) = 1 -> [open |-> NoDate, close |-> Max(ok)]
    [] OTHER -> [open |-> Min(ok), close |-> Max(ok)]

\* extract_close_date: a mention that a label calls the deadline before the
\* latest one; any of them may be labelled.
CloseDates(days, past) == IF Guarded(days, past) = {} THEN {NoDate} ELSE Guarded(days, past)

-----------------------------------------------------------------------------
(* Amounts: _parse_funding_amount. *)

\* raw: marker, the explicit currency of the text; dollar, a "$"; value, the
\* largest number with its suffix applied.  ctx: where the call comes from.
Currency(raw, ctx) ==
  CASE raw.marker # None -> raw.marker
    [] raw.marker = None /\ raw.dollar /\ ctx = "CO" -> "COP"
    [] raw.marker = None /\ raw.dollar /\ ctx = "US" /\ raw.value >= 500 -> "USD"
    [] raw.marker = None /\ ~raw.dollar /\ ctx = "CO" /\ raw.value >= 10000 -> "COP"
    [] OTHER -> None

Parsed(raw, ctx) ==
  LET cur == Currency(raw, ctx)
      weak == raw.marker = None /\ raw.dollar
  IN  IF \/ raw.value = NoValue \/ cur = None
         \/ raw.value < 100 /\ raw.marker = None
         \/ weak /\ raw.value < 500
         \/ raw.value > AmountCap
        THEN [value |-> NoValue, cur |-> None]
        ELSE [value |-> raw.value, cur |-> cur]

\* The text of an amount, and the columns that have none; "tr" is the artefact
\* of a table tag.
NoRaw == [marker |-> None, dollar |-> FALSE, value |-> NoValue, tr |-> FALSE]
Clean(raw) == IF raw.tr THEN NoRaw ELSE raw

-----------------------------------------------------------------------------
(* Summaries: "" has none, "thin" is short or metadata, "short" is real but   *)
(* below extraction_thin_threshold, "real" is enough.                         *)

Thin(summary) == summary \in {"", "thin"}
NeedsEnrichment(summary) == summary # "real"

\* enrich_opportunity_payload.  A candidate with little text, or one that is
\* already complete, only gets the dates its texts mention.
DatesOnly(p) ==
  LET d == Dates(p.mentions, FALSE)
  IN  [p EXCEPT !.open = Either(@, d.open, NoDate), !.close = Either(@, d.close, NoDate)]

Complete(p) ==
  /\ ~NeedsEnrichment(p.summary) /\ p.lists
  /\ ~(p.close = NoDate /\ p.raw = NoRaw /\ p.open = NoDate)

\* The model's own amount before the parser's.
Funding(raw, own, ctx) == IF own.value # NoValue THEN own ELSE Parsed(raw, ctx)

WithExtraction(p, e) ==
  LET raw == Clean(Either(p.raw, e.raw, NoRaw))
      money == IF p.value # NoValue THEN [value |-> p.value, cur |-> p.cur]
               ELSE LET f == Funding(raw, [value |-> e.value, cur |-> e.cur], p.ctx)
                    IN  IF f.value # NoValue THEN f ELSE [value |-> p.value, cur |-> p.cur]
      d == Dates(p.mentions, FALSE)
      summary == IF ~Thin(p.summary) THEN p.summary
                 ELSE IF e.summary # "" THEN e.summary ELSE p.summary
  IN  [p EXCEPT !.summary = summary, !.lists = TRUE, !.raw = raw,
                !.value = money.value, !.cur = money.cur,
                !.close = Either(Either(@, e.close, NoDate), d.close, NoDate),
                !.open = Either(Either(@, e.open, NoDate), d.open, NoDate)]

Enriched(p, e) ==
  IF ~p.long \/ Complete(p) THEN DatesOnly(p) ELSE WithExtraction(p, e)

\* The batched variant (enrich_opportunity_payloads_batch, _batch_enrich) fills
\* gaps only and leaves the summary alone; create_opportunity enriches again.
Batched(p, e) ==
  LET raw == Either(p.raw, Clean(e.raw), NoRaw)
      money == IF p.value # NoValue THEN [value |-> p.value, cur |-> p.cur]
               ELSE Funding(raw, [value |-> e.value, cur |-> e.cur], p.ctx)
  IN  [p EXCEPT !.raw = raw,
                !.value = money.value, !.cur = IF money.value # NoValue THEN money.cur ELSE @,
                !.close = Either(@, e.close, NoDate), !.open = Either(@, e.open, NoDate)]

-----------------------------------------------------------------------------
(* Status. *)

\* opportunity_status: a call is open through the whole day of its deadline.
DeadlineStatus(close, now) ==
  IF close = NoDate THEN "unknown"
  ELSE IF close < now THEN "closed"
  ELSE IF close <= now + Soon THEN "closing_soon" ELSE "open"

\* inferred_opportunity_status: without a deadline the words of the text decide.
InferredStatus(close, words, now) ==
  IF DeadlineStatus(close, now) # "unknown" THEN DeadlineStatus(close, now)
  ELSE IF words \in {"closed", "open"} THEN words ELSE "unknown"

-----------------------------------------------------------------------------
(* The operations on the row. *)

Columns(p) == [f \in {"summary", "lists", "raw", "value", "cur", "close", "open",
                      "words", "ctx", "mentions"} |-> p[f]]

NoRow == [status |-> "absent"]
FieldsInit == row = NoRow /\ today = 1 /\ how = "none"

Exists == row.status # "absent"

\* A row as create_opportunity inserts it.
InsertRow(p) ==
  /\ ~Exists
  /\ row' = [f \in DOMAIN p \cup {"status"} |->
               IF f = "status" THEN InferredStatus(p.close, p.words, today) ELSE p[f]]
  /\ how' = "insert" /\ UNCHANGED today

\* _update_opportunity on the amount: a stored value stays; currency and raw
\* text are filled in when the incoming value is absent or the same.
MergedFundingOverwrites(old, p) ==
  [value |-> Either(p.value, old.value, NoValue), cur |-> Either(p.cur, old.cur, None),
   raw |-> Either(p.raw, old.raw, NoRaw)]   \* Mutant.

MergedFunding(old, p) ==
  LET adopt == p.value # NoValue /\ old.value = NoValue
      base == [value |-> IF adopt THEN p.value ELSE old.value,
               cur   |-> IF adopt THEN p.cur ELSE old.cur,
               raw   |-> IF p.raw # NoRaw /\ (adopt \/ old.raw = NoRaw) THEN p.raw ELSE old.raw]
      same == p.value = NoValue \/ p.value = base.value
  IN  [base EXCEPT !.cur = IF same THEN Either(@, p.cur, None) ELSE @,
                   !.raw = IF same THEN Either(@, p.raw, NoRaw) ELSE @]

MergedSummary(old, new) ==
  IF ~Thin(new) THEN new
  ELSE IF Thin(old) THEN Either(new, old, "") ELSE old

MergeRow(p) ==
  /\ Exists
  /\ LET money == MergedFunding(row, p)
         gap == Either(row.close, p.close, NoDate)
     IN  \E close \in IF gap # NoDate THEN {gap}
                      ELSE CloseDates(p.mentions \cup row.mentions, TRUE) :
           row' = [row EXCEPT !.summary = MergedSummary(@, p.summary), !.lists = p.lists,
                     !.value = money.value, !.cur = money.cur, !.raw = money.raw,
                     !.close = close, !.open = Either(@, p.open, NoDate),
                     !.words = p.words, !.mentions = p.mentions,
                     !.status = InferredStatus(close, p.words, today)]
  /\ how' = "merge" /\ UNCHANGED today

\* What reaches the store of the candidates, batched before or not.
Scraped ==
  {Columns(Enriched(IF batch THEN Batched(p, e) ELSE p, e)) :
     p \in Payloads, e \in Extractions, batch \in BOOLEAN}

\* Mutant: the analysis trusts the model over the stored amount.
ReanalyzedAmount(e, force) ==
  [row EXCEPT !.value = Either(e.value, @, NoValue), !.cur = Either(e.cur, @, None)]

\* reanalyze_opportunity: fills what is missing, with force replaces it; the
\* amount is only ever filled.
ReanalyzedRow(e, force) ==
  LET raw == IF force \/ row.raw = NoRaw
               THEN Clean(Either(e.raw, row.raw, NoRaw)) ELSE row.raw
      own == IF row.value = NoValue /\ e.value # NoValue
               THEN [value |-> e.value, cur |-> e.cur]
               ELSE [value |-> row.value, cur |-> row.cur]
      money == IF own.value = NoValue /\ raw # NoRaw /\ Parsed(raw, row.ctx).value # NoValue
                 THEN Parsed(raw, row.ctx) ELSE own
      close == IF e.close # NoDate /\ (force \/ row.close = NoDate) THEN e.close ELSE row.close
  IN  [row EXCEPT !.summary = IF force \/ @ = "" THEN Either(e.summary, @, "") ELSE @,
                  !.lists = TRUE, !.raw = raw, !.value = money.value, !.cur = money.cur,
                  !.close = close,
                  !.open = IF e.open # NoDate /\ (force \/ @ = NoDate) THEN e.open ELSE @]

\* With nothing missing and nothing new the status is not recomputed either.
Reanalyze(force) ==
  /\ Exists
  /\ \E e \in Extractions :
       LET new == ReanalyzedRow(e, force)
           changed == force \/ new # row \/ row.summary = "" \/ ~row.lists
       IN  row' = IF changed
                    THEN [new EXCEPT !.status = InferredStatus(new.close, new.words, today)]
                    ELSE row
  /\ how' = IF force THEN "forced" ELSE "reanalyze"
  /\ UNCHANGED today

\* PATCH /opportunities/{id}: the user's summary; the status is left alone.
PatchSummary ==
  /\ Exists
  /\ \E s \in {"thin", "real"} : row' = [row EXCEPT !.summary = s]
  /\ how' = "patch" /\ UNCHANGED today

\* The administrator's backfills: a deadline that the texts mention, an amount
\* that was stored as text only, a summary made of the raw text.
BackfillClose ==
  /\ Exists /\ row.close = NoDate
  /\ \E close \in CloseDates(row.mentions, FALSE) \ {NoDate} :
       row' = [row EXCEPT !.close = close, !.status = InferredStatus(close, row.words, today)]
  /\ how' = "backfill" /\ UNCHANGED today

BackfillFunding ==
  /\ Exists /\ row.raw # NoRaw /\ row.value = NoValue
  /\ LET money == Parsed(row.raw, "unknown") IN
       money.value # NoValue /\ row' = [row EXCEPT !.value = money.value, !.cur = money.cur]
  /\ how' = "backfill" /\ UNCHANGED today

SummarizeMissing ==
  /\ Exists /\ row.summary = ""
  /\ \E s \in {"thin", "short", "real"} : row' = [row EXCEPT !.summary = s]
  /\ how' = "backfill" /\ UNCHANGED today

NextDay == today < LastDay /\ today' = today + 1 /\ how' = "day" /\ UNCHANGED row

FieldsNext ==
  \/ \E p \in Scraped : InsertRow(p) \/ MergeRow(p)
  \/ \E force \in BOOLEAN : Reanalyze(force)
  \/ PatchSummary \/ BackfillClose \/ BackfillFunding \/ SummarizeMissing \/ NextDay

FieldsSpec == FieldsInit /\ [][FieldsNext]_fieldsVars

-----------------------------------------------------------------------------
(* Properties. *)

\* Type invariant of the row.
FieldsTypeOK ==
  /\ today \in 1 .. LastDay
  /\ Exists => /\ row.status \in {"open", "closing_soon", "closed", "unknown"}
               /\ row.summary \in {"", "thin", "short", "real"}
               /\ row.cur # None => row.cur \in {"COP", "USD", "EUR"}

\* A stored amount and its currency survive every merge, every analysis, the
\* forced ones included, and every backfill; and a merge never replaces a
\* substantive summary by a thin one (the list pages of two connectors carry
\* metadata only).
BestValuesStay ==
  [][/\ Exists /\ row.value # NoValue
       => /\ row'.value = row.value
          /\ row.cur # None => row'.cur = row.cur
     /\ how' = "merge" /\ ~Thin(row.summary) => ~Thin(row'.summary)]_fieldsVars
=============================================================================

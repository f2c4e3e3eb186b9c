------------------------------- MODULE Dashboard -------------------------------
(***************************************************************************)
(* What the dashboard shows and counts of the opportunities of one         *)
(* organisation, next to what its list of opportunities shows.  Each view  *)
(* has its own filter: some go by the hour, some by the day; some by the   *)
(* stored status, which is as old as the last scrape of the row.  Time is  *)
(* counted in ticks, DayTicks of them to the day.                          *)
(***************************************************************************)
EXTENDS Priorities, FiniteSets

CONSTANTS
  Entries,       \* names of the opportunities that may exist
  Posting,       \* [Entries -> what of each never changes here]
  Origin,        \* [sources -> their category tags]
  DayTicks,
  SoonTicks,      \* scraping_closing_soon_days
  WeekDays,       \* the 7 days of the triage
  MonthDays,      \* the 30 days of the pipeline
  LaneSize,          \* the 8 rows a lane shows
  LastTick        \* bound of the model: the clock stops here

NoClose == LastTick + 100    \* close_date NULL; it sorts last
NoScore == 101               \* no row of opportunity_scores
NoAmount == 0                \* funding_amount_value NULL
Tags == UNION {Origin[s] : s \in DOMAIN Origin}

ASSUME DashboardAssumption ==
  /\ DayTicks \in Nat \ {0} /\ SoonTicks \in Nat /\ LaneSize \in Nat /\ LastTick \in Nat
  /\ WeekDays \in Nat /\ MonthDays \in Nat /\ WeekDays <= MonthDays
  /\ IsFiniteSet(Entries) /\ IsFiniteSet(Tags)
  /\ \A e \in Entries :
       /\ Posting[e].close \in 0 .. NoClose /\ Posting[e].score \in 0 .. NoScore
       /\ Posting[e].amount \in Nat
       /\ Posting[e].source # "none" => Posting[e].source \in DOMAIN Origin

VARIABLES
  tick,      \* the clock of the server
  stored,    \* [Entries -> status column, or "absent"]
  mark       \* [Entries -> user_status]
dashVars == <<tick, stored, mark>>

-----------------------------------------------------------------------------
Midnight == (tick \div DayTicks) * DayTicks
OnFile == {e \in Entries : stored[e] # "absent"}
Owned == {e \in OnFile : Posting[e].owner = "us"}
Visible == {e \in OnFile : Posting[e].owner \in {"us", "global"}}
Undated(e) == Posting[e].close = NoClose
\* The noise filters of the queries look at the title only.
Titled(S) == {e \in S : Posting[e].noise # "title"}

(* The list: build_opportunity_query. *)

NotOverByHour(e) == Undated(e) \/ Posting[e].close > tick   \* Mutant: the hour decides.
NotOver(e) == Undated(e) \/ Posting[e].close >= Midnight

OfStatus(status) ==
  CASE status = "any" -> {e \in Visible : NotOver(e)}
    [] status = "open" ->
         {e \in Visible :
            /\ NotOver(e)
            /\ Undated(e) => stored[e] \in {"open", "closing_soon", "unknown"}}
    [] status = "closing_soon" -> {e \in Visible : stored[e] = status /\ NotOver(e)}
    [] status = "closed" -> {e \in Visible : stored[e] = status \/ ~NotOver(e)}
    [] OTHER -> {e \in Visible : stored[e] = status}

\* The query string include_no_url brings the rows without a link back.
ListOf(status, withoutUrl) ==
  {e \in Titled(OfStatus(status)) : withoutUrl \/ Posting[e].url}
Scored(S) == {e \in S : Posting[e].score # NoScore}
OfPriority(S, p) == {e \in Scored(S) : Priority(Posting[e].score) = p}
ListPriority(p) == OfPriority(ListOf("any", TRUE), p)

(* The lanes.  They show noise as well; a row that is shown has a date. *)

First(S) ==
  {e \in S : Cardinality({d \in S : Posting[d].close < Posting[e].close}) < LaneSize}
Between(S, from, upto) == {e \in S : ~Undated(e) /\ Posting[e].close \in from .. upto}

ReviewQueue ==
  First({e \in Owned : mark[e] \in {"review", "kept"} /\ ~Undated(e) /\ NotOver(e)})

ClosingSoon7d == First(Between(Visible, Midnight, tick + WeekDays * DayTicks))

ClosingSoon ==
  First(Between(Visible, Midnight, Midnight + (MonthDays + 1) * DayTicks - 1))

\* The best scores, without a look at the deadline.
TopScored ==
  LET scored == Scored(Visible)
  IN  {e \in scored :
         Cardinality({d \in scored : Posting[d].score > Posting[e].score}) < LaneSize}

(* The counts: _opportunity_scope goes by the hour. *)

KpiScope == {e \in Titled(Visible) : Undated(e) \/ Posting[e].close >= tick}
KpiHighMatch == OfPriority(KpiScope, "high")
StatusBreakdown == [s \in {stored[e] : e \in KpiScope} |-> {e \in KpiScope : stored[e] = s}]

\* No deadline on either side of the ratio.
Coverage ==
  [dated |-> {e \in Visible : ~Undated(e)},
   amount |-> {e \in Visible : Posting[e].amount # NoAmount \/ Posting[e].raw},
   source |-> {e \in Visible : Posting[e].source # "none"}]

(* The charts take every row in sight, over or noise. *)

\* What the bars of a chart add up to: a row counts once for each bar it is in.
Total(chart) ==
  Cardinality({p \in (DOMAIN chart) \X Entries : p[2] \in chart[p[1]]})
Band(x, cuts) == Cardinality({c \in cuts : x >= c})

ScoreDistribution ==
  [b \in 0 .. 3 |-> {e \in Scored(Visible) : Band(Posting[e].score, {25, 50, 75}) = b}]

\* In thousands.
FundingRanges ==
  [b \in 0 .. 4 |-> {e \in Visible : /\ Posting[e].amount # NoAmount
                                     /\ Band(Posting[e].amount, {100, 500, 1000, 5000}) = b}]

BySource(s) == {e \in Visible : Posting[e].source = s}
Contributors == {Posting[e].source : e \in Coverage.source}
SourceContribution ==
  [s \in {t \in Contributors : Cardinality({u \in Contributors :
            Cardinality(BySource(u)) > Cardinality(BySource(t))}) < 10} |-> BySource(s)]

\* Two tags of one source may have the same translation; its rows count twice.
Translated(tag) == IF tag \in {"health", "healthcare"} THEN "salud" ELSE tag
TagsOf(e) == Origin[Posting[e].source]
CategoryTotal(c) ==
  Cardinality({p \in Coverage.source \X Tags :
                 p[2] \in TagsOf(p[1]) /\ Translated(p[2]) = c})

\* The lane of the old summary: rows of the list, less what its second look at
\* their status, deadline and whole text calls invisible.
SummaryClosingSoon ==
  {e \in First(ListOf("closing_soon", TRUE)) :
     /\ Posting[e].noise = "none" /\ stored[e] # "closed"
     /\ Undated(e) \/ Posting[e].close + DayTicks >= tick}

-----------------------------------------------------------------------------
(* opportunity_status, and the words of an undated text. *)

StatusAt(e) ==
  IF Undated(e) THEN {"unknown", "open", "closed"}
  ELSE IF ~NotOver(e) THEN {"closed"}
  ELSE IF Posting[e].close <= tick + SoonTicks THEN {"closing_soon"} ELSE {"open"}

\* reconcile_deadline_status: an answer carries the status of its own hour.
ReadStatus(e) == StatusAt(e)

DashInit ==
  /\ tick = 0 /\ stored = [e \in Entries |-> "absent"]
  /\ mark = [e \in Entries |-> "review"]

Hour == tick < LastTick /\ tick' = tick + 1 /\ UNCHANGED <<stored, mark>>

\* A run meets the call, for the first time or again.
Scrape(e) ==
  /\ \E s \in StatusAt(e) : stored[e] # s /\ stored' = [stored EXCEPT ![e] = s]
  /\ UNCHANGED <<tick, mark>>

\* set_user_status; a row whose text is noise cannot be opened.  A mark on a global
\* row would be everybody's, and no queue would show it.
SetUserStatus(e) ==
  /\ e \in Owned /\ Posting[e].noise = "none"
  /\ \E k \in {"review", "kept", "discarded"} :
       mark[e] # k /\ mark' = [mark EXCEPT ![e] = k]
  /\ UNCHANGED <<tick, stored>>

DashNext == Hour \/ \E e \in Entries : Scrape(e) \/ SetUserStatus(e)

DashSpec == DashInit /\ [][DashNext]_dashVars

-----------------------------------------------------------------------------
(* Whatever the dashboard counts, the list shows to whoever asks it for the *)
(* same thing, rows without a link included; no list shows a dated row      *)
(* under a status its own answer contradicts; a row of a status is counted  *)
(* once; what is urgent this week is in the pipeline of the month, although *)
(* each shows only its first rows; a chart has a place for every row it is  *)
(* about, and agrees with the counts beside it.  The views compare the      *)
(* deadline with the hour, with midnight and with a status stored days ago, *)
(* and a score with two sets of thresholds.                                 *)
CountedIsListed ==
  /\ KpiScope \subseteq ListOf("any", TRUE)
  /\ KpiHighMatch \subseteq ListPriority("high")
  /\ \A s \in DOMAIN StatusBreakdown : StatusBreakdown[s] \subseteq ListOf(s, TRUE)
  /\ \A e \in ListOf("any", TRUE) \cup ListOf("open", TRUE) :
       ~Undated(e) => ReadStatus(e) # {"closed"}
  /\ \A e \in ListOf("closed", TRUE) : stored[e] # "closed" => ReadStatus(e) = {"closed"}
  /\ Total(StatusBreakdown) = Cardinality(KpiScope)
  /\ ClosingSoon7d \subseteq ClosingSoon
  /\ Titled(ReviewQueue) \subseteq ListOf("any", TRUE)
  /\ ClosingSoon \cap ListOf("closed", TRUE) = {}
  /\ ClosingSoon \subseteq Coverage.dated
  /\ (\E e \in TopScored : Priority(Posting[e].score) # "high")
       => KpiHighMatch \subseteq TopScored
  /\ SummaryClosingSoon =
       {e \in First(ListOf("closing_soon", TRUE)) : Posting[e].noise = "none"}
  /\ KpiHighMatch \subseteq ScoreDistribution[2] \cup ScoreDistribution[3]
  /\ Total(ScoreDistribution) = Cardinality(Scored(Visible))
  /\ Total(FundingRanges) <= Cardinality(Coverage.amount)
  /\ Total(SourceContribution) <= Cardinality(Coverage.source)
  /\ Cardinality(Contributors) <= 10
       => Total(SourceContribution) = Cardinality(Coverage.source)
  /\ \A e \in Coverage.source : \A t \in TagsOf(e) :
       CategoryTotal(Translated(t)) >= Cardinality(BySource(Posting[e].source))

\* "Charts reuse this exact scope so their totals add up to the KPI total".  Only
\* those of status and country do: the scores are of every row in sight, the
\* matches of rows that are not over.
ChartsAddUp == Total(ScoreDistribution) <= Cardinality(KpiScope)
================================================================================

----------------------------- MODULE ScrapePipeline -----------------------------
(***************************************************************************)
(* The inside of one scrape: fetch and parse of the listing, the passes    *)
(* that fill the gaps of its candidates from their detail pages, the       *)
(* filters and the persist loop with its cap.  Runs of one source follow   *)
(* each other (ScrapeRuns shows that they do not overlap); between them    *)
(* live the fingerprint and the connector's own state in the source row.   *)
(***************************************************************************)
EXTENDS Naturals, Sequences, SequencesExt, FiniteSets

CONSTANTS
  Urls,         \* calls and tenders, each with a page of its own
  Shown,        \* per URL: which of the fields the listing itself shows
  Slugless,     \* sitemap entries whose URL carries no title
  Kinds,        \* of the connector: "plain", "deep", "pilot", "grants", "tenders"
  Outcomes,     \* what a visit of a page yields: Failed, or the fields found on it
  DeepCap,      \* extraction_detail_limit
  WindowCap,    \* DETAIL_ENRICHMENT_MAX_FETCHES_PER_RUN
  XhrCap,       \* GRANTS_GOV_DETAIL_XHR_CAP
  RenderCap,    \* GRANTS_GOV_RENDER_LLM_CAP and DEVELOPMENTAID_RENDER_CAP
  TenderCap,    \* MAX_DETAIL_PAGES
  PersistCap    \* PERSIST_MAX_ITEMS_PER_RUN

ASSUME CapsAssumption ==
  {DeepCap, WindowCap, XhrCap, RenderCap, TenderCap, PersistCap} \subseteq Nat

VARIABLES
  kind,         \* the connector of the source
  site,         \* what the site lists, and a bit for the rest of the page
  saved,        \* the committed row of the source: fingerprint, processed_urls
  at,           \* where the run is
  marked,       \* processed_urls as the session of the run has them
  cands,        \* the candidates, in the order of the page
  ahead,        \* URLs still to visit, or items still to persist
  pages,        \* what the current pass has read, in the order of its targets
  tally,        \* the counts in the statistics and logs of the run
  asked         \* history: the details that some batch asked for

runVars == <<at, marked, cands, ahead, pages, tally>>
pipeVars == <<kind, site, saved, runVars, asked>>

-----------------------------------------------------------------------------
(* Fields.  A value says where it was read and for which URL, a text has a   *)
(* length too.  "dates" stands for the two dates, "funding" for raw text,    *)
(* value and currency of the amount.                                         *)

Blank == <<>>
Failed == {"failed"}
Gaps == {"dates", "funding"}

Card(url) == [url |-> url, text |-> <<url, 1>>,
              vals |-> [f \in Gaps |-> IF f \in Shown[url] THEN <<"listing", url>> ELSE Blank]]

\* apply_extracted_fields: gaps are filled, and a longer text replaces a shorter
\* one when the pass prefers the text of the page.
Apply(c, p, prefer) ==
  [c EXCEPT !.vals = [f \in Gaps |-> IF @[f] = Blank /\ f \in p.got THEN <<"page", p.url>>
                                     ELSE @[f]],
            !.text = IF prefer /\ "long" \in p.got /\ @[2] < 2 THEN <<p.url, 2>> ELSE @]

\* The elements of s at the places of a set, in their order: a set of one sequence.
Ordered(places) ==
  {q \in [1 .. Cardinality(places) -> places] : \A j, k \in DOMAIN q : j < k => q[j] < q[k]}
Picked(s, places) == {[j \in DOMAIN q |-> s[q[j]]] : q \in Ordered(places)}

Unfunded(c) == c.vals["funding"] = Blank
Missing(c) == \E f \in Gaps : c.vals[f] = Blank
FirstOf(s, n) == SubSeq(s, 1, IF Len(s) < n THEN Len(s) ELSE n)
UrlsOf(cs) == [i \in DOMAIN cs |-> cs[i].url]

\* One result per target of a gather, in the order of the targets.
Gathered(targets) ==
  {[i \in DOMAIN targets |-> [url |-> targets[i].url, got |-> g[i]]] :
     g \in [DOMAIN targets -> Outcomes]}

\* Mutant: results are paired with the candidates by place.
MergedByPlace(found, prefer) ==
  [i \in DOMAIN cands |->
     IF i \in DOMAIN found /\ found[i].got # Failed THEN Apply(cands[i], found[i], prefer)
     ELSE cands[i]]

\* The results go back to their candidates by URL; the others pass unchanged.
Merged(found, prefer) ==
  [i \in DOMAIN cands |->
     LET mine == {k \in DOMAIN found : found[k].url = cands[i].url /\ found[k].got # Failed}
     IN  IF mine = {} THEN cands[i] ELSE Apply(cands[i], found[CHOOSE k \in mine : TRUE], prefer)]

-----------------------------------------------------------------------------
(* The run. *)

NoTally == [parsed |-> 0, noise |-> 0, invalid |-> 0, stored |-> 0, failed |-> 0,
            skipped |-> 0]

\* The transaction of the run is over: what its session wrote to the source row.
EndRun(hash, processed) ==
  /\ saved' = [hash |-> hash, processed |-> processed]
  /\ at' = "idle" /\ cands' = <<>> /\ ahead' = <<>> /\ pages' = <<>>
  /\ marked' = {} /\ tally' = NoTally /\ UNCHANGED <<kind, site, asked>>

\* What parse makes of the page.  The tenders connector leaves out what it has
\* processed and caps the rest; an entry without a slug takes a place under
\* the cap and gives nothing.
WithSlug(list) == Picked(list, {i \in DOMAIN list : list[i] \notin Slugless})
Unprocessed(list) == Picked(list, {i \in DOMAIN list : list[i] \notin saved.processed})
Listings(list) ==
  IF kind = "tenders" THEN UNION {WithSlug(FirstOf(new, TenderCap)) : new \in Unprocessed(list)}
  ELSE {list}

\* fetch and parse, unless the page is the one of the last run that got here;
\* grants sources fall back to the search page when the first one gave nothing.
FetchListing ==
  /\ at = "idle" /\ saved.hash # <<site>>
  /\ \E list \in IF kind = "grants" /\ site.list = <<>>
                   THEN {<<>>} \cup {<<u>> : u \in Urls} ELSE {site.list} :
     \E found \in Listings(list) :
       /\ cands' = [i \in DOMAIN found |-> Card(found[i])]
       /\ tally' = [NoTally EXCEPT !.parsed = Len(found)]
       /\ marked' = IF kind = "tenders" THEN ToSet(found) ELSE {}
  /\ at' = IF kind = "deep" THEN "deep" ELSE "enrich"
  /\ UNCHANGED <<kind, site, saved, ahead, pages, asked>>

\* _deep_fetch_candidates, inside parse: every card of a configured listing is
\* below the confidence that would spare it.
DeepFetch ==
  /\ at = "deep" /\ at' = "enrich"
  /\ \E found \in Gathered(FirstOf(cands, DeepCap)) : cands' = Merged(found, TRUE)
  /\ UNCHANGED <<kind, site, saved, marked, ahead, pages, tally, asked>>

LackingDetails == SelectSeq(cands, Missing)
LackingFunds == SelectSeq(cands, Unfunded)

\* enrich_pilot_candidates: which passes the candidates go through.
Enrich ==
  /\ at = "enrich"
  /\ LET missing == LackingDetails
     IN  CASE kind = "plain" \/ missing = <<>> -> at' = "filter" /\ UNCHANGED ahead
           [] kind = "tenders" /\ missing # <<>> -> at' = "render" /\ UNCHANGED ahead
           [] OTHER -> /\ at' = "batch"
                       /\ ahead' = UrlsOf(FirstOf(FirstOf(missing, WindowCap), DeepCap))
  /\ UNCHANGED <<kind, site, saved, marked, cands, pages, tally, asked>>

\* enrich_candidates_batch walks its window one page after the other ...
FetchDetail ==
  /\ at = "batch" /\ ahead # <<>>
  /\ \E got \in Outcomes : pages' = Append(pages, [url |-> Head(ahead), got |-> got])
  /\ ahead' = Tail(ahead) /\ asked' = asked \cup {Head(ahead)}
  /\ UNCHANGED <<kind, site, saved, at, marked, cands, tally>>

\* ... and keeps what it has when the window or its 120 seconds are over.
CloseBatch ==
  /\ at = "batch" /\ at' = IF kind = "grants" THEN "xhr" ELSE "filter"
  /\ cands' = Merged(pages, TRUE) /\ pages' = <<>> /\ ahead' = <<>>
  /\ UNCHANGED <<kind, site, saved, marked, tally, asked>>

\* enrich_grants_gov_funding_xhr: awards only, and no text.
FundingXhr ==
  /\ at = "xhr" /\ at' = "render"
  /\ \E found \in Gathered(FirstOf(LackingFunds, XhrCap)) :
       /\ \A i \in DOMAIN found : found[i].got \in {Failed, {"funding"}}
       /\ cands' = Merged(found, FALSE)
  /\ UNCHANGED <<kind, site, saved, marked, ahead, pages, tally, asked>>

\* enrich_grants_gov_render_llm, enrich_developmentaid_render: what the rendered
\* page shows, and for grants what the model adds to it.
Render ==
  /\ at = "render" /\ at' = "filter"
  /\ LET lacking == IF kind = "grants" THEN LackingFunds ELSE LackingDetails
     IN  \E found \in Gathered(FirstOf(lacking, RenderCap)) : cands' = Merged(found, TRUE)
  /\ UNCHANGED <<kind, site, saved, marked, ahead, pages, tally, asked>>

\* The rest of _scrape_candidates: each candidate is filled from its own text,
\* then dropped as noise, dropped as invalid, or kept, closed ones included.
\* The persist loop takes the first of those it keeps.
Filter ==
  /\ at = "filter" /\ at' = "persist"
  /\ \E verdict \in [DOMAIN cands -> {"kept", "noise", "invalid"}], own \in SUBSET Gaps :
       LET Of(v) == {i \in DOMAIN cands : verdict[i] = v}
       IN  \E kept \in Picked(UrlsOf(cands), Of("kept")) :
           /\ cands' = [i \in DOMAIN cands |->
                          Apply(cands[i], [url |-> cands[i].url, got |-> own], FALSE)]
           /\ ahead' = FirstOf(kept, PersistCap)
           /\ tally' = [tally EXCEPT !.noise = Cardinality(Of("noise")),
                                     !.invalid = Cardinality(Of("invalid")),
                                     !.skipped = Len(kept) - Len(ahead')]
  /\ UNCHANGED <<kind, site, saved, marked, pages, asked>>

PersistItem ==
  /\ at = "persist" /\ ahead # <<>> /\ ahead' = Tail(ahead)
  /\ \E how \in {"stored", "failed"} : tally' = [tally EXCEPT ![how] = @ + 1]
  /\ UNCHANGED <<kind, site, saved, at, marked, cands, pages, asked>>

\* Mutant: the count of the time budget replaces that of the cap.
PersistEndsAnew ==
  /\ at = "persist" /\ at' = "done" /\ ahead' = <<>>
  /\ tally' = [tally EXCEPT !.skipped = IF ahead = <<>> THEN @ ELSE Len(ahead)]
  /\ UNCHANGED <<kind, site, saved, marked, cands, pages, asked>>

\* The loop is through, or its deadline is near.
PersistEnds ==
  /\ at = "persist" /\ at' = "done" /\ ahead' = <<>>
  /\ tally' = [tally EXCEPT !.skipped = @ + Len(ahead)]
  /\ UNCHANGED <<kind, site, saved, marked, cands, pages, asked>>

CommitRun == at = "done" /\ EndRun(<<site>>, saved.processed \cup marked)

\* A timeout of the source or an error: the caller commits the failed run, and
\* with it what the session had written to the source row by then.
RunFails ==
  /\ at \notin {"idle", "done"}
  /\ EndRun(IF at = "persist" THEN <<site>> ELSE saved.hash, saved.processed \cup marked)

\* A cancellation reaches the caller, which rolls back.
RunCancelled == at # "idle" /\ EndRun(saved.hash, saved.processed)

\* The site, between two runs: a run reads its page once.
Publish ==
  /\ at = "idle"
  /\ \E u \in Urls \ ToSet(site.list) : site' = [site EXCEPT !.list = <<u>> \o @]
  /\ UNCHANGED <<kind, saved, runVars, asked>>

Touch ==
  /\ at = "idle" /\ site' = [site EXCEPT !.rest = ~@]
  /\ UNCHANGED <<kind, saved, runVars, asked>>

PipelineInit ==
  /\ kind \in Kinds /\ site = [list |-> <<>>, rest |-> FALSE]
  /\ saved = [hash |-> <<>>, processed |-> {}] /\ asked = {}
  /\ at = "idle" /\ cands = <<>> /\ ahead = <<>> /\ pages = <<>>
  /\ marked = {} /\ tally = NoTally

\* The pipeline at rest, for a behaviour of another component.
NoPipeline ==
  /\ kind = CHOOSE k \in Kinds : TRUE
  /\ site = [list |-> <<>>, rest |-> FALSE]
  /\ saved = [hash |-> <<>>, processed |-> {}] /\ asked = {}
  /\ at = "idle" /\ cands = <<>> /\ ahead = <<>> /\ pages = <<>>
  /\ marked = {} /\ tally = NoTally

Work ==
  \/ FetchListing \/ DeepFetch \/ Enrich \/ FetchDetail \/ CloseBatch \/ FundingXhr
  \/ Render \/ Filter \/ PersistItem \/ PersistEnds \/ CommitRun

PipelineNext == Work \/ RunFails \/ RunCancelled \/ Publish \/ Touch

PipelineSpec == PipelineInit /\ [][PipelineNext]_pipeVars

-----------------------------------------------------------------------------
(* Properties. *)

\* No pass undoes what an earlier one or the listing knew: within a run the
\* candidates keep their order, their fields and the length of their text, and
\* what is new in one was read from its own page.  Every pass promises this
\* ("order and count are preserved", "gap-fill only").
GapFillOnly ==
  [][at # "idle" /\ at' # "idle" =>
       /\ UrlsOf(cands') = UrlsOf(cands)
       /\ \A i \in DOMAIN cands :
            /\ cands'[i].text[2] >= cands[i].text[2]
            /\ cands'[i].text[1] = cands[i].url
            /\ \A f \in Gaps :
                 IF cands[i].vals[f] # Blank THEN cands'[i].vals[f] = cands[i].vals[f]
                 ELSE cands'[i].vals[f] \in {Blank, <<"page", cands[i].url>>}]_pipeVars

\* "Every discarded candidate is recorded": the statistics and the logs of a run
\* that ends account for each candidate it parsed, whichever filter, cap,
\* failure or deadline kept it from the store.
Accounted ==
  at = "done" =>
    tally.parsed = tally.noise + tally.invalid + tally.stored + tally.failed + tally.skipped

\* DETAIL_ENRICHMENT_MAX_FETCHES_PER_RUN: "detail coverage progresses run by
\* run", skipped pages "are retried on later runs".  If runs keep walking their
\* window to its end, and keep ending, the page of each listed call that lacks a
\* field is asked for in the end.
DetailsProgress ==
  []<>(at = "batch" /\ ahead = <<>>) /\ []<>(at = "done") =>
    \A u \in Urls : u \in ToSet(site.list) /\ Shown[u] # Gaps ~> u \in asked
=============================================================================

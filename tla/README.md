# ConvocaRadar-IA: a TLA+ model of the back end

ConvocaRadar watches the pages of funding agencies, extracts calls
("convocatorias"), stores them without duplicates, scores them and sends alerts.
The program is a FastAPI service and a worker process over one PostgreSQL
database (`src/apps/api`), with a web client (`src/apps/web`). Its hard part is
not only the parsing but what many sessions, threads and processes do to the
same few rows: a source is scraped by the sweep of the worker, by the threads of
a "run all" request and by single requests, each run is one long transaction,
and timeouts, cancellations and recoveries may end it at any point; and around
the rows live caches, quotas, mail, files and charts that must agree with them.

Paths below are relative to `src/apps/api/app/`.

## 1. Inventory

| Component | State | Operations | Interacts through |
|---|---|---|---|
| Scrape run: `scraper/dispatcher.py`, `scraper/runner.py`, `scraper/recovery.py`, `db/session.py` | `sources` row (pause flag, two counters, fingerprint, `last_run_at`), `source_runs`, `tasks`, the SQLAlchemy session, a transaction advisory lock and a row lock per source | load, re-activate, lock, set up, scrape, persist, finalise, error handler, commit or rollback by the caller | PostgreSQL rows and locks; cancellation by the caller |
| Periodic sweep: `main.py`, `worker.py` | `last_digest_at`, `last_nightly_date` in memory; the main session; slots of one event loop | recovery, re-activation, alerts, scoring, due filter, slots, digest, nightly pass | rows; scrape runs; alerts; embeddings |
| Source requests: `api/v1/sources.py`, `api/v1/tasks.py` | `tasks` row of a sweep; a daemon thread with a pool of futures | POST run, POST run-all, progress writes, verdict, stale marking, archive, edit, claim | rows; scrape runs; recovery in another process |
| Scheduling: `services/connectors.py`, `scraper/priority_queue.py` | next run per source, back-off, queue with deferred domains, two semaphores | due filter, ordering, deferral | sweep |
| Connectors: `connectors/*` | what a run has read so far; the memory a connector keeps in `sources.config` | walk of a listing, passes over the detail pages, fallbacks | domain budget; the site |
| Domain budget: `scraper/domain_budget.py`, with the fetches of `connectors/common.py` | per host: slots, time of the last request, count and window; a slot key for the browser | `acquire`, `release`, `delay_for`, `handle_429`, `record_request`; fetch of text, of bytes, render of a page | all threads that scrape |
| Opportunity store: `services/opportunity.py`, `services/dedup.py`, `services/validation.py` | `opportunities` rows with favourites, scores, alerts, documents and embeddings; a process-wide cache of external ids | normalise, find duplicate, insert or update, merge of duplicates, reanalysis | runs of different sources, users, administrators |
| Alerts: `services/alerts.py`, `api/v1/alerts.py`, `core/email.py` | `alerts` rows (pending, paused, sent, failed) | create, generate, edit, send, deliver, delete | sweep, requests, mail provider |
| AI gateway: `core/ai_gateway.py`, `core/ai.py`, `services/embeddings.py` | quota per day, cache per text and model, provider chain; caches of extractions | embed, complete, extract with retries and a local fallback | worker, requests, threads |
| Scoring and matching: `services/scoring.py`, `services/matching.py`, `core/sectors.py`, `src/scripts/backfill_sector.py` | `opportunity_scores` rows, sector columns | score, score in batches, classify, backfill | five writers of the same rows |
| Rate limiter and accounts: `core/rate_limit.py`, `core/security.py`, `api/v1/auth.py`, `api/deps.py` | sliding window per key with LRU eviction; users; signed tokens | admit or reject, register, log in, change and reset a password | every request |
| Read APIs: `api/v1/opportunities.py`, `api/v1/dashboard.py`, `api/v1/reports.py` and their services | user status, documents, report artefacts, a 60 s cache of the health lane | lists, lanes, counts, charts, uploads, downloads | rows; object storage |
| Administration: `api/v1/admin.py`, `db/seed.py`, `db/backfill_close_dates.py` and others | the catalog of sources, faculty profiles | seed, claim, backfill, deduplicate | every start of the api |
| Source audit: `audit/*` | none of its own | eight checks on the history, a live probe | rows; the site |
| Infrastructure: `core/http_client.py`, `core/storage.py`, `core/config.py`, `core/metrics.py` | HTTP clients per thread and loop; files | get, close; put, get, delete | everything |
| Quarantine, DOM monitor, errors, probe | fingerprint column, error classes | compare, classify | runner |
| Web client | - | - | - |

What makes each correct, and what is hard about it:

* **Scrape run.** A source must not be scraped twice at once; a run must be
  recorded whole or leave no trace; a source is paused after five runs without
  items and never stays paused; what is skipped as "unchanged" must already be
  stored. Hard: three kinds of session with different locking; waits for row
  locks inside a single-threaded event loop; stale copies of a row; transactions
  aborted in the middle of a loop that goes on.
* **Inside of a scrape.** Passes only fill gaps and never mix up two candidates;
  every candidate that was parsed is accounted for; what is left out in one run
  is reached in a later one. Hard: concurrent pages, caps, merges, deadlines.
* **Run-all sweep.** The task row must say what happened, and must end closed.
  Hard: progress writes that get lost, deadlines while futures complete,
  restarts, and a recovery that runs in another process without a lock.
* **Scheduling.** Every source is run again and again; the forced pass of the
  night comes once. Hard: memory lost in a restart, jobs that hold one semaphore
  and wait for another, sources dropped with their queue.
* **Fetches.** No slot may leak and no host be asked more often than configured.
  Hard: a check, a sleep and an acquisition in separate steps in many threads;
  errors and cancellations at every await.
* **Opportunity store.** One row per call, whichever sources report it; merges
  keep what users attached; a good value is not replaced by a worse one. Hard:
  check-then-insert between transactions that cannot see each other.
* **Alerts.** No e-mail twice without a cause, none forgotten. Hard: mail is sent
  before the commit that records it.
* **AI gateway.** The quota is respected up to what was in flight, vectors are
  labelled with their model, caches stay evictable. Hard: check before an await,
  record after it; fallback between providers; dictionaries shared by threads.
* **Accounts.** Sessions end with the password they began with; a client over the
  limit stays rejected for its window. Hard: a login that overlaps a change;
  eviction of a key that is being limited.
* **Views.** What is counted is listed, what is cached is fresh. Hard: a dozen
  filters that compare the same rows by the hour, the day and a stored status.
* **Catalog.** A start of the api does not undo what a tenant edited. Hard: the
  seeding of several processes between edits.

`PROJECT.json` lists each of these hazards at its line with the properties that
cover it.

## 2. Modules

| Module | What it is |
|---|---|
| `ScrapeRuns` | sessions, locks and rows of scrape runs |
| `RunLease` | abstract specification: what a run promises (implemented by `ScrapeRuns`) |
| `ScrapePipeline` | the inside of one run: passes over candidates, filters, persist loop |
| `ListingWalk` | how each registered connector walks its listing |
| `FetchBudget` | the shared budget of hosts and browser, with the fetches that use it |
| `HttpClients` | the HTTP clients of threads and event loops |
| `SweepTask` | the task row of a run-all sweep, its thread, futures, restarts, recovery |
| `SweepSchedule` | the rounds of the scheduler: due filter, nightly pass, semaphores |
| `AlertQueue` | alerts between the scheduler's main session and the requests |
| `OpportunityStore` | the table of opportunities under runs, users and administrators |
| `OpportunityFields` | the columns of one row over scrapes, analyses, edits and days |
| `EmbeddingGateway` | chain of providers, cache, quota, rows of a batch |
| `Extraction` | extraction by the language model, with its unlocked cache |
| `Sectors` | classification by sector and its backfill |
| `Priorities`, `Scoring` | thresholds, arithmetic and writers of the scores |
| `Access` | limiter, accounts and tokens |
| `Artifacts` | files of documents and reports, and the rows that point to them |
| `Dashboard` | filters, lanes, counts and charts over the same rows |
| `HealthCache` | the cached payload of the health lane |
| `SourceCatalog` | who owns the catalog of sources, between boots, claims and edits |
| `SourceAudit`, `LiveProbe` | verdict on the history of a source; the probe of its address |
| `MCScrapeRuns`, `MCFetchBudget`, `MCOpportunityStore` | model values and symmetry for TLC |
| `MCSweepTask`, `MCParts` | model values, and the sum of several components in one run |
| `ScrapeRunsProofs`, `SweepTaskProofs`, `FetchBudgetProofs`, `OpportunityStoreProofs` | theorems on the module of that name |
| `WorkerProofs` | theorems on `SweepSchedule` and `AlertQueue` |
| `ProcessProofs` | theorems on `Access`, `Extraction`, `HealthCache`, `HttpClients` and `EmbeddingGateway` |
| `ScrapingProofs` | theorems on `ScrapePipeline`, `ListingWalk`, `SourceAudit` and `LiveProbe` |
| `RecordProofs` | theorems on `Artifacts`, `OpportunityFields`, `Scoring`, `SourceCatalog`, `Dashboard` and `Sectors` |

How they fit. `ScrapeRuns` treats what a run finds as one Boolean; `ScrapePipeline`
opens that box, `ListingWalk` the fetch inside it, and `FetchBudget` a single
request of that fetch. `OpportunityStore` is the other half of the transaction of
`ScrapeRuns`, `OpportunityFields` one row of it over time. `SweepSchedule` says
which runs begin, `SweepTask` does the same for a request. Between these levels
what passes is small (a source, a list of candidates, an outcome), so that each is
checked against everything its neighbour may hand it rather than in one product
too large to explore.

### ScrapeRuns

State: `src` holds the committed columns of `sources` that steer runs
(`auto_paused`, `consecutive_empty_runs`, `selector_failures`, `dom_hash`),
`age` the time since the committed `last_run_at`, `log` what queries on
`source_runs` can tell, `advLock` and `rowLock` the two PostgreSQL locks, and
`txn` one record per session: where it is (`pc`), its ORM object (`mem`) and the
row version its transaction will commit (`draft`). `page` is what the site
serves, `stored` the pages whose items are all committed.

The four kinds of session differ where the code does: slots of the sweep
(`_run_one`) and run-all threads (`_run_source_via_dispatcher`) go through
`dispatcher.run_source` and take the advisory lock; a request
(`POST /sources/{id}/run`) checks the pause flag and open runs and calls the
runner without it; the main session of the sweep re-activates paused sources.
The differences that matter are kept: the dispatcher re-activates at or past the
cooldown and the main session strictly past it; a slot that is refused rolls
back but run-all commits, with the re-activation still in memory (`RunAllSkip`,
`CommitRevival`); a request past the cooldown is admitted without re-activation.

The database is modelled by what SQLAlchemy and PostgreSQL do under READ
COMMITTED: other sessions see only committed values; the first UPDATE (the flush
in `_setup_run`) takes the row lock until the end of the transaction; a flush
writes only columns that differ from the loaded value (`Written`), so a stale
copy overwrites a newer value exactly when it changed the column; a failed
statement aborts the transaction and frees its locks while the loop of
`_persist_opportunities` continues (`Poison`, `PoisonRaises`). A wait for a row
ends after `lock_timeout`.

Two things follow and shape the rest. A run is one transaction, so its row with
status `running` is never visible to anyone (`NoOpenRun`): every check for a run
in progress, `_fail_hung_source_runs` and the `SourceRun` half of the recovery
see nothing. And the row lock, not a check, is what keeps a request apart from
the sweep.

Abstracted: candidates, items, cap and quarantine are the Boolean "all items of
the page are stored"; the due filter, enabled flag and semaphores decide only
whether a session starts; loading the row and testing the pause flag are one
step; the main session handles one source per transaction; there is one
scheduler process, as deployed. Statuses of one class share one name (a timeout
is `degraded`).

### RunLease

A run belongs to one worker from start to end, and ends recorded with an outcome
or dropped without a trace; nothing else changes the record. `ScrapeRuns`
implements it with the row lock as the lease and the status of the newest
committed run as the record. `FairSpec` adds that each run ends.

### ScrapePipeline and ListingWalk

`ScrapePipeline` keeps the candidates of a run as a sequence of records: URL, the
fields that are filled and from where, the length of the text. Fetch and parse
are followed by the passes the kind of connector has (deep fetch, the concurrent
batch over the window of missing details, the XHR pass of grants.gov, rendering
with the language model, the tenders of DevelopmentAid), then noise filter,
validation, the persist loop with its cap, its failures and its deadline, and the
tally of the run. Between runs live the fingerprint and the connector's own state.
What a page yields is an outcome from a small set: failed, or the fields found.

`ListingWalk` describes a connector by a record of the decisions in which the
registered ones differ (addresses or pages, when to go on, what a failed or an
empty answer does, fallbacks, caps, memory of hashes); the forty-odd connectors
fall into some thirty such policies, all of which the run picks from. Addresses of one list
(pages tried in turn until one answers) list the same calls (`Alike`); categories,
origins and the sitemaps of an index each list their own (`Homes`), so that an address
that is skipped loses what only it has. Findeter is three of the policies, by what its
address serves: a page of links, a sitemap, or an index of which three sitemaps are read
until ten calls are found. Calls come and go at the front of the listing between two
requests.

### FetchBudget

State: `slots`, `burst` and the age of the window as in the manager; `wait`, the
time until the configured delay has passed since the last acquisition (the code
keeps the time of the acquisition); `fetch`, where each fetch is. Each method of
the manager is atomic under its lock except `acquire`, whose cap check takes the
lock by itself (`CheckCap`, `TakeSlot`). The fetches of run-all run in threads,
so the steps of different fetches interleave even where there is no await.
Configuration lookup is abstracted to the functions `MaxConcurrent` and `Delay`;
`record_request`'s write of the last time is left out because it follows an
`acquire` that already set it; `clear` is for tests. A text fetch keeps its host's
slot while it waits for the browser; leaving gives back both in one step (two
nested finally blocks without an await between them).

### HttpClients

One synchronous client under a double-checked lock, the asynchronous singleton of
the loop that asked first, and a dictionary of clients for other loops, keyed by
the address of the loop, which is given out again when a loop is gone. Threads open
loops, ask, use and close; each assignment of a first call is a step.

### SweepTask

State: `task`, the committed row; `thread`, the local variables of
`_background_sweep` and its progress write in flight; `fut`, the future of each
source; `api`, whether the process is up. A progress write is two steps, because
`_update_sweep_task` reads the row, assigns columns and commits, and others write
the row in between; the status is in the UPDATE only when it differs from what
was read, so a write that carries no change of status leaves a row failed by the
recovery as it is, while one that does reopens it. `LoseWrite` is the except
branch that logs and goes on. `Crash` and `Boot` belong to the api process;
`Recover` is a round of the worker (the compose file runs the scheduler in a
container of its own and disables it in the api). A sweep counts a run that was
skipped, or that failed without an exception, as processed: `ok` stands for both.

There is one row: sweeps share no row, and run-all refuses no second sweep.

### SweepSchedule

The rounds of `_run_periodic_source_sweep`: a round takes the sources that are due
by cadence, back-off and jitter, or all of them once a night, orders them by tier,
leaves out delayed domains and passes the two semaphores, a job holding the global
one while it waits for that of its tier. `night` is `last_nightly_date`, lost in a
restart; `passes` counts forced rounds and restarts of a day. What a run does to
its row is left to `ScrapeRuns`: here it leaves a date and a count of empty runs.

### AlertQueue

`alert` is the committed row, `mails` counts what went out, `loop` is the main
session (page still to send, marks in memory), `held` the rows its flush has locked.
`send_pending_alerts` e-mails the oldest pending rows one by one, flushes once and
commits later, after the scoring of the round; a crash or a failed flush in between
loses the marks (`LoseRound`) and counts as a cause (`excuses`) of the next e-mail.
Requests edit, send, delete, create and generate; a write waits for the locks of the
round and writes only the columns that changed against what was read.

### OpportunityStore and OpportunityFields

`OpportunityStore` has three kinds of transaction. Runs persist one candidate after
the other: five lookups, each over what is committed and what the run has flushed,
then an update or an insert whose flush takes the locks of every row changed since
the last one. A flush blocks the event loop. Users add favourites, scores, matches,
alerts; administrators merge duplicates (`dedup.py`), whose survivor takes over what
hangs from the others. The HEAD check of a URL, the process-wide cache of ids and
the scope of an organisation are part of it.

`OpportunityFields` follows the columns of one row: insertion, merges of poorer and
richer candidates, analyses by the model or the heuristics, forced ones, the
administrator's backfills, edits, and the passing of days with the stored status
and the status shown. Texts are reduced to what the code tests (empty, thin, real).

### EmbeddingGateway and Extraction

The gateway's chain with quota check, cache lookup, await and record as separate
steps, and the batches that store vectors with one `model_version` for all rows.
`Extraction` is the call with its retries on 429, the local fallback, and the two
caches of `core/ai.py` and the faculties: a dictionary and a list of keys beside it,
changed without a lock by threads, so that every operation on either is a step.

### Sectors, Priorities and Scoring

`Sectors` is the three-layer classification (rules, vectors, judge) and the backfill
script: batches, commits that fail, rows that vanish, runs that overlap. Confidence
is one of four levels. `Scoring` has the points of a score as arithmetic and the
sessions that store them: look for the row, change or add, flush, where the unique
constraint lets one row per call in. `Priorities` are the thresholds it shares with
`Dashboard`.

### Access and Artifacts

`Access` has the sliding window with its eviction, accounts, and tokens that are
judged by their claims and by the second of the last password change. `doing` holds what
each of several requests has read, on any address, and nothing keeps two of them on one
account apart: a login reads the row and mints later, a change commits in between, and
so does another change that was admitted with the same token. For the property only, an
account keeps the seconds of its passwords and a token the password it was earned with.
`Artifacts` writes file and row
one after the other and may stop between them; equal uploads share a key, the key of
a report carries the day.

### Dashboard and HealthCache

`Dashboard` translates the filters of the list, the lanes, the counts and the charts
over one set of rows, each with its own idea of a deadline (the hour, midnight, or
the status a scrape stored days ago). Lane lengths and day widths are parameters.
`HealthCache` is `GET /dashboard/health`: queries and optional charts one after the
other, a stamp taken before them, a store after them, several requests at a time.

### SourceCatalog, SourceAudit and LiveProbe

`SourceCatalog` is the seeding that starts of the api, registrations and two endpoints
share, with its lookups, unflushed inserts and commit, between edits of tenants and runs,
which keep their state in `connector_config`, a column that a start overwrites.
`SourceAudit` is the eight checks of `audit/history.py` with the verdict, next to the
health the dashboard computes from the same runs. `LiveProbe` is one GET with its
redirects under the scope rules (registrable domains, shared tenants, owner pairs)
and the budget. The list of suffixes in the code is short; which suffixes there really
are is a constant of its own (`PublicSuffixes`), and where the list lacks one, or holds
one that is itself a host, `Mixed` names the zone in which the code takes several owners
for one.

## 3. Runs

All bounds are in the `.cfg` files; `expect` and the properties of each run are in
`PROJECT.json`.

| Run | Question | Instance |
|---|---|---|
| `ScrapeOverlap` | can two transactions that can both commit scrape one source, can slots of one loop wait for each other, is a live run's row changed by others, does every step keep `RunLease`? | two slots, a request and the main session, pause after one empty run |
| `ScrapeSequential` | do counters, pause flag and run history agree, does every pause end? | a slot and the main session, threshold 5, two pages |
| `ScrapeSessionsEnd` | does every session end, and every run? | a slot, a run-all thread and a request |
| `SweepRow` | is the task row truthful, can a restart always release it, does every sweep end closed for good; is no source starved and the night forced once; is no alert mailed twice without a cause, and none left pending? | three sources and two workers; two scheduled sources; up to three alerts and two requests |
| `FetchSlots` | do slots leak, how far is the cap overshot, does every fetch end? | three fetches, one host with two slots, cap 2 |
| `StoreRuns` | are external ids unique per source, do runs stay in their scope, do merges keep what users attached, does every run end? | three runs, two of one event loop, of two sources that list the same call; four initial tables |
| `Parts` | seventeen questions on fifteen components, one property or two each | below |
| `ScrapeFingerprint`, `SweepLive`, `StoreTwins`, `EmbedLabels`, `DetailsStarve` | does the code do what its documentation says? | the same instances, or one component of `Parts` |

**Sums.** `SweepRow` and `Parts` put several components side by side: a behaviour picks
one (`part`), the others rest in their initial states. These components share no
variable within a step, so the state spaces add up and nothing is lost; what they tell
each other is an input that the receiving one takes from a set. A property of a
component is then checked over all of its behaviours and trivially over the rest. The
alerts and the schedule are in the sum of the sweep because all three belong to the
worker and all three have liveness properties. Deadlock is not checked in `Parts`,
`StoreRuns` and the runs derived from them: batches, accounts, scripts and runs of a
source do stop.

**Bounds of the scrape runs, sweeps and fetches.** Everything a run does concerns one
source; sources share no lock, so one source is the interesting case, and the proofs
cover several. Two sessions that use the advisory lock, one that does not and one that
re-activates are the combinations of the code; a run-all thread takes the locks as a
slot does, and what only it does is in `ScrapeSessionsEnd`. A small threshold makes
pausing frequent in the run about locks, the run about counters uses the real one.
`CounterBound` only stops a session from starting on a counter past the threshold,
above which nothing changes (in `ScrapeSessionsEnd` at the threshold, which leaves out
requests for paused sources). Clocks saturate just past their thresholds. Symmetry (of
the slots) is used in `ScrapeOverlap` only, which has no liveness property. In
`SweepRow` three sources with two workers give running, queued and cancelled futures at
once. Its schedule advances by 12 hours, two empty runs cost what five do in the code,
and its two sources differ in cadence and jitter, so that one is due while the other
waits, and share a tier that takes one job at a time; `MaxReboots` lets one restart lose
the memory of the night. Its tiers, not the cap of all jobs, are what binds. A page holds
two alerts (for fifty) and one round may be lost: in part `alerts` two of the three alerts
exist under two requests, in part `page` all three wait under one, so that a page is full
and one alert must wait for its turn. In `FetchSlots` three fetches
exceed the slots of the host, of the browser and the cap.

**Bounds of the store.** The call that both sources list meets an empty table, a global
row, a row of another organisation, and the three rows that racing runs leave behind;
`Marking` says which user may attach something to which row, `MarksPerRow` how much,
`Dying` which addresses fail the HEAD check. `MaxRows` is never reached by the runs.

**Bounds of `Parts`.**

* Columns of a row: four candidates that differ in which fields they leave empty, two
  answers of the model, days up to 4, which passes both thresholds of the status.
* Accounts: two addresses, two hits per window, a table of one key (so that the second
  key evicts the first), four seconds. Part `limits` has requests on any of the addresses
  that end at the limiter or with an unknown account or a wrong password; part `sessions`
  two at a time on one address that go on to an answer, with two changes of its password
  and one token out at a time.
* Files: two per kind, two days.
* Embeddings: two batches that share a text, a chain of two providers, quota 3, cache 2:
  the quota is passed and the cache evicts.
* Pipeline: two candidates, every kind of connector, caps of one to three, pages that
  fail or fill different fields.
* Listing: every registered connector, at most three of its addresses, four calls of
  which two are at one address only, two to a page, one call that comes or goes between
  two requests, a memory of two hashes; `CapUnit` scales the caps to the four calls.
* Catalog: two default sources and a third row, two boots, two claims, an edit.
* Audit and probe: three runs kept (for 10), two empty ones fail (for 3), pause from
  three (for 5); seven hosts that cover the scope rules, five requests, three redirects.
* Extraction: a cache of one, two pages, two threads, one retry. Clients: two workers,
  three loops over two identities, so that one is used again.
* Dashboard: five rows with deadlines on both sides of the hour, of midnight and of the
  stored status, days of two ticks, lanes of two places. Health cache: two viewers of
  two organisations, two required queries (for six), one chart (for six), a life of one
  tick (for 60 seconds).
* Sectors: a row the rules are sure of, one they hardly know and one they do not, two
  overlapping scripts, batches of two (for 20). Scores: two calls, two units, contents
  worth 57, 58 and 60 points, on both sides of the limit of "high".

### What is checked of what

| Property | Says | Module |
|---|---|---|
| `GapFillOnly`, `Accounted` | passes over candidates fill gaps and never overwrite; each candidate a run parsed appears in its tally | `ScrapePipeline` |
| `SteadyCallsListed` | a call that stays listed while a listing is read is found, although new ones push it from page to page, unless a request failed, a cap was reached, a call was withdrawn or the connector remembers it; whichever of the addresses lists it | `ListingWalk` |
| `BestValuesStay` | a stored amount survives merges, analyses and backfills; a merge replaces no substantive summary by a thin one | `OpportunityFields` |
| `LimitHolds`, `SessionsEndWithPassword` | a key that was not evicted has no more accepted requests in a window than the limit; a token of a login or a reset link does not outlive the password it was earned with | `Access` |
| `DocumentsReadable` | a document row whose file no other upload shares can be downloaded, wherever an upload or a deletion was cut | `Artifacts` |
| `QuotaOvershoot` | the quota is exceeded at most by what was in flight | `EmbeddingGateway` |
| `NothingImmortal` | what is in the extraction cache can be evicted | `Extraction` |
| `OneSyncClient` | threads that race for the synchronous client build one only | `HttpClients` |
| `CountedIsListed` | what a view counts, its list shows, under the status it was counted by, and the lanes and charts agree with each other | `Dashboard` |
| `FreshWithinTTL` | a cached payload is the organisation's own and no older than its time to live | `HealthCache` |
| `OwnerEditsStay` | a start of the api changes nothing in an owned source but its owner; what runs keep in it excepted | `SourceCatalog` |
| `OperativeYields` | a source with the verdict "operativa" has yielded calls in its recent runs, and the dashboard does not call it failing meanwhile | `SourceAudit` |
| `RequestsStayOwned` | however a site redirects, the probe asks only hosts of the owner of an authorised one, or of the same mixed zone | `LiveProbe` |
| `BackfillHonest` | the tally of a backfill is what its commits did; unless it is forced, a confident label is replaced only in a race; a label has less confidence than the rules only where they were below 0.5 and a judge spoke | `Sectors` |
| `ScoresSettle` | a unit commits the score of the columns it saw unless another overtook it, and meets the constraint only then | `Scoring` |

The exact statements, with the exceptions the code makes, stand above each definition.

### Disagreements between code and its documentation

Each is a run of one property that TLC violates; `PROJECT.json` quotes the lines.

| Run | What the counterexample shows |
|---|---|
| `ScrapeFingerprint` | a page's fingerprint is committed though some of its items are not stored; the next run skips it as unchanged |
| `SweepLive` | the recovery of the worker fails the row of a sweep that is alive |
| `StoreTwins` | runs of two sources that meet the same call both insert it |
| `EmbedLabels` | a batch whose first text was cached by one provider labels all its rows with it, also those another provider served |
| `DetailsStarve` | the runs of a pilot source visit the details of the same first candidates for ever |

More are stated as definitions beside the properties, each with a comment that says
what fails: `SuccessNotPaused`, `RequestsMeetNoLiveRun`, `PauseNeedsStreak`
(`ScrapeRuns`); `SpacingKept`, `CappedOnlyInWindow` (`FetchBudget`; the check of the cap
ignores its window, `scraper/domain_budget.py:208` against `:80-83`); `SentOnce`,
`PausedUnstamped`, `NoTwinAlerts` (`AlertQueue`); `CloseNeverReplaced`,
`LoopNeverBlocksItself` (`OpportunityStore`); `CatalogClaimable` (`SourceCatalog`);
`OneFailureForgiven`, `NoDataNoPass` (`SourceAudit`); `PriorityOfScore` (`Scoring`);
`ChartsAddUp` (`Dashboard`); `RemoteKept` (`Extraction`); `NoneLeft`, `OwnLoopClient`
(`HttpClients`); `NothingInvented` (`ListingWalk`).

Seen while modelling, and visible in the modules without a property of their own:

* `handle_429` says that it makes `delay_for` enforce the back-off; for a host without a
  configured delay, which is the fallback for every unlisted host, `delay_for` returns 0.
* The nightly pass leaves out sources of a delayed domain (`scraper/priority_queue.py:62`);
  a digest that fails still counts as sent (`main.py:304`); a job holds the global
  semaphore while it waits for its tier's.
* The DevelopmentAid pass forgets what it processed; entries of a sitemap without a slug
  occupy places of the cap; several connectors turn a failure into an empty success,
  which the counters of the run take for an empty page.
* A registration reads its row anew for the token, which therefore claims a change that
  came between. Two changes that overlap commit in any order: the older password may win.
* A round that fails after it set the date of the nightly pass loses that pass. A bucket
  the limiter evicts forgets its hits.
* The list of suffixes has no gov.br, under which catalog sources live, so hosts of all its
  owners are one owner's to the probe.
* Findeter's memory is never restored: `connectors/factory.py` makes it without the
  `connector_config` that `connectors/findeter.py:138` reads.
* Two AI backfill endpoints (`api/v1/admin.py:629`, `:649`) never await their coroutines.
* Unchanged pages count as empty runs in the audit. The live probe keeps the body of an
  earlier hop for its block test, and declares limits on retries, concurrency and
  Retry-After that it does not apply.
* In the dashboard a mark on a global call is shared but not shown in the review queue;
  the top lane ignores deadlines; the summary lane filters after its LIMIT; the category
  chart counts a row twice when two tags translate alike; after a database error in one
  chart all later ones are empty and cached.
* The backfill of sectors returns to rows of low confidence for ever; a vanished row ends
  its run. A score is at most 85, so the ceiling at 100 never applies, and filling a
  column can lower it.

### Fairness

* `ScrapeRuns`: weak fairness of each started session, because every await of a
  run has a timeout and a wait for a row ends in `lock_timeout`, and of the clock.
  The main session opens every round of the worker; the slots of the previous
  round disable it for a while, hence strong fairness of its read and commit.
  Nothing is assumed to start a run, to change a page or to abort a session.
* `SweepTask`: weak fairness of the thread, which waits with a timeout, of time,
  and of the recovery, a step of every round of the worker. No run of a source
  has to end, no client has to poll, and a crashed api need not come back.
* `FetchBudget`: weak fairness of each fetch, whose requests, renders and waits
  have timeouts, and of time.
* `SweepSchedule`: weak fairness of the start and the end of a round, of a job's
  end (jobs run under `wait_for`) and of the semaphores, which hand their places on
  in order; strong fairness of time, which passes only between the steps of a round.
  In the sum each of them is conditional on the schedule being the part that runs.
* `AlertQueue`: weak fairness of the round: the loop of the scheduler catches what a
  round raises, sleeps and starts again. No request is assumed.
* `OpportunityStore`: weak fairness of each run, which has a time budget, and whose
  waits for a row end in `lock_timeout`.
* `DetailsStarve`: weak fairness of the steps of a run and of the visits to details, the
  weakest claim under which progress over the candidates could be expected.

## 4. Proofs

The theorems hold for every value of the constants under the named assumptions of the
modules, and TLC evaluates each of them on the instances of the runs:

| Assumption | Says |
|---|---|
| `ConstantsAssumption`, `SweepAssumption`, `BudgetAssumption`, `ScheduleAssumption`, `AlertsAssumption` | kinds of session are disjoint, markers are not values, limits and clocks are naturals, sources of a sweep and fetches are finite in number |
| `AccessAssumption`, `ExtractionAssumption`, `HealthAssumption`, `HttpAssumption`, `GatewayAssumption`, `FieldsAssumption`, `CapsAssumption`, `AuditAssumption` | limits, windows and caps are numbers of the kind the settings allow (an audit fails no later than the runner pauses: 3 and 5); batches are finite sequences of texts |
| `StoreAssumption`, `PageAssumption`, `SeedAssumption` | a run has one organisation; a candidate carries the source it was scraped from; the table at the start keeps external ids apart |
| `OwnersAssumption` | who registers a domain runs the hosts below it that no shared tenant has; a documented pair is one owner's. That related hosts have one owner is not assumed: below a public suffix they need not |
| `ListingAssumption` | each policy of a connector is one the registered ones have: an index has addresses and is not probed, a probe has one page and addresses that list the same, only connectors without a rule for the end keep a memory |
| `ArtifactsAssumption`, `ScoringAssumption`, `CatalogAssumption`, `DashboardAssumption`, `SectorAssumption` | keys of reports and of documents differ; contents have points; catalogs, rows and tags are finite; deadlines, scores and confidences are in range; a rule that names no sector has no confidence |

The shape is the same everywhere: an inductive invariant that says more than the
property, one lemma for each group of actions that it is kept, one that it implies the
property, and the temporal step at the end. What is interesting is what had to be added.

**`ScrapeRunsProofs`**, for any sources, sessions, threshold and cooldown.

* `TypeCorrect`, from the types alone.
* `NoOpenRunIsSafe`, `AtMostOneLiveRun`, `NoSlotBlocks`, `RunOwnsItsRow` and
  `ScrapeRunsImplementLease` rest on `IInv`: the types; the row lock of a source is held
  by a session exactly while that session is live on it (`RowLockMeansLive`); a session
  of the dispatcher past its lock decision holds the advisory lock (`AdvisoryHeld`); a
  finished run carries an outcome (`FinalStatus`); and `NoOpenRun`. None of the
  properties is inductive alone: that two sessions are never both live needs the lock as
  a witness, that a slot never waits for a slot needs that a slot with the row also has
  the advisory lock.
* `CountersOfSessionsApart` says exactly when the counters of a source can be trusted,
  and is conditional because the code is: two sessions that have loaded one source write
  counters from a stale row, and a request that runs a paused source after the cooldown
  leaves it paused after a run with items. `Apart` excludes these two and nothing else.
  The invariant `Counters` follows the copy of the row through the phases of a run
  (`FreshCopy`): what was loaded, what a re-activation changed in memory, what the flush
  will write. `SequentialCounters` shows that `Apart` always holds for one slot and the
  main session, which is the instance of the run `ScrapeSequential`.

**`SweepTaskProofs`**, for any finite catalog and any number of workers.

* `TypeCorrect`.
* `SuccessIsTrue` and `CountersAreTrue` rest on `Account`: while the
  thread waits, processed, failed and pending sources add up to the due ones, and
  only futures that ended well are processed (`Counted`); what the write in flight
  will publish is already true (`WriteSound`), which is what makes a late or a lost
  write harmless; the verdict is the last write of its sweep (`VerdictLast`); and
  nothing is counted before the futures exist (`Clean`). Recovery, stale marking,
  archive and restarts touch the status only (`RowOnly`).
* `OrphansAreFound` adds `Killed`: a row that a finished thread left open was reopened
  by a late write, after the recovery had found it old (`Reopened`), so the boot
  recovery of the restart closes it; and a write that closes the row is the last
  (`WriteCloses`).

**`WorkerProofs`**, the rounds of the worker.

* `ForcedOnceANight`, for any sources, cadences, back-off and hour of the night. The
  number of forced passes of a day is not bounded by the memory of the last night
  alone, because a restart loses it; `Remembered` says that each pass of today is in the
  memory or paid for by a restart of today, also while a round that may still fail has
  not yet written it down.
* `MailsHaveCause`, for any alerts and requests. An e-mail is sent before the row says
  so. `MailsCaused` balances the two: the mails of an alert are at most its causes, and
  one less while the alert can still be sent, where the round in progress counts by what
  its loop has yet to do (`RoundHolds`, `Unsent`).

**`FetchBudgetProofs`**, for any fetches, hosts, budgets, delays and caps.

* `TypeCorrect`.
* `SlotsNeverLeak`: the slots taken of a key are the number of its holders and
  within the budget. Needed with it: `PagesOnlyRender`, a page rendered for a
  connector never takes the slot of a host. Every step is shown to be one of
  three: nobody's holdings change, one fetch takes one key, one fetch gives back
  all it holds.
* `BurstNeverRunsAway`: a cap is overshot by less than the number of fetches.
  Inductive is only the stronger `BurstInv`, which adds to the count the fetches
  that passed the guard and are not yet counted.

**`OpportunityStoreProofs`**, for any calls, sources, organisations and tables. One
invariant, `StoreInv` (`StoreInvariant`), carries three theorems. A run looks rows up
over what is committed and what it has flushed itself, and inserts later; so the
invariant says of each transaction that what it has flushed, the committed table and the
candidate it is about to insert hold no external id twice (`RunOK`), and of each two that
live runs scrape different sources and that neither has the id of a row the other was
given (`Apart`). That different runs cannot collide thus rests on the lock of
`ScrapeRuns` (one live run of a source), which the model of the store takes as its guard.

* `StoreOneRowPerExternalId`: the unique constraint is never met.
* `StoreRunsStayInScope`: what a run holds to merge or has sent is of its organisation
  or of none.
* `StoreMergeKeepsMarks`: a row is taken away only by a merge whose survivor takes over
  what hung from it.

**`ProcessProofs`**, what the threads and requests of a process share.

* `OldTokensExpire`, for any addresses, requests at a time and lifetimes. A login reads
  the row and mints after a change that happened in between. `Claims` says that what a
  request has read, and what a token claims, is the second of the password it stands
  for, which stays in the account's history however many changes follow.
* `LimiterHolds`, for any keys, windows and limits. The limiter knows only its bucket,
  the property speaks of everything that was let through; `Limits` says that a bucket is
  a suffix of the log of its key, that the rest of the log has left the window, that no
  key has two buckets, and that a key without one has no log. Needed are a dozen facts
  about sequences: what pruning drops, what removing a pair leaves, that a log in order
  of time has its old hits in front.
* `HeldIsListed`, for any number of threads. The dictionary of the extraction cache and
  the list of its keys change in separate steps; by `Cached` a page that is held and not
  listed is in the hands of a thread that is about to list it or has just unlisted it to
  drop it.
* `ServedWithinTTL`, for any viewers. The stamp is taken before the queries; `Stamps`
  says that it is not later than the oldest part of the payload, in the cache and in
  every request under way.
* `OnlyOneSyncClient`: who stands between the second look and the assignment holds the
  lock (`ClientOfLock`).
* `QuotaOvershootBounded`: the quota is checked before an await and counted after it. By
  `InFlight` what is counted beyond the quota came from batches that are not waiting; a
  batch that is let in was let in below the quota, so each batch adds its own texts once.

**`ScrapingProofs`**, the inside of a run and the audit of its source.

* `PipelineAccounted` and `PipelineGapFillOnly`. `Balance` says that nothing is counted
  before the persist loop and that in it each candidate is counted or still ahead; the
  lemmas about filtered and picked sequences (`PickedLength` and others) show that a
  filter splits the candidates in two, and that a pass returns them in their order.
* `SteadyCallsAreListed`, for any listing, page size and policy of a connector that
  `ListingAssumption` admits, whichever addresses list a call. A new call pushes all
  others one place down while the walk reads page after page. `WalkInv` says of a walk
  between two requests that the calls in front of the page it asks for are read or were
  not there all the time (`FrontRead`, within `OnTheWay`), that so are those of the
  addresses it has left, unless all list the same (`PlaceRead`), that a number of pages
  taken from the first answer is still that of the address, and of a walk that has
  stopped that nothing is left (`AllRead`). The lemmas count the pages of a listing and
  show what filtering a page keeps.
* `AuditOperativeYields`: the runs kept are counted by their verdict; the checks of
  extraction, persistence and stability together leave no mixture of empty, failed and
  cancelled runs that passes.
* `ProbeRequestsStayOwned`, for any list of public suffixes and any owners that registered
  domains and documented pairs keep together. A redirect adds its host to those that are
  let through when it is related to one of them, so the claim is carried along the chain:
  what is let through belongs to the owner of an authorised host or lies in its mixed
  zone, and no shared tenant gets in by its name (`AllowedOwned`). The work is in
  `RelatedOwner`: two related hosts agree on a registered domain, which has one owner, or
  on a zone that is mixed.

**`RecordProofs`**, rows and what is computed from them.

* `DocumentsStayReadable`: work in progress on a file that nobody else ever used is the
  only one on it, and its object is there between the write and the commit
  (`UploadStored`, `SharersKnown`).
* `StoredValuesStay`: each way to change a row, as a condition on one step
  (`AmountStays`).
* `UnitsSettle`: by `InMemory` a unit holds the scores of the columns it saw, and what
  it loaded is still the committed score unless another overtook it; by `Added` what it
  will insert has no row, with the same exception.
* `EditsOfOwnersStay`: what a seeding looked up is a row of the catalog, edited only if
  it had an owner (`CatalogInv`), so what it writes over a row that got an owner since is
  the owner only, and the `connector_config` that runs and starts share.
* `ViewsStayHonest`: the views are functions of the rows and of the clock, and the only
  thing to carry from step to step is that a stored "closed" of a dated row stays true
  (`DashInv`). The work is arithmetic of hours and midnights, and counting: the charts
  add up over a finite set of rows.
* `BackfillsStayHonest`: a run has counted each row it passed once, those of the open
  batch are put down and not counted (`Counts`); until another run commits, they are as
  they were read (`UpToDate`). That a label falls below the rules only where they were
  below 0.5 and a judge spoke is about the label a row gets, and follows from the three
  layers for any judge; forced runs are exempt from keeping confident labels, as in the code.

What the proofs taught about the models:

* `CountersMatchLog` was only known to hold on an instance with one slot. The proof found
  the exact condition, `Apart`, and its two halves are behaviours of the code.
* The chart of the sources shows ten of them. That its total is the number of rows with
  a source held on the small instance only; `CountedIsListed` now says so of at most ten
  contributors. Its status clauses are about rows with a date.
* A `CASE` whose guards overlap is a choice that TLC resolves by taking the first: the
  limiter, the walk of a listing and the sector of a row now spell out the order of the
  code's branches.
* `SelectSeq` and folds are defined by recursion in the library and cannot be expanded;
  where a proof depends on them the modules say which positions are picked (`Pick`,
  `Picked`) instead, and the lemmas then need the least element of a set of naturals
  (`LeastOf`) and the number of elements below a place (`UpTo`, `Place`).

Only model-checked: every liveness property (`PauseEnds`, `SessionsEnd`, `SweepEnds`,
`NoStarvation`, `PendingLeaves`, `FetchesEnd`, `RunsEnd`) and the fair refinement
`ImplementsFairLease`, because fairness and ENABLED are out of the prover's reach; the
safety part of that refinement is `ScrapeRunsImplementLease`. The runs that expect a
violation are TLC's alone. What a recursive definition computes for every input needs
induction over data, and RECURSIVE operators are avoided throughout, so that any module
can be proved about.

## 5. Not modelled

* The web client.
* Text: heuristics for noise, language, dates and amounts, prompts, parsers of single
  pages, formatting. They appear by their outcomes. Encodings and hashes.
* Queries and CRUD in one transaction with no other effect: organisations, faculties,
  text search, exports, administrator metrics, the timeline and the cohorts of the
  dashboard (the creation time of each row as state is too much for TLC).
* The weekly digest beyond its date, quarantine reports, the rows of source health
  alerts and of faculty alerts, whose check-then-insert is the pattern of
  `NoTwinAlerts`; matches by embedding.
* Cookies, CSRF and the form of tokens; settings; in-process metrics.
* `PlaywrightBrowserPool`, which nothing but its tests calls, and the stub of a task queue.
* The files and the command line of the audit; its probe of single detail pages.

## 6. What is left

In the order in which it would add most:

1. Abstract specifications of the store (a set of calls, one row each, within what
   one transaction sees) and of the alerts (delivered at least once), refined by
   `OpportunityStore` and `AlertQueue`.
2. Proofs that those refinements hold, from `StoreInv` and `MailsCaused`.
3. Which of two overlapping sessions the counters follow: a weaker form of
   `CountersMatchLog` without `Apart`.
4. The rows of the faculty and source health alerts, and the weekly digest, in
   `AlertQueue`.
5. Larger instances of `StoreRuns` and `SweepRow` with several sources per tier.

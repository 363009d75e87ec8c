# TLA+ verification of vehicle-inventory-tracker

The program ingests the dealer inventories of two car makers into one MySQL
database per make and serves them through a Flask application.  Ingests and
dealer geocoding run as background jobs, in production as RQ jobs in worker
containers (`USE_REDIS_JOBS=1`), otherwise as threads of the web process.  Paths
below are relative to `vehicle_inventory/` unless they start with `run_`,
`static/` or `tests/`.

## 1. Inventory of the system

| component | code | state | operations | what makes it correct |
|---|---|---|---|---|
| job service, job history | `jobs/service.py`, `jobs/runs.py` | table `job_runs`; Redis keys live ingest, live geocode, cancel geocode | start, cancel, publish progress, sanitize a live status, reconcile stale rows | a closed run says how it ended, stays closed, and every run gets closed |
| worker tasks | `jobs/worker_tasks.py` | the RQ job record | mark running, run the body, save the verdict, publish it | the verdict reaches row and live key in spite of failing writes |
| RQ fleet maintenance | `jobs/rq_maintenance.py`, `run_worker.py` | RQ queue and intermediate queue, worker registrations | reclaim stuck ids, drop stale workers | no job is lost, none runs twice |
| thread managers | `jobs/ingest_thread.py`, `jobs/geocode_thread.py` | one progress object and thread each, under a lock | start, cancel, status | one job at a time, row and progress agree |
| worker status | `jobs/worker_status.py` | none | report on workers and queues | read only |
| latest-run pointers | `db/run_scope.py` | `series_latest_runs` | resolve the fullest run, carry a snapshot forward, rebuild | the pages show the fullest snapshot of each series, always a whole one |
| database backend | `db/backend.py`, `db/sql_compat.py` | the open transaction | statement, commit and unit retry on deadlock | a retried unit is all or nothing |
| inventory persistence | `db/inventory.py` | `ingest_runs`, `vehicles`, `vehicle_runs`, prices, options, media | create run, upsert vehicle, insert run row, mark inactive | a run row and its vehicle are written together |
| Mazda ingest | `makes/mazda/ingest.py` | seen VINs, page counters, run id | page loop, page transaction, finalize, repair after failure | no page is skipped, pointers right after any end |
| Mazda client and helpers | `makes/mazda/{client,dealers,session,media,colors,models,stage,adapter}.py` | HTTP session | search, dealer discovery, parsing | retries end; parsing is total |
| Toyota ingest | `makes/toyota/{ingest,adapter}.py` | run id per model | stream pages, mark unseen vehicles inactive, rebuild the pointers | only unseen vehicles become inactive |
| Toyota client, WAF | `makes/toyota/{client,waf_token}.py` | token, time of its last refresh | page request with retry, token refresh with cooldown | a request ends; no refresh storm |
| dealer geocoding | `geo/dealer_geo.py`, `run_geocode_dealers.py` | `dealer_geo` cache, rate limiters | geocode a dealer, a batch, all dealers | rate limits hold; a cancelled batch stops |
| router, progress, CLI | `ingest/*.py`, `run_ingest.py` | progress object with a log of 300 entries | dispatch by make, emit progress | the log is bounded |
| web API | `api/web.py`, `app.py`, `api/admin_auth.py`, `api/image_proxy.py` | none of its own | pages, job endpoints, overview, login, image proxy | see the job service |
| queries | `api/{inventory,filters,pricing}.py` | none | facets, lists, prices | results agree with the filters |
| registry, context, configuration | `makes/{registry,context,base}.py`, `core/*.py` | static, a context variable | look up a make | |
| frontends | `static/*.js` | page state, image cache, poll timer | polling, filtering, prefetching | late answers do not overwrite newer ones |

**How they interact.**  A start handler of the web API writes a `job_runs` row, a
live key and an RQ job, in this order.  An RQ worker takes the job, calls the
worker task, which writes the row and the live key and calls the ingest of the
make; that one writes the inventory database page by page, rebuilds the
pointers and starts a geocode job the way the web API does.  `GET
/api/admin/overview`, polled by `static/admin.js` while a job is active, repairs
rows and live keys that disagree with RQ.  `repair_rq_fleet` runs at the start of
every worker container and on request.  All of these are separate processes;
MySQL and Redis give each single command its atomicity, and nothing else
orders them.

**What is hard.**  Check-then-act over two transactions and over two stores;
failure payloads that take over the id found under a shared key; database
errors that are logged and dropped; workers killed between any two commands;
queue records that expire; deadlock retries at three levels; overlapping
ingests (no start handler of the Redis mode refuses a second one).
`PROJECT.json` lists the hazards with their lines.

## 2. Modules

| module | models | composed with |
|---|---|---|
| `RunRow` | what a reader of `job_runs` is promised (abstract) | implemented by `JobLifecycle` |
| `JobLifecycle` | starters, RQ workers, overview and status requests, cancelling, in Redis mode | instance of `RunRow` |
| `JobLifecycleProofs` | theorems about `JobLifecycle`: types and history, verdicts, geocode verdicts | |
| `InventoryRuns` | concurrent Mazda ingests on the inventory database: pages, snapshots, pointers, deadlocks, failures | |
| `ToyotaIngest` | Toyota model ingests on the inventory database and the changing site they read: pages, hiding, pointers, failures | |
| `MazdaPages` | how `run_mazda_ingest` and `run_mazda_dealer_vehicle_refresh` walk ZIPs, carlines and pages of a changing site, with their counters and progress | the page writes are `InventoryRuns`' |
| `ToyotaClient` | one request of `ToyotaInventoryClient`: nested retries, back-off, WAF token and cooldown | a request is `Fetch` or `FetchFails` of `ToyotaIngest` |
| `GeocodeBatch` | `geocode_all_dealers` with its worker threads, against dealer syncs and the administrator | its return is a step of `JobLifecycle` and `JobThreads` |
| `GeocodeSources` | the sources of one look-up and the locks the look-ups of a process share | a task of `GeocodeBatch` is one thread |
| `InventoryRunsProofs`, `RqFleetProofs`, `MazdaPagesProofs`, `ListingsProofs` | theorems about the module of that name | |
| `ToyotaProofs` | theorems about `ToyotaClient` and `ToyotaIngest` | |
| `GeocodeProofs` | theorems about `GeocodeSources` and `GeocodeBatch` | |
| `PriceViews` | prices, statistics, histogram, option effects, MSRP comparison (operators) | extended by `Listings` |
| `Listings` | the inventory page: facets, list, pages, export, map, analytics, for a user who makes one choice after the other | reads the vehicles that `InventoryRuns.Shown` names |
| `RqFleet` | one RQ queue, its workers, `repair_rq_fleet` | |
| `JobThreads` | the thread-mode managers and their `job_runs` rows | |
| `JobThreadsProofs` | theorems about `JobThreads` | |
| `MCJobs`, `MCRuns`, `MCToyota`, `MCFleet`, `MCThreads`, `MCMazda`, `MCToyotaClient`, `MCGeocode`, `MCSources`, `MCListings` | TLC instances | |

### JobLifecycle

`row`, `live` and `cancelKey` are the persistent state, `rq` the status of the RQ
record.  `stage[j]` is the program counter of the starter of job `j` and then of
its worker: `inserted`, `cleared`, `announced` (`start_*`), `waiting` (in the queue),
`taken`, `marked`, `building`, `body`, `reporting`, `saving`, `publishing`,
`failing`, `naming`, `blaming`, `returning`, `raising` (`run_*_task`).  `req[r]` is
what a web request has read and will act upon.  One action is one read or one
write of one store, so every interleaving of processes is a behaviour.

* A database error in `store.finish` is `SaveResultFails` or `SaveFailureFails`, one before
  the body `ConnectFails`, an exception of `build_ingest_request` is `BuildRequest`
  to `raising`, a killed worker `Crash`, a killed starter or a refused Redis
  command `StartAbandon`.
* `reconcile_live_job_run`, `reconcile_rq_stale_runs` and `_sanitize_live_status` are
  begun by a request in any order and on any job.  The overview runs them
  in a fixed order and the status endpoints run one of them; both are among
  the behaviours.
* `saved`, `shared` and `asked` are history variables, used by properties only.

Abstractions.  A live payload is its status and job id; messages, logs, counters
and the result merged into a terminal payload (`service.py:402`) are left out.
The `started_at` age of `reconcile_rq_stale_runs` is the assumption `OlderThanStaleAfter`: a
starter gets from the insert to the queue within 300 s or dies.  The listing and
the RQ fetch of the reconciler are one step (a row that was closed between them
is found closed by the next read), so are the two RQ reads of `_sanitize_live_status`.  A
Redis outage while a worker publishes progress and a commit whose outcome is unknown are not
modelled, nor is an exception of `db.close()` after "completed" was published.
RQ never declares a live worker dead, and a dequeued job is never stuck in the
intermediate queue; that is the subject of `RqFleet`.  Listings show at most 100
active runs; the model has fewer.

### JobThreads

Without Redis each manager keeps one thread (`thread[c]`), one progress object
(`shown[c]`: the status and the run id `status()` returns) and, for geocoding, one
cancel event.  What a manager does under its lock is one action; the lock keeps
other threads from seeing more, and no code holds both.  `stage[j]` is the place of
the thread of job `j`, `row` and `req` are as in `JobLifecycle`.

* `Prepare` is what the threads do before their try block, where an exception
  ends the thread and nothing else.
* `IngestEnds` publishes the verdict (the progress object is shared with the
  ingest, so its last `emit_progress` shows it), `IngestSaves` writes the row.
  The geocode thread does both under the lock (`GeocodeReturns`); when the write
  raises, the lock is released with the progress already set, and only then
  `GeocodeFails` sets it to failed.  An overview that looks in between may close
  the row as completed after the thread has stored failed; this is why
  `IngestVerdictStands` speaks of ingests only.
* `StartFails` is an INSERT that raises, `ServerDies` the end of the process.

`_sanitize_live_status` only reads in this mode and the RQ reconciler does not run.
Rows of runs that no progress object names any more stay running: nothing in
this mode would close them, so there is no counterpart of `RowsClose`.

### InventoryRuns

`pc[r]` is the next statement of the ingest of run `r`, `tx[r]` what its open
transaction has written.  A page is one action, because its statements are not
retried one by one: a deadlock in it raises, and `run_transaction_with_retry` repeats the whole
page in a fresh transaction.  The finalize unit (`resolve`, `copy`, `delete`,
`insert`, `commit`) is one action per statement, because each retries itself.  The
database is MySQL with default isolation: a statement sees committed rows and
its own, waits for rows that others have written, and an `INSERT ... SELECT` locks
what it reads; a deadlock's victim loses its whole transaction
(`DeadlockStatement`).  `conn.rollback()` in the failure handlers does not exist on
`MySQLDbConnection` and the `AttributeError` is swallowed, so `PageFails` and
`StatementFails` leave the writes of the transaction for the repair to commit.

Left out: prices, options, media, all vehicle columns but the series (the
upsert may move a vehicle to another series), and the Toyota ingest.

### ToyotaIngest

A run is the streamed ingest of one model (`of[r]`).  `site` is what the Toyota
inventory search lists; `Sell` takes a place off a listing and `List` adds a vehicle, at any
moment, also between two pages of one fetch.  `page[r]` is the cursor of `fetch_all_pages` with the page
in hand; the number of pages is the one the first answer gave.  `active` is
`vehicles.is_active`, `tx[r]` the open transaction with what `mark_inactive_not_seen`
has switched off in it.

* A request with all its retries is `Fetch` or `FetchFails`; the retries change
  nothing but the WAF token (`ToyotaClient`).
* `GiveUp` is the exception handling of `fetch_all_pages`: on page 1 the whole live
  ingest fails, on a later page the fetch is partial.  It also catches what the
  page callback raises, after its commit (`WritePage`) or in the middle of its
  statements (`WritePageFails`).
* A Toyota page is committed as it is, without the retry of the Mazda pages; a
  deadlock makes the fetch partial.
* After an error of the final transaction, `run_live_ingest` rebuilds the pointers and
  commits, with them whatever is left in the transaction (`StatementFails`, `Dies` if
  that fails, too).

`clean[r]` is a history variable: the site has stood still since `r` and the
runs that overlap it have started, no run of the same model overlaps, and no deadlock
has undone anything.  `persist_run`, which stores a model after fetching it, is left out: no
caller switches `stream_to_db` off.

### MazdaPages

One ingest and the site it reads.  `place`, `carline` and `cursor` are the three nested
loops, `hand` the page that `parse_vehicles` returned, `percent`, `persisted` and
`counts` what the admin page shows.  A full ingest is the walk over one place whose
dealers are those that discovery found; a refresh walks the ZIPs of
`list_dealer_refresh_zips`.  `site` changes between any two requests.  A row without VIN is
dropped by the parser but still fills its page.

`WalkReadsAll` names the conditions under which a walk stores everything that is listed
(`Readable`).  Each is needed: TLC finds a counterexample without it.  One of
them is about two ZIPs whose dealers overlap: the site sorts by dealer, a page
of vehicles that an earlier ZIP has brought has nothing new, the loop
stops there (`_pagination_should_stop`), and dealers sorted behind that page are
not read at this ZIP.  Finalizing is one step here; catalog, images, payloads are left out.

The percentage does fall before the walk begins: a nationwide ingest shows 1, and then the
discovery of dealers shows a fresh `IngestProgress`, which starts at 0, before each of its seed ZIPs
(`makes/mazda/ingest.py:241`).  `Session` is that step, and `PercentNeverFalls` speaks of the
run from the look-up of dealers on.  `Fail` may bring 0 too: a worker reports a failure with a
progress of its own.

### ToyotaClient

`outer` is the attempt of `_fetch_and_extract_page`, `inner` the one of `_post_graphql`,
`since` the time since `_last_waf_refresh_at`, in units and at most the cooldown (a longer
time allows the same), whether it is the delay after a new token or a wait.  Three
facts of the code that the names do not suggest: an `HTTPError` is never retried by
the outer loop, because a `Response` with a status from 400 on is false and
`client.py:624` tests its truth; the outer wait is therefore always
`retry_backoff_sec`; and a refresh that failed does not start the cooldown, so
`RefreshesSpaced` speaks of the time since a token was *replaced*.  What
`fetch_waf_token` does in its browser is one step that succeeds or fails.

A token that is too old gets no page, but a challenge only if nothing else goes wrong: a
connection error, a timeout, a 429, 503 or 404 may come instead (`client.py:397`), and the
request may end before the refresher is called.  So `ExpiredTokenRecovers` excuses a request that
met one (`trouble`); of the others it says that they do not fail.

In `ToyotaIngest` an answer without `totalPages` and one keyed by VIN count as one page
(`client.py:570`), which is the format of the site and not modelled: the site says how many pages it has.

### GeocodeBatch

`cache` is `dealer_geo_cache` as committed and `tx` the two open transactions, the batch's
and that of a dealer sync.  The worker threads finish in any order (`answers`), the
batch takes one answer at a time: `check`, `await`, `store`, `count`.  A sync and the
batch may wait for each other; the victim's transaction is rolled back and the
statement repeated alone, which is how answers that were counted get lost
(`missed`).  `Cancel` and the administrator may come at any moment, `BatchFails` is an
exception or the end of the worker.  Left out: the `limit` of a batch,
`clear_dealer_geo_cache`, and the final `processed`, which is the size of the table
also when the batch was cancelled.

### GeocodeSources

A thread is one `geocode_dealer_record` or `geocode_postal_code`; `stage` is the source it
is at, `Found` and `NotFound` where it goes on.  `holder` are the three locks; a slot
sleeps inside its lock until its interval is over (`Spaced`).  `Google` needs the browser
lock and its own, in this order.  `configure_nominatim_rate_limit` (`dealer_geo.py:110`) sets
the interval for the whole process and nothing sets it back; the model has one
interval per service.  What raises between two sources, outside all locks, is left out: no lock is
held there.

### PriceViews and Listings

`PriceViews` are operators on functions from vehicles to prices.  Prices are whole and
floats are not rounded; averages appear as sums and counts, medians doubled.
`Listings` is the user (`Choose`, `Sort`, `Brush`, `Unbrush`, `ReadPage`), the analytics that
come some time after a list (`Analyse`) and the ingests (`Ingest` replaces the fleet).  A
filter column is a member of `Facets`; model, colour, drivetrain, stage and dealer facets
share one shape.  Two functions build the WHERE clauses, so `Scope` (facets) and `Listed` (list and
analytics) are two definitions, and the properties compare them.

* Names.  `static/app.js` joins the chosen names with commas, the server splits the text at
  commas and drops blanks: `Meant` is the set of names that arrive, `Sent` their union.  MySQL compares
  names without regard to case (and accents, and blanks at the end): `Class`.  Python
  (`value in available`) compares them as they are: `Offers`, where any one spelling of those
  among the available vehicles may be the one that DISTINCT returns.
* A stage has an item for each of its labels (`Group`); the other facets one for each name.
* The list joins `vehicle_prices`, the facets do not.  A run row without prices (`priced` is
  false) is what half a page leaves behind, see `InventoryRuns`.
* The histogram stays on the page (`chart`) until the next analytics come, while the user
  chooses, pages or picks, and ingests commit.  A click uses the ends of the bars that are
  shown, also when they are of an older list or of the list for another bar.  Analytics without a
  histogram, failed or of too few prices, and a histogram of the other metric take the brush
  away, but load no list (`renderDistributionChart`): the table shows the brushed list until
  the next request (`still`).

What the translation showed, and the properties take as it is:

* A value with a comma is offered and counted, but choosing it asks for its parts; `Plain` leaves
  such values out of `FacetsLeadOn` and `CountsAreTrue`.  Of several spellings of a name, all but
  one may be shown as not available though the list has vehicles (`OneSpelling`).  The numbers next
  to a stage have to be added over its labels (`CountOf`).
* While a row of prices is missing (`Whole` is false), the list has fewer vehicles than the facets say.
* With option codes the list, its count, the map and the analytics fail, because the
  statement groups by a `wheels` column it does not join and the option parameters are bound
  after those of WHERE (`inventory.py:381`); the facets still count
  vehicles.  `Refused` is that case.
* The state facet shows every state as available.  A ZIP that cannot be placed drops
  the distance filter without a word.
* A bar of the histogram counts `COALESCE` of two columns; the filter of the brush
  compares the first only.  `BrushLists` says what remains true of an up-to-date histogram (exactly
  those vehicles of the bar that have a price in the first column).
* Map, analytics and `/msrp-comparison` treat a price of 0 in three ways, and the map has no
  tolerance; `ViewsAgree` and `ComparisonAddsUp` say how far they agree.
* `PagesAreTheExport` needs that no ingest commits and no analytics take the brush away between
  two pages.
* `normalize_state_code` does not know "District of Columbia" (`geo/dealer_geo.py:381`: `title()`
  capitalizes the "of", the table does not), so the facet counts dealers cached under that name
  as a state of their own, while the filter for DC takes both names.  `CountsAreTrue` leaves out
  such a state (`LeadsBack`).

Left out: text search, VIN and stock search, distance as a sort key, wheels
and options attached to the rows of a page, formatting, the brush and filters that are saved and
restored with the page, answers that overtake one another.  `build_vehicle_filter_sql`,
`_vehicle_run_filter_clauses`, `fetch_price_values` and the materialized scopes of
`filters.py` have no caller.

### RqFleet

`queue` and `intermediate` are the two Redis lists, `status` the job record,
`worker` what each worker holds, `repair` the ids a running `repair_rq_fleet` has still
to remove and push.  All but the repair is RQ's own behaviour, modelled as the
code relies on it and marked external in the map.  RQ's own cleaning of the
intermediate queue and the worker registrations are left out.

## 3. What TLC checks

| run | instance | shows |
|---|---|---|
| `ingest_jobs` | 2 ingest jobs, 1 request, fair | `VerdictIsTrue`, `VerdictStands`, `LeftAlone`; `HistorySafety`: `job_runs` implements `RunRow`; `RowsClose`, `LiveSettles` |
| `geocode_jobs` | 2 geocode jobs, 1 request, fair | `CancelIsFresh`, `GeocodeFinal`, `LiveSettles` |
| `pointer_rebuilds` | 3 runs (one partial), 2 vins, 2 series | `RunsInv` (rebuilds are serial), `Settled`, `NeverShrinks` |
| `carry_forward` | 2 runs (one partial), 2 vins, 1 series | **violation** of `CarriedForward` |
| `toyota_ingests` | 2 runs, 2 models, 3 vins, pages of 2, 2 site changes | `CompleteIsExact`, `HiddenAfterFullRead`, `ShownUnlessFuller` |
| `fleet_repair` | 2 jobs, 2 workers, 2 repairs, 3 entries | `NeverLost`, `RunsOnceUnlessDoubled` |
| `thread_jobs` | 1 ingest, 2 geocode jobs, 1 overview | `ThreadsInv`, `IngestVerdictStands`, `CancelledWasAsked`, `StuckIsUnprepared`, `ReportedRunsClose` |
| `mazda_pages` | 3 ZIPs (two overlap, one is empty), 2 dealers, 2 carlines, pages of 2, 2 site changes | `PagesInv` (pages as announced, a true report), `WalkReadsAll`, `PercentNeverFalls` |
| `toyota_client` | 2 requests, 5 attempts, 1 refresh per post, 2 expiries | `SiteIsSpared` (bounded load, spaced refreshes), `FailsForCause` (gives up late, an expired token alone is no cause), `EveryRequestEnds` |
| `geocode_batch` | 3 dealers, 1 or 2 workers, commits of 2, a sync, an administrator | `AnswersAreKept` (what is counted is kept, little is lost, nobody is left out), `CancelIsPrompt`, `CompleteRowsStay`, `BatchEnds` |
| `geocode_sources` | 2 dealers and a ZIP, 2 queries per stage | `RequestsTakeTurns` (spacing, one browser, no waiting in a circle), `EveryThreadEnds` |
| `listings` | 7 vehicles, 3 dealers, 3 facets, 2 choices at once, 1 while a histogram is shown, 1 ingest | `FacetsAreTrue`, `PagesAreTheExport`, `PricesAgree`, `StatisticsAreTrue`, `BrushLists` |

Invariants of a module that belong together are one conjunction of named parts; each part
has its own comment in the module.  `JobInv` and `StandInv` of `JobLifecycle` and
`NeverReopened` are proved (section 5) and no longer part of a run.

**Bounds.**  In the job runs two jobs of a channel give every conflict over the
live key (announcing over, inheriting from, being blamed by another); the races between several
reconcilers are covered by the proofs, which hold for any set of requests.
`RowsClose` is checked for ingest jobs, whose failures take the longer paths.  Ingest and
geocode jobs share no variable, so they are checked apart.  Three ingests are needed in
`pointer_rebuilds` for a rebuild by one while a second writes and a third is the
fullest; two vins distinguish a fuller from an emptier snapshot and two series
let a vehicle move.  `MaxRun` caps the ingests ever started.  In
`toyota_ingests` three vins and pages of two make listings of no, one and two pages, with a
last page that is full or not; two models let a vehicle change hands, and `MaxChanges`
caps how often the site changes.  `MaxEntries` of `RqFleet` caps the entries up to which a
repair pushes: ids are duplicated when two repairs have read the same list, and three entries
for two jobs allow one such duplicate.  In `thread_jobs` a geocode job
meets the one before it in the same manager; what more ingests and overviews
would do to the invariants is covered by their proofs.

In `mazda_pages` the catalog announces one vehicle of a carline that lists up to five, so the
estimates are short, right or missing; `MaxPages` of 2 makes the safety cap bite.
`toyota_client` keeps the default attempts, because waits double; two requests show what
one leaves to the next.  Three dealers are the least with an answer behind a commit
of two.  `geocode_sources` shortens ten queries to two and keeps different intervals;
time is counted up to the interval.  In `listings` a ZIP that can be placed is not counted
as a choice, so that two choices reach a distance filter with a second filter; the
fleet has every kind of price (missing, 0, equal, fallback) and of state name, a colour with a comma,
one with two spellings, a stage with two labels, and after the ingest a vehicle without prices and one
that is inactive.
`MaxCharted` of 1 keeps one choice (a ZIP is one here) while a histogram is shown, which is enough for a
brush with a filter or a sort, and for a histogram that a later choice has made out of date.

Deadlock checking is off where all jobs may be over; `listings` never stops.
`RequestsTakeTurns` and `EveryThreadEnds` speak of the deadlock of the geocoding threads.

**Symmetry** is used in safety runs only: vins, series, models, jobs, workers and repairs are
interchangeable there.  Runs of `InventoryRuns` are numbers (`run_id DESC` decides ties)
and are not symmetric.

**Fairness** (`FairSpec`).  `JobLifecycle`: weak fairness of the steps of a started job or its
abandonment, of an alive worker (`job_timeout` of four hours ends a body that hangs), of RQ's
notice of dead workers and of the continuation of an accepted request; strong
fairness of a reconciliation per job and per live key, since
`static/admin.js` polls `/api/admin/overview` and every overview runs all of them.  Without
an open admin page nothing reconciles, and `RowsClose` does not hold.  The same two
assumptions make `Fairness` of `JobThreads`; the threads themselves need none.
`ToyotaClient`: the one thread of the ingest goes on; every post and the browser have a
timeout.  `GeocodeBatch`: threads and sync go on, a lock wait ends by commit, deadlock or
timeout.  `GeocodeSources`: threads go on, requests have timeouts, time passes.

## 4. Findings

*A deadlock undoes the carry-forward.*  `execute_with_retry` (`db/backend.py:176`) repeats the
statement in a transaction that has lost the earlier ones.  A refresh then completes
with fewer vehicles than it carried.  Run `carry_forward`.  The pages stay right,
because the pointers choose the fullest run (`NeverShrinks`); the snapshot of
the refresh is not what it was meant to be.

Other weaknesses are stated as the exact condition under
which the good property fails, and that condition is checked:

* Overlapping ingests lose verdicts.  Job A fails while B's id is under the live key; A's
  failure payload inherits B's id (`jobs/service.py:325`), and a reconciler may close B's row
  for it.  `VerdictStands` and `LeftAlone` hold of jobs that no other ingest blamed.
* The repair may run a job twice, but only if it met a worker that was just taking
  it: `RunsOnceUnlessDoubled`.
* The pages show the fullest Toyota run of a series, not the latest
  (`db/run_scope.py:281`): `ShownUnlessFuller`.
* A geocode thread that cannot connect dies before its try block with the progress
  running (`jobs/geocode_thread.py:137`); it is the only way to get stuck: `StuckIsUnprepared`.
* A bar of the histogram that is picked does not list what it counts, though its caption says that
  it filters by that bin (`static/app.js:1548`): vehicles whose price is filled in from
  `non_sp_advertized_price` or `base_msrp` disappear, because the filter compares one column alone
  (`api/inventory.py:358`).  They are the only ones: `BrushLists`.
* The page loop of Mazda may stop early (`WalkReadsAll`); geocoded dealers may be lost
  to a deadlock though counted (`AnswersAreKept`).

## 5. What is proved

For any sets of ingest jobs, geocode jobs and requests, from `JobsAssumption` alone
(the two sets of jobs are disjoint and `NoJob` is none of them):

* `TypeCorrect`, `VerdictsAreTrue`.  `JobInv` is inductive: `StageInv` ties the worker's
  place to what it has written, `NamesInv` says that whoever is named by a live key, a
  failing worker or a request was created, `RequestsTrue` that requests only
  carry true verdicts, and `QuietInv` that nobody takes a geocode run for
  finished while its result may still turn into a failure.  Without `RequestsTrue` a
  request could write what is no longer true; without `NamesInv` a row could be
  closed that was never created.
* `ImplementsHistory`, `RunsAreNeverReopened`.  Each action maps to one action of `RunRow`
  or to a stutter (`HistoryStep`); the history never reopens a row.
* `WorkersVerdictStands`, `PendingJobsAreLeftAlone`.  `StandInv` is inductive relative to
  `JobInv`: `RqInv` ties RQ's record to the stage, `SharedInv` limits whom a failing
  ingest may name, `UndecidedInv` says that nobody takes a run for closed
  before its worker may have closed it, `FinishInv` that requests about to close a row
  agree with the worker.
* `CancelsAreFresh`.  `FreshInv` is inductive relative to `JobInv`: start_geocode deletes the
  flag before the job can meet it, so a flag that is met was written later.
* `GeocodeVerdictsAreFinal`.  `AgreeInv` is inductive relative to the two: whoever takes a
  geocode run for closed agrees with its row, or will fail a row that is active.  It needs
  `VerdictStands`: RQ says "finished" only of a run whose worker has saved its verdict.
* `TurnsAreTaken`, from `SourcesAssumption`.  Who asks holds all locks of its stage, who
  works without locks holds none, and the browser's lock comes before that of Google Maps
  (`TypeOK` and `SlotsInv`, which are inductive together).
* `ManagersReportTruly`, `IngestVerdictsStand`, `CancelsWereAsked` of the thread mode,
  from `ThreadsAssumption`.  `ThreadsInv` is inductive.  `VerdictInv` (thread, progress,
  overviews and row agree on an ingest) and `CancelInv` (every trace of a cancelled
  verdict leads to a cancel() of that job) are inductive relative to it.


The invariants below were checked by TLC as invariants of the runs before they were proved.

* `StuckWasUnprepared`.  `StuckInv`: geocoding shown as running has told nobody how it ended, and
  no overview carries a verdict for it.
* `SerialRebuilds`, `SettledPointers`, `InventoryNeverShrinks`, from `RunsAssumption` (a finite set of
  vins, any number of ingests).  `RunsInv` becomes inductive with `TransactionsInv`: an ingest
  holds no transaction between its units, and only who has inserted pointers is about to
  commit.  The argument is about locks: from the INSERT that reads the runs to its commit no
  other ingest saves a page or touches the pointers, so what it inserted is still right.
* `IngestTypes`, `HiddenOnlyAfterFullRead`, `CompleteRunsAreExact`, `CompleteRunsAreShown`, from
  `ToyotaAssumption`.  `Ordered` (types and the order of a run's steps) is inductive;
  `HidesInv` relative to it: what a transaction has hidden is of its model and was not in
  its snapshot, and no two transactions write the same vehicle.  `CleanInv` follows the fetch of an undisturbed run:
  the listing up to the cursor is in its snapshot, so that after the last page, by the
  arithmetic of the page count, all of it is.  `PointersInv` is the lock argument of `InventoryRuns` for whole rebuilds.
* `PagesAlways`, `PagesKept`, `PercentKept`, `WalkReadsAllKept`, from `PagesAssumption`.  `PagesIInv` is inductive:
  `CountsInv` and `StoredInv` tie the ZIP counters and the carlines read to the vehicles stored,
  `PercentInv` says that, from the look-up on, the percentage is never ahead of the work done, so that none of the places
  that compute it can go back, and `WalkInv` says that, while the site stands still, the vehicles
  seen are those of the pages read.  The listing is one order: a row with k rows ahead of it is
  row k + 1 (`Ranks`), pages with rows behind them are full (`PageFull`), and no estimate stops the
  walk at a full page that is not the last (`StopsAtEnd`).
* `ListingsAlways`, `FacetsAreTrueKept`, `PagesAreTheExportKept`, `PricesAgreeKept`, `StatisticsAreTrueKept`,
  `BrushListsKept`, from `ListingsAssumption` (finitely many vehicles, dealers that are known, a table of
  states whose codes are codes of themselves).  Nothing is assumed of `Class` and `Meant`: any names,
  any spellings.  `ListingsIInv` is inductive: what has been read is the beginning
  of the list, unless an ingest has committed or the brush was taken away, and a brush is of the metric of
  the chart.  `BrushLists` of a second bar needs that a bar lies within the range of the prices it was
  made of (`BarWithin`), so that it lies within the first one.  The list has one order, because `Before` is a
  strict total order (the VIN decides) and a strict order of a finite set has one enumeration
  (`OneOrder`: the place of a member is its rank).  Facets and list are compared filter by filter
  (`FacetsLead`), counts by the sets they count, which are those of all groups of a name (`CountOfIs`).  The statistics need that `SumFunction`, which adds up
  in an order that CHOOSE picks, does not depend on it (`SumIs`): then sums over disjoint
  groups add up (`SumOfGroups`), and the median has half of the values on either side, because
  the ranks below the middle are half of all ranks (`MedianHalves`).
* `SpareTheSite`, `FailForCause`, from `ClientAssumption` (at least one attempt and one refresh).
  `BudgetInv` adds up what the nested loops may still spend: posts and refreshes made are at most
  those of the attempts begun.  `CauseInv` is what a request has to show if it failed now; with a token too old it is either trouble or a
  challenge still to be answered by the refresher.
* `QueuedIsFound`, `JobsRunOnce`, from `FleetAssumption` (`NoJob` is no job).  `RepairsInv` says that a repair
  under way has ids in hand.  `OnceInv` counts: a job that no repair has doubled has one place, in
  one of the lists or with one worker.
* `CountedAnswersAreKept`, `CancelStopsTheBatch`, `CompleteRowsAreLeft`, from `BatchAssumption` (a finite
  set of dealers).  `LocksInv` keeps the two transactions apart; `ThreadsInv` says that each dealer's
  answer waits once, so that the counter is the number of dealers taken (`TakenInv`) and a
  batch that has counted all has taken all; `LossInv` bounds the rows held by the remainder of the
  counter modulo the commit interval; `ListedInv` and `GoodInv` follow a row from the list to
  the commit.  The steps of syncs and the administrator need one lemma only (`OutsideRows`): they
  leave the batch's transaction, or take all of it, and touch every row they change.

These theorems hold for any values of the bounds (`MaxRun`, `MaxChanges`, `MaxEntries`,
`MaxRequests`, `MaxSyncs`, `MaxChosen` and the like), so for as many steps as one likes.

Only model-checked:

* Liveness, which needs fairness and ENABLED and is out of TLAPS's reach: `RowsClose`, `LiveSettles`,
  `ReportedRunsClose`, `EveryRequestEnds`, `BatchEnds`, `EveryThreadEnds`.
* The violation is a TLC counterexample.

## 6. Not modelled, and what is left

* Worker status, make registry, configuration, logging, the ingest router and the command line
  decide nothing or keep no state.  The progress log is a slice of the last 300 entries.
* Parsing of catalog, vehicle details, images, colours, stages; addresses and the matching of
  geocoder answers with dealer names: text without state.
* The start-up of the web process (`api/web.py:82`): the pointers it repairs are never committed, so
  nothing changes.
* Pages, login, image proxy, templates, vendored scripts.
* The frontends: `Listings` has the requests, the choices and the histogram; lists that arrive late, the
  image cache and the admin page's poll timer are not modelled.
* The listing that shifts between two Toyota pages: `CompleteIsExact` promises nothing of a site
  that changes; the next ingest repairs it.

What the proofs leave open.  Every invariant and every safety action property of a passing run
is proved; liveness is not.  Facts about
sums, orders and ranks are induction over data; they are proved in the form of least counterexamples
(a set of numbers, or of finite sets, that is not empty has a smallest member), which needs
no operator as a parameter.  `ToyotaIngest` and `InventoryRuns` describe the same tables apart, and no theorem
says that a fleet of `Listings` is one that `InventoryRuns.Shown` can name: `Listings` takes any.

A trap for who extends the proofs: tlapm reads `UNION A \cup B` and `SUBSET A \ B` with the prefix
operator outermost, SANY and TLC the other way round.  The modules put parentheses there.

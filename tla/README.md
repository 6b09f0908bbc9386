# Duvycrawl in TLA+

A verification project for the crawler in `src/`: TLA+ modules of its
concurrent and failure-prone parts, TLC runs on small instances, and TLAPS
proofs for every value of the constants.

`PROJECT.json` lists, for each definition, the lines it models; the runs; the
mutants that show each property has teeth; the hazards; the findings.

## 1. The system

A process `cmd/crawler` owns one engine with a fixed number of worker
goroutines, an in-memory frontier, three SQLite files and an admin HTTP API. A
second process `cmd/search-api` only reads.

| Part | State | Operations | Talks to |
|---|---|---|---|
| queue (`internal/queue`) | jobs per domain sorted by score, Bloom filter, `nextID`, `workerWaiters`, a condition variable | Enqueue, EnqueueBatch, EnqueueBatchDirect, EnqueueRetry, MarkSeen, DequeueWithWait, StartPeriodicWake | calls `readyFn` (limiter) with its mutex held |
| frontier (`internal/frontier`) | counts per URL fingerprint | Add, AddBatch, AddBatchDirect, Retry | queue, pages table |
| engine (`internal/crawler/engine.go`) | status, workers, render backlog and its keys | Start, Stop, worker loop, processJob, processRenderBacklogItem, retryOrFail | frontier, limiter, fetcher, renderer, batch writer |
| limiter (`internal/ratelimit`) | per domain: slots taken, cooldown end | TryWait, Wait, MarkThrottled, MarkThrottledFor, IsCoolingDown | called by queue and engine |
| batch writer (`internal/storage/batchwriter.go`) | buffers of pages, links, images | WritePage, WriteLinks, WriteImages, Flush, Stop | content.db, graph.db |
| storage (`internal/storage`) | tables | UpsertPage, IngestPage, StoreLinks, purge, crawl_queue, seeds, search | SQLite |
| renderer (`internal/render`) | browser slots | Render, Close | engine |
| scheduler (`internal/scheduler`) | ticker | tick | storage, frontier |
| fetcher (`internal/crawler/fetcher.go`) | per host: throttles in a row, earliest next request | Fetch with retries and backoffs | proxy manager, DNS cache |
| proxy manager (`proxy_manager.go`) | per proxy: health, failures; a monitor | GetClient, MarkDown, checkProxy | fetcher |
| robots and DNS caches (`robots.go`, `dnscache.go`) | entries with a TTL, one mutex per host | IsAllowed, Lookup, prune | engine, fetcher |
| domain statistics (`domainstats.go`) | counts per domain | Record, Flush | engine, crawler.db |
| search (`internal/storage/sqlite_search.go`) | result cache, word cache, clicks | SearchPages, RecordClick | content.db |
| admin API (`internal/api`) | none | start, stop, ingest, crawl, search, interact | engine, storage, frontier |
| main (`cmd/crawler`) | | start-up, seeding, shutdown | all |

Shared state and where it is protected: the queue and the batch writer have one
mutex each; the limiter a mutex for cooldowns and a channel for slots; the
render backlog a mutex; **Engine.Start and Engine.Stop have none**.

### What is hard

* Waiting: a worker sleeps in the queue until somebody broadcasts. Cancelling
  the context, freeing a limiter slot and filling the render backlog do not; a
  500 ms ticker does.
* Check, then act: `Start`, `Stop`, `TryWait`, "is the frontier empty" read
  something and act on it later.
* Ownership: a job moves between queue, worker and render backlog, is retried,
  merged, deferred and dropped.
* Two databases and two commits, retries of half-finished flushes, kills.
* Shutdown: main, the API and the workers must agree on who is last.
* Caches filled by several goroutines, with failures cached as answers, while a
  janitor, a monitor or a Stop works on the same entries.
* A search is four lookups, up to seven statements for rows and a count for each
  plan, over a database that changes in between, and each may time out or fail by
  itself; some of the lookups are cached for a day.

### What makes each part correct

* queue: dispatch order, deduplication, no lost wakeup, no job given twice, all
  leave after a cancel, every job served;
* engine: a job is in one place, it comes to an end, Stop returns, the render
  backlog is consistent and served;
* limiter: rate and cooldown kept under all interleavings;
* storage: what was accepted is stored, links and images belong to their page;
* lifecycle: one pool of workers, nothing left untried at exit, exit reached;
* frontier: a known page stays out and a new URL comes in once, whoever discovers
  them and whatever lookup fails;
* robots and DNS caches: one request per host at a time, a permission given by an
  error does not last, no mutex is kept;
* fetcher and proxy manager: a throttled worker keeps its backoff, a dead proxy is
  left, a living one comes back, Stop does not hang;
* search: no match is missed without a reason, ranking loses and repeats nothing,
  a wrong answer in the cache does not stay;
* scheduler and crawler.db: a stored request and a seed that is due reach the
  frontier, a recrawl keeps its interval, pages are counted exactly.

## 2. Modules

| Module | Models | Checked by | Proved in |
|---|---|---|---|
| `JobPool` | what the queue promises (abstract) | through `CrawlQueue` | |
| `CrawlQueue` | `queue.go` and the workers blocked in it | `MCCrawlQueue` | `CrawlQueueProofs` |
| `Engine` | `engine.go`: worker loop, retries, render backlog | `MCEngine` | `EngineProofs` |
| `DomainLimiter` | `ratelimit.go` and the requests made with its slots | `MCDomainLimiter` | `DomainLimiterProofs` |
| `PageStore` | `batchwriter.go`, ingest, start-up purge, kills | `MCPageStore` | `StorageProofs` |
| `Lifecycle` | Start and Stop racing, main's shutdown | `MCLifecycle` | `LifecycleProofs` |
| `Frontier` | `frontier.go`, its callers, `seedBloomFilter`, `seedURLsFromConfig` | `MCFrontier` | `FrontierProofs` |
| `Scheduler` | `scheduler.go`, `domainstats.go`, the tables of crawler.db | `MCScheduler` | `SchedulerProofs` |
| `FetchWorkers` | the places of a worker between job and job, and Start and Stop, shared by the next five | through those | |
| `RobotsCache` | `robots.go` | through `HostCaches` | |
| `DNSCache` | `dnscache.go` | through `HostCaches` | |
| `HostCaches` | both caches between Start and Stop of the engine | `MCHostCaches` | `FetchPathProofs` |
| `ProxyManager` | `proxy_manager.go` | through `Fetcher` | |
| `Fetcher` | `fetcher.go` with its proxies, between Start and Stop | `MCFetcher` | `FetchPathProofs` |
| `Search` | `sqlite_search.go`: SearchPages and its caches, clicks | `MCSearch` | `StorageProofs` |

The modules meet at these seams: `JobPool` is what `Engine` and `Frontier`
assume of the queue (a set of jobs, a count per URL); `DomainLimiter` is the
`ready` of `CrawlQueue` and the throttling of `Engine`; `PageStore` is the
`buffered` and `pages` of `Frontier`; `AddBatchDirect` of `Frontier` is the
`Enqueue...` steps of `Scheduler`; `HostCaches` and `Fetcher` are what a fetch of
`Engine` does before it ends in one of its outcomes; `PageStore` is the `Store` of
`Search`.

A definition whose name begins with `Bug` is a plausible slip in the definition
after it. It is not part of any specification; replacing the one by the other
must break the property named in `PROJECT.json`.

### CrawlQueue and JobPool

`domains` is the map of sorted slices, `bloom` the keys that test positive
(adding a key may turn others positive), `batch` the batch call that holds the
mutex. Every operation is one step because of the mutex, except the loops of
the batches (one step per job, so that a sleeping worker could be missed half
way) and `DequeueWithWait`, which is four: `CheckContext` reads `ctx.Err()`
without the mutex, `TakeJob` or `Park` run under it, `Relock` is the way out of
`cond.Wait`. The order in which `dequeueLocked` tries the domains depends on a
random map order and a rotating offset, so any ready domain may be chosen.
`ready` abstracts the limiter; `sleptAt` and `admitted` are history.

`JobPool` has no mutex, order or waiting: admit a new key, readmit, mark,
take the best job of a domain. `CrawlQueue` implements it with
`pending <- QueuedJobs, seen <- bloom`.

### Engine

The queue is a set of pending jobs with the parking behaviour kept. `hand` is
what a worker works on, `open` the jobs the crawler took in and is not done with;
a job that is done may be taken in again, so arrivals never end by a bound. A
fetch or a render ends in one of `GiveUp`, `Persist`, `Fail`, `Throttled` or
`enqueueRenderBacklog`: each is a whole path through `processJob` or
`processRenderBacklogItem` to the top of the loop. A worker at `wait` holds a
render item and decides as the code does: dropped if the context ends while it
waits for its time, deferred if jobs are pending. `NothingPending` is the read of
the pending count (engine.go:650); at `slot` the worker waits for the renderer,
and jobs may arrive before it gets a browser, is refused one (then pushed back or
retried) or sees the context end. `Stopped` closes the renderer for good, as `Stop`
does, so renders after a restart only fail.

### DomainLimiter

Time is a counter. `TryWait` is three steps, as in the code: read the clock;
look at the cooldown under the lock; take a slot without it. A slot carries the
earliest time its goroutine may give it back; it may be later. `grants` is the
history of slots given. `MarkThrottledFor` replaces whatever cooldown there was,
also by a shorter one; `MarkThrottled` is the call with the default length, and the
only one the crawler makes. `Wait`, `IsCoolingDown` and marks of other lengths have
no caller in the crawler; they are in `Next` and not in `CrawlerNext`.

### PageStore

A version number stands for what one crawl or ingest of a URL found, one row of
`links` for all links of a version. A flush holds the writer's mutex and the
only write connection of content.db, and is one step per page, one for the
graph transaction and its commit, one for the content commit. Its transaction
is in `flush`; a rollback forgets it, together with the AUTOINCREMENT counter.
Errors: a page's upsert (skipped with a warning), anything that ends the flush
(buffers kept), a step of the purge (engine starts all the same). `Crash` may
happen anywhere and forgets what is in memory. The flush a call makes when a
buffer is full is `BeginFlush` right after the call. Every URL is its own
domain. `fingerprint` updates in the flush are dead code: the column is not
unique.

### Lifecycle

`Start` is four steps and `Stop` six, taken by main and by the goroutines the
API handlers spawn after their own check of the status. A worker is
`<<generation, index>>`; `cancel` is the generation `e.cancel` would cancel,
which is the last one only. `buffer` says what the BatchWriter holds: nothing,
something no flush has tried to write, or only what a flush has tried and failed to.
Every flush, that of the ticker, of Stop and of main's end, may fail; its error is
logged and whoever asked for it goes on. `Patient` says that nobody calls Start or Stop (or
sends a signal) while another call is under way.

### Frontier

Discovered links pass four looks: the fingerprint count (under `fpMutex`), the
Bloom filter, the pages table, and the Bloom filter again inside the queue.
Each is a step, so other goroutines enqueue, crawl, flush and ingest in
between. `KeyOf` is `FingerprintURL`, `Final` the URLs a page may be stored
under after redirects and `rel=canonical`. `Add` is an `AddBatch` of one link
that returns the error of its lookup instead of going on. `Exit` ends the
process anywhere, with the memory lost; `seedBloomFilter` begins the next life,
with both of its error paths. A row of `discovered_resources` is refused when
another URL of its fingerprint has one. `admitted` counts how often each URL was let
in, and is history like `known`.

### Scheduler

Every SQL statement or transaction of a tick is a step. A row of crawl_queue is
`none`, `pending`, `claimed` or `stalled` (claimed more than 30 minutes ago). A seed
has its interval, `last` is how long ago it was enqueued, and it is due when that is
longer ago; the same holds for homepages and the interval of the configuration
(`cfg`). Between two statements other processes
store requests, the API adds and deletes seeds, workers record pages, a flush
of the statistics reads a row and writes it back, any statement fails, and the
process ends and starts again: with other excluded domains, whose rows are purged,
and with other intervals. Adding a seed that is there, by the API or from the
configuration, overwrites its interval and keeps the time it was enqueued. Nothing in `src/` calls `EnqueueURLsDirectly`:
crawl_queue is filled by other processes, and the scheduler's comment names
the Search API. `waiting`, `recent` and `recorded` are history.

### FetchWorkers, RobotsCache, DNSCache, HostCaches

A worker has a place and the domain of its job. In the robots cache it looks,
waits for the mutex of the domain, looks again, fetches, and stores whatever came
of it: rules, "no file", or "failed", the last two permitting everything for the
whole TTL. A DNS entry is an object of its own, because a worker keeps the one it
found, and the mutex in it, while `Prune` takes it out of the map; an object that
neither the map nor a worker refers to is used again (`Unused`), which is why
`DNSAssumption` asks for enough of them. `Stop` cancels the context; an answer that
had come already is still used, so any answer stays possible. `Stopped` is the end of
the engine's Stop; in `CachesClose` it closes the DNS cache for good, in
`FetcherIdle` it waits for the monitor. `pruned` is history.

### ProxyManager and Fetcher

`Status` and `Failures` are atomics: each load and store is a step, except where
the later one alone decides. `GetClient` reads one status at a time. A request
ends in one of four ways: `Answered`, `Throttled` (429, 503), `Refused` (an error
that counts against the proxy) and `Dropped` (one that does not).
`NextAttempt` is the end of the loop's body, `ReadBackoff` its beginning:
`nextAllowed` is read once and slept for together with the pause of the attempt.
`BackoffDelay` is the table of the shifts of `backoffBase`, which ends after
`MaxShift`. Time is what remains of each delay, and `Tick` takes one unit off all.
`owed` is history: from the end of a failed attempt on, what the worker owes its
host: the backoff the host has then, and after it the pause of the attempt. As long
as the worker has not read the backoff, another worker's throttle may put a shorter
one in its place, and then that is owed; a success puts nothing in its place.
`EndMonitor` may lose the select against the ticker.

### Search

A page is a number. What a text matches and what a page is worth for it are
constants, but constants of all they depend on in the code: the plan a page matches
(`Level`) of the statistics of the query's words, because a plan holds the words the
statistics put first; `Bm25` of the statistics, the plan and the pages in the index,
because FTS5 computes it for one MATCH expression over one index; the rest of the
score (`Worth`) of the statistics and of the intent.

A search begins with its lookups, as `SearchPages` does: `AskWord` (is the word in the
vocabulary, cached for a day), `FindDomain` (is the unknown word a domain),
`CountDocs` and `LoadIDF` (the statistics, cached for a day, a guess if the count
failed). Then come the plans in order, each with rows (`PlanRows`), a count
(`CountRows`) and the early exit, and the extra statements for fresh, platform and
navigational queries; then merging, reranking, promotion by language, filters,
diversity, paging, and the cache. Every statement after the look at the result cache
is a step that may succeed, fail, or find the search's own ten seconds over, and a
plan may time out by itself; three things are not steps: the words
of a text are one word with one cache entry; `splitCompoundTokens`, which asks the
vocabulary while the text is parsed; and `loadResultBodies`, which reads what the
answer shows. Between steps pages are stored or written again with or without a
description (`Rewrite`; the snippet decides between copies in a merge), clicks are
recorded, and cache entries expire or are refused; a page is clicked at most
`MaxClicks` times for a text.

`mergeSearchCandidates` keeps of the copies of a page the one with the best score.
That need not be the one of the strictest plan, because a looser MATCH expression may
give a page the better bm25; the page then gets the looser plan's mode. `before`,
`hindered`, `touched` and `tidy` are history. `Reference` states what an undisturbed
search should return, limits included, at once and without a search's state: the plan
to stop at (`RefRun`), the leading copy of every page (`Leads`), and the extra rows of
the stages.

## 3. Runs

| Run | Bounds | Shows |
|---|---|---|
| `queue` | 2 workers, 2 domains, 2 URLs, 2 scores, 2 jobs, batches of 2 | order, deduplication and wakeups, `RefinesPool` and the two liveness properties |
| `engine` | 2 workers, 2 jobs at a time and any number in the long run, 2 domains, 2 render keys, 1 retry, 1 busy attempt, 1 browser, 2 starts | `OnePlace`, `NoStrandedRender`, `StopCompletes`, and `JobsEnd` once arrivals end |
| `limiter` | 2 callers, 1 domain, parallelism 2, delay 2, jitter < 2, cooldowns 1 and 2, 6 instants, 3 grants | rate and cooldown, and that only a mark shortens a cooldown |
| `store` | 2 URLs, 1 image, 2 versions, 2 errors, 2 starts | nothing buffered is lost, links and images are there and belong, `PagesStored` |
| `store_links` | 2 versions, 1 error | *violated*: links under another page's ID |
| `lifecycle` | 2 callers, 3 workers, 5 requests, auto start | when calls do not overlap: `WorkerLimit`, `Exits`, and `NothingForgotten`: only a flush that failed loses anything |
| `lifecycle_exit` | 2 requests, 2 workers, fair | *violated*: shutdown never ends |
| `frontier` | 2 callers and main, 4 URLs (one a seed, two with one fingerprint, one blacklisted), batches of 1 link, 1 request, 2 errors per life, 2 starts | deduplication, with false positives |
| `scheduler` | 2 URLs (one a configured seed), 2 domains, 2 pages of one, 2 intervals (one of them 0), 1 outside request, 1 error, 1 restart, fair | requests kept, recrawls at their intervals, exact counts, `RequestsHandedOver` and `SeedsRecrawled` |
| `caches` | 2 workers, 1 domain that keeps crawlers out, 3 entry objects, 2 starts | one request at a time in both caches, rules apply in the end, nobody is stuck |
| `fetcher` | 2 workers, 1 host, a proxy and the direct connection, threshold 2, 1 retry, delays of 2 ticks with jitter 1, 1 start | `BackoffHonoured`, with backoffs of 1 and 2 ticks that replace each other, `Failover`, `Recovery`, `StopReturns` |
| `search` | 5 pages of 3 domains and 2 sites, 1 client, 1 click, candidate limit 4; a behaviour is about one of two kinds of text: one that looks for fresh pages of a platform (its second page of two), or one that may name a domain, typed in two ways | completeness, ranking, exactness against `Reference` with all lookups and their caches, `CacheConverges` |

Why the bounds are enough to be interesting: two workers race for a job or a
slot, fill the single browser slot and hold the same render key; two jobs put
equal or different scores in one slice (the same URL may be injected or retried
again) or a job in two places at once; three grants exceed the parallelism, and the
third follows a late release; two versions are two crawls of one URL or a
crawl and a concurrent ingest; one error splits the two commits and a second
hits the repetition; two starts include a purge of data written before, or
pages known from an earlier life; one restart cuts a tick short at every
statement; two workers miss a cache together, and three objects let both look up
one host while a third entry is in the map; two starts let a permission cached by a
Stop meet the next run; two workers reach a failure threshold together while a
health check of the same proxy is between its answer and its store; four pages
stored, and a fifth that may come, fill and overflow the scaled-down limits, the
early exit, the diversity window and a page of results, and the row limit cuts
undisturbed searches too; one client suffices because
searches meet only in the caches, which a second client would fill as the first
one's next search does, and one kind of text at a time (`asked` in `MCSearch`) because
the caches are kept per text. One case is outside the bound of `engine`: a render item pushed back
while another with its key is in the backlog takes three jobs; the proof of
`BacklogKeys` covers it. The
safety properties of the queue, the engine, the limiter, the frontier, the
scheduler, the page store, the search, the caches, the fetcher and the life cycle
do not depend on these bounds at all: section 4 proves
them for every value.

What the liveness properties do not say: `JobsServed` is about a finite number of
jobs, and `JobsEnd` assumes that arrivals end. Under endless arrivals the code
promises nothing of the kind: a job waits behind better ones of its domain, and a render
item is put back each time something is pending (engine.go:305, 650-653), so on a
frontier that never drains pages are never rendered. `RequestsHandedOver` counts a
request as waiting only if it was stored: one that `INSERT OR IGNORE` swallows,
because the row of an earlier request for its URL has been offered and not yet been
deleted by `CompleteJob`, is not. `Failover` rests on a second path that is direct and
never marked down: of two real proxies, both down, GetClient returns the first.
`NoGrantInCooldown` says nothing of the 429 that arrives between another caller's look
at the cooldown and its slot (ratelimit.go:107). `Recovery` does not say that a living
proxy is never marked down, nor `SingleFlight` that a host is not looked up twice at
once when its entry is pruned in between (dnscache.go:139); the code lets both happen.

Type invariants and smaller invariants that are proved are not
run a second time, save those a plausible bug breaks first. Symmetry (of callers) is
used in the limiter and frontier runs only, which check no liveness. Deadlock is not
checked: a stopped crawler may stay stopped, and the bounds end every
behaviour.

Two effects of Stop are in the model and are not stated as properties, because
the code means them: a worker that has dequeued a job when the context ends
drops it (engine.go:322), and a render item that is waiting for its time is
dropped too (engine.go:643); both leave `open` in `Engine`, and `JobsEnd` is about
running engines. The race of two Starts that `lifecycle_exit` shows also gives the
crawler two pools of workers: `WorkerLimit` and `NothingForgotten` hold under `Patient`
only. Nor does the code keep what getting-started.md:159-163 says of a shutdown
("Workers finish the current page", "No data is lost during shutdown"): a signal during
an API stop or start makes main's `Stop` return at once, and the process ends with
workers at their pages (engine.go:190); and without any overlap a final flush that fails
is only logged, and what it should have written is lost (batchwriter.go:137,
engine.go:203-207). `buffer = "failed"` in `Lifecycle` is that loss, and
`NothingForgotten` says that there is no other.

A Stop that lasts is the subject of `StopReturns`: workers sleep out nothing once
the context is cancelled, and the monitor leaves after its last round.
`RulesApplyInTheEnd` and `CacheConverges` are what is left to promise where the code
caches failures: a permission given by an error, a Stop or a timeout is used until
its TTL ends, and then no more, provided the cause has gone.

Other places where the code does not do what one may expect, met while modelling
and not run as findings:

* the limiter bounds the rate and not the requests at one time: a slot is given
  back after its delay although the request still runs (ratelimit.go:114,
  config.go:89);
* one page of a fingerprint keeps out all others: the Bloom filter that is asked for
  the fingerprint knows it from the first page on (frontier.go:114), so that the number
  of pages per fingerprint (config.go:131-134, default 10000; "Relax Fingerprint
  Deduplication", migrations.go:184) is never reached. `AdmittedOnce` is about URLs and
  does not depend on it;
* the links of purged pages stay, because the graph purge looks for pages the
  content purge has deleted (sqlite.go:377, :348); URLs discovered under https are
  not purged either (sqlite.go:430);
* the bonus for pages of a domain that a text names orders the rows of the statement
  and decides which of them its limit cuts off, and is in no candidate's score
  (sqlite_search.go:693);
* a number of documents that could not be read is guessed, and the IDF values that
  come of the guess are cached for a day (sqlite_search.go:574, 629);
* clicks are stored under the normalised text and read under the text as typed
  (sqlite_search.go:697, :2784): `Search` has both, and the text "Shop" shows the
  answer of one form cached for the other;
* an unsupported content type is looked at before the status, so a throttled
  answer of such a type counts as a success (fetcher.go:186);
* a crawl that is still buffered overwrites a newer page of an ingest
  (batchwriter.go:62); direct injections do not enter the Bloom filter
  (queue.go:188); a seed added through the API without an interval is due at every
  tick (handlers.go:417); GetFreshURLs compares times in two text formats
  (sqlite_crawler.go:266).

The *violated* runs state what a comment or a page of the docs says; the
findings in `PROJECT.json` quote it and describe the counterexample.

### Fairness

* Workers: the Go scheduler runs every runnable goroutine. In `CrawlQueue` it
  is strong fairness, because another goroutine may hold the mutex now and
  then; `sync.Mutex` hands itself over to a waiter that has waited 1 ms.
* The ticker of `StartPeriodicWake` ticks until main's context ends, which is
  after Engine.Stop has returned.
* A slot is given back after its delay, a cooldown ends, a request and a render
  have timeouts, a flush has one and is repeated every two seconds.
* The scheduler's ticker ticks on, and a lock gets old.
* SQLite errors are finitely many: they are transient. In `Search` any statement
  may fail forever; `CacheConverges` says what holds once they stop.
* Requests, lookups and health checks end, as all have timeouts; a mutex that is
  free again and again is got (the robots and DNS caches wait for mutexes); time
  passes and cache entries expire. In `HostCaches` a request ends in `Done` in the
  end, because `Fetcher` counts its retries. The monitor's `select` between its
  context and its ticker is random in Go: strong fairness for `EndMonitor`.
* A search goes on: weak fairness for its next stage or plan, whatever the
  statement returns.
* Producers, API calls, signals and Stop are never forced.

## 4. Proofs

All theorems are for arbitrary finite sets and bounds, under the assumptions
named `...Assumption` in the modules (finite workers, natural bounds, functions
with the right domains).

`CrawlQueueProofs`. The inductive invariant adds to the listed properties:
identifiers are fresh (every queued or held job has an ID not above `nextID`),
a worker holds a job exactly while busy, jobs are filed under their domain, an
admitted key is in the Bloom filter (hence never admitted twice), and the
wakeup property while a batch is running: a sleeper may miss jobs of the open
batch only, and then `added > 0`, so that the batch's last step broadcasts.
`PriorityOrder` rests on `InsertAtProperties` (what inserting at a position
does to a sequence) and on IDs growing. The refinement maps `Enqueue`,
`EnqueueBatchInsert`, `EnqueueRetry`, `MarkSeen` and `TakeJob` to steps of the
pool and everything else to stuttering; that the job taken is the best one of
its domain is `PriorityOrder` again.

`EngineProofs`. `OnePlace`, `BacklogKeys` and `NoStrandedRender` are inductive
together with `HandPlaces` (a worker has something in hand exactly at the
places where the code has) and `IdleExited` (an idle engine's workers have
exited). For `NoStrandedRender`: whoever puts something in the backlog is on
its way to the top of the loop, and a worker sleeps only after it has seen an
empty backlog or a pending job.

`DomainLimiterProofs`. For the rate: a grant younger than the delay still has
its slot (`SlotHeld`), the slots of a domain are at most the parallelism, so
the grants of a window that ends now inject into the slots. For the cooldown:
what a caller saw at its first step is a lower bound on the clock it compares
(`CoolingSeen`), also when others clear or renew it. That the calls the crawler makes
shorten nothing (`CrawlerShortensNothing`) follows from marks of one length: a running
cooldown ends at most that length from now (`CooldownBound`).

`FrontierProofs`. `AdmittedOnce` needs `AdmittedSeen`: the filter has the
key of everything let in, and forgets nothing while the process lives, so the
test inside the queue's lock decides whatever was seen before. For
`KnownNotAdmitted` the invariant is `TwoStages`: the filter has every page known
at start-up, or start-up failed and then nobody who is past a lookup holds a
known page unless that lookup failed too, which is the second error.

`SchedulerProofs`. `RequestKept` needs `ClaimHeld`: the rows in a tick's hand
are claimed until that tick deletes them, and as long as a row is there no new
request for its URL can be stored, so what is deleted has been offered.
`RecrawlOnce` needs that what is marked as enqueued is not past its
interval, through changes of the interval, the purge and restarts (`MarkKept`), and that
a tick takes only what is past it,
`CountsExact` that the count a flush has read is still true when it writes
(`ReadCurrent`).

`FetchPathProofs`, caches. `SingleFlight` needs that a worker at a fetch or a lookup holds
the mutex of what it fetches (`FetchLocked`, `LookupLocked`), and that a DNS entry
somebody looks at is the one in the map or has been pruned (`FoundKnown`). That a
new entry is never one in use is a pigeonhole argument over workers and domains
(`UnusedExists`), from the size of `Entry` in `DNSAssumption`.

`FetchPathProofs`, fetcher. `BackoffHonoured` needs `OwedCovered`: what a worker owes to the
host is at most the host's `nextAllowed` and its own pause until it has read the
backoff, and at most its own sleep afterwards, and it owes nothing anywhere else. A
throttle that puts a shorter delay in the place of `nextAllowed` shortens what those
who have not read it yet owe by as much; a success leaves `nextAllowed` alone.

`LifecycleProofs`. Under `Patient` the actors take their calls one after the other
(`OneCall`), all workers belong to the context that Stop would cancel
(`OneGeneration`), an idle engine has none (`StatusTells`), and once main's Stop has
returned the engine stays idle and nobody writes (`ShutdownOK`), so that after the
final flush the buffers hold nothing new. The two theorems read `Patient =>`; without
it they are false, as section 3 says.

`StorageProofs`, page store. `IInv` adds to the three properties what a flush in its
middle may rely on. `IDsOK`: no two rows share an ID and none is above the counter, in
content.db and in the view of the open transaction, whose counter may be rolled back.
`FlushExtends`: that view differs from what is committed only by the pages of the
batch. `ImagesKnown`: an image has an ID that was committed, or that the purge has
already taken its pages from, so an ID given back by a rollback never had an image.
`BatchCovered` and `AllDone`: every page of the batch is still to do, done or skipped.
`Relinked`: between the two commits the links of the batch are in graph.db under the
IDs the content commit is about to make true. `NothingOwed` and `Purging`: after a
kill nobody owes anything, and a purge works in an empty process.

`StorageProofs`, search. `SearchInv` ties the pool of a running search to its history:
rows have distinct IDs and are stored pages, and if nothing hindered the search, every
plan behind it has left in the pool all matches that were stored at its start, or so
many rows that the early exit would be reached (`BestEnough`: ORDER BY with a LIMIT
returns everything or a full set). `ExactInv` says more of a search nothing was
written under and no outdated lookup has entered: its intent and statistics
(`LookupExact`), its pool and total (`PlanExact`) and what the later stages add
(`StageExact`) are the reference as far as the search has come. The pool before a plan
is that of the leading copies of the plans run so far (`PoolBefore`, `TotalBefore`).
Merging in the rows of the next plan gives the leading copies of one plan more
(`MergeLeading`): the copy in the pool has the best score so far, in the strictest plan
that has it (`LeaderExists`, `BestOf`), a new copy replaces it exactly if its score is
greater, and the snippet decides nothing, as all copies of a page have the same one
while nothing is written (`HeirSame`). A plan that has rows is
reached by the search exactly if it is one the reference runs (`PlanReached`). A cached answer stays the reference until
something is written.

`RankingSound` is about the operators and not about the steps. A list that holds the
elements of a set once each (`Lists`) goes in and comes out of every stage: sorting by
a strict order enumerates a finite set (`SortedAll`, as no two elements have equally
many before them), hence `RerankLists`, `PromoteLists` and `KeptLists`. In
`diversifyByDomain`, what is placed and what is deferred are disjoint and together all
there was (`PassingOK`), the first `Top` placed have different domains, and a domain
that is deferred while there is room is among them already (`PlaceOK`, `PassOK`,
`PassesOK`); so what is appended at the end adds none (`JoinOK`). The induction over
candidates and passes, which are recursive functions on positions, is by the least
counterexample (`LeastNat`, from `WFMin`; `UpTo`), and that such functions exist is
`Iterated`: the library's induction theorems take the induction hypothesis as an
operator, these take a set of numbers. `AnswersFit` carries the total over to the
answers in the cache.

Every safety and action property a passing run checks is proved. Only model-checked:
the liveness properties, which need fairness, and of course the violated properties.
The reference that `AnswersExact` compares with is proved equal to what undisturbed
searches compute; that the ranking orders by relevance is in no property. Limits that
cut are in all these proofs; TLC sees the one of 4 rows, below the run's five pages, and
not that of the statement for other sites, which is at least 30.

## 5. Not modelled, and why

* Scorers, spell checker, search profile, parser, site hints, URL filter,
  configuration, search API process: stateless text and floating-point formulas,
  single SQL statements, or wiring.
* In `Search`: how scores and matches come about (constant functions of what they
  depend on), several words of a text with a cache entry each, `splitCompoundTokens`,
  `loadResultBodies`, SearchImages; of a stored page only the description changes, and
  none is deleted. The response cache is third-party code: it may refuse, drop or
  expire an entry.
* In `HostCaches`: the addresses and the rules themselves; GetCrawlDelay and
  ClearDomain, which nobody calls. ClearDomain would also forget a mutex that is
  held (robots.go:217), and `SingleFlight` would not hold with it.
* In `Fetcher`: redirects, cookies, bodies, TLS; PrimaryProxyURL, which only reads.
* In `PageStore`: errors of single link and image statements, power loss (a
  kill keeps what SQLite committed), the tables `search_clicks`,
  `domain_relevance`, `discovered_resources` and crawler.db.
* In `Lifecycle`: the data race on `e.cancel` and the WaitGroup's panic when
  `Add` runs concurrently with `Wait`; the model takes the benign outcome of
  both and still finds the listed violations.
* In `DomainLimiter`: `cleanup`, which removes nothing.
* In `Frontier`: what the canonical form and the fingerprint of a URL are;
  scores and depths. The blacklist is not asked by the ingest handler, which
  stores a page of a blacklisted domain; the model does the same.
* In `Scheduler`: the LIMITs of the queries, the moving average of response
  times, text formats of times.

## 6. Plan

Done, in this order: `JobPool`, `CrawlQueue`, `Engine`, `DomainLimiter`,
`PageStore`, `Lifecycle`, `Frontier`, `Scheduler`, `HostCaches`, `Fetcher`,
`Search`; proofs of all of them, in eight modules.

Left:

1. The queue composed with the engine, instead of the abstract set of jobs.
2. `EditDistance`: the spell checker's two-row algorithm against the recursive
   definition.
3. Canonical URLs and the URL filter as functions on small structured URLs.
4. Search over pages whose words change, or that are purged, while a search runs;
   several words of a text, each with its own entry in the caches.

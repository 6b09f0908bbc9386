----------------------------- MODULE Scheduler ------------------------------
(* crawler.db and the goroutines that live off it: the scheduler's tick      *)
(* (internal/scheduler/scheduler.go), the collector of domain statistics     *)
(* (internal/crawler/domainstats.go) and whoever stores crawl requests and   *)
(* seeds.  Every SQL statement or transaction is a step; between two of them *)
(* the others run, a statement may fail, and the process may end: main does  *)
(* not wait for a tick.                                                      *)
(*                                                                           *)
(* A lock is young or past its 30 minutes; how long ago a seed or a homepage *)
(* was enqueued is a number, which is compared with an interval.  The LIMITs *)
(* of the queries are taken to be larger than the tables.                    *)
EXTENDS Naturals, FiniteSets

CONSTANTS
  Url, Domain, DomainOf,
  Seed,                    \* the seeds of the configuration
  MinPages,                \* DomainRecrawlMinPages or its default
  Interval,                \* recrawl intervals; a seed added without one has 0
  Never,                   \* longer ago than any interval
  MaxRequests, MaxPages, MaxFails, MaxCrashes   \* bounds

ASSUME SchedulerAssumption ==
  /\ DomainOf \in [Url -> Domain] /\ Seed \subseteq Url
  /\ Url \cap Domain = {}
  /\ Interval \subseteq Nat /\ Never \in Nat /\ \A i \in Interval : i < Never
  /\ {MinPages, MaxRequests, MaxFails, MaxCrashes} \subseteq Nat /\ MaxPages \in [Domain -> Nat]

VARIABLES
  row,       \* crawl_queue: "none", "pending", "claimed", or "stalled": claimed long ago
  interval,  \* seed_urls.recrawl_interval_seconds; Never where there is no row
  count,     \* domains.pages_count, 0 where there is no row
  last,      \* how long ago seed_urls.last_enqueued and domains.last_homepage_recrawl are
  cfg,       \* DomainRecrawlInterval of the configuration, 0: no recrawl of homepages
  at, hand,  \* the tick: the next statement, and what it is about
  stats,     \* DomainStatsCollector.stats: pages per domain
  snapshot,  \* what a flush still has to write
  read,      \* the row the flush has read: a domain with its count, or none
  fails, crashes, requests,   \* bounded: errors, ends of the process, outside requests
  waiting,   \* history: URLs requested and not offered to the frontier since
  recent,    \* history: seeds and domains marked as enqueued, and not past their interval since
  recorded   \* history: pages recorded per domain

tables    == <<row, interval, count, last, cfg>>
tick      == <<at, hand>>
collector == <<stats, snapshot, read, recorded>>
bounded   == <<fails, crashes, requests>>
vars      == <<tables, tick, collector, bounded, waiting, recent>>

Item == Url \cup Domain

TypeOK ==
  /\ row \in [Url -> {"none", "pending", "claimed", "stalled"}]
  /\ interval \in [Url -> Interval \cup {Never}] /\ cfg \in Interval
  /\ count \in [Domain -> Nat] /\ last \in [Item -> 0 .. Never]
  /\ at \in {"idle", "seeds", "markSeeds", "reset", "domains", "homes", "markHomes",
             "claim", "requests", "complete"}
  /\ hand \subseteq Item
  /\ (at \in {"seeds", "markSeeds", "requests", "complete"} => hand \subseteq Url)
  /\ (at \in {"homes", "markHomes"} => hand \subseteq Domain)
  /\ stats \in [Domain -> Nat] /\ snapshot \in [Domain -> Nat]
  /\ read \in SUBSET (Domain \X Nat) /\ \A r, q \in read : r = q
  /\ fails \in Nat /\ crashes \in Nat /\ requests \in Nat
  /\ waiting \subseteq Url /\ recent \subseteq Item
  /\ recorded \in [Domain -> Nat]

Zero == [d \in Domain |-> 0]

IntervalOf(i) == IF i \in Domain THEN cfg ELSE interval[i]
Stale(i) == last[i] > IntervalOf(i)

\* seedURLsFromConfig, before the scheduler starts: a configured seed gets a row,
\* or the row it has gets the configured interval, which is positive; one that
\* cannot be stored is skipped.
seedURLsFromConfig(rows) ==
  {i \in [Url -> Interval \cup {Never}] :
     \A u \in Url : i[u] = rows[u] \/ (u \in Seed /\ i[u] \in Interval \ {0})}

Init ==
  /\ row = [u \in Url |-> "none"]
  /\ interval \in seedURLsFromConfig([u \in Url |-> Never])
  /\ count = Zero /\ last = [i \in Item |-> Never] /\ cfg \in Interval
  /\ at = "idle" /\ hand = {}
  /\ stats = Zero /\ snapshot = Zero /\ read = {}
  /\ fails = 0 /\ crashes = 0 /\ requests = 0
  /\ waiting = {} /\ recent = {} /\ recorded = Zero

Failure == fails < MaxFails /\ fails' = fails + 1 /\ UNCHANGED <<crashes, requests>>

\* The tick goes on with these items at l, or at next if there are none.
Proceed(items, l, next) == hand' = items /\ at' = IF items = {} THEN next ELSE l

-----------------------------------------------------------------------------
(* Scheduler.tick, statement by statement.                                 *)

\* Mutant: the seeds are marked when they are read.
BugMarkWhenRead ==
  /\ at = "idle"
  /\ Proceed({u \in Url : Stale(u)}, "seeds", "reset")
  /\ last' = [i \in Item |-> IF i \in Url /\ Stale(i) THEN 0 ELSE last[i]]
  /\ UNCHANGED <<row, interval, count, cfg, collector, bounded, waiting, recent>>

GetStaleSeedURLs ==
  /\ at = "idle"
  /\ Proceed({u \in Url : Stale(u)}, "seeds", "reset")
  /\ UNCHANGED <<tables, collector, bounded, waiting, recent>>

\* An error here ends the tick: `return`.
GetStaleSeedURLsFails ==
  /\ at = "idle"
  /\ Failure
  /\ UNCHANGED <<tables, tick, collector, waiting, recent>>

\* AddBatchDirect of the seeds.
EnqueueSeeds ==
  /\ at = "seeds"
  /\ at' = "markSeeds"
  /\ UNCHANGED <<tables, hand, collector, bounded, waiting, recent>>

\* UpdateSeedURLLastEnqueued, which does nothing for a seed deleted meanwhile
\* and only logs an error.
MarkSeed(u) ==
  /\ at = "markSeeds" /\ u \in hand
  /\ Proceed(hand \ {u}, "markSeeds", "reset")
  /\ \/ /\ interval[u] # Never /\ last' = [last EXCEPT ![u] = 0]
        /\ recent' = recent \cup {u} /\ UNCHANGED bounded
     \/ interval[u] = Never /\ UNCHANGED <<last, bounded, recent>>
     \/ Failure /\ UNCHANGED <<last, recent>>
  /\ UNCHANGED <<row, interval, count, cfg, collector, waiting>>

\* Mutant: stalled rows are not reset.
BugResetNothing ==
  /\ at = "reset" /\ at' = "domains"
  /\ UNCHANGED <<tables, hand, collector, bounded, waiting, recent>>

ResetStalledJobs ==
  /\ at = "reset" /\ at' = "domains"
  /\ \/ /\ row' = [u \in Url |-> IF row[u] = "stalled" THEN "pending" ELSE row[u]]
        /\ UNCHANGED bounded
     \/ Failure /\ UNCHANGED row
  /\ UNCHANGED <<interval, count, last, cfg, hand, collector, waiting, recent>>

\* Domains with enough pages and no seed of their own.
StaleDomains ==
  {d \in Domain : /\ cfg > 0 /\ count[d] >= MinPages /\ count[d] > 0 /\ Stale(d)
                  /\ \A u \in Url : DomainOf[u] = d => interval[u] = Never}

GetStaleDomainsForRecrawl ==
  /\ at = "domains"
  /\ \/ Proceed(StaleDomains, "homes", "claim") /\ UNCHANGED bounded
     \/ Failure /\ Proceed({}, "homes", "claim")
  /\ UNCHANGED <<tables, collector, waiting, recent>>

EnqueueHomes ==
  /\ at = "homes"
  /\ at' = "markHomes"
  /\ UNCHANGED <<tables, hand, collector, bounded, waiting, recent>>

\* UpdateDomainHomepageRecrawl
MarkHome(d) ==
  /\ at = "markHomes" /\ d \in hand
  /\ Proceed(hand \ {d}, "markHomes", "claim")
  /\ \/ /\ last' = [last EXCEPT ![d] = 0]
        /\ recent' = recent \cup {d} /\ UNCHANGED bounded
     \/ Failure /\ UNCHANGED <<last, recent>>
  /\ UNCHANGED <<row, interval, count, cfg, collector, waiting>>

Pending == {u \in Url : row[u] = "pending"}

\* Mutant: the rows are deleted when they are claimed.
BugClaimDeletes ==
  /\ at = "claim"
  /\ Proceed(Pending, "requests", "idle")
  /\ row' = [u \in Url |-> IF u \in Pending THEN "none" ELSE row[u]]
  /\ UNCHANGED <<interval, count, last, cfg, collector, bounded, waiting, recent>>

\* DequeueURLs: one transaction.
DequeueURLs ==
  /\ at = "claim"
  /\ \/ /\ Proceed(Pending, "requests", "idle")
        /\ row' = [u \in Url |-> IF u \in Pending THEN "claimed" ELSE row[u]]
        /\ UNCHANGED bounded
     \/ Failure /\ Proceed({}, "requests", "idle") /\ UNCHANGED row
  /\ UNCHANGED <<interval, count, last, cfg, collector, waiting, recent>>

\* AddBatchDirect of the requests: the frontier has them, or refuses them.
EnqueueRequests ==
  /\ at = "requests"
  /\ at' = "complete" /\ waiting' = waiting \ hand
  /\ UNCHANGED <<tables, hand, collector, bounded, recent>>

\* CompleteJob without an error to report: the row goes.  If that fails nobody
\* notices, and the row stays claimed.
CompleteJob(u) ==
  /\ at = "complete" /\ u \in hand
  /\ Proceed(hand \ {u}, "complete", "idle")
  /\ \/ row' = [row EXCEPT ![u] = "none"] /\ UNCHANGED bounded
     \/ Failure /\ UNCHANGED row
  /\ UNCHANGED <<interval, count, last, cfg, collector, waiting, recent>>

-----------------------------------------------------------------------------
(* DomainStatsCollector.                                                   *)

Record(d) ==
  /\ recorded[d] < MaxPages[d]
  /\ recorded' = [recorded EXCEPT ![d] = @ + 1]
  /\ stats' = [stats EXCEPT ![d] = @ + 1]
  /\ UNCHANGED <<tables, tick, snapshot, read, bounded, waiting, recent>>

\* flush, periodic or final, takes the map and leaves an empty one.
FlushSwap ==
  /\ snapshot = Zero /\ read = {} /\ stats # Zero
  /\ snapshot' = stats /\ stats' = Zero
  /\ UNCHANGED <<tables, tick, read, recorded, bounded, waiting, recent>>

\* GetDomain; on an error the flush goes on with the next domain, and this
\* one's pages are forgotten.
FlushRead(d) ==
  /\ snapshot[d] > 0 /\ read = {}
  /\ \/ read' = {<<d, count[d]>>} /\ UNCHANGED <<snapshot, bounded>>
     \/ Failure /\ snapshot' = [snapshot EXCEPT ![d] = 0] /\ UNCHANGED read
  /\ UNCHANGED <<tables, tick, stats, recorded, waiting, recent>>

\* Mutant: the whole row is replaced, the date of the homepage's recrawl with it.
BugUpsertWholeRow(d) ==
  /\ \E r \in read : r[1] = d /\ count' = [count EXCEPT ![d] = r[2] + snapshot[d]]
  /\ last' = [last EXCEPT ![d] = Never]
  /\ read' = {} /\ snapshot' = [snapshot EXCEPT ![d] = 0]
  /\ UNCHANGED <<row, interval, cfg, tick, stats, recorded, bounded, waiting, recent>>

\* Mutant: pages_count is overwritten with the pages of this flush.
BugUpsertOverwrites(d) ==
  /\ \E r \in read : r[1] = d
  /\ count' = [count EXCEPT ![d] = snapshot[d]]
  /\ read' = {} /\ snapshot' = [snapshot EXCEPT ![d] = 0]
  /\ UNCHANGED <<row, interval, last, cfg, tick, stats, recorded, bounded, waiting, recent>>

\* UpsertDomain with the count that was read plus the pages of the snapshot; it
\* leaves last_homepage_recrawl alone.  On an error the pages are forgotten.
UpsertDomain(d) ==
  /\ \E r \in read :
       /\ r[1] = d
       /\ \/ count' = [count EXCEPT ![d] = r[2] + snapshot[d]] /\ UNCHANGED bounded
          \/ Failure /\ UNCHANGED count
  /\ read' = {} /\ snapshot' = [snapshot EXCEPT ![d] = 0]
  /\ UNCHANGED <<row, interval, last, cfg, tick, stats, recorded, waiting, recent>>

-----------------------------------------------------------------------------
(* The others, and time.                                                   *)

Outside == requests < MaxRequests /\ requests' = requests + 1 /\ UNCHANGED <<fails, crashes>>

\* INSERT OR IGNORE by another process: a URL with a row keeps that one.
EnqueueURLsDirectly(u) ==
  /\ Outside /\ row[u] = "none"
  /\ row' = [row EXCEPT ![u] = "pending"]
  /\ waiting' = waiting \cup {u}
  /\ UNCHANGED <<interval, count, last, cfg, tick, collector, recent>>

\* The API's AddSeed: a new row has no last_enqueued, an old one keeps it and
\* gets the interval of the request.
UpsertSeedURL(u) ==
  /\ Outside
  /\ \E new \in Interval :
       /\ interval' = [interval EXCEPT ![u] = new]
       /\ recent' = IF last[u] > new THEN recent \ {u} ELSE recent
  /\ UNCHANGED <<row, count, last, cfg, tick, collector, waiting>>

DeleteSeedURL(u) ==
  /\ Outside /\ interval[u] # Never
  /\ interval' = [interval EXCEPT ![u] = Never] /\ last' = [last EXCEPT ![u] = Never]
  /\ recent' = recent \ {u}
  /\ UNCHANGED <<row, count, cfg, tick, collector, waiting>>

\* 30 minutes pass after a claim; time passes after a recrawl.
LockAges(u) ==
  /\ row[u] = "claimed"
  /\ row' = [row EXCEPT ![u] = "stalled"]
  /\ UNCHANGED <<interval, count, last, cfg, tick, collector, bounded, waiting, recent>>

MarkAges(i) ==
  /\ last[i] < Never
  /\ last' = [last EXCEPT ![i] = @ + 1]
  /\ recent' = IF last[i] + 1 > IntervalOf(i) THEN recent \ {i} ELSE recent
  /\ UNCHANGED <<row, interval, count, cfg, tick, collector, bounded, waiting>>

\* What PurgeBlacklistedDomains leaves of crawler.db: for one domain after the
\* other the rows of crawl_queue, domains and seed_urls go; an error ends it.
Purge(queued, domains, seeds) ==
  /\ seeds \subseteq domains /\ domains \subseteq queued
  /\ \A c, d \in queued \ seeds : c = d
  /\ row' = [u \in Url |-> IF DomainOf[u] \in queued THEN "none" ELSE row[u]]
  /\ waiting' = {u \in waiting : DomainOf[u] \notin queued}
  /\ count' = [d \in Domain |-> IF d \in domains THEN 0 ELSE count[d]]
  /\ last' = [i \in Item |-> IF i \in domains \/ (i \in Url /\ DomainOf[i] \in seeds)
                            THEN Never ELSE last[i]]
  /\ interval' \in seedURLsFromConfig([u \in Url |-> IF DomainOf[u] \in seeds THEN Never ELSE interval[u]])

\* The process ends, wherever it is, and is started again, with other excluded
\* domains and other intervals in its configuration.
Restart ==
  /\ crashes < MaxCrashes /\ crashes' = crashes + 1
  /\ \E queued, domains, seeds \in SUBSET Domain : Purge(queued, domains, seeds)
  /\ cfg' \in Interval
  /\ at' = "idle" /\ hand' = {}
  /\ stats' = Zero /\ snapshot' = Zero /\ read' = {}
  /\ recent' = {i \in recent : last'[i] <= IntervalOf(i)'}
  /\ UNCHANGED <<fails, requests, recorded>>

TickStep ==
  \/ GetStaleSeedURLs \/ GetStaleSeedURLsFails \/ EnqueueSeeds \/ (\E u \in Url : MarkSeed(u))
  \/ ResetStalledJobs
  \/ GetStaleDomainsForRecrawl \/ EnqueueHomes \/ (\E d \in Domain : MarkHome(d))
  \/ DequeueURLs \/ EnqueueRequests \/ (\E u \in Url : CompleteJob(u))

CollectorStep ==
  \/ FlushSwap
  \/ \E d \in Domain : FlushRead(d) \/ UpsertDomain(d)

Next ==
  \/ TickStep \/ CollectorStep \/ Restart
  \/ \E d \in Domain : Record(d)
  \/ \E u \in Url : EnqueueURLsDirectly(u) \/ UpsertSeedURL(u) \/ DeleteSeedURL(u) \/ LockAges(u)
  \/ \E i \in Item : MarkAges(i)

Spec == Init /\ [][Next]_vars

\* The ticker ticks on, and a lock gets old.
FairSpec == Spec /\ WF_vars(TickStep) /\ \A u \in Url : WF_vars(LockAges(u))

-----------------------------------------------------------------------------
(* Properties.                                                             *)

\* A stored crawl request is in crawl_queue until the frontier has been offered
\* its URL, whatever fails and whenever the process ends: it is claimed, then
\* enqueued, then deleted.  Only the purge of an excluded domain drops it.
RequestKept == \A u \in waiting : row[u] # "none"

\* A seed or homepage that was enqueued and marked is not enqueued again before
\* its interval has passed, as it was last set: neither by the flush of the
\* statistics, which writes the same row of domains, nor by a restart or a
\* request, which may set a shorter interval but keep the time of the mark.
RecrawlOnce == at \in {"seeds", "homes"} => hand \cap recent = {}

\* Without errors and restarts no page is counted twice or forgotten, although
\* the flush reads and writes without a transaction while workers record.
CountsExact ==
  (fails = 0 /\ crashes = 0) => \A d \in Domain : count[d] + snapshot[d] + stats[d] = recorded[d]

\* Every request is offered to the frontier in the end, also one that was
\* claimed by a tick that never completed.  A request for a URL whose row is
\* still there is ignored by the insert and does not wait.
RequestsHandedOver == \A u \in Url : (u \in waiting) ~> (u \notin waiting)

\* A seed that was never enqueued, or longer ago than any interval, is offered
\* to the frontier, unless it is deleted first: it is marked after it was
\* enqueued, so a tick cut short does not skip it.
SeedsRecrawled ==
  \A u \in Url :
    (interval[u] # Never /\ last[u] = Never) ~> ((at = "markSeeds" /\ u \in hand) \/ interval[u] = Never)
=============================================================================

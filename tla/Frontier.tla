------------------------------ MODULE Frontier ------------------------------
(* What the frontier lets into the queue (internal/frontier/frontier.go) and *)
(* what main tells it at start-up (cmd/crawler/main.go).  Workers and        *)
(* request handlers discover links; a link passes the fingerprint counts,    *)
(* the Bloom filter, a lookup in the pages table, and the Bloom filter again *)
(* inside the queue.  Between those four looks other goroutines enqueue,     *)
(* crawl and store.  CrawlQueue models the queue itself, PageStore the way   *)
(* of a page to the table; here the one is a count of jobs per URL and the   *)
(* other two sets.                                                           *)
EXTENDS Naturals, FiniteSets

CONSTANTS
  Caller,                  \* workers and request handlers
  Main,                    \* the goroutine of main, which adds the seeds
  Url, Key,                \* canonical URLs; the strings the Bloom filter is asked for
  KeyOf,                   \* FingerprintURL
  Final,                   \* the URLs a fetch of each URL may be stored under
  Refused,                 \* unparseable, non-indexable or blacklisted
  Seed,                    \* the seeds of the configuration
  FalsePositives,          \* keys the Bloom filter may report without having them
  MaxPagesPerFingerprint,  \* 0: no limit
  NoUrl,
  MaxLinks, MaxCalls, MaxFails, MaxStarts   \* bounds

ASSUME FrontierAssumption ==
  /\ IsFiniteSet(Url) /\ Main \notin Caller
  /\ Url \subseteq Key /\ KeyOf \in [Url -> Key] /\ Final \in [Url -> SUBSET Url]
  /\ Refused \subseteq Url /\ Seed \subseteq Url /\ FalsePositives \subseteq Key
  /\ NoUrl \notin Url
  /\ {MaxPagesPerFingerprint, MaxLinks, MaxCalls, MaxFails, MaxStarts} \subseteq Nat

VARIABLES
  pages, discovered,  \* content.db: URLs of the tables pages and discovered_resources
  buffered,           \* pages the batch writer holds
  bloom,              \* the keys the filter tests positive for
  fpCounts,           \* Frontier.fpCounts
  queue,              \* jobs in the queue, per URL
  up,                 \* "down", "seeding" or "running"
  toSeed,             \* configured seeds main has not looked at yet
  pc, call,           \* what each goroutine is at, and with what
  calls, fails, starts,   \* outside calls and, in this life, storage errors; starts
  known, admitted     \* history: pages stored at start-up; how often Add and AddBatch let in a URL since

db     == <<pages, discovered>>
life   == <<up, toSeed, starts, known>>
memory == <<bloom, fpCounts, queue, buffered, admitted>>
vars   == <<db, memory, life, pc, call, calls, fails>>

Proc == Caller \cup {Main}

Call == [kind: {"none", "add", "batch", "resource"},
         job: Url \cup {NoUrl},     \* what the worker crawls
         links: SUBSET Url,         \* links not looked at yet
         url: Url \cup {NoUrl},     \* the link that was counted
         cand: SUBSET Url,          \* candidates
         found: SUBSET Url]         \* candidates the pages table has

NoCall == [kind |-> "none", job |-> NoUrl, links |-> {}, url |-> NoUrl,
           cand |-> {}, found |-> {}]

TypeOK ==
  /\ pages \subseteq Url /\ discovered \subseteq Url /\ buffered \subseteq Url
  /\ bloom \subseteq Key
  /\ fpCounts \in [Key -> Nat] /\ queue \in [Url -> Nat]
  /\ up \in {"down", "seeding", "running"} /\ toSeed \subseteq Seed
  /\ pc \in [Proc -> {"idle", "crawl", "filter", "seen", "mark", "enqueue", "record"}]
  /\ call \in [Proc -> Call]
  /\ calls \in Nat /\ fails \in Nat /\ starts \in Nat
  /\ known \subseteq Url /\ admitted \in [Url -> Nat]

Nowhere == [u \in Url |-> 0]
OncePer(us) == [u \in Url |-> IF u \in us THEN 1 ELSE 0]

Init ==
  /\ pages = {} /\ discovered = {} /\ buffered = {}
  /\ bloom = {} /\ fpCounts = [k \in Key |-> 0] /\ queue = Nowhere
  /\ up = "down" /\ toSeed = {}
  /\ pc = [c \in Proc |-> "idle"] /\ call = [c \in Proc |-> NoCall]
  /\ calls = 0 /\ fails = 0 /\ starts = 0
  /\ known = {} /\ admitted = Nowhere

-----------------------------------------------------------------------------
(* Steps of a call.                                                        *)

Goto(c, l) == pc' = [pc EXCEPT ![c] = l]
With(c, r) == call' = [call EXCEPT ![c] = r]
Keys(us) == {KeyOf[u] : u \in us}

\* bloom.AddString of some keys; a filter that fills up may report others.
AddString(ks) == \E extra \in SUBSET FalsePositives : bloom' = bloom \cup ks \cup extra

\* The caller of Add or AddBatch goes on: a worker that crawled a resource
\* still has to record it.
Return(c) ==
  IF call[c].kind = "resource"
  THEN Goto(c, "record") /\ With(c, [NoCall EXCEPT !.kind = "resource", !.job = call[c].job])
  ELSE Goto(c, "idle") /\ With(c, NoCall)

Failure == fails < MaxFails /\ fails' = fails + 1

\* An Add or AddBatch of these links, by a goroutine that crawls `job`, or none.
Begin(c, kind, job, links) ==
  /\ Goto(c, "filter")
  /\ With(c, [NoCall EXCEPT !.kind = kind, !.job = job, !.links = links])

\* An AddBatch that is the last the goroutine does; without links there is none.
BeginBatch(c, links) ==
  IF links = {} THEN Goto(c, "idle") /\ With(c, NoCall)
                ELSE Begin(c, "batch", NoUrl, links)

LimitReached(k) == MaxPagesPerFingerprint > 0 /\ fpCounts[k] >= MaxPagesPerFingerprint

\* The first half of the loop over the links: filters, and the count of the
\* fingerprint, tested and incremented under fpMutex.
CountLink(c, u) ==
  /\ pc[c] = "filter" /\ u \in call[c].links
  /\ IF u \in Refused \/ LimitReached(KeyOf[u])
     THEN /\ With(c, [call[c] EXCEPT !.links = @ \ {u}])
          /\ UNCHANGED <<pc, fpCounts>>
     ELSE /\ With(c, [call[c] EXCEPT !.links = @ \ {u}, !.url = u])
          /\ fpCounts' = [fpCounts EXCEPT ![KeyOf[u]] = @ + 1]
          /\ Goto(c, "seen")
  /\ UNCHANGED <<db, bloom, queue, buffered, admitted, life, calls, fails>>

\* The second half: HasSeen.
HasSeen(c) ==
  /\ pc[c] = "seen"
  /\ Goto(c, "filter")
  /\ With(c, [call[c] EXCEPT !.url = NoUrl,
                             !.cand = IF KeyOf[call[c].url] \in bloom THEN @
                                      ELSE @ \cup {call[c].url}])
  /\ UNCHANGED <<db, memory, life, calls, fails>>

\* Mutant: the answer of the lookup is not used.
BugLookupIgnored(c) ==
  /\ pc[c] = "filter" /\ call[c].links = {}
  /\ IF call[c].cand = {}
     THEN Return(c)
     ELSE Goto(c, "enqueue") /\ UNCHANGED call
  /\ UNCHANGED <<db, memory, life, calls, fails>>

\* FilterExistingURLs, or GetPageByURL for Add.  Pages still in the batch
\* writer's buffer are not in the table.
Lookup(c) ==
  LET found == call[c].cand \cap pages IN
  /\ pc[c] = "filter" /\ call[c].links = {}
  /\ IF call[c].cand = {}
     THEN Return(c)
     ELSE /\ Goto(c, IF found = {} THEN "enqueue" ELSE "mark")
          /\ With(c, [call[c] EXCEPT !.found = found, !.cand = @ \ found])
  /\ UNCHANGED <<db, memory, life, calls, fails>>

\* The lookup fails: Add returns the error, AddBatch trusts the Bloom filter.
LookupFails(c) ==
  /\ pc[c] = "filter" /\ call[c].links = {} /\ call[c].cand # {}
  /\ Failure
  /\ IF call[c].kind = "add"
     THEN Return(c)
     ELSE Goto(c, "enqueue") /\ UNCHANGED call
  /\ UNCHANGED <<db, memory, life, calls>>

\* MarkSeen for every candidate that is a stored page.
MarkFound(c) ==
  /\ pc[c] = "mark"
  /\ AddString(Keys(call[c].found))
  /\ IF call[c].cand = {}
     THEN Return(c)
     ELSE Goto(c, "enqueue") /\ With(c, [call[c] EXCEPT !.found = {}])
  /\ UNCHANGED <<db, fpCounts, queue, buffered, admitted, life, calls, fails>>

\* Mutant: the queue does not test the filter a second time.
BugFresh(us, new) == new = us

\* What the queue takes of some jobs: one per key the filter does not have.
Fresh(us, new) ==
  /\ new \subseteq us
  /\ \A u \in new : KeyOf[u] \notin bloom
  /\ \A u, v \in new : KeyOf[u] = KeyOf[v] => u = v
  /\ \A u \in us : KeyOf[u] \in bloom \cup Keys(new)

\* Queue.Enqueue or EnqueueBatch.
EnqueueNew(c) ==
  /\ pc[c] = "enqueue"
  /\ \E new \in SUBSET call[c].cand :
       /\ Fresh(call[c].cand, new)
       /\ queue' = [u \in Url |-> queue[u] + OncePer(new)[u]]
       /\ IF new = {} THEN UNCHANGED bloom ELSE AddString(Keys(new))
       /\ admitted' = [u \in Url |-> admitted[u] + OncePer(new)[u]]
  /\ Return(c)
  /\ UNCHANGED <<db, fpCounts, buffered, life, calls, fails>>

-----------------------------------------------------------------------------
(* Where the calls come from.                                              *)

LinkSets == {ls \in SUBSET Url : Cardinality(ls) <= MaxLinks}

\* A worker takes a job ...
Dequeue(c, u) ==
  /\ up = "running" /\ pc[c] = "idle" /\ c \in Caller /\ queue[u] > 0
  /\ queue' = [queue EXCEPT ![u] = @ - 1]
  /\ Goto(c, "crawl") /\ With(c, [NoCall EXCEPT !.job = u])
  /\ UNCHANGED <<db, bloom, fpCounts, buffered, admitted, life, calls, fails>>

\* ... and gives it up, or back with Retry.
GiveUp(c) ==
  /\ pc[c] = "crawl"
  /\ Goto(c, "idle") /\ With(c, NoCall)
  /\ UNCHANGED <<db, memory, life, calls, fails>>

Retry(c) ==
  /\ pc[c] = "crawl"
  /\ queue' = [queue EXCEPT ![call[c].job] = @ + 1]
  /\ Goto(c, "idle") /\ With(c, NoCall)
  /\ UNCHANGED <<db, bloom, fpCounts, buffered, admitted, life, calls, fails>>

\* persistParsedPage: the page goes to the batch writer under its final or
\* canonical URL, then enqueueDiscoveredLinks.
PersistPage(c, u, links) ==
  /\ pc[c] = "crawl" /\ u \in Final[call[c].job]
  /\ buffered' = buffered \cup {u}
  /\ BeginBatch(c, links)
  /\ UNCHANGED <<db, bloom, fpCounts, queue, admitted, life, calls, fails>>

\* processDiscoveryOnly of a feed or script with links: first those of its
\* domain, if it may follow them, then the resource itself.
CrawlResource(c, links) ==
  /\ pc[c] = "crawl"
  /\ Begin(c, "resource", call[c].job, links)
  /\ UNCHANGED <<db, memory, life, calls, fails>>

\* The row of a second URL with the same fingerprint is refused: both columns
\* are UNIQUE, and only a conflict of the URL is resolved.
UpsertDiscoveredResource(c) ==
  /\ pc[c] = "record"
  /\ \/ /\ discovered' = IF \E v \in discovered \ {call[c].job} : KeyOf[v] = KeyOf[call[c].job]
                          THEN discovered ELSE discovered \cup {call[c].job}
        /\ UNCHANGED fails
     \/ Failure /\ UNCHANGED discovered
  /\ Goto(c, "idle") /\ With(c, NoCall)
  /\ UNCHANGED <<pages, memory, life, calls>>

\* A request from outside.
Request == up = "running" /\ calls < MaxCalls /\ calls' = calls + 1

\* The handler of AddSeed, after it has stored the seed.
AddSeed(c, u) ==
  /\ Request /\ c \in Caller /\ pc[c] = "idle"
  /\ Begin(c, "add", NoUrl, {u})
  /\ UNCHANGED <<db, memory, life, fails>>

\* The handler of IngestPage: the page is in the table at once.
IngestPage(c, u, links) ==
  /\ Request /\ c \in Caller /\ pc[c] = "idle"
  /\ pages' = pages \cup {u}
  /\ BeginBatch(c, links)
  /\ UNCHANGED <<discovered, memory, life, fails>>

\* Scheduler and CrawlURLs: no filter but Refused, and the Bloom filter is
\* not told.
AddBatchDirect(us) ==
  /\ Request
  /\ queue' = [u \in Url |-> queue[u] + OncePer(us \ Refused)[u]]
  /\ UNCHANGED <<db, bloom, fpCounts, buffered, admitted, life, pc, call, fails>>

\* The batch writer commits (see PageStore).
Flush ==
  /\ up = "running" /\ buffered # {}
  /\ pages' = pages \cup buffered /\ buffered' = {}
  /\ UNCHANGED <<discovered, bloom, fpCounts, queue, admitted, life, pc, call, calls, fails>>

-----------------------------------------------------------------------------
(* Start-up and the end of the process.                                    *)

CountKeys(us) == [k \in Key |-> Cardinality({u \in us : KeyOf[u] = k})]
Plus(f, g) == [k \in Key |-> f[k] + g[k]]

\* seedBloomFilter: from both tables; an error on the first ends it, an error
\* on the second skips that one, and main goes on in either case.
seedBloomFilter ==
  /\ up = "down" /\ starts < MaxStarts
  /\ starts' = starts + 1 /\ up' = "seeding" /\ toSeed' = Seed
  /\ known' = pages /\ admitted' = Nowhere
  /\ \/ /\ bloom' = Keys(pages \cup discovered) \cup pages \cup discovered
        /\ fpCounts' = Plus(CountKeys(pages), CountKeys(discovered))
        /\ fails' = 0
     \/ /\ MaxFails > 0 /\ fails' = 1
        /\ bloom' = {} /\ fpCounts' = CountKeys({})
     \/ /\ MaxFails > 0 /\ fails' = 1
        /\ bloom' = Keys(pages) \cup pages /\ fpCounts' = CountKeys(pages)
  /\ UNCHANGED <<db, queue, buffered, pc, call, calls>>

\* seedURLsFromConfig: one seed after the other; one that cannot be stored is
\* skipped.
SeedFromConfig(u) ==
  /\ up = "seeding" /\ u \in toSeed /\ pc[Main] = "idle"
  /\ toSeed' = toSeed \ {u}
  /\ \/ Begin(Main, "add", NoUrl, {u}) /\ UNCHANGED fails
     \/ Failure /\ UNCHANGED <<pc, call>>
  /\ UNCHANGED <<db, memory, up, starts, known, calls>>

\* engine.Start, the scheduler and the API.
StartComponents ==
  /\ up = "seeding" /\ toSeed = {} /\ pc[Main] = "idle"
  /\ up' = "running"
  /\ UNCHANGED <<db, memory, toSeed, starts, known, pc, call, calls, fails>>

\* The process ends, in good order or not: memory is gone.
Exit ==
  /\ up # "down"
  /\ up' = "down" /\ toSeed' = {}
  /\ bloom' = {} /\ fpCounts' = CountKeys({}) /\ queue' = Nowhere
  /\ buffered' = {} /\ admitted' = Nowhere
  /\ pc' = [c \in Proc |-> "idle"] /\ call' = [c \in Proc |-> NoCall]
  /\ UNCHANGED <<db, starts, known, calls, fails>>

CallStep(c) ==
  \/ \E u \in Url : CountLink(c, u)
  \/ HasSeen(c) \/ Lookup(c) \/ LookupFails(c) \/ MarkFound(c) \/ EnqueueNew(c)

CrawlStep(c) ==
  \/ \E u \in Url : Dequeue(c, u)
  \/ GiveUp(c) \/ Retry(c)
  \/ \E u \in Url, links \in LinkSets : PersistPage(c, u, links)
  \/ \E links \in LinkSets : CrawlResource(c, links)
  \/ UpsertDiscoveredResource(c)

RequestStep ==
  \/ \E c \in Caller, u \in Url : AddSeed(c, u)
  \/ \E c \in Caller, u \in Url, links \in LinkSets : IngestPage(c, u, links)
  \/ \E us \in LinkSets \ {{}} : AddBatchDirect(us)

Next ==
  \/ \E c \in Proc : CallStep(c) \/ CrawlStep(c)
  \/ RequestStep \/ Flush
  \/ seedBloomFilter \/ (\E u \in Seed : SeedFromConfig(u)) \/ StartComponents \/ Exit

Spec == Init /\ [][Next]_vars

-----------------------------------------------------------------------------
(* Properties.                                                             *)

\* Discovered links never bring back a page that was stored when the process
\* started: what one of the two stages misses, the Bloom filter filled at
\* start-up or the lookup in the pages table, the other one catches, so it
\* takes two storage errors in one life, at start-up and in a lookup.
KnownNotAdmitted == fails <= 1 => \A u \in known : admitted[u] = 0

\* In one life of the process Add and AddBatch let a URL in once, though several
\* goroutines find it unseen and go on to look it up at the same time.
AdmittedOnce == \A u \in Url : admitted[u] <= 1
=============================================================================

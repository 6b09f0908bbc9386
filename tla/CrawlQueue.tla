----------------------------- MODULE CrawlQueue ------------------------------
(***************************************************************************)
(* The in-memory priority queue of internal/queue/queue.go and the workers *)
(* that block on it.  q.mu makes every operation atomic except the two     *)
(* batch operations, whose loop is one step per job while `batch` holds    *)
(* the mutex, and DequeueWithWait, which gives the mutex up in cond.Wait.  *)
(*                                                                         *)
(* The Bloom filter is the set of keys that test positive: adding a key    *)
(* sets bits, which may turn other keys positive too, and clears none.     *)
(* The rate limiter is seen through readyFn only: `ready` is the set of    *)
(* domains for which TryWait would answer true.                            *)
(***************************************************************************)
EXTENDS Integers, Sequences, FiniteSets, SequencesExt

CONSTANTS
  Worker,         \* goroutines calling DequeueWithWait
  Domain,         \* domains
  Url,            \* canonical URLs
  Score,          \* scores, a set of integers
  DomainOf,       \* Job.Domain of a URL
  Fingerprint,    \* Job.Fingerprint of a URL
  NoFingerprint,  \* the empty fingerprint
  NoJob,          \* the nil *Job
  MaxJobs,        \* bound: jobs ever given an ID
  MaxBatch        \* bound: jobs in one EnqueueBatch call

ASSUME QueueAssumption ==
  /\ IsFiniteSet(Worker)
  /\ Score \subseteq Int
  /\ DomainOf \in [Url -> Domain]
  /\ MaxJobs \in Nat /\ MaxBatch \in Nat

VARIABLES
  domains,        \* Queue.domains: per domain, jobs in dispatch order
  bloom,          \* Queue.bloom: the keys that test positive
  nextID,         \* Queue.nextID
  enqueued,       \* Queue.enqueued
  dequeued,       \* Queue.dequeued
  workerWaiters,  \* Queue.workerWaiters
  batch,          \* the batch call holding q.mu, or NoBatch
  ready,          \* domains for which readyFn answers true
  cancelled,      \* the workers' context is cancelled
  waking,         \* the StartPeriodicWake goroutine is alive
  pc, held,       \* per worker: where it is, the job it was given
  sleptAt,        \* history: nextID when the worker went to sleep, else 0
  admitted        \* history: deduplicated admissions per key

queueVars == <<domains, bloom, nextID, enqueued, dequeued>>
waitVars  == <<workerWaiters, pc, held, sleptAt>>
envVars   == <<ready, cancelled, waking>>
vars      == <<queueVars, waitVars, envVars, batch, admitted>>

-----------------------------------------------------------------------------
(* Data.                                                                   *)

dedupKey == [u \in Url |-> IF Fingerprint[u] # NoFingerprint
                           THEN Fingerprint[u] ELSE u]

Key == {dedupKey[u] : u \in Url}

Job == [id : Nat, url : Url, score : Score]

Request == [url : Url, score : Score]

NoBatch == [jobs |-> <<>>, added |-> 0, direct |-> FALSE, open |-> FALSE]

PC == {"check", "lock", "parked", "woken", "busy", "done"}

NewJob(u, s) == [id |-> nextID + 1, url |-> u, score |-> s]

QueuedJobs == UNION {{domains[d][i] : i \in 1..Len(domains[d])} : d \in Domain}

-----------------------------------------------------------------------------
(* Helpers of the operations.                                              *)

\* (A definition Bug... is a plausible slip in the one after it; the runs
\* check that each property notices the slip made for it.)
BugInsertBeforeEqual(jobs, job, i) ==
  /\ i \in 1..(Len(jobs) + 1)
  /\ \A k \in 1..(i - 1) : jobs[k].score > job.score
  /\ \A k \in i..Len(jobs) : jobs[k].score <= job.score

\* sort.Search in insertSorted: the first index whose job scores less, on a
\* slice in which no job scoring less comes before one that does not.
InsertionPoint(jobs, job, i) ==
  /\ i \in 1..(Len(jobs) + 1)
  /\ \A k \in 1..(i - 1) : jobs[k].score >= job.score
  /\ \A k \in i..Len(jobs) : jobs[k].score < job.score

insertSorted(job) ==
  LET d == DomainOf[job.url] IN
  \E i \in 1..(Len(domains[d]) + 1) :
    /\ InsertionPoint(domains[d], job, i)
    /\ domains' = [domains EXCEPT ![d] = InsertAt(domains[d], i, job)]

BugAddStringForgets(k) == bloom' = bloom

\* bloom.AddString
AddString(k) == \E collisions \in SUBSET Key : bloom' = bloom \cup {k} \cup collisions

\* cond.Broadcast: every parked worker will run again.
Woken == [w \in Worker |-> IF pc[w] = "parked" THEN "woken" ELSE pc[w]]

Unlocked == ~batch.open

BugBroadcastIfSeveral == IF workerWaiters > 1 THEN Woken ELSE pc

\* `if q.workerWaiters > 0 { q.cond.Broadcast() }`
BroadcastIfWaiting == IF workerWaiters > 0 THEN Woken ELSE pc

-----------------------------------------------------------------------------
(* Producers.                                                              *)

Count(k) == [admitted EXCEPT ![k] = @ + 1]

Enqueue(u, s) ==
  /\ Unlocked /\ nextID < MaxJobs
  /\ dedupKey[u] \notin bloom
  /\ nextID' = nextID + 1
  /\ AddString(dedupKey[u])
  /\ insertSorted(NewJob(u, s))
  /\ enqueued' = enqueued + 1
  /\ pc' = BroadcastIfWaiting
  /\ admitted' = Count(dedupKey[u])
  /\ UNCHANGED <<dequeued, workerWaiters, held, sleptAt, batch, envVars>>

\* EnqueueBatch (direct = FALSE) and EnqueueBatchDirect (direct = TRUE) take
\* the mutex here and keep it until EnqueueBatchReturn.
EnqueueBatch(jobs, direct) ==
  /\ Unlocked /\ nextID + Len(jobs) <= MaxJobs
  /\ batch' = [jobs |-> jobs, added |-> 0, direct |-> direct, open |-> TRUE]
  /\ UNCHANGED <<queueVars, waitVars, envVars, admitted>>

\* One iteration of the loop: `continue` on a positive Bloom test.
EnqueueBatchSkip ==
  /\ batch.open /\ batch.jobs # <<>> /\ ~batch.direct
  /\ dedupKey[Head(batch.jobs).url] \in bloom
  /\ batch' = [batch EXCEPT !.jobs = Tail(@)]
  /\ UNCHANGED <<queueVars, waitVars, envVars, admitted>>

EnqueueBatchInsert ==
  LET r == Head(batch.jobs) IN
  /\ batch.open /\ batch.jobs # <<>>
  /\ IF batch.direct
     THEN UNCHANGED <<bloom, admitted>>
     ELSE /\ dedupKey[r.url] \notin bloom
          /\ AddString(dedupKey[r.url])
          /\ admitted' = Count(dedupKey[r.url])
  /\ nextID' = nextID + 1
  /\ insertSorted(NewJob(r.url, r.score))
  /\ batch' = [batch EXCEPT !.jobs = Tail(@), !.added = @ + 1]
  /\ UNCHANGED <<enqueued, dequeued, waitVars, envVars>>

EnqueueBatchReturn ==
  /\ batch.open /\ batch.jobs = <<>>
  /\ enqueued' = enqueued + batch.added
  /\ pc' = IF batch.added > 0 THEN BroadcastIfWaiting ELSE pc
  /\ batch' = NoBatch
  /\ UNCHANGED <<domains, bloom, nextID, dequeued, workerWaiters, held,
                 sleptAt, envVars, admitted>>

\* A worker gives the job it holds back to the queue.  A 429 also puts the
\* domain in cooldown before the retry (`throttle`).
EnqueueRetry(w, s, throttle) ==
  LET u == held[w].url IN
  /\ pc[w] = "busy" /\ Unlocked /\ nextID < MaxJobs
  /\ nextID' = nextID + 1
  /\ insertSorted(NewJob(u, s))
  /\ enqueued' = enqueued + 1
  /\ pc' = [BroadcastIfWaiting EXCEPT ![w] = "check"]
  /\ held' = [held EXCEPT ![w] = NoJob]
  /\ ready' = IF throttle THEN ready \ {DomainOf[u]} ELSE ready
  /\ UNCHANGED <<bloom, dequeued, workerWaiters, sleptAt, batch, cancelled,
                 waking, admitted>>

MarkSeen(u) ==
  /\ Unlocked /\ AddString(dedupKey[u])
  /\ UNCHANGED <<domains, nextID, enqueued, dequeued, waitVars, envVars,
                 batch, admitted>>

-----------------------------------------------------------------------------
(* DequeueWithWait, one worker.                                            *)

\* `if ctx.Err() != nil { return nil }`, read without the mutex.
CheckContext(w) ==
  /\ pc[w] = "check"
  /\ pc' = [pc EXCEPT ![w] = IF cancelled THEN "done" ELSE "lock"]
  /\ UNCHANGED <<queueVars, workerWaiters, held, sleptAt, envVars, batch, admitted>>

BugPopLast(w, d) ==
  /\ held' = [held EXCEPT ![w] = Last(domains[d])]
  /\ domains' = [domains EXCEPT ![d] = Front(@)]
  /\ dequeued' = dequeued + 1

popJob(w, d) ==
  /\ held' = [held EXCEPT ![w] = Head(domains[d])]
  /\ domains' = [domains EXCEPT ![d] = Tail(@)]
  /\ dequeued' = dequeued + 1

\* dequeueLocked tries the domains from a rotating offset over a randomly
\* ordered map, so any ready domain may be the one it finds.  The slot that
\* readyFn reserves may have been the domain's last one.
TakeJob(w, d) ==
  /\ pc[w] = "lock" /\ Unlocked
  /\ d \in ready /\ domains[d] # <<>>
  /\ popJob(w, d)
  /\ ready' \in {ready, ready \ {d}}
  /\ pc' = [pc EXCEPT ![w] = "busy"]
  /\ UNCHANGED <<bloom, nextID, enqueued, workerWaiters, sleptAt, batch,
                 cancelled, waking, admitted>>

\* `q.workerWaiters++; q.cond.Wait()` up to the suspension.
Park(w) ==
  /\ pc[w] = "lock" /\ Unlocked
  /\ \A d \in ready : domains[d] = <<>>
  /\ workerWaiters' = workerWaiters + 1
  /\ pc' = [pc EXCEPT ![w] = "parked"]
  /\ sleptAt' = [sleptAt EXCEPT ![w] = nextID]
  /\ UNCHANGED <<queueVars, held, envVars, batch, admitted>>

\* cond.Wait locks q.mu again and returns; `q.workerWaiters--`, unlock.
Relock(w) ==
  /\ pc[w] = "woken" /\ Unlocked
  /\ workerWaiters' = workerWaiters - 1
  /\ pc' = [pc EXCEPT ![w] = "check"]
  /\ sleptAt' = [sleptAt EXCEPT ![w] = 0]
  /\ UNCHANGED <<queueVars, held, envVars, batch, admitted>>

\* The engine is through with the job (crawled, skipped, failed for good).
Finish(w) ==
  /\ pc[w] = "busy"
  /\ pc' = [pc EXCEPT ![w] = "check"]
  /\ held' = [held EXCEPT ![w] = NoJob]
  /\ UNCHANGED <<queueVars, workerWaiters, sleptAt, envVars, batch, admitted>>

-----------------------------------------------------------------------------
(* The ticker goroutine and the environment.                               *)

BugWakeUntilCancel ==
  /\ waking /\ ~cancelled
  /\ pc' = Woken
  /\ UNCHANGED <<queueVars, workerWaiters, held, sleptAt, envVars, batch, admitted>>

BugWakeOnlyAtCancel ==
  /\ waking /\ cancelled
  /\ pc' = Woken
  /\ UNCHANGED <<queueVars, workerWaiters, held, sleptAt, envVars, batch, admitted>>

\* A tick of StartPeriodicWake.  It broadcasts without the mutex.
PeriodicWake ==
  /\ waking
  /\ pc' = Woken
  /\ UNCHANGED <<queueVars, workerWaiters, held, sleptAt, envVars, batch, admitted>>

\* ctx.Done() of the ticker: main cancels its context after Engine.Stop has
\* returned, which waits for every worker.
StopPeriodicWake ==
  /\ waking /\ \A w \in Worker : pc[w] = "done"
  /\ waking' = FALSE
  /\ pc' = Woken
  /\ UNCHANGED <<queueVars, workerWaiters, held, sleptAt, ready, cancelled,
                 batch, admitted>>

\* A limiter slot is released or a cooldown ends: nobody is notified.
SlotFreed(d) ==
  /\ d \notin ready
  /\ ready' = ready \cup {d}
  /\ UNCHANGED <<queueVars, waitVars, cancelled, waking, batch, admitted>>

\* Engine.Stop cancels the workers' context: no broadcast.
Cancel ==
  /\ ~cancelled /\ cancelled' = TRUE
  /\ UNCHANGED <<queueVars, waitVars, ready, waking, batch, admitted>>

-----------------------------------------------------------------------------
Init ==
  /\ domains = [d \in Domain |-> <<>>]
  /\ bloom = {} /\ nextID = 0 /\ enqueued = 0 /\ dequeued = 0
  /\ workerWaiters = 0 /\ batch = NoBatch
  /\ ready = Domain /\ cancelled = FALSE /\ waking = TRUE
  /\ pc = [w \in Worker |-> "check"]
  /\ held = [w \in Worker |-> NoJob]
  /\ sleptAt = [w \in Worker |-> 0]
  /\ admitted = [k \in Key |-> 0]

Requests == UNION {[1..n -> Request] : n \in 1..MaxBatch}

Produce ==
  \/ \E u \in Url, s \in Score : Enqueue(u, s)
  \/ \E jobs \in Requests, direct \in BOOLEAN : EnqueueBatch(jobs, direct)
  \/ \E u \in Url : MarkSeen(u)

BatchStep == EnqueueBatchSkip \/ EnqueueBatchInsert \/ EnqueueBatchReturn

WorkerStep(w) ==
  \/ CheckContext(w)
  \/ \E d \in Domain : TakeJob(w, d)
  \/ Park(w)
  \/ Relock(w)
  \/ Finish(w)

Retry(w) == \E s \in Score, throttle \in BOOLEAN : EnqueueRetry(w, s, throttle)

Next ==
  \/ Produce
  \/ BatchStep
  \/ \E w \in Worker : WorkerStep(w) \/ Retry(w)
  \/ PeriodicWake
  \/ StopPeriodicWake
  \/ \E d \in Domain : SlotFreed(d)
  \/ Cancel

Spec == Init /\ [][Next]_vars

(***************************************************************************)
(* Fairness: the Go scheduler runs every runnable goroutine, and a         *)
(* sync.Mutex in starvation mode hands itself to the longest waiter, so a  *)
(* worker that finds q.mu free again and again gets it (strong fairness);  *)
(* a batch holding the mutex goes on; the 500 ms ticker keeps ticking; a   *)
(* reserved slot is freed after the delay and a cooldown ends.  Producers, *)
(* retries and Cancel are never forced.                                    *)
(***************************************************************************)
Fairness ==
  /\ \A w \in Worker : SF_vars(WorkerStep(w))
  /\ WF_vars(BatchStep)
  /\ WF_vars(PeriodicWake)
  /\ \A d \in Domain : WF_vars(SlotFreed(d))

FairSpec == Spec /\ Fairness

-----------------------------------------------------------------------------
(* Properties.                                                             *)

\* The type of the state, with workerWaiters a natural number: the counter
\* DequeueWithWait increments and decrements never goes below zero.
TypeOK ==
  /\ domains \in [Domain -> Seq(Job)]
  /\ bloom \subseteq Key
  /\ nextID \in Nat /\ enqueued \in Nat /\ dequeued \in Nat
  /\ workerWaiters \in Nat
  /\ batch \in [jobs : Seq(Request), added : Nat, direct : BOOLEAN, open : BOOLEAN]
  /\ ready \subseteq Domain
  /\ cancelled \in BOOLEAN /\ waking \in BOOLEAN
  /\ pc \in [Worker -> PC]
  /\ held \in [Worker -> Job \cup {NoJob}]
  /\ sleptAt \in [Worker -> Nat]
  /\ admitted \in [Key -> Nat]

Before(a, b) == a.score > b.score \/ (a.score = b.score /\ a.id < b.id)

\* Every domain's slice is in dispatch order: score descending, and equal
\* scores in the order they were admitted, so insertSorted's binary search
\* always runs on a sorted slice and popJob's head is the best job.
PriorityOrder ==
  \A d \in Domain : \A i, j \in 1..Len(domains[d]) :
    i < j => Before(domains[d][i], domains[d][j])

\* The deduplicating operations admit a key at most once in the life of the
\* process, whatever mix of Enqueue, EnqueueBatch and MarkSeen runs.
AtMostOnce == \A k \in Key : admitted[k] <= 1

\* workerWaiters is the number of workers inside cond.Wait: broadcasting does
\* not change it, a woken worker counts until it has the mutex again.
WaiterCount == workerWaiters = Cardinality({w \in Worker : pc[w] \in {"parked", "woken"}})

\* A worker that still sleeps went to sleep after every job now in the queue
\* was enqueued: no enqueue operation can miss a sleeper, although it
\* broadcasts only when workerWaiters > 0 and a batch only at its end.
NoLostWakeup ==
  Unlocked => \A w \in Worker : pc[w] = "parked" =>
                \A j \in QueuedJobs : j.id <= sleptAt[w]

\* A job is in one place: no two workers hold the same job and no worker
\* holds a job that is still queued.
Exclusive ==
  \A v \in Worker : pc[v] = "busy" =>
    /\ \A w \in Worker \ {v} : pc[w] = "busy" => held[v].id # held[w].id
    /\ \A j \in QueuedJobs : held[v].id # j.id

\* The mapping under which this specification implements JobPool: the jobs
\* in the slices are the pending set, the Bloom filter the seen keys.
Pool == INSTANCE JobPool WITH pending <- QueuedJobs, seen <- bloom,
                              lastID <- nextID, KeyOf <- dedupKey

\* The queue behaves as the abstract pool: refused keys stay refused, and the
\* job given to a worker is the best one of its domain.
RefinesPool == Pool!PoolSpec

\* Once the context is cancelled every worker leaves DequeueWithWait, also
\* one that read ctx.Err() before the cancel and went to sleep after it.
ShutdownCompletes == cancelled ~> \A w \in Worker : pc[w] = "done"

\* A queued job is dispatched, unless the crawler is stopped: also when the
\* only event it waits for is a limiter slot, which notifies nobody.  There are
\* MaxJobs jobs: under endless arrivals of better jobs of its domain, or of
\* jobs of other domains, one may wait forever.
JobsServed ==
  \A n \in 1..MaxJobs :
    (\E j \in QueuedJobs : j.id = n) ~> (cancelled \/ \A j \in QueuedJobs : j.id # n)
=============================================================================

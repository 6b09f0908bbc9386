--------------------------- MODULE SchedulerProofs ---------------------------
(* Theorems about Scheduler, for every set of URLs, seeds and domains, any   *)
(* number of errors and restarts.                                            *)
EXTENDS Scheduler, TLAPS

-----------------------------------------------------------------------------
(* The inductive invariant.                                                *)

\* The rows a tick has claimed are there until it deletes them: nobody else
\* resets or deletes a row, and once the frontier was offered a URL its row
\* keeps a new request for it from being stored.
ClaimHeld ==
  at \in {"requests", "complete"} =>
    \A u \in hand : row[u] \in {"claimed", "stalled"} /\ (at = "complete" => u \notin waiting)

\* What was marked, and is not past its interval, has its date.
MarkKept == \A i \in recent : last[i] <= IntervalOf(i)

\* Only the flush writes pages_count, so what it has read is still true.
ReadCurrent == \A r \in read : r[2] = count[r[1]]

IInv ==
  /\ TypeOK /\ ClaimHeld /\ RequestKept /\ MarkKept /\ RecrawlOnce
  /\ ReadCurrent /\ CountsExact

LEMMA InitInv == Init => IInv
<1> SUFFICES ASSUME Init PROVE IInv
  OBVIOUS
<1> USE SchedulerAssumption DEF Init
<1>1. TypeOK
  BY DEF TypeOK, Zero, seedURLsFromConfig, Item
<1>2. CountsExact
  BY DEF CountsExact, Zero
<1> QED BY <1>1, <1>2 DEF IInv, ClaimHeld, RequestKept, MarkKept, RecrawlOnce, ReadCurrent

-----------------------------------------------------------------------------
(* The tick.                                                               *)

\* Ages and intervals are numbers.
LEMMA Compared ==
  ASSUME TypeOK
  PROVE  \A i \in Item : last[i] \in Nat /\ IntervalOf(i) \in Nat
<1> SUFFICES ASSUME NEW i \in Item PROVE last[i] \in Nat /\ IntervalOf(i) \in Nat
  OBVIOUS
<1>1. last[i] \in 0 .. Never
  BY DEF TypeOK
<1>2. cfg \in Nat /\ \A u \in Url : interval[u] \in Nat
  BY SchedulerAssumption DEF TypeOK
<1> QED BY <1>1, <1>2, SchedulerAssumption DEF IntervalOf, Item

\* A statement of the tick preserves the invariant.
LEMMA TickInv ==
  ASSUME IInv, TickStep
  PROVE  IInv'
<1> USE SchedulerAssumption
<1>t. TypeOK
  BY DEF IInv
<1>c. ReadCurrent' /\ CountsExact'
  <2>1. UNCHANGED <<count, collector>>
    BY DEF TickStep, GetStaleSeedURLs, GetStaleSeedURLsFails, EnqueueSeeds, MarkSeed, tables,
           ResetStalledJobs, GetStaleDomainsForRecrawl, EnqueueHomes, MarkHome, DequeueURLs,
           EnqueueRequests, CompleteJob
  <2>2. UNCHANGED bounded \/ Failure
    BY DEF TickStep, GetStaleSeedURLs, GetStaleSeedURLsFails, EnqueueSeeds, MarkSeed,
           ResetStalledJobs, GetStaleDomainsForRecrawl, EnqueueHomes, MarkHome, DequeueURLs,
           EnqueueRequests, CompleteJob
  <2>3. (fails' = 0 /\ crashes' = 0) => (fails = 0 /\ crashes = 0)
    BY <1>t, <2>2 DEF TypeOK, Failure, bounded
  <2> QED BY <2>1, <2>3 DEF IInv, ReadCurrent, CountsExact, collector
<1> DEFINE Rest == ClaimHeld /\ RequestKept /\ MarkKept /\ RecrawlOnce
<1> SUFFICES TypeOK' /\ Rest'
  BY <1>c DEF IInv
<1>r. Rest
  BY DEF IInv
<1>1. CASE GetStaleSeedURLs
  <2>1. /\ hand' = {u \in Url : Stale(u)} /\ at' \in {"seeds", "reset"}
        /\ UNCHANGED <<tables, collector, bounded, waiting, recent>>
    BY <1>1 DEF GetStaleSeedURLs, Proceed
  <2>2. hand' \cap recent = {}
    BY <2>1, <1>t, <1>r, Compared DEF MarkKept, Stale, Item
  <2>3. TypeOK'
    BY <2>1, <1>t DEF TypeOK, Item, tables, collector, bounded
  <2>4. Rest'
    BY <2>1, <2>2, <1>r DEF tables, ClaimHeld, RequestKept, MarkKept, IntervalOf, RecrawlOnce
  <2> QED BY <2>3, <2>4
<1>2. CASE GetStaleSeedURLsFails
  BY <1>2, <1>t, <1>r DEF GetStaleSeedURLsFails, Failure, TypeOK, Item, tables, tick, collector,
     ClaimHeld, RequestKept, MarkKept, IntervalOf, RecrawlOnce
<1>3. CASE EnqueueSeeds
  BY <1>3, <1>t, <1>r DEF EnqueueSeeds, TypeOK, Item, tables, collector, bounded,
     ClaimHeld, RequestKept, MarkKept, IntervalOf, RecrawlOnce
<1>4. CASE \E u \in Url : MarkSeed(u)
  <2>1. PICK u \in Url : MarkSeed(u)
    BY <1>4
  <2>2. TypeOK'
    BY <2>1, <1>t DEF MarkSeed, Proceed, Failure, TypeOK, Item, collector, bounded
  <2>3. Rest'
    <3>1. MarkKept'
      <4>1. UNCHANGED <<interval, cfg>> /\ u \in Item /\ u \notin Domain
        BY <2>1 DEF MarkSeed, Item
      <4>2. \A i \in Item : IntervalOf(i)' = IntervalOf(i)
        BY <4>1 DEF IntervalOf
      <4>3. \/ UNCHANGED <<last, recent>>
            \/ last' = [last EXCEPT ![u] = 0] /\ recent' = recent \cup {u}
        BY <2>1 DEF MarkSeed
      <4> QED BY <4>1, <4>2, <4>3, <1>t, <1>r, Compared DEF MarkKept, TypeOK
    <3>2. RecrawlOnce'
      BY <2>1, <1>t DEF MarkSeed, Proceed, TypeOK, RecrawlOnce
    <3> QED BY <2>1, <3>1, <3>2, <1>t, <1>r DEF MarkSeed, Proceed, TypeOK, ClaimHeld, RequestKept
  <2> QED BY <2>2, <2>3
<1>5. CASE ResetStalledJobs
  BY <1>5, <1>t, <1>r DEF ResetStalledJobs, Failure, TypeOK, Item, collector, bounded,
     ClaimHeld, RequestKept, MarkKept, IntervalOf, RecrawlOnce
<1>6. CASE GetStaleDomainsForRecrawl
  <2>1. TypeOK'
    BY <1>6, <1>t DEF GetStaleDomainsForRecrawl, StaleDomains, Proceed, Failure, TypeOK, Item,
       tables, collector, bounded
  <2>2. Rest'
    BY <1>6, <1>t, <1>r DEF GetStaleDomainsForRecrawl, StaleDomains, Stale, Proceed, TypeOK, tables,
       ClaimHeld, RequestKept, MarkKept, IntervalOf, RecrawlOnce
  <2> QED BY <2>1, <2>2
<1>7. CASE EnqueueHomes
  BY <1>7, <1>t, <1>r DEF EnqueueHomes, TypeOK, Item, tables, collector, bounded,
     ClaimHeld, RequestKept, MarkKept, IntervalOf, RecrawlOnce
<1>8. CASE \E d \in Domain : MarkHome(d)
  <2>1. PICK d \in Domain : MarkHome(d)
    BY <1>8
  <2>2. TypeOK'
    BY <2>1, <1>t DEF MarkHome, Proceed, Failure, TypeOK, Item, collector, bounded
  <2>3. Rest'
    <3>1. MarkKept'
      <4>1. UNCHANGED <<interval, cfg>> /\ d \in Item
        BY <2>1 DEF MarkHome, Item
      <4>2. \A i \in Item : IntervalOf(i)' = IntervalOf(i)
        BY <4>1 DEF IntervalOf
      <4>3. \/ UNCHANGED <<last, recent>>
            \/ last' = [last EXCEPT ![d] = 0] /\ recent' = recent \cup {d}
        BY <2>1 DEF MarkHome
      <4> QED BY <4>1, <4>2, <4>3, <1>t, <1>r, Compared DEF MarkKept, TypeOK
    <3>2. RecrawlOnce'
      BY <2>1, <1>t DEF MarkHome, Proceed, TypeOK, RecrawlOnce
    <3> QED BY <2>1, <3>1, <3>2, <1>t, <1>r DEF MarkHome, Proceed, TypeOK, ClaimHeld, RequestKept
  <2> QED BY <2>2, <2>3
<1>9. CASE DequeueURLs
  <2>1. TypeOK'
    BY <1>9, <1>t DEF DequeueURLs, Pending, Proceed, Failure, TypeOK, Item, collector, bounded
  <2>2. Rest'
    BY <1>9, <1>t, <1>r DEF DequeueURLs, Pending, Proceed, TypeOK,
       ClaimHeld, RequestKept, MarkKept, IntervalOf, RecrawlOnce
  <2> QED BY <2>1, <2>2
<1>10. CASE EnqueueRequests
  BY <1>10, <1>t, <1>r DEF EnqueueRequests, TypeOK, Item, tables, collector, bounded,
     ClaimHeld, RequestKept, MarkKept, IntervalOf, RecrawlOnce
<1>11. CASE \E u \in Url : CompleteJob(u)
  <2>1. PICK u \in Url : CompleteJob(u)
    BY <1>11
  <2>2. TypeOK'
    BY <2>1, <1>t DEF CompleteJob, Proceed, Failure, TypeOK, Item, collector, bounded
  <2>3. Rest'
    BY <2>1, <1>t, <1>r DEF CompleteJob, Proceed, TypeOK, ClaimHeld, RequestKept, MarkKept, IntervalOf, RecrawlOnce
  <2> QED BY <2>2, <2>3
<1> QED
  BY <1>1, <1>2, <1>3, <1>4, <1>5, <1>6, <1>7, <1>8, <1>9, <1>10, <1>11 DEF TickStep
-----------------------------------------------------------------------------
(* The collector.                                                          *)

\* A step of a flush preserves the invariant.
LEMMA CollectorInv ==
  ASSUME IInv, CollectorStep
  PROVE  IInv'
<1> USE SchedulerAssumption
<1>t. TypeOK /\ ReadCurrent /\ CountsExact
  BY DEF IInv
<1>r. ClaimHeld' /\ RequestKept' /\ MarkKept' /\ RecrawlOnce'
  BY DEF CollectorStep, FlushSwap, FlushRead, UpsertDomain, tables, tick,
     IInv, ClaimHeld, RequestKept, MarkKept, IntervalOf, RecrawlOnce
<1> SUFFICES TypeOK' /\ ReadCurrent' /\ CountsExact'
  BY <1>r DEF IInv
<1>1. CASE FlushSwap
  BY <1>1, <1>t DEF FlushSwap, Zero, TypeOK, ReadCurrent, CountsExact, tables, tick, bounded
<1>2. CASE \E d \in Domain : FlushRead(d)
  <2>1. PICK d \in Domain : FlushRead(d)
    BY <1>2
  <2>2. CASE UNCHANGED bounded /\ read' = {<<d, count[d]>>} /\ UNCHANGED snapshot
    BY <2>1, <2>2, <1>t DEF FlushRead, TypeOK, ReadCurrent, CountsExact, tables, tick, bounded
  <2>3. CASE Failure /\ snapshot' = [snapshot EXCEPT ![d] = 0] /\ UNCHANGED read
    BY <2>1, <2>3, <1>t DEF FlushRead, Failure, TypeOK, ReadCurrent, CountsExact, tables, tick
  <2> QED BY <2>1, <2>2, <2>3 DEF FlushRead
<1>3. CASE \E d \in Domain : UpsertDomain(d)
  <2>1. PICK d \in Domain : UpsertDomain(d)
    BY <1>3
  <2>2. PICK r \in read :
          /\ r[1] = d
          /\ \/ count' = [count EXCEPT ![d] = r[2] + snapshot[d]] /\ UNCHANGED bounded
             \/ Failure /\ UNCHANGED count
    BY <2>1 DEF UpsertDomain
  <2>3. r[2] = count[d] /\ count[d] \in Nat
    BY <2>2, <1>t DEF ReadCurrent, TypeOK
  <2>4. TypeOK' /\ ReadCurrent'
    BY <2>1, <2>2, <2>3, <1>t DEF UpsertDomain, Failure, TypeOK, ReadCurrent, tick, bounded
  <2>5. CASE count' = [count EXCEPT ![d] = count[d] + snapshot[d]] /\ UNCHANGED bounded
    BY <2>1, <2>4, <2>5, <1>t DEF UpsertDomain, TypeOK, CountsExact, bounded
  <2>6. CASE Failure
    BY <2>4, <2>6, <1>t DEF Failure, TypeOK, CountsExact
  <2> QED BY <2>2, <2>3, <2>5, <2>6
<1> QED BY <1>1, <1>2, <1>3 DEF CollectorStep

-----------------------------------------------------------------------------
(* The others.                                                             *)

\* The end of the process preserves the invariant: nothing that is only in
\* memory is needed for it, and the purge takes a mark with its row.
LEMMA RestartInv ==
  ASSUME IInv, Restart
  PROVE  IInv'
<1> USE SchedulerAssumption
<1>t. TypeOK
  BY DEF IInv
<1>1. PICK queued \in SUBSET Domain, domains \in SUBSET Domain, seeds \in SUBSET Domain :
        Purge(queued, domains, seeds)
  BY DEF Restart
<1>2. interval' \in [Url -> Interval \cup {Never}]
  BY <1>1 DEF Purge, seedURLsFromConfig
<1>3. /\ row' \in [Url -> {"none", "pending", "claimed", "stalled"}]
      /\ count' \in [Domain -> Nat] /\ last' \in [Item -> 0 .. Never]
      /\ waiting' \subseteq Url
  BY <1>1, <1>t DEF Purge, TypeOK
<1>4. TypeOK'
  BY <1>2, <1>3, <1>t DEF Restart, TypeOK, Zero, Item
<1>5. CountsExact' /\ ReadCurrent'
  BY <1>t DEF Restart, TypeOK, CountsExact, ReadCurrent
<1>6. ClaimHeld' /\ RecrawlOnce'
  BY DEF Restart, ClaimHeld, RecrawlOnce
<1>7. RequestKept'
  BY <1>1, <1>t DEF Purge, IInv, RequestKept, TypeOK
<1>8. MarkKept'
  BY DEF Restart, MarkKept
<1> QED BY <1>4, <1>5, <1>6, <1>7, <1>8 DEF IInv

\* Workers, other processes and the passing of time preserve the invariant.
LEMMA OthersInv ==
  ASSUME IInv,
         \/ \E d \in Domain : Record(d)
         \/ \E u \in Url : \/ EnqueueURLsDirectly(u) \/ UpsertSeedURL(u) \/ DeleteSeedURL(u)
                           \/ LockAges(u)
         \/ \E i \in Item : MarkAges(i)
  PROVE  IInv'
<1> USE SchedulerAssumption
<1> USE DEF IInv, TypeOK, ClaimHeld, RequestKept, MarkKept, RecrawlOnce, ReadCurrent, CountsExact
<1>1. ASSUME NEW d \in Domain, Record(d) PROVE IInv'
  BY <1>1 DEF Record, tables, tick, bounded, IntervalOf
<1>2. ASSUME NEW i \in Item, MarkAges(i) PROVE IInv'
  <2>1. last[i] \in 0 .. Never /\ last[i] < Never
    BY <1>2 DEF MarkAges
  <2>2. last' = [last EXCEPT ![i] = last[i] + 1] /\ last[i] + 1 \in 0 .. Never
    BY <1>2, <2>1 DEF MarkAges
  <2>3. recent' \subseteq recent /\ (i \in recent' => last[i] + 1 <= IntervalOf(i))
    <3>1. IntervalOf(i) \in Nat
      BY DEF IntervalOf, Item
    <3> QED BY <1>2, <2>1, <3>1 DEF MarkAges
  <2>4. MarkKept'
    <3> SUFFICES ASSUME NEW k \in recent' PROVE last'[k] <= IntervalOf(k)'
      OBVIOUS
    <3>1. IntervalOf(k)' = IntervalOf(k) /\ k \in Item
      BY <1>2, <2>3 DEF MarkAges, IntervalOf
    <3> QED BY <2>2, <2>3, <3>1
  <2>5. last' \in [Item -> 0 .. Never]
    BY <2>2
  <2>6. UNCHANGED <<row, interval, count, cfg, tick, collector, bounded, waiting>>
    BY <1>2 DEF MarkAges
  <2>7. TypeOK'
    BY <2>3, <2>5, <2>6 DEF tick, collector, bounded
  <2>8. ClaimHeld' /\ RequestKept' /\ RecrawlOnce' /\ ReadCurrent' /\ CountsExact'
    BY <2>3, <2>6 DEF tick, collector, bounded
  <2> QED BY <2>4, <2>7, <2>8
<1>3. ASSUME NEW u \in Url, EnqueueURLsDirectly(u) PROVE IInv'
  BY <1>3 DEF EnqueueURLsDirectly, Outside, tick, collector, IntervalOf
<1>4. ASSUME NEW u \in Url, UpsertSeedURL(u) PROVE IInv'
  <2>1. PICK new \in Interval :
          /\ interval' = [interval EXCEPT ![u] = new]
          /\ recent' = IF last[u] > new THEN recent \ {u} ELSE recent
    BY <1>4 DEF UpsertSeedURL
  <2>2. UNCHANGED <<row, count, last, cfg, tick, collector, waiting, fails, crashes>> /\ requests' \in Nat
    BY <1>4 DEF UpsertSeedURL, Outside
  <2>3. MarkKept'
    <3> SUFFICES ASSUME NEW k \in recent' PROVE last'[k] <= IntervalOf(k)'
      OBVIOUS
    <3>1. k \in recent /\ last[k] <= IntervalOf(k) /\ k \in Item
      BY <2>1
    <3>2. CASE k = u
      <4>1. last[u] \in Nat /\ new \in Nat /\ u \in Item /\ u \notin Domain
        BY DEF Item
      <4>2. last[u] <= new
        BY <2>1, <3>2, <4>1
      <4>3. IntervalOf(k)' = new
        BY <2>1, <3>2, <4>1 DEF IntervalOf
      <4> QED BY <2>2, <3>2, <4>2, <4>3
    <3>3. CASE k # u
      <4>1. IntervalOf(k)' = IntervalOf(k)
        BY <2>1, <2>2, <3>1, <3>3 DEF IntervalOf, Item
      <4> QED BY <2>2, <3>1, <4>1
    <3> QED BY <3>2, <3>3
  <2>4. TypeOK'
    BY <2>1, <2>2 DEF tick, collector
  <2>5. ClaimHeld' /\ RequestKept' /\ RecrawlOnce' /\ ReadCurrent' /\ CountsExact'
    BY <2>1, <2>2 DEF tick, collector
  <2> QED BY <2>3, <2>4, <2>5
<1>5. ASSUME NEW u \in Url, DeleteSeedURL(u) PROVE IInv'
  <2>1. MarkKept'
    BY <1>5 DEF DeleteSeedURL, IntervalOf, Item
  <2> QED BY <1>5, <2>1 DEF DeleteSeedURL, Outside, tick, collector, Item
<1>6. ASSUME NEW u \in Url, LockAges(u) PROVE IInv'
  BY <1>6 DEF LockAges, tick, collector, bounded, IntervalOf
<1> HIDE DEF IInv, TypeOK, ClaimHeld, RequestKept, MarkKept, RecrawlOnce, ReadCurrent, CountsExact
<1> QED BY <1>1, <1>2, <1>3, <1>4, <1>5, <1>6

-----------------------------------------------------------------------------
(* The theorems.                                                           *)

LEMMA NextInv == IInv /\ [Next]_vars => IInv'
<1> SUFFICES ASSUME IInv, [Next]_vars PROVE IInv'
  OBVIOUS
<1>1. CASE UNCHANGED vars
  BY <1>1 DEF vars, tables, tick, collector, bounded, IInv, TypeOK, ClaimHeld, RequestKept,
     MarkKept, IntervalOf, RecrawlOnce, ReadCurrent, CountsExact
<1> QED BY <1>1, TickInv, CollectorInv, RestartInv, OthersInv DEF Next

LEMMA Inductive == Spec => []IInv
<1>1. Init => IInv
  BY InitInv
<1>2. IInv /\ [Next]_vars => IInv'
  BY NextInv
<1> QED BY <1>1, <1>2, PTL DEF Spec

\* The tables, the tick and the collector keep their types; in particular no
\* row of crawl_queue is ever marked failed.
THEOREM SchedulerTypeCorrect == Spec => []TypeOK
<1>1. IInv => TypeOK
  BY DEF IInv
<1> QED BY <1>1, Inductive, PTL

\* No stored crawl request is lost by a tick that fails or is cut short.
THEOREM RequestsKept == Spec => []RequestKept
<1>1. IInv => RequestKept
  BY DEF IInv
<1> QED BY <1>1, Inductive, PTL

\* What was enqueued and marked is not enqueued again before its interval, as it
\* was last set, is over: flushes, restarts and requests keep the time of the mark.
THEOREM RecrawledOnce == Spec => []RecrawlOnce
<1>1. IInv => RecrawlOnce
  BY DEF IInv
<1> QED BY <1>1, Inductive, PTL

\* The pages of every domain are counted exactly, whatever flushes and records
\* interleave, as long as no statement fails and the process lives.
THEOREM PagesCounted == Spec => []CountsExact
<1>1. IInv => CountsExact
  BY DEF IInv
<1> QED BY <1>1, Inductive, PTL
=============================================================================

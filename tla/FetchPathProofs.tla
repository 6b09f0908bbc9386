-------------------------- MODULE FetchPathProofs ---------------------------
(* Theorems about the fetch path.  HostCaches: for every number of workers,  *)
(* domains and objects of the DNS cache.  Fetcher: for every number of       *)
(* workers, hosts, proxies and retries and every table of delays.            *)
EXTENDS HostCaches, Fetcher, FiniteSetTheorems, TLAPS

-----------------------------------------------------------------------------
(* What both share.                                                        *)

\* A worker that is not idle has a job.
HasJob == \A w \in Worker : pc[w] # "idle" => job[w] \in Domain

\* Going to a place keeps the type of pc and moves nobody else.
LEMMA GotoMoves ==
  ASSUME WorkersOK, NEW w \in Worker, NEW l \in Place, Goto(w, l)
  PROVE  /\ pc' \in [Worker -> Place] /\ pc'[w] = l
         /\ \A v \in Worker \ {w} : pc'[v] = pc[v]
BY DEF WorkersOK, Goto

-----------------------------------------------------------------------------
(* HostCaches: the inductive invariant.                                    *)

\* A worker that fetches a robots.txt holds the mutex of the domain, and the
\* cache has no entry of it.
FetchLocked ==
  \A w \in Worker : pc[w] = "robotsFetch" => fetchLock[job[w]] = w /\ ~Fresh(job[w])

\* A worker that asks the resolver holds the mutex of its object.
LookupLocked == \A w \in Worker : pc[w] = "resolve" => lookupMu[found[w]] = w

\* An object a worker waits for or holds is the one of the map, or has been
\* taken out of it.
FoundKnown ==
  \A w \in Worker : pc[w] \in {"dnsLock", "resolve"} =>
    entries[job[w]] = found[w] \/ found[w] \in pruned

CachesIInv == CachesOK /\ HasJob /\ FetchLocked /\ LookupLocked /\ FoundKnown

\* The mutexes and the map make every request the only one of its kind.
LEMMA CachesSingle == CachesIInv => SingleFlight
<1> SUFFICES ASSUME CachesIInv PROVE SingleFlight
  OBVIOUS
<1>1. RobotsFetchedOnce
  BY DEF CachesIInv, FetchLocked, RobotsFetchedOnce
<1>2. OneLookup
  <2> SUFFICES ASSUME NEW v \in Worker, NEW w \in Worker, v # w,
                      pc[v] = "resolve", pc[w] = "resolve", job[v] = job[w]
               PROVE  found[v] # found[w] /\ pruned \cap {found[v], found[w]} # {}
    BY DEF OneLookup
  <2>1. found[v] # found[w]
    BY DEF CachesIInv, LookupLocked
  <2>2. found[v] \in pruned \/ found[w] \in pruned
    BY <2>1 DEF CachesIInv, FoundKnown
  <2> QED BY <2>1, <2>2
<1> QED BY <1>1, <1>2 DEF SingleFlight

\* The initial states satisfy the invariant.
LEMMA CachesInitInv == CachesInit => CachesIInv
<1> SUFFICES ASSUME CachesInit PROVE CachesIInv
  OBVIOUS
<1>1. WorkersOK
  BY DEF CachesInit, WorkersInit, WorkersOK, Place
<1>2. RobotsOK
  BY DEF CachesInit, WorkersInit, RobotsInit, RobotsOK
<1>3. DNSOK
  BY DEF CachesInit, WorkersInit, DNSInit, DNSOK
<1>4. starts \in 0..MaxStarts /\ engine = "idle"
  BY WorkersAssumption DEF CachesInit, WorkersInit
<1>5. \A w \in Worker : pc[w] = "idle" /\ found[w] = NoEntry
  BY DEF CachesInit, WorkersInit, DNSInit
<1>6. CachesOK
  BY <1>1, <1>2, <1>3, <1>4, <1>5 DEF CachesOK, EngineOK
<1>7. HasJob /\ FetchLocked /\ LookupLocked /\ FoundKnown
  BY <1>5 DEF HasJob, FetchLocked, LookupLocked, FoundKnown
<1> QED BY <1>6, <1>7 DEF CachesIInv

-----------------------------------------------------------------------------
(* What the helpers do.                                                    *)

\* A worker that is let pass goes on with its job, any other one drops it.
LEMMA AllowedMoves ==
  ASSUME WorkersOK, NEW w \in Worker, NEW e, IsAllowed(w, e)
  PROVE  /\ WorkersOK'
         /\ \/ pc'[w] = "lookup" /\ job'[w] = job[w]
            \/ pc'[w] = "idle"
         /\ \A v \in Worker \ {w} : pc'[v] = pc[v] /\ job'[v] = job[v]
<1>1. "lookup" \in Place /\ "idle" \in Place
  BY DEF Place, DialPlace
<1>2. CASE Permits(e, job[w])
  BY <1>1, <1>2, GotoMoves DEF IsAllowed, WorkersOK
<1>3. CASE ~Permits(e, job[w])
  BY <1>1, <1>3, GotoMoves DEF IsAllowed, Done, WorkersOK
<1> QED BY <1>2, <1>3

\* There is an unused object when a worker makes a new one: every worker and
\* every domain refers to one at most, this worker and its domain to none.
LEMMA UnusedExists ==
  ASSUME DNSOK, NEW w \in Worker, found[w] = NoEntry
  PROVE  \E e \in Entry : Unused(e)
<1> SUFFICES ASSUME \A e \in Entry : ~Unused(e) PROVE FALSE
  OBVIOUS
<1> DEFINE F == {found[v] : v \in Worker}
           H == {entries[h] : h \in Domain}
<1>1. IsFiniteSet(F) /\ Cardinality(F) <= Cardinality(Worker)
  <2>1. [v \in Worker |-> found[v]] \in Surjection(Worker, F)
    BY DEF Surjection
  <2> HIDE DEF F
  <2> QED BY <2>1, DNSAssumption, FS_Surjection
<1>2. IsFiniteSet(H) /\ Cardinality(H) <= Cardinality(Domain)
  <2>1. [h \in Domain |-> entries[h]] \in Surjection(Domain, H)
    BY DEF Surjection
  <2> HIDE DEF H
  <2> QED BY <2>1, DNSAssumption, FS_Surjection
<1>3. Entry \cup {NoEntry} \subseteq F \cup H
  BY DEF Unused
<1> HIDE DEF F, H
<1>4. /\ IsFiniteSet(F \cup H)
      /\ Cardinality(F \cup H) = Cardinality(F) + Cardinality(H) - Cardinality(F \cap H)
  BY <1>1, <1>2, FS_Union
<1>5. IsFiniteSet(F \cap H)
  BY <1>1, FS_Subset
<1>6. /\ IsFiniteSet(Entry \cup {NoEntry})
      /\ Cardinality(Entry \cup {NoEntry}) = Cardinality(Entry) + 1
  BY DNSAssumption, FS_AddElement
<1>7. Cardinality(Entry \cup {NoEntry}) <= Cardinality(F \cup H)
  BY <1>3, <1>4, FS_Subset
<1>8. /\ Cardinality(F) \in Nat /\ Cardinality(H) \in Nat /\ Cardinality(F \cap H) \in Nat
      /\ Cardinality(Entry) \in Nat /\ Cardinality(Worker) \in Nat /\ Cardinality(Domain) \in Nat
  BY <1>1, <1>2, <1>5, DNSAssumption, FS_CardinalityType
<1> QED BY <1>1, <1>2, <1>4, <1>6, <1>7, <1>8, DNSAssumption

-----------------------------------------------------------------------------
(* Steps in the robots cache.                                              *)

\* A look, a fetch and its end keep the invariant: the lock has one holder.
LEMMA RobotsInv ==
  ASSUME CachesIInv, NEW w \in Worker, Robots(w)
  PROVE  CachesIInv'
<1>1. CachesOK /\ WorkersOK /\ RobotsOK /\ DNSOK /\ HasJob /\ FetchLocked /\ LookupLocked /\ FoundKnown
  BY DEF CachesIInv, CachesOK, EngineOK
<1>2. UNCHANGED <<entries, valid, lookupMu, found, janitor, pruned, engine, starts>>
  BY DEF Robots, dnsVars, lifeVars
<1>3. pc[w] \in {"robots", "robotsLock", "robotsFetch"} /\ job[w] \in Domain /\ found[w] = NoEntry
  BY <1>1 DEF Robots, RobotsCheck, RobotsLock, RobotsFetched, HasJob, CachesOK, EngineOK
<1>4. {"robotsLock", "robotsFetch"} \subseteq Place
  BY DEF Place, RobotsPlace
\* What every step has in common: only w moves, and not into the DNS cache.
<1>5. ASSUME WorkersOK', RobotsOK',
             pc'[w] \in {"idle", "lookup", "robotsLock", "robotsFetch"},
             pc'[w] # "idle" => job'[w] = job[w],
             \A v \in Worker \ {w} : pc'[v] = pc[v] /\ job'[v] = job[v],
             FetchLocked'
      PROVE  CachesIInv'
  <2>1. CachesOK'
    <3>1. DNSOK' /\ engine' \in {"running", "stopping", "idle"} /\ starts' \in 0..MaxStarts
      BY <1>1, <1>2 DEF CachesOK, EngineOK, DNSOK
    <3>2. \A v \in Worker : (pc'[v] \in {"dnsLock", "resolve"}) = (found'[v] # NoEntry)
      BY <1>1, <1>2, <1>3, <1>5 DEF CachesOK, EngineOK
    <3> QED BY <1>5, <3>1, <3>2 DEF CachesOK, EngineOK
  <2>2. HasJob'
    BY <1>1, <1>3, <1>5 DEF HasJob
  <2>3. LookupLocked'
    BY <1>1, <1>2, <1>5 DEF LookupLocked
  <2>4. FoundKnown'
    BY <1>1, <1>2, <1>5 DEF FoundKnown
  <2> QED BY <1>5, <2>1, <2>2, <2>3, <2>4 DEF CachesIInv
<1>6. CASE RobotsCheck(w)
  <2>1. UNCHANGED <<cache, fetchLock>>
    BY <1>6 DEF RobotsCheck, robotsVars
  <2>2. \/ IsAllowed(w, cache[job[w]])
        \/ Goto(w, "robotsLock") /\ job' = job
    BY <1>6 DEF RobotsCheck
  <2>3. /\ WorkersOK' /\ pc'[w] \in {"idle", "lookup", "robotsLock"}
        /\ pc'[w] # "idle" => job'[w] = job[w]
        /\ \A v \in Worker \ {w} : pc'[v] = pc[v] /\ job'[v] = job[v]
    <3>1. CASE IsAllowed(w, cache[job[w]])
      BY <1>1, <3>1, AllowedMoves
    <3>2. CASE Goto(w, "robotsLock") /\ job' = job
      BY <1>1, <1>4, <3>2, GotoMoves DEF WorkersOK
    <3> QED BY <2>2, <3>1, <3>2
  <2>4. RobotsOK' /\ FetchLocked'
    BY <1>1, <2>1, <2>3 DEF RobotsOK, FetchLocked, Fresh
  <2> QED BY <1>5, <2>3, <2>4
<1>7. CASE RobotsLock(w)
  <2>1. fetchLock[job[w]] = NoWorker /\ cache' = cache
    BY <1>7 DEF RobotsLock, robotsVars
  <2>2. CASE Fresh(job[w])
    <3>1. IsAllowed(w, cache[job[w]]) /\ fetchLock' = fetchLock
      BY <1>7, <2>2 DEF RobotsLock, robotsVars
    <3>2. /\ WorkersOK' /\ pc'[w] \in {"idle", "lookup"}
          /\ pc'[w] # "idle" => job'[w] = job[w]
          /\ \A v \in Worker \ {w} : pc'[v] = pc[v] /\ job'[v] = job[v]
      BY <1>1, <3>1, AllowedMoves
    <3>3. RobotsOK' /\ FetchLocked'
      BY <1>1, <2>1, <3>1, <3>2 DEF RobotsOK, FetchLocked, Fresh
    <3> QED BY <1>5, <3>2, <3>3
  <2>3. CASE ~Fresh(job[w])
    <3>1. fetchLock' = [fetchLock EXCEPT ![job[w]] = w] /\ Goto(w, "robotsFetch") /\ job' = job
      BY <1>7, <2>3 DEF RobotsLock
    <3>2. /\ WorkersOK' /\ pc'[w] = "robotsFetch"
          /\ \A v \in Worker \ {w} : pc'[v] = pc[v]
      BY <1>1, <1>4, <3>1, GotoMoves DEF WorkersOK
    <3>3. RobotsOK'
      BY <1>1, <1>3, <2>1, <3>1 DEF RobotsOK
    <3>4. fetchLock'[job[w]] = w /\ \A d \in Domain \ {job[w]} : fetchLock'[d] = fetchLock[d]
      BY <1>1, <1>3, <3>1 DEF RobotsOK
    <3>5. ASSUME NEW v \in Worker, pc'[v] = "robotsFetch"
          PROVE  fetchLock'[job'[v]] = v /\ cache'[job'[v]] = "none"
      <4>1. CASE v = w
        BY <2>1, <2>3, <3>1, <3>4, <4>1 DEF Fresh
      <4>2. CASE v # w
        <5>1. pc[v] = "robotsFetch" /\ job[v] \in Domain
          BY <1>1, <3>2, <3>5, <4>2 DEF HasJob
        <5>2. fetchLock[job[v]] = v /\ ~Fresh(job[v])
          BY <1>1, <5>1 DEF FetchLocked
        <5>3. job[v] # job[w]
          BY <2>1, <5>2, WorkersAssumption
        <5> QED BY <2>1, <3>1, <3>4, <5>1, <5>2, <5>3 DEF Fresh
      <4> QED BY <4>1, <4>2
    <3>6. FetchLocked'
      BY <3>5 DEF FetchLocked, Fresh
    <3> QED BY <1>5, <3>1, <3>2, <3>3, <3>6
  <2> QED BY <2>2, <2>3
<1>8. ASSUME NEW e \in {"rules", "open", "failed"}, RobotsFetched(w, e)
      PROVE  CachesIInv'
  <2>1. /\ pc[w] = "robotsFetch" /\ cache' = [cache EXCEPT ![job[w]] = e]
        /\ fetchLock' = [fetchLock EXCEPT ![job[w]] = NoWorker] /\ IsAllowed(w, e)
    BY <1>8 DEF RobotsFetched
  <2>2. /\ WorkersOK' /\ pc'[w] \in {"idle", "lookup"}
        /\ pc'[w] # "idle" => job'[w] = job[w]
        /\ \A v \in Worker \ {w} : pc'[v] = pc[v] /\ job'[v] = job[v]
    BY <1>1, <2>1, AllowedMoves
  <2>3. /\ RobotsOK'
        /\ \A d \in Domain \ {job[w]} : fetchLock'[d] = fetchLock[d] /\ cache'[d] = cache[d]
    BY <1>1, <1>3, <2>1 DEF RobotsOK
  <2>4. FetchLocked'
    <3> SUFFICES ASSUME NEW v \in Worker, pc'[v] = "robotsFetch"
                 PROVE  fetchLock'[job'[v]] = v /\ cache'[job'[v]] = "none"
      BY DEF FetchLocked, Fresh
    <3>1. v # w /\ pc[v] = "robotsFetch" /\ job'[v] = job[v] /\ job[v] \in Domain
      BY <1>1, <2>2 DEF HasJob
    <3>2. fetchLock[job[v]] = v /\ ~Fresh(job[v]) /\ fetchLock[job[w]] = w
      BY <1>1, <2>1, <3>1 DEF FetchLocked
    <3>3. job[v] # job[w]
      BY <3>1, <3>2
    <3> QED BY <2>3, <3>1, <3>2, <3>3 DEF Fresh
  <2> QED BY <1>5, <2>2, <2>3, <2>4
<1> QED BY <1>6, <1>7, <1>8 DEF Robots

-----------------------------------------------------------------------------
(* Steps in the DNS cache.                                                 *)

\* So do the steps of a lookup: whoever resolves an entry holds its lock.
LEMMA DialInv ==
  ASSUME CachesIInv, NEW w \in Worker, Dial(w)
  PROVE  CachesIInv'
<1>1. CachesOK /\ WorkersOK /\ RobotsOK /\ DNSOK /\ HasJob /\ FetchLocked /\ LookupLocked /\ FoundKnown
  BY DEF CachesIInv, CachesOK, EngineOK
<1>2. UNCHANGED <<job, cache, fetchLock, engine, starts, janitor>>
  BY DEF Dial, robotsVars, lifeVars, LookupFast, LookupEntry, LookupLock, Resolved
<1>3. pc[w] \in {"lookup", "dnsEntry", "dnsLock", "resolve"} /\ job[w] \in Domain
  BY <1>1 DEF Dial, LookupFast, LookupEntry, LookupLock, Resolved, HasJob
<1>4. {"dnsEntry", "dnsLock", "resolve", "request"} \subseteq Place
  BY DEF Place, DialPlace
\* What every step has in common: only w moves, within the DNS cache.
<1>5. ASSUME NEW l \in {"dnsEntry", "dnsLock", "resolve", "request"}, Goto(w, l), DNSOK',
             \A v \in Worker \ {w} : found'[v] = found[v],
             (l \in {"dnsLock", "resolve"}) = (found'[w] # NoEntry),
             LookupLocked', FoundKnown'
      PROVE  CachesIInv'
  <2>1. pc' \in [Worker -> Place] /\ pc'[w] = l /\ \A v \in Worker \ {w} : pc'[v] = pc[v]
    BY <1>1, <1>4, <1>5, GotoMoves
  <2>2. CachesOK'
    <3>1. WorkersOK' /\ RobotsOK'
      BY <1>1, <1>2, <2>1 DEF WorkersOK, RobotsOK
    <3>2. \A v \in Worker : (pc'[v] \in {"dnsLock", "resolve"}) = (found'[v] # NoEntry)
      BY <1>1, <1>5, <2>1 DEF CachesOK, EngineOK
    <3> QED BY <1>1, <1>2, <1>5, <3>1, <3>2 DEF CachesOK, EngineOK
  <2>3. HasJob'
    BY <1>1, <1>2, <1>3, <2>1 DEF HasJob
  <2>4. FetchLocked'
    BY <1>1, <1>2, <1>5, <2>1 DEF FetchLocked, Fresh
  <2> QED BY <1>5, <2>2, <2>3, <2>4 DEF CachesIInv
<1>6. /\ entries \in [Domain -> Entry \cup {NoEntry}] /\ found \in [Worker -> Entry \cup {NoEntry}]
      /\ lookupMu \in [Entry -> Worker \cup {NoWorker}] /\ pc \in [Worker -> Place]
  BY <1>1 DEF DNSOK, WorkersOK
<1>7. \A v \in Worker : (pc[v] \in {"dnsLock", "resolve"}) = (found[v] # NoEntry)
  BY <1>1 DEF CachesOK, EngineOK
<1>8. CASE LookupFast(w)
  <2>1. pc[w] = "lookup" /\ found[w] = NoEntry /\ UNCHANGED <<entries, valid, lookupMu, pruned>>
    BY <1>7, <1>8 DEF LookupFast
  <2>2. CASE entries[job[w]] = NoEntry \/ entries[job[w]] \in valid
    <3>1. PICK l \in {"dnsEntry", "request"} : Goto(w, l)
      BY <1>8, <2>2 DEF LookupFast
    <3>2. found' = found
      BY <1>8, <2>2 DEF LookupFast
    <3>3. pc'[w] = l /\ \A v \in Worker \ {w} : pc'[v] = pc[v]
      BY <1>6, <3>1 DEF Goto
    <3>4. DNSOK' /\ LookupLocked' /\ FoundKnown'
      BY <1>1, <1>2, <2>1, <3>2, <3>3 DEF DNSOK, LookupLocked, FoundKnown
    <3> QED BY <1>5, <2>1, <3>1, <3>2, <3>4
  <2>3. CASE entries[job[w]] # NoEntry /\ entries[job[w]] \notin valid
    <3>1. Goto(w, "dnsLock") /\ found' = [found EXCEPT ![w] = entries[job[w]]]
      BY <1>8, <2>3 DEF LookupFast
    <3>2. pc'[w] = "dnsLock" /\ \A v \in Worker \ {w} : pc'[v] = pc[v]
      BY <1>6, <3>1 DEF Goto
    <3>3. /\ found' \in [Worker -> Entry \cup {NoEntry}] /\ found'[w] = entries[job[w]]
          /\ \A v \in Worker \ {w} : found'[v] = found[v]
      BY <1>3, <1>6, <3>1
    <3>4. DNSOK' /\ LookupLocked' /\ FoundKnown'
      BY <1>1, <1>2, <2>1, <3>2, <3>3 DEF DNSOK, LookupLocked, FoundKnown
    <3> QED BY <1>5, <2>3, <3>1, <3>3, <3>4
  <2> QED BY <2>2, <2>3
<1>9. CASE LookupEntry(w)
  <2>1. pc[w] = "dnsEntry" /\ Goto(w, "dnsLock") /\ found[w] = NoEntry /\ lookupMu' = lookupMu
    BY <1>7, <1>9 DEF LookupEntry
  <2>2. pc'[w] = "dnsLock" /\ \A v \in Worker \ {w} : pc'[v] = pc[v]
    BY <1>6, <2>1 DEF Goto
  <2>3. CASE entries[job[w]] # NoEntry
    <3>1. found' = [found EXCEPT ![w] = entries[job[w]]] /\ UNCHANGED <<entries, valid, pruned>>
      BY <1>9, <2>3 DEF LookupEntry
    <3>2. /\ found' \in [Worker -> Entry \cup {NoEntry}] /\ found'[w] = entries[job[w]]
          /\ \A v \in Worker \ {w} : found'[v] = found[v]
      BY <1>3, <1>6, <3>1
    <3>3. DNSOK' /\ LookupLocked' /\ FoundKnown'
      BY <1>1, <1>2, <2>1, <2>2, <3>1, <3>2 DEF DNSOK, LookupLocked, FoundKnown
    <3> QED BY <1>5, <2>1, <2>3, <3>2, <3>3
  <2>4. CASE entries[job[w]] = NoEntry
    <3> DEFINE e == CHOOSE o \in Entry : Unused(o)
    <3>1. e \in Entry /\ Unused(e)
      BY <1>1, <2>1, UnusedExists
    <3>2. /\ entries' = [entries EXCEPT ![job[w]] = e] /\ found' = [found EXCEPT ![w] = e]
          /\ valid' = valid \ {e} /\ pruned' = pruned \ {e}
      BY <1>9, <2>4 DEF LookupEntry
    <3> HIDE DEF e
    <3>3. /\ found' \in [Worker -> Entry \cup {NoEntry}] /\ found'[w] = e
          /\ \A v \in Worker \ {w} : found'[v] = found[v] /\ found[v] # e
      BY <1>6, <3>1, <3>2 DEF Unused
    <3>4. /\ entries' \in [Domain -> Entry \cup {NoEntry}] /\ entries'[job[w]] = e
          /\ \A h \in Domain \ {job[w]} : entries'[h] = entries[h]
      BY <1>3, <1>6, <3>1, <3>2
    <3>5. DNSOK'
      BY <1>1, <1>2, <2>1, <3>2, <3>3, <3>4 DEF DNSOK
    <3>6. LookupLocked'
      BY <1>1, <2>1, <2>2, <3>3 DEF LookupLocked
    <3>7. FoundKnown'
      <4> SUFFICES ASSUME NEW v \in Worker, pc'[v] \in {"dnsLock", "resolve"}
                   PROVE  entries'[job[v]] = found'[v] \/ found'[v] \in pruned'
        BY <1>2 DEF FoundKnown
      <4>1. CASE v = w
        BY <3>3, <3>4, <4>1
      <4>2. CASE v # w
        <5>1. /\ pc[v] \in {"dnsLock", "resolve"} /\ found[v] # NoEntry /\ found'[v] = found[v]
              /\ found[v] # e /\ job[v] \in Domain
          BY <1>1, <1>7, <2>2, <3>3, <4>2 DEF HasJob
        <5>2. entries[job[v]] = found[v] \/ found[v] \in pruned
          BY <1>1, <5>1 DEF FoundKnown
        <5> QED BY <2>4, <3>2, <3>4, <5>1, <5>2
      <4> QED BY <4>1, <4>2
    <3>8. found'[w] # NoEntry
      BY <3>1, <3>3, DNSAssumption
    <3> QED BY <1>5, <2>1, <3>3, <3>5, <3>6, <3>7, <3>8
  <2> QED BY <2>3, <2>4
<1>10. CASE LookupLock(w)
  <2>1. /\ pc[w] = "dnsLock" /\ lookupMu[found[w]] = NoWorker /\ found[w] \in Entry
        /\ UNCHANGED <<entries, valid, pruned>>
    BY <1>6, <1>7, <1>10 DEF LookupLock
  <2>2. CASE found[w] \in valid
    <3>1. Goto(w, "request") /\ found' = [found EXCEPT ![w] = NoEntry] /\ lookupMu' = lookupMu
      BY <1>10, <2>2 DEF LookupLock
    <3>2. pc'[w] = "request" /\ \A v \in Worker \ {w} : pc'[v] = pc[v]
      BY <1>6, <3>1 DEF Goto
    <3>3. /\ found' \in [Worker -> Entry \cup {NoEntry}] /\ found'[w] = NoEntry
          /\ \A v \in Worker \ {w} : found'[v] = found[v]
      BY <1>6, <3>1
    <3>4. DNSOK' /\ LookupLocked' /\ FoundKnown'
      BY <1>1, <1>2, <2>1, <3>1, <3>2, <3>3 DEF DNSOK, LookupLocked, FoundKnown
    <3> QED BY <1>5, <3>1, <3>3, <3>4
  <2>3. CASE found[w] \notin valid
    <3>1. Goto(w, "resolve") /\ found' = found /\ lookupMu' = [lookupMu EXCEPT ![found[w]] = w]
      BY <1>10, <2>3 DEF LookupLock
    <3>2. pc'[w] = "resolve" /\ \A v \in Worker \ {w} : pc'[v] = pc[v]
      BY <1>6, <3>1 DEF Goto
    <3>3. /\ lookupMu' \in [Entry -> Worker \cup {NoWorker}] /\ lookupMu'[found[w]] = w
          /\ \A e \in Entry \ {found[w]} : lookupMu'[e] = lookupMu[e]
      BY <1>6, <2>1, <3>1
    <3>4. DNSOK' /\ FoundKnown'
      BY <1>1, <1>2, <2>1, <3>1, <3>2, <3>3 DEF DNSOK, FoundKnown
    <3>5. LookupLocked'
      <4> SUFFICES ASSUME NEW v \in Worker, pc'[v] = "resolve" PROVE lookupMu'[found[v]] = v
        BY <3>1 DEF LookupLocked
      <4>1. CASE v = w
        BY <3>3, <4>1
      <4>2. CASE v # w
        <5>1. pc[v] = "resolve" /\ lookupMu[found[v]] = v /\ found[v] \in Entry
          BY <1>1, <1>6, <1>7, <3>2, <4>2 DEF LookupLocked
        <5>2. found[v] # found[w]
          BY <2>1, <5>1, WorkersAssumption
        <5> QED BY <3>3, <5>1, <5>2
      <4> QED BY <4>1, <4>2
    <3>6. found'[w] # NoEntry
      BY <2>1, <3>1, DNSAssumption
    <3> QED BY <1>5, <3>1, <3>4, <3>5, <3>6
  <2> QED BY <2>2, <2>3
<1>11. ASSUME NEW ok \in BOOLEAN, Resolved(w, ok)
       PROVE  CachesIInv'
  <2>1. /\ pc[w] = "resolve" /\ Goto(w, "request") /\ found[w] \in Entry
        /\ lookupMu' = [lookupMu EXCEPT ![found[w]] = NoWorker]
        /\ found' = [found EXCEPT ![w] = NoEntry]
        /\ UNCHANGED <<entries, pruned>>
    BY <1>6, <1>7, <1>11 DEF Resolved
  <2>2. pc'[w] = "request" /\ \A v \in Worker \ {w} : pc'[v] = pc[v]
    BY <1>6, <2>1 DEF Goto
  <2>3. /\ found' \in [Worker -> Entry \cup {NoEntry}] /\ found'[w] = NoEntry
        /\ \A v \in Worker \ {w} : found'[v] = found[v]
    BY <1>6, <2>1
  <2>4. /\ lookupMu' \in [Entry -> Worker \cup {NoWorker}]
        /\ \A e \in Entry \ {found[w]} : lookupMu'[e] = lookupMu[e]
    BY <1>6, <2>1
  <2>5. valid' \subseteq Entry
    BY <1>1, <1>11, <2>1 DEF Resolved, DNSOK
  <2>6. DNSOK' /\ FoundKnown'
    BY <1>1, <1>2, <2>1, <2>2, <2>3, <2>4, <2>5 DEF DNSOK, FoundKnown
  <2>7. LookupLocked'
    <3> SUFFICES ASSUME NEW v \in Worker, pc'[v] = "resolve" PROVE lookupMu'[found'[v]] = v
      BY DEF LookupLocked
    <3>1. v # w /\ pc[v] = "resolve" /\ found'[v] = found[v] /\ found[v] \in Entry
      BY <1>6, <1>7, <2>2, <2>3
    <3>2. lookupMu[found[v]] = v /\ lookupMu[found[w]] = w
      BY <1>1, <2>1, <3>1 DEF LookupLocked
    <3> QED BY <2>4, <3>1, <3>2
  <2> QED BY <1>5, <2>1, <2>3, <2>6, <2>7
<1> QED BY <1>8, <1>9, <1>10, <1>11 DEF Dial

-----------------------------------------------------------------------------
(* The other steps.                                                        *)

\* A worker takes a job, ends it or tries its request again.
LEMMA CachesWorkerInv ==
  ASSUME CachesIInv, NEW w \in Worker, Fetched(w) \/ \E d \in Domain : CachesJob(w, d)
  PROVE  CachesIInv'
<1>1. CachesOK /\ WorkersOK /\ HasJob /\ FetchLocked /\ LookupLocked /\ FoundKnown
  BY DEF CachesIInv, CachesOK, EngineOK
<1>2. UNCHANGED <<cache, fetchLock, entries, valid, lookupMu, found, janitor, pruned, engine, starts>>
  BY DEF Fetched, CachesJob, ProcessJob, robotsVars, dnsVars, lifeVars
<1>3. {"idle", "lookup", "robots"} \subseteq Place
  BY DEF Place, RobotsPlace, DialPlace
<1>4. /\ WorkersOK' /\ pc[w] \in {"idle", "request"} /\ pc'[w] \in {"idle", "lookup", "robots"}
      /\ pc'[w] # "idle" => job'[w] \in Domain
      /\ \A v \in Worker \ {w} : pc'[v] = pc[v] /\ job'[v] = job[v]
  <2>1. CASE Fetched(w) /\ Done(w)
    BY <1>1, <1>3, <2>1, GotoMoves DEF Fetched, Done, WorkersOK
  <2>2. CASE Fetched(w) /\ Goto(w, "lookup") /\ job' = job
    BY <1>1, <1>3, <2>2, GotoMoves DEF Fetched, WorkersOK, HasJob
  <2>3. ASSUME NEW d \in Domain, CachesJob(w, d) PROVE <1>4
    BY <1>1, <1>3, <2>3, GotoMoves DEF CachesJob, ProcessJob, WorkersOK
  <2> QED BY <2>1, <2>2, <2>3 DEF Fetched
<1>5. CachesOK'
  <2>1. RobotsOK' /\ DNSOK' /\ engine' \in {"running", "stopping", "idle"} /\ starts' \in 0..MaxStarts
    BY <1>1, <1>2 DEF CachesOK, EngineOK, RobotsOK, DNSOK
  <2>2. \A v \in Worker : (pc'[v] \in {"dnsLock", "resolve"}) = (found'[v] # NoEntry)
    BY <1>1, <1>2, <1>4 DEF CachesOK, EngineOK
  <2> QED BY <1>4, <2>1, <2>2 DEF CachesOK, EngineOK
<1>6. HasJob'
  BY <1>1, <1>4 DEF HasJob
<1>7. FetchLocked'
  BY <1>1, <1>2, <1>4 DEF FetchLocked, Fresh
<1>8. LookupLocked' /\ FoundKnown'
  BY <1>1, <1>2, <1>4 DEF LookupLocked, FoundKnown
<1> QED BY <1>5, <1>6, <1>7, <1>8 DEF CachesIInv

\* Entries age, the janitor prunes, the engine starts and stops: no worker and
\* no mutex is touched.
LEMMA CachesOtherInv ==
  ASSUME CachesIInv, (\E d \in Domain : RobotsAge(d)) \/ DNSAge \/ CachesStart \/ CachesStop \/ CachesClose
  PROVE  CachesIInv'
<1>1. CachesOK /\ WorkersOK /\ RobotsOK /\ DNSOK /\ HasJob /\ FetchLocked /\ LookupLocked /\ FoundKnown
  BY DEF CachesIInv, CachesOK, EngineOK
<1>2. UNCHANGED <<pc, job, fetchLock, lookupMu, found>>
  BY DEF RobotsAge, RobotsExpire, DNSAge, Expire, Prune, CachesStart, Start, CachesStop, Stop, CachesClose, Stopped, CloseDNS,
         robotsVars, dnsVars, lifeVars
<1>3. RobotsOK' /\ \A d \in Domain : ~Fresh(d) => ~Fresh(d)'
  <2>1. ASSUME NEW d \in Domain, RobotsAge(d) PROVE <1>3
    BY <1>1, <2>1 DEF RobotsAge, RobotsExpire, RobotsOK, Fresh
  <2>2. CASE cache' = cache
    BY <1>1, <1>2, <2>2 DEF RobotsOK, Fresh
  <2> QED BY <2>1, <2>2 DEF DNSAge, CachesStart, Start, CachesStop, Stop, CachesClose, Stopped, robotsVars
<1>4. /\ DNSOK'
      /\ \A h \in Domain, e \in Entry :
           entries[h] = e \/ e \in pruned => entries'[h] = e \/ e \in pruned'
  <2>1. CASE Prune
    <3> DEFINE dead == {h \in Domain : entries[h] # NoEntry /\ entries[h] \notin valid}
    <3>1. /\ entries' = [h \in Domain |-> IF h \in dead THEN NoEntry ELSE entries[h]]
          /\ pruned' = pruned \cup {entries[h] : h \in dead}
          /\ UNCHANGED <<valid, janitor>>
      BY <2>1 DEF Prune
    <3>2. {entries[h] : h \in dead} \subseteq Entry
      BY <1>1 DEF DNSOK
    <3>3. DNSOK'
      BY <1>1, <1>2, <3>1, <3>2 DEF DNSOK
    <3> QED BY <3>1, <3>3
  <2>2. CASE UNCHANGED <<entries, pruned>>
    <3>1. valid' \subseteq Entry /\ janitor' \in BOOLEAN
      BY <1>1, <2>2 DEF RobotsAge, DNSAge, Expire, Prune, CachesStart, Start, CachesStop, Stop, CachesClose, Stopped, CloseDNS, dnsVars, DNSOK
    <3> QED BY <1>1, <1>2, <2>2, <3>1 DEF DNSOK
  <2> QED BY <2>1, <2>2
       DEF RobotsAge, DNSAge, Expire, CachesStart, Start, CachesStop, Stop, CachesClose, Stopped, CloseDNS, dnsVars
<1>5. CachesOK'
  <2>1. engine' \in {"running", "stopping", "idle"} /\ starts' \in 0..MaxStarts
    BY <1>1, WorkersAssumption DEF CachesOK, EngineOK, RobotsAge, DNSAge, CachesStart, Start, CachesStop, Stop, CachesClose, Stopped, lifeVars
  <2> QED BY <1>1, <1>2, <1>3, <1>4, <2>1 DEF CachesOK, EngineOK, WorkersOK
<1>6. HasJob' /\ LookupLocked'
  BY <1>1, <1>2 DEF HasJob, LookupLocked
<1>7. FetchLocked'
  <2> SUFFICES ASSUME NEW v \in Worker, pc[v] = "robotsFetch"
               PROVE  fetchLock[job[v]] = v /\ cache'[job[v]] = "none"
    BY <1>2 DEF FetchLocked, Fresh
  <2>1. job[v] \in Domain /\ fetchLock[job[v]] = v /\ ~Fresh(job[v])
    BY <1>1 DEF HasJob, FetchLocked
  <2> QED BY <1>3, <2>1 DEF Fresh
<1>8. FoundKnown'
  <2> SUFFICES ASSUME NEW v \in Worker, pc[v] \in {"dnsLock", "resolve"}
               PROVE  entries'[job[v]] = found[v] \/ found[v] \in pruned'
    BY <1>2 DEF FoundKnown
  <2>1. job[v] \in Domain /\ found[v] \in Entry
    BY <1>1 DEF HasJob, CachesOK, EngineOK, DNSOK
  <2>2. entries[job[v]] = found[v] \/ found[v] \in pruned
    BY <1>1 DEF FoundKnown
  <2> QED BY <1>4, <2>1, <2>2
<1> QED BY <1>5, <1>6, <1>7, <1>8 DEF CachesIInv

-----------------------------------------------------------------------------
(* The theorems.                                                           *)

\* Every step keeps the invariant.
LEMMA CachesNextInv == CachesIInv /\ [CachesNext]_cachesVars => CachesIInv'
<1> SUFFICES ASSUME CachesIInv, [CachesNext]_cachesVars PROVE CachesIInv'
  OBVIOUS
<1>1. ASSUME NEW w \in Worker, CachesStep(w) PROVE CachesIInv'
  BY <1>1, RobotsInv, DialInv, CachesWorkerInv DEF CachesStep
<1>2. ASSUME NEW w \in Worker, NEW d \in Domain, CachesJob(w, d) PROVE CachesIInv'
  BY <1>2, CachesWorkerInv
<1>3. CASE (\E d \in Domain : RobotsAge(d)) \/ DNSAge \/ CachesStart \/ CachesStop \/ CachesClose
  BY <1>3, CachesOtherInv
<1>4. CASE UNCHANGED cachesVars
  <2>1. UNCHANGED <<pc, job, cache, fetchLock, entries, valid, lookupMu, found, janitor, pruned,
                    engine, starts>>
    BY <1>4 DEF cachesVars, robotsVars, dnsVars, lifeVars
  <2> QED BY <2>1 DEF CachesIInv, CachesOK, EngineOK, WorkersOK, RobotsOK, DNSOK, HasJob, FetchLocked, LookupLocked,
                      FoundKnown, Fresh
<1> QED BY <1>1, <1>2, <1>3, <1>4 DEF CachesNext

\* The invariant holds in every reachable state.
LEMMA CachesInvariant == CachesSpec => []CachesIInv
<1>1. CachesInit => CachesIInv
  BY CachesInitInv
<1>2. CachesIInv /\ [CachesNext]_cachesVars => CachesIInv'
  BY CachesNextInv
<1> QED BY <1>1, <1>2, PTL DEF CachesSpec

\* The state of both caches keeps its type; a worker refers to an object of the
\* DNS cache exactly while it waits for it or holds it.
THEOREM CachesTypeCorrect == CachesSpec => []CachesOK
<1>1. CachesIInv => CachesOK
  BY DEF CachesIInv
<1> QED BY <1>1, CachesInvariant, PTL

\* A robots.txt is fetched by one worker at a time and never while a fresh entry
\* is there; two lookups of a host run together only after a prune (getOrFetch,
\* Lookup).
THEOREM OneFetchOneLookup == CachesSpec => []SingleFlight
<1>1. CachesIInv => SingleFlight
  BY CachesSingle
<1> QED BY <1>1, CachesInvariant, PTL

-----------------------------------------------------------------------------
(* Fetcher: the inductive invariant.                                       *)

\* What a worker owes is covered by the entry of its host and its pause until it
\* has read the entry, then by its own sleep; everywhere else it owes nothing.
OwedCovered ==
  \A w \in Worker :
    /\ pc[w] \notin {"backoff", "sleep"} => owed[w] = 0
    /\ pc[w] = "backoff" => owed[w] <= nextAllowed[job[w]] + attempt[w]
    /\ pc[w] = "sleep" => owed[w] <= timer[w]

FetcherIInv == FetcherOK /\ OwedCovered /\ HasJob

\* BackoffHonoured is a part of it.
LEMMA FetcherHonours == FetcherIInv => BackoffHonoured
BY DEF FetcherIInv, OwedCovered, BackoffHonoured

\* The initial states satisfy the invariant.
LEMMA FetcherInitInv == FetcherInit => FetcherIInv
<1> SUFFICES ASSUME FetcherInit PROVE FetcherIInv
  OBVIOUS
<1>1. 1 \in Proxy /\ 1..Len(Proxies) = Proxy
  BY ProxyAssumption DEF Proxy
<1>2. WorkersOK
  BY DEF FetcherInit, WorkersInit, WorkersOK, Place
<1>7. ProxyOK
  <2>1. 0 \in 0..ProxyFailThreshold
    BY ProxyAssumption
  <2> QED BY <1>1, <2>1 DEF FetcherInit, WorkersInit, ProxyInit, ProxyOK, Check
<1>3. 0 \in 0..MaxStarts /\ 0 \in 0..MaxRetries /\ 0 \in 0..MaxShift /\ 0 \in 0..BackoffMax
  BY WorkersAssumption, FetcherAssumption DEF MaxShift
<1>4. FetcherOK
  BY <1>2, <1>3, <1>7 DEF FetcherInit, WorkersInit, FetcherOK, EngineOK
<1>5. OwedCovered
  BY DEF FetcherInit, WorkersInit, OwedCovered
<1>6. HasJob
  BY DEF FetcherInit, WorkersInit, HasJob
<1> QED BY <1>4, <1>5, <1>6 DEF FetcherIInv

-----------------------------------------------------------------------------
(* What the helpers do.                                                    *)

\* Return leaves the worker idle.
LEMMA ReturnMoves ==
  ASSUME FetcherOK, NEW w \in Worker, Return(w)
  PROVE  /\ pc' \in [Worker -> Place] /\ job' \in [Worker -> Domain \cup {NoDomain}]
         /\ attempt' \in [Worker -> 0..MaxRetries] /\ client' \in [Worker -> Proxy]
         /\ pc'[w] = "idle"
         /\ \A v \in Worker \ {w} :
              pc'[v] = pc[v] /\ job'[v] = job[v] /\ attempt'[v] = attempt[v]
<1>1. WorkersOK /\ ProxyOK /\ attempt \in [Worker -> 0..MaxRetries]
  BY DEF FetcherOK, EngineOK
<1>2. Goto(w, "idle") /\ job' = [job EXCEPT ![w] = NoDomain]
  BY DEF Return, Done
<1>3. "idle" \in Place
  BY DEF Place
<1>4. /\ pc' \in [Worker -> Place] /\ pc'[w] = "idle" /\ \A v \in Worker \ {w} : pc'[v] = pc[v]
  BY <1>1, <1>2, <1>3, GotoMoves
<1>5. job' \in [Worker -> Domain \cup {NoDomain}] /\ \A v \in Worker \ {w} : job'[v] = job[v]
  BY <1>1, <1>2 DEF WorkersOK
<1>6. attempt' \in [Worker -> 0..MaxRetries] /\ \A v \in Worker \ {w} : attempt'[v] = attempt[v]
  BY <1>1, FetcherAssumption DEF Return
<1>7. client' \in [Worker -> Proxy]
  BY <1>1, ProxyAssumption DEF Return, ProxyOK, Proxy
<1> QED BY <1>4, <1>5, <1>6, <1>7

\* NextAttempt ends the fetch or begins the wait for the next attempt.
LEMMA NextAttemptMoves ==
  ASSUME FetcherOK, NEW w \in Worker, NextAttempt(w)
  PROVE  /\ pc' \in [Worker -> Place] /\ job' \in [Worker -> Domain \cup {NoDomain}]
         /\ attempt' \in [Worker -> 0..MaxRetries] /\ client' \in [Worker -> Proxy]
         /\ \/ pc'[w] = "idle" /\ attempt[w] = MaxRetries
            \/ /\ pc'[w] = "backoff" /\ attempt[w] # MaxRetries /\ job' = job
               /\ attempt'[w] = attempt[w] + 1
         /\ \A v \in Worker \ {w} :
              pc'[v] = pc[v] /\ job'[v] = job[v] /\ attempt'[v] = attempt[v]
<1>1. CASE attempt[w] = MaxRetries
  <2>1. Return(w) /\ attempt' = [attempt EXCEPT ![w] = 0] /\ attempt \in [Worker -> 0..MaxRetries]
    BY <1>1 DEF NextAttempt, Return, FetcherOK, EngineOK
  <2>2. \A v \in Worker \ {w} : attempt'[v] = attempt[v]
    BY <2>1
  <2> QED BY <1>1, <2>1, <2>2, ReturnMoves
<1>2. CASE attempt[w] # MaxRetries
  <2>1. WorkersOK /\ ProxyOK /\ attempt \in [Worker -> 0..MaxRetries]
    BY DEF FetcherOK, EngineOK
  <2>2. Goto(w, "backoff") /\ job' = job
    BY <1>2 DEF NextAttempt
  <2>3. "backoff" \in Place
    BY DEF Place, RetryPlace
  <2>4. pc' \in [Worker -> Place] /\ pc'[w] = "backoff" /\ \A v \in Worker \ {w} : pc'[v] = pc[v]
    BY <2>1, <2>2, <2>3, GotoMoves
  <2>5. /\ attempt' \in [Worker -> 0..MaxRetries] /\ attempt'[w] = attempt[w] + 1
        /\ \A v \in Worker \ {w} : attempt'[v] = attempt[v]
    BY <1>2, <2>1, FetcherAssumption DEF NextAttempt
  <2>6. client' \in [Worker -> Proxy]
    BY <1>2, <2>1, ProxyAssumption DEF NextAttempt, ProxyOK, Proxy
  <2> QED BY <1>2, <2>1, <2>2, <2>4, <2>5, <2>6 DEF WorkersOK
<1> QED BY <1>1, <1>2

\* A throttle keeps types and changes the entry of one host.
LEMMA ThrottleMoves ==
  ASSUME FetcherOK, NEW d \in Domain, RecordThrottle(d)
  PROVE  /\ consecutive4xx' \in [Domain -> 0..MaxShift]
         /\ nextAllowed' \in [Domain -> 0..BackoffMax]
         /\ \A e \in Domain \ {d} : nextAllowed'[e] = nextAllowed[e]
<1> DEFINE n == IF consecutive4xx[d] < MaxShift THEN consecutive4xx[d] + 1 ELSE MaxShift
<1>1. MaxShift \in Nat /\ MaxShift > 0
  BY FetcherAssumption DEF MaxShift
<1>2. /\ consecutive4xx \in [Domain -> 0..MaxShift]
      /\ nextAllowed \in [Domain -> 0..BackoffMax]
  BY DEF FetcherOK, EngineOK
<1>3. n \in 1..MaxShift
  BY <1>1, <1>2
<1>4. PICK jitter \in (-BackoffJitter)..BackoffJitter :
        nextAllowed' = [nextAllowed EXCEPT ![d] =
                          IF BackoffDelay[n] + jitter > BackoffMax THEN BackoffMax
                          ELSE BackoffDelay[n] + jitter]
  BY DEF RecordThrottle
<1>5. consecutive4xx' = [consecutive4xx EXCEPT ![d] = n]
  BY DEF RecordThrottle
<1> HIDE DEF n
<1>6. /\ BackoffDelay[n] \in Nat /\ BackoffJitter \in Nat /\ BackoffMax \in Nat
      /\ BackoffJitter < BackoffDelay[n]
  BY <1>1, <1>3, FetcherAssumption DEF MaxShift
<1>7. nextAllowed' \in [Domain -> 0..BackoffMax]
  <2> DEFINE x == IF BackoffDelay[n] + jitter > BackoffMax THEN BackoffMax
                  ELSE BackoffDelay[n] + jitter
  <2>1. x \in 0..BackoffMax
    BY <1>6
  <2>2. nextAllowed' = [nextAllowed EXCEPT ![d] = x]
    BY <1>4
  <2> HIDE DEF x
  <2> QED BY <1>2, <2>1, <2>2
<1>8. consecutive4xx' \in [Domain -> 0..MaxShift]
  BY <1>1, <1>2, <1>3, <1>5
<1> QED BY <1>2, <1>4, <1>7, <1>8

\* What a failed attempt of w makes everybody owe.
LEMMA OwesCovers ==
  ASSUME FetcherIInv, NEW w \in Worker, job[w] \in Domain,
         nextAllowed' \in [Domain -> 0..BackoffMax],
         NEW S, \A v \in Worker : v \in S => pc[v] = "backoff",
         Owes(w, S)
  PROVE  /\ owed' \in [Worker -> Nat]
         /\ attempt[w] = MaxRetries => owed'[w] = 0
         /\ attempt[w] # MaxRetries => owed'[w] = nextAllowed'[job[w]] + (attempt[w] + 1)
         /\ \A v \in Worker \ {w} :
              /\ owed'[v] <= owed[v]
              /\ v \in S => owed'[v] <= nextAllowed'[job[v]] + attempt[v]
<1>1. /\ attempt \in [Worker -> Nat] /\ owed \in [Worker -> Nat] /\ HasJob
      /\ BackoffMax \in Nat
  BY FetcherAssumption DEF FetcherIInv, FetcherOK, EngineOK
<1>2. \A v \in Worker : v \in S => job[v] \in Domain
  BY <1>1 DEF HasJob
<1>3. \A d \in Domain : nextAllowed'[d] \in Nat
  BY <1>1
<1>4. \A v \in Worker :
        owed'[v] =
          IF v = w THEN IF attempt[w] = MaxRetries THEN 0 ELSE nextAllowed'[job[w]] + (attempt[w] + 1)
          ELSE IF v \in S /\ nextAllowed'[job[v]] + attempt[v] < owed[v]
               THEN nextAllowed'[job[v]] + attempt[v] ELSE owed[v]
  BY DEF Owes
<1>5. owed' = [v \in Worker |-> owed'[v]]
  BY DEF Owes
<1>6. owed'[w] \in Nat
  BY <1>1, <1>3, <1>4
<1>7. ASSUME NEW v \in Worker \ {w}
      PROVE  /\ owed'[v] \in Nat /\ owed'[v] <= owed[v]
             /\ v \in S => owed'[v] <= nextAllowed'[job[v]] + attempt[v]
  <2>1. owed[v] \in Nat /\ attempt[v] \in Nat
    BY <1>1
  <2>2. v \in S => nextAllowed'[job[v]] \in Nat
    BY <1>2, <1>3
  <2>3. owed'[v] = IF v \in S /\ nextAllowed'[job[v]] + attempt[v] < owed[v]
                   THEN nextAllowed'[job[v]] + attempt[v] ELSE owed[v]
    BY <1>4
  <2> QED BY <2>1, <2>2, <2>3
<1>8. \A v \in Worker : owed'[v] \in Nat
  BY <1>6, <1>7
<1>9. owed' \in [Worker -> Nat]
  BY <1>5, <1>8
<1> QED BY <1>4, <1>7, <1>9

-----------------------------------------------------------------------------
(* Steps of the workers.                                                   *)

\* A step of one worker that ends or fails its attempt keeps everybody covered
\* if what the others owe is still covered where they have not read it.
LEMMA WorkerCovers ==
  ASSUME FetcherIInv, NEW w \in Worker, pc[w] \in {"request", "markSet"}, timer' = timer,
         owed' \in [Worker -> Nat],
         pc'[w] # "sleep", pc'[w] # "idle" => job'[w] = job[w],
         \/ owed'[w] = 0
         \/ /\ pc'[w] = "backoff" /\ job'[w] = job[w]
            /\ owed'[w] = nextAllowed'[job[w]] + attempt'[w],
         pc'[w] = "backoff" /\ owed'[w] = 0 => 0 <= nextAllowed'[job[w]] + attempt'[w],
         \A v \in Worker \ {w} :
           /\ pc'[v] = pc[v] /\ job'[v] = job[v] /\ attempt'[v] = attempt[v]
           /\ owed'[v] <= owed[v]
           /\ pc[v] = "backoff" => owed'[v] <= nextAllowed'[job[v]] + attempt[v],
         nextAllowed' \in [Domain -> 0..BackoffMax], attempt' \in [Worker -> 0..MaxRetries]
  PROVE  OwedCovered' /\ HasJob'
<1>1. /\ owed \in [Worker -> Nat] /\ timer \in [Worker -> Nat]
      /\ BackoffMax \in Nat /\ MaxRetries \in Nat
  BY FetcherAssumption DEF FetcherIInv, FetcherOK, EngineOK
<1>2. HasJob'
  BY DEF FetcherIInv, HasJob
<1>3. ASSUME NEW v \in Worker \ {w}
      PROVE  /\ pc'[v] \notin {"backoff", "sleep"} => owed'[v] = 0
             /\ pc'[v] = "backoff" => owed'[v] <= nextAllowed'[job'[v]] + attempt'[v]
             /\ pc'[v] = "sleep" => owed'[v] <= timer'[v]
  <2>1. /\ pc[v] \notin {"backoff", "sleep"} => owed[v] = 0
        /\ pc[v] = "sleep" => owed[v] <= timer[v]
        /\ owed[v] \in Nat /\ owed'[v] \in Nat /\ timer[v] \in Nat
    BY <1>1 DEF FetcherIInv, OwedCovered
  <2>2. /\ pc'[v] = pc[v] /\ job'[v] = job[v] /\ attempt'[v] = attempt[v]
        /\ owed'[v] <= owed[v]
        /\ pc[v] = "backoff" => owed'[v] <= nextAllowed'[job[v]] + attempt[v]
    OBVIOUS
  <2> QED BY <2>1, <2>2
<1>4. /\ pc'[w] \notin {"backoff", "sleep"} => owed'[w] = 0
      /\ pc'[w] = "backoff" => owed'[w] <= nextAllowed'[job'[w]] + attempt'[w]
      /\ pc'[w] = "sleep" => owed'[w] <= timer'[w]
  <2>1. job[w] \in Domain
    BY DEF FetcherIInv, HasJob
  <2>2. nextAllowed'[job[w]] \in Nat /\ attempt'[w] \in Nat
    BY <1>1, <2>1
  <2> QED BY <2>2
<1>5. OwedCovered'
  BY <1>3, <1>4 DEF OwedCovered
<1> QED BY <1>2, <1>5

\* The next attempt after a failure that leaves the entries of the hosts alone.
LEMMA FailureCovers ==
  ASSUME FetcherIInv, NEW w \in Worker, pc[w] \in {"request", "markSet"}, NextAttempt(w),
         Owes(w, {}), UNCHANGED <<timer, nextAllowed>>
  PROVE  owed' \in [Worker -> Nat] /\ OwedCovered' /\ HasJob'
<1>1. /\ FetcherOK /\ OwedCovered /\ job[w] \in Domain
      /\ nextAllowed \in [Domain -> 0..BackoffMax]
      /\ owed \in [Worker -> Nat] /\ attempt \in [Worker -> Nat] /\ BackoffMax \in Nat
  BY FetcherAssumption DEF FetcherIInv, FetcherOK, EngineOK, HasJob
<1>2. /\ attempt' \in [Worker -> 0..MaxRetries]
      /\ \/ pc'[w] = "idle" /\ attempt[w] = MaxRetries
         \/ /\ pc'[w] = "backoff" /\ attempt[w] # MaxRetries /\ job' = job
            /\ attempt'[w] = attempt[w] + 1
      /\ \A v \in Worker \ {w} :
           pc'[v] = pc[v] /\ job'[v] = job[v] /\ attempt'[v] = attempt[v]
  BY <1>1, NextAttemptMoves
<1>3. /\ owed' \in [Worker -> Nat]
      /\ attempt[w] = MaxRetries => owed'[w] = 0
      /\ attempt[w] # MaxRetries => owed'[w] = nextAllowed'[job[w]] + (attempt[w] + 1)
      /\ \A v \in Worker \ {w} : owed'[v] <= owed[v]
  <2>1. nextAllowed' \in [Domain -> 0..BackoffMax]
    BY <1>1
  <2>2. \A v \in Worker : v \in {} => pc[v] = "backoff"
    OBVIOUS
  <2> QED BY <1>1, <2>1, <2>2, OwesCovers
<1>4. ASSUME NEW v \in Worker \ {w}, pc[v] = "backoff"
      PROVE  owed'[v] <= nextAllowed'[job[v]] + attempt[v]
  <2>1. owed[v] <= nextAllowed[job[v]] + attempt[v] /\ job[v] \in Domain
    BY <1>1, <1>4 DEF OwedCovered, FetcherIInv, HasJob
  <2>2. owed'[v] <= owed[v] /\ nextAllowed'[job[v]] = nextAllowed[job[v]]
    BY <1>3
  <2>3. owed[v] \in Nat /\ owed'[v] \in Nat /\ nextAllowed[job[v]] \in Nat /\ attempt[v] \in Nat
    BY <1>1, <1>3, <2>1
  <2> QED BY <2>1, <2>2, <2>3
<1>5. /\ pc'[w] # "sleep" /\ (pc'[w] # "idle" => job'[w] = job[w])
      /\ \/ owed'[w] = 0
         \/ /\ pc'[w] = "backoff" /\ job'[w] = job[w]
            /\ owed'[w] = nextAllowed'[job[w]] + attempt'[w]
      /\ pc'[w] = "backoff" /\ owed'[w] = 0 => 0 <= nextAllowed'[job[w]] + attempt'[w]
  <2>1. CASE attempt[w] = MaxRetries
    BY <1>2, <1>3, <2>1
  <2>2. CASE attempt[w] # MaxRetries
    <3>1. nextAllowed'[job[w]] \in Nat /\ attempt[w] \in Nat
      BY <1>1
    <3> QED BY <1>2, <1>3, <2>2, <3>1
  <2> QED BY <2>1, <2>2
<1>6. nextAllowed' \in [Domain -> 0..BackoffMax]
  BY <1>1
<1> QED BY <1>2, <1>3, <1>4, <1>5, <1>6, WorkerCovers

\* An answer, a throttle, an error or a lost connection.
LEMMA RequestInv ==
  ASSUME FetcherIInv, NEW w \in Worker, Request(w) \/ MarkDown(w)
  PROVE  FetcherIInv'
<1>1. FetcherOK /\ WorkersOK /\ ProxyOK /\ OwedCovered /\ HasJob
  BY DEF FetcherIInv, FetcherOK, EngineOK
<1>2. pc[w] \in {"request", "markSet"} /\ owed[w] = 0 /\ job[w] \in Domain
  BY <1>1 DEF Request, Answered, Throttled, Refused, Dropped, MarkDown, OwedCovered, HasJob
<1>3. /\ client[w] \in Proxy /\ failures \in [Proxy -> 0..ProxyFailThreshold]
      /\ status \in [Proxy -> {"healthy", "down"}] /\ ProxyFailThreshold \in Nat
  BY <1>1, ProxyAssumption DEF ProxyOK
<1>4. /\ consecutive4xx \in [Domain -> 0..MaxShift] /\ nextAllowed \in [Domain -> 0..BackoffMax]
      /\ owed \in [Worker -> Nat] /\ MaxShift \in Nat /\ BackoffMax \in Nat
  BY <1>1, FetcherAssumption DEF FetcherOK, EngineOK, MaxShift
<1>5. ASSUME ResetFailures(client[w]) PROVE failures' \in [Proxy -> 0..ProxyFailThreshold]
  <2>1. 0 \in 0..ProxyFailThreshold
    BY <1>3
  <2> QED BY <1>3, <1>5, <2>1 DEF ResetFailures
<1>6. CASE Answered(w)
  <2>1. Return(w) /\ failures' \in [Proxy -> 0..ProxyFailThreshold]
    BY <1>5, <1>6 DEF Answered
  <2>2. consecutive4xx' \in [Domain -> 0..MaxShift] /\ nextAllowed' = nextAllowed
    <3>1. 0 \in 0..MaxShift
      BY <1>4
    <3> QED BY <1>4, <1>6, <3>1 DEF Answered, RecordSuccess
  <2>3. UNCHANGED <<status, monitor, check, engine, starts, timer, owed>>
    BY <1>6 DEF Answered, lifeVars
  <2>4. FetcherOK'
    BY <1>1, <2>1, <2>2, <2>3, ReturnMoves DEF FetcherOK, EngineOK, WorkersOK, ProxyOK
  <2>5. /\ pc'[w] = "idle" /\ attempt' \in [Worker -> 0..MaxRetries]
        /\ \A v \in Worker \ {w} :
             pc'[v] = pc[v] /\ job'[v] = job[v] /\ attempt'[v] = attempt[v]
    BY <1>1, <2>1, ReturnMoves
  <2>6. \A v \in Worker \ {w} :
          /\ owed'[v] <= owed[v]
          /\ pc[v] = "backoff" => owed'[v] <= nextAllowed'[job[v]] + attempt[v]
    BY <1>1, <1>4, <2>2, <2>3 DEF OwedCovered
  <2>7. nextAllowed' \in [Domain -> 0..BackoffMax] /\ owed' \in [Worker -> Nat] /\ owed'[w] = 0
        /\ timer' = timer
    BY <1>2, <1>4, <2>2, <2>3
  <2>8. OwedCovered' /\ HasJob'
    BY <1>2, <2>5, <2>6, <2>7, WorkerCovers
  <2> QED BY <2>4, <2>8 DEF FetcherIInv
<1>7. CASE Throttled(w)
  <2> DEFINE S == {v \in Worker : pc[v] = "backoff" /\ job[v] = job[w]}
  <2>1. /\ NextAttempt(w) /\ Owes(w, S)
        /\ UNCHANGED <<status, monitor, check, engine, starts, timer>>
    BY <1>7 DEF Throttled, lifeVars
  <2>2. /\ consecutive4xx' \in [Domain -> 0..MaxShift]
        /\ nextAllowed' \in [Domain -> 0..BackoffMax]
        /\ failures' \in [Proxy -> 0..ProxyFailThreshold]
        /\ \A e \in Domain \ {job[w]} : nextAllowed'[e] = nextAllowed[e]
    <3>1. CASE attempt[w] = MaxRetries
      BY <1>4, <1>5, <1>7, <3>1 DEF Throttled, hostVars
    <3>2. CASE attempt[w] # MaxRetries
      <4>1. RecordThrottle(job[w]) /\ failures' = failures
        BY <1>7, <3>2 DEF Throttled
      <4> QED BY <1>1, <1>2, <1>3, <4>1, ThrottleMoves
    <3> QED BY <3>1, <3>2
  <2>3. \A v \in Worker : v \in S => pc[v] = "backoff"
    OBVIOUS
  <2>4. \A v \in Worker : pc[v] = "backoff" /\ v \notin S => job[v] \in Domain \ {job[w]}
    BY <1>1 DEF HasJob
  <2> HIDE DEF S
  <2>5. /\ owed' \in [Worker -> Nat]
        /\ attempt[w] = MaxRetries => owed'[w] = 0
        /\ attempt[w] # MaxRetries => owed'[w] = nextAllowed'[job[w]] + (attempt[w] + 1)
        /\ \A v \in Worker \ {w} :
             /\ owed'[v] <= owed[v]
             /\ v \in S => owed'[v] <= nextAllowed'[job[v]] + attempt[v]
    BY <1>2, <2>1, <2>2, <2>3, OwesCovers
  <2>6. FetcherOK'
    BY <1>1, <2>1, <2>2, <2>5, NextAttemptMoves DEF FetcherOK, EngineOK, WorkersOK, ProxyOK
  <2>7. /\ attempt' \in [Worker -> 0..MaxRetries]
        /\ \/ pc'[w] = "idle" /\ attempt[w] = MaxRetries
           \/ /\ pc'[w] = "backoff" /\ attempt[w] # MaxRetries /\ job' = job
              /\ attempt'[w] = attempt[w] + 1
        /\ \A v \in Worker \ {w} :
             pc'[v] = pc[v] /\ job'[v] = job[v] /\ attempt'[v] = attempt[v]
    BY <1>1, <2>1, NextAttemptMoves
  <2>8. ASSUME NEW v \in Worker \ {w}, pc[v] = "backoff"
        PROVE  owed'[v] <= nextAllowed'[job[v]] + attempt[v]
    <3>1. CASE v \in S
      BY <2>5, <3>1
    <3>2. CASE v \notin S
      <4>1. job[v] \in Domain /\ nextAllowed'[job[v]] = nextAllowed[job[v]]
        BY <2>2, <2>4, <2>8, <3>2
      <4>2. owed[v] <= nextAllowed[job[v]] + attempt[v]
        BY <1>1, <2>8 DEF OwedCovered
      <4>3. /\ owed[v] \in Nat /\ owed'[v] \in Nat /\ nextAllowed[job[v]] \in Nat
            /\ owed'[v] <= owed[v]
        BY <1>4, <2>5, <4>1
      <4>4. attempt[v] \in Nat
        BY <1>1, FetcherAssumption DEF FetcherOK, EngineOK
      <4> QED BY <4>1, <4>2, <4>3, <4>4
    <3> QED BY <3>1, <3>2
  <2>9. /\ pc'[w] # "sleep" /\ (pc'[w] # "idle" => job'[w] = job[w])
        /\ \/ owed'[w] = 0
           \/ /\ pc'[w] = "backoff" /\ job'[w] = job[w]
              /\ owed'[w] = nextAllowed'[job[w]] + attempt'[w]
        /\ pc'[w] = "backoff" /\ owed'[w] = 0 => 0 <= nextAllowed'[job[w]] + attempt'[w]
    <3>1. CASE attempt[w] = MaxRetries
      BY <2>5, <2>7, <3>1
    <3>2. CASE attempt[w] # MaxRetries
      <4>1. nextAllowed'[job[w]] \in Nat /\ attempt[w] \in Nat
        BY <1>1, <1>2, <1>4, <2>2, FetcherAssumption DEF FetcherOK, EngineOK
      <4> QED BY <2>5, <2>7, <3>2, <4>1
    <3> QED BY <3>1, <3>2
  <2>10. OwedCovered' /\ HasJob'
    BY <1>2, <2>1, <2>2, <2>5, <2>7, <2>8, <2>9, WorkerCovers
  <2> QED BY <2>6, <2>10 DEF FetcherIInv
<1>8. CASE Refused(w)
  <2>1. Add(client[w]) \in 0..ProxyFailThreshold
    BY <1>3 DEF Add
  <2>2. failures' \in [Proxy -> 0..ProxyFailThreshold]
    BY <1>3, <1>8, <2>1 DEF Refused
  <2>3. UNCHANGED <<status, monitor, check, engine, starts, timer, consecutive4xx, nextAllowed>>
    BY <1>8 DEF Refused, lifeVars, hostVars
  <2>4. CASE NextAttempt(w) /\ Owes(w, {})
    <3>1. owed' \in [Worker -> Nat] /\ OwedCovered' /\ HasJob'
      BY <1>2, <2>3, <2>4, FailureCovers
    <3>2. FetcherOK'
      BY <1>1, <2>2, <2>3, <2>4, <3>1, NextAttemptMoves DEF FetcherOK, EngineOK, WorkersOK, ProxyOK
    <3> QED BY <3>1, <3>2 DEF FetcherIInv
  <2>5. CASE Goto(w, "markSet") /\ UNCHANGED <<job, attempt, client, owed>>
    <3>1. "markSet" \in Place
      BY DEF Place, RetryPlace
    <3>2. /\ pc' \in [Worker -> Place] /\ pc'[w] = "markSet"
          /\ \A v \in Worker \ {w} : pc'[v] = pc[v]
      BY <1>1, <2>5, <3>1, GotoMoves
    <3>3. FetcherOK'
      BY <1>1, <2>2, <2>3, <2>5, <3>2 DEF FetcherOK, EngineOK, WorkersOK, ProxyOK
    <3>4. OwedCovered' /\ HasJob'
      BY <1>1, <1>2, <2>3, <2>5, <3>2 DEF OwedCovered, HasJob
    <3> QED BY <3>3, <3>4 DEF FetcherIInv
  <2> QED BY <1>8, <2>4, <2>5 DEF Refused
<1>9. CASE Dropped(w) \/ MarkDown(w)
  <2>1. /\ NextAttempt(w) /\ Owes(w, {})
        /\ UNCHANGED <<failures, monitor, check, engine, starts, timer, consecutive4xx, nextAllowed>>
    BY <1>9 DEF Dropped, MarkDown, lifeVars, hostVars
  <2>2. status' \in [Proxy -> {"healthy", "down"}]
    BY <1>3, <1>9 DEF Dropped, MarkDown, SetDown
  <2>3. owed' \in [Worker -> Nat] /\ OwedCovered' /\ HasJob'
    BY <1>2, <2>1, FailureCovers
  <2>4. FetcherOK'
    BY <1>1, <2>1, <2>2, <2>3, NextAttemptMoves DEF FetcherOK, EngineOK, WorkersOK, ProxyOK
  <2> QED BY <2>3, <2>4 DEF FetcherIInv
<1> QED BY <1>6, <1>7, <1>8, <1>9 DEF Request

\* The way from one attempt to the next: the entry of the host is slept for.
LEMMA RetryInv ==
  ASSUME FetcherIInv, NEW w \in Worker, ReadBackoff(w) \/ Awake(w) \/ GiveUp(w) \/ Choose(w)
  PROVE  FetcherIInv'
<1>1. FetcherOK /\ WorkersOK /\ ProxyOK /\ OwedCovered /\ HasJob
  BY DEF FetcherIInv, FetcherOK, EngineOK
<1>2. /\ timer \in [Worker -> Nat] /\ nextAllowed \in [Domain -> 0..BackoffMax]
      /\ attempt \in [Worker -> 0..MaxRetries] /\ owed \in [Worker -> Nat]
      /\ BackoffMax \in Nat /\ MaxRetries \in Nat
  BY <1>1, FetcherAssumption DEF FetcherOK, EngineOK
<1>4. {"sleep", "choose", "request"} \subseteq Place
  BY DEF Place, RetryPlace
<1>5. CASE ReadBackoff(w)
  <2>1. /\ pc[w] = "backoff" /\ Goto(w, "sleep")
        /\ UNCHANGED <<job, status, failures, monitor, check, client, engine, starts, attempt,
                       consecutive4xx, nextAllowed, owed>>
    BY <1>5 DEF ReadBackoff, proxyVars, lifeVars, hostVars
  <2>2. job[w] \in Domain /\ owed[w] <= nextAllowed[job[w]] + attempt[w]
    BY <1>1, <2>1 DEF OwedCovered, HasJob
  <2>3. nextAllowed[job[w]] \in Nat /\ attempt[w] \in Nat /\ owed[w] \in Nat
    BY <1>2, <2>2
  <2>4. /\ timer' \in [Worker -> Nat] /\ timer'[w] = nextAllowed[job[w]] + attempt[w]
        /\ \A v \in Worker \ {w} : timer'[v] = timer[v]
    BY <1>2, <1>5, <2>3 DEF ReadBackoff
  <2>5. pc' \in [Worker -> Place] /\ pc'[w] = "sleep" /\ \A v \in Worker \ {w} : pc'[v] = pc[v]
    BY <1>1, <1>4, <2>1, GotoMoves
  <2>6. FetcherOK'
    BY <1>1, <2>1, <2>4, <2>5 DEF FetcherOK, EngineOK, WorkersOK, ProxyOK
  <2>7. owed[w] <= timer'[w]
    BY <2>2, <2>3, <2>4
  <2>8. OwedCovered'
    BY <1>1, <2>1, <2>4, <2>5, <2>7 DEF OwedCovered
  <2>9. HasJob'
    BY <1>1, <2>1, <2>2, <2>5 DEF HasJob
  <2> QED BY <2>6, <2>8, <2>9 DEF FetcherIInv
<1>6. CASE Awake(w)
  <2>1. /\ pc[w] = "sleep" /\ timer[w] = 0 /\ Goto(w, "choose")
        /\ UNCHANGED <<job, status, failures, monitor, check, client, engine, starts, attempt,
                       timer, consecutive4xx, nextAllowed, owed>>
    BY <1>6 DEF Awake, proxyVars, lifeVars, fetchVars
  <2>2. owed[w] = 0 /\ job[w] \in Domain
    BY <1>1, <1>2, <2>1 DEF OwedCovered, HasJob
  <2>3. pc' \in [Worker -> Place] /\ pc'[w] = "choose" /\ \A v \in Worker \ {w} : pc'[v] = pc[v]
    BY <1>1, <1>4, <2>1, GotoMoves
  <2>4. FetcherOK'
    BY <1>1, <2>1, <2>3 DEF FetcherOK, EngineOK, WorkersOK, ProxyOK
  <2>5. OwedCovered'
    BY <1>1, <2>1, <2>2, <2>3 DEF OwedCovered
  <2>6. HasJob'
    BY <1>1, <2>1, <2>2, <2>3 DEF HasJob
  <2> QED BY <2>4, <2>5, <2>6 DEF FetcherIInv
<1>7. CASE GiveUp(w)
  <2>1. /\ Return(w) /\ timer' = [timer EXCEPT ![w] = 0] /\ owed' = [owed EXCEPT ![w] = 0]
        /\ UNCHANGED <<status, failures, monitor, check, engine, starts, consecutive4xx, nextAllowed>>
    BY <1>7 DEF GiveUp, lifeVars, hostVars
  <2>2. /\ timer' \in [Worker -> Nat] /\ owed' \in [Worker -> Nat] /\ owed'[w] = 0
        /\ \A v \in Worker \ {w} : timer'[v] = timer[v] /\ owed'[v] = owed[v]
    BY <1>2, <2>1
  <2>3. /\ pc'[w] = "idle"
        /\ \A v \in Worker \ {w} :
             pc'[v] = pc[v] /\ job'[v] = job[v] /\ attempt'[v] = attempt[v]
    BY <1>1, <2>1, ReturnMoves
  <2>4. FetcherOK'
    BY <1>1, <2>1, <2>2, ReturnMoves DEF FetcherOK, EngineOK, WorkersOK, ProxyOK
  <2>5. OwedCovered'
    BY <1>1, <2>1, <2>2, <2>3 DEF OwedCovered
  <2>6. HasJob'
    BY <1>1, <2>3 DEF HasJob
  <2> QED BY <2>4, <2>5, <2>6 DEF FetcherIInv
<1>8. CASE Choose(w)
  <2>1. /\ pc[w] = "choose"
        /\ UNCHANGED <<job, status, failures, monitor, check, engine, starts, attempt, timer,
                       consecutive4xx, nextAllowed, owed>>
    BY <1>8 DEF Choose, GetClient, lifeVars, fetchVars
  <2>2. owed[w] = 0 /\ job[w] \in Domain
    BY <1>1, <2>1 DEF OwedCovered, HasJob
  <2>3. client \in [Worker -> Proxy] /\ Len(Proxies) \in Nat /\ Len(Proxies) > 0
        /\ Proxy = 1..Len(Proxies)
    BY <1>1, ProxyAssumption DEF ProxyOK, Proxy
  <2>4. client' \in [Worker -> Proxy]
    BY <1>8, <2>3 DEF Choose, GetClient
  <2>5. /\ pc' \in [Worker -> Place] /\ pc'[w] \in {"choose", "request"}
        /\ \A v \in Worker \ {w} : pc'[v] = pc[v]
    <3>1. pc' = pc \/ Goto(w, "request")
      BY <1>8 DEF Choose, GetClient
    <3> QED BY <1>1, <1>4, <2>1, <3>1, GotoMoves DEF WorkersOK
  <2>6. FetcherOK'
    BY <1>1, <2>1, <2>4, <2>5 DEF FetcherOK, EngineOK, WorkersOK, ProxyOK
  <2>7. OwedCovered'
    BY <1>1, <2>1, <2>2, <2>5 DEF OwedCovered
  <2>8. HasJob'
    BY <1>1, <2>1, <2>2, <2>5 DEF HasJob
  <2> QED BY <2>6, <2>7, <2>8 DEF FetcherIInv
<1> QED BY <1>5, <1>6, <1>7, <1>8

\* A worker takes a job.
LEMMA FetcherJobInv ==
  ASSUME FetcherIInv, NEW w \in Worker, NEW d \in Domain, FetcherJob(w, d)
  PROVE  FetcherIInv'
<1>1. FetcherOK /\ WorkersOK /\ ProxyOK /\ OwedCovered /\ HasJob
  BY DEF FetcherIInv, FetcherOK, EngineOK
<1>2. /\ pc[w] = "idle" /\ Goto(w, "choose") /\ job' = [job EXCEPT ![w] = d]
      /\ UNCHANGED <<status, failures, monitor, check, client, engine, starts, attempt, timer,
                     consecutive4xx, nextAllowed, owed>>
  BY DEF FetcherJob, ProcessJob, proxyVars, lifeVars, fetchVars
<1>3. "choose" \in Place
  BY DEF Place
<1>4. pc' \in [Worker -> Place] /\ pc'[w] = "choose" /\ \A v \in Worker \ {w} : pc'[v] = pc[v]
  BY <1>1, <1>2, <1>3, GotoMoves
<1>5. /\ job' \in [Worker -> Domain \cup {NoDomain}] /\ job'[w] = d
      /\ \A v \in Worker \ {w} : job'[v] = job[v]
  BY <1>1, <1>2 DEF WorkersOK
<1>6. FetcherOK'
  BY <1>1, <1>2, <1>4, <1>5 DEF FetcherOK, EngineOK, WorkersOK, ProxyOK
<1>7. OwedCovered'
  BY <1>1, <1>2, <1>4, <1>5 DEF OwedCovered
<1>8. HasJob'
  BY <1>1, <1>4, <1>5 DEF HasJob
<1> QED BY <1>6, <1>7, <1>8 DEF FetcherIInv

-----------------------------------------------------------------------------
(* Time, monitor and engine.                                               *)

\* A tick takes as much from what is owed as from entries and sleeps.
LEMMA TickInv == FetcherIInv /\ Tick => FetcherIInv'
<1> SUFFICES ASSUME FetcherIInv, Tick PROVE FetcherIInv'
  OBVIOUS
<1>1. FetcherOK /\ WorkersOK /\ ProxyOK /\ OwedCovered /\ HasJob
  BY DEF FetcherIInv, FetcherOK, EngineOK
<1>2. /\ timer \in [Worker -> Nat] /\ nextAllowed \in [Domain -> 0..BackoffMax]
      /\ owed \in [Worker -> Nat] /\ BackoffMax \in Nat
  BY <1>1, FetcherAssumption DEF FetcherOK, EngineOK
<1>3. UNCHANGED <<pc, job, status, failures, monitor, check, client, engine, starts, attempt,
                  consecutive4xx>>
  BY DEF Tick, proxyVars, lifeVars
<1>4. /\ timer' \in [Worker -> Nat]
      /\ \A v \in Worker : timer'[v] = IF timer[v] > 0 THEN timer[v] - 1 ELSE 0
  BY <1>2 DEF Tick, Less
<1>5. /\ owed' \in [Worker -> Nat]
      /\ \A v \in Worker : owed'[v] = IF owed[v] > 0 THEN owed[v] - 1 ELSE 0
  BY <1>2 DEF Tick, Less
<1>6. /\ nextAllowed' \in [Domain -> 0..BackoffMax]
      /\ \A d \in Domain : nextAllowed'[d] = IF nextAllowed[d] > 0 THEN nextAllowed[d] - 1 ELSE 0
  BY <1>2 DEF Tick, Less
<1>7. FetcherOK'
  BY <1>1, <1>3, <1>4, <1>5, <1>6 DEF FetcherOK, EngineOK, WorkersOK, ProxyOK
<1>8. OwedCovered'
  <2> SUFFICES ASSUME NEW v \in Worker
               PROVE  /\ pc[v] \notin {"backoff", "sleep"} => owed'[v] = 0
                      /\ pc[v] = "backoff" => owed'[v] <= nextAllowed'[job[v]] + attempt[v]
                      /\ pc[v] = "sleep" => owed'[v] <= timer'[v]
    BY <1>3 DEF OwedCovered
  <2>1. owed[v] \in Nat /\ timer[v] \in Nat
    BY <1>2
  <2>2. pc[v] \notin {"backoff", "sleep"} => owed[v] = 0
    BY <1>1 DEF OwedCovered
  <2>3. pc[v] \notin {"backoff", "sleep"} => owed'[v] = 0
    BY <1>5, <2>1, <2>2
  <2>4. ASSUME pc[v] = "backoff" PROVE owed'[v] <= nextAllowed'[job[v]] + attempt[v]
    <3>1. job[v] \in Domain /\ owed[v] <= nextAllowed[job[v]] + attempt[v]
      BY <1>1, <2>4 DEF OwedCovered, HasJob
    <3>2. nextAllowed[job[v]] \in Nat /\ attempt[v] \in Nat
      BY <1>1, <1>2, <3>1, FetcherAssumption DEF FetcherOK, EngineOK
    <3>3. nextAllowed'[job[v]] = IF nextAllowed[job[v]] > 0 THEN nextAllowed[job[v]] - 1 ELSE 0
      BY <1>6, <3>1
    <3>4. owed'[v] = IF owed[v] > 0 THEN owed[v] - 1 ELSE 0
      BY <1>5
    <3> QED BY <2>1, <3>1, <3>2, <3>3, <3>4
  <2>5. ASSUME pc[v] = "sleep" PROVE owed'[v] <= timer'[v]
    <3>1. owed[v] <= timer[v]
      BY <1>1, <2>5 DEF OwedCovered
    <3> QED BY <1>4, <1>5, <2>1, <3>1
  <2> QED BY <2>3, <2>4, <2>5
<1>9. HasJob'
  BY <1>1, <1>3 DEF HasJob
<1> QED BY <1>7, <1>8, <1>9 DEF FetcherIInv

\* A step that leaves workers and delays alone.
LEMMA FetcherOtherInv ==
  ASSUME FetcherIInv, FetcherOK', UNCHANGED <<pc, job, attempt, timer, nextAllowed, owed>>
  PROVE  FetcherIInv'
BY DEF FetcherIInv, OwedCovered, HasJob

\* The monitor and its checks.
LEMMA MonitorInv ==
  ASSUME FetcherIInv, (\E p \in Proxy : Checks(p)) \/ Ticker \/ EndMonitor
  PROVE  FetcherIInv'
<1>1. FetcherOK /\ ProxyOK
  BY DEF FetcherIInv, FetcherOK, EngineOK
<1>2. /\ status \in [Proxy -> {"healthy", "down"}] /\ check \in [Proxy -> Check]
      /\ failures \in [Proxy -> 0..ProxyFailThreshold] /\ monitor \in BOOLEAN
      /\ 0 \in 0..ProxyFailThreshold
  BY <1>1, ProxyAssumption DEF ProxyOK
<1>3. /\ status' \in [Proxy -> {"healthy", "down"}] /\ check' \in [Proxy -> Check]
      /\ failures' \in [Proxy -> 0..ProxyFailThreshold] /\ monitor' \in BOOLEAN
      /\ UNCHANGED <<pc, job, client, engine, starts, attempt, timer, consecutive4xx, nextAllowed, owed>>
  <2>1. ASSUME NEW p \in Proxy, NEW ok \in BOOLEAN, CheckDone(p, ok), UNCHANGED <<lifeVars, fetchVars>> PROVE <1>3
    BY <1>2, <2>1 DEF CheckDone, lifeVars, fetchVars, Check
  <2>2. ASSUME NEW p \in Proxy, CheckReset(p), UNCHANGED <<lifeVars, fetchVars>> PROVE <1>3
    BY <1>2, <2>2 DEF CheckReset, ResetFailures, lifeVars, fetchVars, Check
  <2>3. ASSUME NEW p \in Proxy, CheckSet(p), UNCHANGED <<lifeVars, fetchVars>> PROVE <1>3
    BY <1>2, <2>3 DEF CheckSet, lifeVars, fetchVars, Check
  <2>4. ASSUME Ticker PROVE <1>3
    BY <1>2, <2>4 DEF Ticker, CheckAll, lifeVars, fetchVars, Check
  <2>5. ASSUME EndMonitor PROVE <1>3
    BY <1>2, <2>5 DEF EndMonitor, MonitorExit, lifeVars, fetchVars
  <2> QED BY <2>1, <2>2, <2>3, <2>4, <2>5 DEF Checks
<1>4. FetcherOK'
  BY <1>1, <1>3 DEF FetcherOK, EngineOK, WorkersOK, ProxyOK
<1> QED BY <1>3, <1>4, FetcherOtherInv

\* Start and Stop.
LEMMA FetcherEngineInv ==
  ASSUME FetcherIInv, FetcherStart \/ FetcherStop \/ FetcherIdle
  PROVE  FetcherIInv'
<1>1. FetcherOK /\ ProxyOK /\ starts \in 0..MaxStarts /\ MaxStarts \in Nat
  BY WorkersAssumption DEF FetcherIInv, FetcherOK, EngineOK
<1>2. /\ engine' \in {"running", "stopping", "idle"} /\ starts' \in 0..MaxStarts
      /\ monitor' \in BOOLEAN
      /\ UNCHANGED <<pc, job, status, failures, check, client, attempt, timer, consecutive4xx,
                     nextAllowed, owed>>
  <2>1. CASE FetcherStart
    BY <1>1, <2>1 DEF FetcherStart, Start, StartMonitor, fetchVars
  <2>2. CASE FetcherStop
    BY <1>1, <2>2 DEF FetcherStop, Stop, proxyVars, fetchVars, ProxyOK
  <2>3. CASE FetcherIdle
    BY <1>1, <2>3 DEF FetcherIdle, Stopped, proxyVars, fetchVars, ProxyOK
  <2> QED BY <2>1, <2>2, <2>3
<1>3. FetcherOK'
  BY <1>1, <1>2 DEF FetcherOK, EngineOK, WorkersOK, ProxyOK
<1> QED BY <1>2, <1>3, FetcherOtherInv

-----------------------------------------------------------------------------
(* The theorems.                                                           *)

\* Every step keeps the invariant.
LEMMA FetcherNextInv == FetcherIInv /\ [FetcherNext]_fetcherVars => FetcherIInv'
<1> SUFFICES ASSUME FetcherIInv, [FetcherNext]_fetcherVars PROVE FetcherIInv'
  OBVIOUS
<1>1. ASSUME NEW w \in Worker, FetcherStep(w) PROVE FetcherIInv'
  BY <1>1, RequestInv, RetryInv DEF FetcherStep, Retry
<1>2. ASSUME NEW w \in Worker, NEW d \in Domain, FetcherJob(w, d) PROVE FetcherIInv'
  BY <1>2, FetcherJobInv
<1>3. CASE (\E p \in Proxy : Checks(p)) \/ Ticker \/ EndMonitor
  BY <1>3, MonitorInv
<1>4. CASE Tick
  BY <1>4, TickInv
<1>5. CASE FetcherStart \/ FetcherStop \/ FetcherIdle
  BY <1>5, FetcherEngineInv
<1>6. CASE UNCHANGED fetcherVars
  <2>1. UNCHANGED <<pc, job, status, failures, monitor, check, client, engine, starts, attempt, timer,
                    consecutive4xx, nextAllowed, owed>>
    BY <1>6 DEF fetcherVars, proxyVars, lifeVars, fetchVars
  <2>2. FetcherOK'
    BY <2>1 DEF FetcherIInv, FetcherOK, EngineOK, WorkersOK, ProxyOK
  <2> QED BY <2>1, <2>2, FetcherOtherInv
<1> QED BY <1>1, <1>2, <1>3, <1>4, <1>5, <1>6 DEF FetcherNext

\* The invariant holds in every reachable state.
LEMMA FetcherInvariant == FetcherSpec => []FetcherIInv
<1>1. FetcherInit => FetcherIInv
  BY FetcherInitInv
<1>2. FetcherIInv /\ [FetcherNext]_fetcherVars => FetcherIInv'
  BY FetcherNextInv
<1> QED BY <1>1, <1>2, PTL DEF FetcherSpec

\* The state of fetcher and proxy manager keeps its type: failures stay below
\* the threshold they are counted to, attempts in the retries, delays in their
\* maximum.
THEOREM FetcherTypeCorrect == FetcherSpec => []FetcherOK
<1>1. FetcherIInv => FetcherOK
  BY DEF FetcherIInv
<1> QED BY <1>1, FetcherInvariant, PTL

\* No worker sends a retry before the backoff its host had when its attempt
\* failed, its own throttle's included, and its pause are over.  Successes of
\* others do not shorten it; a throttle of another worker may replace it, also
\* by a shorter one, while it has not been read (Fetch, recordThrottle,
\* recordSuccess).
THEOREM BackoffsHonoured == FetcherSpec => []BackoffHonoured
<1>1. FetcherIInv => BackoffHonoured
  BY FetcherHonours
<1> QED BY <1>1, FetcherInvariant, PTL
=============================================================================

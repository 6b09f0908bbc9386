----------------------------- MODULE HostCaches -----------------------------
(* The two caches a worker passes on its way to a direct request, robots.txt *)
(* and DNS, between Start and Stop of the engine.                            *)
EXTENDS RobotsCache, DNSCache

cachesVars == <<pc, job, robotsVars, dnsVars, lifeVars>>

CachesOK ==
  /\ WorkersOK /\ EngineOK /\ RobotsOK /\ DNSOK
  /\ \A w \in Worker : (pc[w] \in {"dnsLock", "resolve"}) = (found[w] # NoEntry)

CachesInit == WorkersInit /\ RobotsInit /\ DNSInit

-----------------------------------------------------------------------------

\* A job begins with the rules of its domain.
CachesJob(w, d) == ProcessJob(w, d, "robots") /\ UNCHANGED <<robotsVars, dnsVars>>

\* The request ends: Fetch returns, or tries again with a lookup of its own.
Fetched(w) ==
  /\ pc[w] = "request"
  /\ Done(w) \/ (engine = "running" /\ Goto(w, "lookup") /\ UNCHANGED job)
  /\ UNCHANGED <<robotsVars, dnsVars, lifeVars>>

CachesStart == Start /\ UNCHANGED <<robotsVars, dnsVars>>

\* Fetches and lookups under way fail, unless their answer has come already.
CachesStop == Stop /\ UNCHANGED <<robotsVars, dnsVars>>

\* Stop has waited for the workers; StopMonitor closes the DNS cache, which
\* the next Start does not open again.
CachesClose == Stopped /\ CloseDNS /\ UNCHANGED robotsVars

Robots(w) ==
  /\ \/ RobotsCheck(w) \/ RobotsLock(w)
     \/ \E e \in {"rules", "open", "failed"} : RobotsFetched(w, e)
  /\ UNCHANGED <<dnsVars, lifeVars>>

Dial(w) ==
  /\ \/ LookupFast(w) \/ LookupEntry(w) \/ LookupLock(w)
     \/ \E ok \in BOOLEAN : Resolved(w, ok)
  /\ UNCHANGED <<robotsVars, lifeVars>>

CachesStep(w) == Robots(w) \/ Dial(w) \/ Fetched(w)

RobotsAge(d) == RobotsExpire(d) /\ UNCHANGED <<dnsVars, lifeVars>>
DNSAge == ((\E e \in Entry : Expire(e)) \/ Prune) /\ UNCHANGED <<robotsVars, lifeVars>>

CachesNext ==
  \/ \E w \in Worker : CachesStep(w) \/ \E d \in Domain : CachesJob(w, d)
  \/ (\E d \in Domain : RobotsAge(d)) \/ DNSAge
  \/ CachesStart \/ CachesStop \/ CachesClose

\* Goroutines run, requests and lookups end (they have timeouts), a request is
\* not repeated forever (the retries are counted, see Fetcher), a mutex that is
\* free again and again is got, and entries expire.  Nobody has to start or
\* stop the engine or give a worker a job.
CachesFairness ==
  /\ \A w \in Worker : SF_cachesVars(CachesStep(w)) /\ SF_cachesVars(Fetched(w) /\ Done(w))
  /\ \A d \in Domain : WF_cachesVars(RobotsAge(d))
  /\ WF_cachesVars(CachesClose)

CachesSpec == CachesInit /\ [][CachesNext]_cachesVars /\ CachesFairness

-----------------------------------------------------------------------------

\* While a worker fetches the robots.txt of a domain nobody else does, and no
\* fresh entry is there: the mutex and the second look of getOrFetch collapse
\* the requests of all workers that missed the cache.
RobotsFetchedOnce ==
  \A w \in Worker : pc[w] = "robotsFetch" =>
    /\ ~Fresh(job[w])
    /\ \A v \in Worker \ {w} : pc[v] = "robotsFetch" => job[v] # job[w]

\* Two lookups of a host run at the same time only if the janitor has taken the
\* entry of one of them out of the map: creation of the entry under the lock and
\* lookupMu collapse all others (DNSCache.Lookup).
OneLookup ==
  \A v, w \in Worker :
    v # w /\ pc[v] = "resolve" /\ pc[w] = "resolve" /\ job[v] = job[w]
      => found[v] # found[w] /\ pruned \cap {found[v], found[w]} # {}

\* Misses of one cache at the same time lead to one request, in both caches.
SingleFlight == RobotsFetchedOnce /\ OneLookup

\* A fetch of robots.txt ends without rules.
Unread == \E w \in Worker, e \in {"open", "failed"} : RobotsFetched(w, e)

\* Once the robots.txt files can be read, the pages they deny are requested no
\* more: a permission that only an error or a Stop gave ends with its TTL
\* (getOrFetch).
RulesApplyInTheEnd ==
  <>[][~Unread]_cachesVars => <>[](\A w \in Worker : pc[w] = "request" => job[w] \notin Denied)

\* Every job a worker takes comes to an end: no mutex of the two caches is held
\* forever, whatever fetches and lookups fail and whatever the janitor prunes.
CachesPassed == \A w \in Worker : (pc[w] # "idle") ~> (pc[w] = "idle")
=============================================================================

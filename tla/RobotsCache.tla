---------------------------- MODULE RobotsCache -----------------------------
(* The cache of robots.txt files (internal/crawler/robots.go).  A worker     *)
(* looks for an entry, waits for the mutex of the domain, looks again and    *)
(* fetches.  Whatever comes of the fetch is stored for the whole TTL: an     *)
(* entry without rules (no file, any status but 200, any error, also a       *)
(* context that Stop cancelled) permits everything.                          *)
EXTENDS FetchWorkers

CONSTANT Denied    \* domains whose robots.txt keeps the crawler out

ASSUME RobotsAssumption == Denied \subseteq Domain

VARIABLES
  cache,       \* per domain: "none" (or expired), "rules", "open" (not found), "failed"
  fetchLock    \* per domain: the holder of its fetch mutex

robotsVars == <<cache, fetchLock>>

RobotsOK ==
  /\ cache \in [Domain -> {"none", "rules", "open", "failed"}]
  /\ fetchLock \in [Domain -> Worker \cup {NoWorker}]

RobotsInit ==
  /\ cache = [d \in Domain |-> "none"]
  /\ fetchLock = [d \in Domain |-> NoWorker]

Fresh(d) == cache[d] # "none"

\* group.Test; an entry without rules lets everything pass (fail-open).
Permits(e, d) == e # "rules" \/ d \notin Denied

\* Back in processJob: the page is fetched, or the job is dropped.
IsAllowed(w, e) ==
  IF Permits(e, job[w]) THEN Goto(w, "lookup") /\ UNCHANGED job ELSE Done(w)

\* The fast path, under the read lock.
RobotsCheck(w) ==
  /\ pc[w] = "robots"
  /\ IF Fresh(job[w]) THEN IsAllowed(w, cache[job[w]])
                      ELSE Goto(w, "robotsLock") /\ UNCHANGED job
  /\ UNCHANGED robotsVars

\* The mutex of the domain and the second look at the cache.
RobotsLock(w) ==
  /\ pc[w] = "robotsLock" /\ fetchLock[job[w]] = NoWorker
  /\ IF Fresh(job[w])
     THEN IsAllowed(w, cache[job[w]]) /\ UNCHANGED robotsVars
     ELSE /\ fetchLock' = [fetchLock EXCEPT ![job[w]] = w]
          /\ Goto(w, "robotsFetch")
          /\ UNCHANGED <<cache, job>>

\* fetch and storeEntry; the mutex is given up on return.
RobotsFetched(w, e) ==
  /\ pc[w] = "robotsFetch" /\ e \in {"rules", "open", "failed"}
  /\ cache' = [cache EXCEPT ![job[w]] = e]
  /\ fetchLock' = [fetchLock EXCEPT ![job[w]] = NoWorker]
  /\ IsAllowed(w, e)

\* Mutant: an entry without rules has no TTL.
BugExpireRulesOnly(d) ==
  /\ cache[d] = "rules"
  /\ cache' = [cache EXCEPT ![d] = "none"]
  /\ UNCHANGED <<fetchLock, pc, job>>

\* The TTL of an entry ends.
RobotsExpire(d) ==
  /\ Fresh(d)
  /\ cache' = [cache EXCEPT ![d] = "none"]
  /\ UNCHANGED <<fetchLock, pc, job>>
=============================================================================

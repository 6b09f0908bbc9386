---------------------------- MODULE ProxyManager ----------------------------
(* The proxies in order of preference, their health and the monitor          *)
(* (internal/crawler/proxy_manager.go).  Status and Failures are atomics     *)
(* without a lock: every load and store is a step of its own, except where   *)
(* the later step alone decides (MarkDown stores Down over Healthy or        *)
(* changes nothing, whatever it loaded before).                              *)
EXTENDS FetchWorkers

CONSTANTS
  Proxies,             \* pm.proxies, in order: "proxy" or "direct"
  ProxyFailThreshold

ASSUME ProxyAssumption ==
  /\ Proxies \in Seq({"proxy", "direct"}) /\ Len(Proxies) > 0
  /\ ProxyFailThreshold \in Nat \ {0}

VARIABLES
  status,    \* per proxy: "healthy" or "down"
  failures,  \* per proxy: Failures, up to the threshold (more changes nothing)
  monitor,   \* the monitor goroutine runs
  check,     \* per proxy: its health check
  client     \* per worker: the proxy GetClient looks at, or has returned

proxyVars == <<status, failures, monitor, check, client>>
Proxy == DOMAIN Proxies

Check == {"none", "asking", "up", "upAgain", "recover", "lost"}

ProxyOK ==
  /\ status \in [Proxy -> {"healthy", "down"}]
  /\ failures \in [Proxy -> 0..ProxyFailThreshold]
  /\ monitor \in BOOLEAN /\ check \in [Proxy -> Check]
  /\ client \in [Worker -> Proxy]

\* NewProxyManager: every proxy is taken to be healthy.
ProxyInit ==
  /\ status = [p \in Proxy |-> "healthy"]
  /\ failures = [p \in Proxy |-> 0]
  /\ monitor = FALSE /\ check = [p \in Proxy |-> "none"]
  /\ client = [w \in Worker |-> 1]

-----------------------------------------------------------------------------
(* The fetchers' side.                                                     *)

\* GetClient, one status at a time; after the last one it falls back on the
\* first.
GetClient(w) ==
  /\ pc[w] = "choose"
  /\ LET last   == client[w] = Len(Proxies)
         chosen == IF status[client[w]] = "healthy" THEN client[w] ELSE 1 IN
     IF status[client[w]] = "healthy" \/ last
     THEN /\ client' = [client EXCEPT ![w] = chosen]
          /\ Goto(w, "request")
     ELSE client' = [client EXCEPT ![w] = @ + 1] /\ UNCHANGED pc
  /\ UNCHANGED <<job, status, failures, monitor, check>>

\* Failures.Add in MarkDown; an error of a direct connection is not counted.
Add(p) == IF Proxies[p] = "direct" \/ failures[p] = ProxyFailThreshold
          THEN failures[p] ELSE failures[p] + 1

\* MarkDown, once the count has reached the threshold.
SetDown(p) == status' = [status EXCEPT ![p] = "down"]

ResetFailures(p) == failures' = [failures EXCEPT ![p] = 0]

-----------------------------------------------------------------------------
(* The monitor.  Workers are not touched.                                  *)

\* StartMonitor; with a single proxy there is nothing to choose.
StartMonitor ==
  /\ monitor' = (Len(Proxies) > 1)
  /\ UNCHANGED <<status, failures, check, client>>

\* The ticker: checkAllProxies asks through all proxies and waits for them.
CheckAll ==
  /\ monitor /\ \A p \in Proxy : check[p] = "none"
  /\ check' = [p \in Proxy |-> "asking"]
  /\ UNCHANGED <<pc, job, status, failures, monitor, client>>

\* Mutant: an error marks a proxy only if it is down already.
BugCheckDone(p, ok) ==
  /\ check[p] = "asking"
  /\ check' = [check EXCEPT ![p] =
       IF ok THEN (IF status[p] = "down" THEN "upAgain" ELSE "up")
             ELSE (IF status[p] = "down" THEN "lost" ELSE "none")]
  /\ UNCHANGED <<pc, job, status, failures, monitor, client>>

\* checkProxy: the answer (of any status code) or the error, and right after
\* it the status, which decides what is stored.
CheckDone(p, ok) ==
  /\ check[p] = "asking"
  /\ check' = [check EXCEPT ![p] =
       IF ok THEN (IF status[p] = "down" THEN "upAgain" ELSE "up")
             ELSE (IF status[p] = "healthy" THEN "lost" ELSE "none")]
  /\ UNCHANGED <<pc, job, status, failures, monitor, client>>

\* Mutant: a proxy that answers again only loses its failures.
BugCheckReset(p) ==
  /\ check[p] \in {"up", "upAgain"}
  /\ ResetFailures(p)
  /\ check' = [check EXCEPT ![p] = "none"]
  /\ UNCHANGED <<pc, job, status, monitor, client>>

CheckReset(p) ==
  /\ check[p] \in {"up", "upAgain"}
  /\ ResetFailures(p)
  /\ check' = [check EXCEPT ![p] = IF check[p] = "upAgain" THEN "recover" ELSE "none"]
  /\ UNCHANGED <<pc, job, status, monitor, client>>

CheckSet(p) ==
  /\ check[p] \in {"lost", "recover"}
  /\ status' = [status EXCEPT ![p] = IF check[p] = "lost" THEN "down" ELSE "healthy"]
  /\ check' = [check EXCEPT ![p] = "none"]
  /\ UNCHANGED <<pc, job, failures, monitor, client>>

\* The monitor sees that its context is cancelled.
MonitorExit ==
  /\ monitor /\ \A p \in Proxy : check[p] = "none"
  /\ monitor' = FALSE
  /\ UNCHANGED <<pc, job, status, failures, check, client>>
=============================================================================

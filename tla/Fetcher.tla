------------------------------ MODULE Fetcher -------------------------------
(* Fetch: the choice of a proxy, the request, and the retries with a backoff *)
(* per host (internal/crawler/fetcher.go), between Start and Stop of the     *)
(* engine.  Dialling is part of the request.  Time is what remains of each   *)
(* delay; Tick lets one unit pass for all.                                   *)
EXTENDS ProxyManager

CONSTANTS
  MaxRetries,      \* retries of a request
  BackoffDelay,    \* backoffBase shifted by 1, 2, ... 5, in ticks
  BackoffMax, BackoffJitter

ASSUME FetcherAssumption ==
  /\ MaxRetries \in Nat /\ BackoffMax \in Nat /\ BackoffJitter \in Nat
  /\ BackoffDelay \in Seq(Nat) /\ Len(BackoffDelay) > 0
  /\ \A n \in 1..Len(BackoffDelay) : BackoffJitter < BackoffDelay[n]

VARIABLES
  attempt,         \* per worker
  timer,           \* per worker: what remains of its sleep
  consecutive4xx,  \* per host, up to MaxShift
  nextAllowed,     \* per host: ticks until nextAllowed
  owed             \* history, per worker: ticks until it may send its retry

fetchVars == <<attempt, timer, consecutive4xx, nextAllowed, owed>>
hostVars  == <<consecutive4xx, nextAllowed>>
fetcherVars == <<pc, job, lifeVars, proxyVars, fetchVars>>

\* The throttles in a row after which the delay grows no more.
MaxShift == Len(BackoffDelay)

FetcherOK ==
  /\ WorkersOK /\ EngineOK /\ ProxyOK
  /\ attempt \in [Worker -> 0..MaxRetries]
  /\ timer \in [Worker -> Nat]
  /\ consecutive4xx \in [Domain -> 0..MaxShift]
  /\ nextAllowed \in [Domain -> 0..BackoffMax]
  /\ owed \in [Worker -> Nat]

FetcherInit ==
  /\ WorkersInit /\ ProxyInit
  /\ attempt = [w \in Worker |-> 0] /\ timer = [w \in Worker |-> 0]
  /\ consecutive4xx = [d \in Domain |-> 0] /\ nextAllowed = [d \in Domain |-> 0]
  /\ owed = [w \in Worker |-> 0]

-----------------------------------------------------------------------------
(* Fetch.                                                                  *)

\* Fetch returns, with a page or an error; processJob ends or gives the job back.
Return(w) ==
  /\ Done(w)
  /\ attempt' = [attempt EXCEPT ![w] = 0]
  /\ client' = [client EXCEPT ![w] = 1]

\* Mutant: a retry does not count.
BugNextAttempt(w) ==
  IF attempt[w] = MaxRetries THEN Return(w)
  ELSE /\ Goto(w, "backoff")
       /\ client' = [client EXCEPT ![w] = 1]
       /\ UNCHANGED <<job, attempt>>

\* The loop goes on, unless this was the last attempt.
NextAttempt(w) ==
  IF attempt[w] = MaxRetries THEN Return(w)
  ELSE /\ Goto(w, "backoff")
       /\ attempt' = [attempt EXCEPT ![w] = @ + 1]
       /\ client' = [client EXCEPT ![w] = 1]
       /\ UNCHANGED job

\* History: the retry of w owes what is left of the backoff of its host and its
\* own pause.  For the others in `replaced` a shorter backoff has taken the
\* place of the one they owe.
Owes(w, replaced) ==
  LET due(v, n) == nextAllowed'[job[v]] + n IN
  owed' = [v \in Worker |->
             IF v = w THEN IF attempt[w] = MaxRetries THEN 0 ELSE due(w, attempt[w] + 1)
             ELSE IF v \in replaced /\ due(v, attempt[v]) < owed[v] THEN due(v, attempt[v])
             ELSE owed[v]]

\* recordThrottle: any nextAllowed is replaced, an earlier or a later one.
RecordThrottle(d) ==
  /\ LET n == IF consecutive4xx[d] < MaxShift THEN consecutive4xx[d] + 1 ELSE MaxShift IN
     /\ consecutive4xx' = [consecutive4xx EXCEPT ![d] = n]
     /\ \E jitter \in (-BackoffJitter)..BackoffJitter :
          LET delay == BackoffDelay[n] + jitter IN
          nextAllowed' = [nextAllowed EXCEPT ![d] =
                            IF delay > BackoffMax THEN BackoffMax ELSE delay]

\* Mutant: a success ends the backoff of the host.
BugRecordSuccess(d) ==
  /\ consecutive4xx' = [consecutive4xx EXCEPT ![d] = 0]
  /\ nextAllowed' = [nextAllowed EXCEPT ![d] = 0]

\* recordSuccess: the count only, nextAllowed stays.
RecordSuccess(d) ==
  /\ consecutive4xx' = [consecutive4xx EXCEPT ![d] = 0]
  /\ UNCHANGED nextAllowed

\* A page, of any status but 429 and 503; or ErrUnsupportedContentType.
Answered(w) ==
  /\ pc[w] = "request"
  /\ ResetFailures(client[w]) /\ RecordSuccess(job[w]) /\ Return(w)
  /\ UNCHANGED <<status, monitor, check, lifeVars, timer, owed>>

\* 429 or 503: the last attempt returns it, an earlier one backs off, and
\* leaves the failures of the proxy as they are.
Throttled(w) ==
  /\ pc[w] = "request"
  /\ IF attempt[w] = MaxRetries
     THEN ResetFailures(client[w]) /\ UNCHANGED hostVars
     ELSE RecordThrottle(job[w]) /\ UNCHANGED failures
  /\ NextAttempt(w) /\ Owes(w, {v \in Worker : pc[v] = "backoff" /\ job[v] = job[w]})
  /\ UNCHANGED <<status, monitor, check, lifeVars, timer>>

\* A network error: MarkDown counts it against the proxy, and goes on to mark
\* the proxy if the count has reached the threshold.
Refused(w) ==
  /\ pc[w] = "request"
  /\ UNCHANGED <<status, monitor, check, lifeVars, timer, hostVars>>
  /\ LET p == client[w] IN
     /\ failures' = [failures EXCEPT ![p] = Add(p)]
     /\ IF Proxies[p] # "direct" /\ Add(p) >= ProxyFailThreshold
        THEN Goto(w, "markSet") /\ UNCHANGED <<job, attempt, client, owed>>
        ELSE NextAttempt(w) /\ Owes(w, {})

\* A timeout, a cancelled context, or a connection the target has dropped.
Dropped(w) ==
  /\ pc[w] = "request"
  /\ UNCHANGED <<status, failures, monitor, check, lifeVars, timer, hostVars>>
  /\ NextAttempt(w) /\ Owes(w, {})

\* The end of MarkDown: Down is stored over Healthy, or is there already.
MarkDown(w) ==
  /\ pc[w] = "markSet"
  /\ UNCHANGED <<failures, monitor, check, lifeVars, timer, hostVars>>
  /\ SetDown(client[w]) /\ NextAttempt(w) /\ Owes(w, {})

\* Mutant: a retry that has a backoff to wait for makes no pause of its own.
BugReadBackoff(w) ==
  /\ pc[w] = "backoff" /\ Goto(w, "sleep")
  /\ timer' = [timer EXCEPT ![w] = IF nextAllowed[job[w]] > 0 THEN nextAllowed[job[w]] ELSE attempt[w]]
  /\ UNCHANGED <<job, proxyVars, lifeVars, attempt, hostVars, owed>>

\* Before a retry: nextAllowed is read once and slept for, then attempt units
\* more; nothing is read between the two sleeps.
ReadBackoff(w) ==
  /\ pc[w] = "backoff" /\ Goto(w, "sleep")
  /\ timer' = [timer EXCEPT ![w] = nextAllowed[job[w]] + attempt[w]]
  /\ UNCHANGED <<job, proxyVars, lifeVars, attempt, hostVars, owed>>

Awake(w) ==
  /\ pc[w] = "sleep" /\ timer[w] = 0 /\ Goto(w, "choose")
  /\ UNCHANGED <<job, lifeVars, proxyVars, fetchVars>>

\* Both sleeps end when the context is cancelled.
GiveUp(w) ==
  /\ pc[w] = "sleep" /\ engine # "running"
  /\ Return(w)
  /\ timer' = [timer EXCEPT ![w] = 0] /\ owed' = [owed EXCEPT ![w] = 0]
  /\ UNCHANGED <<status, failures, monitor, check, lifeVars, hostVars>>

Less(f) == [x \in DOMAIN f |-> IF f[x] > 0 THEN f[x] - 1 ELSE 0]

Tick ==
  /\ \/ \E w \in Worker : timer[w] > 0
     \/ \E d \in Domain : nextAllowed[d] > 0
  /\ timer' = Less(timer) /\ nextAllowed' = Less(nextAllowed) /\ owed' = Less(owed)
  /\ UNCHANGED <<pc, job, proxyVars, lifeVars, attempt, consecutive4xx>>

-----------------------------------------------------------------------------
(* The engine around it.                                                   *)

FetcherJob(w, d) == ProcessJob(w, d, "choose") /\ UNCHANGED <<proxyVars, fetchVars>>

FetcherStart == Start /\ StartMonitor /\ UNCHANGED fetchVars
FetcherStop == Stop /\ UNCHANGED <<proxyVars, fetchVars>>

\* After the workers Stop waits for the monitor.
FetcherIdle == Stopped /\ ~monitor /\ UNCHANGED <<proxyVars, fetchVars>>

Choose(w) == GetClient(w) /\ UNCHANGED <<lifeVars, fetchVars>>
Request(w) == Answered(w) \/ Throttled(w) \/ Refused(w) \/ Dropped(w)
Retry(w) == MarkDown(w) \/ ReadBackoff(w) \/ Awake(w) \/ GiveUp(w)
FetcherStep(w) == Choose(w) \/ Request(w) \/ Retry(w)

Checks(p) == ((\E ok \in BOOLEAN : CheckDone(p, ok)) \/ CheckReset(p) \/ CheckSet(p))
             /\ UNCHANGED <<lifeVars, fetchVars>>
Ticker == CheckAll /\ UNCHANGED <<lifeVars, fetchVars>>
EndMonitor == engine # "running" /\ MonitorExit /\ UNCHANGED <<lifeVars, fetchVars>>

FetcherNext ==
  \/ \E w \in Worker : FetcherStep(w) \/ \E d \in Domain : FetcherJob(w, d)
  \/ (\E p \in Proxy : Checks(p)) \/ Ticker \/ EndMonitor \/ Tick
  \/ FetcherStart \/ FetcherStop \/ FetcherIdle

\* Goroutines run, requests end (they have timeouts), time passes and tickers
\* tick; the monitor's select may choose a tick again and again, but not
\* forever.  Nobody has to start or stop the engine or give a worker a job.
FetcherFairness ==
  /\ \A w \in Worker : WF_fetcherVars(FetcherStep(w))
  /\ \A p \in Proxy : WF_fetcherVars(Checks(p))
  /\ WF_fetcherVars(Ticker) /\ SF_fetcherVars(EndMonitor) /\ WF_fetcherVars(Tick)
  /\ WF_fetcherVars(FetcherIdle)

FetcherSpec == FetcherInit /\ [][FetcherNext]_fetcherVars /\ FetcherFairness

-----------------------------------------------------------------------------

\* A worker whose attempt failed sends nothing more before the backoff its host
\* has then, its own throttle's included, and its pause of one unit per attempt
\* are over.  A success of another worker does not end the backoff; only a
\* throttle of another worker replaces it, by a shorter one too, for those who
\* have not read it yet (Fetch, recordThrottle, recordSuccess).
BackoffHonoured ==
  \A w \in Worker : pc[w] \in {"choose", "request"} => owed[w] = 0

\* Something comes back through proxy p.
Alive(p) == CheckDone(p, TRUE) \/ \E w \in Worker : client[w] = p /\ (Answered(w) \/ Throttled(w))

\* If nothing comes through the first proxy any more and the health checks of
\* the second do not fail, requests stop going through the first (checkProxy,
\* MarkDown, GetClient).
Failover ==
  (<>[][~Alive(1)]_fetcherVars /\ <>[][~CheckDone(2, FALSE)]_fetcherVars) =>
    <>[](\A w \in Worker : pc[w] = "request" => client[w] # 1)

\* A proxy whose health checks do not fail any more is healthy again and again
\* while the engine runs, whatever errors its users meet (checkProxy).
Recovery ==
  <>[][~CheckDone(1, FALSE)]_fetcherVars => []<>(engine # "running" \/ status[1] = "healthy")

\* A Stop comes to its end: retries are counted, sleeps end early, and the
\* monitor leaves after its last round (Fetch, StartMonitor, StopMonitor).
StopReturns == (engine = "stopping") ~> (engine = "idle")
=============================================================================

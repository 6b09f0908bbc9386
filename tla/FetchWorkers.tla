---------------------------- MODULE FetchWorkers ----------------------------
(* What the modules of the fetch path share: the workers of the engine, the *)
(* place each one is at between taking a job and giving it back, the domain *)
(* of its job, and the engine that starts and stops them.  RobotsCache and  *)
(* DNSCache (put together in HostCaches) and ProxyManager (in Fetcher) move *)
(* workers through places of their own.                                     *)
EXTENDS Integers, Sequences, FiniteSets

CONSTANTS
  Worker, Domain,     \* worker goroutines; domains, each its own host
  NoWorker, NoDomain,
  MaxStarts           \* bound: calls of Start

ASSUME WorkersAssumption ==
  NoWorker \notin Worker /\ NoDomain \notin Domain /\ MaxStarts \in Nat

VARIABLES
  pc,        \* per worker: its place
  job,       \* per worker: the domain of the job it has
  engine,    \* "running", "stopping" (the context is cancelled) or "idle"
  starts

lifeVars == <<engine, starts>>

RobotsPlace == {"robots", "robotsLock", "robotsFetch"}
DialPlace   == {"lookup", "dnsEntry", "dnsLock", "resolve"}
RetryPlace  == {"markSet", "backoff", "sleep"}
Place == {"idle", "choose", "request"} \cup RobotsPlace \cup DialPlace \cup RetryPlace

WorkersOK == pc \in [Worker -> Place] /\ job \in [Worker -> Domain \cup {NoDomain}]
EngineOK  == engine \in {"running", "stopping", "idle"} /\ starts \in 0..MaxStarts

WorkersInit ==
  /\ pc = [w \in Worker |-> "idle"] /\ job = [w \in Worker |-> NoDomain]
  /\ engine = "idle" /\ starts = 0

Goto(w, l) == pc' = [pc EXCEPT ![w] = l]

\* Fetch returns, or the job is dropped before it: processJob ends.
Done(w) == Goto(w, "idle") /\ job' = [job EXCEPT ![w] = NoDomain]

\* processJob begins, with a job of domain d, at place l.
ProcessJob(w, d, l) ==
  /\ pc[w] = "idle" /\ engine = "running"
  /\ Goto(w, l) /\ job' = [job EXCEPT ![w] = d]
  /\ UNCHANGED lifeVars

Start ==
  /\ engine = "idle" /\ starts < MaxStarts
  /\ engine' = "running" /\ starts' = starts + 1
  /\ UNCHANGED <<pc, job>>

\* Stop cancels the context, and waits for the workers.
Stop ==
  /\ engine = "running" /\ engine' = "stopping"
  /\ UNCHANGED <<pc, job, starts>>

Stopped ==
  /\ engine = "stopping" /\ \A w \in Worker : pc[w] = "idle"
  /\ engine' = "idle"
  /\ UNCHANGED <<pc, job, starts>>
=============================================================================

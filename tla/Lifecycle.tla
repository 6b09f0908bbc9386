------------------------------ MODULE Lifecycle ------------------------------
(***************************************************************************)
(* Start and Stop of the engine as they are really called: by main, and by *)
(* goroutines the admin API spawns for POST /crawler/start and /stop.      *)
(* Engine.Start and Engine.Stop take no lock: each reads the status, and   *)
(* acts on what it read several steps later.  Every Start makes a context  *)
(* of its own (a generation); Engine.cancel keeps only the last one.       *)
(*                                                                         *)
(* A worker is a pair: its generation and its index.  Workers write pages  *)
(* to the BatchWriter; `buffer` says what it holds that the database has   *)
(* not got yet: nothing, something no flush has tried to write, or only    *)
(* what a flush has tried to write and failed.  A failed flush keeps the   *)
(* buffers and is logged; whoever asked for it goes on all the same.       *)
(***************************************************************************)
EXTENDS Integers, FiniteSets

CONSTANTS
  Caller,       \* API requests that may be under way at a time
  Main,         \* the main goroutine
  Workers,      \* cfg.Workers
  AutoStart,    \* cfg.AutoStart without -no-start
  Patient,      \* nobody asks for a start or stop while another is under way
  MaxRequests   \* bound: API requests accepted

ASSUME LifecycleAssumption ==
  /\ Main \notin Caller /\ Workers \in Nat \ {0}
  /\ AutoStart \in BOOLEAN /\ Patient \in BOOLEAN /\ MaxRequests \in Nat

VARIABLES
  status,     \* Engine.status
  gens,       \* contexts made so far
  cancel,     \* Engine.cancel: the generation it cancels, 0 when nil
  cancelled,  \* generations whose context is cancelled
  alive,      \* worker goroutines; crawlWG counts them
  at,         \* per actor: its place in Start, Stop or main, or "idle"
  gen, left,  \* per actor in Start: its generation, the workers to launch
  buffer,     \* what the BatchWriter holds: "empty", "new" or "failed"
  requests    \* API requests accepted

vars == <<status, gens, cancel, cancelled, alive, at, gen, left, buffer, requests>>
local == <<gen, left>>

Actor == Caller \cup {Main}
InStart == {"start", "start.cancel", "start.run", "start.spawn"}
InStop == {"stop", "stop.mark", "stop.cancel", "stop.wait", "stop.flush", "stop.idle"}
InMain == {"serve", "api", "cancel", "final", "close", "exited"}

Up == at[Main] # "exited"
Goto(a, p) == at' = [at EXCEPT ![a] = p]

\* BatchWriter.Flush: it writes everything, or fails and keeps everything.
Flush == buffer' \in {"empty", IF buffer = "empty" THEN "empty" ELSE "failed"}

\* No Start, Stop or shutdown is under way.
Quiet == \A a \in Actor : at[a] \in {"idle", "serve"}

\* Where an actor goes on when Start or Stop returns.
Return(a, p) == Goto(a, IF a = Main THEN p ELSE "idle")

-----------------------------------------------------------------------------
(* Engine.Start.                                                           *)

StartCheck(a) ==
  /\ Up /\ at[a] = "start"
  /\ IF status = "running" THEN Return(a, "serve") ELSE Goto(a, "start.cancel")
  /\ UNCHANGED <<status, gens, cancel, cancelled, alive, local, buffer, requests>>

\* context.WithCancel; e.cancel = cancel
StartCancel(a) ==
  /\ Up /\ at[a] = "start.cancel"
  /\ gens' = gens + 1 /\ cancel' = gens'
  /\ gen' = [gen EXCEPT ![a] = gens']
  /\ Goto(a, "start.run")
  /\ UNCHANGED <<status, cancelled, alive, left, buffer, requests>>

StartRun(a) ==
  /\ Up /\ at[a] = "start.run"
  /\ status' = "running"
  /\ left' = [left EXCEPT ![a] = Workers]
  /\ Goto(a, "start.spawn")
  /\ UNCHANGED <<gens, cancel, cancelled, alive, gen, buffer, requests>>

\* crawlWG.Add(1); go e.worker(ctx, i)
StartSpawn(a) ==
  /\ Up /\ at[a] = "start.spawn"
  /\ IF left[a] = 0
     THEN Return(a, "serve") /\ UNCHANGED <<alive, left>>
     ELSE /\ alive' = alive \cup {<<gen[a], left[a]>>}
          /\ left' = [left EXCEPT ![a] = @ - 1]
          /\ UNCHANGED at
  /\ UNCHANGED <<status, gens, cancel, cancelled, gen, buffer, requests>>

-----------------------------------------------------------------------------
(* Engine.Stop.                                                            *)

StopCheck(a) ==
  /\ Up /\ at[a] = "stop"
  /\ IF status # "running" THEN Return(a, "api") ELSE Goto(a, "stop.mark")
  /\ UNCHANGED <<status, gens, cancel, cancelled, alive, local, buffer, requests>>

StopMark(a) ==
  /\ Up /\ at[a] = "stop.mark"
  /\ status' = "stopping" /\ Goto(a, "stop.cancel")
  /\ UNCHANGED <<gens, cancel, cancelled, alive, local, buffer, requests>>

\* Mutant: nobody is told to stop.
BugStopNoCancel(a) ==
  /\ Up /\ at[a] = "stop.cancel"
  /\ Goto(a, "stop.wait")
  /\ UNCHANGED <<status, gens, cancel, cancelled, alive, local, buffer, requests>>

\* e.cancel(), the one that is there now.
StopCancel(a) ==
  /\ Up /\ at[a] = "stop.cancel"
  /\ cancelled' = cancelled \cup ({cancel} \ {0})
  /\ Goto(a, "stop.wait")
  /\ UNCHANGED <<status, gens, cancel, alive, local, buffer, requests>>

\* Mutant: the workers are not waited for.
BugStopNoWait(a) ==
  /\ Up /\ at[a] = "stop.wait"
  /\ Goto(a, "stop.flush")
  /\ UNCHANGED <<status, gens, cancel, cancelled, alive, local, buffer, requests>>

\* e.crawlWG.Wait()
StopWait(a) ==
  /\ Up /\ at[a] = "stop.wait" /\ alive = {}
  /\ Goto(a, "stop.flush")
  /\ UNCHANGED <<status, gens, cancel, cancelled, alive, local, buffer, requests>>

\* e.batchWriter.Flush(), whose error is logged, then the monitor, the fetcher
\* and the renderer.
StopFlush(a) ==
  /\ Up /\ at[a] = "stop.flush"
  /\ Flush /\ Goto(a, "stop.idle")
  /\ UNCHANGED <<status, gens, cancel, cancelled, alive, local, requests>>

StopIdle(a) ==
  /\ Up /\ at[a] = "stop.idle"
  /\ status' = "idle" /\ Return(a, "api")
  /\ UNCHANGED <<gens, cancel, cancelled, alive, local, buffer, requests>>

-----------------------------------------------------------------------------
(* The admin API: a check in the handler, then a goroutine.                *)

\* The server answers while main waits for a signal or stops the engine.
Accepts(c) ==
  /\ at[Main] \in {"serve", "api"} \cup InStop
  /\ at[c] = "idle" /\ requests < MaxRequests
  /\ Patient => Quiet

StartCrawler(c) ==
  /\ Accepts(c) /\ status # "running"
  /\ Goto(c, "start") /\ requests' = requests + 1
  /\ UNCHANGED <<status, gens, cancel, cancelled, alive, local, buffer>>

StopCrawler(c) ==
  /\ Accepts(c) /\ status = "running"
  /\ Goto(c, "stop") /\ requests' = requests + 1
  /\ UNCHANGED <<status, gens, cancel, cancelled, alive, local, buffer>>

-----------------------------------------------------------------------------
(* main after engine.Start: a signal, engine.Stop, adminServer.Shutdown,   *)
(* then the deferred calls, last first.                                    *)

Signal ==
  /\ at[Main] = "serve" /\ (Patient => Quiet)
  /\ Goto(Main, "stop")
  /\ UNCHANGED <<status, gens, cancel, cancelled, alive, local, buffer, requests>>

\* adminServer.Shutdown waits for handlers, not for the goroutines they made.
ShutdownAPI ==
  /\ at[Main] = "api" /\ Goto(Main, "cancel")
  /\ UNCHANGED <<status, gens, cancel, cancelled, alive, local, buffer, requests>>

\* defer cancel(): main's own context; the API's Starts have another one.
CancelMain ==
  /\ at[Main] = "cancel" /\ Goto(Main, "final")
  /\ cancelled' = cancelled \cup ({gen[Main]} \ {0})
  /\ UNCHANGED <<status, gens, cancel, alive, local, buffer, requests>>

\* defer batchWriter.Stop(): the final flush, tried once.
FinalFlush ==
  /\ at[Main] = "final" /\ Goto(Main, "close")
  /\ Flush
  /\ UNCHANGED <<status, gens, cancel, cancelled, alive, local, requests>>

\* defer store.Close(), and main returns.
CloseStore ==
  /\ at[Main] = "close" /\ Goto(Main, "exited")
  /\ UNCHANGED <<status, gens, cancel, cancelled, alive, local, buffer, requests>>

-----------------------------------------------------------------------------
(* The workers and the BatchWriter's ticker.                               *)

WorkerWrites ==
  /\ Up /\ alive # {} /\ buffer' = "new"
  /\ UNCHANGED <<status, gens, cancel, cancelled, alive, at, local, requests>>

\* A worker sees its context cancelled, its page done.
WorkerExits(w) ==
  /\ Up /\ w \in alive /\ w[1] \in cancelled
  /\ alive' = alive \ {w}
  /\ UNCHANGED <<status, gens, cancel, cancelled, at, local, buffer, requests>>

TickerFlush ==
  /\ at[Main] \notin {"close", "exited"} /\ buffer # "empty" /\ Flush
  /\ UNCHANGED <<status, gens, cancel, cancelled, alive, at, local, requests>>

-----------------------------------------------------------------------------
Init ==
  /\ status = "idle" /\ gens = 0 /\ cancel = 0 /\ cancelled = {} /\ alive = {}
  /\ at = [a \in Actor |-> IF a # Main THEN "idle" ELSE IF AutoStart THEN "start" ELSE "serve"]
  /\ gen = [a \in Actor |-> 0] /\ left = [a \in Actor |-> 0]
  /\ buffer = "empty" /\ requests = 0

StartStep(a) == StartCheck(a) \/ StartCancel(a) \/ StartRun(a) \/ StartSpawn(a)
StopStep(a) ==
  StopCheck(a) \/ StopMark(a) \/ StopCancel(a) \/ StopWait(a) \/ StopFlush(a) \/ StopIdle(a)
MainStep == ShutdownAPI \/ CancelMain \/ FinalFlush \/ CloseStore

Next ==
  \/ \E a \in Actor : StartStep(a) \/ StopStep(a)
  \/ \E c \in Caller : StartCrawler(c) \/ StopCrawler(c)
  \/ Signal \/ MainStep
  \/ WorkerWrites \/ TickerFlush
  \/ \E w \in alive : WorkerExits(w)

Spec == Init /\ [][Next]_vars

\* Goroutines run, and a worker told to stop does; no signal or request has
\* to come.
Fairness ==
  /\ \A a \in Actor : WF_vars(StartStep(a) \/ StopStep(a))
  /\ WF_vars(MainStep)
  /\ WF_vars(\E w \in alive : WorkerExits(w))

FairSpec == Spec /\ Fairness

-----------------------------------------------------------------------------
(* Properties.                                                             *)

\* The type of the state.
TypeOK ==
  /\ status \in {"idle", "running", "stopping"}
  /\ gens \in Nat /\ cancel \in 0..gens /\ cancelled \subseteq 1..gens
  /\ alive \subseteq (1..gens) \X (1..Workers)
  /\ at \in [Actor -> {"idle"} \cup InStart \cup InStop \cup InMain]
  /\ gen \in [Actor -> 0..gens] /\ left \in [Actor -> 0..Workers]
  /\ buffer \in {"empty", "new", "failed"} /\ requests \in 0..MaxRequests

\* config.go:67: "Workers is the number of concurrent crawl goroutines."
WorkerLimit == Cardinality(alive) <= Workers

\* When the process ends no worker has been cut off, and everything the workers
\* wrote has been stored or was in a flush that failed: nothing is written after
\* the final flush.  Its failure loses data all the same, for all that
\* getting-started.md:163 says.
NothingForgotten == at[Main] = "exited" => alive = {} /\ buffer # "new"

\* getting-started.md:157: after Ctrl+C "Shutdown is graceful", and it comes
\* to an end: "3. HTTP server stops".
Exits == (at[Main] = "stop") ~> (at[Main] = "exited")
=============================================================================

-------------------------------- MODULE Engine --------------------------------
(***************************************************************************)
(* The worker pool of internal/crawler/engine.go: workers take jobs from   *)
(* the frontier, fetch them, and put pages that need a browser in a render *)
(* backlog that is served only while the frontier is empty.                *)
(*                                                                         *)
(* The queue is the abstract one of JobPool (CrawlQueue implements it): a  *)
(* set of pending jobs, without scores.  Its condition variable is kept: a *)
(* worker parks when no pending job is ready, and every enqueue and every  *)
(* tick wakes all parked workers.  Pages, links and network answers are    *)
(* choices; what is kept is who holds which job and how it ends.           *)
(***************************************************************************)
EXTENDS Integers, Sequences, FiniteSets

CONSTANTS
  Worker,                \* worker goroutines (cfg.Workers of them)
  Job,                   \* jobs that may ever enter the frontier
  Domain, DomainOf,      \* domains, and the domain of a job
  RenderKey,             \* fingerprint:reason keys of the render backlog
  NoKey,                 \* the key of a job that is not a backlog item
  NoItem,                \* an idle worker's hand
  MaxRetries,            \* cfg.MaxRetries
  BusyRetryMaxAttempts,  \* renderingCfg.BusyRetryMaxAttempts
  MaxConcurrency,        \* renderingCfg.MaxConcurrency
  MaxStarts              \* bound: calls of Start

ASSUME EngineAssumption ==
  /\ Worker # {} /\ IsFiniteSet(Worker)
  /\ DomainOf \in [Job -> Domain]
  /\ MaxRetries \in Nat /\ BusyRetryMaxAttempts \in Nat
  /\ MaxConcurrency \in Nat \ {0} /\ MaxStarts \in Nat
  /\ NoItem \notin [job : Job, key : RenderKey \cup {NoKey}, attempts : Nat]

VARIABLES
  status,         \* Engine.status; the workers' context is live iff "running"
  starts,         \* calls of Start so far
  pending,        \* jobs in the frontier's queue
  ready,          \* domains for which limiter.TryWait would answer true
  pc,             \* per worker: its place in the loop
  hand,           \* per worker: the job or backlog item it works on
  backlog,        \* Engine.renderBacklog
  renderQueued,   \* Engine.renderQueued
  retries,        \* Job.Retries
  rendererOpen,   \* the renderer has not been closed
  open            \* history: jobs the crawler took in and is not done with

vars == <<status, starts, pending, ready, pc, hand, backlog, renderQueued,
          retries, rendererOpen, open>>
pools == <<pending, ready, backlog, renderQueued>>
life  == <<status, starts, rendererOpen>>

Item == [job : Job, key : RenderKey \cup {NoKey}, attempts : 0..BusyRetryMaxAttempts]
PC == {"top", "pop", "dequeue", "select", "parked", "got", "fetch", "wait",
       "slot", "render", "exited"}

Cancelled == status # "running"

-----------------------------------------------------------------------------
(* The frontier as the workers see it.                                     *)

\* pc after a broadcast, with worker w moved to place p.
Broadcast(w, p) ==
  [v \in Worker |-> IF v = w THEN p
                    ELSE IF pc[v] = "parked" THEN "dequeue" ELSE pc[v]]

\* Job structs nobody holds.  The name of a finished one is used again for a
\* new job, so that nothing bounds the jobs that arrive in the long run.
Free == Job \ open

\* AddBatchDirect from the API or the scheduler, Add at startup.
Inject(j) ==
  /\ j \in Free
  /\ open' = open \cup {j}
  /\ retries' = [retries EXCEPT ![j] = 0]
  /\ pending' = pending \cup {j}
  /\ pc' = [v \in Worker |-> IF pc[v] = "parked" THEN "dequeue" ELSE pc[v]]
  /\ UNCHANGED <<life, ready, hand, backlog, renderQueued>>

\* Mutant: the ticker ends when Stop is called.
BugTickWhileRunning ==
  /\ status = "running"
  /\ pc' = [v \in Worker |-> IF pc[v] = "parked" THEN "dequeue" ELSE pc[v]]
  /\ UNCHANGED <<life, pools, hand, retries, open>>

\* StartPeriodicWake's ticker.
PeriodicWake ==
  /\ pc' = [v \in Worker |-> IF pc[v] = "parked" THEN "dequeue" ELSE pc[v]]
  /\ UNCHANGED <<life, pools, hand, retries, open>>

\* The limiter frees a slot or a cooldown ends.
SlotFreed(d) ==
  /\ d \notin ready /\ ready' = ready \cup {d}
  /\ UNCHANGED <<life, pending, backlog, renderQueued, pc, hand, retries, open>>

-----------------------------------------------------------------------------
(* worker: the loop.                                                       *)

Goto(w, p) == pc' = [pc EXCEPT ![w] = p]

\* ctx.Done(), then `if e.frontier.Stats().Pending == 0`.
Top(w) ==
  /\ pc[w] = "top"
  /\ Goto(w, IF Cancelled THEN "exited" ELSE IF pending = {} THEN "pop" ELSE "dequeue")
  /\ UNCHANGED <<life, pools, hand, retries, open>>

\* Mutant: the item is read and not removed.
BugPeekRenderBacklog(w) ==
  /\ pc[w] = "pop"
  /\ IF backlog = <<>>
     THEN Goto(w, "dequeue") /\ UNCHANGED hand
     ELSE Goto(w, "wait") /\ hand' = [hand EXCEPT ![w] = Head(backlog)]
  /\ UNCHANGED <<life, pools, retries, open>>

\* popRenderBacklog: the first item, and its key may be queued again.
popRenderBacklog(w) ==
  /\ pc[w] = "pop"
  /\ IF backlog = <<>>
     THEN Goto(w, "dequeue") /\ UNCHANGED <<hand, backlog, renderQueued>>
     ELSE /\ Goto(w, "wait")
          /\ hand' = [hand EXCEPT ![w] = Head(backlog)]
          /\ backlog' = Tail(backlog)
          /\ renderQueued' = renderQueued \ {Head(backlog).key}
  /\ UNCHANGED <<life, pending, ready, retries, open>>

\* DequeueWithWait: ctx.Err(), read before the queue's mutex is taken.
CheckContext(w) ==
  /\ pc[w] = "dequeue"
  /\ Goto(w, IF Cancelled THEN "exited" ELSE "select")
  /\ UNCHANGED <<life, pools, hand, retries, open>>

\* A job of a ready domain; TryWait may have taken the domain's last slot.
Dequeue(w, j) ==
  /\ pc[w] = "select" /\ j \in pending /\ DomainOf[j] \in ready
  /\ pending' = pending \ {j}
  /\ ready' \in {ready, ready \ {DomainOf[j]}}
  /\ hand' = [hand EXCEPT ![w] = [job |-> j, key |-> NoKey, attempts |-> 0]]
  /\ Goto(w, "got")
  /\ UNCHANGED <<life, backlog, renderQueued, retries, open>>

\* cond.Wait
Park(w) ==
  /\ pc[w] = "select" /\ \A j \in pending : DomainOf[j] \notin ready
  /\ Goto(w, "parked")
  /\ UNCHANGED <<life, pools, hand, retries, open>>

\* worker returns when the context was cancelled while it was being given the
\* job: the job is in nobody's hands any more.
DropOrProcess(w) ==
  /\ pc[w] = "got"
  /\ IF Cancelled
     THEN /\ Goto(w, "exited") /\ hand' = [hand EXCEPT ![w] = NoItem]
          /\ open' = open \ {hand[w].job}
     ELSE Goto(w, "fetch") /\ UNCHANGED <<hand, open>>
  /\ UNCHANGED <<life, pools, retries>>

-----------------------------------------------------------------------------
(* How processJob and processRenderBacklogItem end.                        *)

\* The worker has an answer to act on; a closed renderer only gives errors.
Answered(w) == pc[w] = "fetch" \/ (pc[w] = "render" /\ rendererOpen)

LetGo(w) == hand' = [hand EXCEPT ![w] = NoItem]

\* Skips (not indexable, blacklisted, robots.txt, content type) and permanent
\* failures (4xx, interstitials, unparseable rendered pages).
GiveUp(w) ==
  /\ Answered(w)
  /\ open' = open \ {hand[w].job}
  /\ LetGo(w) /\ Goto(w, "top")
  /\ UNCHANGED <<life, pools, retries>>

\* persistParsedPage and processDiscoveryOnly put the links they find in the
\* frontier.
Persist(w, links) ==
  /\ Answered(w) /\ links \subseteq Free
  /\ open' = (open \ {hand[w].job}) \cup links
  /\ retries' = [j \in Job |-> IF j \in links THEN 0 ELSE retries[j]]
  /\ pending' = pending \cup links
  /\ LetGo(w)
  /\ IF links = {} THEN Goto(w, "top") ELSE pc' = Broadcast(w, "top")
  /\ UNCHANGED <<life, ready, backlog, renderQueued>>

\* Mutant: Job.Retries is not counted.
BugRetryForever(w, j) ==
  /\ pending' = pending \cup {j}
  /\ pc' = Broadcast(w, "top")
  /\ UNCHANGED <<retries, open>>

\* retryOrFail, and the way back to the top of the loop.
retryOrFail(w, j) ==
  IF retries[j] < MaxRetries
  THEN /\ retries' = [retries EXCEPT ![j] = @ + 1]
       /\ pending' = pending \cup {j}
       /\ pc' = Broadcast(w, "top")
       /\ UNCHANGED open
  ELSE /\ open' = open \ {j}
       /\ Goto(w, "top")
       /\ UNCHANGED <<retries, pending>>

\* Fetch, render or parse error, or a 5xx.  A cancelled context is one.
Fail(w) ==
  /\ pc[w] \in {"fetch", "render"}
  /\ retryOrFail(w, hand[w].job)
  /\ LetGo(w)
  /\ UNCHANGED <<life, ready, backlog, renderQueued>>

\* A 429: the domain cools down, then the job is retried.
Throttled(w) ==
  /\ pc[w] = "fetch"
  /\ ready' = ready \ {DomainOf[hand[w].job]}
  /\ retryOrFail(w, hand[w].job)
  /\ LetGo(w)
  /\ UNCHANGED <<life, backlog, renderQueued>>

-----------------------------------------------------------------------------
(* The render backlog.                                                     *)

\* Mutant: the worker asks for its next job without a look at the backlog.
BugEnqueueThenDequeue(w, k) ==
  /\ pc[w] = "fetch" /\ k \notin renderQueued
  /\ renderQueued' = renderQueued \cup {k}
  /\ backlog' = Append(backlog, [job |-> hand[w].job, key |-> k, attempts |-> 0])
  /\ LetGo(w) /\ Goto(w, "dequeue")
  /\ UNCHANGED <<life, pending, ready, retries, open>>

\* enqueueRenderBacklog: an item with the same key stands for this job too.
enqueueRenderBacklog(w, k) ==
  /\ pc[w] = "fetch"
  /\ IF k \in renderQueued
     THEN /\ open' = open \ {hand[w].job}
          /\ UNCHANGED <<backlog, renderQueued>>
     ELSE /\ renderQueued' = renderQueued \cup {k}
          /\ backlog' = Append(backlog, [job |-> hand[w].job, key |-> k, attempts |-> 0])
          /\ UNCHANGED open
  /\ LetGo(w) /\ Goto(w, "top")
  /\ UNCHANGED <<life, pending, ready, retries>>

\* pushRenderBacklog
pushRenderBacklog(w, item) ==
  IF item.key \in renderQueued
  THEN /\ open' = open \ {item.job}
       /\ UNCHANGED <<backlog, renderQueued>>
  ELSE /\ renderQueued' = renderQueued \cup {item.key}
       /\ backlog' = Append(backlog, item)
       /\ UNCHANGED open

\* The context ends while the worker sleeps until item.available: the item is
\* dropped.  Only an item that met a busy renderer has a time to wait for.
DropWaiting(w) ==
  /\ pc[w] = "wait" /\ Cancelled /\ hand[w].attempts > 0
  /\ open' = open \ {hand[w].job}
  /\ LetGo(w) /\ Goto(w, "top")
  /\ UNCHANGED <<life, pools, retries>>

\* `if e.frontier.Stats().Pending > 0`: crawling goes first.
Defer(w) ==
  /\ pc[w] = "wait" /\ pending # {}
  /\ pushRenderBacklog(w, hand[w])
  /\ LetGo(w) /\ Goto(w, "top")
  /\ UNCHANGED <<life, pending, ready, retries>>

\* Nothing was pending when it looked: on to the renderer's slots.  Jobs that
\* arrive from here on do not stop the render.
NothingPending(w) ==
  /\ pc[w] = "wait" /\ pending = {}
  /\ Goto(w, "slot")
  /\ UNCHANGED <<life, pools, hand, retries, open>>

Rendering == {v \in Worker : pc[v] = "render"}

\* Render gets one of the renderer's slots ...
StartRender(w) ==
  /\ pc[w] = "slot" /\ Cardinality(Rendering) < MaxConcurrency
  /\ Goto(w, "render")
  /\ UNCHANGED <<life, pools, hand, retries, open>>

\* ... or none in time: ErrRendererBusy.
RendererBusy(w) ==
  LET item == hand[w] IN
  /\ pc[w] = "slot" /\ Cardinality(Rendering) >= MaxConcurrency
  /\ LetGo(w)
  /\ IF item.attempts < BusyRetryMaxAttempts
     THEN /\ pushRenderBacklog(w, [item EXCEPT !.attempts = @ + 1])
          /\ Goto(w, "top")
          /\ UNCHANGED <<pending, retries>>
     ELSE retryOrFail(w, item.job) /\ UNCHANGED <<backlog, renderQueued>>
  /\ UNCHANGED <<life, ready>>

\* Render gives up waiting for a slot because the context ended.
RenderCancelled(w) ==
  /\ pc[w] = "slot" /\ Cancelled
  /\ retryOrFail(w, hand[w].job)
  /\ LetGo(w)
  /\ UNCHANGED <<life, ready, backlog, renderQueued>>

-----------------------------------------------------------------------------
(* Start and Stop, called one at a time (Lifecycle has the races).         *)

Start ==
  /\ status = "idle" /\ starts < MaxStarts
  /\ status' = "running" /\ starts' = starts + 1
  /\ pc' = [w \in Worker |-> "top"]
  /\ UNCHANGED <<pools, hand, retries, rendererOpen, open>>

Stop ==
  /\ status = "running" /\ status' = "stopping"
  /\ UNCHANGED <<starts, rendererOpen, pools, pc, hand, retries, open>>

\* crawlWG.Wait returns; the renderer is closed for good.
Stopped ==
  /\ status = "stopping" /\ \A w \in Worker : pc[w] = "exited"
  /\ status' = "idle" /\ rendererOpen' = FALSE
  /\ UNCHANGED <<starts, pools, pc, hand, retries, open>>

-----------------------------------------------------------------------------
Init ==
  /\ status = "idle" /\ starts = 0 /\ rendererOpen = TRUE
  /\ pending = {} /\ ready = Domain
  /\ pc = [w \in Worker |-> "exited"] /\ hand = [w \in Worker |-> NoItem]
  /\ backlog = <<>> /\ renderQueued = {}
  /\ retries = [j \in Job |-> 0]
  /\ open = {}

LoopStep(w) ==
  \/ Top(w) \/ popRenderBacklog(w) \/ CheckContext(w)
  \/ (\E j \in pending : Dequeue(w, j)) \/ Park(w) \/ DropOrProcess(w)

ProcessStep(w) ==
  \/ GiveUp(w) \/ \E links \in SUBSET Free : Persist(w, links)
  \/ Fail(w) \/ Throttled(w)
  \/ \E k \in RenderKey : enqueueRenderBacklog(w, k)

RenderStep(w) ==
  \/ DropWaiting(w) \/ Defer(w) \/ NothingPending(w)
  \/ StartRender(w) \/ RendererBusy(w) \/ RenderCancelled(w)

WorkerStep(w) == LoopStep(w) \/ ProcessStep(w) \/ RenderStep(w)

Next ==
  \/ \E w \in Worker : WorkerStep(w)
  \/ \E j \in Job : Inject(j)
  \/ PeriodicWake
  \/ \E d \in Domain : SlotFreed(d)
  \/ Start \/ Stop \/ Stopped

Spec == Init /\ [][Next]_vars

(***************************************************************************)
(* Fairness: a runnable worker runs, an HTTP request or a render ends (both*)
(* have timeouts), the ticker ticks, slots are freed, and Stop goes on     *)
(* after crawlWG.Wait.  Nobody has to inject jobs, start or stop.          *)
(***************************************************************************)
Fairness ==
  /\ \A w \in Worker : WF_vars(WorkerStep(w))
  /\ WF_vars(PeriodicWake)
  /\ \A d \in Domain : WF_vars(SlotFreed(d))
  /\ WF_vars(Stopped)

FairSpec == Spec /\ Fairness

-----------------------------------------------------------------------------
(* Properties.                                                             *)

\* The type of the state.
TypeOK ==
  /\ status \in {"idle", "running", "stopping"}
  /\ starts \in 0..MaxStarts /\ rendererOpen \in BOOLEAN
  /\ pending \subseteq Job /\ ready \subseteq Domain
  /\ pc \in [Worker -> PC] /\ hand \in [Worker -> Item \cup {NoItem}]
  /\ backlog \in Seq(Item) /\ renderQueued \subseteq RenderKey
  /\ retries \in [Job -> 0..MaxRetries]
  /\ open \subseteq Job

Holds(w, j) == hand[w] # NoItem /\ hand[w].job = j
InBacklog(j) == \E i \in 1..Len(backlog) : backlog[i].job = j

\* Job j is in at most one place, and in one exactly while it is open.
Placed(j) ==
  /\ j \in open <=> j \in pending \/ (\E w \in Worker : Holds(w, j)) \/ InBacklog(j)
  /\ j \in pending => ~InBacklog(j) /\ \A w \in Worker : ~Holds(w, j)
  /\ InBacklog(j) => \A w \in Worker : ~Holds(w, j)
  /\ \A v, w \in Worker : Holds(v, j) /\ Holds(w, j) => v = w

OneItemPerJob ==
  \A m, n \in 1..Len(backlog) : backlog[m].job = backlog[n].job => m = n

\* A job the crawler has taken in and not finished with is in exactly one
\* place, the queue, one worker's hands or one backlog item, whatever retries,
\* renders, stops and restarts it goes through; a finished job is nowhere.
OnePlace == (\A j \in Job : Placed(j)) /\ OneItemPerJob

\* renderQueued is exactly the set of keys in the backlog, each there once: a
\* stale key would swallow jobs, a missing one would render twice.
BacklogKeys ==
  /\ renderQueued = {backlog[i].key : i \in 1..Len(backlog)}
  /\ \A i, j \in 1..Len(backlog) : backlog[i].key = backlog[j].key => i = j

Active == {"top", "pop", "got", "fetch", "wait", "slot", "render"}

\* Nobody ever waits in the queue for jobs while a page waits to be rendered
\* and no job is pending: some worker is still on its way to the backlog,
\* although the backlog wakes nobody.
NoStrandedRender ==
  (status = "running" /\ pending = {} /\ backlog # <<>>) =>
    \E w \in Worker : pc[w] \in Active

\* After Stop every worker exits and the engine becomes idle.
StopCompletes == (status = "stopping") ~> (status = "idle")

\* A job that nobody held enters the queue.
Arrival == open' \ open # {}

\* Once jobs cease to arrive, every job that a running engine has taken in
\* comes to an end: the retries and the detours through the render backlog are
\* finite, and neither a parked pool nor a throttled domain keeps a job for
\* ever.  While jobs keep arriving nothing of the kind holds: a render item is
\* put back each time something is pending, and the queue owes no job a turn.
JobsEnd ==
  <>[][~Arrival]_vars =>
    \A j \in Job : (j \in open) ~> (j \notin open \/ status # "running")
=============================================================================

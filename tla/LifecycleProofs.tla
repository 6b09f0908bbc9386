-------------------------- MODULE LifecycleProofs --------------------------
(* Theorems about Lifecycle, for every number of workers and callers: what   *)
(* Start, Stop and main's shutdown keep as long as no two calls overlap.     *)
EXTENDS Lifecycle, FiniteSetTheorems, TLAPS

-----------------------------------------------------------------------------
(* The inductive invariant.                                                *)

Resting(a) == at[a] \in {"idle", "serve"}

\* Main is never where only a caller is, and the other way round.
PlacesOK == at[Main] # "idle" /\ \A c \in Caller : at[c] \in {"idle"} \cup InStart \cup InStop

\* The calls are taken one after the other.
OneCall == \A a, b \in Actor : ~Resting(a) /\ ~Resting(b) => a = b

\* Between two calls an engine that does not run is idle, and an idle engine has
\* no workers.
StatusTells ==
  /\ status = "idle" => alive = {}
  /\ status = "stopping" =>
       \E a \in Actor : at[a] \in {"stop.cancel", "stop.wait", "stop.flush", "stop.idle"}

\* All workers belong to the context that Stop would cancel.
OneGeneration == \A w \in alive : w[1] = cancel

\* What each place of a call has established.
CallOK ==
  \A a \in Actor :
    /\ at[a] \in {"start.cancel", "start.run"} => status = "idle"
    /\ at[a] = "start.spawn" => status = "running"
    /\ at[a] \in {"start.run", "start.spawn"} => gen[a] = cancel
    /\ at[a] \in {"stop.flush", "stop.idle"} => alive = {}

\* Once main's Stop has returned the engine is idle, and once the final flush is
\* done the BatchWriter holds nothing that it has not tried to write.
ShutdownOK ==
  /\ at[Main] \in {"api", "cancel", "final", "close", "exited"} => status = "idle"
  /\ at[Main] \in {"close", "exited"} => buffer # "new"

Disciplined ==
  /\ PlacesOK /\ OneCall /\ StatusTells /\ OneGeneration /\ CallOK /\ ShutdownOK

\* A Start that launches workers has made a context for them, patient or not.
HasContext == \A a \in Actor : at[a] \in {"start.run", "start.spawn"} => gen[a] # 0

IInv == TypeOK /\ HasContext /\ (Patient => Disciplined)

\* The initial states satisfy the invariant.
LEMMA InitInv == Init => IInv
<1> SUFFICES ASSUME Init PROVE IInv
  OBVIOUS
<1>1. TypeOK
  <2>1. 0 \in 0..Workers /\ 0 \in 0..MaxRequests /\ 0 \in 0..0
    BY LifecycleAssumption
  <2>2. at \in [Actor -> {"idle"} \cup InStart \cup InStop \cup InMain]
    BY DEF Init, InStart, InStop, InMain
  <2>3. gen \in [Actor -> 0..gens] /\ left \in [Actor -> 0..Workers]
    BY <2>1 DEF Init
  <2> QED BY <2>1, <2>2, <2>3 DEF Init, TypeOK
<1>2. /\ Main \in Actor /\ Main \notin Caller
      /\ \A a \in Actor : at[a] = IF a # Main THEN "idle" ELSE IF AutoStart THEN "start" ELSE "serve"
  BY LifecycleAssumption DEF Init, Actor
<1>3. HasContext /\ OneCall /\ CallOK /\ ShutdownOK
  BY <1>2 DEF HasContext, OneCall, Resting, CallOK, ShutdownOK
<1>4. PlacesOK
  BY <1>2 DEF PlacesOK, Actor
<1>5. StatusTells /\ OneGeneration
  BY DEF Init, StatusTells, OneGeneration
<1> QED BY <1>1, <1>3, <1>4, <1>5 DEF IInv, Disciplined

-----------------------------------------------------------------------------
(* Type and contexts.                                                      *)

\* Steps of a Start keep the type.
LEMMA StartType ==
  ASSUME TypeOK, HasContext, NEW a \in Actor, StartStep(a)
  PROVE  TypeOK' /\ HasContext'
<1>1. CASE StartCheck(a)
  BY <1>1 DEF TypeOK, HasContext, StartCheck, Return, Goto, local, InStart, InStop, InMain
<1>2. CASE StartCancel(a)
  <2>1. /\ gens' = gens + 1 /\ cancel' = gens + 1 /\ gen' = [gen EXCEPT ![a] = gens + 1]
        /\ at' = [at EXCEPT ![a] = "start.run"]
        /\ UNCHANGED <<status, cancelled, alive, left, buffer, requests>>
    BY <1>2 DEF StartCancel, Goto
  <2>2. gens \in Nat /\ gens + 1 \in Nat /\ 0..gens \subseteq 0..(gens + 1) /\ 1..gens \subseteq 1..(gens + 1)
    BY DEF TypeOK
  <2>3. gen' \in [Actor -> 0..(gens + 1)] /\ at' \in [Actor -> {"idle"} \cup InStart \cup InStop \cup InMain]
    BY <2>1, <2>2 DEF TypeOK, InStart
  <2>4. alive' \subseteq (1..(gens + 1)) \X (1..Workers) /\ cancelled' \subseteq 1..(gens + 1)
    BY <2>1, <2>2 DEF TypeOK
  <2>5. TypeOK'
    BY <2>1, <2>2, <2>3, <2>4 DEF TypeOK, InStart, InStop, InMain
  <2>6. HasContext'
    BY <2>1, <2>2 DEF TypeOK, HasContext
  <2> QED BY <2>5, <2>6
<1>3. CASE StartRun(a)
  BY <1>3, LifecycleAssumption DEF TypeOK, HasContext, StartRun, Goto, local, InStart, InStop, InMain
<1>4. CASE StartSpawn(a)
  <2>1. CASE left[a] = 0
    BY <1>4, <2>1 DEF TypeOK, HasContext, StartSpawn, Return, Goto, local, InStart, InStop, InMain
  <2>2. CASE left[a] # 0
    <3>1. gen[a] \in 1..gens /\ left[a] \in 1..Workers
      BY <1>4, <2>2, LifecycleAssumption DEF TypeOK, HasContext, StartSpawn
    <3>2. /\ alive' = alive \cup {<<gen[a], left[a]>>} /\ left' = [left EXCEPT ![a] = @ - 1]
          /\ UNCHANGED <<status, gens, cancel, cancelled, at, gen, buffer, requests>>
      BY <1>4, <2>2 DEF StartSpawn
    <3>3. alive' \subseteq (1..gens) \X (1..Workers)
      <4>1. <<gen[a], left[a]>> \in (1..gens) \X (1..Workers)
        BY <3>1
      <4>2. alive \subseteq (1..gens) \X (1..Workers)
        BY DEF TypeOK
      <4> QED BY <3>2, <4>1, <4>2, Zenon
    <3>4. left' \in [Actor -> 0..Workers]
      BY <3>1, <3>2, LifecycleAssumption DEF TypeOK
    <3> QED BY <3>2, <3>3, <3>4 DEF TypeOK, HasContext
  <2> QED BY <2>1, <2>2
<1> QED BY <1>1, <1>2, <1>3, <1>4 DEF StartStep

Places == {"idle"} \cup InStart \cup InStop \cup InMain

\* Going to a place at which no context is needed.
LEMMA MoveType ==
  ASSUME TypeOK, HasContext, NEW a \in Actor, NEW p \in Places \ {"start.run", "start.spawn"},
         Goto(a, p), UNCHANGED <<gens, gen, left>>
  PROVE  /\ at' \in [Actor -> {"idle"} \cup InStart \cup InStop \cup InMain]
         /\ gen' \in [Actor -> 0..gens'] /\ left' \in [Actor -> 0..Workers]
         /\ HasContext'
<1>1. at' = [at EXCEPT ![a] = p] /\ at \in [Actor -> Places]
  BY DEF Goto, TypeOK, Places
<1>2. at' \in [Actor -> Places]
  BY <1>1
<1>3. HasContext'
  BY <1>1 DEF HasContext
<1> QED BY <1>2, <1>3 DEF TypeOK, Places

\* Steps of a Stop keep the type.
LEMMA StopType ==
  ASSUME TypeOK, HasContext, NEW a \in Actor, StopStep(a)
  PROVE  TypeOK' /\ HasContext'
<1>1. /\ \E p \in Places \ {"start.run", "start.spawn"} : Goto(a, p)
      /\ UNCHANGED <<gens, gen, left, cancel, alive, requests>>
  <2>1. {"idle", "api", "stop.mark", "stop.cancel", "stop.wait", "stop.flush", "stop.idle"}
          \subseteq Places \ {"start.run", "start.spawn"}
    BY DEF Places, InStop, InMain
  <2>2. \E p \in {"idle", "api", "stop.mark", "stop.cancel", "stop.wait", "stop.flush", "stop.idle"} :
          Goto(a, p)
    <3>1. CASE StopCheck(a)
      BY <3>1 DEF StopCheck, Return
    <3>2. CASE StopMark(a) \/ StopCancel(a) \/ StopWait(a)
      BY <3>2 DEF StopMark, StopCancel, StopWait
    <3>3. CASE StopFlush(a) \/ StopIdle(a)
      BY <3>3 DEF StopFlush, StopIdle, Return
    <3> QED BY <3>1, <3>2, <3>3 DEF StopStep
  <2>3. UNCHANGED <<gens, gen, left, cancel, alive, requests>>
    BY DEF StopStep, StopCheck, StopMark, StopCancel, StopWait, StopFlush, StopIdle, local
  <2> QED BY <2>1, <2>2, <2>3
<1>2. /\ at' \in [Actor -> {"idle"} \cup InStart \cup InStop \cup InMain]
      /\ gen' \in [Actor -> 0..gens'] /\ left' \in [Actor -> 0..Workers] /\ HasContext'
  BY <1>1, MoveType
<1>3. cancelled' \subseteq 1..gens
  <2>1. {cancel} \ {0} \subseteq 1..gens /\ cancelled \subseteq 1..gens
    BY DEF TypeOK
  <2>2. CASE StopCancel(a)
    BY <2>1, <2>2 DEF StopCancel
  <2>3. CASE ~StopCancel(a)
    BY <2>1, <2>3 DEF StopStep, StopCheck, StopMark, StopWait, StopFlush, StopIdle
  <2> QED BY <2>2, <2>3
<1>4. status' \in {"idle", "running", "stopping"} /\ buffer' \in {"empty", "new", "failed"}
  BY DEF TypeOK, StopStep, StopCheck, StopMark, StopCancel, StopWait, StopFlush, StopIdle, Flush
<1> QED BY <1>1, <1>2, <1>3, <1>4 DEF TypeOK

\* So does a request that is accepted.
LEMMA RequestType ==
  ASSUME TypeOK, HasContext, NEW c \in Caller, StartCrawler(c) \/ StopCrawler(c)
  PROVE  TypeOK' /\ HasContext'
<1>1. c \in Actor
  BY DEF Actor
<1>2. /\ \E p \in Places \ {"start.run", "start.spawn"} : Goto(c, p)
      /\ UNCHANGED <<status, gens, cancel, cancelled, alive, gen, left, buffer>>
  BY DEF StartCrawler, StopCrawler, local, Places, InStart, InStop, InMain
<1>3. requests' \in 0..MaxRequests
  BY LifecycleAssumption DEF TypeOK, StartCrawler, StopCrawler, Accepts
<1>4. /\ at' \in [Actor -> {"idle"} \cup InStart \cup InStop \cup InMain]
      /\ gen' \in [Actor -> 0..gens'] /\ left' \in [Actor -> 0..Workers] /\ HasContext'
  BY <1>1, <1>2, MoveType
<1> QED BY <1>2, <1>3, <1>4 DEF TypeOK

\* So does main.
LEMMA MainType ==
  ASSUME TypeOK, HasContext, Signal \/ MainStep
  PROVE  TypeOK' /\ HasContext'
<1>1. Main \in Actor
  BY DEF Actor
<1>2. /\ \E p \in Places \ {"start.run", "start.spawn"} : Goto(Main, p)
      /\ UNCHANGED <<status, gens, cancel, alive, gen, left, requests>>
  BY DEF Signal, MainStep, ShutdownAPI, CancelMain, FinalFlush, CloseStore, local,
         Places, InStart, InStop, InMain
<1>3. /\ at' \in [Actor -> {"idle"} \cup InStart \cup InStop \cup InMain]
      /\ gen' \in [Actor -> 0..gens'] /\ left' \in [Actor -> 0..Workers] /\ HasContext'
  BY <1>1, <1>2, MoveType
<1>4. cancelled' \subseteq 1..gens /\ buffer' \in {"empty", "new", "failed"}
  <2>1. {gen[Main]} \ {0} \subseteq 1..gens
    BY <1>1 DEF TypeOK
  <2> QED BY <2>1 DEF TypeOK, Signal, MainStep, ShutdownAPI, CancelMain, FinalFlush, CloseStore,
                      Flush
<1> QED BY <1>2, <1>3, <1>4 DEF TypeOK

\* So do the workers and the ticker.
LEMMA BackgroundType ==
  ASSUME TypeOK, HasContext, WorkerWrites \/ TickerFlush \/ \E w \in alive : WorkerExits(w)
  PROVE  TypeOK' /\ HasContext'
<1>1. /\ UNCHANGED <<status, gens, cancel, cancelled, at, gen, left, requests>>
      /\ alive' \subseteq alive /\ buffer' \in {"empty", "new", "failed"}
  BY DEF WorkerWrites, TickerFlush, Flush, WorkerExits, local, TypeOK
<1> QED BY <1>1 DEF TypeOK, HasContext

\* Every step keeps the type.
LEMMA NextType == TypeOK /\ HasContext /\ [Next]_vars => TypeOK' /\ HasContext'
<1> SUFFICES ASSUME TypeOK, HasContext, [Next]_vars PROVE TypeOK' /\ HasContext'
  OBVIOUS
<1>1. CASE UNCHANGED vars
  BY <1>1 DEF vars, TypeOK, HasContext
<1>2. CASE Next
  BY <1>2, StartType, StopType, RequestType, MainType, BackgroundType DEF Next
<1> QED BY <1>1, <1>2

-----------------------------------------------------------------------------
(* One call at a time.                                                     *)

\* A step of a call whose next place is that of the same call, or a rest.
LEMMA CallMoves ==
  ASSUME TypeOK, OneCall, NEW a \in Actor, ~Resting(a), NEW p, Goto(a, p)
  PROVE  /\ at'[a] = p /\ \A b \in Actor \ {a} : at'[b] = at[b] /\ Resting(b)
         /\ OneCall'
BY DEF TypeOK, OneCall, Resting, Goto

\* A call, or the shutdown, begins when all others rest.
LEMMA CallBegins ==
  ASSUME TypeOK, Quiet, NEW a \in Actor, NEW p, Goto(a, p)
  PROVE  /\ at'[a] = p /\ \A b \in Actor \ {a} : at'[b] = at[b] /\ Resting(b)
         /\ OneCall'
BY DEF TypeOK, OneCall, Resting, Goto, Quiet

\* A place of main's own is only reached by main.
LEMMA MainAlone ==
  ASSUME PlacesOK, NEW a \in Actor, at[a] \in {"serve", "api", "cancel", "final", "close", "exited"}
  PROVE  a = Main
BY DEF PlacesOK, Actor, InStart, InStop

\* An engine that does not run, and whose Start or Stop nobody but a has begun,
\* is idle unless a is in Stop.
LEMMA IdleKnown ==
  ASSUME OneCall, StatusTells, NEW a \in Actor, ~Resting(a), status # "running",
         status \in {"idle", "running", "stopping"},
         at[a] \notin {"stop.cancel", "stop.wait", "stop.flush", "stop.idle"}
  PROVE  status = "idle" /\ alive = {}
BY DEF OneCall, StatusTells, Resting

\* Start keeps the discipline.
LEMMA StartDisciplined ==
  ASSUME TypeOK, HasContext, Disciplined, NEW a \in Actor, StartStep(a)
  PROVE  Disciplined'
<1> USE DEF Disciplined
<1>1. ~Resting(a) /\ Main \in Actor /\ Main \notin Caller
  BY LifecycleAssumption DEF StartStep, StartCheck, StartCancel, StartRun, StartSpawn, Resting, Actor
<1>2. CASE StartCheck(a)
  <2>1. CASE status = "running"
    <3>1. /\ Goto(a, IF a = Main THEN "serve" ELSE "idle")
          /\ UNCHANGED <<status, gens, cancel, cancelled, alive, gen, left, buffer, requests>>
      BY <1>2, <2>1 DEF StartCheck, Return, local
    <3>2. /\ at'[a] = (IF a = Main THEN "serve" ELSE "idle") /\ OneCall'
          /\ \A b \in Actor \ {a} : at'[b] = at[b] /\ Resting(b)
      BY <1>1, <3>1, CallMoves
    <3> QED BY <1>1, <2>1, <3>1, <3>2
            DEF PlacesOK, StatusTells, OneGeneration, CallOK, ShutdownOK, Actor, Resting
  <2>2. CASE status # "running"
    <3>1. /\ Goto(a, "start.cancel")
          /\ UNCHANGED <<status, gens, cancel, cancelled, alive, gen, left, buffer, requests>>
      BY <1>2, <2>2 DEF StartCheck, local
    <3>2. /\ at'[a] = "start.cancel" /\ OneCall'
          /\ \A b \in Actor \ {a} : at'[b] = at[b] /\ Resting(b)
      BY <1>1, <3>1, CallMoves
    <3>3. status = "idle" /\ alive = {}
      BY <1>1, <1>2, <2>2, IdleKnown DEF StartCheck, TypeOK
    <3> QED BY <1>1, <3>1, <3>2, <3>3
            DEF PlacesOK, StatusTells, OneGeneration, CallOK, ShutdownOK, Actor, Resting, InStart
  <2> QED BY <2>1, <2>2
<1>3. CASE StartCancel(a)
  <2>1. /\ Goto(a, "start.run") /\ cancel' = gens + 1 /\ gen' = [gen EXCEPT ![a] = gens + 1]
        /\ UNCHANGED <<status, alive, left, buffer>> /\ at[a] = "start.cancel"
    BY <1>3 DEF StartCancel
  <2>2. /\ at'[a] = "start.run" /\ OneCall'
        /\ \A b \in Actor \ {a} : at'[b] = at[b] /\ Resting(b)
    BY <1>1, <2>1, CallMoves
  <2>3. status = "idle" /\ alive = {} /\ gen'[a] = cancel'
    BY <2>1 DEF CallOK, StatusTells, TypeOK
  <2> QED BY <1>1, <2>1, <2>2, <2>3
          DEF PlacesOK, StatusTells, OneGeneration, CallOK, ShutdownOK, Actor, Resting, InStart
<1>4. CASE StartRun(a)
  <2>1. /\ Goto(a, "start.spawn") /\ status' = "running" /\ at[a] = "start.run"
        /\ UNCHANGED <<cancel, gen, alive, buffer>>
    BY <1>4 DEF StartRun
  <2>2. /\ at'[a] = "start.spawn" /\ OneCall'
        /\ \A b \in Actor \ {a} : at'[b] = at[b] /\ Resting(b)
    BY <1>1, <2>1, CallMoves
  <2> QED BY <1>1, <2>1, <2>2
          DEF PlacesOK, StatusTells, OneGeneration, CallOK, ShutdownOK, Actor, Resting, InStart
<1>5. CASE StartSpawn(a)
  <2>1. at[a] = "start.spawn" /\ status = "running" /\ gen[a] = cancel
    BY <1>5 DEF StartSpawn, CallOK
  <2>2. CASE left[a] = 0
    <3>1. /\ Goto(a, IF a = Main THEN "serve" ELSE "idle")
          /\ UNCHANGED <<status, cancel, gen, alive, buffer>>
      BY <1>5, <2>2 DEF StartSpawn, Return
    <3>2. /\ at'[a] = (IF a = Main THEN "serve" ELSE "idle") /\ OneCall'
          /\ \A b \in Actor \ {a} : at'[b] = at[b] /\ Resting(b)
      BY <1>1, <3>1, CallMoves
    <3> QED BY <1>1, <2>1, <3>1, <3>2
            DEF PlacesOK, StatusTells, OneGeneration, CallOK, ShutdownOK, Actor, Resting
  <2>3. CASE left[a] # 0
    <3>1. alive' = alive \cup {<<cancel, left[a]>>} /\ UNCHANGED <<status, cancel, gen, at, buffer>>
      BY <1>5, <2>1, <2>3 DEF StartSpawn
    <3>2. OneGeneration'
      BY <3>1 DEF OneGeneration
    <3>3. \A b \in Actor \ {a} : Resting(b)
      BY <1>1 DEF OneCall
    <3> QED BY <1>1, <2>1, <3>1, <3>2, <3>3
            DEF PlacesOK, OneCall, StatusTells, CallOK, ShutdownOK, Resting
  <2> QED BY <2>2, <2>3
<1> QED BY <1>2, <1>3, <1>4, <1>5 DEF StartStep

\* Stop keeps the discipline.
LEMMA StopDisciplined ==
  ASSUME TypeOK, Disciplined, NEW a \in Actor, StopStep(a)
  PROVE  Disciplined'
<1> USE DEF Disciplined
<1>1. ~Resting(a) /\ Main \in Actor /\ Main \notin Caller
  BY LifecycleAssumption DEF StopStep, StopCheck, StopMark, StopCancel, StopWait, StopFlush, StopIdle,
                             Resting, Actor
<1>2. CASE StopCheck(a)
  <2>1. CASE status # "running"
    <3>1. /\ Goto(a, IF a = Main THEN "api" ELSE "idle") /\ UNCHANGED <<status, cancel, alive, gen, buffer>>
      BY <1>2, <2>1 DEF StopCheck, Return, local
    <3>2. /\ at'[a] = (IF a = Main THEN "api" ELSE "idle") /\ OneCall'
          /\ \A b \in Actor \ {a} : at'[b] = at[b] /\ Resting(b)
      BY <1>1, <3>1, CallMoves
    <3>3. status = "idle" /\ alive = {}
      BY <1>1, <1>2, <2>1, IdleKnown DEF StopCheck, TypeOK
    <3> QED BY <1>1, <3>1, <3>2, <3>3
            DEF PlacesOK, StatusTells, OneGeneration, CallOK, ShutdownOK, Actor, Resting
  <2>2. CASE status = "running"
    <3>1. Goto(a, "stop.mark") /\ UNCHANGED <<status, cancel, alive, gen, buffer>>
      BY <1>2, <2>2 DEF StopCheck, local
    <3>2. /\ at'[a] = "stop.mark" /\ OneCall'
          /\ \A b \in Actor \ {a} : at'[b] = at[b] /\ Resting(b)
      BY <1>1, <3>1, CallMoves
    <3> QED BY <1>1, <2>2, <3>1, <3>2
            DEF PlacesOK, StatusTells, OneGeneration, CallOK, ShutdownOK, Actor, Resting, InStop
  <2> QED BY <2>1, <2>2
<1>3. CASE StopMark(a)
  <2>1. Goto(a, "stop.cancel") /\ status' = "stopping" /\ UNCHANGED <<cancel, alive, gen, buffer>>
    BY <1>3 DEF StopMark, local
  <2>2. /\ at'[a] = "stop.cancel" /\ OneCall'
        /\ \A b \in Actor \ {a} : at'[b] = at[b] /\ Resting(b)
    BY <1>1, <2>1, CallMoves
  <2> QED BY <1>1, <2>1, <2>2
          DEF PlacesOK, StatusTells, OneGeneration, CallOK, ShutdownOK, Actor, Resting, InStop
<1>4. CASE StopCancel(a)
  <2>1. /\ Goto(a, "stop.wait") /\ at[a] = "stop.cancel"
        /\ UNCHANGED <<status, cancel, alive, gen, buffer>>
    BY <1>4 DEF StopCancel, local
  <2>2. /\ at'[a] = "stop.wait" /\ OneCall'
        /\ \A b \in Actor \ {a} : at'[b] = at[b] /\ Resting(b)
    BY <1>1, <2>1, CallMoves
  <2> QED BY <1>1, <2>1, <2>2
          DEF PlacesOK, StatusTells, OneGeneration, CallOK, ShutdownOK, Actor, Resting, InStop
<1>5. CASE StopWait(a)
  <2>1. /\ Goto(a, "stop.flush") /\ at[a] = "stop.wait" /\ alive = {}
        /\ UNCHANGED <<status, cancel, alive, gen, buffer>>
    BY <1>5 DEF StopWait, local
  <2>2. /\ at'[a] = "stop.flush" /\ OneCall'
        /\ \A b \in Actor \ {a} : at'[b] = at[b] /\ Resting(b)
    BY <1>1, <2>1, CallMoves
  <2> QED BY <1>1, <2>1, <2>2
          DEF PlacesOK, StatusTells, OneGeneration, CallOK, ShutdownOK, Actor, Resting, InStop
<1>6. CASE StopFlush(a)
  <2>1. /\ Goto(a, "stop.idle") /\ at[a] = "stop.flush"
        /\ UNCHANGED <<status, cancel, alive, gen>>
    BY <1>6 DEF StopFlush, local
  <2>2. /\ at'[a] = "stop.idle" /\ OneCall'
        /\ \A b \in Actor \ {a} : at'[b] = at[b] /\ Resting(b)
    BY <1>1, <2>1, CallMoves
  <2> QED BY <1>1, <2>1, <2>2
          DEF PlacesOK, StatusTells, OneGeneration, CallOK, ShutdownOK, Actor, Resting, InStop
<1>7. CASE StopIdle(a)
  <2>1. /\ Goto(a, IF a = Main THEN "api" ELSE "idle") /\ at[a] = "stop.idle" /\ status' = "idle"
        /\ UNCHANGED <<cancel, alive, gen, buffer>>
    BY <1>7 DEF StopIdle, Return, local
  <2>2. /\ at'[a] = (IF a = Main THEN "api" ELSE "idle") /\ OneCall'
        /\ \A b \in Actor \ {a} : at'[b] = at[b] /\ Resting(b)
    BY <1>1, <2>1, CallMoves
  <2>3. alive = {}
    BY <2>1 DEF CallOK
  <2> QED BY <1>1, <2>1, <2>2, <2>3
          DEF PlacesOK, StatusTells, OneGeneration, CallOK, ShutdownOK, Actor, Resting
<1> QED BY <1>2, <1>3, <1>4, <1>5, <1>6, <1>7 DEF StopStep

\* A request or a signal that waits until nobody is busy keeps it.
LEMMA BeginDisciplined ==
  ASSUME TypeOK, Disciplined, Patient, Signal \/ \E c \in Caller : StartCrawler(c) \/ StopCrawler(c)
  PROVE  Disciplined'
<1> USE DEF Disciplined
<1>1. PICK a \in Actor, p \in {"start", "stop"} :
        /\ Goto(a, p) /\ Quiet /\ (a = Main => p = "stop")
        /\ UNCHANGED <<status, cancel, alive, gen, buffer>>
  <2>1. CASE Signal
    BY <2>1 DEF Signal, Actor, local
  <2>2. ASSUME NEW c \in Caller, StartCrawler(c) \/ StopCrawler(c)
        PROVE  /\ c \in Actor /\ c # Main /\ Quiet /\ (Goto(c, "start") \/ Goto(c, "stop"))
               /\ UNCHANGED <<status, cancel, alive, gen, buffer>>
    BY <2>2, LifecycleAssumption DEF StartCrawler, StopCrawler, Accepts, Actor, local
  <2> QED BY <2>1, <2>2
<1>2. /\ at'[a] = p /\ OneCall' /\ \A b \in Actor \ {a} : at'[b] = at[b] /\ Resting(b)
  BY <1>1, CallBegins
<1>3. Main \in Actor /\ Main \notin Caller /\ status # "stopping"
  BY <1>1, LifecycleAssumption DEF Actor, StatusTells, Quiet
<1> QED BY <1>1, <1>2, <1>3
        DEF PlacesOK, StatusTells, OneGeneration, CallOK, ShutdownOK, Actor, Resting, InStart, InStop

\* The shutdown keeps it.
LEMMA MainDisciplined ==
  ASSUME TypeOK, Disciplined, MainStep
  PROVE  Disciplined'
<1> USE DEF Disciplined
<1>1. ~Resting(Main) /\ Main \in Actor /\ Main \notin Caller
  BY LifecycleAssumption DEF MainStep, ShutdownAPI, CancelMain, FinalFlush, CloseStore, Resting, Actor
<1>2. PICK p \in {"cancel", "final", "close", "exited"} :
        /\ Goto(Main, p) /\ at[Main] \in {"api", "cancel", "final", "close"}
        /\ p \in {"close", "exited"} => buffer' # "new"
        /\ UNCHANGED <<status, cancel, alive, gen>>
  BY DEF MainStep, ShutdownAPI, CancelMain, FinalFlush, CloseStore, local, ShutdownOK, Flush
<1>3. /\ at'[Main] = p /\ OneCall' /\ \A b \in Actor \ {Main} : at'[b] = at[b] /\ Resting(b)
  BY <1>1, <1>2, CallMoves
<1> QED BY <1>1, <1>2, <1>3
        DEF PlacesOK, StatusTells, OneGeneration, CallOK, ShutdownOK, Actor, Resting

\* So do the workers and the ticker: an idle engine has nobody who writes.
LEMMA BackgroundDisciplined ==
  ASSUME TypeOK, Disciplined, WorkerWrites \/ TickerFlush \/ \E w \in alive : WorkerExits(w)
  PROVE  Disciplined'
<1> USE DEF Disciplined
<1>1. UNCHANGED <<status, cancel, gen, at>> /\ alive' \subseteq alive
  BY DEF WorkerWrites, TickerFlush, WorkerExits, local
<1>2. at[Main] \in {"close", "exited"} => buffer' # "new"
  BY DEF WorkerWrites, TickerFlush, Flush, WorkerExits, ShutdownOK, StatusTells
<1> QED BY <1>1, <1>2
        DEF PlacesOK, OneCall, StatusTells, OneGeneration, CallOK, ShutdownOK, Resting

-----------------------------------------------------------------------------
(* The theorems.                                                           *)

\* Every step keeps the invariant.
LEMMA NextInv == IInv /\ [Next]_vars => IInv'
<1> SUFFICES ASSUME IInv, [Next]_vars PROVE IInv'
  OBVIOUS
<1>1. TypeOK' /\ HasContext'
  BY NextType DEF IInv
<1>2. ASSUME Patient PROVE Disciplined'
  <2>1. TypeOK /\ HasContext /\ Disciplined
    BY <1>2 DEF IInv
  <2>2. CASE UNCHANGED vars
    BY <2>1, <2>2 DEF vars, local, Disciplined, PlacesOK, OneCall, StatusTells, OneGeneration, CallOK,
                      ShutdownOK, Resting
  <2>3. CASE Next
    BY <1>2, <2>1, <2>3, StartDisciplined, StopDisciplined, BeginDisciplined, MainDisciplined,
       BackgroundDisciplined DEF Next
  <2> QED BY <2>2, <2>3
<1> QED BY <1>1, <1>2 DEF IInv

\* The invariant holds in every reachable state.
LEMMA Invariant == Spec => []IInv
<1>1. Init => IInv
  BY InitInv
<1>2. IInv /\ [Next]_vars => IInv'
  BY NextInv
<1> QED BY <1>1, <1>2, PTL DEF Spec

\* The state of the life cycle keeps its type: every worker belongs to a context
\* that Start has made, and has one of the configured indices.
THEOREM LifecycleTypeCorrect == Spec => []TypeOK
<1>1. IInv => TypeOK
  BY DEF IInv
<1> QED BY <1>1, Invariant, PTL

\* When calls of Start and Stop do not overlap there are never more workers than
\* configured (config.go:67), however often the crawler is stopped and started.
THEOREM WorkersLimited == Spec => [](Patient => WorkerLimit)
<1>1. ASSUME IInv, Patient PROVE WorkerLimit
  <2>1. OneGeneration /\ alive \subseteq (1..gens) \X (1..Workers) /\ Workers \in Nat
    BY <1>1, LifecycleAssumption DEF IInv, TypeOK, Disciplined
  <2> DEFINE index == [w \in alive |-> w[2]]
  <2>2. index \in Injection(alive, 1..Workers)
    <3>1. \A w \in alive : w = <<cancel, w[2]>> /\ w[2] \in 1..Workers
      BY <2>1 DEF OneGeneration
    <3>2. index \in [alive -> 1..Workers]
      BY <3>1
    <3>3. ASSUME NEW v \in alive, NEW w \in alive, index[v] = index[w] PROVE v = w
      BY <3>1, <3>3
    <3> HIDE DEF index
    <3> QED BY <3>2, <3>3 DEF Injection, IsInjective
  <2> HIDE DEF index
  <2>3. IsFiniteSet(1..Workers) /\ Cardinality(1..Workers) = Workers
    BY <2>1, FS_Interval
  <2>4. Cardinality(alive) <= Cardinality(1..Workers)
    BY <2>2, <2>3, FS_Injection
  <2> QED BY <2>3, <2>4 DEF WorkerLimit
<1>2. IInv => (Patient => WorkerLimit)
  BY <1>1
<1> QED BY <1>2, Invariant, PTL

\* When calls do not overlap, a process that ends has cut off no worker, and the
\* BatchWriter holds nothing that the final flush has not tried to write: whatever
\* flushes fail, a page can only be lost with the failure of the last one.
THEOREM NothingUntried == Spec => [](Patient => NothingForgotten)
<1>1. IInv => (Patient => NothingForgotten)
  BY DEF IInv, Disciplined, ShutdownOK, StatusTells, NothingForgotten
<1> QED BY <1>1, Invariant, PTL
=============================================================================

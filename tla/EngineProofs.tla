----------------------------- MODULE EngineProofs -----------------------------
(* Theorems about Engine, for every set of workers, jobs and render keys.  *)
EXTENDS Engine, SequenceTheorems, TLAPS

-----------------------------------------------------------------------------
(* The inductive invariant.                                                *)

\* A worker has a job in its hands exactly between taking it and being done
\* with it, and what it renders came from the backlog.
HandPlaces ==
  \A w \in Worker :
    /\ hand[w] # NoItem <=> pc[w] \in {"got", "fetch", "wait", "slot", "render"}
    /\ pc[w] \in {"wait", "slot", "render"} => hand[w].key \in RenderKey

\* An idle engine has no worker left.
IdleExited == status = "idle" => \A w \in Worker : pc[w] = "exited"

IInv == TypeOK /\ HandPlaces /\ IdleExited /\ OnePlace /\ BacklogKeys /\ NoStrandedRender

-----------------------------------------------------------------------------
(* The backlog.                                                            *)

\* Appending an item with a new key and a new job.
LEMMA Pushed ==
  ASSUME TypeOK, BacklogKeys, OneItemPerJob,
         NEW x \in Item, x.key \in RenderKey, x.key \notin renderQueued, ~InBacklog(x.job),
         backlog' = Append(backlog, x), renderQueued' = renderQueued \cup {x.key}
  PROVE  /\ backlog' \in Seq(Item) /\ renderQueued' \subseteq RenderKey
         /\ BacklogKeys' /\ OneItemPerJob'
         /\ \A j : InBacklog(j)' <=> InBacklog(j) \/ j = x.job
<1>1. backlog \in Seq(Item) /\ renderQueued \subseteq RenderKey
  BY DEF TypeOK
<1>2. /\ backlog' \in Seq(Item) /\ Len(backlog') = Len(backlog) + 1 /\ Len(backlog) \in Nat
      /\ \A i \in 1..Len(backlog) : backlog'[i] = backlog[i]
      /\ backlog'[Len(backlog) + 1] = x
  BY <1>1, AppendProperties
<1>3. 1..Len(backlog') = 1..Len(backlog) \cup {Len(backlog) + 1}
  BY <1>2
<1>4. BacklogKeys'
  <2>1. renderQueued' = {backlog'[i].key : i \in 1..Len(backlog')}
    BY <1>2, <1>3 DEF BacklogKeys
  <2>2. ASSUME NEW i \in 1..Len(backlog'), NEW j \in 1..Len(backlog'),
               backlog'[i].key = backlog'[j].key
        PROVE  i = j
    BY <2>2, <1>2, <1>3 DEF BacklogKeys
  <2> QED BY <2>1, <2>2 DEF BacklogKeys
<1>5. OneItemPerJob'
  <2>1. ASSUME NEW i \in 1..Len(backlog'), NEW j \in 1..Len(backlog'),
               backlog'[i].job = backlog'[j].job
        PROVE  i = j
    BY <2>1, <1>2, <1>3 DEF OneItemPerJob, InBacklog
  <2> QED BY <2>1 DEF OneItemPerJob
<1>6. \A j : InBacklog(j)' <=> InBacklog(j) \/ j = x.job
  BY <1>2, <1>3 DEF InBacklog
<1> QED BY <1>1, <1>2, <1>4, <1>5, <1>6

\* Taking the first item removes its key and its job, and nothing else.
LEMMA Popped ==
  ASSUME TypeOK, BacklogKeys, OneItemPerJob, backlog # <<>>,
         backlog' = Tail(backlog), renderQueued' = renderQueued \ {Head(backlog).key}
  PROVE  /\ Head(backlog) \in Item /\ Head(backlog).key \in RenderKey
         /\ InBacklog(Head(backlog).job)
         /\ backlog' \in Seq(Item) /\ renderQueued' \subseteq RenderKey
         /\ BacklogKeys' /\ OneItemPerJob'
         /\ \A j : InBacklog(j)' <=> InBacklog(j) /\ j # Head(backlog).job
<1>1. backlog \in Seq(Item) /\ renderQueued \subseteq RenderKey
  BY DEF TypeOK
<1> DEFINE n == Len(backlog)
<1>2. /\ n \in Nat /\ n >= 1 /\ Head(backlog) = backlog[1] /\ backlog[1] \in Item
      /\ backlog' \in Seq(Item) /\ Len(backlog') = n - 1
      /\ \A i \in 1..(n - 1) : backlog'[i] = backlog[i + 1]
  BY <1>1, HeadTailProperties, EmptySeq, ElementOfSeq
<1>3. \A i \in 1..(n - 1) : i + 1 \in 1..n /\ i + 1 # 1
  BY <1>2
<1>4. \A i \in 1..n : i = 1 \/ (i - 1 \in 1..(n - 1) /\ (i - 1) + 1 = i)
  BY <1>2
<1>5. 1 \in 1..n
  BY <1>2
<1>6. \A i \in 1..n : i # 1 => backlog'[i - 1] = backlog[i]
  BY <1>2, <1>4
<1> HIDE DEF n
<1>7. Head(backlog).key \in RenderKey
  BY <1>1, <1>2, <1>5 DEF BacklogKeys, n
<1>8. InBacklog(Head(backlog).job)
  BY <1>2, <1>5 DEF InBacklog, n
<1>9. renderQueued' = {backlog'[i].key : i \in 1..(n - 1)}
  <2>1. ASSUME NEW k \in renderQueued' PROVE k \in {backlog'[i].key : i \in 1..(n - 1)}
    <3>1. k \in renderQueued /\ k # backlog[1].key
      BY <1>2
    <3>2. PICK i \in 1..n : k = backlog[i].key
      BY <3>1 DEF BacklogKeys, n
    <3>3. i # 1
      BY <3>1, <3>2
    <3>4. i - 1 \in 1..(n - 1) /\ backlog'[i - 1] = backlog[i]
      BY <3>2, <3>3, <1>4, <1>6
    <3> QED BY <3>2, <3>4
  <2>2. ASSUME NEW i \in 1..(n - 1) PROVE backlog'[i].key \in renderQueued'
    <3>1. backlog'[i] = backlog[i + 1] /\ i + 1 \in 1..n /\ i + 1 # 1
      BY <1>2, <1>3
    <3>2. backlog[i + 1].key \in renderQueued
      BY <3>1 DEF BacklogKeys, n
    <3>3. backlog[i + 1].key # backlog[1].key
      BY <3>1, <1>5 DEF BacklogKeys, n
    <3> QED BY <3>1, <3>2, <3>3, <1>2
  <2> QED BY <2>1, <2>2
<1>10. \A i, j \in 1..(n - 1) : i + 1 = j + 1 => i = j
  BY <1>2
<1>11. BacklogKeys'
  <2>1. ASSUME NEW i \in 1..(n - 1), NEW j \in 1..(n - 1), backlog'[i].key = backlog'[j].key
        PROVE  i = j
    <3>1. backlog[i + 1].key = backlog[j + 1].key /\ i + 1 \in 1..n /\ j + 1 \in 1..n
      BY <2>1, <1>2, <1>3
    <3>2. i + 1 = j + 1
      BY <3>1 DEF BacklogKeys, n
    <3> QED BY <3>2, <1>10
  <2> QED BY <2>1, <1>2, <1>9 DEF BacklogKeys
<1>12. OneItemPerJob'
  <2>1. ASSUME NEW i \in 1..(n - 1), NEW j \in 1..(n - 1), backlog'[i].job = backlog'[j].job
        PROVE  i = j
    <3>1. backlog[i + 1].job = backlog[j + 1].job /\ i + 1 \in 1..n /\ j + 1 \in 1..n
      BY <2>1, <1>2, <1>3
    <3>2. i + 1 = j + 1
      BY <3>1 DEF OneItemPerJob, n
    <3> QED BY <3>2, <1>10
  <2> QED BY <2>1, <1>2 DEF OneItemPerJob
<1>13. ASSUME NEW j PROVE InBacklog(j)' <=> InBacklog(j) /\ j # Head(backlog).job
  <2>1. ASSUME InBacklog(j)' PROVE InBacklog(j) /\ j # Head(backlog).job
    <3>1. PICK i \in 1..(n - 1) : backlog'[i].job = j
      BY <2>1, <1>2 DEF InBacklog
    <3>2. backlog[i + 1].job = j /\ i + 1 \in 1..n /\ i + 1 # 1
      BY <3>1, <1>2, <1>3
    <3>3. backlog[1].job # j
      BY <3>2, <1>5 DEF OneItemPerJob, n
    <3> QED BY <3>2, <3>3, <1>2 DEF InBacklog, n
  <2>2. ASSUME InBacklog(j), j # Head(backlog).job PROVE InBacklog(j)'
    <3>1. PICK i \in 1..n : backlog[i].job = j
      BY <2>2 DEF InBacklog, n
    <3>2. i # 1
      BY <3>1, <2>2, <1>2
    <3>3. i - 1 \in 1..(n - 1) /\ backlog'[i - 1].job = j
      BY <3>1, <3>2, <1>4, <1>6
    <3> QED BY <3>3, <1>2 DEF InBacklog
  <2> QED BY <2>1, <2>2
<1> QED BY <1>1, <1>2, <1>7, <1>8, <1>9, <1>11, <1>12, <1>13
-----------------------------------------------------------------------------
(* Where the jobs are.                                                     *)

\* An item in a worker's hands is an item.
LEMMA InHand ==
  ASSUME TypeOK, NEW w \in Worker, hand[w] # NoItem
  PROVE  hand[w] \in Item /\ hand[w].job \in Job /\ hand[w].attempts \in 0..BusyRetryMaxAttempts
BY DEF TypeOK, Item

\* NoItem is not an item.
LEMMA NoItemOutside == NoItem \notin Item
BY EngineAssumption DEF Item

\* A step that moves no job.
LEMMA KeepPlaces ==
  ASSUME OnePlace, UNCHANGED <<pending, hand, backlog, open>>
  PROVE  OnePlace'
BY DEF OnePlace, Placed, OneItemPerJob, Holds, InBacklog

\* A worker ends its job.
LEMMA EndPlaces ==
  ASSUME TypeOK, OnePlace, NEW w \in Worker, hand[w] # NoItem,
         hand' = [hand EXCEPT ![w] = NoItem], UNCHANGED <<pending, backlog>>,
         open' = open \ {hand[w].job}
  PROVE  OnePlace'
<1>1. hand[w].job \in Job
  BY InHand
<1>2. \A j : InBacklog(j)' <=> InBacklog(j)
  BY DEF InBacklog
<1>3. \A v \in Worker : \A j : Holds(v, j)' <=> Holds(v, j) /\ v # w
  BY DEF Holds, TypeOK
<1>4. OneItemPerJob'
  BY DEF OnePlace, OneItemPerJob
<1>5. ASSUME NEW j \in Job PROVE Placed(j)'
  <2>1. Placed(j) /\ (Holds(w, j) <=> j = hand[w].job)
    BY DEF OnePlace, Holds
  <2> QED BY <1>2, <1>3, <2>1 DEF Placed
<1> QED BY <1>4, <1>5 DEF OnePlace

\* A worker puts its job back in the queue.
LEMMA RequeuePlaces ==
  ASSUME TypeOK, OnePlace, NEW w \in Worker, hand[w] # NoItem,
         hand' = [hand EXCEPT ![w] = NoItem], UNCHANGED <<open, backlog>>,
         pending' = pending \cup {hand[w].job}
  PROVE  OnePlace'
<1>1. hand[w].job \in Job
  BY InHand
<1>2. \A j : InBacklog(j)' <=> InBacklog(j)
  BY DEF InBacklog
<1>3. \A v \in Worker : \A j : Holds(v, j)' <=> Holds(v, j) /\ v # w
  BY DEF Holds, TypeOK
<1>4. OneItemPerJob'
  BY DEF OnePlace, OneItemPerJob
<1>5. ASSUME NEW j \in Job PROVE Placed(j)'
  <2>1. Placed(j) /\ (Holds(w, j) <=> j = hand[w].job)
    BY DEF OnePlace, Holds
  <2> QED BY <1>2, <1>3, <2>1 DEF Placed
<1> QED BY <1>4, <1>5 DEF OnePlace

\* A worker puts its job in the backlog.
LEMMA PushPlaces ==
  ASSUME TypeOK, OnePlace, NEW w \in Worker, hand[w] # NoItem,
         hand' = [hand EXCEPT ![w] = NoItem], UNCHANGED <<open, pending>>,
         OneItemPerJob', \A j : InBacklog(j)' <=> InBacklog(j) \/ j = hand[w].job
  PROVE  OnePlace'
<1>1. \A v \in Worker : \A j : Holds(v, j)' <=> Holds(v, j) /\ v # w
  BY DEF Holds, TypeOK
<1>2. ASSUME NEW j \in Job PROVE Placed(j)'
  <2>1. Placed(j) /\ (Holds(w, j) <=> j = hand[w].job)
    BY DEF OnePlace, Holds
  <2> QED BY <1>1, <2>1 DEF Placed
<1> QED BY <1>2 DEF OnePlace

\* A worker takes an item from the backlog.
LEMMA PopPlaces ==
  ASSUME TypeOK, OnePlace, NEW w \in Worker, hand[w] = NoItem,
         NEW x \in Item, InBacklog(x.job),
         hand' = [hand EXCEPT ![w] = x], UNCHANGED <<open, pending>>,
         OneItemPerJob', \A j : InBacklog(j)' <=> InBacklog(j) /\ j # x.job
  PROVE  OnePlace'
<1>1. \A v \in Worker : \A j : Holds(v, j)' <=> Holds(v, j) \/ (v = w /\ j = x.job)
  BY NoItemOutside DEF Holds, TypeOK
<1>2. \A j : ~Holds(w, j)
  BY DEF Holds
<1>3. ASSUME NEW j \in Job PROVE Placed(j)'
  <2>1. Placed(j)
    BY DEF OnePlace
  <2> QED BY <1>1, <1>2, <2>1 DEF Placed
<1> QED BY <1>3 DEF OnePlace

\* A worker takes a job from the queue.
LEMMA TakePlaces ==
  ASSUME TypeOK, OnePlace, NEW w \in Worker, hand[w] = NoItem,
         NEW x \in Item, x.job \in pending,
         hand' = [hand EXCEPT ![w] = x], UNCHANGED <<open, backlog>>,
         pending' = pending \ {x.job}
  PROVE  OnePlace'
<1>1. \A v \in Worker : \A j : Holds(v, j)' <=> Holds(v, j) \/ (v = w /\ j = x.job)
  BY NoItemOutside DEF Holds, TypeOK
<1>2. \A j : ~Holds(w, j)
  BY DEF Holds
<1>3. \A j : InBacklog(j)' <=> InBacklog(j)
  BY DEF InBacklog
<1>4. OneItemPerJob'
  BY DEF OnePlace, OneItemPerJob
<1>5. ASSUME NEW j \in Job PROVE Placed(j)'
  <2>1. Placed(j)
    BY DEF OnePlace
  <2> QED BY <1>1, <1>2, <1>3, <2>1 DEF Placed
<1> QED BY <1>4, <1>5 DEF OnePlace

\* A worker is done with its job and puts the jobs of new links in the queue.
LEMMA LinkPlaces ==
  ASSUME TypeOK, OnePlace, NEW w \in Worker, hand[w] # NoItem,
         NEW links \in SUBSET Free, open' = (open \ {hand[w].job}) \cup links,
         pending' = pending \cup links,
         hand' = [hand EXCEPT ![w] = NoItem], UNCHANGED backlog
  PROVE  OnePlace'
<1>1. hand[w].job \in Job /\ Holds(w, hand[w].job)
  BY InHand DEF Holds
<1>2. hand[w].job \in open
  BY <1>1 DEF OnePlace, Placed
<1>3. hand[w].job \notin links
  BY <1>2 DEF Free
<1>4. \A j : InBacklog(j)' <=> InBacklog(j)
  BY DEF InBacklog
<1>5. \A v \in Worker : \A j : Holds(v, j)' <=> Holds(v, j) /\ v # w
  BY DEF Holds, TypeOK
<1>6. OneItemPerJob'
  BY DEF OnePlace, OneItemPerJob
<1>7. ASSUME NEW j \in Job PROVE Placed(j)'
  <2>1. Placed(j) /\ (Holds(w, j) <=> j = hand[w].job)
    BY DEF OnePlace, Holds
  <2>2. j \in links => j \notin open
    BY DEF Free
  <2>3. CASE j = hand[w].job
    BY <1>3, <1>4, <1>5, <2>1, <2>3 DEF Placed
  <2>4. CASE j # hand[w].job
    BY <1>3, <1>4, <1>5, <2>1, <2>2, <2>4 DEF Placed
  <2> QED BY <2>3, <2>4
<1> QED BY <1>6, <1>7 DEF OnePlace
-----------------------------------------------------------------------------
(* The steps with which a worker comes back to the top of its loop.        *)

\* The worker's own state, and the reason no render is stranded.
LEMMA BackToTop ==
  ASSUME TypeOK, HandPlaces, IdleExited, NEW w \in Worker, pc[w] # "exited",
         LetGo(w), Goto(w, "top") \/ pc' = Broadcast(w, "top"), UNCHANGED status
  PROVE  /\ pc' \in [Worker -> PC] /\ hand' \in [Worker -> Item \cup {NoItem}]
         /\ HandPlaces' /\ IdleExited' /\ NoStrandedRender'
<1>1. /\ pc' \in [Worker -> PC] /\ pc'[w] = "top"
      /\ \A v \in Worker \ {w} :
           \/ pc'[v] = pc[v]
           \/ pc[v] = "parked" /\ pc'[v] = "dequeue"
  BY DEF TypeOK, Goto, Broadcast, PC
<1>2. /\ hand' \in [Worker -> Item \cup {NoItem}] /\ hand'[w] = NoItem
      /\ \A v \in Worker \ {w} : hand'[v] = hand[v]
  BY DEF TypeOK, LetGo
<1>3. HandPlaces'
  BY <1>1, <1>2 DEF HandPlaces
<1>4. IdleExited'
  BY DEF IdleExited
<1>5. NoStrandedRender'
  BY <1>1 DEF NoStrandedRender, Active
<1> QED BY <1>1, <1>2, <1>3, <1>4, <1>5

\* The job comes to an end.
LEMMA EndInv ==
  ASSUME IInv, NEW w \in Worker, hand[w] # NoItem, open' = open \ {hand[w].job},
         LetGo(w), Goto(w, "top"), ready' \subseteq Domain,
         UNCHANGED <<life, pending, backlog, renderQueued, retries>>
  PROVE  IInv'
<1>1. TypeOK /\ HandPlaces /\ IdleExited /\ pc[w] # "exited" /\ OnePlace
  BY DEF IInv, HandPlaces
<1>2. /\ pc' \in [Worker -> PC] /\ hand' \in [Worker -> Item \cup {NoItem}]
      /\ HandPlaces' /\ IdleExited' /\ NoStrandedRender'
  BY <1>1, BackToTop DEF life
<1>3. TypeOK'
  BY <1>1, <1>2, InHand DEF TypeOK, life
<1>4. OnePlace'
  BY <1>1, EndPlaces DEF LetGo
<1>5. BacklogKeys'
  BY DEF IInv, BacklogKeys
<1> QED BY <1>2, <1>3, <1>4, <1>5 DEF IInv

\* retryOrFail, whoever calls it.
LEMMA RetryInv ==
  ASSUME IInv, NEW w \in Worker, hand[w] # NoItem, retryOrFail(w, hand[w].job),
         LetGo(w), ready' \subseteq Domain,
         UNCHANGED <<life, backlog, renderQueued>>
  PROVE  IInv'
<1> DEFINE j == hand[w].job
<1>1. TypeOK /\ HandPlaces /\ IdleExited /\ pc[w] # "exited" /\ OnePlace
  BY DEF IInv, HandPlaces
<1>2. j \in Job
  BY <1>1, InHand
<1>3. CASE retries[j] < MaxRetries
  <2>1. /\ retries' = [retries EXCEPT ![j] = @ + 1] /\ pending' = pending \cup {j}
        /\ pc' = Broadcast(w, "top") /\ UNCHANGED open
    BY <1>3 DEF retryOrFail
  <2>2. /\ pc' \in [Worker -> PC] /\ hand' \in [Worker -> Item \cup {NoItem}]
        /\ HandPlaces' /\ IdleExited' /\ NoStrandedRender'
    BY <1>1, <2>1, BackToTop DEF life
  <2>3. retries' \in [Job -> 0..MaxRetries]
    BY <1>1, <1>2, <1>3, <2>1, EngineAssumption DEF TypeOK
  <2>4. TypeOK'
    BY <1>1, <1>2, <2>1, <2>2, <2>3 DEF TypeOK, life
  <2>5. OnePlace'
    BY <1>1, <2>1, RequeuePlaces DEF LetGo
  <2>6. BacklogKeys'
    BY DEF IInv, BacklogKeys
  <2> QED BY <2>2, <2>4, <2>5, <2>6 DEF IInv
<1>4. CASE ~(retries[j] < MaxRetries)
  <2>1. open' = open \ {j} /\ Goto(w, "top") /\ UNCHANGED <<retries, pending>>
    BY <1>4 DEF retryOrFail
  <2> QED BY <2>1, EndInv
<1> QED BY <1>3, <1>4

\* The job goes to the backlog, or an item with its key stands for it.
LEMMA PushInv ==
  ASSUME IInv, NEW w \in Worker, hand[w] # NoItem,
         NEW x \in Item, x.job = hand[w].job, x.key \in RenderKey,
         pushRenderBacklog(w, x), LetGo(w), Goto(w, "top"),
         UNCHANGED <<life, pending, ready, retries>>
  PROVE  IInv'
<1>1. TypeOK /\ HandPlaces /\ IdleExited /\ pc[w] # "exited" /\ OnePlace /\ BacklogKeys
  BY DEF IInv, HandPlaces
<1>2. CASE x.key \in renderQueued
  <2>1. open' = open \ {hand[w].job} /\ UNCHANGED <<backlog, renderQueued>>
    BY <1>2 DEF pushRenderBacklog
  <2>2. ready' \subseteq Domain
    BY <1>1 DEF TypeOK
  <2> QED BY <2>1, <2>2, EndInv
<1>3. CASE x.key \notin renderQueued
  <2>1. /\ renderQueued' = renderQueued \cup {x.key} /\ backlog' = Append(backlog, x)
        /\ UNCHANGED open
    BY <1>3 DEF pushRenderBacklog
  <2>2. Holds(w, x.job) /\ x.job \in Job
    BY <1>1, InHand DEF Holds
  <2>3. ~InBacklog(x.job) /\ OneItemPerJob
    BY <1>1, <2>2 DEF OnePlace, Placed
  <2>4. /\ backlog' \in Seq(Item) /\ renderQueued' \subseteq RenderKey
        /\ BacklogKeys' /\ OneItemPerJob'
        /\ \A j : InBacklog(j)' <=> InBacklog(j) \/ j = x.job
    BY <1>1, <1>3, <2>1, <2>3, Pushed
  <2>5. /\ pc' \in [Worker -> PC] /\ hand' \in [Worker -> Item \cup {NoItem}]
        /\ HandPlaces' /\ IdleExited' /\ NoStrandedRender'
    BY <1>1, BackToTop DEF life
  <2>6. OnePlace'
    BY <1>1, <2>1, <2>4, PushPlaces DEF LetGo
  <2>7. TypeOK'
    BY <1>1, <2>1, <2>4, <2>5 DEF TypeOK, life
  <2> QED BY <2>4, <2>5, <2>6, <2>7 DEF IInv
<1> QED BY <1>2, <1>3

-----------------------------------------------------------------------------
(* The actions.                                                            *)

\* Steps of the loop that move no job.
LEMMA QuietInv ==
  ASSUME IInv, NEW w \in Worker,
         Top(w) \/ CheckContext(w) \/ Park(w) \/ NothingPending(w) \/ StartRender(w)
  PROVE  IInv'
<1>1. TypeOK /\ HandPlaces /\ IdleExited /\ OnePlace /\ NoStrandedRender
  BY DEF IInv
<1>2. UNCHANGED <<life, pools, hand, retries, open>>
  BY DEF Top, CheckContext, Park, NothingPending, StartRender
<1>3. PICK p \in PC : pc' = [pc EXCEPT ![w] = p]
  BY DEF Top, CheckContext, Park, NothingPending, StartRender, Goto, PC
<1>4. /\ pc[w] \in {"top", "dequeue", "select", "wait", "slot"}
      /\ p \in {"got", "fetch", "wait", "slot", "render"} <=> pc[w] \in {"wait", "slot"}
      /\ pc[w] \in {"wait", "slot"} => p \in {"slot", "render"}
      /\ pc[w] \in {"top", "wait", "slot"} /\ status = "running" /\ pending = {} => p \in Active
  BY <1>1, <1>3 DEF Top, CheckContext, Park, NothingPending, StartRender, Goto, PC, TypeOK,
                    Cancelled, Active
<1>5. TypeOK'
  BY <1>1, <1>2, <1>3 DEF TypeOK, life, pools
<1>6. HandPlaces'
  BY <1>1, <1>2, <1>3, <1>4 DEF HandPlaces, TypeOK
<1>7. IdleExited'
  BY <1>1, <1>2, <1>4 DEF IdleExited, life
<1>8. OnePlace'
  BY <1>1, <1>2, KeepPlaces DEF pools
<1>9. BacklogKeys'
  BY <1>2 DEF IInv, BacklogKeys, pools
<1>10. NoStrandedRender'
  <2> SUFFICES ASSUME status = "running", pending = {}, backlog # <<>>
               PROVE  \E v \in Worker : pc'[v] \in Active
    BY <1>2 DEF NoStrandedRender, life, pools
  <2>1. PICK v \in Worker : pc[v] \in Active
    BY <1>1 DEF NoStrandedRender
  <2>2. CASE v = w
    BY <2>1, <2>2, <1>1, <1>3, <1>4 DEF TypeOK, Active
  <2>3. CASE v # w
    BY <2>1, <2>3, <1>1, <1>3 DEF TypeOK
  <2> QED BY <2>2, <2>3
<1> QED BY <1>5, <1>6, <1>7, <1>8, <1>9, <1>10 DEF IInv
\* A worker takes the first render item, or finds none.
LEMMA PopInv ==
  ASSUME IInv, NEW w \in Worker, popRenderBacklog(w) PROVE IInv'
<1>1. TypeOK /\ HandPlaces /\ IdleExited /\ OnePlace /\ NoStrandedRender /\ BacklogKeys
  BY DEF IInv
<1>2. /\ pc[w] = "pop" /\ hand[w] = NoItem /\ status # "idle"
      /\ UNCHANGED <<life, pending, ready, retries, open>>
  BY <1>1 DEF popRenderBacklog, HandPlaces, IdleExited
<1>3. IdleExited'
  BY <1>2 DEF IdleExited, life
<1>4. CASE backlog = <<>>
  <2>1. pc' = [pc EXCEPT ![w] = "dequeue"] /\ UNCHANGED <<hand, backlog, renderQueued>>
    BY <1>4 DEF popRenderBacklog, Goto
  <2>2. TypeOK' /\ HandPlaces'
    BY <1>1, <1>2, <2>1 DEF TypeOK, PC, HandPlaces, life
  <2>3. OnePlace' /\ BacklogKeys' /\ NoStrandedRender'
    BY <1>1, <1>2, <1>4, <2>1, KeepPlaces DEF BacklogKeys, NoStrandedRender
  <2> QED BY <1>3, <2>2, <2>3 DEF IInv
<1>5. CASE backlog # <<>>
  <2>1. /\ pc' = [pc EXCEPT ![w] = "wait"] /\ hand' = [hand EXCEPT ![w] = Head(backlog)]
        /\ backlog' = Tail(backlog) /\ renderQueued' = renderQueued \ {Head(backlog).key}
    BY <1>5 DEF popRenderBacklog, Goto
  <2>2. /\ Head(backlog) \in Item /\ Head(backlog).key \in RenderKey
        /\ InBacklog(Head(backlog).job)
        /\ backlog' \in Seq(Item) /\ renderQueued' \subseteq RenderKey
        /\ BacklogKeys' /\ OneItemPerJob'
        /\ \A j : InBacklog(j)' <=> InBacklog(j) /\ j # Head(backlog).job
    BY <1>1, <1>5, <2>1, Popped DEF OnePlace
  <2>3. OnePlace'
    BY <1>1, <1>2, <2>1, <2>2, PopPlaces
  <2>4. TypeOK'
    BY <1>1, <1>2, <2>1, <2>2 DEF TypeOK, PC, life
  <2>5. HandPlaces'
    BY <1>1, <2>1, <2>2, NoItemOutside DEF HandPlaces, TypeOK
  <2>6. NoStrandedRender'
    BY <1>1, <2>1 DEF NoStrandedRender, TypeOK, Active
  <2> QED BY <1>3, <2>2, <2>3, <2>4, <2>5, <2>6 DEF IInv
<1> QED BY <1>4, <1>5

\* A worker takes a pending job.
LEMMA DequeueInv ==
  ASSUME IInv, NEW w \in Worker, NEW j \in pending, Dequeue(w, j) PROVE IInv'
<1> DEFINE x == [job |-> j, key |-> NoKey, attempts |-> 0]
<1>1. TypeOK /\ HandPlaces /\ IdleExited /\ OnePlace /\ BacklogKeys
  BY DEF IInv
<1>2. /\ hand[w] = NoItem /\ status # "idle"
      /\ pending' = pending \ {j} /\ ready' \subseteq Domain
      /\ hand' = [hand EXCEPT ![w] = x] /\ pc' = [pc EXCEPT ![w] = "got"]
      /\ UNCHANGED <<life, backlog, renderQueued, retries, open>>
  BY <1>1 DEF Dequeue, Goto, HandPlaces, IdleExited, TypeOK
<1>3. x \in Item /\ x.job = j
  BY <1>1, EngineAssumption DEF Item, TypeOK
<1> HIDE DEF x
<1>4. OnePlace'
  BY <1>1, <1>2, <1>3, TakePlaces
<1>5. TypeOK'
  BY <1>1, <1>2, <1>3 DEF TypeOK, PC, life
<1>6. HandPlaces'
  BY <1>1, <1>2, <1>3, NoItemOutside DEF HandPlaces, TypeOK
<1>7. IdleExited' /\ BacklogKeys'
  BY <1>1, <1>2 DEF IdleExited, BacklogKeys, life
<1>8. NoStrandedRender'
  BY <1>1, <1>2 DEF NoStrandedRender, TypeOK, Active
<1> QED BY <1>4, <1>5, <1>6, <1>7, <1>8 DEF IInv

\* A worker with a fresh job starts on it, or leaves with the engine.
LEMMA DropOrProcessInv ==
  ASSUME IInv, NEW w \in Worker, DropOrProcess(w) PROVE IInv'
<1>1. TypeOK /\ HandPlaces /\ IdleExited /\ OnePlace /\ BacklogKeys /\ NoStrandedRender
  BY DEF IInv
<1>2. /\ pc[w] = "got" /\ hand[w] # NoItem /\ status # "idle"
      /\ UNCHANGED <<life, pools, retries>>
  BY <1>1 DEF DropOrProcess, HandPlaces, IdleExited
<1>3. IdleExited' /\ BacklogKeys'
  BY <1>1, <1>2 DEF IdleExited, BacklogKeys, life, pools
<1>4. CASE Cancelled
  <2>1. /\ pc' = [pc EXCEPT ![w] = "exited"] /\ hand' = [hand EXCEPT ![w] = NoItem]
        /\ open' = open \ {hand[w].job}
    BY <1>4 DEF DropOrProcess, Goto
  <2>2. OnePlace'
    BY <1>1, <1>2, <2>1, EndPlaces DEF pools
  <2>3. TypeOK' /\ HandPlaces'
    BY <1>1, <1>2, <2>1, InHand DEF TypeOK, PC, HandPlaces, life, pools
  <2>4. NoStrandedRender'
    BY <1>2, <1>4 DEF NoStrandedRender, Cancelled, life
  <2> QED BY <1>3, <2>2, <2>3, <2>4 DEF IInv
<1>5. CASE ~Cancelled
  <2>1. pc' = [pc EXCEPT ![w] = "fetch"] /\ UNCHANGED <<hand, open>>
    BY <1>5 DEF DropOrProcess, Goto
  <2>2. OnePlace'
    BY <1>1, <1>2, <2>1, KeepPlaces DEF pools
  <2>3. TypeOK' /\ HandPlaces'
    BY <1>1, <1>2, <2>1 DEF TypeOK, PC, HandPlaces, life, pools
  <2>4. NoStrandedRender'
    BY <1>1, <2>1 DEF NoStrandedRender, TypeOK, Active
  <2> QED BY <1>3, <2>2, <2>3, <2>4 DEF IInv
<1> QED BY <1>4, <1>5

\* A page is persisted, or only read for links.
LEMMA PersistInv ==
  ASSUME IInv, NEW w \in Worker, NEW links \in SUBSET Free, Persist(w, links)
  PROVE  IInv'
<1>1. /\ TypeOK /\ HandPlaces /\ IdleExited /\ OnePlace /\ BacklogKeys
      /\ pc[w] # "exited" /\ hand[w] # NoItem
  BY DEF IInv, HandPlaces, Persist, Answered
<1>2. /\ open' = (open \ {hand[w].job}) \cup links
      /\ retries' = [j \in Job |-> IF j \in links THEN 0 ELSE retries[j]]
      /\ pending' = pending \cup links /\ LetGo(w)
      /\ Goto(w, "top") \/ pc' = Broadcast(w, "top")
      /\ UNCHANGED <<life, ready, backlog, renderQueued>>
  BY DEF Persist
<1>3. /\ pc' \in [Worker -> PC] /\ hand' \in [Worker -> Item \cup {NoItem}]
      /\ HandPlaces' /\ IdleExited' /\ NoStrandedRender'
  BY <1>1, <1>2, BackToTop DEF life
<1>4. OnePlace'
  BY <1>1, <1>2, LinkPlaces DEF LetGo
<1>5. retries' \in [Job -> 0..MaxRetries]
  BY <1>1, <1>2, EngineAssumption DEF TypeOK
<1>6. TypeOK' /\ BacklogKeys'
  BY <1>1, <1>2, <1>3, <1>5 DEF TypeOK, BacklogKeys, Free, life
<1> QED BY <1>3, <1>4, <1>6 DEF IInv

\* The other ends of processJob.
LEMMA ProcessInv ==
  ASSUME IInv, NEW w \in Worker, ProcessStep(w) PROVE IInv'
<1>1. TypeOK /\ HandPlaces
  BY DEF IInv
<1>2. CASE GiveUp(w)
  BY <1>1, <1>2, EndInv DEF GiveUp, Answered, HandPlaces, pools, TypeOK
<1>3. ASSUME NEW links \in SUBSET Free, Persist(w, links) PROVE IInv'
  BY <1>3, PersistInv
<1>4. CASE Fail(w)
  BY <1>1, <1>4, RetryInv DEF Fail, HandPlaces, TypeOK
<1>5. CASE Throttled(w)
  BY <1>1, <1>5, RetryInv DEF Throttled, HandPlaces, TypeOK
<1>6. ASSUME NEW k \in RenderKey, enqueueRenderBacklog(w, k) PROVE IInv'
  <2> DEFINE x == [job |-> hand[w].job, key |-> k, attempts |-> 0]
  <2>1. hand[w] # NoItem
    BY <1>1, <1>6 DEF enqueueRenderBacklog, HandPlaces
  <2>2. x \in Item /\ x.job = hand[w].job /\ x.key = k
    BY <1>1, <2>1, InHand, EngineAssumption DEF Item
  <2>3. pushRenderBacklog(w, x)
    BY <1>6 DEF enqueueRenderBacklog, pushRenderBacklog
  <2>4. LetGo(w) /\ Goto(w, "top") /\ UNCHANGED <<life, pending, ready, retries>>
    BY <1>6 DEF enqueueRenderBacklog
  <2> HIDE DEF x
  <2> QED BY <2>1, <2>2, <2>3, <2>4, PushInv
<1> QED BY <1>2, <1>3, <1>4, <1>5, <1>6 DEF ProcessStep

\* processRenderBacklogItem.
LEMMA RenderInv ==
  ASSUME IInv, NEW w \in Worker, RenderStep(w) PROVE IInv'
<1>1. TypeOK /\ HandPlaces
  BY DEF IInv
<1>2. CASE DropWaiting(w)
  <2>1. hand[w] # NoItem
    BY <1>1, <1>2 DEF DropWaiting, HandPlaces
  <2> QED BY <1>1, <1>2, <2>1, EndInv DEF DropWaiting, pools, TypeOK
<1>3. CASE Defer(w)
  <2>1. hand[w] # NoItem /\ hand[w] \in Item /\ hand[w].key \in RenderKey
    BY <1>1, <1>3, InHand DEF Defer, HandPlaces
  <2> QED BY <1>3, <2>1, PushInv DEF Defer
<1>4. CASE NothingPending(w) \/ StartRender(w)
  BY <1>4, QuietInv
<1>5. CASE RendererBusy(w)
  <2>1. /\ hand[w] # NoItem /\ hand[w] \in Item /\ hand[w].key \in RenderKey
        /\ LetGo(w) /\ UNCHANGED <<life, ready>>
    BY <1>1, <1>5, InHand DEF RendererBusy, HandPlaces
  <2>2. CASE hand[w].attempts < BusyRetryMaxAttempts
    <3> DEFINE x == [hand[w] EXCEPT !.attempts = @ + 1]
    <3>1. /\ pushRenderBacklog(w, x) /\ Goto(w, "top")
          /\ UNCHANGED <<pending, retries>>
      BY <1>5, <2>2 DEF RendererBusy
    <3>2. x \in Item /\ x.job = hand[w].job /\ x.key = hand[w].key
      BY <2>1, <2>2, EngineAssumption DEF Item
    <3> HIDE DEF x
    <3> QED BY <2>1, <3>1, <3>2, PushInv
  <2>3. CASE ~(hand[w].attempts < BusyRetryMaxAttempts)
    <3>1. retryOrFail(w, hand[w].job) /\ UNCHANGED <<backlog, renderQueued>>
      BY <1>5, <2>3 DEF RendererBusy
    <3> QED BY <1>1, <2>1, <3>1, RetryInv DEF TypeOK
  <2> QED BY <2>2, <2>3
<1>6. CASE RenderCancelled(w)
  BY <1>1, <1>6, RetryInv DEF RenderCancelled, HandPlaces, TypeOK
<1> QED BY <1>2, <1>3, <1>4, <1>5, <1>6 DEF RenderStep
\* New jobs, the ticker, the limiter, Start and Stop.
LEMMA EnvironmentInv ==
  ASSUME IInv,
         \/ \E j \in Job : Inject(j)
         \/ PeriodicWake \/ (\E d \in Domain : SlotFreed(d))
         \/ Start \/ Stop \/ Stopped
  PROVE  IInv'
<1>1. TypeOK /\ HandPlaces /\ IdleExited /\ OnePlace /\ BacklogKeys /\ NoStrandedRender
  BY DEF IInv
<1>2. ASSUME NEW j \in Job, Inject(j) PROVE IInv'
  <2>1. TypeOK' /\ HandPlaces' /\ IdleExited' /\ BacklogKeys'
    BY <1>1, <1>2, EngineAssumption
    DEF Inject, TypeOK, PC, HandPlaces, IdleExited, BacklogKeys, life
  <2>2. NoStrandedRender'
    BY <1>2 DEF Inject, NoStrandedRender
  <2>3. \A i : InBacklog(i)' <=> InBacklog(i)
    BY <1>2 DEF Inject, InBacklog
  <2>4. \A v \in Worker : \A i : Holds(v, i)' <=> Holds(v, i)
    BY <1>2 DEF Inject, Holds
  <2>5. ASSUME NEW i \in Job PROVE Placed(i)'
    <3>1. open' = open \cup {j} /\ pending' = pending \cup {j} /\ j \notin open
      BY <1>2 DEF Inject, Free
    <3>2. Placed(i) /\ Placed(j)
      BY <1>1 DEF OnePlace
    <3> QED BY <2>3, <2>4, <3>1, <3>2 DEF Placed
  <2>6. OneItemPerJob'
    BY <1>1, <1>2 DEF Inject, OnePlace, OneItemPerJob
  <2> QED BY <2>1, <2>2, <2>5, <2>6 DEF IInv, OnePlace
<1>3. CASE PeriodicWake
  <2>1. UNCHANGED <<life, pools, hand, retries, open>>
    BY <1>3 DEF PeriodicWake
  <2>2. pc' = [v \in Worker |-> IF pc[v] = "parked" THEN "dequeue" ELSE pc[v]]
    BY <1>3 DEF PeriodicWake
  <2>3. TypeOK' /\ HandPlaces' /\ IdleExited' /\ BacklogKeys'
    BY <1>1, <2>1, <2>2 DEF TypeOK, PC, HandPlaces, IdleExited, BacklogKeys, life, pools
  <2>4. NoStrandedRender'
    BY <1>1, <2>1, <2>2 DEF NoStrandedRender, Active, life, pools
  <2> QED BY <1>1, <2>1, <2>3, <2>4, KeepPlaces DEF IInv, pools
<1>4. ASSUME NEW d \in Domain, SlotFreed(d) PROVE IInv'
  <2>1. OnePlace'
    BY <1>1, <1>4, KeepPlaces DEF SlotFreed
  <2> QED BY <1>1, <1>4, <2>1 DEF SlotFreed, IInv, TypeOK, HandPlaces, IdleExited, BacklogKeys,
                                  NoStrandedRender, life
<1>5. CASE Start
  <2>1. /\ UNCHANGED <<pools, hand, retries, open>>
        /\ pc' = [w \in Worker |-> "top"] /\ \A w \in Worker : hand[w] = NoItem
    BY <1>1, <1>5 DEF Start, HandPlaces, IdleExited
  <2>2. TypeOK' /\ HandPlaces' /\ IdleExited' /\ BacklogKeys'
    BY <1>1, <1>5, <2>1, EngineAssumption
    DEF Start, TypeOK, PC, HandPlaces, IdleExited, BacklogKeys, pools
  <2>3. NoStrandedRender'
    BY <2>1, EngineAssumption DEF NoStrandedRender, Active
  <2> QED BY <1>1, <2>1, <2>2, <2>3, KeepPlaces DEF IInv, pools
<1>6. CASE Stop \/ Stopped
  <2>1. UNCHANGED <<starts, pools, pc, hand, retries, open>>
    BY <1>6 DEF Stop, Stopped
  <2>2. TypeOK' /\ HandPlaces' /\ BacklogKeys'
    BY <1>1, <1>6, <2>1 DEF Stop, Stopped, TypeOK, HandPlaces, BacklogKeys, pools
  <2>3. IdleExited' /\ NoStrandedRender'
    BY <1>6, <2>1 DEF Stop, Stopped, IdleExited, NoStrandedRender
  <2> QED BY <1>1, <2>1, <2>2, <2>3, KeepPlaces DEF IInv, pools
<1> QED BY <1>2, <1>3, <1>4, <1>5, <1>6

\* The initial state.
LEMMA InitInv == Init => IInv
<1> SUFFICES ASSUME Init PROVE IInv
  OBVIOUS
<1>1. backlog \in Seq(Item) /\ Len(backlog) = 0
  BY DEF Init
<1>2. TypeOK
  BY <1>1, EngineAssumption DEF Init, TypeOK, PC
<1>3. HandPlaces /\ IdleExited /\ NoStrandedRender
  BY DEF Init, HandPlaces, IdleExited, NoStrandedRender
<1>4. BacklogKeys /\ OnePlace
  BY <1>1 DEF Init, BacklogKeys, OnePlace, Placed, Holds, InBacklog, OneItemPerJob
<1> QED BY <1>2, <1>3, <1>4 DEF IInv

\* Every step of the engine keeps the invariant.
LEMMA NextInv == IInv /\ [Next]_vars => IInv'
<1> SUFFICES ASSUME IInv, [Next]_vars PROVE IInv'
  OBVIOUS
<1>1. ASSUME NEW w \in Worker, LoopStep(w) PROVE IInv'
  BY <1>1, QuietInv, PopInv, DequeueInv, DropOrProcessInv DEF LoopStep
<1>2. ASSUME NEW w \in Worker, WorkerStep(w) PROVE IInv'
  BY <1>1, <1>2, ProcessInv, RenderInv DEF WorkerStep
<1>3. CASE UNCHANGED vars
  <2>1. OnePlace'
    BY <1>3, KeepPlaces DEF vars, IInv
  <2> QED BY <1>3, <2>1 DEF vars, IInv, TypeOK, HandPlaces, IdleExited, BacklogKeys, NoStrandedRender
<1> QED BY <1>2, <1>3, EnvironmentInv DEF Next

-----------------------------------------------------------------------------
(* The theorems.                                                           *)

\* The inductive invariant holds in every reachable state.
THEOREM EngineInvariant == Spec => []IInv
BY InitInv, NextInv, PTL DEF Spec

\* The state of the worker pool of engine.go always has its type: attempts
\* and retries never exceed their bounds and the pool never loses its shape.
THEOREM EngineTypeCorrect == Spec => []TypeOK
BY EngineInvariant, PTL DEF IInv

\* However many workers, retries, renders, stops and restarts: a job is in the
\* queue, in one worker's hands or in one backlog item, and nowhere once done.
THEOREM JobsAreInOnePlace == Spec => []OnePlace
BY EngineInvariant, PTL DEF IInv

\* renderQueued always holds exactly the keys of the backlog.
THEOREM BacklogKeysCorrect == Spec => []BacklogKeys
BY EngineInvariant, PTL DEF IInv

\* While the engine runs with an empty queue, a waiting render always has a
\* worker on its way to it.
THEOREM RendersNotStranded == Spec => []NoStrandedRender
BY EngineInvariant, PTL DEF IInv
=============================================================================

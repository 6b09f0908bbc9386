--------------------------- MODULE CrawlQueueProofs ---------------------------
(* Theorems about CrawlQueue, for every set of workers, domains and URLs. *)
EXTENDS CrawlQueue, SequenceTheorems, FiniteSetTheorems, TLAPS

\* Inserting keeps the jobs before the insertion point in place and moves the
\* others up by one.
LEMMA InsertAtProperties ==
  ASSUME NEW S, NEW s \in Seq(S), NEW e \in S, NEW i \in 1..(Len(s) + 1)
  PROVE  /\ InsertAt(s, i, e) \in Seq(S)
         /\ Len(InsertAt(s, i, e)) = Len(s) + 1
         /\ \A k \in 1..(Len(s) + 1) :
              InsertAt(s, i, e)[k] = IF k < i THEN s[k]
                                     ELSE IF k = i THEN e ELSE s[k - 1]
<1> DEFINE a == SubSeq(s, 1, i - 1)
           b == SubSeq(s, i, Len(s))
<1>1. /\ a \in Seq(S) /\ Len(a) = i - 1
      /\ \A k \in 1..(i - 1) : a[k] = s[k]
  BY SubSeqProperties, ElementOfSeq
<1>2. /\ b \in Seq(S) /\ Len(b) = Len(s) - i + 1
      /\ \A k \in 1..(Len(s) - i + 1) : b[k] = s[i + k - 1]
  BY SubSeqProperties, ElementOfSeq
<1>3. /\ <<e>> \in Seq(S) /\ Len(<<e>>) = 1 /\ <<e>>[1] = e
  OBVIOUS
<1> HIDE DEF a, b
<1>4. /\ a \o <<e>> \in Seq(S) /\ Len(a \o <<e>>) = i
      /\ \A k \in 1..i : (a \o <<e>>)[k] = IF k < i THEN s[k] ELSE e
  BY <1>1, <1>3, ConcatProperties
<1> DEFINE c == a \o <<e>>
<1>5. /\ c \in Seq(S) /\ Len(c) = i
      /\ \A k \in 1..i : c[k] = IF k < i THEN s[k] ELSE e
  BY <1>4
<1> HIDE DEF c
<1>6. /\ c \o b \in Seq(S)
      /\ Len(c \o b) = Len(c) + Len(b)
      /\ \A k \in 1..(Len(c) + Len(b)) : (c \o b)[k] = IF k <= Len(c) THEN c[k] ELSE b[k - Len(c)]
  BY <1>2, <1>5, ConcatProperties
<1>7. Len(s) \in Nat
  OBVIOUS
<1>8. Len(c \o b) = Len(s) + 1
  BY <1>2, <1>5, <1>6, <1>7
<1>9. ASSUME NEW k \in 1..(Len(s) + 1)
      PROVE  (c \o b)[k] = IF k < i THEN s[k] ELSE IF k = i THEN e ELSE s[k - 1]
  <2>1. CASE k <= i
    BY <2>1, <1>2, <1>5, <1>6, <1>7
  <2>2. CASE k > i
    <3>1. k - i \in 1..(Len(s) - i + 1) /\ i + (k - i) - 1 = k - 1
      BY <2>2, <1>7
    <3> QED BY <2>2, <3>1, <1>2, <1>5, <1>6, <1>7
  <2>3. k <= i \/ k > i
    BY <1>7
  <2> QED BY <2>1, <2>2, <2>3
<1>10. c \o b = InsertAt(s, i, e)
  BY DEF InsertAt, a, b, c
<1> QED BY <1>6, <1>8, <1>9, <1>10

-----------------------------------------------------------------------------
(* The inductive invariant.                                                *)

\* A job waits in the slice of its own domain, under an ID already given.
WellFiled ==
  \A d \in Domain : \A i \in 1..Len(domains[d]) :
    DomainOf[domains[d][i].url] = d /\ domains[d][i].id <= nextID

\* No ID is used twice in the queue.
UniqueIDs ==
  \A d, e \in Domain : \A i \in 1..Len(domains[d]), j \in 1..Len(domains[e]) :
    domains[d][i].id = domains[e][j].id => d = e /\ i = j

\* A busy worker holds a job with an ID already given.
HeldJobs == \A w \in Worker : pc[w] = "busy" => held[w] \in Job /\ held[w].id <= nextID

\* A key admitted by a deduplicating operation tests positive ever after.
Deduplicated == \A k \in Key : admitted[k] = 0 \/ (admitted[k] = 1 /\ k \in bloom)

\* Sleepers know every queued job, also during a batch that added none yet.
SleepersInformed ==
  (Unlocked \/ batch.added = 0) =>
     \A w \in Worker : pc[w] = "parked" => \A j \in QueuedJobs : j.id <= sleptAt[w]

Waiting == {w \in Worker : pc[w] \in {"parked", "woken"}}

Slices == PriorityOrder /\ WellFiled /\ UniqueIDs

IInv == /\ TypeOK /\ Slices /\ HeldJobs /\ Exclusive
        /\ Deduplicated /\ WaiterCount /\ SleepersInformed

\* Membership in QueuedJobs, spelled out.
LEMMA QueuedJobsMember ==
  \A j : j \in QueuedJobs <=> \E d \in Domain : \E i \in 1..Len(domains[d]) : j = domains[d][i]
BY DEF QueuedJobs

\* What every operation that inserts a job does to the slices.
LEMMA InsertStep ==
  ASSUME TypeOK, Slices, NEW u \in Url, NEW s \in Score,
         insertSorted(NewJob(u, s)), nextID' = nextID + 1
  PROVE  /\ domains' \in [Domain -> Seq(Job)]
         /\ Slices'
         /\ QueuedJobs' = QueuedJobs \cup {NewJob(u, s)}
<1> DEFINE job == NewJob(u, s)
           dom == DomainOf[u]
<1>1. /\ job \in Job /\ job.url = u /\ job.score = s /\ job.id = nextID + 1
      /\ dom \in Domain /\ nextID \in Nat /\ s \in Int
  BY QueueAssumption DEF NewJob, Job, TypeOK
<1>2. PICK p \in 1..(Len(domains[dom]) + 1) :
         /\ InsertionPoint(domains[dom], job, p)
         /\ domains' = [domains EXCEPT ![dom] = InsertAt(domains[dom], p, job)]
  BY <1>1 DEF insertSorted
<1> HIDE DEF job
<1> DEFINE old == domains[dom]
           new == InsertAt(old, p, job)
<1>3. old \in Seq(Job) /\ Len(old) \in Nat /\ p \in 1..(Len(old) + 1)
  BY <1>1 DEF TypeOK
<1>4. /\ new \in Seq(Job) /\ Len(new) = Len(old) + 1
      /\ \A k \in 1..(Len(old) + 1) :
           new[k] = IF k < p THEN old[k] ELSE IF k = p THEN job ELSE old[k - 1]
  <2> HIDE DEF old, dom
  <2>1. /\ InsertAt(old, p, job) \in Seq(Job) /\ Len(InsertAt(old, p, job)) = Len(old) + 1
        /\ \A k \in 1..(Len(old) + 1) :
             InsertAt(old, p, job)[k] = IF k < p THEN old[k] ELSE IF k = p THEN job ELSE old[k - 1]
    <3>1. job \in Job /\ old \in Seq(Job) /\ p \in 1..(Len(old) + 1)
      BY <1>1, <1>3
    <3> HIDE DEF new
    <3> QED BY ONLY <3>1, InsertAtProperties
  <2> QED BY <2>1
<1>5. /\ domains \in [Domain -> Seq(Job)]
      /\ domains'[dom] = new
      /\ \A d \in Domain : d # dom => domains'[d] = domains[d]
  BY <1>1, <1>2 DEF TypeOK
<1>6. domains' \in [Domain -> Seq(Job)]
  BY <1>1, <1>2, <1>4 DEF TypeOK
<1>7. /\ \A k \in 1..(p - 1) : old[k].score >= s
      /\ \A k \in p..Len(old) : old[k].score < s
  BY <1>1, <1>2 DEF InsertionPoint
<1>8. \A k \in 1..Len(old) : /\ old[k] \in Job /\ old[k].score \in Int /\ old[k].id \in Nat
                             /\ old[k].id <= nextID /\ DomainOf[old[k].url] = dom
  <2> TAKE k \in 1..Len(old)
  <2>1. old[k] \in Job
    BY <1>3, ElementOfSeq
  <2>2. old[k].score \in Int /\ old[k].id \in Nat
    BY <2>1, QueueAssumption DEF Job
  <2>3. old[k].id <= nextID /\ DomainOf[old[k].url] = dom
    BY <1>1 DEF Slices, WellFiled
  <2> QED BY <2>1, <2>2, <2>3
<1> HIDE DEF new, old, dom
<1>9. PriorityOrder'
  <2> SUFFICES ASSUME NEW d \in Domain, NEW i \in 1..Len(domains'[d]),
                      NEW j \in 1..Len(domains'[d]), i < j
               PROVE  Before(domains'[d][i], domains'[d][j])
    BY DEF PriorityOrder, Before
  <2>1. CASE d # dom
    BY <2>1, <1>5 DEF Slices, PriorityOrder
  <2>2. CASE d = dom
    <3>1. i \in 1..(Len(old) + 1) /\ j \in 1..(Len(old) + 1)
      BY <2>2, <1>3, <1>4, <1>5
    <3>2. \A a, b \in 1..Len(old) : a < b => Before(old[a], old[b])
      BY <1>1 DEF Slices, PriorityOrder, old
    <3>3. CASE i = p
      <4>1. j - 1 \in p..Len(old) /\ j - 1 \in 1..Len(old) /\ new[j] = old[j - 1] /\ new[i] = job
        BY <3>1, <3>3, <1>3, <1>4
      <4>2. job.score > old[j - 1].score
        BY <4>1, <1>1, <1>7, <1>8
      <4> QED BY <4>1, <4>2, <1>5, <2>2 DEF Before
    <3>4. CASE j = p
      <4>1. i \in 1..(p - 1) /\ i \in 1..Len(old) /\ new[i] = old[i] /\ new[j] = job
        BY <3>1, <3>4, <1>3, <1>4
      <4>2. old[i].score > job.score \/ (old[i].score = job.score /\ old[i].id < job.id)
        BY <4>1, <1>1, <1>7, <1>8
      <4> QED BY <4>1, <4>2, <1>5, <2>2 DEF Before
    <3>5. CASE i # p /\ j # p
      <4> DEFINE a == IF i < p THEN i ELSE i - 1
                 b == IF j < p THEN j ELSE j - 1
      <4>1. a \in 1..Len(old) /\ b \in 1..Len(old) /\ a < b
        BY <3>1, <3>5, <1>3
      <4>2. new[i] = old[a] /\ new[j] = old[b]
        BY <3>1, <3>5, <1>3, <1>4
      <4> HIDE DEF a, b
      <4> QED BY <4>1, <4>2, <3>2, <1>5, <2>2
    <3> QED BY <3>3, <3>4, <3>5
  <2> QED BY <2>1, <2>2
<1>10. \A k \in 1..Len(new) :
          \/ k = p /\ new[k] = job
          \/ k < p /\ k \in 1..Len(old) /\ new[k] = old[k]
          \/ k > p /\ k - 1 \in 1..Len(old) /\ new[k] = old[k - 1]
  BY <1>3, <1>4
<1>11. \A e \in Domain : \A j \in 1..Len(domains[e]) :
          domains[e][j].id \in Nat /\ domains[e][j].id <= nextID
  <2> TAKE e \in Domain
  <2> TAKE j \in 1..Len(domains[e])
  <2>1. domains[e] \in Seq(Job)
    BY <1>5
  <2>2. domains[e][j] \in Job
    BY <2>1, ElementOfSeq
  <2> QED BY <2>2 DEF Slices, WellFiled, Job
<1>12. WellFiled'
  <2> SUFFICES ASSUME NEW d \in Domain, NEW i \in 1..Len(domains'[d])
               PROVE  DomainOf[domains'[d][i].url] = d /\ domains'[d][i].id <= nextID'
    BY DEF WellFiled
  <2>1. CASE d # dom
    <3>1. domains'[d] = domains[d] /\ i \in 1..Len(domains[d])
      BY <2>1, <1>5
    <3> QED BY <3>1, <1>1, <1>11 DEF Slices, WellFiled
  <2>2. CASE d = dom
    <3>1. i \in 1..Len(new) /\ domains'[d] = new
      BY <2>2, <1>5
    <3>2. CASE new[i] = job
      BY <3>1, <3>2, <2>2, <1>1 DEF dom
    <3>3. CASE \E k \in 1..Len(old) : new[i] = old[k]
      BY <3>1, <3>3, <2>2, <1>1, <1>8
    <3> QED BY <3>1, <3>2, <3>3, <1>10
  <2> QED BY <2>1, <2>2
<1>13. UniqueIDs'
  <2> SUFFICES ASSUME NEW d \in Domain, NEW e \in Domain, NEW i \in 1..Len(domains'[d]),
                      NEW j \in 1..Len(domains'[e]), domains'[d][i].id = domains'[e][j].id
               PROVE  d = e /\ i = j
    BY DEF UniqueIDs
  <2>1. CASE d # dom /\ e # dom
    BY <2>1, <1>5 DEF Slices, UniqueIDs
  <2>2. CASE d = dom /\ e # dom
    <3>1. i \in 1..Len(new) /\ domains'[d] = new /\ domains'[e] = domains[e]
      BY <2>2, <1>5
    <3>2. CASE new[i] = job
      BY <3>1, <3>2, <1>1, <1>11
    <3>3. CASE \E k \in 1..Len(old) : new[i] = old[k]
      BY <3>1, <3>3, <2>2 DEF Slices, UniqueIDs, old
    <3> QED BY <3>1, <3>2, <3>3, <1>10
  <2>3. CASE d # dom /\ e = dom
    <3>1. j \in 1..Len(new) /\ domains'[e] = new /\ domains'[d] = domains[d]
      BY <2>3, <1>5
    <3>2. CASE new[j] = job
      BY <3>1, <3>2, <1>1, <1>11
    <3>3. CASE \E k \in 1..Len(old) : new[j] = old[k]
      BY <3>1, <3>3, <2>3 DEF Slices, UniqueIDs, old
    <3> QED BY <3>1, <3>2, <3>3, <1>10
  <2>4. CASE d = dom /\ e = dom
    <3>1. i \in 1..Len(new) /\ j \in 1..Len(new) /\ new[i].id = new[j].id
      BY <2>4, <1>5
    <3>2. \A a, b \in 1..Len(old) : old[a].id = old[b].id => a = b
      BY <2>4 DEF Slices, UniqueIDs, old
    <3>3. CASE i = p /\ j # p
      <4>1. \E k \in 1..Len(old) : new[j] = old[k]
        BY <3>1, <3>3, <1>3, <1>10
      <4> QED BY <4>1, <3>1, <3>3, <1>1, <1>3, <1>4, <1>8
    <3>4. CASE i # p /\ j = p
      <4>1. \E k \in 1..Len(old) : new[i] = old[k]
        BY <3>1, <3>4, <1>3, <1>10
      <4> QED BY <4>1, <3>1, <3>4, <1>1, <1>3, <1>4, <1>8
    <3>5. CASE i # p /\ j # p
      <4> DEFINE a == IF i < p THEN i ELSE i - 1
                 b == IF j < p THEN j ELSE j - 1
      <4>1. a \in 1..Len(old) /\ b \in 1..Len(old) /\ (a = b => i = j)
        BY <3>1, <3>5, <1>3, <1>4
      <4>2. new[i] = old[a] /\ new[j] = old[b]
        BY <3>1, <3>5, <1>3, <1>4
      <4> HIDE DEF a, b
      <4> QED BY <4>1, <4>2, <3>1, <3>2, <2>4
    <3> QED BY <3>3, <3>4, <3>5, <2>4
  <2> QED BY <2>1, <2>2, <2>3, <2>4
<1>14. QueuedJobs' = QueuedJobs \cup {job}
  <2>1. \A k \in 1..Len(old) : \E m \in 1..Len(new) : new[m] = old[k]
    <3> TAKE k \in 1..Len(old)
    <3>1. CASE k < p
      BY <3>1, <1>3, <1>4
    <3>2. CASE k >= p
      <4>1. k + 1 \in 1..Len(new) /\ new[k + 1] = old[k]
        BY <3>2, <1>3, <1>4
      <4> QED BY <4>1
    <3> QED BY <3>1, <3>2, <1>3
  <2>2. p \in 1..Len(new) /\ new[p] = job
    BY <1>3, <1>4
  <2>3. ASSUME NEW x \in QueuedJobs' PROVE x \in QueuedJobs \cup {job}
    <3>1. PICK d \in Domain : \E i \in 1..Len(domains'[d]) : x = domains'[d][i]
      BY <2>3 DEF QueuedJobs
    <3>2. CASE d # dom
      BY <3>1, <3>2, <1>5, QueuedJobsMember
    <3>3. CASE d = dom
      BY <3>1, <3>3, <1>5, <1>10, QueuedJobsMember DEF old
    <3> QED BY <3>2, <3>3
  <2>4. ASSUME NEW x \in QueuedJobs PROVE x \in QueuedJobs'
    <3>1. PICK d \in Domain : \E i \in 1..Len(domains[d]) : x = domains[d][i]
      BY <2>4, QueuedJobsMember
    <3>2. CASE d # dom
      BY <3>1, <3>2, <1>5 DEF QueuedJobs
    <3>3. CASE d = dom
      BY <3>1, <3>3, <1>5, <2>1 DEF QueuedJobs, old
    <3> QED BY <3>2, <3>3
  <2>5. job \in QueuedJobs'
    BY <2>2, <1>1, <1>5 DEF QueuedJobs, dom
  <2> QED BY <2>3, <2>4, <2>5
<1> QED BY <1>6, <1>9, <1>12, <1>13, <1>14 DEF Slices, job

\* What popJob does to the slices: the job it returns is the best one of its
\* domain, and exactly that job leaves the queue.
LEMMA PopStep ==
  ASSUME TypeOK, Slices, NEW w \in Worker, NEW d \in Domain, domains[d] # <<>>,
         popJob(w, d), nextID' = nextID
  PROVE  /\ domains' \in [Domain -> Seq(Job)]
         /\ Slices'
         /\ Head(domains[d]) \in Job /\ Head(domains[d]) \in QueuedJobs
         /\ Head(domains[d]).id <= nextID
         /\ \A j \in QueuedJobs : j # Head(domains[d]) =>
              /\ j.id # Head(domains[d]).id
              /\ DomainOf[j.url] = DomainOf[Head(domains[d]).url] => Before(Head(domains[d]), j)
         /\ QueuedJobs' = QueuedJobs \ {Head(domains[d])}
<1> DEFINE old == domains[d]
           new == Tail(old)
           job == Head(old)
<1>1. /\ old \in Seq(Job) /\ Len(old) \in Nat /\ Len(old) > 0
      /\ job \in Job /\ job = old[1] /\ 1 \in 1..Len(old)
      /\ new \in Seq(Job) /\ Len(new) = Len(old) - 1
      /\ \A k \in 1..Len(new) : new[k] = old[k + 1] /\ k + 1 \in 1..Len(old)
  BY HeadTailProperties DEF TypeOK
<1>2. /\ domains' \in [Domain -> Seq(Job)]
      /\ domains'[d] = new
      /\ \A e \in Domain : e # d => domains'[e] = domains[e]
  BY <1>1 DEF popJob, TypeOK
<1>3. \A e \in Domain : \A i \in 1..Len(domains'[e]) :
           \E k \in 1..Len(domains[e]) :
             /\ domains'[e][i] = domains[e][k]
             /\ k = IF e = d THEN i + 1 ELSE i
  <2> TAKE e \in Domain
  <2> TAKE i \in 1..Len(domains'[e])
  <2>1. CASE e = d
    <3>1. i \in 1..Len(new) /\ domains'[e][i] = new[i]
      BY <2>1, <1>2
    <3> QED BY <2>1, <3>1, <1>1
  <2>2. CASE e # d
    BY <2>2, <1>2
  <2> QED BY <2>1, <2>2
<1>4. PriorityOrder'
  <2> SUFFICES ASSUME NEW e \in Domain, NEW i \in 1..Len(domains'[e]),
                      NEW j \in 1..Len(domains'[e]), i < j
               PROVE  Before(domains'[e][i], domains'[e][j])
    BY DEF PriorityOrder, Before
  <2>1. PICK a \in 1..Len(domains[e]) : /\ domains'[e][i] = domains[e][a]
                                        /\ a = IF e = d THEN i + 1 ELSE i
    BY <1>3
  <2>2. PICK b \in 1..Len(domains[e]) : /\ domains'[e][j] = domains[e][b]
                                        /\ b = IF e = d THEN j + 1 ELSE j
    BY <1>3
  <2>3. a < b
    BY <2>1, <2>2, <1>2
  <2> QED BY <2>1, <2>2, <2>3 DEF Slices, PriorityOrder
<1>5. WellFiled'
  BY <1>3 DEF Slices, WellFiled
<1>6. UniqueIDs'
  <2> SUFFICES ASSUME NEW c \in Domain, NEW e \in Domain, NEW i \in 1..Len(domains'[c]),
                      NEW j \in 1..Len(domains'[e]), domains'[c][i].id = domains'[e][j].id
               PROVE  c = e /\ i = j
    BY DEF UniqueIDs
  <2>1. PICK a \in 1..Len(domains[c]) : /\ domains'[c][i] = domains[c][a]
                                        /\ a = IF c = d THEN i + 1 ELSE i
    BY <1>3
  <2>2. PICK b \in 1..Len(domains[e]) : /\ domains'[e][j] = domains[e][b]
                                        /\ b = IF e = d THEN j + 1 ELSE j
    BY <1>3
  <2>3. c = e /\ a = b
    BY <2>1, <2>2 DEF Slices, UniqueIDs
  <2> QED BY <2>1, <2>2, <2>3, <1>2
<1>7. job \in QueuedJobs
  BY <1>1, QueuedJobsMember
<1>8. job.id <= nextID
  BY <1>1 DEF Slices, WellFiled
<1>9. ASSUME NEW j \in QueuedJobs, j # job
      PROVE  /\ j.id # job.id
             /\ DomainOf[j.url] = DomainOf[job.url] => Before(job, j)
  <2>1. PICK e \in Domain : \E k \in 1..Len(domains[e]) : j = domains[e][k]
    BY QueuedJobsMember
  <2>2. PICK k \in 1..Len(domains[e]) : j = domains[e][k]
    BY <2>1
  <2>3. e # d \/ k # 1
    BY <2>2, <1>1, <1>9
  <2>4. j.id # job.id
    BY <2>2, <2>3, <1>1 DEF Slices, UniqueIDs
  <2>5. ASSUME DomainOf[j.url] = DomainOf[job.url] PROVE Before(job, j)
    <3>1. e = d
      BY <2>2, <2>5, <1>1 DEF Slices, WellFiled
    <3>2. 1 < k
      BY <3>1, <2>3, <1>1
    <3> QED BY <3>1, <3>2, <2>2, <1>1 DEF Slices, PriorityOrder
  <2> QED BY <2>4, <2>5
<1>10. QueuedJobs' = QueuedJobs \ {job}
  <2>1. ASSUME NEW x \in QueuedJobs' PROVE x \in QueuedJobs /\ x # job
    <3>1. PICK e \in Domain : \E i \in 1..Len(domains'[e]) : x = domains'[e][i]
      BY <2>1 DEF QueuedJobs
    <3>2. PICK i \in 1..Len(domains'[e]) : x = domains'[e][i]
      BY <3>1
    <3>3. PICK k \in 1..Len(domains[e]) : /\ x = domains[e][k]
                                          /\ k = IF e = d THEN i + 1 ELSE i
      BY <3>2, <1>3
    <3>4. e # d \/ k # 1
      BY <3>3, <1>2
    <3>5. x.id # job.id
      BY <3>3, <3>4, <1>1 DEF Slices, UniqueIDs
    <3> QED BY <3>3, <3>5, QueuedJobsMember
  <2>2. ASSUME NEW x \in QueuedJobs, x # job PROVE x \in QueuedJobs'
    <3>1. PICK e \in Domain : \E k \in 1..Len(domains[e]) : x = domains[e][k]
      BY QueuedJobsMember
    <3>2. PICK k \in 1..Len(domains[e]) : x = domains[e][k]
      BY <3>1
    <3>3. CASE e # d
      BY <3>2, <3>3, <1>2 DEF QueuedJobs
    <3>4. CASE e = d
      <4>1. k - 1 \in 1..Len(new) /\ new[k - 1] = x
        BY <3>2, <3>4, <2>2, <1>1
      <4>2. k - 1 \in 1..Len(domains'[d]) /\ domains'[d][k - 1] = x
        BY <4>1, <1>2
      <4> QED BY <4>2 DEF QueuedJobs
    <3> QED BY <3>3, <3>4
  <2> QED BY <2>1, <2>2
<1> QED BY <1>1, <1>2, <1>4, <1>5, <1>6, <1>7, <1>8, <1>9, <1>10 DEF Slices

-----------------------------------------------------------------------------
(* Facts the actions share.                                                *)

\* A broadcast moves parked workers to woken and leaves the others alone.
LEMMA BroadcastFacts ==
  ASSUME TypeOK
  PROVE  \A q \in {Woken, BroadcastIfWaiting} :
           /\ q \in [Worker -> PC]
           /\ \A w \in Worker : q[w] = pc[w] \/ (pc[w] = "parked" /\ q[w] = "woken")
BY DEF Woken, BroadcastIfWaiting, TypeOK, PC

\* The set of waiters is finite, and empty exactly when its count is 0.
LEMMA WaitingFinite ==
  /\ IsFiniteSet(Waiting) /\ Cardinality(Waiting) \in Nat
  /\ \A w \in Worker : pc[w] \in {"parked", "woken"} => Cardinality(Waiting) > 0
<1>1. Waiting \subseteq Worker
  BY DEF Waiting
<1>2. IsFiniteSet(Waiting)
  BY <1>1, QueueAssumption, FS_Subset
<1>3. Cardinality(Waiting) \in Nat /\ (Cardinality(Waiting) = 0 <=> Waiting = {})
  BY <1>2, FS_CardinalityType, FS_EmptySet
<1>4. \A w \in Worker : pc[w] \in {"parked", "woken"} => Waiting # {}
  BY DEF Waiting
<1> QED BY <1>2, <1>3, <1>4

\* The waiter count survives a step that moves no worker in or out of
\* cond.Wait.
LEMMA SameWaiters ==
  ASSUME WaiterCount, workerWaiters' = workerWaiters,
         \A w \in Worker : pc'[w] \in {"parked", "woken"} <=> pc[w] \in {"parked", "woken"}
  PROVE  WaiterCount'
<1>1. Waiting' = Waiting
  BY DEF Waiting
<1> QED BY <1>1 DEF WaiterCount, Waiting

\* A broadcast guarded by workerWaiters > 0 leaves no worker parked.
LEMMA BroadcastReachesAll ==
  ASSUME TypeOK, WaiterCount
  PROVE  \A w \in Worker : BroadcastIfWaiting[w] # "parked"
<1> SUFFICES ASSUME NEW w \in Worker PROVE BroadcastIfWaiting[w] # "parked"
  OBVIOUS
<1>1. CASE pc[w] = "parked"
  <2>1. workerWaiters > 0
    BY <1>1, WaitingFinite DEF WaiterCount, Waiting
  <2> QED BY <1>1, <2>1 DEF BroadcastIfWaiting, Woken
<1>2. CASE pc[w] # "parked"
  BY <1>2 DEF BroadcastIfWaiting, Woken
<1> QED BY <1>1, <1>2

\* Admitting a fresh key keeps the Bloom filter and the counts in step.
LEMMA DedupStep ==
  ASSUME TypeOK, Deduplicated, NEW u \in Url, dedupKey[u] \notin bloom,
         AddString(dedupKey[u]), admitted' = Count(dedupKey[u])
  PROVE  /\ bloom' \subseteq Key /\ bloom \subseteq bloom' /\ dedupKey[u] \in bloom'
         /\ admitted' \in [Key -> Nat] /\ Deduplicated'
<1>1. dedupKey[u] \in Key
  BY DEF Key
<1>2. /\ bloom' \subseteq Key /\ bloom \subseteq bloom' /\ dedupKey[u] \in bloom'
  BY <1>1 DEF AddString, TypeOK
<1>3. admitted[dedupKey[u]] = 0 /\ admitted \in [Key -> Nat]
  BY <1>1 DEF Deduplicated, TypeOK
<1>4. admitted' = [admitted EXCEPT ![dedupKey[u]] = 1]
  BY <1>3 DEF Count
<1> QED BY <1>1, <1>2, <1>3, <1>4 DEF Deduplicated

\* A new job has an ID that no worker holds.
LEMMA ExclusiveInsert ==
  ASSUME nextID \in Nat, HeldJobs, Exclusive, NEW job, job.id = nextID + 1,
         QueuedJobs' = QueuedJobs \cup {job},
         \A w \in Worker : pc'[w] = "busy" => pc[w] = "busy" /\ held'[w] = held[w]
  PROVE  Exclusive'
<1> SUFFICES ASSUME NEW v \in Worker, pc'[v] = "busy"
             PROVE  /\ \A w \in Worker \ {v} : pc'[w] = "busy" => held'[v].id # held'[w].id
                    /\ \A j \in QueuedJobs' : held'[v].id # j.id
  BY DEF Exclusive
<1>1. pc[v] = "busy" /\ held'[v] = held[v] /\ held[v].id \in Nat /\ held[v].id <= nextID
  BY DEF HeldJobs, Job
<1>2. held[v].id # job.id
  BY <1>1
<1> QED BY <1>1, <1>2 DEF Exclusive

-----------------------------------------------------------------------------
(* The invariant is inductive: one lemma per action that changes the       *)
(* slices, one for the rest.                                               *)

\* Enqueue admits one fresh key and broadcasts: every part of IInv survives.
LEMMA EnqueueInv ==
  ASSUME IInv, NEW u \in Url, NEW s \in Score, Enqueue(u, s)
  PROVE  IInv'
<1> USE DEF IInv
<1>1. /\ domains' \in [Domain -> Seq(Job)] /\ Slices'
      /\ QueuedJobs' = QueuedJobs \cup {NewJob(u, s)}
  BY InsertStep DEF Enqueue
<1>2. /\ bloom' \subseteq Key /\ admitted' \in [Key -> Nat] /\ Deduplicated'
  BY DedupStep DEF Enqueue
<1>3. /\ pc' \in [Worker -> PC] /\ held' = held
      /\ \A w \in Worker : pc'[w] = pc[w] \/ (pc[w] = "parked" /\ pc'[w] = "woken")
      /\ \A w \in Worker : pc'[w] # "parked"
  BY BroadcastFacts, BroadcastReachesAll DEF Enqueue
<1>4. TypeOK'
  BY <1>1, <1>2, <1>3 DEF Enqueue, TypeOK, envVars
<1>5. HeldJobs'
  BY <1>3, QueueAssumption DEF HeldJobs, Enqueue, TypeOK, Job
<1>6. Exclusive'
  <2>1. nextID \in Nat /\ NewJob(u, s).id = nextID + 1
    BY DEF TypeOK, NewJob
  <2> QED BY <1>1, <1>3, <2>1, ExclusiveInsert
<1>7. WaiterCount'
  BY <1>3, SameWaiters DEF Enqueue
<1>8. SleepersInformed'
  BY <1>3 DEF SleepersInformed
<1> QED BY <1>1, <1>2, <1>4, <1>5, <1>6, <1>7, <1>8

\* One iteration of a batch, deduplicating or direct, with the mutex held.
LEMMA EnqueueBatchInsertInv ==
  ASSUME IInv, EnqueueBatchInsert
  PROVE  IInv'
<1> USE DEF IInv
<1> DEFINE r == Head(batch.jobs)
<1>1. /\ batch.jobs \in Seq(Request) /\ batch.jobs # <<>>
      /\ r \in Request /\ r.url \in Url /\ r.score \in Score
      /\ Tail(batch.jobs) \in Seq(Request)
  <2>1. batch.jobs \in Seq(Request) /\ batch.jobs # <<>>
    BY DEF EnqueueBatchInsert, TypeOK
  <2>2. r \in Request /\ Tail(batch.jobs) \in Seq(Request)
    BY <2>1, HeadTailProperties
  <2> QED BY <2>1, <2>2 DEF Request
<1>2. insertSorted(NewJob(r.url, r.score)) /\ nextID' = nextID + 1
  BY DEF EnqueueBatchInsert
<1>3. /\ domains' \in [Domain -> Seq(Job)] /\ Slices'
      /\ QueuedJobs' = QueuedJobs \cup {NewJob(r.url, r.score)}
  BY <1>1, <1>2, InsertStep
<1>4. /\ bloom' \subseteq Key /\ admitted' \in [Key -> Nat] /\ Deduplicated'
  <2>1. CASE batch.direct
    BY <2>1 DEF EnqueueBatchInsert, TypeOK, Deduplicated
  <2>2. CASE ~batch.direct
    BY <2>2, <1>1, DedupStep DEF EnqueueBatchInsert
  <2> QED BY <2>1, <2>2
<1>5. /\ batch' \in [jobs : Seq(Request), added : Nat, direct : BOOLEAN, open : BOOLEAN]
      /\ batch'.open /\ batch'.added > 0
  <2>1. batch' = [batch EXCEPT !.jobs = Tail(@), !.added = @ + 1]
    BY DEF EnqueueBatchInsert
  <2>2. batch \in [jobs : Seq(Request), added : Nat, direct : BOOLEAN, open : BOOLEAN]
    BY DEF TypeOK
  <2>3. Tail(batch.jobs) \in Seq(Request)
    BY <1>1
  <2>4. batch' \in [jobs : Seq(Request), added : Nat, direct : BOOLEAN, open : BOOLEAN]
    <3>1. batch' = [jobs |-> Tail(batch.jobs), added |-> batch.added + 1,
                    direct |-> batch.direct, open |-> batch.open]
      BY <2>1, <2>2
    <3>2. batch.added + 1 \in Nat /\ batch.direct \in BOOLEAN /\ batch.open \in BOOLEAN
      BY <2>2
    <3> QED BY <2>3, <3>1, <3>2
  <2>5. batch'.open = batch.open /\ batch'.added = batch.added + 1
    BY <2>1, <2>2
  <2>6. batch.added + 1 > 0
    BY <2>2
  <2>7. batch.open
    BY DEF EnqueueBatchInsert
  <2> QED BY <2>4, <2>5, <2>6, <2>7
<1>6. TypeOK'
  BY <1>3, <1>4, <1>5 DEF EnqueueBatchInsert, TypeOK, waitVars, envVars
<1>7. HeldJobs'
  BY DEF EnqueueBatchInsert, HeldJobs, TypeOK, Job, waitVars
<1>8. Exclusive'
  <2>1. nextID \in Nat /\ NewJob(r.url, r.score).id = nextID + 1
    BY DEF TypeOK, NewJob
  <2>2. pc' = pc /\ held' = held
    BY DEF EnqueueBatchInsert, waitVars
  <2> QED BY <1>3, <2>1, <2>2, ExclusiveInsert
<1>9. WaiterCount'
  BY SameWaiters DEF EnqueueBatchInsert, waitVars
<1>10. SleepersInformed'
  BY <1>5 DEF SleepersInformed, Unlocked, TypeOK
<1> QED BY <1>3, <1>4, <1>6, <1>7, <1>8, <1>9, <1>10

\* A retry puts a new job in the queue and frees the hands of its worker.
LEMMA EnqueueRetryInv ==
  ASSUME IInv, NEW v \in Worker, NEW s \in Score, NEW throttle \in BOOLEAN,
         EnqueueRetry(v, s, throttle)
  PROVE  IInv'
<1> USE DEF IInv
<1> DEFINE u == held[v].url
<1>1. pc[v] = "busy" /\ held[v] \in Job /\ u \in Url
  BY DEF EnqueueRetry, HeldJobs, Job
<1>2. insertSorted(NewJob(u, s)) /\ nextID' = nextID + 1
  BY DEF EnqueueRetry
<1>3. /\ domains' \in [Domain -> Seq(Job)] /\ Slices'
      /\ QueuedJobs' = QueuedJobs \cup {NewJob(u, s)}
  BY <1>1, <1>2, InsertStep
<1>4. /\ pc' \in [Worker -> PC] /\ pc'[v] = "check"
      /\ \A w \in Worker \ {v} : pc'[w] = pc[w] \/ (pc[w] = "parked" /\ pc'[w] = "woken")
      /\ \A w \in Worker : pc'[w] # "parked"
  BY BroadcastFacts, BroadcastReachesAll DEF EnqueueRetry, PC
<1>5. /\ held' \in [Worker -> Job \cup {NoJob}]
      /\ \A w \in Worker \ {v} : held'[w] = held[w]
  BY DEF EnqueueRetry, TypeOK
<1>6. TypeOK'
  <2>1. ready' \subseteq Domain
    BY DEF EnqueueRetry, TypeOK
  <2> QED BY <1>3, <1>4, <1>5, <2>1 DEF EnqueueRetry, TypeOK
<1>7. HeldJobs'
  BY <1>4, <1>5 DEF HeldJobs, EnqueueRetry, TypeOK, Job
<1>8. Exclusive'
  <2>1. nextID \in Nat /\ NewJob(u, s).id = nextID + 1
    BY DEF TypeOK, NewJob
  <2> QED BY <1>3, <1>4, <1>5, <2>1, ExclusiveInsert
<1>9. WaiterCount'
  BY <1>1, <1>4, SameWaiters DEF EnqueueRetry
<1>10. SleepersInformed'
  BY <1>4 DEF SleepersInformed
<1>11. Deduplicated'
  BY DEF Deduplicated, EnqueueRetry
<1> QED BY <1>3, <1>6, <1>7, <1>8, <1>9, <1>10, <1>11

\* Dispatch moves the head of a slice into the hands of one worker.
LEMMA TakeJobInv ==
  ASSUME IInv, NEW v \in Worker, NEW d \in Domain, TakeJob(v, d)
  PROVE  IInv'
<1> USE DEF IInv
<1> DEFINE job == Head(domains[d])
<1>1. popJob(v, d) /\ domains[d] # <<>> /\ nextID' = nextID
  BY DEF TakeJob
<1>2. /\ domains' \in [Domain -> Seq(Job)] /\ Slices'
      /\ job \in Job /\ job \in QueuedJobs /\ job.id <= nextID
      /\ \A j \in QueuedJobs : j # job => j.id # job.id
      /\ QueuedJobs' = QueuedJobs \ {job}
  BY <1>1, PopStep
<1>3. /\ held' \in [Worker -> Job \cup {NoJob}] /\ held'[v] = job
      /\ \A w \in Worker \ {v} : held'[w] = held[w]
  BY <1>1, <1>2 DEF popJob, TypeOK
<1>4. /\ pc' \in [Worker -> PC] /\ pc[v] = "lock" /\ pc'[v] = "busy"
      /\ \A w \in Worker \ {v} : pc'[w] = pc[w]
  BY DEF TakeJob, TypeOK, PC
<1> HIDE DEF job
<1>5. TypeOK'
  <2>1. ready' \subseteq Domain
    BY DEF TakeJob, TypeOK
  <2> QED BY <1>1, <1>2, <1>3, <1>4, <2>1 DEF TakeJob, popJob, TypeOK
<1>6. HeldJobs'
  BY <1>1, <1>2, <1>3, <1>4 DEF HeldJobs
<1>7. Exclusive'
  BY <1>2, <1>3, <1>4 DEF Exclusive
<1>8. WaiterCount'
  BY <1>4, SameWaiters DEF TakeJob
<1>9. SleepersInformed'
  BY <1>2, <1>4 DEF SleepersInformed, TakeJob, Unlocked
<1>10. Deduplicated'
  BY DEF Deduplicated, TakeJob
<1> QED BY <1>2, <1>5, <1>6, <1>7, <1>8, <1>9, <1>10

\* Steps of DequeueWithWait that leave the queue alone, the end of a job, the
\* ticker and the environment, and the batch steps that insert nothing.
LEMMA QuietInv ==
  ASSUME IInv, domains' = domains, nextID' = nextID, TypeOK', Deduplicated', WaiterCount',
         \A w \in Worker : pc'[w] = "busy" => pc[w] = "busy" /\ held'[w] = held[w],
         SleepersInformed'
  PROVE  IInv'
<1>1. QueuedJobs' = QueuedJobs
  BY DEF QueuedJobs
<1>2. Slices'
  BY DEF IInv, Slices, PriorityOrder, WellFiled, UniqueIDs, Before
<1>3. HeldJobs' /\ Exclusive'
  BY <1>1 DEF IInv, HeldJobs, Exclusive
<1> QED BY <1>2, <1>3 DEF IInv

\* The batch steps that insert nothing: taking the mutex, skipping, returning.
LEMMA BatchQuietInv ==
  ASSUME IInv, EnqueueBatchSkip \/ EnqueueBatchReturn
               \/ \E jobs \in Requests, direct \in BOOLEAN : EnqueueBatch(jobs, direct)
  PROVE  IInv'
<1> USE DEF IInv
<1> DEFINE BatchType == [jobs : Seq(Request), added : Nat, direct : BOOLEAN, open : BOOLEAN]
<1>0. batch \in BatchType /\ QueuedJobs = UNION {{domains[d][i] : i \in 1..Len(domains[d])} : d \in Domain}
  BY DEF TypeOK, QueuedJobs
<1>1. CASE EnqueueBatchSkip
  <2>1. /\ domains' = domains /\ nextID' = nextID /\ pc' = pc /\ held' = held
        /\ bloom' = bloom /\ admitted' = admitted /\ workerWaiters' = workerWaiters
        /\ sleptAt' = sleptAt
    BY <1>1 DEF EnqueueBatchSkip, queueVars, waitVars
  <2>2. Tail(batch.jobs) \in Seq(Request)
    BY <1>0, <1>1, HeadTailProperties DEF EnqueueBatchSkip
  <2>3. batch' \in BatchType /\ batch'.open = batch.open /\ batch'.added = batch.added
    BY <1>0, <1>1, <2>2 DEF EnqueueBatchSkip
  <2>4. TypeOK'
    BY <1>1, <2>1, <2>3 DEF EnqueueBatchSkip, TypeOK, queueVars, waitVars, envVars
  <2>5. SleepersInformed'
    BY <2>1, <2>3 DEF SleepersInformed, Unlocked, QueuedJobs
  <2> QED BY <2>1, <2>4, <2>5, QuietInv, SameWaiters DEF Deduplicated
<1>2. CASE EnqueueBatchReturn
  <2>1. /\ domains' = domains /\ nextID' = nextID /\ held' = held
        /\ bloom' = bloom /\ admitted' = admitted /\ workerWaiters' = workerWaiters
        /\ sleptAt' = sleptAt /\ batch' = NoBatch
    BY <1>2 DEF EnqueueBatchReturn
  <2>2. pc' = IF batch.added > 0 THEN BroadcastIfWaiting ELSE pc
    BY <1>2 DEF EnqueueBatchReturn
  <2>3. /\ pc' \in [Worker -> PC]
        /\ \A w \in Worker : pc'[w] = pc[w] \/ (pc[w] = "parked" /\ pc'[w] = "woken")
    BY <2>2, BroadcastFacts DEF TypeOK
  <2>4. batch' \in BatchType
    BY <2>1 DEF NoBatch
  <2>5. TypeOK'
    BY <1>0, <1>2, <2>1, <2>3, <2>4 DEF EnqueueBatchReturn, TypeOK, envVars
  <2>6. SleepersInformed'
    <3>1. CASE batch.added > 0
      BY <2>2, <3>1, BroadcastReachesAll DEF SleepersInformed
    <3>2. CASE ~(batch.added > 0)
      <4>1. batch.added = 0 /\ pc' = pc
        BY <1>0, <2>2, <3>2
      <4> QED BY <4>1, <2>1 DEF SleepersInformed, QueuedJobs
    <3> QED BY <3>1, <3>2
  <2> QED BY <2>1, <2>3, <2>5, <2>6, QuietInv, SameWaiters DEF Deduplicated
<1>3. CASE \E jobs \in Requests, direct \in BOOLEAN : EnqueueBatch(jobs, direct)
  <2>1. PICK jobs \in Requests, direct \in BOOLEAN : EnqueueBatch(jobs, direct)
    BY <1>3
  <2>2. /\ domains' = domains /\ nextID' = nextID /\ pc' = pc /\ held' = held
        /\ bloom' = bloom /\ admitted' = admitted /\ workerWaiters' = workerWaiters
        /\ sleptAt' = sleptAt
    BY <2>1 DEF EnqueueBatch, queueVars, waitVars
  <2>3. jobs \in Seq(Request)
    BY <2>1, QueueAssumption DEF Requests
  <2>4. batch' \in BatchType /\ Unlocked
    BY <2>1, <2>3 DEF EnqueueBatch
  <2>5. TypeOK'
    BY <2>1, <2>2, <2>4 DEF EnqueueBatch, TypeOK, queueVars, waitVars, envVars
  <2>6. SleepersInformed'
    BY <2>2, <2>4 DEF SleepersInformed, QueuedJobs
  <2> QED BY <2>2, <2>5, <2>6, QuietInv, SameWaiters DEF Deduplicated
<1> QED BY <1>1, <1>2, <1>3

\* The steps of a waiting worker: ctx.Err(), parking, waking up, finishing.
LEMMA WaitInv ==
  ASSUME IInv, NEW v \in Worker, CheckContext(v) \/ Park(v) \/ Relock(v) \/ Finish(v)
  PROVE  IInv'
<1> USE DEF IInv
<1>1. /\ domains' = domains /\ nextID' = nextID /\ bloom' = bloom /\ admitted' = admitted
      /\ batch' = batch /\ enqueued' = enqueued /\ dequeued' = dequeued
      /\ ready' = ready /\ cancelled' = cancelled /\ waking' = waking
  BY DEF CheckContext, Park, Relock, Finish, queueVars, envVars
<1>2. QueuedJobs' = QueuedJobs
  BY <1>1 DEF QueuedJobs
<1>3. /\ pc' \in [Worker -> PC] /\ pc'[v] # "busy"
      /\ \A w \in Worker \ {v} : pc'[w] = pc[w] /\ held'[w] = held[w] /\ sleptAt'[w] = sleptAt[w]
      /\ held' \in [Worker -> Job \cup {NoJob}] /\ sleptAt' \in [Worker -> Nat]
  <2>1. CASE CheckContext(v)
    BY <2>1 DEF CheckContext, TypeOK, PC
  <2>2. CASE Park(v)
    BY <2>2 DEF Park, TypeOK, PC
  <2>3. CASE Relock(v)
    BY <2>3 DEF Relock, TypeOK, PC
  <2>4. CASE Finish(v)
    BY <2>4 DEF Finish, TypeOK, PC
  <2> QED BY <2>1, <2>2, <2>3, <2>4
<1>4. Deduplicated'
  BY <1>1 DEF Deduplicated
<1>5. workerWaiters' \in Nat /\ WaiterCount'
  <2>1. CASE CheckContext(v) \/ Finish(v)
    <3>1. workerWaiters' = workerWaiters
      BY <2>1 DEF CheckContext, Finish
    <3>2. \A w \in Worker : pc'[w] \in {"parked", "woken"} <=> pc[w] \in {"parked", "woken"}
      BY <2>1, <1>3 DEF CheckContext, Finish, TypeOK
    <3> QED BY <3>1, <3>2, SameWaiters DEF TypeOK
  <2>2. CASE Park(v)
    <3>1. pc[v] = "lock" /\ pc'[v] = "parked" /\ workerWaiters' = workerWaiters + 1
      BY <2>2 DEF Park, TypeOK
    <3>2. v \notin Waiting /\ Waiting' = Waiting \cup {v}
      BY <3>1, <1>3 DEF Waiting
    <3>3. Cardinality(Waiting') = Cardinality(Waiting) + 1
      BY <3>2, WaitingFinite, FS_AddElement
    <3> QED BY <3>1, <3>3 DEF WaiterCount, Waiting, TypeOK
  <2>3. CASE Relock(v)
    <3>1. pc[v] = "woken" /\ pc'[v] = "check" /\ workerWaiters' = workerWaiters - 1
      BY <2>3 DEF Relock, TypeOK
    <3>2. v \in Waiting /\ Waiting' = Waiting \ {v}
      BY <3>1, <1>3 DEF Waiting
    <3>3. Cardinality(Waiting') = Cardinality(Waiting) - 1
      BY <3>2, WaitingFinite, FS_RemoveElement
    <3>4. Cardinality(Waiting) > 0 /\ Cardinality(Waiting) \in Nat
      BY <3>1, WaitingFinite
    <3>5. workerWaiters = Cardinality(Waiting)
      BY DEF WaiterCount, Waiting
    <3> QED BY <3>1, <3>3, <3>4, <3>5 DEF WaiterCount, Waiting
  <2> QED BY <2>1, <2>2, <2>3
<1>6. TypeOK'
  BY <1>1, <1>3, <1>5 DEF TypeOK
<1>7. SleepersInformed'
  <2>1. CASE Park(v)
    <3>1. sleptAt'[v] = nextID
      BY <2>1 DEF Park, TypeOK
    <3>2. \A j \in QueuedJobs : j.id <= nextID
      BY QueuedJobsMember DEF Slices, WellFiled
    <3> QED BY <3>1, <3>2, <1>1, <1>2, <1>3 DEF SleepersInformed, Unlocked
  <2>2. CASE ~Park(v)
    <3>1. pc'[v] # "parked"
      BY <2>2 DEF CheckContext, Relock, Finish, TypeOK
    <3> QED BY <3>1, <1>1, <1>2, <1>3 DEF SleepersInformed, Unlocked
  <2> QED BY <2>1, <2>2
<1> QED BY <1>1, <1>3, <1>4, <1>5, <1>6, <1>7, QuietInv

\* The ticker, the limiter, the cancel and MarkSeen insert no job.
LEMMA EnvironmentInv ==
  ASSUME IInv, \/ PeriodicWake \/ StopPeriodicWake \/ Cancel
               \/ \E d \in Domain : SlotFreed(d)
               \/ \E u \in Url : MarkSeen(u)
               \/ UNCHANGED vars
  PROVE  IInv'
<1> USE DEF IInv
<1>1. /\ domains' = domains /\ nextID' = nextID /\ admitted' = admitted /\ batch' = batch
      /\ enqueued' = enqueued /\ dequeued' = dequeued /\ held' = held
      /\ workerWaiters' = workerWaiters /\ sleptAt' = sleptAt
      /\ pc' = Woken \/ pc' = pc
      /\ cancelled' \in BOOLEAN /\ waking' \in BOOLEAN
  BY DEF PeriodicWake, StopPeriodicWake, Cancel, SlotFreed, MarkSeen, vars, queueVars,
         waitVars, envVars, TypeOK
<1>2. /\ pc' \in [Worker -> PC]
      /\ \A w \in Worker : pc'[w] = pc[w] \/ (pc[w] = "parked" /\ pc'[w] = "woken")
  BY <1>1, BroadcastFacts DEF TypeOK
<1>3. bloom \subseteq bloom' /\ bloom' \subseteq Key
  <2>1. CASE \E u \in Url : MarkSeen(u)
    BY <2>1 DEF MarkSeen, AddString, Key, TypeOK
  <2>2. CASE ~\E u \in Url : MarkSeen(u)
    BY <2>2 DEF PeriodicWake, StopPeriodicWake, Cancel, SlotFreed, vars, queueVars, TypeOK
  <2> QED BY <2>1, <2>2
<1>4. ready' \subseteq Domain
  BY DEF PeriodicWake, StopPeriodicWake, Cancel, SlotFreed, MarkSeen, vars, envVars, TypeOK
<1>5. TypeOK'
  BY <1>1, <1>2, <1>3, <1>4 DEF TypeOK
<1>6. Deduplicated'
  BY <1>1, <1>3 DEF Deduplicated
<1>7. WaiterCount'
  BY <1>1, <1>2, SameWaiters
<1>8. QueuedJobs' = QueuedJobs
  BY <1>1 DEF QueuedJobs
<1>9. SleepersInformed'
  BY <1>1, <1>2, <1>8 DEF SleepersInformed, Unlocked
<1> QED BY <1>1, <1>2, <1>5, <1>6, <1>7, <1>9, QuietInv

-----------------------------------------------------------------------------
(* The theorems.                                                           *)

\* The inductive invariant holds initially.
LEMMA InitInv == Init => IInv
<1> SUFFICES ASSUME Init PROVE IInv
  OBVIOUS
<1>1. TypeOK
  <2>1. batch \in [jobs : Seq(Request), added : Nat, direct : BOOLEAN, open : BOOLEAN]
    BY DEF Init, NoBatch
  <2>2. domains \in [Domain -> Seq(Job)]
    BY EmptySeq DEF Init
  <2>3. /\ pc \in [Worker -> PC] /\ held \in [Worker -> Job \cup {NoJob}]
        /\ sleptAt \in [Worker -> Nat] /\ admitted \in [Key -> Nat]
    BY DEF Init, PC
  <2>4. /\ bloom \subseteq Key /\ nextID \in Nat /\ enqueued \in Nat /\ dequeued \in Nat
        /\ workerWaiters \in Nat /\ ready \subseteq Domain
        /\ cancelled \in BOOLEAN /\ waking \in BOOLEAN
    BY DEF Init
  <2> QED BY <2>1, <2>2, <2>3, <2>4 DEF TypeOK
<1>2. \A d \in Domain : domains[d] = <<>> /\ Len(domains[d]) = 0
  BY DEF Init
<1>3. Slices
  BY <1>2 DEF Slices, PriorityOrder, WellFiled, UniqueIDs
<1>4. \A w \in Worker : pc[w] = "check"
  BY DEF Init
<1>5. HeldJobs /\ Exclusive /\ SleepersInformed
  BY <1>4 DEF HeldJobs, Exclusive, SleepersInformed
<1>6. Deduplicated
  BY DEF Init, Deduplicated
<1>7. WaiterCount
  <2>1. {w \in Worker : pc[w] \in {"parked", "woken"}} = {}
    BY <1>4
  <2> QED BY <2>1, FS_EmptySet DEF WaiterCount, Init
<1> QED BY <1>1, <1>3, <1>5, <1>6, <1>7 DEF IInv

\* Every step keeps it.
LEMMA NextInv == IInv /\ [Next]_vars => IInv'
<1> SUFFICES ASSUME IInv, [Next]_vars PROVE IInv'
  OBVIOUS
<1>1. CASE Produce
  BY <1>1, EnqueueInv, BatchQuietInv, EnvironmentInv DEF Produce
<1>2. CASE BatchStep
  BY <1>2, BatchQuietInv, EnqueueBatchInsertInv DEF BatchStep
<1>3. CASE \E w \in Worker : WorkerStep(w) \/ Retry(w)
  BY <1>3, TakeJobInv, WaitInv, EnqueueRetryInv DEF WorkerStep, Retry
<1>4. CASE PeriodicWake \/ StopPeriodicWake \/ (\E d \in Domain : SlotFreed(d)) \/ Cancel
  BY <1>4, EnvironmentInv
<1>5. CASE UNCHANGED vars
  BY <1>5, EnvironmentInv
<1> QED BY <1>1, <1>2, <1>3, <1>4, <1>5 DEF Next

\* The inductive invariant holds in every reachable state.
THEOREM InvariantHolds == Spec => []IInv
<1> QED BY InitInv, NextInv, PTL DEF Spec

\* The state is well typed; in particular the waiter counter that
\* DequeueWithWait updates around cond.Wait never becomes negative.
THEOREM TypeCorrect == Spec => []TypeOK
<1>1. IInv => TypeOK
  BY DEF IInv
<1> QED BY <1>1, InvariantHolds, PTL

\* Each domain's slice stays sorted by score, and first come first served
\* among equal scores.
THEOREM OrderCorrect == Spec => []PriorityOrder
<1>1. IInv => PriorityOrder
  BY DEF IInv, Slices
<1> QED BY <1>1, InvariantHolds, PTL

\* The deduplicating operations admit each key at most once.
THEOREM DedupCorrect == Spec => []AtMostOnce
<1>1. IInv => AtMostOnce
  BY DEF IInv, Deduplicated, AtMostOnce
<1> QED BY <1>1, InvariantHolds, PTL

\* workerWaiters counts exactly the workers inside cond.Wait.
THEOREM WaitersCorrect == Spec => []WaiterCount
<1>1. IInv => WaiterCount
  BY DEF IInv
<1> QED BY <1>1, InvariantHolds, PTL

\* No enqueue operation leaves a worker asleep that slept before the job came.
THEOREM WakeupCorrect == Spec => []NoLostWakeup
<1>1. IInv => NoLostWakeup
  BY DEF IInv, SleepersInformed, NoLostWakeup
<1> QED BY <1>1, InvariantHolds, PTL

\* No job is in two hands, or in a hand and in the queue.
THEOREM ExclusiveCorrect == Spec => []Exclusive
<1>1. IInv => Exclusive
  BY DEF IInv
<1> QED BY <1>1, InvariantHolds, PTL

-----------------------------------------------------------------------------
(* CrawlQueue implements JobPool.                                          *)

\* Adding a key to the Bloom filter is remembering it in the pool.
LEMMA PoolRemembers ==
  ASSUME NEW k, AddString(k)
  PROVE  Pool!Remember(k)
BY DEF AddString, Pool!Remember

\* Every step of the queue is a step of the pool or leaves the pool alone.
LEMMA PoolStep == IInv /\ [Next]_vars => [Pool!PoolNext]_(Pool!poolVars)
<1> SUFFICES ASSUME IInv, [Next]_vars
             PROVE  Pool!PoolNext \/ UNCHANGED <<QueuedJobs, bloom, nextID>>
  BY DEF Pool!poolVars
<1> USE DEF IInv
<1>1. ASSUME NEW u \in Url, NEW s \in Score, Enqueue(u, s) PROVE Pool!PoolNext
  <2>1. QueuedJobs' = QueuedJobs \cup {NewJob(u, s)} /\ nextID' = nextID + 1
    BY <1>1, InsertStep DEF Enqueue
  <2>2. dedupKey[u] \notin bloom /\ Pool!Remember(dedupKey[u])
    BY <1>1, PoolRemembers DEF Enqueue
  <2>3. Pool!Admit(u, s)
    BY <2>1, <2>2 DEF Pool!Admit, Pool!NewJob, NewJob
  <2> QED BY <2>3 DEF Pool!PoolNext
<1>2. ASSUME EnqueueBatchInsert PROVE Pool!PoolNext
  <2> DEFINE r == Head(batch.jobs)
  <2>1. batch.jobs \in Seq(Request) /\ batch.jobs # <<>>
    BY <1>2 DEF EnqueueBatchInsert, TypeOK
  <2>2. r.url \in Url /\ r.score \in Score
    <3>1. r \in Request
      BY <2>1, HeadTailProperties
    <3> QED BY <3>1 DEF Request
  <2>3. insertSorted(NewJob(r.url, r.score)) /\ nextID' = nextID + 1
    BY <1>2 DEF EnqueueBatchInsert
  <2>4. QueuedJobs' = QueuedJobs \cup {NewJob(r.url, r.score)}
    BY <2>2, <2>3, InsertStep
  <2>5. CASE batch.direct
    <3>1. bloom' = bloom
      BY <1>2, <2>5 DEF EnqueueBatchInsert
    <3>2. Pool!Readmit(r.url, r.score)
      BY <2>3, <2>4, <3>1 DEF Pool!Readmit, Pool!NewJob, NewJob
    <3> QED BY <2>2, <3>2 DEF Pool!PoolNext
  <2>6. CASE ~batch.direct
    <3>1. dedupKey[r.url] \notin bloom /\ AddString(dedupKey[r.url])
      BY <1>2, <2>6 DEF EnqueueBatchInsert
    <3>2. Pool!Remember(dedupKey[r.url])
      BY <3>1, PoolRemembers
    <3>3. Pool!Admit(r.url, r.score)
      BY <2>3, <2>4, <3>1, <3>2 DEF Pool!Admit, Pool!NewJob, NewJob
    <3> QED BY <2>2, <3>3 DEF Pool!PoolNext
  <2> QED BY <2>5, <2>6
<1>3. ASSUME NEW w \in Worker, NEW s \in Score, NEW throttle \in BOOLEAN,
             EnqueueRetry(w, s, throttle)
      PROVE  Pool!PoolNext
  <2> DEFINE u == held[w].url
  <2>1. u \in Url
    BY <1>3 DEF EnqueueRetry, HeldJobs, Job
  <2>2. insertSorted(NewJob(u, s)) /\ nextID' = nextID + 1 /\ bloom' = bloom
    BY <1>3 DEF EnqueueRetry
  <2>3. QueuedJobs' = QueuedJobs \cup {NewJob(u, s)}
    BY <2>1, <2>2, InsertStep
  <2>4. Pool!Readmit(u, s)
    BY <2>2, <2>3 DEF Pool!Readmit, Pool!NewJob, NewJob
  <2> QED BY <2>1, <2>4 DEF Pool!PoolNext
<1>4. ASSUME NEW w \in Worker, NEW d \in Domain, TakeJob(w, d) PROVE Pool!PoolNext
  <2> DEFINE job == Head(domains[d])
  <2>1. popJob(w, d) /\ domains[d] # <<>> /\ nextID' = nextID /\ bloom' = bloom
    BY <1>4 DEF TakeJob
  <2>2. /\ job \in QueuedJobs
        /\ \A j \in QueuedJobs : j # job =>
             (DomainOf[j.url] = DomainOf[job.url] => Before(job, j))
        /\ QueuedJobs' = QueuedJobs \ {job}
    BY <2>1, PopStep
  <2> HIDE DEF job
  <2>3. Pool!Take(job)
    BY <2>1, <2>2 DEF Pool!Take, Pool!Before, Before
  <2> QED BY <2>2, <2>3 DEF Pool!PoolNext
<1>5. ASSUME NEW u \in Url, MarkSeen(u) PROVE Pool!PoolNext
  <2>1. domains' = domains /\ nextID' = nextID /\ Pool!Remember(dedupKey[u])
    BY <1>5, PoolRemembers DEF MarkSeen, waitVars, envVars
  <2>2. Pool!MarkAsSeen(dedupKey[u])
    BY <2>1 DEF Pool!MarkAsSeen, QueuedJobs
  <2> QED BY <2>2 DEF Pool!PoolNext
<1>6. ASSUME domains' = domains, bloom' = bloom, nextID' = nextID
      PROVE  UNCHANGED <<QueuedJobs, bloom, nextID>>
  BY <1>6 DEF QueuedJobs
<1>7. CASE Produce
  BY <1>1, <1>5, <1>6, <1>7 DEF Produce, EnqueueBatch, queueVars
<1>8. CASE BatchStep
  BY <1>2, <1>6, <1>8 DEF BatchStep, EnqueueBatchSkip, EnqueueBatchReturn, queueVars
<1>9. CASE \E w \in Worker : WorkerStep(w) \/ Retry(w)
  BY <1>3, <1>4, <1>6, <1>9 DEF WorkerStep, Retry, CheckContext, Park, Relock, Finish, queueVars
<1>10. CASE PeriodicWake \/ StopPeriodicWake \/ (\E d \in Domain : SlotFreed(d)) \/ Cancel
  BY <1>6, <1>10 DEF PeriodicWake, StopPeriodicWake, SlotFreed, Cancel, queueVars
<1>11. CASE UNCHANGED vars
  BY <1>6, <1>11 DEF vars, queueVars
<1> QED BY <1>7, <1>8, <1>9, <1>10, <1>11 DEF Next

\* The queue implements the abstract pool: what a worker is given is always
\* the best pending job of its domain, and a refused key stays refused.
THEOREM QueueRefinesPool == Spec => RefinesPool
<1>1. Init => Pool!PoolInit
  BY DEF Init, Pool!PoolInit, QueuedJobs
<1> QED BY <1>1, PoolStep, InvariantHolds, PTL DEF Spec, RefinesPool, Pool!PoolSpec
=============================================================================

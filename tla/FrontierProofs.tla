--------------------------- MODULE FrontierProofs ----------------------------
(* Theorems about Frontier, for every set of callers and URLs, every         *)
(* fingerprint function, any false positives of the Bloom filter and any     *)
(* bounds.                                                                   *)
EXTENDS Frontier, FiniteSetTheorems, TLAPS

-----------------------------------------------------------------------------
(* The inductive invariant.                                                *)

\* A goroutine that works on a job or a link has one.
InHand ==
  \A c \in Proc :
    /\ (pc[c] \in {"crawl", "record"} \/ call[c].kind = "resource") => call[c].job \in Url
    /\ pc[c] = "seen" => call[c].url \in Url

\* What was let in is in the filter, which forgets nothing while the process lives.
AdmittedSeen == \A u \in Url : admitted[u] > 0 => KeyOf[u] \in bloom

\* Pages known at start-up stay in the table.
KnownStored == known \subseteq pages

\* Nothing runs while the process is down.
DownIsIdle == up = "down" => (admitted = Nowhere /\ \A c \in Proc : pc[c] = "idle")

\* The two stages: the filter has every known page, or it was not filled, and
\* then no candidate that passed its lookup is known unless that failed too.
TwoStages ==
  \/ up = "down"
  \/ \A u \in known : KeyOf[u] \in bloom
  \/ /\ fails >= 1
     /\ fails = 1 => \A c \in Proc : pc[c] \in {"mark", "enqueue"} => call[c].cand \cap known = {}

Dedup == AdmittedSeen /\ KnownStored /\ DownIsIdle /\ TwoStages
           /\ AdmittedOnce /\ KnownNotAdmitted

IInv == TypeOK /\ InHand /\ Dedup

LEMMA CountType == \A us \in SUBSET Url : CountKeys(us) \in [Key -> Nat]
<1> SUFFICES ASSUME NEW us \in SUBSET Url, NEW k \in Key
             PROVE  Cardinality({u \in us : KeyOf[u] = k}) \in Nat
  BY DEF CountKeys
<1>1. IsFiniteSet({u \in us : KeyOf[u] = k})
  BY FrontierAssumption, FS_Subset
<1> QED BY <1>1, FS_CardinalityType

LEMMA InitInv == Init => IInv
<1> SUFFICES ASSUME Init PROVE IInv
  OBVIOUS
<1>1. NoCall \in Call /\ NoCall.kind = "none"
  BY DEF NoCall, Call
<1>2. TypeOK
  BY <1>1 DEF Init, TypeOK, Nowhere
<1>3. InHand
  BY <1>1 DEF Init, InHand
<1>4. Dedup
  BY DEF Init, Dedup, AdmittedSeen, KnownStored, DownIsIdle, TwoStages, AdmittedOnce,
     KnownNotAdmitted, Nowhere
<1> QED BY <1>2, <1>3, <1>4 DEF IInv

-----------------------------------------------------------------------------
(* Type correctness.                                                       *)

\* A goroutine may go anywhere with a call that has what it needs there.
LEMMA GotoWith ==
  ASSUME TypeOK, InHand, NEW c \in Proc,
         NEW l \in {"idle", "crawl", "filter", "seen", "mark", "enqueue", "record"},
         NEW r \in Call, Goto(c, l), With(c, r),
         (l \in {"crawl", "record"} \/ r.kind = "resource") => r.job \in Url,
         l = "seen" => r.url \in Url
  PROVE  /\ pc' \in [Proc -> {"idle", "crawl", "filter", "seen", "mark", "enqueue", "record"}]
         /\ call' \in [Proc -> Call] /\ InHand'
BY DEF TypeOK, InHand, Goto, With

\* The calls of a goroutine that does nothing, or crawls.
LEMMA CallRecords ==
  /\ NoCall \in Call /\ NoCall.kind = "none"
  /\ \A u \in Url : [NoCall EXCEPT !.job = u] \in Call
                      /\ [NoCall EXCEPT !.job = u].job = u
                      /\ [NoCall EXCEPT !.job = u].kind = "none"
BY DEF NoCall, Call

\* The end of a call.
LEMMA ReturnType ==
  ASSUME TypeOK, InHand, NEW c \in Proc, Return(c)
  PROVE  /\ pc' \in [Proc -> {"idle", "crawl", "filter", "seen", "mark", "enqueue", "record"}]
         /\ call' \in [Proc -> Call] /\ InHand'
<1>1. CASE call[c].kind = "resource"
  <2> DEFINE r == [NoCall EXCEPT !.kind = "resource", !.job = call[c].job]
  <2>1. call[c].job \in Url
    BY <1>1 DEF InHand
  <2>2. r \in Call /\ r.job \in Url
    BY <2>1 DEF NoCall, Call
  <2>3. Goto(c, "record") /\ With(c, r)
    BY <1>1 DEF Return
  <2> HIDE DEF r
  <2> QED BY <2>2, <2>3, GotoWith
<1>2. CASE call[c].kind # "resource"
  <2>1. Goto(c, "idle") /\ With(c, NoCall)
    BY <1>2 DEF Return
  <2> QED BY <2>1, CallRecords, GotoWith
<1> QED BY <1>1, <1>2

\* A step of Add or AddBatch keeps the types.
LEMMA CallStepType ==
  ASSUME TypeOK, InHand, NEW c \in Proc, CallStep(c)
  PROVE  TypeOK' /\ InHand'
<1> USE FrontierAssumption
<1> DEFINE Labels == {"idle", "crawl", "filter", "seen", "mark", "enqueue", "record"}
           Moved == pc' \in [Proc -> Labels] /\ call' \in [Proc -> Call] /\ InHand'
<1>c. call[c] \in Call
  BY DEF TypeOK
<1>1. ASSUME NEW u \in Url, CountLink(c, u) PROVE TypeOK' /\ InHand'
  <2>1. CASE u \in Refused \/ LimitReached(KeyOf[u])
    <3> DEFINE r == [call[c] EXCEPT !.links = @ \ {u}]
    <3>1. r \in Call /\ r.kind = call[c].kind /\ r.job = call[c].job /\ r.url = call[c].url
      BY <1>c DEF Call
    <3>2. call' = [call EXCEPT ![c] = r] /\ UNCHANGED <<pc, fpCounts>>
      BY <1>1, <2>1 DEF CountLink, With
    <3> HIDE DEF r
    <3>3. Moved
      BY <3>1, <3>2 DEF TypeOK, InHand
    <3> QED BY <1>1, <3>2, <3>3 DEF CountLink, TypeOK, db, life
  <2>2. CASE ~(u \in Refused \/ LimitReached(KeyOf[u]))
    <3> DEFINE r == [call[c] EXCEPT !.links = @ \ {u}, !.url = u]
    <3>1. r \in Call /\ r.kind = call[c].kind /\ r.job = call[c].job /\ r.url = u
      BY <1>c DEF Call
    <3>2. With(c, r) /\ Goto(c, "seen") /\ fpCounts' = [fpCounts EXCEPT ![KeyOf[u]] = @ + 1]
      BY <1>1, <2>2 DEF CountLink
    <3> HIDE DEF r
    <3>3. Moved
      BY <3>1, <3>2, GotoWith DEF InHand
    <3> QED BY <1>1, <3>2, <3>3 DEF CountLink, TypeOK, db, life
  <2> QED BY <2>1, <2>2
<1>2. CASE HasSeen(c)
  <2> DEFINE r == [call[c] EXCEPT !.url = NoUrl,
                                  !.cand = IF KeyOf[call[c].url] \in bloom THEN @
                                           ELSE @ \cup {call[c].url}]
  <2>1. call[c].url \in Url
    BY <1>2 DEF HasSeen, InHand
  <2>2. r \in Call /\ r.kind = call[c].kind /\ r.job = call[c].job
    BY <1>c, <2>1 DEF Call
  <2>3. With(c, r) /\ Goto(c, "filter")
    BY <1>2 DEF HasSeen
  <2> HIDE DEF r
  <2>4. Moved
    BY <2>2, <2>3, GotoWith DEF InHand
  <2> QED BY <1>2, <2>4 DEF HasSeen, TypeOK, db, memory, life
<1>3. CASE Lookup(c)
  <2> DEFINE found == call[c].cand \cap pages
             r == [call[c] EXCEPT !.found = found, !.cand = @ \ found]
             l == IF found = {} THEN "enqueue" ELSE "mark"
  <2>1. CASE call[c].cand = {}
    BY <1>3, <2>1, ReturnType DEF Lookup, TypeOK, db, memory, life
  <2>2. CASE call[c].cand # {}
    <3>1. r \in Call /\ r.kind = call[c].kind /\ r.job = call[c].job
      BY <1>c DEF Call
    <3>2. With(c, r) /\ Goto(c, l) /\ l \in {"enqueue", "mark"}
      BY <1>3, <2>2 DEF Lookup
    <3> HIDE DEF r, l
    <3>3. Moved
      BY <3>1, <3>2, GotoWith DEF InHand
    <3> QED BY <1>3, <3>3 DEF Lookup, TypeOK, db, memory, life
  <2> QED BY <2>1, <2>2
<1>4. CASE LookupFails(c)
  <2>1. Moved
    <3>1. CASE call[c].kind = "add"
      BY <1>4, <3>1, ReturnType DEF LookupFails
    <3>2. CASE call[c].kind # "add"
      BY <1>4, <3>2 DEF LookupFails, Goto, TypeOK, InHand
    <3> QED BY <3>1, <3>2
  <2> QED BY <1>4, <2>1 DEF LookupFails, Failure, TypeOK, db, memory, life
<1>5. CASE MarkFound(c)
  <2> DEFINE r == [call[c] EXCEPT !.found = {}]
  <2>1. Moved
    <3>1. CASE call[c].cand = {}
      BY <1>5, <3>1, ReturnType DEF MarkFound
    <3>2. CASE call[c].cand # {}
      <4>1. r \in Call /\ r.kind = call[c].kind /\ r.job = call[c].job
        BY <1>c DEF Call
      <4>2. With(c, r) /\ Goto(c, "enqueue")
        BY <1>5, <3>2 DEF MarkFound
      <4> HIDE DEF r
      <4> QED BY <4>1, <4>2, GotoWith DEF InHand
    <3> QED BY <3>1, <3>2
  <2>2. bloom' \subseteq Key
    <3>1. call[c].found \subseteq Url
      BY <1>c DEF Call
    <3> QED BY <1>5, <3>1 DEF MarkFound, AddString, Keys, TypeOK
  <2> QED BY <1>5, <2>1, <2>2 DEF MarkFound, TypeOK, db, life
<1>6. CASE EnqueueNew(c)
  <2>1. PICK new \in SUBSET call[c].cand :
          /\ queue' = [u \in Url |-> queue[u] + OncePer(new)[u]]
          /\ IF new = {} THEN UNCHANGED bloom ELSE AddString(Keys(new))
          /\ admitted' = [u \in Url |-> admitted[u] + OncePer(new)[u]]
    BY <1>6 DEF EnqueueNew
  <2>2. new \subseteq Url
    BY <1>c DEF Call
  <2>3. bloom' \subseteq Key
    BY <2>1, <2>2 DEF AddString, Keys, TypeOK
  <2>4. queue' \in [Url -> Nat] /\ admitted' \in [Url -> Nat]
    BY <2>1 DEF TypeOK, OncePer
  <2>5. Moved
    BY <1>6, ReturnType DEF EnqueueNew
  <2> QED BY <1>6, <2>1, <2>2, <2>3, <2>4, <2>5 DEF EnqueueNew, TypeOK, db, life
<1> QED BY <1>1, <1>2, <1>3, <1>4, <1>5, <1>6 DEF CallStep

\* A new call of Add or AddBatch.
LEMMA BeginType ==
  ASSUME TypeOK, InHand, NEW c \in Proc, NEW k \in {"add", "batch", "resource"},
         NEW j \in Url \cup {NoUrl}, NEW ls \in SUBSET Url, Begin(c, k, j, ls),
         k = "resource" => j \in Url
  PROVE  /\ pc' \in [Proc -> {"idle", "crawl", "filter", "seen", "mark", "enqueue", "record"}]
         /\ call' \in [Proc -> Call] /\ InHand'
<1> DEFINE r == [NoCall EXCEPT !.kind = k, !.job = j, !.links = ls]
<1>1. r \in Call /\ r.kind = k /\ r.job = j
  BY DEF NoCall, Call
<1>2. Goto(c, "filter") /\ With(c, r)
  BY DEF Begin
<1> HIDE DEF r
<1> QED BY <1>1, <1>2, GotoWith

\* The same for the last call of a goroutine.
LEMMA BeginBatchType ==
  ASSUME TypeOK, InHand, NEW c \in Proc, NEW ls \in SUBSET Url, BeginBatch(c, ls)
  PROVE  /\ pc' \in [Proc -> {"idle", "crawl", "filter", "seen", "mark", "enqueue", "record"}]
         /\ call' \in [Proc -> Call] /\ InHand'
<1>1. CASE ls = {}
  BY <1>1, CallRecords, GotoWith DEF BeginBatch
<1>2. CASE ls # {}
  BY <1>2, BeginType DEF BeginBatch
<1> QED BY <1>1, <1>2

\* A worker's step keeps the types.
LEMMA CrawlStepType ==
  ASSUME TypeOK, InHand, NEW c \in Proc, CrawlStep(c)
  PROVE  TypeOK' /\ InHand'
<1> USE FrontierAssumption
<1> DEFINE Moved ==
      /\ pc' \in [Proc -> {"idle", "crawl", "filter", "seen", "mark", "enqueue", "record"}]
      /\ call' \in [Proc -> Call] /\ InHand'
<1>1. ASSUME NEW u \in Url, Dequeue(c, u) PROVE TypeOK' /\ InHand'
  <2> DEFINE r == [NoCall EXCEPT !.job = u]
  <2>0. r \in Call /\ r.job = u
    BY CallRecords
  <2> HIDE DEF r
  <2>1. Moved
    <3>1. Goto(c, "crawl") /\ With(c, r)
      BY <1>1 DEF Dequeue, r
    <3> QED BY <2>0, <3>1, GotoWith
  <2>2. queue' \in [Url -> Nat]
    BY <1>1 DEF Dequeue, TypeOK
  <2> QED BY <1>1, <2>1, <2>2 DEF Dequeue, TypeOK, db, life
<1>2. CASE GiveUp(c)
  <2>1. Moved
    BY <1>2, CallRecords, GotoWith DEF GiveUp
  <2> QED BY <1>2, <2>1 DEF GiveUp, TypeOK, db, memory, life
<1>3. CASE Retry(c)
  <2>1. Moved
    BY <1>3, CallRecords, GotoWith DEF Retry
  <2>2. queue' \in [Url -> Nat]
    <3>1. call[c].job \in Url
      BY <1>3 DEF Retry, InHand
    <3> QED BY <1>3, <3>1 DEF Retry, TypeOK
  <2> QED BY <1>3, <2>1, <2>2 DEF Retry, TypeOK, db, life
<1>4. ASSUME NEW u \in Url, NEW links \in LinkSets, PersistPage(c, u, links)
      PROVE  TypeOK' /\ InHand'
  <2>1. Moved
    BY <1>4, BeginBatchType DEF PersistPage, LinkSets
  <2> QED BY <1>4, <2>1 DEF PersistPage, TypeOK, db, life
<1>5. ASSUME NEW links \in LinkSets, CrawlResource(c, links) PROVE TypeOK' /\ InHand'
  <2>1. call[c].job \in Url
    BY <1>5 DEF CrawlResource, InHand
  <2>2. Moved
    BY <1>5, <2>1, BeginType DEF CrawlResource, LinkSets
  <2> QED BY <1>5, <2>2 DEF CrawlResource, TypeOK, db, memory, life
<1>6. CASE UpsertDiscoveredResource(c)
  <2>1. call[c].job \in Url
    BY <1>6 DEF UpsertDiscoveredResource, InHand
  <2>2. Moved
    BY <1>6, CallRecords, GotoWith DEF UpsertDiscoveredResource
  <2> QED BY <1>6, <2>1, <2>2 DEF UpsertDiscoveredResource, Failure, TypeOK, memory, life
<1> QED BY <1>1, <1>2, <1>3, <1>4, <1>5, <1>6 DEF CrawlStep

\* So do requests, the batch writer, start-up and the end of the process.
LEMMA OtherStepType ==
  ASSUME TypeOK, InHand,
         \/ RequestStep \/ Flush
         \/ seedBloomFilter \/ (\E u \in Seed : SeedFromConfig(u)) \/ StartComponents \/ Exit
  PROVE  TypeOK' /\ InHand'
<1> USE FrontierAssumption
<1> DEFINE Moved ==
      /\ pc' \in [Proc -> {"idle", "crawl", "filter", "seen", "mark", "enqueue", "record"}]
      /\ call' \in [Proc -> Call] /\ InHand'
<1>1. ASSUME NEW c \in Caller, NEW u \in Url, AddSeed(c, u) PROVE TypeOK' /\ InHand'
  <2>1. Moved
    <3>1. c \in Proc /\ {u} \in SUBSET Url /\ Begin(c, "add", NoUrl, {u})
      BY <1>1 DEF AddSeed, Proc
    <3> QED BY <3>1, BeginType
  <2> QED BY <1>1, <2>1 DEF AddSeed, Request, TypeOK, db, memory, life
<1>2. ASSUME NEW c \in Caller, NEW u \in Url, NEW links \in LinkSets, IngestPage(c, u, links)
      PROVE  TypeOK' /\ InHand'
  <2>1. Moved
    BY <1>2, BeginBatchType DEF IngestPage, LinkSets, Proc
  <2> QED BY <1>2, <2>1 DEF IngestPage, Request, TypeOK, memory, life
<1>3. ASSUME NEW us, AddBatchDirect(us) PROVE TypeOK' /\ InHand'
  <2>1. queue' \in [Url -> Nat]
    BY <1>3 DEF AddBatchDirect, TypeOK, OncePer
  <2>2. /\ UNCHANGED <<db, bloom, fpCounts, buffered, admitted, life, pc, call, fails>>
        /\ calls' = calls + 1
    BY <1>3 DEF AddBatchDirect, Request
  <2> QED BY <2>1, <2>2 DEF TypeOK, InHand, db, life
<1>4. CASE Flush
  BY <1>4 DEF Flush, TypeOK, InHand, life
<1>5. CASE seedBloomFilter
  <2>1. bloom' \subseteq Key
    BY <1>5 DEF seedBloomFilter, TypeOK, Keys
  <2>2. fpCounts' \in [Key -> Nat]
    <3>1. /\ CountKeys(pages) \in [Key -> Nat] /\ CountKeys(discovered) \in [Key -> Nat]
          /\ CountKeys({}) \in [Key -> Nat]
      BY CountType DEF TypeOK
    <3>2. Plus(CountKeys(pages), CountKeys(discovered)) \in [Key -> Nat]
      BY <3>1 DEF Plus
    <3> QED BY <1>5, <3>1, <3>2 DEF seedBloomFilter
  <2> QED BY <1>5, <2>1, <2>2 DEF seedBloomFilter, TypeOK, InHand, db, Nowhere
<1>6. ASSUME NEW u \in Seed, SeedFromConfig(u) PROVE TypeOK' /\ InHand'
  <2>1. Moved
    <3>1. CASE Begin(Main, "add", NoUrl, {u})
      <4>1. Main \in Proc /\ {u} \in SUBSET Url
        BY DEF Proc
      <4> QED BY <3>1, <4>1, BeginType
    <3>2. CASE UNCHANGED <<pc, call>>
      BY <3>2 DEF TypeOK, InHand
    <3> QED BY <1>6, <3>1, <3>2 DEF SeedFromConfig
  <2> QED BY <1>6, <2>1 DEF SeedFromConfig, Failure, TypeOK, db, memory
<1>7. CASE StartComponents
  BY <1>7 DEF StartComponents, TypeOK, InHand, db, memory
<1>8. CASE Exit
  <2>1. Moved
    BY <1>8, CallRecords DEF Exit, InHand
  <2>2. CountKeys({}) \in [Key -> Nat] /\ Nowhere \in [Url -> Nat]
    BY CountType DEF Nowhere
  <2>3. /\ UNCHANGED db /\ queue' = Nowhere /\ admitted' = Nowhere /\ up' = "down"
        /\ bloom' = {} /\ fpCounts' = CountKeys({}) /\ buffered' = {} /\ toSeed' = {}
        /\ UNCHANGED <<starts, known, calls, fails>>
    BY <1>8 DEF Exit
  <2> QED BY <2>1, <2>2, <2>3 DEF TypeOK, db
<1> QED BY <1>1, <1>2, <1>3, <1>4, <1>5, <1>6, <1>7, <1>8 DEF RequestStep

-----------------------------------------------------------------------------
(* Deduplication.                                                          *)

\* A step that lets nothing in, keeps pages and what is known, and only adds to
\* the filter preserves the deduplication, if goroutines that get past a
\* lookup have nothing known in hand or count as a second error.
LEMMA QuietStep ==
  ASSUME TypeOK, Dedup, up # "down", up' # "down", fails' \in Nat,
         bloom \subseteq bloom', pages \subseteq pages', UNCHANGED <<known, admitted>>,
         fails <= fails',
         (fails' = 1 /\ fails = 1) =>
           \A c \in Proc : pc'[c] \in {"mark", "enqueue"} =>
             \/ call'[c].cand \cap known = {}
             \/ pc[c] \in {"mark", "enqueue"} /\ call'[c].cand = call[c].cand
  PROVE  Dedup'
<1>1. AdmittedSeen' /\ KnownStored' /\ DownIsIdle' /\ AdmittedOnce' /\ KnownNotAdmitted'
  BY DEF Dedup, AdmittedSeen, KnownStored, DownIsIdle, AdmittedOnce, KnownNotAdmitted, TypeOK
<1>2. TwoStages'
  BY DEF Dedup, TwoStages, TypeOK
<1> QED BY <1>1, <1>2 DEF Dedup

\* A goroutine that is called on to do something runs in a live process.
LEMMA LiveCall ==
  ASSUME Dedup, NEW c \in Proc, pc[c] # "idle"
  PROVE  up # "down"
BY DEF Dedup, DownIsIdle

\* Add and AddBatch.
LEMMA CallStepDedup ==
  ASSUME TypeOK, Dedup, NEW c \in Proc, CallStep(c)
  PROVE  Dedup'
<1>u. up # "down" /\ up' = up
  <2>1. pc[c] # "idle"
    BY DEF CallStep, CountLink, HasSeen, Lookup, LookupFails, MarkFound, EnqueueNew
  <2>2. up' = up
    BY DEF CallStep, CountLink, HasSeen, Lookup, LookupFails, MarkFound, EnqueueNew, life
  <2> QED BY <2>1, <2>2, LiveCall
<1>c. call[c] \in Call /\ pc \in [Proc -> {"idle", "crawl", "filter", "seen", "mark", "enqueue", "record"}]
      /\ call \in [Proc -> Call] /\ fails \in Nat
  BY DEF TypeOK
<1>r. ASSUME Return(c)
      PROVE  \A d \in Proc : pc'[d] \in {"mark", "enqueue"} => d # c /\ pc'[d] = pc[d] /\ call'[d] = call[d]
  BY <1>c, <1>r DEF Return, Goto, With
<1>1. ASSUME NEW u \in Url, CountLink(c, u) PROVE Dedup'
  <2>1. \A d \in Proc : pc'[d] \in {"mark", "enqueue"} => pc'[d] = pc[d] /\ call'[d] = call[d]
    BY <1>1, <1>c DEF CountLink, Goto, With
  <2> QED BY <1>1, <2>1, <1>u, <1>c, QuietStep DEF CountLink, db, life
<1>2. CASE HasSeen(c)
  <2>1. \A d \in Proc : pc'[d] \in {"mark", "enqueue"} => pc'[d] = pc[d] /\ call'[d] = call[d]
    BY <1>2, <1>c DEF HasSeen, Goto, With
  <2> QED BY <1>2, <2>1, <1>u, <1>c, QuietStep DEF HasSeen, db, life, memory
<1>3. CASE Lookup(c)
  <2>1. CASE call[c].cand = {}
    <3>1. Return(c)
      BY <1>3, <2>1 DEF Lookup
    <3> QED BY <1>3, <3>1, <1>r, <1>u, <1>c, QuietStep DEF Lookup, db, life, memory
  <2>2. CASE call[c].cand # {}
    <3> DEFINE found == call[c].cand \cap pages
               r == [call[c] EXCEPT !.found = found, !.cand = @ \ found]
    <3>1. r.cand = call[c].cand \ pages
      BY <1>c DEF Call
    <3>2. call' = [call EXCEPT ![c] = r] /\ \A d \in Proc : d # c => pc'[d] = pc[d]
      BY <1>3, <2>2, <1>c DEF Lookup, With, Goto
    <3> HIDE DEF r
    <3>3. call'[c].cand \cap known = {}
      BY <3>1, <3>2, <1>c DEF Dedup, KnownStored
    <3>4. \A d \in Proc : d # c => call'[d] = call[d]
      BY <3>2, <1>c
    <3> QED BY <1>3, <3>2, <3>3, <3>4, <1>u, <1>c, QuietStep DEF Lookup, db, life, memory
  <2> QED BY <2>1, <2>2
<1>4. CASE LookupFails(c)
  <2>1. fails' = fails + 1
    BY <1>4 DEF LookupFails, Failure
  <2>2. fails' \in Nat /\ fails <= fails' /\ ~(fails' = 1 /\ fails = 1)
    BY <2>1, <1>c
  <2> QED BY <1>4, <2>2, <1>u, QuietStep DEF LookupFails, db, life, memory
<1>5. CASE MarkFound(c)
  <2>1. bloom \subseteq bloom'
    BY <1>5 DEF MarkFound, AddString
  <2>2. CASE call[c].cand = {}
    <3>1. Return(c)
      BY <1>5, <2>2 DEF MarkFound
    <3> QED BY <1>5, <2>1, <3>1, <1>r, <1>u, <1>c, QuietStep DEF MarkFound, db, life
  <2>3. CASE call[c].cand # {}
    <3> DEFINE r == [call[c] EXCEPT !.found = {}]
    <3>1. r.cand = call[c].cand
      BY <1>c DEF Call
    <3>2. call' = [call EXCEPT ![c] = r] /\ pc[c] = "mark" /\ \A d \in Proc : d # c => pc'[d] = pc[d]
      BY <1>5, <2>3, <1>c DEF MarkFound, With, Goto
    <3> HIDE DEF r
    <3>3. \A d \in Proc : call'[d].cand = call[d].cand
      BY <3>1, <3>2, <1>c
    <3> QED BY <1>5, <2>1, <3>2, <3>3, <1>u, <1>c, QuietStep DEF MarkFound, db, life
  <2> QED BY <2>2, <2>3
<1>6. CASE EnqueueNew(c)
  <2>1. PICK new \in SUBSET call[c].cand :
          /\ Fresh(call[c].cand, new)
          /\ IF new = {} THEN UNCHANGED bloom ELSE AddString(Keys(new))
          /\ admitted' = [u \in Url |-> admitted[u] + OncePer(new)[u]]
    BY <1>6 DEF EnqueueNew
  <2>2. bloom \subseteq bloom' /\ \A u \in new : KeyOf[u] \in bloom'
    BY <2>1 DEF AddString, Keys
  <2>3. UNCHANGED <<pages, known, fails, up>> /\ pc[c] = "enqueue"
    BY <1>6 DEF EnqueueNew, db, life
  <2>a. \A u \in Url : admitted[u] \in Nat /\ admitted'[u] = IF u \in new THEN admitted[u] + 1 ELSE admitted[u]
    BY <2>1 DEF OncePer, TypeOK
  <2>4. AdmittedSeen' /\ KnownStored' /\ DownIsIdle'
    BY <2>a, <2>2, <2>3, <1>u DEF Dedup, AdmittedSeen, KnownStored, DownIsIdle
  <2>5. AdmittedOnce'
    <3>1. \A u \in new \cap Url : admitted[u] = 0
      BY <2>1, <2>a DEF Dedup, AdmittedSeen, Fresh
    <3> QED BY <2>a, <3>1 DEF Dedup, AdmittedOnce
  <2>6. fails <= 1 => new \cap known = {}
    BY <2>1, <2>3, <1>u, <1>c DEF Dedup, TwoStages, Fresh
  <2>7. KnownNotAdmitted'
    BY <2>a, <2>3, <2>6 DEF Dedup, KnownNotAdmitted, KnownStored, TypeOK
  <2>8. TwoStages'
    <3>1. Return(c)
      BY <1>6 DEF EnqueueNew
    <3> QED BY <2>2, <2>3, <3>1, <1>r, <1>u DEF Dedup, TwoStages
  <2> QED BY <2>4, <2>5, <2>7, <2>8 DEF Dedup
<1> QED BY <1>1, <1>2, <1>3, <1>4, <1>5, <1>6 DEF CallStep

\* Where a new call leaves a goroutine: not behind a lookup.
LEMMA BeginNotBehind ==
  ASSUME TypeOK, NEW c \in Proc, NEW k, NEW j, NEW ls,
         Begin(c, k, j, ls) \/ BeginBatch(c, ls)
  PROVE  \A d \in Proc : pc'[d] \in {"mark", "enqueue"} => pc'[d] = pc[d] /\ call'[d] = call[d]
BY DEF TypeOK, Begin, BeginBatch, Goto, With

\* Crawling.
LEMMA CrawlStepDedup ==
  ASSUME TypeOK, InHand, Dedup, NEW c \in Proc, CrawlStep(c)
  PROVE  Dedup'
<1>f. TypeOK'
  BY CrawlStepType
<1>u. up # "down" /\ up' = up
  <2>1. up = "running" \/ pc[c] # "idle"
    BY DEF CrawlStep, Dequeue, GiveUp, Retry, PersistPage, CrawlResource, UpsertDiscoveredResource
  <2>2. up' = up
    BY DEF CrawlStep, Dequeue, GiveUp, Retry, PersistPage, CrawlResource,
       UpsertDiscoveredResource, life
  <2> QED BY <2>1, <2>2, LiveCall
<1>q. UNCHANGED <<bloom, known, admitted, pages>>
  BY DEF CrawlStep, Dequeue, GiveUp, Retry, PersistPage, CrawlResource,
     UpsertDiscoveredResource, life, db, memory
<1>e. fails' = fails \/ fails' = fails + 1
  BY DEF CrawlStep, Dequeue, GiveUp, Retry, PersistPage, CrawlResource,
     UpsertDiscoveredResource, Failure
<1>n. fails <= fails' /\ fails' \in Nat
  BY <1>e, <1>f DEF TypeOK
<1>p. \A d \in Proc : pc'[d] \in {"mark", "enqueue"} => pc'[d] = pc[d] /\ call'[d] = call[d]
  <2>1. ASSUME NEW l \in {"idle", "crawl"}, NEW r, Goto(c, l), With(c, r)
        PROVE  \A d \in Proc : pc'[d] \in {"mark", "enqueue"} => pc'[d] = pc[d] /\ call'[d] = call[d]
    BY <2>1 DEF TypeOK, Goto, With
  <2>2. CASE \E u \in Url : Dequeue(c, u)
    BY <2>1, <2>2 DEF Dequeue
  <2>3. CASE GiveUp(c) \/ Retry(c) \/ UpsertDiscoveredResource(c)
    BY <2>1, <2>3 DEF GiveUp, Retry, UpsertDiscoveredResource
  <2>4. CASE \E u \in Url, links \in LinkSets : PersistPage(c, u, links)
    BY <2>4, BeginNotBehind DEF PersistPage
  <2>5. CASE \E links \in LinkSets : CrawlResource(c, links)
    BY <2>5, BeginNotBehind DEF CrawlResource
  <2> QED BY <2>2, <2>3, <2>4, <2>5 DEF CrawlStep
<1> QED BY <1>u, <1>q, <1>n, <1>p, QuietStep

\* Requests, the batch writer, start-up and the end of the process.
LEMMA OtherStepDedup ==
  ASSUME TypeOK, InHand, Dedup,
         \/ RequestStep \/ Flush
         \/ seedBloomFilter \/ (\E u \in Seed : SeedFromConfig(u)) \/ StartComponents \/ Exit
  PROVE  Dedup'
<1> DEFINE NotBehind ==
      \A d \in Proc : pc'[d] \in {"mark", "enqueue"} => pc'[d] = pc[d] /\ call'[d] = call[d]
<1>f. fails \in Nat /\ fails' \in Nat
  BY OtherStepType DEF TypeOK
<1>1. CASE RequestStep
  <2>1. /\ up # "down" /\ UNCHANGED <<up, bloom, known, admitted, fails>> /\ pages \subseteq pages'
    BY <1>1 DEF RequestStep, AddSeed, IngestPage, AddBatchDirect, Request, db, memory, life
  <2>2. NotBehind
    <3>1. CASE \E c \in Caller, u \in Url : AddSeed(c, u)
      BY <3>1, BeginNotBehind DEF AddSeed, Proc
    <3>2. CASE \E c \in Caller, u \in Url, links \in LinkSets : IngestPage(c, u, links)
      BY <3>2, BeginNotBehind DEF IngestPage, Proc
    <3>3. CASE \E us \in LinkSets \ {{}} : AddBatchDirect(us)
      BY <3>3 DEF AddBatchDirect
    <3> QED BY <1>1, <3>1, <3>2, <3>3 DEF RequestStep
  <2> QED BY <2>1, <2>2, <1>f, QuietStep
<1>2. CASE Flush
  BY <1>2, <1>f, QuietStep DEF Flush, life
<1>3. CASE StartComponents
  BY <1>3, <1>f, QuietStep DEF StartComponents, db, memory
<1>4. CASE \E u \in Seed : SeedFromConfig(u)
  <2>1. PICK u \in Seed : SeedFromConfig(u)
    BY <1>4
  <2>2. up # "down" /\ UNCHANGED <<up, bloom, known, admitted, pages>> /\ fails <= fails'
    BY <2>1, <1>f DEF SeedFromConfig, Failure, db, memory
  <2>3. NotBehind
    BY <2>1, BeginNotBehind DEF SeedFromConfig, Proc
  <2> QED BY <2>2, <2>3, <1>f, QuietStep
<1>5. CASE seedBloomFilter
  <2>1. /\ admitted' = Nowhere /\ known' = pages /\ pages' = pages /\ up' = "seeding"
        /\ UNCHANGED <<pc, call>> /\ \A c \in Proc : pc[c] = "idle"
    BY <1>5 DEF seedBloomFilter, db, Dedup, DownIsIdle
  <2>2. (\A u \in pages : KeyOf[u] \in bloom') \/ fails' = 1
    BY <1>5 DEF seedBloomFilter, Keys
  <2> QED BY <2>1, <2>2 DEF Dedup, AdmittedSeen, KnownStored, DownIsIdle, TwoStages,
             AdmittedOnce, KnownNotAdmitted, Nowhere, TypeOK
<1>6. CASE Exit
  BY <1>6 DEF Exit, db, Dedup, AdmittedSeen, KnownStored, DownIsIdle, TwoStages,
     AdmittedOnce, KnownNotAdmitted, Nowhere, TypeOK
<1> QED BY <1>1, <1>2, <1>3, <1>4, <1>5, <1>6

-----------------------------------------------------------------------------
(* The theorems.                                                           *)

LEMMA NextInv == IInv /\ [Next]_vars => IInv'
<1> SUFFICES ASSUME IInv, [Next]_vars PROVE IInv'
  OBVIOUS
<1>t. TypeOK /\ InHand /\ Dedup
  BY DEF IInv
<1>1. CASE UNCHANGED vars
  BY <1>1 DEF vars, db, memory, life, IInv, TypeOK, InHand, Dedup, AdmittedSeen, KnownStored,
     DownIsIdle, TwoStages, AdmittedOnce, KnownNotAdmitted
<1>2. ASSUME NEW c \in Proc, CallStep(c) PROVE IInv'
  BY <1>2, <1>t, CallStepType, CallStepDedup DEF IInv
<1>3. ASSUME NEW c \in Proc, CrawlStep(c) PROVE IInv'
  BY <1>3, <1>t, CrawlStepType, CrawlStepDedup DEF IInv
<1>4. CASE \/ RequestStep \/ Flush
           \/ seedBloomFilter \/ (\E u \in Seed : SeedFromConfig(u)) \/ StartComponents \/ Exit
  BY <1>4, <1>t, OtherStepType, OtherStepDedup DEF IInv
<1> QED BY <1>1, <1>2, <1>3, <1>4 DEF Next

LEMMA Inductive == Spec => []IInv
<1>1. Init => IInv
  BY InitInv
<1>2. IInv /\ [Next]_vars => IInv'
  BY NextInv
<1> QED BY <1>1, <1>2, PTL DEF Spec

\* The frontier's state keeps its type; the count of queued jobs never falls
\* below zero.
THEOREM FrontierTypeCorrect == Spec => []TypeOK
<1>1. IInv => TypeOK
  BY DEF IInv
<1> QED BY <1>1, Inductive, PTL

\* In one life of the process Add and AddBatch let a URL in once, however many
\* goroutines find it unseen between the look at the filter and the queue.
THEOREM AdmittedAtMostOnce == Spec => []AdmittedOnce
<1>1. IInv => AdmittedOnce
  BY DEF IInv, Dedup
<1> QED BY <1>1, Inductive, PTL

\* A page stored before start-up comes back only after two storage errors.
THEOREM KnownStayOut == Spec => []KnownNotAdmitted
<1>1. IInv => KnownNotAdmitted
  BY DEF IInv, Dedup
<1> QED BY <1>1, Inductive, PTL
=============================================================================

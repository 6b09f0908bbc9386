---------------------------- MODULE StorageProofs ---------------------------
(* Theorems about the storage.  PageStore: for every set of URLs, images and *)
(* writers, every batch size and every number of failures.  Search: for      *)
(* every number of clients, every set of pages and texts and whatever they   *)
(* match and are worth.                                                      *)
EXTENDS PageStore, Search, FiniteSetTheorems, SequenceTheorems, TLAPS

-----------------------------------------------------------------------------
(* PageStore: the inductive invariant.                                     *)

\* A table of pages with its counter: no ID is beyond it or of two pages.
IDsOf(tab, last) ==
  /\ \A u \in Url : tab[u].id <= last
  /\ \A u, v \in Url : tab[u].id # 0 /\ tab[u].id = tab[v].id => u = v

IDsOK == IDsOf(pages, lastID) /\ IDsOf(flush.pages, flush.lastID)

\* Tables that agree on the pages of the first; the IDs of the others are new.
Extends(tab, last, tab2) ==
  \A u \in Url : IF tab[u].id # 0 THEN tab2[u].id = tab[u].id
                 ELSE tab2[u].id = 0 \/ tab2[u].id > last

\* The transaction of a flush starts from what is committed, and nobody commits
\* before it ends.
FlushExtends ==
  ~Unlocked => phase = "run" /\ lastID <= flush.lastID /\ Extends(pages, lastID, flush.pages)

\* An image's page has its ID, or the ID belongs to no page any more.
ImageOf(i, tab) ==
  \A u \in Url : images[i].id # 0 /\ images[i].id = tab[u].id => images[i].page = u
ImagesKnown == \A i \in Image : images[i].id <= lastID /\ ImageOf(i, pages)

\* The pages a flush has yet to upsert.
Todo(f) == {f.todo[k] : k \in 1..Len(f.todo)}

\* A flush deals with every page it found buffered.
BatchCovered ==
  ~Unlocked => \A v \in Version : Buffered(v) => v \in flush.done \cup flush.bad \cup Todo(flush)
AllDone == flush.step = "commit" => flush.todo = <<>>

LinkRowOf(tab, l) == [source |-> tab[l.url].id, owner |-> l.url, ver |-> l.ver]

\* Between the two commits of a flush graph.db has the buffered links under the
\* IDs content.db is about to get.
Relinked ==
  flush.step = "commit" =>
    \A l \in bufLinks : flush.pages[l.url].id # 0 =>
      LinkRowOf(flush.pages, l) \in links \/ l \in replaced

\* Pages and links are accepted only while the engine runs.
NothingOwed == phase # "run" => owedPages = {} /\ owedLinks = {} /\ writing = {}

Purging == phase \in {"purge images", "purge pages", "purge links"} => purging # <<>>

IInv ==
  /\ TypeOK /\ IDsOK /\ FlushExtends /\ ImagesKnown /\ BatchCovered /\ AllDone
  /\ Relinked /\ NothingOwed /\ Purging /\ NoPageLost /\ LinksComplete

\* The invariant says of images what the property says.
LEMMA InvImages == IInv => ImagesBelong
<1> SUFFICES ASSUME IInv, NEW u \in Url, pages[u].id # 0
             PROVE  /\ \A v \in Url : pages[v].id = pages[u].id => v = u
                    /\ \A i \in Image : images[i].id = pages[u].id => images[i].page = u
  BY DEF ImagesBelong
<1>1. \A v \in Url : pages[v].id = pages[u].id => v = u
  BY DEF IInv, IDsOK, IDsOf
<1>2. \A i \in Image : images[i].id = pages[u].id => images[i].page = u
  BY DEF IInv, ImagesKnown, ImageOf
<1> QED BY <1>1, <1>2

FlushRecord ==
  [step : {"idle", "pages", "commit"}, todo : Seq(Version), pages : [Url -> Row], lastID : Nat,
   done : SUBSET Version, bad : SUBSET Version]

\* No flush is a flush.
LEMMA NoFlushType == NoFlush \in FlushRecord /\ NoFlush.step = "idle"
BY EmptySeq DEF NoFlush, FlushRecord, Row

\* The initial states satisfy the invariant.
LEMMA InitInv == Init => IInv
<1> SUFFICES ASSUME Init PROVE IInv
  OBVIOUS
<1>1. TypeOK
  <2>1. flush \in FlushRecord
    BY NoFlushType DEF Init
  <2>2. bufPages \in Seq(Version) /\ purging \in Seq(Url)
    BY EmptySeq DEF Init
  <2> QED BY <2>1, <2>2 DEF Init, TypeOK, FlushRecord, Row, Picture, NoImages
<1>2. flush.step = "idle" /\ flush.lastID = 0 /\ \A u \in Url : flush.pages[u].id = 0
  BY DEF Init, NoFlush
<1>3. IDsOK /\ FlushExtends /\ ImagesKnown
  BY <1>2 DEF Init, IDsOK, IDsOf, FlushExtends, Unlocked, ImagesKnown, ImageOf
<1>4. BatchCovered /\ AllDone /\ Relinked /\ NothingOwed /\ Purging
  BY <1>2 DEF Init, BatchCovered, Unlocked, AllDone, Relinked, NothingOwed, Purging
<1>5. NoPageLost /\ LinksComplete
  BY DEF Init, NoPageLost, LinksComplete
<1> QED BY <1>1, <1>3, <1>4, <1>5 DEF IInv

-----------------------------------------------------------------------------
(* PageStore: lemmas about its operators.                                  *)

\* A page appended to the buffer is buffered, and so are those before it.
LEMMA AppendBuffers ==
  ASSUME NEW s \in Seq(Version), NEW v \in Version
  PROVE  /\ Append(s, v) \in Seq(Version)
         /\ \A x : (\E k \in 1..Len(Append(s, v)) : Append(s, v)[k] = x)
                     <=> x = v \/ \E k \in 1..Len(s) : s[k] = x
<1>1. /\ Append(s, v) \in Seq(Version) /\ Len(Append(s, v)) = Len(s) + 1
      /\ \A k \in 1..Len(s) : Append(s, v)[k] = s[k]
      /\ Append(s, v)[Len(s) + 1] = v
  BY AppendProperties
<1>2. Len(s) \in Nat
  BY LenProperties
<1> QED BY <1>1, <1>2

\* Taking the head off loses nothing but the head.
LEMMA TailTodo ==
  ASSUME NEW S, NEW s \in Seq(S), s # <<>>
  PROVE  /\ Head(s) \in S /\ Tail(s) \in Seq(S)
         /\ {s[k] : k \in 1..Len(s)} = {Head(s)} \cup {Tail(s)[k] : k \in 1..Len(Tail(s))}
<1>1. /\ Head(s) \in S /\ Head(s) = s[1] /\ Tail(s) \in Seq(S) /\ Len(Tail(s)) = Len(s) - 1
      /\ \A k \in 1..Len(Tail(s)) : Tail(s)[k] = s[k + 1]
  BY HeadTailProperties, ElementOfSeq
<1>2. Len(s) \in Nat /\ Len(s) # 0
  BY LenProperties, EmptySeq
<1>3. \A k \in 1..Len(s) : k = 1 \/ (k - 1 \in 1..Len(Tail(s)) /\ s[k] = Tail(s)[k - 1])
  BY <1>1, <1>2
<1>4. \A k \in 1..Len(Tail(s)) : k + 1 \in 1..Len(s)
  BY <1>1, <1>2
<1>5. ASSUME NEW x PROVE (\E k \in 1..Len(s) : s[k] = x)
                            <=> x = Head(s) \/ \E k \in 1..Len(Tail(s)) : Tail(s)[k] = x
  <2>1. 1 \in 1..Len(s)
    BY <1>2
  <2> QED BY <2>1, <1>1, <1>3, <1>4
<1> QED BY <1>1, <1>5

\* An upsert keeps the IDs there are and gives a new page one nobody had.
LEMMA UpsertIDs ==
  ASSUME NEW tab \in [Url -> Row], NEW last \in Nat, NEW v \in Version, IDsOf(tab, last)
  PROVE  /\ Upsert(tab, last, v) \in [Url -> Row]
         /\ NextID(tab, last, v) \in Nat /\ last <= NextID(tab, last, v)
         /\ IDsOf(Upsert(tab, last, v), NextID(tab, last, v))
         /\ Extends(tab, last, Upsert(tab, last, v))
         /\ Upsert(tab, last, v)[v.url].id # 0
<1> DEFINE new == Upsert(tab, last, v)
           next == NextID(tab, last, v)
<1>1. v.url \in Url /\ v.ver \in Nat
  BY DEF Version
<1>2. \A u \in Url : tab[u] \in Row /\ tab[u].id \in Nat /\ tab[u].id <= last
  BY DEF IDsOf, Row
<1>3. new \in [Url -> Row]
  BY <1>1, <1>2 DEF Upsert, Row
<1>4. next \in Nat /\ last <= next
  BY DEF NextID
<1>5. \A u \in Url : new[u].id = IF u = v.url /\ tab[u].id = 0 THEN last + 1 ELSE tab[u].id
  BY <1>1, <1>2 DEF Upsert
<1>6. Extends(tab, last, new) /\ new[v.url].id # 0
  BY <1>1, <1>2, <1>5 DEF Extends
<1>7. IDsOf(new, next)
  <2>1. \A u \in Url : new[u].id <= next
    BY <1>1, <1>2, <1>5 DEF NextID
  <2>2. \A u, w \in Url : new[u].id # 0 /\ new[u].id = new[w].id => u = w
    <3>1. \A u, w \in Url : tab[u].id # 0 /\ tab[u].id = tab[w].id => u = w
      BY DEF IDsOf
    <3> QED BY <3>1, <1>2, <1>5
  <2> QED BY <2>1, <2>2 DEF IDsOf
<1> QED BY <1>3, <1>4, <1>6, <1>7

\* What extends a table's extension by IDs that are new to it extends the table.
LEMMA ExtendsFurther ==
  ASSUME NEW t1 \in [Url -> Row], NEW t2 \in [Url -> Row], NEW t3 \in [Url -> Row],
         NEW n \in Nat, NEW m \in Nat, n <= m, Extends(t1, n, t2), Extends(t2, m, t3)
  PROVE  Extends(t1, n, t3)
<1>1. \A u \in Url : t1[u].id \in Nat /\ t2[u].id \in Nat /\ t3[u].id \in Nat
  BY DEF Row
<1> QED BY <1>1 DEF Extends

\* An order of finitely many URLs is a sequence of URLs.
LEMMA OrderIsSeq ==
  ASSUME NEW bs \in SUBSET Url, IsFiniteSet(bs), NEW order \in SetToSeqs(bs)
  PROVE  order \in Seq(Url) /\ Range(order) \subseteq Url
<1>1. Cardinality(bs) \in Nat
  BY FS_CardinalityType
<1>2. order \in [1..Cardinality(bs) -> bs]
  BY DEF SetToSeqs
<1>3. order \in [1..Cardinality(bs) -> Url]
  BY <1>2
<1> QED BY <1>1, <1>2, <1>3 DEF Range

-----------------------------------------------------------------------------
(* PageStore: steps of the workers.                                        *)

\* What a step keeps that changes neither content.db nor the flush nor the
\* process.
LEMMA TablesKept ==
  IInv /\ UNCHANGED <<pages, lastID, images, flush, phase, purging>>
    => (IDsOK /\ FlushExtends /\ ImagesKnown /\ AllDone /\ Purging)'
<1> SUFFICES ASSUME IInv, UNCHANGED <<pages, lastID, images, flush, phase, purging>>
             PROVE  (IDsOK /\ FlushExtends /\ ImagesKnown /\ AllDone /\ Purging)'
  OBVIOUS
<1> USE DEF IInv
<1>1. IDsOK'
  BY DEF IDsOK, IDsOf
<1>2. FlushExtends'
  BY DEF FlushExtends, Extends, Unlocked
<1>3. ImagesKnown'
  BY DEF ImagesKnown, ImageOf
<1>4. AllDone' /\ Purging'
  BY DEF AllDone, Purging
<1> QED BY <1>1, <1>2, <1>3, <1>4

\* A worker's step keeps the invariant.
LEMMA WritePageInv ==
  ASSUME IInv, NEW u \in Url, WritePage(u)
  PROVE  IInv'
<1> DEFINE v == [url |-> u, ver |-> ver + 1]
<1> USE DEF IInv
<1>1. ver \in Nat /\ v \in Version
  <2>1. ver \in Nat
    BY DEF TypeOK
  <2> QED BY <2>1 DEF Version
<1>2. /\ bufPages' \in Seq(Version)
      /\ \A x : Buffered(x)' <=> x = v \/ Buffered(x)
  <2>1. bufPages \in Seq(Version) /\ bufPages' = Append(bufPages, v)
    BY DEF TypeOK, WritePage
  <2> QED BY <1>1, <2>1, AppendBuffers DEF Buffered
<1>3. TypeOK'
  BY <1>1, <1>2 DEF TypeOK, WritePage, content, process
<1>4. (IDsOK /\ FlushExtends /\ ImagesKnown /\ AllDone /\ Purging)'
  BY TablesKept DEF WritePage, content, process
<1>5. BatchCovered' /\ Relinked'
  BY DEF WritePage, BatchCovered, Relinked, Unlocked
<1>6. NothingOwed'
  BY DEF WritePage, NothingOwed, process
<1>7. NoPageLost'
  BY <1>2 DEF WritePage, NoPageLost
<1>8. LinksComplete'
  BY DEF WritePage, LinksComplete, content
<1> QED BY <1>3, <1>4, <1>5, <1>6, <1>7, <1>8

LEMMA WriteLinksInv ==
  ASSUME IInv, NEW w, NEW some \in BOOLEAN, WriteLinks(w, some)
  PROVE  IInv'
<1> USE DEF IInv
<1>1. w \in writing /\ w.page \in Version /\ phase = "run"
  BY DEF TypeOK, WriteLinks, NothingOwed
<1>2. UNCHANGED <<pages, lastID, images, links, bufPages, bufImages, flush, ingesting, phase,
                  banned, purging, starts, ver, fails, owedPages, applied, replaced>>
  BY DEF WriteLinks, content, process
<1>3. \/ bufLinks' = bufLinks /\ owedLinks' = owedLinks
      \/ Unlocked /\ bufLinks' = bufLinks \cup {w.page} /\ owedLinks' = owedLinks \cup {w.page}
  BY DEF WriteLinks
<1>4. TypeOK'
  <2>1. writing' \subseteq [page : Version, next : {"links", "images"}]
    BY <1>1 DEF TypeOK, WriteLinks, Proceed
  <2> QED BY <1>1, <1>2, <1>3, <2>1 DEF TypeOK
<1>5. (IDsOK /\ FlushExtends /\ ImagesKnown /\ AllDone /\ Purging)'
  BY <1>2, TablesKept
<1>6. BatchCovered' /\ NoPageLost'
  BY <1>2 DEF BatchCovered, NoPageLost, Unlocked, Buffered, Todo
<1>7. Relinked'
  BY <1>2, <1>3 DEF Relinked, Unlocked, LinkRowOf
<1>8. NothingOwed'
  BY <1>1, <1>2 DEF NothingOwed
<1>9. LinksComplete'
  BY <1>2, <1>3 DEF LinksComplete
<1> QED BY <1>4, <1>5, <1>6, <1>7, <1>8, <1>9

LEMMA WriteImagesInv ==
  ASSUME IInv, NEW w, NEW some \in SUBSET Image, WriteImages(w, some)
  PROVE  IInv'
<1> USE DEF IInv
<1>1. w \in writing /\ w.page \in Version /\ phase = "run"
  BY DEF TypeOK, WriteImages, NothingOwed
<1>2. UNCHANGED <<pages, lastID, images, links, bufPages, bufLinks, flush, ingesting, phase,
                  banned, purging, starts, ver, fails, owedPages, owedLinks, applied, replaced>>
  BY DEF WriteImages, content, process, history
<1>3. TypeOK'
  <2>1. bufImages' \in [Image -> Url \cup {NoUrl}]
    BY <1>1 DEF TypeOK, WriteImages, Version
  <2>2. writing' \subseteq [page : Version, next : {"links", "images"}]
    BY DEF TypeOK, WriteImages
  <2> QED BY <1>2, <2>1, <2>2 DEF TypeOK
<1>4. (IDsOK /\ FlushExtends /\ ImagesKnown /\ AllDone /\ Purging)'
  BY <1>2, TablesKept
<1>5. BatchCovered' /\ NoPageLost' /\ Relinked' /\ LinksComplete'
  BY <1>2 DEF BatchCovered, NoPageLost, Unlocked, Buffered, Todo, Relinked, LinkRowOf, LinksComplete
<1>6. NothingOwed'
  BY <1>1, <1>2 DEF NothingOwed
<1> QED BY <1>3, <1>4, <1>5, <1>6

-----------------------------------------------------------------------------
(* PageStore: steps of a flush.                                            *)

\* What a step of a flush keeps that commits nothing.
LEMMA OnlyFlush ==
  ASSUME IInv, flush' \in FlushRecord,
         UNCHANGED <<content, links, buffers, calls, process, ver, owedPages, owedLinks,
                     applied, replaced>>, fails' \in Nat
  PROVE  (TypeOK /\ ImagesKnown /\ NothingOwed /\ Purging /\ NoPageLost /\ LinksComplete)'
<1> USE DEF IInv, content, buffers, calls, process
<1>1. TypeOK'
  BY DEF TypeOK, FlushRecord
<1>2. ImagesKnown'
  BY DEF ImagesKnown, ImageOf
<1>3. NothingOwed' /\ Purging' /\ NoPageLost'
  BY DEF NothingOwed, Purging, NoPageLost, Buffered
<1>4. LinksComplete'
  BY DEF LinksComplete
<1> QED BY <1>1, <1>2, <1>3, <1>4

\* What the type says of the flush and of the tables.
LEMMA FlushTypes ==
  TypeOK => /\ flush \in FlushRecord /\ pages \in [Url -> Row] /\ lastID \in Nat
            /\ fails \in Nat /\ bufPages \in Seq(Version)
BY DEF TypeOK, FlushRecord

LEMMA FailsType == TypeOK /\ Fails => fails' \in Nat
BY FlushTypes DEF Fails

\* The head of the batch is dealt with.
LEMMA TodoTail ==
  ASSUME flush.todo \in Seq(Version), flush.todo # <<>>, flush'.todo = Tail(flush.todo)
  PROVE  Todo(flush) = {Head(flush.todo)} \cup Todo(flush')
<1> DEFINE s == flush.todo
<1>1. {s[k] : k \in 1..Len(s)} = {Head(s)} \cup {Tail(s)[k] : k \in 1..Len(Tail(s))}
  BY TailTodo
<1>2. Todo(flush) = {s[k] : k \in 1..Len(s)}
  BY DEF Todo
<1>3. Todo(flush') = {Tail(s)[k] : k \in 1..Len(Tail(s))}
  BY DEF Todo
<1> QED BY <1>1, <1>2, <1>3

\* A flush that begins has its tables and its batch from what is there.
LEMMA BeginFlushInv == IInv /\ BeginFlush => IInv'
<1> SUFFICES ASSUME IInv, BeginFlush PROVE IInv'
  OBVIOUS
<1> USE DEF IInv
<1>1. /\ phase = "run" /\ Unlocked
      /\ flush' = [step |-> "pages", todo |-> bufPages, pages |-> pages,
                   lastID |-> lastID, done |-> {}, bad |-> {}]
      /\ UNCHANGED <<content, links, buffers, calls, process, ver, fails, history>>
  BY DEF BeginFlush
<1>2. flush' \in FlushRecord
  BY <1>1, FlushTypes DEF FlushRecord
<1>3. (TypeOK /\ ImagesKnown /\ NothingOwed /\ Purging /\ NoPageLost /\ LinksComplete)'
  BY <1>1, <1>2, OnlyFlush, FlushTypes DEF history
<1>4. /\ flush'.step = "pages" /\ flush'.todo = bufPages /\ flush'.pages = pages
      /\ flush'.lastID = lastID
      /\ UNCHANGED <<pages, lastID, bufPages, phase>>
  BY <1>1 DEF content, buffers, process
<1>5. IDsOK'
  BY <1>4 DEF IDsOK, IDsOf
<1>6. FlushExtends'
  BY <1>1, <1>4, FlushTypes DEF FlushExtends, Extends
<1>7. BatchCovered'
  BY <1>4 DEF BatchCovered, Buffered, Todo
<1>8. AllDone' /\ Relinked'
  BY <1>4 DEF AllDone, Relinked
<1> QED BY <1>3, <1>5, <1>6, <1>7, <1>8

\* A page of the batch is upserted in the transaction.
LEMMA FlushPageInv == IInv /\ FlushPage => IInv'
<1> SUFFICES ASSUME IInv, FlushPage PROVE IInv'
  OBVIOUS
<1> USE DEF IInv
<1> DEFINE v == Head(flush.todo)
           new == Upsert(flush.pages, flush.lastID, v)
           next == NextID(flush.pages, flush.lastID, v)
<1>1. /\ flush \in FlushRecord /\ flush.step = "pages" /\ flush.todo # <<>>
      /\ UNCHANGED <<content, links, buffers, calls, process, ver, fails, history>>
  BY FlushTypes DEF FlushPage
<1>2. /\ flush.todo \in Seq(Version) /\ flush.pages \in [Url -> Row] /\ flush.lastID \in Nat
      /\ flush.done \subseteq Version /\ flush.bad \subseteq Version
  BY <1>1 DEF FlushRecord
<1>3. v \in Version /\ Tail(flush.todo) \in Seq(Version)
  BY <1>1, <1>2, TailTodo
<1>4. flush' = [flush EXCEPT !.todo = Tail(flush.todo), !.done = flush.done \cup {v},
                             !.pages = new, !.lastID = next]
  BY DEF FlushPage
<1>5. /\ flush'.step = "pages" /\ flush'.todo = Tail(flush.todo)
      /\ flush'.done = flush.done \cup {v} /\ flush'.bad = flush.bad
      /\ flush'.pages = new /\ flush'.lastID = next
  BY <1>1, <1>4 DEF FlushRecord
<1>6. /\ new \in [Url -> Row] /\ next \in Nat /\ flush.lastID <= next
      /\ IDsOf(new, next) /\ Extends(flush.pages, flush.lastID, new)
  BY <1>2, <1>3, UpsertIDs DEF IDsOK
<1> HIDE DEF v, new, next
<1>7. flush' \in FlushRecord
  BY <1>1, <1>2, <1>3, <1>4, <1>6 DEF FlushRecord
<1>8. (TypeOK /\ ImagesKnown /\ NothingOwed /\ Purging /\ NoPageLost /\ LinksComplete)'
  BY <1>1, <1>7, OnlyFlush, FlushTypes DEF history
<1>9. IDsOK'
  <2>1. IDsOf(flush'.pages, flush'.lastID)
    BY <1>5, <1>6
  <2> QED BY <1>1, <2>1 DEF IDsOK, IDsOf, content
<1>10. FlushExtends'
  <2>1. phase = "run" /\ lastID <= flush.lastID /\ Extends(pages, lastID, flush.pages)
    BY <1>1 DEF FlushExtends, Unlocked
  <2>2. Extends(pages, lastID, new)
    BY <1>2, <1>6, <2>1, FlushTypes, ExtendsFurther
  <2>3. lastID <= next
    BY <1>2, <1>6, <2>1, FlushTypes
  <2> QED BY <1>1, <1>5, <2>1, <2>2, <2>3 DEF FlushExtends, Extends, content, process
<1>11. BatchCovered'
  <2>1. Todo(flush) = {v} \cup Todo(flush')
    BY <1>1, <1>2, <1>5, TodoTail DEF v
  <2>2. \A x \in Version : Buffered(x)' => x \in flush.done \cup flush.bad \cup Todo(flush)
    BY <1>1 DEF BatchCovered, Buffered, Unlocked, buffers
  <2> QED BY <1>5, <2>1, <2>2 DEF BatchCovered, Todo
<1>12. AllDone' /\ Relinked'
  BY <1>5 DEF AllDone, Relinked
<1> QED BY <1>8, <1>9, <1>10, <1>11, <1>12

\* A page that cannot be upserted is passed over.
LEMMA FlushPageFailsInv == IInv /\ FlushPageFails => IInv'
<1> SUFFICES ASSUME IInv, FlushPageFails PROVE IInv'
  OBVIOUS
<1> USE DEF IInv
<1> DEFINE v == Head(flush.todo)
<1>1. /\ flush \in FlushRecord /\ flush.step = "pages" /\ flush.todo # <<>> /\ Fails
      /\ UNCHANGED <<content, links, buffers, calls, process, ver, history>>
  BY FlushTypes DEF FlushPageFails
<1>2. flush.todo \in Seq(Version) /\ flush.bad \subseteq Version
  BY <1>1 DEF FlushRecord
<1>3. v \in Version /\ Tail(flush.todo) \in Seq(Version)
  BY <1>1, <1>2, TailTodo
<1>4. flush' = [flush EXCEPT !.todo = Tail(flush.todo), !.bad = flush.bad \cup {v}]
  BY DEF FlushPageFails
<1>5. /\ flush'.step = "pages" /\ flush'.todo = Tail(flush.todo)
      /\ flush'.done = flush.done /\ flush'.bad = flush.bad \cup {v}
      /\ flush'.pages = flush.pages /\ flush'.lastID = flush.lastID
  BY <1>1, <1>4 DEF FlushRecord
<1> HIDE DEF v
<1>6. flush' \in FlushRecord
  BY <1>1, <1>2, <1>3, <1>4 DEF FlushRecord
<1>7. (TypeOK /\ ImagesKnown /\ NothingOwed /\ Purging /\ NoPageLost /\ LinksComplete)'
  BY <1>1, <1>6, OnlyFlush, FailsType DEF history
<1>8. IDsOK'
  BY <1>1, <1>5 DEF IDsOK, IDsOf, content
<1>9. FlushExtends'
  BY <1>1, <1>5 DEF FlushExtends, Extends, Unlocked, content, process
<1>10. BatchCovered'
  <2>1. Todo(flush) = {v} \cup Todo(flush')
    BY <1>1, <1>2, <1>5, TodoTail DEF v
  <2>2. \A x \in Version : Buffered(x)' => x \in flush.done \cup flush.bad \cup Todo(flush)
    BY <1>1 DEF BatchCovered, Buffered, Unlocked, buffers
  <2> QED BY <1>5, <2>1, <2>2 DEF BatchCovered, Todo
<1>11. AllDone' /\ Relinked'
  BY <1>5 DEF AllDone, Relinked
<1> QED BY <1>7, <1>8, <1>9, <1>10, <1>11

\* A flush that fails commits nothing.
LEMMA FlushFailsInv == IInv /\ FlushFails => IInv'
<1> SUFFICES ASSUME IInv, FlushFails PROVE IInv'
  OBVIOUS
<1> USE DEF IInv
<1>1. /\ flush' = NoFlush /\ Fails
      /\ UNCHANGED <<content, links, buffers, calls, process, ver, history>>
  BY DEF FlushFails
<1>2. (TypeOK /\ ImagesKnown /\ NothingOwed /\ Purging /\ NoPageLost /\ LinksComplete)'
  BY <1>1, OnlyFlush, NoFlushType, FailsType DEF history
<1>3. flush'.step = "idle" /\ flush'.lastID = 0 /\ \A u \in Url : flush'.pages[u].id = 0
  BY <1>1 DEF NoFlush
<1>4. IDsOK'
  BY <1>1, <1>3 DEF IDsOK, IDsOf, content
<1>5. FlushExtends' /\ BatchCovered' /\ AllDone' /\ Relinked'
  BY <1>3 DEF FlushExtends, Unlocked, BatchCovered, AllDone, Relinked
<1> QED BY <1>2, <1>4, <1>5

\* The links of the batch replace those under the IDs of its pages; what is
\* deleted of a page with a row is noted as replaced.
LEMMA FlushLinksInv == IInv /\ FlushLinks => IInv'
<1> SUFFICES ASSUME IInv, FlushLinks PROVE IInv'
  OBVIOUS
<1> USE DEF IInv
<1> DEFINE ids == {SourceID(l.url) : l \in Resolved}
           new == {[source |-> SourceID(l.url), owner |-> l.url, ver |-> l.ver] : l \in Resolved}
           gone == {q \in links : q.source = SourceID(q.owner) /\ q.source \in ids}
<1>1. /\ flush \in FlushRecord /\ flush.step = "pages" /\ flush.todo = <<>> /\ ~Unlocked
      /\ flush' = [flush EXCEPT !.step = "commit"]
      /\ UNCHANGED <<content, buffers, calls, process, ver, fails, owedPages, owedLinks, applied>>
  BY FlushTypes DEF FlushLinks, Unlocked
<1>2. /\ links' = {r \in links : r.source \notin ids} \cup new
      /\ replaced' = replaced \cup {[url |-> r.owner, ver |-> r.ver] : r \in gone}
  BY DEF FlushLinks, Relink
<1>3. /\ flush'.step = "commit" /\ flush'.todo = flush.todo
      /\ flush'.done = flush.done /\ flush'.bad = flush.bad
      /\ flush'.pages = flush.pages /\ flush'.lastID = flush.lastID
      /\ flush' \in FlushRecord
  BY <1>1 DEF FlushRecord
<1>4. /\ bufLinks \subseteq Version /\ owedLinks \subseteq Version /\ links \subseteq LinkRow
      /\ pages \in [Url -> Row] /\ flush.pages \in [Url -> Row] /\ replaced \subseteq Version
  BY <1>1 DEF TypeOK, FlushRecord
<1>5. TypeOK'
  <2>1. links' \subseteq LinkRow
    <3>1. \A l \in Resolved : flush.pages[l.url].id \in Nat /\ l.url \in Url /\ l.ver \in Nat
      BY <1>4 DEF Resolved, Version, Row
    <3>2. new \subseteq LinkRow
      BY <3>1 DEF LinkRow, SourceID
    <3> QED BY <1>2, <1>4, <3>2
  <2>2. replaced' \subseteq Version
    BY <1>2, <1>4 DEF LinkRow, Version
  <2> QED BY <1>1, <1>3, <2>1, <2>2 DEF TypeOK, FlushRecord, content, buffers, calls, process
<1>6. IDsOK' /\ FlushExtends' /\ ImagesKnown' /\ AllDone' /\ Purging' /\ NothingOwed'
  <2>1. IDsOK' /\ ImagesKnown'
    BY <1>1, <1>3 DEF IDsOK, IDsOf, ImagesKnown, ImageOf, content
  <2>2. FlushExtends'
    BY <1>1, <1>3 DEF FlushExtends, Extends, content, process
  <2>3. AllDone' /\ Purging' /\ NothingOwed'
    BY <1>1, <1>3 DEF AllDone, Purging, NothingOwed, process, calls
  <2> QED BY <2>1, <2>2, <2>3
<1>7. BatchCovered' /\ NoPageLost'
  BY <1>1, <1>3 DEF BatchCovered, NoPageLost, Buffered, Todo, buffers
<1>8. Relinked'
  <2> SUFFICES ASSUME NEW l \in bufLinks, flush.pages[l.url].id # 0
               PROVE  LinkRowOf(flush.pages, l) \in links'
    BY <1>1, <1>3 DEF Relinked, LinkRowOf, buffers
  <2>1. l \in Resolved
    BY DEF Resolved, SourceID
  <2>2. LinkRowOf(flush.pages, l) \in new
    BY <2>1 DEF LinkRowOf, SourceID
  <2> QED BY <1>2, <2>2
<1>9. LinksComplete'
  <2> SUFFICES ASSUME NEW l \in owedLinks, l \notin bufLinks, l \notin replaced'
               PROVE  /\ pages[l.url].id # 0
                      /\ [source |-> pages[l.url].id, owner |-> l.url, ver |-> l.ver] \in links'
    BY <1>1 DEF LinksComplete, content, buffers
  <2> DEFINE r == [source |-> pages[l.url].id, owner |-> l.url, ver |-> l.ver]
  <2>1. pages[l.url].id # 0 /\ r \in links
    BY <1>2 DEF LinksComplete
  <2>2. l.url \in Url /\ l = [url |-> l.url, ver |-> l.ver]
    BY <1>4 DEF Version
  <2>3. r.source = SourceID(r.owner)
    BY <1>1, <2>1, <2>2 DEF FlushExtends, Extends, SourceID
  <2>4. r.source \notin ids
    <3> SUFFICES ASSUME r.source \in ids PROVE FALSE
      OBVIOUS
    <3>1. r \in gone
      BY <2>1, <2>3
    <3> HIDE DEF r, gone
    <3>2. [url |-> r.owner, ver |-> r.ver] \in {[url |-> q.owner, ver |-> q.ver] : q \in gone}
      BY <3>1
    <3>3. [url |-> r.owner, ver |-> r.ver] \in replaced'
      BY <1>2, <3>2
    <3> USE DEF r
    <3> QED BY <2>2, <3>3
  <2> QED BY <1>2, <2>1, <2>4
<1> QED BY <1>5, <1>6, <1>7, <1>8, <1>9

\* Both transactions are committed: every buffered page is applied or was
\* refused, every buffered link set has its rows.
LEMMA CommitContentInv == IInv /\ CommitContent => IInv'
<1> SUFFICES ASSUME IInv, CommitContent PROVE IInv'
  OBVIOUS
<1> USE DEF IInv
<1>1. /\ flush \in FlushRecord /\ flush.step = "commit" /\ flush.todo = <<>> /\ ~Unlocked
      /\ pages' = flush.pages /\ lastID' = flush.lastID /\ flush' = NoFlush
      /\ bufPages' = <<>> /\ bufLinks' = {} /\ bufImages' = NoImages
      /\ applied' = applied \cup flush.done /\ owedPages' = owedPages \ flush.bad
      /\ owedLinks' = owedLinks \ {l \in bufLinks : flush.pages[l.url].id = 0}
      /\ UNCHANGED <<links, calls, process, ver, fails, replaced>>
  BY FlushTypes DEF CommitContent, ClearBuffers, Unlocked, AllDone
<1>2. images' = [i \in Image |-> IF bufImages[i] = NoUrl THEN images[i]
                 ELSE [page |-> bufImages[i], id |-> flush.pages[bufImages[i]].id]]
  BY DEF CommitContent, ImagePageID, SourceID
<1>3. /\ images \in [Image -> Picture] /\ bufImages \in [Image -> Url \cup {NoUrl}]
      /\ pages \in [Url -> Row] /\ lastID \in Nat
      /\ bufLinks \subseteq Version /\ owedLinks \subseteq Version /\ owedPages \subseteq Version
      /\ applied \subseteq Version
  BY DEF TypeOK
<1>4. /\ flush.pages \in [Url -> Row] /\ flush.lastID \in Nat /\ flush.done \subseteq Version
  BY <1>1 DEF FlushRecord
<1>5. phase = "run" /\ lastID <= flush.lastID /\ Extends(pages, lastID, flush.pages)
  BY <1>1 DEF FlushExtends
<1>6. /\ \A i \in Image : images[i].id \in Nat /\ images[i].page \in Url \cup {NoUrl}
      /\ \A u \in Url : flush.pages[u].id \in Nat /\ pages[u].id \in Nat
  BY <1>3, <1>4 DEF Picture, Row
<1>7. TypeOK'
  <2>1. images' \in [Image -> Picture]
    BY <1>2, <1>3, <1>6 DEF Picture
  <2>2. bufPages' \in Seq(Version) /\ bufImages' \in [Image -> Url \cup {NoUrl}]
    BY <1>1, EmptySeq DEF NoImages
  <2>3. flush' \in FlushRecord
    BY <1>1, NoFlushType
  <2> QED BY <1>1, <1>3, <1>4, <2>1, <2>2, <2>3 DEF TypeOK, FlushRecord, calls, process
<1>8. flush'.step = "idle" /\ flush'.lastID = 0 /\ \A u \in Url : flush'.pages[u].id = 0
  BY <1>1 DEF NoFlush
<1>9. IDsOK'
  BY <1>1, <1>8 DEF IDsOK, IDsOf
<1>10. FlushExtends' /\ BatchCovered' /\ AllDone' /\ Relinked'
  BY <1>8 DEF FlushExtends, Unlocked, BatchCovered, AllDone, Relinked
<1>11. ImagesKnown'
  <2> SUFFICES ASSUME NEW i \in Image
               PROVE  /\ images'[i].id <= flush.lastID
                      /\ \A u \in Url : images'[i].id # 0 /\ images'[i].id = flush.pages[u].id
                                        => images'[i].page = u
    BY <1>1 DEF ImagesKnown, ImageOf
  <2>1. IDsOf(flush.pages, flush.lastID)
    BY DEF IDsOK
  <2>2. CASE bufImages[i] = NoUrl
    <3>1. images'[i] = images[i] /\ images[i].id <= lastID /\ ImageOf(i, pages)
      BY <1>2, <2>2 DEF ImagesKnown
    <3>2. images[i].id <= flush.lastID
      BY <1>3, <1>4, <1>5, <1>6, <3>1
    <3>3. ASSUME NEW u \in Url, images[i].id # 0, images[i].id = flush.pages[u].id
          PROVE  images[i].page = u
      <4>1. pages[u].id = flush.pages[u].id
        BY <1>3, <1>4, <1>5, <1>6, <3>1, <3>3 DEF Extends
      <4> QED BY <3>1, <3>3, <4>1 DEF ImageOf
    <3> QED BY <3>1, <3>2, <3>3
  <2>3. CASE bufImages[i] # NoUrl
    <3>1. bufImages[i] \in Url
      BY <1>3, <2>3
    <3>2. images'[i] = [page |-> bufImages[i], id |-> flush.pages[bufImages[i]].id]
      BY <1>2, <2>3
    <3> QED BY <2>1, <3>1, <3>2 DEF IDsOf
  <2> QED BY <2>2, <2>3
<1>12. NothingOwed' /\ Purging'
  BY <1>1, <1>5 DEF NothingOwed, Purging, process
<1>13. NoPageLost'
  <2> SUFFICES ASSUME NEW v \in owedPages, v \notin flush.bad, v \notin applied
               PROVE  v \in flush.done
    BY <1>1 DEF NoPageLost
  <2>1. Buffered(v) /\ v \in Version
    BY <1>3 DEF NoPageLost
  <2>2. Todo(flush) = {}
    BY <1>1, EmptySeq DEF Todo
  <2> QED BY <1>1, <2>1, <2>2 DEF BatchCovered
<1>14. LinksComplete'
  <2> SUFFICES ASSUME NEW l \in owedLinks, ~(l \in bufLinks /\ flush.pages[l.url].id = 0),
                      l \notin replaced
               PROVE  /\ flush.pages[l.url].id # 0
                      /\ [source |-> flush.pages[l.url].id, owner |-> l.url, ver |-> l.ver] \in links
    BY <1>1 DEF LinksComplete
  <2>1. l.url \in Url
    BY <1>3 DEF Version
  <2>2. CASE l \in bufLinks
    BY <1>1, <2>2 DEF Relinked, LinkRowOf
  <2>3. CASE l \notin bufLinks
    <3>1. /\ pages[l.url].id # 0
          /\ [source |-> pages[l.url].id, owner |-> l.url, ver |-> l.ver] \in links
      BY <2>3 DEF LinksComplete
    <3>2. flush.pages[l.url].id = pages[l.url].id
      BY <1>5, <2>1, <3>1 DEF Extends
    <3> QED BY <3>1, <3>2
  <2> QED BY <2>2, <2>3
<1> QED BY <1>7, <1>9, <1>10, <1>11, <1>12, <1>13, <1>14

-----------------------------------------------------------------------------
(* PageStore: steps of an ingest.                                          *)

\* An ingest between two flushes leaves the IDs there are as they are.
LEMMA IngestUpsertInv == ASSUME IInv, NEW u \in Url, IngestUpsert(u) PROVE IInv'
<1> USE DEF IInv
<1> DEFINE v == [url |-> u, ver |-> ver + 1]
           new == Upsert(pages, lastID, v)
           next == NextID(pages, lastID, v)
<1>1. /\ phase = "run" /\ Unlocked /\ ver' = ver + 1 /\ pages' = new /\ lastID' = next
      /\ applied' = applied \cup {v} /\ ingesting' = ingesting \cup {v}
      /\ UNCHANGED <<images, links, bufPages, bufLinks, bufImages, flush, writing, phase,
                     banned, purging, starts, fails, owedPages, owedLinks, replaced>>
  BY DEF IngestUpsert, buffers, process
<1>2. /\ ver \in Nat /\ pages \in [Url -> Row] /\ lastID \in Nat
      /\ images \in [Image -> Picture] /\ owedLinks \subseteq Version
  BY DEF TypeOK
<1>3. v \in Version
  BY <1>2 DEF Version
<1>4. /\ new \in [Url -> Row] /\ next \in Nat /\ lastID <= next
      /\ IDsOf(new, next) /\ Extends(pages, lastID, new)
  BY <1>2, <1>3, UpsertIDs DEF IDsOK
<1> HIDE DEF v, new, next
<1>5. \A x \in Url : pages[x].id \in Nat /\ new[x].id \in Nat
  BY <1>2, <1>4 DEF Row
<1>6. TypeOK'
  BY <1>1, <1>2, <1>3, <1>4 DEF TypeOK
<1>7. IDsOK'
  BY <1>1, <1>4 DEF IDsOK, IDsOf
<1>8. FlushExtends' /\ BatchCovered' /\ AllDone' /\ Relinked'
  BY <1>1 DEF FlushExtends, Unlocked, BatchCovered, AllDone, Relinked
<1>9. ImagesKnown'
  <2> SUFFICES ASSUME NEW i \in Image
               PROVE  /\ images[i].id <= next
                      /\ \A x \in Url : images[i].id # 0 /\ images[i].id = new[x].id
                                        => images[i].page = x
    BY <1>1 DEF ImagesKnown, ImageOf
  <2>1. images[i].id \in Nat /\ images[i].id <= lastID /\ ImageOf(i, pages)
    BY <1>2 DEF ImagesKnown, Picture
  <2>2. images[i].id <= next
    BY <1>2, <1>4, <2>1
  <2>3. ASSUME NEW x \in Url, images[i].id # 0, images[i].id = new[x].id
        PROVE  images[i].page = x
    <3>1. pages[x].id = new[x].id
      BY <1>2, <1>4, <1>5, <2>1, <2>3 DEF Extends
    <3> QED BY <2>1, <2>3, <3>1 DEF ImageOf
  <2> QED BY <2>2, <2>3
<1>10. NothingOwed' /\ Purging' /\ NoPageLost'
  BY <1>1 DEF NothingOwed, Purging, NoPageLost, Buffered
<1>11. LinksComplete'
  <2> SUFFICES ASSUME NEW l \in owedLinks, l \notin bufLinks, l \notin replaced
               PROVE  /\ new[l.url].id # 0
                      /\ [source |-> new[l.url].id, owner |-> l.url, ver |-> l.ver] \in links
    BY <1>1 DEF LinksComplete
  <2>1. l.url \in Url
    BY <1>2 DEF Version
  <2>2. /\ pages[l.url].id # 0
        /\ [source |-> pages[l.url].id, owner |-> l.url, ver |-> l.ver] \in links
    BY DEF LinksComplete
  <2>3. new[l.url].id = pages[l.url].id
    BY <1>4, <2>1, <2>2 DEF Extends
  <2> QED BY <2>2, <2>3
<1> QED BY <1>6, <1>7, <1>8, <1>9, <1>10, <1>11

\* Links of an ingest replace those of its page, also in the middle of a flush,
\* and no links of another page that has a row or is about to get one.
LEMMA StoreLinksInv == ASSUME IInv, NEW v, NEW some \in BOOLEAN, StoreLinks(v, some) PROVE IInv'
<1> USE DEF IInv
<1> DEFINE id == pages[v.url].id
           gone == {q \in links : q.source = id /\ q.owner = v.url}
           row == [source |-> id, owner |-> v.url, ver |-> v.ver]
<1>1. /\ v \in ingesting /\ ingesting' = ingesting \ {v}
      /\ UNCHANGED <<pages, lastID, images, bufPages, bufLinks, bufImages, flush, writing, phase,
                     banned, purging, starts, ver, fails, owedPages, owedLinks, applied>>
  BY DEF StoreLinks, content, buffers, process
<1>2. \/ links' = links /\ replaced' = replaced
      \/ /\ links' = {r \in links : r.source # id} \cup {row}
         /\ replaced' = replaced \cup {[url |-> v.url, ver |-> r.ver] : r \in gone}
  BY DEF StoreLinks, Relink
<1>3. /\ v.url \in Url /\ v.ver \in Nat /\ links \subseteq LinkRow
      /\ pages \in [Url -> Row] /\ flush \in FlushRecord
      /\ bufLinks \subseteq Version /\ owedLinks \subseteq Version /\ replaced \subseteq Version
      /\ ingesting' \subseteq Version
  BY <1>1, FlushTypes DEF TypeOK, Version
<1>4. TypeOK'
  <2>1. row \in LinkRow
    BY <1>3 DEF LinkRow, Row
  <2>2. links' \subseteq LinkRow
    BY <1>2, <1>3, <2>1
  <2>3. replaced' \subseteq Version
    BY <1>2, <1>3 DEF LinkRow, Version
  <2> QED BY <1>1, <1>3, <2>2, <2>3 DEF TypeOK
<1>5. (IDsOK /\ FlushExtends /\ ImagesKnown /\ AllDone /\ Purging)'
  BY <1>1, TablesKept
<1>6. BatchCovered' /\ NothingOwed' /\ NoPageLost'
  BY <1>1 DEF BatchCovered, Unlocked, Buffered, Todo, NothingOwed, NoPageLost
<1>7. ASSUME NEW l \in Version, NEW n, n # 0,
             n = pages[l.url].id \/ (~Unlocked /\ n = flush.pages[l.url].id),
             [source |-> n, owner |-> l.url, ver |-> l.ver] \in links
      PROVE  [source |-> n, owner |-> l.url, ver |-> l.ver] \in links' \/ l \in replaced'
  <2> DEFINE r == [source |-> n, owner |-> l.url, ver |-> l.ver]
  <2>1. l.url \in Url /\ l = [url |-> l.url, ver |-> l.ver]
    BY DEF Version
  <2>2. r.source = n /\ r.owner = l.url /\ r.ver = l.ver /\ r \in links
    BY <1>7
  <2>3. CASE n # id
    BY <1>2, <1>7, <2>2, <2>3
  <2>4. CASE n = id
    <3>1. l.url = v.url
      <4>1. CASE n = pages[l.url].id
        BY <1>3, <1>7, <2>1, <2>4, <4>1 DEF IDsOK, IDsOf
      <4>2. CASE ~Unlocked /\ n = flush.pages[l.url].id
        <5>1. flush.pages[v.url].id = id
          BY <1>3, <1>7, <2>4, <4>2 DEF FlushExtends, Extends
        <5> QED BY <1>3, <1>7, <2>1, <2>4, <4>2, <5>1 DEF IDsOK, IDsOf
      <4> QED BY <1>7, <4>1, <4>2
    <3>2. r \in gone
      BY <2>2, <2>4, <3>1
    <3> HIDE DEF r, gone
    <3>3. [url |-> v.url, ver |-> r.ver] \in {[url |-> v.url, ver |-> q.ver] : q \in gone}
      BY <3>2
    <3>4. [url |-> v.url, ver |-> r.ver] = l
      BY <2>1, <2>2, <3>1
    <3> USE DEF r
    <3> QED BY <1>2, <2>2, <3>3, <3>4
  <2> QED BY <2>3, <2>4
<1>8. replaced \subseteq replaced'
  BY <1>2
<1>9. Relinked'
  <2> SUFFICES ASSUME flush.step = "commit", NEW l \in bufLinks, flush.pages[l.url].id # 0
               PROVE  LinkRowOf(flush.pages, l) \in links' \/ l \in replaced'
    BY <1>1 DEF Relinked, LinkRowOf
  <2>1. LinkRowOf(flush.pages, l) \in links \/ l \in replaced
    BY DEF Relinked
  <2>2. ~Unlocked /\ l \in Version
    BY <1>3 DEF Unlocked
  <2> QED BY <1>7, <1>8, <2>1, <2>2 DEF LinkRowOf
<1>10. LinksComplete'
  <2> SUFFICES ASSUME NEW l \in owedLinks, l \notin bufLinks, l \notin replaced'
               PROVE  /\ pages[l.url].id # 0
                      /\ [source |-> pages[l.url].id, owner |-> l.url, ver |-> l.ver] \in links'
    BY <1>1 DEF LinksComplete
  <2>1. /\ pages[l.url].id # 0
        /\ [source |-> pages[l.url].id, owner |-> l.url, ver |-> l.ver] \in links
    BY <1>8 DEF LinksComplete
  <2>2. l \in Version
    BY <1>3
  <2> QED BY <1>7, <2>1, <2>2
<1> QED BY <1>4, <1>5, <1>6, <1>9, <1>10

-----------------------------------------------------------------------------
(* PageStore: steps of the process.                                        *)

\* A killed process owes nothing; what is committed stays as it is.
LEMMA CrashInv == IInv /\ Crash => IInv'
<1> SUFFICES ASSUME IInv, Crash PROVE IInv'
  OBVIOUS
<1> USE DEF IInv
<1>1. /\ phase' = "down" /\ flush' = NoFlush /\ writing' = {} /\ ingesting' = {}
      /\ purging' = <<>> /\ owedPages' = {} /\ owedLinks' = {}
      /\ bufPages' = <<>> /\ bufLinks' = {} /\ bufImages' = NoImages
      /\ UNCHANGED <<pages, lastID, images, links, banned, starts, ver, fails, applied, replaced>>
  BY DEF Crash, ClearBuffers, content
<1>2. flush' \in FlushRecord /\ flush'.step = "idle" /\ flush'.lastID = 0
      /\ \A u \in Url : flush'.pages[u].id = 0
  BY <1>1, NoFlushType DEF NoFlush
<1>3. TypeOK'
  <2>1. bufPages' \in Seq(Version) /\ purging' \in Seq(Url)
    BY <1>1, EmptySeq
  <2> QED BY <1>1, <1>2, <2>1 DEF TypeOK, FlushRecord, NoImages
<1>4. IDsOK'
  BY <1>1, <1>2 DEF IDsOK, IDsOf
<1>5. ImagesKnown'
  BY <1>1 DEF ImagesKnown, ImageOf
<1>6. FlushExtends' /\ BatchCovered' /\ AllDone' /\ Relinked'
  BY <1>2 DEF FlushExtends, Unlocked, BatchCovered, AllDone, Relinked
<1>7. NothingOwed' /\ Purging' /\ NoPageLost' /\ LinksComplete'
  BY <1>1 DEF NothingOwed, Purging, NoPageLost, LinksComplete
<1> QED BY <1>3, <1>4, <1>5, <1>6, <1>7

\* While the engine does not run there is no flush and nothing is owed, so a
\* step of the start has only its type, the IDs and the images to keep.
LEMMA Starting ==
  ASSUME IInv, phase # "run", UNCHANGED <<lastID, buffers, flush, calls, ver, history>>,
         TypeOK', IDsOf(pages, lastID)', ImagesKnown', Purging'
  PROVE  IInv'
<1> USE DEF IInv
<1>1. Unlocked /\ Unlocked'
  BY DEF FlushExtends, Unlocked
<1>2. FlushExtends' /\ BatchCovered' /\ AllDone' /\ Relinked'
  BY <1>1 DEF FlushExtends, Unlocked, BatchCovered, AllDone, Relinked
<1>3. IDsOK'
  BY DEF IDsOK, IDsOf
<1>4. owedPages' = {} /\ owedLinks' = {} /\ writing' = {}
  BY DEF NothingOwed, calls, history
<1>5. NothingOwed' /\ NoPageLost' /\ LinksComplete'
  BY <1>4 DEF NothingOwed, NoPageLost, LinksComplete
<1> QED BY <1>2, <1>3, <1>5

\* A step that changes neither the tables nor the images.
LEMMA SameTables ==
  IInv /\ UNCHANGED content => IDsOf(pages, lastID)' /\ ImagesKnown'
BY DEF IInv, IDsOK, IDsOf, ImagesKnown, ImageOf, content

LEMMA BootInv ==
  ASSUME IInv, NEW bs \in SUBSET Url, IsFiniteSet(bs), NEW order \in SetToSeqs(bs), Boot(order)
  PROVE  IInv'
<1>1. order \in Seq(Url) /\ Range(order) \subseteq Url
  BY OrderIsSeq
<1>2. /\ phase = "down" /\ starts' = starts + 1 /\ banned' = Range(order) /\ purging' = order
      /\ phase' = IF order = <<>> THEN "run" ELSE "purge images"
      /\ UNCHANGED <<content, links, buffers, flush, calls, ver, fails, history>>
  BY DEF Boot
<1>3. TypeOK'
  <2>1. TypeOK
    BY DEF IInv
  <2>2. starts' \in Nat
    <3>1. starts \in Nat
      BY <2>1 DEF TypeOK
    <3>2. starts' = starts + 1
      BY DEF Boot
    <3> QED BY <3>1, <3>2
  <2>3. purging' \in Seq(Url) /\ banned' \subseteq Url
    BY <1>1, <1>2
  <2> QED BY <1>2, <2>1, <2>2, <2>3 DEF TypeOK, content, buffers, calls, history
<1>4. Purging'
  BY <1>2 DEF Purging
<1> QED BY <1>2, <1>3, <1>4, SameTables, Starting DEF content

\* The purge takes rows and IDs away and gives none.
LEMMA PurgeImagesInv == IInv /\ PurgeImages => IInv'
<1> SUFFICES ASSUME IInv, PurgeImages PROVE IInv'
  OBVIOUS
<1> USE DEF IInv
<1>1. /\ phase = "purge images" /\ phase' = "purge pages"
      /\ images' = [i \in Image |-> IF images[i].page = Head(purging)
                                    THEN [page |-> NoUrl, id |-> 0] ELSE images[i]]
      /\ UNCHANGED <<pages, lastID, links, buffers, flush, calls, banned, purging,
                     starts, ver, fails, history>>
  BY DEF PurgeImages
<1>2. images \in [Image -> Picture] /\ lastID \in Nat
  BY DEF TypeOK
<1>3. TypeOK'
  <2>1. images' \in [Image -> Picture]
    BY <1>1, <1>2 DEF Picture
  <2> QED BY <1>1, <2>1 DEF TypeOK, buffers, calls, history
<1>4. IDsOf(pages, lastID)'
  BY <1>1 DEF IDsOK, IDsOf
<1>5. ImagesKnown'
  <2> SUFFICES ASSUME NEW i \in Image
               PROVE  images'[i].id <= lastID /\ ImageOf(i, pages)'
    BY <1>1 DEF ImagesKnown
  <2>1. images[i].id <= lastID /\ ImageOf(i, pages)
    BY DEF ImagesKnown
  <2>2. CASE images'[i] = images[i]
    BY <1>1, <2>1, <2>2 DEF ImageOf
  <2>3. CASE images'[i].id = 0
    BY <1>2, <2>3 DEF ImageOf
  <2>4. images'[i] = images[i] \/ images'[i].id = 0
    BY <1>1
  <2> QED BY <2>2, <2>3, <2>4
<1>6. Purging'
  BY <1>1 DEF Purging
<1> QED BY <1>1, <1>3, <1>4, <1>5, <1>6, Starting

LEMMA PurgePagesInv == IInv /\ PurgePages => IInv'
<1> SUFFICES ASSUME IInv, PurgePages PROVE IInv'
  OBVIOUS
<1> USE DEF IInv
<1>1. /\ phase = "purge pages" /\ phase' = "purge links"
      /\ pages' = [pages EXCEPT ![Head(purging)] = [id |-> 0, ver |-> 0]]
      /\ UNCHANGED <<lastID, images, links, buffers, flush, calls, banned, purging,
                     starts, ver, fails, history>>
  BY DEF PurgePages
<1>2. pages \in [Url -> Row] /\ lastID \in Nat
  BY DEF TypeOK
<1>3. pages' \in [Url -> Row] /\ \A u \in Url : pages'[u].id = pages[u].id \/ pages'[u].id = 0
  BY <1>1, <1>2 DEF Row
<1>4. TypeOK'
  BY <1>1, <1>3 DEF TypeOK, buffers, calls, history
<1>5. IDsOf(pages, lastID)'
  <2>1. IDsOf(pages, lastID)
    BY DEF IDsOK
  <2>2. \A u \in Url : pages'[u].id <= lastID
    BY <1>2, <1>3, <2>1 DEF IDsOf
  <2>3. \A u, v \in Url : pages'[u].id # 0 /\ pages'[u].id = pages'[v].id => u = v
    BY <1>3, <2>1 DEF IDsOf
  <2> QED BY <1>1, <2>2, <2>3 DEF IDsOf
<1>6. ImagesKnown'
  BY <1>1, <1>3 DEF ImagesKnown, ImageOf
<1>7. Purging'
  BY <1>1 DEF Purging
<1> QED BY <1>1, <1>4, <1>5, <1>6, <1>7, Starting

LEMMA PurgeLinksInv == IInv /\ PurgeLinks => IInv'
<1> SUFFICES ASSUME IInv, PurgeLinks PROVE IInv'
  OBVIOUS
<1> USE DEF IInv
<1>1. /\ phase = "purge links" /\ links' \subseteq links
      /\ purging' = Tail(purging)
      /\ phase' = IF Len(purging) = 1 THEN "purged" ELSE "purge images"
      /\ UNCHANGED <<content, buffers, flush, calls, banned, starts, ver, fails, history>>
  BY DEF PurgeLinks, Relink
<1>2. purging # <<>> /\ purging \in Seq(Url)
  BY <1>1 DEF Purging, TypeOK
<1>3. purging' \in Seq(Url) /\ Len(purging') = Len(purging) - 1
  BY <1>1, <1>2, HeadTailProperties
<1>4. TypeOK'
  BY <1>1, <1>3 DEF TypeOK, content, buffers, calls, history
<1>5. Purging'
  <2>1. CASE Len(purging) = 1
    BY <1>1, <2>1 DEF Purging
  <2>2. CASE Len(purging) # 1
    <3>1. Len(purging) \in Nat /\ Len(purging') # 0
      BY <1>2, <1>3, <2>2, LenProperties
    <3> QED BY <3>1, EmptySeq DEF Purging
  <2> QED BY <2>1, <2>2
<1> QED BY <1>1, <1>4, <1>5, SameTables, Starting DEF content

\* The engine starts after the purge, or after its error.
LEMMA RunInv == IInv /\ (PurgeFails \/ Run) => IInv'
<1> SUFFICES ASSUME IInv, PurgeFails \/ Run PROVE IInv'
  OBVIOUS
<1> USE DEF IInv
<1>1. /\ phase # "run" /\ phase' = "run" /\ (purging' = purging \/ purging' = <<>>)
      /\ UNCHANGED <<content, links, buffers, flush, calls, banned, starts, ver, history>>
  BY DEF PurgeFails, Run
<1>2. fails' \in Nat
  BY FailsType DEF PurgeFails, Run, TypeOK
<1>3. purging' \in Seq(Url)
  BY <1>1, EmptySeq DEF TypeOK
<1>4. TypeOK'
  BY <1>1, <1>2, <1>3 DEF TypeOK, content, buffers, calls, history
<1>5. Purging'
  BY <1>1 DEF Purging
<1> QED BY <1>1, <1>4, <1>5, SameTables, Starting DEF content

-----------------------------------------------------------------------------
(* PageStore: the theorems.                                                *)

\* Every step keeps the invariant.
LEMMA NextInv == IInv /\ [Next]_vars => IInv'
<1> SUFFICES ASSUME IInv, [Next]_vars PROVE IInv'
  OBVIOUS
<1>1. CASE WorkerStep
  BY <1>1, WritePageInv, WriteLinksInv, WriteImagesInv DEF WorkerStep
<1>2. CASE FlushStep
  BY <1>2, BeginFlushInv, FlushPageInv, FlushPageFailsInv, FlushLinksInv, FlushFailsInv,
     CommitContentInv DEF FlushStep
<1>3. CASE IngestStep
  BY <1>3, IngestUpsertInv, StoreLinksInv DEF IngestStep
<1>4. CASE StartStep
  BY <1>4, BootInv, PurgeImagesInv, PurgePagesInv, PurgeLinksInv, RunInv DEF StartStep
<1>5. CASE Crash
  BY <1>5, CrashInv
<1>6. CASE UNCHANGED vars
  <2>1. UNCHANGED <<content, links, buffers, flush, calls, process, ver, fails, history>>
    BY <1>6 DEF vars
  <2>2. (IDsOK /\ FlushExtends /\ ImagesKnown /\ AllDone /\ Purging)'
    BY <2>1, TablesKept DEF content, process
  <2>3. TypeOK'
    BY <2>1 DEF IInv, TypeOK, content, buffers, calls, process, history
  <2>4. BatchCovered' /\ NothingOwed' /\ NoPageLost'
    BY <2>1 DEF IInv, BatchCovered, Unlocked, Buffered, Todo, NothingOwed, NoPageLost, buffers, calls,
                process, history
  <2>5. Relinked' /\ LinksComplete'
    BY <2>1 DEF IInv, Relinked, LinkRowOf, LinksComplete, content, buffers, history
  <2> QED BY <2>2, <2>3, <2>4, <2>5 DEF IInv
<1> QED BY <1>1, <1>2, <1>3, <1>4, <1>5, <1>6 DEF Next

LEMMA Invariant == Spec => []IInv
<1>1. Init => IInv
  BY InitInv
<1>2. IInv /\ [Next]_vars => IInv'
  BY NextInv
<1> QED BY <1>1, <1>2, PTL DEF Spec

\* Rows, buffers, transactions and counters keep their types: a page's ID is a
\* number the counter has given, a flush works on rows of its own.
THEOREM StoreTypeCorrect == Spec => []TypeOK
<1>1. IInv => TypeOK
  BY DEF IInv
<1> QED BY <1>1, Invariant, PTL

\* A page WritePage accepted is buffered or committed, whatever flushes fail,
\* until the process is killed or SQLite refuses that page.
THEOREM PagesKept == Spec => []NoPageLost
<1>1. IInv => NoPageLost
  BY DEF IInv
<1> QED BY <1>1, Invariant, PTL

\* Links WriteLinks accepted are buffered, stored under the ID their page has in
\* content.db, or were replaced by later ones of that page, although the two
\* databases commit one after the other and the first commit may be all there is.
THEOREM LinksKept == Spec => []LinksComplete
<1>1. IInv => LinksComplete
  BY DEF IInv
<1> QED BY <1>1, Invariant, PTL

\* No ID is of two pages and no image has the ID of a page it was not found on,
\* across rollbacks, ingests, purges and restarts.
THEOREM ImagesWithTheirPages == Spec => []ImagesBelong
<1> QED BY InvImages, Invariant, PTL

-----------------------------------------------------------------------------
(* Search: the inductive invariant.                                        *)

\* Candidates of different pages, finitely many.
PoolOK(P) ==
  P \subseteq Candidates /\ IsFiniteSet(P) /\ \A x, y \in P : x.id = y.id => x = y

\* The plans before the present one have found their matches, or there is
\* enough.
Found(c) ==
  LET r == req[c] IN
  \/ \A k \in Plans[r.text], p \in before[c] :
       k < plan[c] /\ Level(r.text, stats[c], p) <= k => p \in Ids(pool[c])
  \/ Cardinality(pool[c]) >= EarlyExit(r)

\* So has the present one, while its rows are counted.
FoundHere(c) ==
  LET r == req[c] IN
  \/ \A p \in before[c] : Level(r.text, stats[c], p) <= plan[c] => p \in Ids(pool[c])
  \/ Cardinality(pool[c]) >= EarlyExit(r)

\* A search nothing has hindered leaves the loop only after the last plan, or
\* with enough.
Unhindered(c) ==
  ~hindered[c] =>
    /\ ~expired[c]
    /\ pc[c] \in {"recent", "diverse", "nav", "rank"} => plan[c] = 5
    /\ pc[c] = "done" => plan[c] \in {1, 5}
    /\ pc[c] # "idle" => Found(c)
    /\ pc[c] = "count" => FoundHere(c)

\* The stages before the first plan.
Lookups == {"word", "domain", "docs", "idf"}

ClientInv(c) ==
  /\ pc[c] # "idle" => req[c] \in Request
  /\ pc[c] = "idle" => plan[c] = 1 /\ ~expired[c]
  /\ pc[c] \in Lookups => plan[c] = 1
  /\ pc[c] = "count" => plan[c] # 5
  /\ before[c] \subseteq stored
  /\ Unhindered(c)

SearchInv ==
  /\ SearchOK /\ IsFiniteSet(stored)
  /\ \A c \in Client : PoolOK(pool[c]) /\ ClientInv(c)

\* The plans of a text, and that its first is the phrase.
LEMMA PlansOf ==
  ASSUME NEW t \in Text
  PROVE  /\ Plans[t] \subseteq 1..4 /\ 1 \in Plans[t] /\ BestPlan(t) = 1
         /\ \A k \in 0..4 : /\ NextPlan(t, k) \in Plans[t] \cup {5} /\ NextPlan(t, k) \in 1..5 /\ NextPlan(t, k) > k
                            /\ \A j \in Plans[t] : j < NextPlan(t, k) => j <= k
<1>1. Plans[t] = {1} \/ Plans[t] = 1..4
  BY SearchAssumption DEF QueryIntent
<1>2. Plans[t] \subseteq 1..4 /\ 1 \in Plans[t] /\ \A j \in Plans[t] : 1 <= j
  BY <1>1
<1>3. BestPlan(t) = 1
  <2>1. \A k \in Plans[t] : (\A j \in Plans[t] : k <= j) => k = 1
    BY <1>2
  <2> QED BY <1>2, <2>1 DEF BestPlan
<1>4. ASSUME NEW k \in 0..4
      PROVE  /\ NextPlan(t, k) \in Plans[t] \cup {5} /\ NextPlan(t, k) \in 1..5 /\ NextPlan(t, k) > k
             /\ \A j \in Plans[t] : j < NextPlan(t, k) => j <= k
  <2>1. CASE \E j \in Plans[t] : j > k
    <3> DEFINE least(j) == j > k /\ \A i \in Plans[t] : i > k => j <= i
    <3>1. \E j \in Plans[t] : least(j)
      <4>1. CASE Plans[t] = {1}
        BY <2>1, <4>1
      <4>2. CASE Plans[t] = 1..4
        <5>1. k + 1 \in Plans[t] /\ least(k + 1)
          BY <2>1, <4>2
        <5> QED BY <5>1
      <4> QED BY <1>1, <4>1, <4>2
    <3>2. NextPlan(t, k) = CHOOSE j \in Plans[t] : least(j)
      BY <2>1 DEF NextPlan
    <3>3. NextPlan(t, k) \in Plans[t] /\ least(NextPlan(t, k))
      <4> HIDE DEF least
      <4> QED BY <3>1, <3>2
    <3> QED BY <1>2, <3>3
  <2>2. CASE ~\E j \in Plans[t] : j > k
    <3>1. NextPlan(t, k) = 5
      BY <2>2 DEF NextPlan
    <3> QED BY <1>2, <2>2, <3>1
  <2> QED BY <2>1, <2>2
<1> QED BY <1>2, <1>3, <1>4

\* The limits of a request, and that there are enough candidates before a LIMIT
\* cuts any off.
LEMMA Limits ==
  ASSUME NEW r \in Request
  PROVE  /\ CandidateLimit(r) \in Nat \ {0}
         /\ EarlyExit(r) \in Int /\ EarlyExit(r) <= CandidateLimit(r)
<1>1. r.offset \in Nat /\ r.limit \in Nat /\ CandFloor \in Nat \ {0} /\ CandCeil \in Nat /\ EarlyMax \in Nat
  BY SearchAssumption
<1>2. CandidateLimit(r) \in Nat \ {0}
  BY <1>1 DEF CandidateLimit, MaxOf, MinOf
<1>3. ASSUME NEW n \in Nat PROVE MinOf(n \div 2, EarlyMax) \in Int /\ MinOf(n \div 2, EarlyMax) <= n
  BY <1>1 DEF MinOf
<1> QED BY <1>2, <1>3 DEF EarlyExit

-----------------------------------------------------------------------------
(* Search: ORDER BY ... LIMIT.                                             *)

\* The best n pages of S are n if there is another page in S: ranks are
\* numbers below the size of S and no two pages have the same.
LEMMA BestEnough ==
  ASSUME NEW S \in SUBSET Page, IsFiniteSet(S), NEW key \in [Page -> Int], NEW n \in Nat,
         NEW p \in S, p \notin Best(S, n, key)
  PROVE  Cardinality(Best(S, n, key)) >= n
<1> DEFINE Before(x) == {q \in S : key[q] > key[x] \/ (key[q] = key[x] /\ q < x)}
           rank == [x \in S |-> Cardinality(Before(x))]
           N == Cardinality(S)
<1>1. \A x \in S : x \in Nat /\ key[x] \in Int
  BY SearchAssumption
<1>2. N \in Nat /\ \A x \in S : IsFiniteSet(Before(x)) /\ Cardinality(Before(x)) \in Nat
  BY FS_CardinalityType, FS_Subset
<1>3. ASSUME NEW T \in SUBSET S, NEW x \in S, NEW U \in SUBSET S, x \in T, x \notin U, U \subseteq T
      PROVE  Cardinality(U) < Cardinality(T)
  <2>1. IsFiniteSet(T) /\ IsFiniteSet(U) /\ Cardinality(T) \in Nat /\ Cardinality(U) \in Nat
    BY FS_Subset, FS_CardinalityType
  <2>2. U # T
    BY <1>3
  <2> QED BY <1>3, <2>1, <2>2, FS_Subset
<1>4. \A x \in S : Cardinality(Before(x)) < N
  <2> TAKE x \in S
  <2>1. x \notin Before(x) /\ Before(x) \in SUBSET S
    BY <1>1
  <2> HIDE DEF Before
  <2> QED BY <1>3, <2>1
<1>5. ASSUME NEW x \in S, NEW y \in S, x # y PROVE Cardinality(Before(x)) # Cardinality(Before(y))
  <2>1. ASSUME NEW a \in S, NEW b \in S, a \in Before(b)
        PROVE  Cardinality(Before(a)) < Cardinality(Before(b))
    <3>1. a \notin Before(a) /\ Before(a) \subseteq Before(b)
      BY <1>1, <2>1
    <3>2. Before(a) \in SUBSET S /\ Before(b) \in SUBSET S
      OBVIOUS
    <3> HIDE DEF Before
    <3> QED BY <1>3, <2>1, <3>1, <3>2
  <2>2. x \in Before(y) \/ y \in Before(x)
    BY <1>1, <1>5
  <2> HIDE DEF Before
  <2>3. CASE x \in Before(y)
    BY <1>2, <2>1, <2>3
  <2>4. CASE y \in Before(x)
    BY <1>2, <2>1, <2>4
  <2> QED BY <2>2, <2>3, <2>4
<1> HIDE DEF Before
<1>6. rank \in Injection(S, 0..(N - 1))
  <2>1. rank \in [S -> 0..(N - 1)]
    BY <1>2, <1>4
  <2> QED BY <2>1, <1>5 DEF Injection, IsInjective
<1>7. rank \in Surjection(S, 0..(N - 1))
  <2>1. IsFiniteSet(0..(N - 1)) /\ Cardinality(0..(N - 1)) = N
    <3>1. Cardinality(Before(p)) \in Nat /\ Cardinality(Before(p)) < N
      BY <1>2, <1>4
    <3> HIDE DEF N
    <3>2. N - 1 \in Int /\ 0 \in Int /\ ~(0 > N - 1) /\ (N - 1) - 0 + 1 = N
      BY <1>2, <3>1
    <3> QED BY <3>2, FS_Interval
  <2> HIDE DEF rank, N
  <2> QED BY <1>6, <2>1, FS_Injection DEF N
<1>8. Best(S, n, key) = {x \in S : rank[x] < n}
  BY DEF Best, Before
<1>9. n < N
  BY <1>2, <1>4, <1>8
<1> DEFINE B == Best(S, n, key)
           g == [x \in B |-> rank[x]]
<1>10. g \in Surjection(B, 0..(n - 1))
  <2> HIDE DEF rank
  <2>1. \A i \in 0..(n - 1) : \E x \in S : rank[x] = i
    BY <1>7, <1>9, <1>2 DEF Surjection
  <2>2. \A x \in B : rank[x] \in 0..(n - 1)
    BY <1>2, <1>8 DEF rank
  <2>3. \A i \in 0..(n - 1) : \E x \in B : g[x] = i
    BY <1>8, <2>1
  <2> QED BY <2>2, <2>3 DEF Surjection
<1>11. IsFiniteSet(B)
  BY FS_Subset DEF Best
<1>12. Cardinality(0..(n - 1)) = n
  BY FS_Interval
<1> HIDE DEF g, B
<1>13. Cardinality(0..(n - 1)) <= Cardinality(B)
  BY <1>10, <1>11, FS_Surjection
<1> QED BY <1>12, <1>13 DEF B

-----------------------------------------------------------------------------
(* Search: the candidates.                                                 *)

\* There are as many candidates as pages they are of.
LEMMA IdsCount ==
  ASSUME NEW P, PoolOK(P)
  PROVE  IsFiniteSet(Ids(P)) /\ Cardinality(Ids(P)) = Cardinality(P) /\ Cardinality(P) \in Nat
<1> DEFINE f == [x \in P |-> x.id]
<1>1. f \in Surjection(P, Ids(P))
  BY DEF Surjection, Ids
<1>2. f \in Injection(P, Ids(P))
  <2>1. f \in [P -> Ids(P)]
    BY DEF Ids
  <2>2. \A x, y \in P : f[x] = f[y] => x = y
    BY DEF PoolOK
  <2> QED BY <2>1, <2>2 DEF Injection, IsInjective
<1>3. IsFiniteSet(P)
  BY DEF PoolOK
<1> HIDE DEF f
<1> QED BY <1>1, <1>2, <1>3, FS_Surjection, FS_CardinalityType

\* A candidate that inherits a snippet.
LEMMA Heirs ==
  ASSUME NEW d \in Candidates, NEW b \in BOOLEAN
  PROVE  LET h == [d EXCEPT !.snippet = b] IN
         h \in Candidates /\ h.id = d.id /\ h.mode = d.mode /\ h.sqlScore = d.sqlScore /\ h.snippet = b
BY DEF Candidates

\* A merge loses no page, and has one candidate for each.
LEMMA MergeOK ==
  ASSUME NEW P, NEW R, PoolOK(P), PoolOK(R)
  PROVE  /\ PoolOK(Merge(P, R)) /\ Ids(Merge(P, R)) = Ids(P) \cup Ids(R)
         /\ Cardinality(Merge(P, R)) >= Cardinality(P)
         /\ Cardinality(Merge(P, R)) >= Cardinality(R)
<1> DEFINE M == Merge(P, R)
           Stays == {x \in P : \A d \in R : d.id = x.id => ~Replaces(d, x)}
           New == {d \in R : \A x \in P : x.id = d.id => Replaces(d, x)}
           shown == [d \in New |-> d.snippet \/ \E x \in P : x.id = d.id /\ x.snippet]
           heir == [d \in New |-> [d EXCEPT !.snippet = shown[d]]]
           Heir == {heir[d] : d \in New}
<1>1. \A x \in P \cup R : x \in Candidates
  BY DEF PoolOK
<1>2. M = Stays \cup Heir
  BY DEF Merge
<1>3. ASSUME NEW d \in New PROVE heir[d] \in Candidates /\ heir[d].id = d.id
  <2>1. d \in Candidates /\ shown[d] \in BOOLEAN
    <3>1. d \in Candidates
      BY <1>1
    <3>2. d.snippet \in BOOLEAN
      BY <3>1 DEF Candidates
    <3> QED BY <3>1, <3>2
  <2> HIDE DEF shown
  <2> QED BY <2>1, Heirs
<1>4. IsFiniteSet(Stays) /\ IsFiniteSet(Heir)
  <2>1. IsFiniteSet(Stays) /\ IsFiniteSet(New)
    <3>1. Stays \in SUBSET P /\ New \in SUBSET R
      OBVIOUS
    <3> HIDE DEF Stays, New
    <3> QED BY <3>1, FS_Subset DEF PoolOK
  <2>2. heir \in Surjection(New, Heir)
    <3> HIDE DEF New, shown
    <3> QED BY DEF Surjection
  <2> HIDE DEF heir, Heir, New, Stays
  <2> QED BY <2>1, <2>2, FS_Surjection
<1>5. \A x \in Stays : x \in P /\ x \in Candidates /\ \A d \in New : d.id # x.id
  <2> TAKE x \in Stays
  <2>1. ASSUME NEW d \in New, d.id = x.id PROVE FALSE
    BY <2>1
  <2> QED BY <1>1, <2>1
<1>6. New \subseteq R
  OBVIOUS
<1>7. \A y \in Heir : y \in Candidates /\ \E d \in New : y = heir[d] /\ y.id = d.id
  <2> TAKE y \in Heir
  <2>1. PICK d \in New : y = heir[d]
    OBVIOUS
  <2> HIDE DEF New, heir
  <2> QED BY <1>3, <2>1
<1>8. \A x \in P : (\E d \in New : d.id = x.id) \/ x \in Stays
  <2> SUFFICES ASSUME NEW x \in P, x \notin Stays PROVE \E d \in New : d.id = x.id
    OBVIOUS
  <2>1. PICK d \in R : d.id = x.id /\ Replaces(d, x)
    OBVIOUS
  <2>2. \A y \in P : y.id = d.id => y = x
    BY <2>1 DEF PoolOK
  <2>3. d \in New
    BY <2>1, <2>2
  <2> QED BY <2>1, <2>3
<1>9. \A d \in R : d \in New \/ \E x \in Stays : x.id = d.id
  <2> SUFFICES ASSUME NEW d \in R, d \notin New PROVE \E x \in Stays : x.id = d.id
    OBVIOUS
  <2>1. PICK x \in P : x.id = d.id /\ ~Replaces(d, x)
    OBVIOUS
  <2>2. \A e \in R : e.id = x.id => e = d
    BY <2>1 DEF PoolOK
  <2>3. x \in Stays
    BY <2>1, <2>2
  <2> QED BY <2>1, <2>3
<1>10. \A d \in New : heir[d] \in Heir /\ heir[d].id = d.id
  BY <1>3
<1> HIDE DEF M, Stays, New, heir, Heir, shown
<1>11. PoolOK(M)
  <2>1. M \subseteq Candidates
    BY <1>2, <1>5, <1>7
  <2>2. IsFiniteSet(M)
    BY <1>2, <1>4, FS_Union
  <2>3. ASSUME NEW x \in M, NEW y \in M, x.id = y.id PROVE x = y
    <3>1. CASE x \in Stays /\ y \in Stays
      BY <1>5, <2>3, <3>1 DEF PoolOK
    <3>2. CASE x \in Heir /\ y \in Heir
      <4>1. PICK d \in New : x = heir[d] /\ x.id = d.id
        BY <1>7, <3>2
      <4>2. PICK e \in New : y = heir[e] /\ y.id = e.id
        BY <1>7, <3>2
      <4>3. d = e
        BY <1>6, <2>3, <4>1, <4>2 DEF PoolOK
      <4> QED BY <4>1, <4>2, <4>3
    <3>3. CASE x \in Stays /\ y \in Heir
      BY <1>5, <1>7, <2>3, <3>3
    <3>4. CASE x \in Heir /\ y \in Stays
      BY <1>5, <1>7, <2>3, <3>4
    <3> QED BY <1>2, <3>1, <3>2, <3>3, <3>4
  <2> QED BY <2>1, <2>2, <2>3 DEF PoolOK
<1>12. Ids(M) = Ids(P) \cup Ids(R)
  <2>1. ASSUME NEW i \in Ids(P) PROVE i \in Ids(M)
    BY <1>2, <1>8, <1>10, <2>1 DEF Ids
  <2>2. ASSUME NEW i \in Ids(R) PROVE i \in Ids(M)
    BY <1>2, <1>9, <1>10, <2>2 DEF Ids
  <2>3. ASSUME NEW i \in Ids(M) PROVE i \in Ids(P) \cup Ids(R)
    BY <1>2, <1>5, <1>6, <1>7, <2>3 DEF Ids
  <2> QED BY <2>1, <2>2, <2>3
<1>13. /\ Cardinality(M) = Cardinality(Ids(M)) /\ IsFiniteSet(Ids(M))
       /\ Cardinality(P) = Cardinality(Ids(P)) /\ Cardinality(R) = Cardinality(Ids(R))
  BY <1>11, IdsCount
<1>14. Cardinality(Ids(P)) <= Cardinality(Ids(M)) /\ Cardinality(Ids(R)) <= Cardinality(Ids(M))
  <2>1. Ids(P) \in SUBSET Ids(M) /\ Ids(R) \in SUBSET Ids(M)
    BY <1>12
  <2> QED BY <1>13, <2>1, FS_Subset
<1>15. Cardinality(M) \in Nat /\ Cardinality(P) \in Nat /\ Cardinality(R) \in Nat
  BY <1>11, IdsCount
<1> QED BY <1>11, <1>12, <1>13, <1>14, <1>15 DEF M

\* The rows of a statement: one candidate for each of finitely many pages.
LEMMA Rows ==
  ASSUME SearchInv, NEW t \in Text, NEW S \in SUBSET Page, IsFiniteSet(S), NEW mode \in Modes,
         NEW f \in [Page -> Int]
  PROVE  LET R == {Candidate(t, p, mode, f[p]) : p \in S} IN PoolOK(R) /\ Ids(R) = S
<1> DEFINE cand == [p \in S |-> Candidate(t, p, mode, f[p])]
           R == {Candidate(t, p, mode, f[p]) : p \in S}
<1>1. clicks[t] \in [Page -> 0..MaxClicks] /\ MaxClicks \in Nat
  BY SearchAssumption DEF SearchInv, SearchOK
<1>2. \A p \in S : Candidate(t, p, mode, f[p]) \in Candidates /\ Candidate(t, p, mode, f[p]).id = p
  <2> TAKE p \in S
  <2>1. clicks[t][p] \in Int /\ f[p] \in Int
    BY <1>1
  <2>2. f[p] + 50 * clicks[t][p] \in Int /\ (p \in described) \in BOOLEAN
    BY <2>1
  <2> QED BY <2>2 DEF Candidate, Candidates
<1>3. IsFiniteSet(R)
  <2>1. cand \in Surjection(S, R)
    BY DEF Surjection
  <2> HIDE DEF cand, R
  <2> QED BY <2>1, FS_Surjection
<1>4. R \subseteq Candidates /\ \A x, y \in R : x.id = y.id => x = y
  BY <1>2
<1>5. Ids(R) = S
  BY <1>2 DEF Ids
<1> QED BY <1>3, <1>4, <1>5 DEF PoolOK

LEMMA NoRows == PoolOK({}) /\ Ids({}) = {}
BY FS_EmptySet DEF PoolOK, Ids

\* The pages a statement may return.
LEMMA PagesOfRows ==
  ASSUME SearchInv, NEW S, NEW n, NEW key, S \subseteq stored
  PROVE  Best(S, n, key) \in SUBSET Page /\ IsFiniteSet(Best(S, n, key))
<1>1. Best(S, n, key) \in SUBSET stored
  BY DEF Best
<1> QED BY <1>1, FS_Subset DEF SearchInv, SearchOK

\* The scores of a plan are numbers.
LEMMA ScoreType ==
  ASSUME SearchInv, NEW t \in Text, NEW m \in Stats, NEW k \in 1..4
  PROVE  PlanScore(t, m, k) \in [Page -> Int]
<1>1. stored \in SUBSET Page
  BY DEF SearchInv, SearchOK
<1>2. \A p \in Page : Bm25(t, m, k, stored, p) \in Int
  BY <1>1, ScoresAssumption
<1> QED BY <1>2 DEF PlanScore

-----------------------------------------------------------------------------
(* Search: a step of a client.                                             *)

\* The type of what is not the candidates.
Typed ==
  /\ stored \subseteq Page /\ described \subseteq Page /\ clicks \in [Text -> [Page -> 0..MaxClicks]]
  /\ words \in [Text -> {"none", "known", "unknown"}] /\ idf \in [Text -> Stats]
  /\ pc \in [Client -> Stage] /\ req \in [Client -> Request \cup {Idle}]
  /\ plan \in [Client -> 1..5] /\ total \in [Client -> Nat] /\ stats \in [Client -> Stats]
  /\ intent \in [Client -> BOOLEAN] /\ expired \in [Client -> BOOLEAN]
  /\ before \in [Client -> SUBSET Page] /\ hindered \in [Client -> BOOLEAN]
  /\ touched \in [Client -> BOOLEAN] /\ tidy \subseteq Keys

LEMMA InvTypes == SearchInv => Typed /\ pool \in [Client -> SUBSET Candidates]
BY DEF SearchInv, SearchOK, Typed

\* The search of d is where it was.
Same(d) ==
  /\ pc'[d] = pc[d] /\ req'[d] = req[d] /\ plan'[d] = plan[d] /\ pool'[d] = pool[d]
  /\ stats'[d] = stats[d]
  /\ expired'[d] = expired[d] /\ before'[d] = before[d] /\ hindered'[d] = hindered[d]

\* Writes leave alone what the invariant says of a search.
LEMMA OtherClient ==
  ASSUME SearchInv, NEW d \in Client, Same(d), stored \subseteq stored'
  PROVE  PoolOK(pool'[d]) /\ ClientInv(d)'
<1>1. PoolOK(pool[d]) /\ ClientInv(d)
  BY DEF SearchInv
<1>2. (Found(d) => Found(d)') /\ (FoundHere(d) => FoundHere(d)')
  BY DEF Found, FoundHere, Same
<1>3. Unhindered(d)'
  BY <1>1, <1>2 DEF ClientInv, Unhindered, Same
<1> QED BY <1>1, <1>3 DEF ClientInv, Same

\* What a step of client c has to keep.
LEMMA OneClient ==
  ASSUME SearchInv, NEW c \in Client, UNCHANGED stored, Typed',
         pool' \in [Client -> SUBSET Candidates], \A d \in Client \ {c} : Same(d),
         PoolOK(pool'[c]), ClientInv(c)'
  PROVE  SearchInv'
<1>1. \A d \in Client : PoolOK(pool'[d]) /\ ClientInv(d)'
  BY OtherClient
<1>2. SearchOK'
  <2>1. \A d \in Client : \A x, y \in pool'[d] : x.id = y.id => x = y
    BY <1>1 DEF PoolOK
  <2> QED BY <2>1 DEF SearchOK, Typed
<1>3. IsFiniteSet(stored)'
  BY DEF SearchInv
<1> QED BY <1>1, <1>2, <1>3 DEF SearchInv

\* A request that is being searched for.
LEMMA Searching ==
  ASSUME SearchInv, NEW c \in Client, pc[c] # "idle"
  PROVE  req[c] \in Request /\ req[c].text \in Text
BY SearchAssumption DEF SearchInv, ClientInv

LEMMA NextStages ==
  ASSUME NEW t, NEW nav, NEW done
  PROVE  NextStage(t, nav, done) \in {"recent", "diverse", "nav", "rank"}
BY DEF NextStage

LEMMA PlansDoneInv == ASSUME SearchInv, NEW c \in Client, PlansDone(c) PROVE SearchInv'
<1>1. Typed /\ pool \in [Client -> SUBSET Candidates]
  BY InvTypes
<1>2. PICK l \in {"recent", "diverse", "nav", "rank"} : pc' = [pc EXCEPT ![c] = l]
  <2>1. pc' = [pc EXCEPT ![c] = NextStage(req[c].text, intent[c], {})]
    BY DEF PlansDone, Later, Goto
  <2> QED BY <2>1, NextStages
<1>3. UNCHANGED <<stored, described, clicks, words, idf, req, stats, intent, plan, pool, total, expired, before,
                  hindered, touched, tidy>>
  BY DEF PlansDone, dataVars, lookups, query, progress
<1>4. Typed'
  BY <1>1, <1>2, <1>3 DEF Typed, Stage
<1>5. PoolOK(pool[c]) /\ ClientInv(c) /\ pc[c] = "plan" /\ (expired[c] \/ plan[c] = 5)
  BY DEF SearchInv, PlansDone
<1>6. ClientInv(c)'
  <2>1. pc'[c] = l
    BY <1>1, <1>2 DEF Typed
  <2>2. Found(c) => Found(c)'
    BY <1>3 DEF Found
  <2>3. Unhindered(c)'
    BY <1>3, <1>5, <2>1, <2>2 DEF ClientInv, Unhindered
  <2> QED BY <1>3, <1>5, <2>1, <2>3 DEF ClientInv, Lookups
<1>7. \A d \in Client \ {c} : Same(d)
  BY <1>1, <1>2, <1>3 DEF Same, Typed
<1> QED BY <1>1, <1>3, <1>4, <1>5, <1>6, <1>7, OneClient

\* A step of a lookup: what the query is made of changes, and nothing is found.
LEMMA LookupMoves ==
  ASSUME SearchInv, NEW c \in Client, NEW ok \in BOOLEAN, Lookup(c, ok)
  PROVE  /\ pc[c] \in Lookups
         /\ \E l \in (Lookups \cup {"plan"}) : pc' = [pc EXCEPT ![c] = l]
         /\ \E m \in Stats : stats' = [stats EXCEPT ![c] = m]
         /\ \E i \in BOOLEAN : intent' = [intent EXCEPT ![c] = i]
         /\ \E h \in BOOLEAN : hindered' = [hindered EXCEPT ![c] = h] /\ (hindered[c] => h)
         /\ \E x \in BOOLEAN : touched' = [touched EXCEPT ![c] = x]
         /\ words' \in [Text -> {"none", "known", "unknown"}] /\ idf' \in [Text -> Stats]
         /\ UNCHANGED <<stored, described, clicks, cache, req, plan, pool, total, expired, out, before, tidy>>
<1>1. Typed
  BY InvTypes
<1>2. pc[c] \in Lookups /\ req[c].text \in Text /\ Norm[req[c].text] \in Text
  <2>1. pc[c] \in Lookups
    BY DEF Lookup, AskWord, FindDomain, CountDocs, LoadIDF, Lookups
  <2>2. pc[c] # "idle"
    BY <2>1 DEF Lookups
  <2> QED BY <2>1, <2>2, Searching, SearchAssumption
<1>3. /\ stats = [stats EXCEPT ![c] = stats[c]] /\ intent = [intent EXCEPT ![c] = intent[c]]
      /\ touched = [touched EXCEPT ![c] = touched[c]]
      /\ stats[c] \in Stats /\ intent[c] \in BOOLEAN /\ touched[c] \in BOOLEAN /\ hindered[c] \in BOOLEAN
      /\ stored \in Stats /\ Skewed \in Stats /\ Flat \in Stats
  BY <1>1 DEF Typed, Stats
<1>4. /\ \A x : Hinder(c, x) => \E h \in BOOLEAN : hindered' = [hindered EXCEPT ![c] = h] /\ (hindered[c] => h)
      /\ \A x : Touch(c, x) => \E y \in BOOLEAN : touched' = [touched EXCEPT ![c] = y]
  <2>1. \A x : (hindered[c] \/ ~x) \in BOOLEAN /\ (hindered[c] => (hindered[c] \/ ~x))
               /\ (touched[c] \/ x) \in BOOLEAN
    OBVIOUS
  <2> QED BY <2>1 DEF Hinder, Touch
<1>5. Enriched(req[c].text) \in Lookups \cup {"plan"} /\ "domain" \in Lookups /\ "idf" \in Lookups
  BY DEF Enriched, Lookups
<1>6. CASE AskWord(c, ok)
  <2> DEFINE n == Norm[req[c].text]
             known == IF words[n] # "none" THEN words[n] = "known" ELSE ok /\ KnownWord(n)
  <2>1. /\ words' = [words EXCEPT ![n] = IF known THEN "known" ELSE "unknown"]
        /\ pc' = [pc EXCEPT ![c] = IF known THEN Enriched(req[c].text) ELSE "domain"]
        /\ Hinder(c, ok \/ words[n] # "none") /\ Touch(c, known # KnownWord(n))
        /\ UNCHANGED <<dataVars, cache, idf, query, progress, expired, out, before, tidy>>
    BY <1>6 DEF AskWord, Goto
  <2> HIDE DEF known
  <2>2. words' \in [Text -> {"none", "known", "unknown"}]
    BY <1>1, <2>1 DEF Typed
  <2>3. UNCHANGED <<stored, described, clicks, cache, idf, req, stats, intent, plan, pool, total, expired, out,
                    before, tidy>>
    BY <2>1 DEF dataVars, query, progress
  <2>4. \E l \in (Lookups \cup {"plan"}) : pc' = [pc EXCEPT ![c] = l]
    BY <1>5, <2>1
  <2> QED BY <1>1, <1>2, <1>3, <1>4, <2>1, <2>2, <2>3, <2>4 DEF Typed
<1>7. CASE FindDomain(c, ok)
  <2> DEFINE found == ok /\ \E p \in stored : DomainOf[p] = Brand[req[c].text]
  <2>1. /\ intent' = [intent EXCEPT ![c] = found]
        /\ pc' = [pc EXCEPT ![c] = Enriched(req[c].text)] /\ Hinder(c, ok)
        /\ UNCHANGED <<stored, described, clicks, cache, words, idf, req, stats, plan, pool, total, expired, out,
                       before, touched, tidy>>
    BY <1>7 DEF FindDomain, Goto, dataVars, lookups, progress
  <2>2. found \in BOOLEAN
    OBVIOUS
  <2> HIDE DEF found
  <2>3. (\E l \in (Lookups \cup {"plan"}) : pc' = [pc EXCEPT ![c] = l])
        /\ (\E i \in BOOLEAN : intent' = [intent EXCEPT ![c] = i])
    BY <1>5, <2>1, <2>2
  <2> QED BY <1>1, <1>2, <1>3, <1>4, <2>1, <2>3 DEF Typed
<1>8. CASE CountDocs(c, ok)
  <2>1. /\ stats' = [stats EXCEPT ![c] = IF ok THEN stored ELSE Skewed]
        /\ pc' = [pc EXCEPT ![c] = "idf"] /\ Hinder(c, ok)
        /\ UNCHANGED <<stored, described, clicks, cache, words, idf, req, intent, plan, pool, total, expired, out,
                       before, touched, tidy>>
    BY <1>8 DEF CountDocs, Goto, dataVars, lookups, progress
  <2>2. \E m \in Stats : stats' = [stats EXCEPT ![c] = m]
    BY <1>3, <2>1
  <2>3. \E l \in (Lookups \cup {"plan"}) : pc' = [pc EXCEPT ![c] = l]
    BY <1>5, <2>1
  <2> QED BY <1>1, <1>2, <1>3, <1>4, <2>1, <2>2, <2>3 DEF Typed
<1>9. CASE LoadIDF(c, ok)
  <2> DEFINE n == Norm[req[c].text]
             read == IF stats[c] = stored THEN stored ELSE Skewed
             map == IF idf[n] # None THEN idf[n] ELSE IF ok THEN read ELSE Flat
  <2>1. /\ stats' = [stats EXCEPT ![c] = map]
        /\ idf' = IF map = Flat THEN idf ELSE [idf EXCEPT ![n] = map]
        /\ pc' = [pc EXCEPT ![c] = "plan"] /\ Hinder(c, ok \/ idf[n] # None) /\ Touch(c, map # stored)
        /\ UNCHANGED <<stored, described, clicks, cache, words, req, intent, plan, pool, total, expired, out,
                       before, tidy>>
    BY <1>9 DEF LoadIDF, Goto, dataVars, progress
  <2>2. map \in Stats
    BY <1>1, <1>2, <1>3 DEF Typed
  <2> HIDE DEF map
  <2>3. (\E m \in Stats : stats' = [stats EXCEPT ![c] = m]) /\ idf' \in [Text -> Stats]
    BY <1>1, <1>2, <2>1, <2>2 DEF Typed
  <2>4. \E l \in (Lookups \cup {"plan"}) : pc' = [pc EXCEPT ![c] = l]
    BY <1>5, <2>1
  <2> QED BY <1>1, <1>2, <1>3, <1>4, <2>1, <2>3, <2>4 DEF Typed
<1> QED BY <1>6, <1>7, <1>8, <1>9 DEF Lookup

LEMMA LookupInv ==
  ASSUME SearchInv, NEW c \in Client, NEW ok \in BOOLEAN, Lookup(c, ok)
  PROVE  SearchInv'
<1>1. Typed /\ pool \in [Client -> SUBSET Candidates] /\ PoolOK(pool[c]) /\ ClientInv(c)
  BY InvTypes DEF SearchInv
<1>2. /\ pc[c] \in Lookups
      /\ UNCHANGED <<stored, described, clicks, req, plan, pool, total, expired, before, tidy>>
      /\ words' \in [Text -> {"none", "known", "unknown"}] /\ idf' \in [Text -> Stats]
  BY LookupMoves
<1>3. PICK l \in (Lookups \cup {"plan"}) : pc' = [pc EXCEPT ![c] = l]
  BY LookupMoves
<1>4. PICK m \in Stats : stats' = [stats EXCEPT ![c] = m]
  BY LookupMoves
<1>5. PICK i \in BOOLEAN : intent' = [intent EXCEPT ![c] = i]
  BY LookupMoves
<1>6. PICK h \in BOOLEAN : hindered' = [hindered EXCEPT ![c] = h] /\ (hindered[c] => h)
  BY LookupMoves
<1>7. PICK x \in BOOLEAN : touched' = [touched EXCEPT ![c] = x]
  BY LookupMoves
<1>8. Typed'
  <2>1. pc' \in [Client -> Stage] /\ stats' \in [Client -> Stats] /\ intent' \in [Client -> BOOLEAN]
    BY <1>1, <1>3, <1>4, <1>5 DEF Typed, Stage, Lookups
  <2>2. hindered' \in [Client -> BOOLEAN] /\ touched' \in [Client -> BOOLEAN]
    BY <1>1, <1>6, <1>7 DEF Typed
  <2> QED BY <1>1, <1>2, <2>1, <2>2 DEF Typed
<1>9. ClientInv(c)'
  <2>1. plan[c] = 1 /\ req[c] \in Request /\ req[c].text \in Text /\ before[c] \subseteq stored
    BY <1>1, <1>2, SearchAssumption DEF ClientInv, Lookups
  <2>2. pc'[c] = l /\ l \in Lookups \cup {"plan"} /\ (hindered[c] => hindered'[c])
    BY <1>1, <1>3, <1>6 DEF Typed
  <2>3. Found(c)'
    <3>1. \A k \in Plans[req[c].text] : ~(k < 1)
      BY <2>1, PlansOf
    <3> QED BY <1>2, <2>1, <3>1 DEF Found
  <2>4. Unhindered(c)'
    BY <1>1, <1>2, <2>2, <2>3 DEF ClientInv, Unhindered, Lookups
  <2> QED BY <1>2, <2>1, <2>2, <2>4 DEF ClientInv, Lookups
<1>10. \A d \in Client \ {c} : Same(d)
  BY <1>1, <1>2, <1>3, <1>4, <1>6 DEF Same, Typed
<1> QED BY <1>1, <1>2, <1>8, <1>9, <1>10, OneClient

\* What the statement of a plan returns: a candidate for each of the pages, and
\* all the pages that match unless there are as many as its LIMIT.
LEMMA FTSRows ==
  ASSUME SearchInv, NEW r \in Request, NEW m \in Stats, NEW k \in 1..4, NEW nav
  PROVE  LET Q == FTSPages(r, m, k, nav)
             M == Matching(r.text, m, k)
             rows == SearchFTS(r, m, k, nav) IN
         /\ Q \in SUBSET M /\ M \in SUBSET stored /\ IsFiniteSet(M) /\ IsFiniteSet(Q)
         /\ Cardinality(M) \in Nat /\ Cardinality(Q) \in Nat
         /\ PoolOK(rows) /\ Ids(rows) = Q /\ Cardinality(rows) = Cardinality(Q)
         /\ Q # M => Cardinality(Q) >= CandidateLimit(r)
<1> DEFINE t == r.text
           M == Matching(t, m, k)
           Q == FTSPages(r, m, k, nav)
           n == CandidateLimit(r)
           score == PlanScore(t, m, k)
           order == FTSOrder(t, m, k, nav)
           mode == PlanMode[k]
           rows == SearchFTS(r, m, k, nav)
<1>1. t \in Text /\ n \in Nat /\ mode \in Modes
  BY SearchAssumption, Limits DEF PlanMode, Modes
<1>2. score \in [Page -> Int]
  BY <1>1, ScoreType
<1>3. order \in [Page -> Int]
  <2> DEFINE named == nav /\ ~Navigational[t]
             bonus == DomainBonus[t][named]
  <2>1. order = [p \in Page |-> score[p] + bonus[p]]
    BY DEF FTSOrder
  <2>2. named \in BOOLEAN
    OBVIOUS
  <2>3. DomainBonus[t] \in [BOOLEAN -> [Page -> Nat]]
    BY <1>1, SearchAssumption
  <2> HIDE DEF named
  <2>4. bonus \in [Page -> Nat]
    BY <2>2, <2>3
  <2> HIDE DEF bonus, order, score
  <2>5. \A p \in Page : score[p] + bonus[p] \in Int
    BY <1>2, <2>4
  <2> QED BY <2>1, <2>5
<1>4. M \in SUBSET stored /\ IsFiniteSet(M) /\ M \in SUBSET Page
  <2>1. M \in SUBSET stored
    BY DEF Matching
  <2> QED BY <2>1, FS_Subset DEF SearchInv, SearchOK
<1>5. Q = Best(M, n, order) /\ rows = {Candidate(t, p, mode, score[p]) : p \in Q}
  BY DEF FTSPages, SearchFTS
<1>6. Q \in SUBSET M /\ Q \in SUBSET Page /\ IsFiniteSet(Q)
  <2>1. Q \in SUBSET M
    BY <1>5 DEF Best
  <2> QED BY <1>4, <2>1, FS_Subset
<1> HIDE DEF t, M, Q, n, order, score, mode, rows
<1>7. PoolOK(rows) /\ Ids(rows) = Q
  BY <1>1, <1>2, <1>5, <1>6, Rows
<1>8. Cardinality(M) \in Nat /\ Cardinality(Q) \in Nat /\ Cardinality(rows) = Cardinality(Q)
  BY <1>4, <1>6, <1>7, FS_CardinalityType, IdsCount
<1>9. Q # M => Cardinality(Q) >= n
  <2> HAVE Q # M
  <2>1. PICK p \in M : p \notin Q
    BY <1>6
  <2> QED BY <1>1, <1>3, <1>4, <1>5, <2>1, BestEnough
<1> QED BY <1>4, <1>6, <1>7, <1>8, <1>9 DEF t, M, Q, n, rows

\* What a plan adds to the candidates.
LEMMA PlanPool ==
  ASSUME SearchInv, NEW c \in Client, Running(c)
  PROVE  LET rows == SearchFTS(req[c], stats[c], plan[c], intent[c])
             merged == Merge(pool[c], rows) IN
         /\ PoolOK(rows) /\ PoolOK(merged) /\ Ids(merged) = Ids(pool[c]) \cup Ids(rows)
         /\ Cardinality(merged) \in Nat /\ Cardinality(rows) \in Nat
         /\ Cardinality(merged) >= Cardinality(pool[c])
         /\ \A p \in Matching(req[c].text, stats[c], plan[c]) :
              p \in Ids(merged) \/ Cardinality(merged) >= EarlyExit(req[c])
<1> DEFINE r == req[c]
           k == plan[c]
           m == stats[c]
           rows == SearchFTS(r, m, k, intent[c])
           merged == Merge(pool[c], rows)
<1>1. r \in Request /\ k \in 1..4 /\ m \in Stats /\ PoolOK(pool[c])
  <2>1. plan[c] \in 1..5 /\ plan[c] # 5 /\ m \in Stats
    BY InvTypes DEF Typed, Running
  <2> QED BY <2>1, Searching DEF Running, SearchInv
<1>2. PoolOK(rows) /\ Cardinality(rows) \in Nat
  BY <1>1, FTSRows, IdsCount
<1>3. /\ PoolOK(merged) /\ Ids(merged) = Ids(pool[c]) \cup Ids(rows) /\ Cardinality(merged) \in Nat
      /\ Cardinality(merged) >= Cardinality(pool[c]) /\ Cardinality(merged) >= Cardinality(rows)
  BY <1>1, <1>2, MergeOK, IdsCount
<1>4. ASSUME NEW p \in Matching(r.text, m, k), p \notin Ids(merged)
      PROVE  Cardinality(merged) >= EarlyExit(r)
  <2>1. Cardinality(rows) >= CandidateLimit(r)
    BY <1>1, <1>3, <1>4, FTSRows
  <2>2. CandidateLimit(r) \in Nat /\ EarlyExit(r) \in Int /\ EarlyExit(r) <= CandidateLimit(r)
    BY <1>1, Limits
  <2> HIDE DEF merged, rows, r
  <2> QED BY <1>2, <1>3, <2>1, <2>2
<1> QED BY <1>2, <1>3, <1>4

LEMMA PlanRowsInv == ASSUME SearchInv, NEW c \in Client, PlanRows(c) PROVE SearchInv'
<1> DEFINE r == req[c]
           t == r.text
           k == plan[c]
           m == stats[c]
           rows == SearchFTS(r, m, k, intent[c])
           merged == Merge(pool[c], rows)
           next == IF rows = {} THEN NextPlan(t, k) ELSE k
           stage == IF rows = {} THEN "plan" ELSE "count"
           count == IF rows = {} THEN total[c] ELSE Cardinality(rows)
<1>1. Typed /\ pool \in [Client -> SUBSET Candidates]
  BY InvTypes
<1>2. r \in Request /\ t \in Text /\ k \in 1..4 /\ Running(c)
  <2>1. plan[c] \in 1..5 /\ plan[c] # 5 /\ pc[c] # "idle" /\ Running(c)
    BY <1>1 DEF Typed, Running, PlanRows
  <2> QED BY <2>1, Searching
<1>3. /\ PoolOK(merged) /\ Ids(merged) = Ids(pool[c]) \cup Ids(rows)
      /\ Cardinality(merged) \in Nat /\ Cardinality(rows) \in Nat
      /\ Cardinality(merged) >= Cardinality(pool[c])
      /\ \A p \in Matching(t, m, k) : p \in Ids(merged) \/ Cardinality(merged) >= EarlyExit(r)
  BY <1>2, PlanPool
<1>4. /\ pool' = [pool EXCEPT ![c] = merged] /\ plan' = [plan EXCEPT ![c] = next]
      /\ total' = [total EXCEPT ![c] = count] /\ pc' = [pc EXCEPT ![c] = stage]
      /\ UNCHANGED <<stored, described, clicks, words, idf, req, stats, intent, expired, before, hindered, touched,
                     tidy>>
  <2>1. UNCHANGED <<stored, described, clicks, words, idf, req, stats, intent, expired, before, hindered, touched,
                    tidy>>
    BY DEF PlanRows, dataVars, lookups, query
  <2>2. pc[c] = "plan" /\ pc = [pc EXCEPT ![c] = pc[c]] /\ plan = [plan EXCEPT ![c] = plan[c]]
        /\ total = [total EXCEPT ![c] = total[c]]
    BY <1>1 DEF Typed, PlanRows, Running
  <2>3. pool' = [pool EXCEPT ![c] = merged]
        /\ (rows = {} => plan' = [plan EXCEPT ![c] = NextPlan(t, k)] /\ pc' = pc /\ total' = total)
        /\ (rows # {} => pc' = [pc EXCEPT ![c] = "count"] /\ plan' = plan
                         /\ total' = [total EXCEPT ![c] = Cardinality(rows)])
    BY DEF PlanRows, Goto
  <2> HIDE DEF rows, merged
  <2> QED BY <2>1, <2>2, <2>3
<1>5. next \in 1..5 /\ (rows = {} => \A j \in Plans[t] : j < next => j <= k) /\ stage \in {"plan", "count"}
  BY <1>2, PlansOf
<1>6. count \in Nat
  BY <1>1, <1>3 DEF Typed
<1>7. PoolOK(pool[c]) /\ ClientInv(c)
  BY DEF SearchInv
<1>8. (stage = "count" <=> rows # {}) /\ (rows # {} => next = k)
  OBVIOUS
<1> HIDE DEF merged, rows, next, count, stage, r, t, k, m
<1>9. Typed'
  BY <1>1, <1>4, <1>5, <1>6 DEF Typed, Stage
<1>10. pool' \in [Client -> SUBSET Candidates] /\ PoolOK(pool'[c]) /\ pool'[c] = merged
  BY <1>1, <1>3, <1>4 DEF PoolOK
<1>11. /\ plan'[c] = next /\ req'[c] = r /\ pc'[c] = stage /\ before'[c] = before[c] /\ stats'[c] = m
       /\ expired'[c] = expired[c] /\ ~expired[c] /\ hindered'[c] = hindered[c] /\ stored' = stored
  BY <1>1, <1>2, <1>4 DEF Typed, Running, r, m
<1>12. EarlyExit(r) \in Int /\ Cardinality(pool[c]) \in Nat
  BY <1>2, <1>7, Limits, IdsCount
<1>13. ASSUME Found(c)
       PROVE  \/ Cardinality(merged) >= EarlyExit(r)
              \/ \A j \in Plans[t], p \in before[c] : j <= k /\ Level(t, m, p) <= j => p \in Ids(merged)
  <2> SUFFICES ASSUME ~(Cardinality(merged) >= EarlyExit(r)), NEW j \in Plans[t], NEW p \in before[c],
                      j <= k, Level(t, m, p) <= j
               PROVE  p \in Ids(merged)
    OBVIOUS
  <2>1. ~(Cardinality(pool[c]) >= EarlyExit(r))
    BY <1>3, <1>12
  <2>2. j \in 1..4
    BY <1>2, PlansOf
  <2>3. CASE j < k
    BY <1>3, <1>13, <2>1, <2>3 DEF Found, r, t, k, m
  <2>4. CASE j = k
    <3>1. p \in Matching(t, m, k)
      BY <1>7, <2>4 DEF ClientInv, Matching
    <3> QED BY <1>3, <3>1
  <2> QED BY <1>2, <2>2, <2>3, <2>4
<1>14. ASSUME NEW p \in before[c], Level(t, m, p) <= k
       PROVE  Cardinality(merged) >= EarlyExit(r) \/ p \in Ids(merged)
  <2>1. p \in Matching(t, m, k)
    BY <1>7, <1>14 DEF ClientInv, Matching
  <2> QED BY <1>3, <2>1
<1>15. Found(c) => Found(c)'
  <2> HAVE Found(c)
  <2>1. \A j \in Plans[t] : j < next => j <= k
    <3>1. \A j \in Plans[t] : j \in 1..4
      BY <1>2, PlansOf
    <3> QED BY <1>2, <1>5, <1>8, <3>1
  <2> QED BY <1>10, <1>11, <1>13, <2>1 DEF Found, t
<1>16. stage = "count" => FoundHere(c)'
  BY <1>8, <1>10, <1>11, <1>14 DEF FoundHere, t
<1>17. ClientInv(c)'
  <2>1. Unhindered(c)'
    BY <1>2, <1>5, <1>7, <1>11, <1>15, <1>16 DEF ClientInv, Unhindered, Running
  <2> QED BY <1>2, <1>5, <1>7, <1>8, <1>11, <2>1 DEF ClientInv, Lookups
<1>18. \A d \in Client \ {c} : Same(d)
  BY <1>1, <1>4 DEF Same, Typed
<1> QED BY <1>4, <1>9, <1>10, <1>17, <1>18, OneClient

LEMMA CountRowsInv ==
  ASSUME SearchInv, NEW c \in Client, NEW ok \in BOOLEAN, CountRows(c, ok)
  PROVE  SearchInv'
<1> DEFINE r == req[c]
           t == r.text
           k == plan[c]
           m == stats[c]
           enough == Cardinality(pool[c]) >= EarlyExit(r)
           next == IF enough THEN 5 ELSE NextPlan(t, k)
           count == IF ok THEN Cardinality(Matching(t, m, k)) ELSE total[c]
<1>1. Typed /\ pool \in [Client -> SUBSET Candidates]
  BY InvTypes
<1>2. PoolOK(pool[c]) /\ ClientInv(c) /\ pc[c] = "count" /\ (expired[c] => ~ok)
  BY DEF SearchInv, CountRows
<1>3. r \in Request /\ t \in Text /\ k \in 1..4
  <2>1. plan[c] \in 1..5 /\ plan[c] # 5
    BY <1>1, <1>2 DEF Typed, ClientInv
  <2> QED BY <1>2, <2>1, Searching
<1>4. /\ pc' = [pc EXCEPT ![c] = "plan"] /\ plan' = [plan EXCEPT ![c] = next]
      /\ total' = [total EXCEPT ![c] = count] /\ hindered' = [hindered EXCEPT ![c] = @ \/ ~ok]
      /\ UNCHANGED <<stored, described, clicks, words, idf, req, stats, intent, pool, expired, before, touched,
                     tidy>>
  BY DEF CountRows, Goto, Hinder, dataVars, lookups, query
<1>5. next \in 1..5 /\ (~enough => \A j \in Plans[t] : j < next => j <= k)
  BY <1>3, PlansOf
<1>6. count \in Nat
  <2>1. Matching(t, m, k) \in SUBSET stored
    BY DEF Matching
  <2>2. Cardinality(Matching(t, m, k)) \in Nat
    BY <2>1, FS_Subset, FS_CardinalityType DEF SearchInv
  <2> QED BY <1>1, <2>2 DEF Typed
<1>7. enough <=> Cardinality(pool[c]) >= EarlyExit(r)
  OBVIOUS
<1> HIDE DEF enough, next, count, r, t, k, m
<1>8. Typed'
  BY <1>1, <1>4, <1>5, <1>6 DEF Typed, Stage
<1>9. /\ plan'[c] = next /\ req'[c] = r /\ pc'[c] = "plan" /\ before'[c] = before[c] /\ stats'[c] = m
      /\ pool'[c] = pool[c] /\ expired'[c] = expired[c] /\ hindered'[c] = (hindered[c] \/ ~ok)
  BY <1>1, <1>4 DEF Typed, r, m
<1>10. Found(c) /\ FoundHere(c) => Found(c)'
  <2> HAVE Found(c) /\ FoundHere(c)
  <2>1. CASE enough
    BY <1>7, <1>9, <2>1 DEF Found
  <2>2. CASE ~enough
    <3>1. ASSUME NEW j \in Plans[t], NEW p \in before[c], j < next, Level(t, m, p) <= j
          PROVE  p \in Ids(pool[c])
      <4>1. j \in 1..4 /\ j <= k
        BY <1>3, <1>5, <2>2, <3>1, PlansOf
      <4>2. CASE j < k
        BY <1>7, <2>2, <3>1, <4>2 DEF Found, r, t, k, m
      <4>3. CASE j = k
        BY <1>7, <2>2, <3>1, <4>3 DEF FoundHere, r, t, k, m
      <4> QED BY <1>3, <4>1, <4>2, <4>3
    <3> QED BY <1>9, <3>1 DEF Found, t
  <2> QED BY <2>1, <2>2
<1>11. ClientInv(c)'
  <2>1. Unhindered(c)'
    BY <1>2, <1>9, <1>10 DEF ClientInv, Unhindered
  <2> QED BY <1>2, <1>3, <1>4, <1>9, <2>1 DEF ClientInv, Lookups
<1>12. \A d \in Client \ {c} : Same(d)
  BY <1>1, <1>4 DEF Same, Typed
<1> QED BY <1>1, <1>2, <1>4, <1>8, <1>9, <1>11, <1>12, OneClient

LEMMA PlanFailsInv ==
  ASSUME SearchInv, NEW c \in Client, PlanTimeout(c) \/ PlanError(c) \/ Timeout(c)
  PROVE  SearchInv'
<1>1. Typed /\ pool \in [Client -> SUBSET Candidates]
  BY InvTypes
<1>2. PoolOK(pool[c]) /\ ClientInv(c)
  BY DEF SearchInv
<1>3. hindered' = [hindered EXCEPT ![c] = TRUE]
  <2>1. \A x \in BOOLEAN : (x \/ ~FALSE) = TRUE
    OBVIOUS
  <2> QED BY <2>1 DEF PlanTimeout, PlanError, Timeout, Hinder
<1>4. hindered' \in [Client -> BOOLEAN] /\ hindered'[c]
  BY <1>1, <1>3 DEF Typed
<1>5. pc[c] # "idle" /\ req[c] \in Request
  BY Searching DEF PlanTimeout, PlanError, Timeout, Running
<1>6. plan' \in [Client -> 1..5] /\ \A d \in Client \ {c} : plan'[d] = plan[d]
  <2>1. CASE PlanTimeout(c)
    <3>1. req[c].text \in Text /\ plan[c] \in 1..4
      BY <1>1, <2>1, <1>5, Searching DEF PlanTimeout, Running, Typed
    <3>2. NextPlan(req[c].text, plan[c]) \in 1..5
      BY <3>1, PlansOf
    <3> QED BY <1>1, <2>1, <3>2 DEF PlanTimeout, Typed
  <2>2. CASE PlanError(c) \/ Timeout(c)
    BY <1>1, <2>2 DEF PlanError, Timeout, progress, Typed
  <2> QED BY <2>1, <2>2
<1>7. /\ pc' \in [Client -> Stage] /\ expired' \in [Client -> BOOLEAN] /\ pc'[c] # "idle"
      /\ \A d \in Client \ {c} : pc'[d] = pc[d] /\ expired'[d] = expired[d]
  <2>1. CASE PlanTimeout(c)
    BY <1>1, <1>5, <2>1 DEF PlanTimeout, Typed
  <2>2. CASE PlanError(c)
    BY <1>1, <2>2 DEF PlanError, Goto, Typed, Stage
  <2>3. CASE Timeout(c)
    BY <1>1, <1>5, <2>3 DEF Timeout, Typed
  <2> QED BY <2>1, <2>2, <2>3
<1>8. /\ UNCHANGED <<stored, described, clicks, words, idf, req, stats, intent, pool, total, before, touched, tidy>>
      /\ pc[c] \in Lookups \cup {"count"} => UNCHANGED plan
      /\ pc'[c] = pc[c] \/ pc'[c] = "done"
  <2>1. UNCHANGED <<stored, described, clicks, words, idf, req, stats, intent, pool, total, before, touched, tidy>>
    BY DEF PlanTimeout, PlanError, Timeout, progress, dataVars, lookups, query
  <2>2. CASE PlanTimeout(c)
    BY <2>1, <2>2 DEF PlanTimeout, Running, Lookups
  <2>3. CASE PlanError(c)
    BY <1>1, <2>1, <2>3 DEF PlanError, Goto, progress, Typed
  <2>4. CASE Timeout(c)
    BY <2>1, <2>4 DEF Timeout, progress
  <2> QED BY <2>1, <2>2, <2>3, <2>4
<1>9. Typed'
  BY <1>1, <1>4, <1>6, <1>7, <1>8 DEF Typed
<1>10. ClientInv(c)'
  BY <1>2, <1>4, <1>5, <1>7, <1>8 DEF ClientInv, Unhindered, Lookups
<1>11. \A d \in Client \ {c} : Same(d)
  BY <1>1, <1>3, <1>6, <1>7, <1>8 DEF Same, Typed
<1> QED BY <1>1, <1>2, <1>8, <1>9, <1>10, <1>11, OneClient

\* Rows of the stages after the plans.
LEMMA ExtraRows ==
  ASSUME SearchInv, NEW r \in Request, NEW m \in Stats
  PROVE  PoolOK(SearchRecent(r, m)) /\ PoolOK(SearchExcluding(r, m)) /\ PoolOK(SearchNavigational(r))
<1> DEFINE t == r.text
           k == BestPlan(t)
           score == PlanScore(t, m, k)
<1>1. t \in Text /\ k = 1
  BY SearchAssumption, PlansOf
<1>2. ASSUME NEW S, NEW n, NEW key, NEW mode \in Modes, NEW f \in [Page -> Int], S \subseteq stored
      PROVE  PoolOK({Candidate(t, p, mode, f[p]) : p \in Best(S, n, key)})
  <2> DEFINE Q == Best(S, n, key)
  <2>1. Q \in SUBSET Page /\ IsFiniteSet(Q)
    BY <1>2, PagesOfRows
  <2> HIDE DEF Q, t
  <2> QED BY <1>1, <2>1, Rows DEF Q
<1>3. score \in [Page -> Int]
  BY <1>1, ScoreType
<1>4. PlanMode[k] \in Modes /\ "recent" \in Modes /\ "nav" \in Modes
  BY <1>1 DEF PlanMode, Modes
<1>5. PoolOK(SearchRecent(r, m))
  <2> DEFINE S == {q \in Matching(t, m, k) : Recency[q] >= 0}
             order == [p \in Page |-> score[p] + Recency[p]]
             n == MinOf(CandidateLimit(r), 300)
  <2>1. S \subseteq stored
    BY DEF Matching
  <2>2. SearchRecent(r, m) = {Candidate(t, p, "recent", score[p]) : p \in Best(S, n, order)}
    BY DEF SearchRecent
  <2> HIDE DEF S, order, n, t, k, score
  <2> QED BY <1>2, <1>3, <1>4, <2>1, <2>2
<1>6. PoolOK(SearchExcluding(r, m))
  <2> DEFINE S == {q \in Matching(t, m, k) : SiteOf[q] # Platform[t]}
             n == MaxOf(30, MinOf(CandidateLimit(r) \div 3, 100))
             mode == PlanMode[k]
  <2>1. S \subseteq stored /\ mode \in Modes
    BY <1>4 DEF Matching
  <2>2. SearchExcluding(r, m) = {Candidate(t, p, mode, score[p]) : p \in Best(S, n, score)}
    BY DEF SearchExcluding
  <2> HIDE DEF S, n, t, mode, k, score
  <2> QED BY <1>2, <1>3, <2>1, <2>2
<1>7. PoolOK(SearchNavigational(r))
  <2> DEFINE S == stored \cap NavPages[t]
             bonus == [p \in Page |-> IF r.lang # None /\ LangOf[p] = r.lang THEN LanguageBoost \div 10 ELSE 0]
             f == [p \in Page |-> NavScore[t][p] + bonus[p]]
             order == [p \in Page |-> f[p] + 50 * clicks[t][p]]
             n == MinOf(CandidateLimit(r), 60)
  <2>1. S \subseteq stored /\ f \in [Page -> Int]
    <3>1. NavScore[t] \in [Page -> Int] /\ LanguageBoost \in Int
      BY <1>1, SearchAssumption
    <3>2. LanguageBoost \div 10 \in Int
      BY <3>1
    <3>3. bonus \in [Page -> Int]
      BY <3>2
    <3> HIDE DEF bonus, t
    <3>4. \A p \in Page : NavScore[t][p] + bonus[p] \in Int
      BY <3>1, <3>3
    <3> QED BY <3>4
  <2>2. f = [p \in Page |-> NavScore[t][p] + IF r.lang # None /\ LangOf[p] = r.lang THEN LanguageBoost \div 10 ELSE 0]
    OBVIOUS
  <2>3. SearchNavigational(r) = {Candidate(t, p, "nav", f[p]) : p \in Best(S, n, order)}
    <3> HIDE DEF bonus, f
    <3> QED BY <2>2 DEF SearchNavigational
  <2> HIDE DEF S, order, n, t, f
  <2> QED BY <1>2, <1>4, <2>1, <2>3
<1> QED BY <1>5, <1>6, <1>7

LEMMA ExtraInv ==
  ASSUME SearchInv, NEW c \in Client, NEW ok \in BOOLEAN, NEW rows, NEW done,
         pc[c] \in {"recent", "diverse", "nav"}, PoolOK(rows), Extra(c, ok, rows, done)
  PROVE  SearchInv'
<1> DEFINE new == IF expired[c] \/ ~ok THEN pool[c] ELSE Merge(pool[c], rows)
<1>1. Typed /\ pool \in [Client -> SUBSET Candidates]
  BY InvTypes
<1>2. PoolOK(pool[c]) /\ ClientInv(c) /\ req[c] \in Request /\ req[c].text \in Text
  BY Searching DEF SearchInv
<1>3. PICK l \in {"recent", "diverse", "nav", "rank"} : pc' = [pc EXCEPT ![c] = l]
  <2>1. pc' = [pc EXCEPT ![c] = NextStage(req[c].text, intent[c], done)]
    BY DEF Extra, Later, Goto
  <2> QED BY <2>1, NextStages
<1>4. /\ pool' = [pool EXCEPT ![c] = new] /\ hindered' = [hindered EXCEPT ![c] = @ \/ ~ok]
      /\ UNCHANGED <<stored, described, clicks, words, idf, req, stats, intent, plan, total, expired, before, touched,
                     tidy>>
  BY DEF Extra, Hinder, dataVars, lookups, query
<1>5. PoolOK(new) /\ Ids(pool[c]) \subseteq Ids(new) /\ Cardinality(new) >= Cardinality(pool[c])
  <2>1. CASE expired[c] \/ ~ok
    BY <1>2, <2>1, IdsCount
  <2>2. CASE ~(expired[c] \/ ~ok)
    BY <1>2, <2>2, MergeOK
  <2> QED BY <2>1, <2>2
<1> HIDE DEF new
<1>6. Typed'
  BY <1>1, <1>3, <1>4 DEF Typed, Stage
<1>7. pool' \in [Client -> SUBSET Candidates] /\ pool'[c] = new
  BY <1>1, <1>4, <1>5 DEF PoolOK
<1>8. pc'[c] = l /\ hindered'[c] = (hindered[c] \/ ~ok)
  BY <1>1, <1>3, <1>4 DEF Typed
<1>9. Found(c) => Found(c)'
  <2>1. Cardinality(new) \in Nat /\ Cardinality(pool[c]) \in Nat /\ EarlyExit(req[c]) \in Int
    BY <1>2, <1>5, IdsCount, Limits
  <2>2. Cardinality(pool[c]) >= EarlyExit(req[c]) => Cardinality(new) >= EarlyExit(req[c])
    BY <1>5, <2>1
  <2> QED BY <1>4, <1>5, <1>7, <2>2 DEF Found
<1>10. ClientInv(c)'
  <2>1. Unhindered(c)'
    BY <1>2, <1>4, <1>8, <1>9 DEF ClientInv, Unhindered
  <2> QED BY <1>2, <1>4, <1>8, <2>1 DEF ClientInv, Lookups
<1>11. \A d \in Client \ {c} : Same(d)
  BY <1>1, <1>3, <1>4 DEF Same, Typed
<1> QED BY <1>4, <1>5, <1>6, <1>7, <1>10, <1>11, OneClient

LEMMA StagesInv ==
  ASSUME SearchInv, NEW c \in Client, NEW ok \in BOOLEAN,
         RecentRows(c, ok) \/ DiverseRows(c, ok) \/ NavRows(c, ok)
  PROVE  SearchInv'
<1>1. req[c] \in Request /\ stats[c] \in Stats
  BY Searching, InvTypes DEF RecentRows, DiverseRows, NavRows, Typed
<1>2. /\ PoolOK(SearchRecent(req[c], stats[c])) /\ PoolOK(SearchExcluding(req[c], stats[c]))
      /\ PoolOK(SearchNavigational(req[c]))
  BY <1>1, ExtraRows
<1>3. CASE RecentRows(c, ok)
  BY <1>2, <1>3, ExtraInv DEF RecentRows
<1>4. CASE DiverseRows(c, ok)
  BY <1>2, <1>4, ExtraInv DEF DiverseRows
<1>5. CASE NavRows(c, ok)
  <2> DEFINE rows == IF Cardinality(pool[c]) < NavBelow THEN SearchNavigational(req[c]) ELSE {}
  <2>1. PoolOK(rows)
    BY <1>2, NoRows
  <2>2. pc[c] = "nav" /\ Extra(c, ok, rows, {"recent", "diverse", "nav"})
    BY <1>5 DEF NavRows
  <2> HIDE DEF rows
  <2> QED BY <2>1, <2>2, ExtraInv
<1> QED BY <1>3, <1>4, <1>5

LEMMA FinishInv ==
  ASSUME SearchInv, NEW c \in Client, NEW kept \in BOOLEAN, Finish(c, kept)
  PROVE  SearchInv'
<1>1. Typed /\ pool \in [Client -> SUBSET Candidates]
  BY InvTypes
<1>2. PoolOK(pool[c]) /\ ClientInv(c) /\ pc[c] = "rank" /\ req[c] \in Request
  BY Searching DEF SearchInv, Finish
<1>3. pc' = [pc EXCEPT ![c] = "done"]
  BY DEF Finish, Goto
<1>4. UNCHANGED <<stored, described, clicks, words, idf, req, stats, intent, plan, total, pool, expired, before,
                  hindered, touched>>
  BY DEF Finish, dataVars, lookups, query, progress
<1>5. tidy' \subseteq Keys
  <2>1. Key(req[c]) \in Keys /\ tidy \subseteq Keys
    BY <1>1, <1>2 DEF Keys, Typed
  <2>2. tidy' \subseteq tidy \cup {Key(req[c])}
    BY DEF Finish
  <2> QED BY <2>1, <2>2
<1>6. Typed'
  BY <1>1, <1>3, <1>4, <1>5 DEF Typed, Stage
<1>7. ClientInv(c)'
  <2>1. pc'[c] = "done"
    BY <1>1, <1>3 DEF Typed
  <2>2. Found(c) => Found(c)'
    BY <1>4 DEF Found
  <2> QED BY <1>2, <1>4, <2>1, <2>2 DEF ClientInv, Unhindered, Lookups
<1>8. \A d \in Client \ {c} : Same(d)
  BY <1>1, <1>3, <1>4 DEF Same, Typed
<1> QED BY <1>1, <1>2, <1>4, <1>6, <1>7, <1>8, OneClient

\* The client leaves with its answer.
LEMMA LeaveInv == ASSUME SearchInv, NEW c \in Client, Leave(c) PROVE SearchInv'
<1>1. Typed /\ pool \in [Client -> SUBSET Candidates]
  BY InvTypes
<1>2. /\ pc' = [pc EXCEPT ![c] = "idle"] /\ req' = [req EXCEPT ![c] = Idle]
      /\ plan' = [plan EXCEPT ![c] = 1] /\ pool' = [pool EXCEPT ![c] = {}]
      /\ total' = [total EXCEPT ![c] = 0] /\ intent' = [intent EXCEPT ![c] = FALSE]
      /\ expired' = [expired EXCEPT ![c] = FALSE] /\ before' = [before EXCEPT ![c] = {}]
      /\ hindered' = [hindered EXCEPT ![c] = FALSE] /\ touched' = [touched EXCEPT ![c] = FALSE]
      /\ stats' = [stats EXCEPT ![c] = None]
      /\ UNCHANGED <<stored, described, clicks, words, idf, tidy>>
  BY DEF Leave, Goto, dataVars, lookups
<1>3. Typed'
  <2>1. /\ pc' \in [Client -> Stage] /\ req' \in [Client -> Request \cup {Idle}]
        /\ plan' \in [Client -> 1..5] /\ total' \in [Client -> Nat] /\ before' \in [Client -> SUBSET Page]
        /\ stats' \in [Client -> Stats]
    BY <1>1, <1>2 DEF Typed, Stage, Stats
  <2>2. /\ intent' \in [Client -> BOOLEAN] /\ expired' \in [Client -> BOOLEAN]
        /\ hindered' \in [Client -> BOOLEAN] /\ touched' \in [Client -> BOOLEAN]
    BY <1>1, <1>2 DEF Typed
  <2> QED BY <1>1, <1>2, <2>1, <2>2 DEF Typed
<1>4. pool' \in [Client -> SUBSET Candidates] /\ PoolOK(pool'[c])
  BY <1>1, <1>2, NoRows
<1>5. pc'[c] = "idle" /\ plan'[c] = 1 /\ ~expired'[c] /\ before'[c] = {} /\ ~hindered'[c]
  BY <1>1, <1>2 DEF Typed
<1>6. ClientInv(c)'
  BY <1>5 DEF ClientInv, Unhindered, Lookups
<1>7. \A d \in Client \ {c} : Same(d)
  BY <1>1, <1>2 DEF Same, Typed
<1> QED BY <1>2, <1>3, <1>4, <1>6, <1>7, OneClient

\* A search begins: no plan has been run, none is owed anything.
LEMMA HitInv ==
  ASSUME SearchInv, NEW c \in Client, NEW r \in Request, Hit(c, r)
  PROVE  SearchInv'
<1>1. Typed /\ pool \in [Client -> SUBSET Candidates]
  BY InvTypes
<1>2. PoolOK(pool[c]) /\ ClientInv(c) /\ pc[c] = "idle"
  BY DEF SearchInv, Hit
<1>3. /\ pc' = [pc EXCEPT ![c] = "done"] /\ req' = [req EXCEPT ![c] = r]
      /\ UNCHANGED <<stored, described, clicks, words, idf, plan, pool, total, stats, intent, expired, before, hindered,
                     touched, tidy>>
  BY DEF Hit, Goto, dataVars, lookups, progress
<1>4. Typed'
  BY <1>1, <1>3 DEF Typed, Stage
<1>5. pc'[c] = "done" /\ req'[c] = r /\ plan'[c] = 1 /\ ~expired'[c]
  BY <1>1, <1>2, <1>3 DEF Typed, ClientInv
<1>6. Found(c)'
  <2>1. r.text \in Text /\ \A k \in Plans[r.text] : ~(k < 1)
    <3>1. r.text \in Text
      BY SearchAssumption
    <3> QED BY <3>1, PlansOf
  <2> QED BY <1>5, <2>1 DEF Found
<1>7. ClientInv(c)'
  BY <1>2, <1>3, <1>5, <1>6 DEF ClientInv, Unhindered, Lookups
<1>8. \A d \in Client \ {c} : Same(d)
  BY <1>1, <1>3 DEF Same, Typed
<1> QED BY <1>1, <1>2, <1>3, <1>4, <1>7, <1>8, OneClient

LEMMA MissInv == ASSUME SearchInv, NEW c \in Client, NEW r \in Request, Miss(c, r) PROVE SearchInv'
<1> DEFINE t == r.text
<1>1. Typed /\ pool \in [Client -> SUBSET Candidates]
  BY InvTypes
<1>2. PoolOK(pool[c]) /\ ClientInv(c) /\ pc[c] = "idle" /\ t \in Text
  BY SearchAssumption DEF SearchInv, Miss
<1>3. PICK l \in (Lookups \cup {"plan"}) : pc' = [pc EXCEPT ![c] = l]
  <2>1. pc' = [pc EXCEPT ![c] = IF MayNameDomain(t) THEN "word" ELSE Enriched(t)]
    BY DEF Miss, Goto
  <2>2. (IF MayNameDomain(t) THEN "word" ELSE Enriched(t)) \in Lookups \cup {"plan"}
    BY DEF Enriched, Lookups
  <2> QED BY <2>1, <2>2
<1>4. /\ req' = [req EXCEPT ![c] = r] /\ before' = [before EXCEPT ![c] = stored]
      /\ UNCHANGED <<stored, described, clicks, words, idf, plan, pool, total, stats, expired, hindered, touched,
                     tidy>>
  BY DEF Miss, dataVars, lookups, progress
<1>5. PICK i \in BOOLEAN : intent' = [intent EXCEPT ![c] = i]
  <2>1. intent' = [intent EXCEPT ![c] = Navigational[t]]
    BY DEF Miss
  <2>2. Navigational[t] \in BOOLEAN
    BY <1>2, SearchAssumption
  <2> QED BY <2>1, <2>2
<1> HIDE DEF t
<1>6. Typed'
  <2>1. /\ pc' \in [Client -> Stage] /\ req' \in [Client -> Request \cup {Idle}]
        /\ before' \in [Client -> SUBSET Page]
    BY <1>1, <1>3, <1>4 DEF Typed, Stage, Lookups
  <2>2. intent' \in [Client -> BOOLEAN]
    BY <1>1, <1>5 DEF Typed
  <2> QED BY <1>1, <1>4, <2>1, <2>2 DEF Typed
<1>7. /\ pc'[c] = l /\ req'[c] = r /\ plan'[c] = 1 /\ before'[c] = stored /\ ~expired'[c]
  BY <1>1, <1>2, <1>3, <1>4 DEF Typed, ClientInv
<1>8. Found(c)'
  <2>1. \A k \in Plans[r.text] : ~(k < 1)
    BY <1>2, PlansOf DEF t
  <2> QED BY <1>7, <2>1 DEF Found
<1>9. ClientInv(c)'
  BY <1>4, <1>7, <1>8 DEF ClientInv, Unhindered, Lookups
<1>10. \A d \in Client \ {c} : Same(d)
  BY <1>1, <1>3, <1>4 DEF Same, Typed
<1> QED BY <1>1, <1>2, <1>4, <1>6, <1>9, <1>10, OneClient

-----------------------------------------------------------------------------
(* Search: writes, and entries of the caches that expire.                  *)

LEMMA AroundInv ==
  ASSUME SearchInv, stored \subseteq stored', IsFiniteSet(stored'), Typed', UNCHANGED pool,
         \A d \in Client : Same(d)
  PROVE  SearchInv'
<1>1. \A d \in Client : PoolOK(pool'[d]) /\ ClientInv(d)'
  BY OtherClient
<1>2. SearchOK'
  BY InvTypes DEF SearchInv, SearchOK, Typed
<1> QED BY <1>1, <1>2 DEF SearchInv

LEMMA WrittenKeeps ==
  ASSUME SearchInv, Written
  PROVE  /\ touched' \in [Client -> BOOLEAN] /\ tidy' = {} /\ \A d \in Client : Same(d)
         /\ UNCHANGED <<words, idf, pc, req, stats, plan, total, pool, intent, expired, before, hindered>>
<1>1. \A d \in Client : touched[d] \in BOOLEAN /\ (touched[d] \/ pc[d] \notin {"idle", "done"}) \in BOOLEAN
  BY InvTypes DEF Typed
<1>2. touched' \in [Client -> BOOLEAN]
  BY <1>1 DEF Written
<1> QED BY <1>2 DEF Written, lookups, query, progress, Same

LEMMA StoreInv == ASSUME SearchInv, NEW p \in Page, Store(p) PROVE SearchInv'
<1>1. stored' = stored \cup {p} /\ described' = described /\ clicks' = clicks /\ Written
  BY DEF Store
<1>2. IsFiniteSet(stored') /\ stored' \subseteq Page
  BY <1>1, FS_AddElement DEF SearchInv, SearchOK
<1>3. Typed'
  BY <1>1, <1>2, InvTypes, WrittenKeeps DEF Typed
<1> QED BY <1>1, <1>2, <1>3, WrittenKeeps, AroundInv

LEMMA RewriteInv == ASSUME SearchInv, NEW p \in Page, Rewrite(p) PROVE SearchInv'
<1>1. stored' = stored /\ clicks' = clicks /\ Written /\ IsFiniteSet(stored)
  BY DEF Rewrite, SearchInv
<1>2. described' \subseteq Page
  BY InvTypes DEF Rewrite, Typed
<1>3. Typed'
  BY <1>1, <1>2, InvTypes, WrittenKeeps DEF Typed
<1> QED BY <1>1, <1>3, WrittenKeeps, AroundInv

LEMMA RecordClickInv ==
  ASSUME SearchInv, NEW t \in Text, NEW p \in Clickable, RecordClick(t, p) PROVE SearchInv'
<1>1. stored' = stored /\ described' = described /\ Written /\ IsFiniteSet(stored)
  BY DEF RecordClick, SearchInv
<1>2. clicks' \in [Text -> [Page -> 0..MaxClicks]]
  <2>1. Norm[t] \in Text /\ p \in Page /\ MaxClicks \in Nat
    BY SearchAssumption
  <2>2. clicks \in [Text -> [Page -> 0..MaxClicks]]
    BY InvTypes DEF Typed
  <2>3. clicks[Norm[t]] \in [Page -> 0..MaxClicks] /\ clicks[Norm[t]][p] \in 0..MaxClicks
    BY <2>1, <2>2
  <2>4. clicks[Norm[t]][p] + 1 \in 0..MaxClicks
    BY <2>1, <2>3 DEF RecordClick
  <2>5. [clicks[Norm[t]] EXCEPT ![p] = clicks[Norm[t]][p] + 1] \in [Page -> 0..MaxClicks]
    BY <2>3, <2>4
  <2>6. clicks' = [clicks EXCEPT ![Norm[t]] = [clicks[Norm[t]] EXCEPT ![p] = clicks[Norm[t]][p] + 1]]
    BY <2>1, <2>2 DEF RecordClick
  <2> QED BY <2>2, <2>5, <2>6
<1>3. Typed'
  BY <1>1, <1>2, InvTypes, WrittenKeeps DEF Typed
<1> QED BY <1>1, <1>3, WrittenKeeps, AroundInv

LEMMA ExpiryInv ==
  ASSUME SearchInv, \/ \E k \in Keys : ExpireAnswer(k)
                    \/ \E t \in Text : ExpireWord(t) \/ ExpireIDF(t)
                    \/ UNCHANGED searchState
  PROVE  SearchInv'
<1>1. /\ UNCHANGED <<stored, described, clicks, pc, req, stats, plan, total, pool, intent, expired, before, hindered,
                     touched>>
      /\ tidy' \subseteq tidy /\ words' \in [Text -> {"none", "known", "unknown"}] /\ idf' \in [Text -> Stats]
  <2> USE InvTypes DEF dataVars, lookups, searchVars, query, progress, Typed
  <2>1. CASE \E k \in Keys : ExpireAnswer(k)
    BY <2>1 DEF ExpireAnswer
  <2>2. CASE \E t \in Text : ExpireWord(t)
    BY <2>2 DEF ExpireWord
  <2>3. CASE \E t \in Text : ExpireIDF(t)
    BY <2>3 DEF ExpireIDF, Stats
  <2>4. CASE UNCHANGED searchState
    BY <2>4 DEF searchState
  <2> QED BY <2>1, <2>2, <2>3, <2>4
<1>2. Typed' /\ IsFiniteSet(stored')
  BY <1>1, InvTypes DEF Typed, SearchInv
<1>3. \A d \in Client : Same(d)
  BY <1>1 DEF Same
<1> QED BY <1>1, <1>2, <1>3, AroundInv

-----------------------------------------------------------------------------
(* Search: the theorems.                                                   *)

LEMMA SearchInitInv == SearchInit => SearchInv
<1> SUFFICES ASSUME SearchInit PROVE SearchInv
  OBVIOUS
<1> USE DEF SearchInit
<1>1. Typed
  <2>1. /\ pc \in [Client -> Stage] /\ req \in [Client -> Request \cup {Idle}] /\ plan \in [Client -> 1..5]
        /\ total \in [Client -> Nat] /\ before \in [Client -> SUBSET Page] /\ tidy \subseteq Keys
        /\ stats \in [Client -> Stats] /\ idf \in [Text -> Stats] /\ described \subseteq Page
    BY DEF Stage, Stats
  <2>2. /\ clicks \in [Text -> [Page -> 0..MaxClicks]] /\ words \in [Text -> {"none", "known", "unknown"}]
    BY SearchAssumption
  <2>3. /\ intent \in [Client -> BOOLEAN] /\ expired \in [Client -> BOOLEAN]
        /\ hindered \in [Client -> BOOLEAN] /\ touched \in [Client -> BOOLEAN]
    OBVIOUS
  <2> QED BY <2>1, <2>2, <2>3, SearchAssumption DEF Typed
<1>2. SearchOK
  BY <1>1 DEF Typed, SearchOK
<1>3. \A c \in Client : PoolOK(pool[c]) /\ ClientInv(c)
  BY NoRows DEF ClientInv, Unhindered, Lookups
<1> QED BY <1>2, <1>3, SearchAssumption DEF SearchInv

LEMMA SearchNextInv == SearchInv /\ [SearchNext]_searchState => SearchInv'
<1> SUFFICES ASSUME SearchInv, [SearchNext]_searchState PROVE SearchInv'
  OBVIOUS
<1>1. ASSUME NEW c \in Client, SearchStep(c) \/ Timeout(c) PROVE SearchInv'
  BY <1>1, LookupInv, PlansDoneInv, PlanRowsInv, CountRowsInv, PlanFailsInv, StagesInv, FinishInv, LeaveInv DEF SearchStep
<1>2. ASSUME NEW c \in Client, NEW r \in Request, Hit(c, r) \/ Miss(c, r) PROVE SearchInv'
  BY <1>2, HitInv, MissInv
<1>3. ASSUME \/ (\E p \in Page : Store(p)) \/ \E p \in Recrawled : Rewrite(p)
             \/ \E t \in Text, p \in Clickable : RecordClick(t, p)
      PROVE  SearchInv'
  <2>1. \A p : Rewrite(p) => p \in Page
    BY DEF Rewrite, SearchInv, SearchOK
  <2> QED BY <1>3, <2>1, StoreInv, RewriteInv, RecordClickInv
<1>4. ASSUME \/ \E k \in Keys : ExpireAnswer(k)
             \/ \E t \in Text : ExpireWord(t) \/ ExpireIDF(t)
             \/ UNCHANGED searchState
      PROVE  SearchInv'
  BY <1>4, ExpiryInv
<1> QED BY <1>1, <1>2, <1>3, <1>4 DEF SearchNext

LEMMA SearchInvariant == SearchSpec => []SearchInv
BY SearchInitInv, SearchNextInv, PTL DEF SearchSpec

\* Whatever requests, failures, writes and expiries come together, a search and
\* what is shared between searches have their types, and the candidates of a
\* search are of different pages (mergeSearchCandidates).
THEOREM SearchTypeCorrect == SearchSpec => []SearchOK
<1>1. SearchInv => SearchOK
  BY DEF SearchInv
<1> QED BY <1>1, SearchInvariant, PTL

\* A search no statement of which has failed holds every page that was stored
\* when it began and that a plan matches, or as many as the early exit asks for,
\* whatever is written while the plans are run (SearchPages).
THEOREM EveryMatchFound == SearchSpec => []NoMatchMissed
<1>1. ASSUME SearchInv PROVE NoMatchMissed
  <2> SUFFICES ASSUME NEW c \in Client, Computed(c), ~hindered[c]
               PROVE  \/ \A p \in before[c] : (\E k \in Plans[req[c].text] : Level(req[c].text, stats[c], p) <= k)
                                                => p \in Ids(pool[c])
                      \/ Cardinality(pool[c]) >= EarlyExit(req[c])
    BY DEF NoMatchMissed
  <2>1. ClientInv(c) /\ pc[c] = "done" /\ plan[c] # 1
    BY <1>1 DEF SearchInv, Computed
  <2>2. plan[c] = 5 /\ Found(c) /\ req[c].text \in Text
    BY <1>1, <2>1, Searching DEF ClientInv, Unhindered
  <2>3. \A k \in Plans[req[c].text] : k < 5
    BY <2>2, PlansOf
  <2> QED BY <2>2, <2>3 DEF Found
<1> QED BY <1>1, SearchInvariant, PTL

-----------------------------------------------------------------------------
(* Search: the inductive invariant behind the reference.                   *)

\* A search that has met no error, no write and nothing outdated.
Undisturbed(c) ==
  /\ pc[c] \in Lookups \cup {"plan", "count", "recent", "diverse", "nav", "rank"}
  /\ ~hindered[c] /\ ~touched[c]

PlansTotal(r, K) == IF K = {} THEN 0 ELSE Cardinality(RefMatching(r, Max(K)))

\* No plan before k has had enough matches.
NoneEnough(r, k) ==
  \A j \in Plans[r.text] :
    RefMatching(r, j) # {} /\ Cardinality(RefMatching(r, j)) >= EarlyExit(r) => k <= j

\* The reference up to plan k, and in the stages after the plans.
RunUpTo(r, k) == {j \in RefRun(r) : j <= k}
RunOf(r, k) == {j \in RefRun(r) : j < k}
PoolBefore(r, k) == PlansPool(r, RunOf(r, k))
TotalBefore(r, k) == PlansTotal(r, RunOf(r, k))

\* What the lookups have made of the query.
LookupExact(r, stage, m, nav) ==
  /\ stage \in {"word", "domain"} => MayNameDomain(r.text) /\ m = None
  /\ stage = "word" => ~nav
  /\ stage = "domain" => ~KnownWord(Norm[r.text])
  /\ stage \in {"docs", "idf"} => HasTokens(r.text) /\ nav = RefIntent(r.text)
  /\ stage = "idf" => m = stored

PlanExact(r, stage, k, P, n) ==
  /\ stage = "plan" => /\ P = PoolBefore(r, k) /\ n = TotalBefore(r, k)
                       /\ k # 5 => k \in Plans[r.text] /\ NoneEnough(r, k)
  /\ stage = "count" => /\ P = PlansPool(r, RunUpTo(r, k)) /\ RefMatching(r, k) # {}
                        /\ k \in Plans[r.text] /\ NoneEnough(r, k)

StageExact(r, stage, P, n) ==
  /\ stage = "recent" => P = RefPlans(r) /\ Fresh[r.text]
  /\ stage = "diverse" => P = RefRecent(r) /\ Platform[r.text] # None
  /\ stage = "nav" => P = RefDiverse(r) /\ RefIntent(r.text)
  /\ stage = "rank" => P = Reference(r).pool
  /\ stage \in {"recent", "diverse", "nav", "rank"} => n = Reference(r).total

\* What such a search has found is the reference as far as it has come.
ExactSearch(c) ==
  \E r \in Request, k \in 1..5 :
    /\ req[c] = r /\ plan[c] = k
    /\ IF pc[c] \in Lookups THEN /\ pool[c] = {} /\ total[c] = 0
                                 /\ LookupExact(r, pc[c], stats[c], intent[c])
       ELSE intent[c] = RefIntent(r.text) /\ stats[c] = RefStats(r.text)
    /\ PlanExact(r, pc[c], k, pool[c], total[c])
    /\ StageExact(r, pc[c], pool[c], total[c])

ExactClient(c) ==
  /\ pc[c] = "idle" => pool[c] = {} /\ total[c] = 0 /\ stats[c] = None
  /\ Undisturbed(c) => ExactSearch(c)

ExactInv ==
  /\ SearchInv /\ DOMAIN cache = Keys /\ AnswersExact
  /\ \A c \in Client : ExactClient(c)

\* What the reference says changes with the pages, their texts and the clicks only.
LEMMA Frozen ==
  ASSUME UNCHANGED <<stored, described, clicks>>, NEW r
  PROVE  /\ RefIntent(r.text)' = RefIntent(r.text) /\ RefStats(r.text)' = RefStats(r.text)
         /\ KnownWord(Norm[r.text])' <=> KnownWord(Norm[r.text])
         /\ \A k : /\ PoolBefore(r, k)' = PoolBefore(r, k) /\ TotalBefore(r, k)' = TotalBefore(r, k)
                   /\ PlansPool(r, RunUpTo(r, k))' = PlansPool(r, RunUpTo(r, k))
                   /\ RefMatching(r, k)' = RefMatching(r, k)
                   /\ NoneEnough(r, k)' <=> NoneEnough(r, k)
         /\ RefPlans(r)' = RefPlans(r) /\ RefRecent(r)' = RefRecent(r) /\ RefDiverse(r)' = RefDiverse(r)
         /\ Reference(r)' = Reference(r)
<1>1. /\ RefIntent(r.text)' = RefIntent(r.text) /\ RefStats(r.text)' = RefStats(r.text)
      /\ KnownWord(Norm[r.text])' <=> KnownWord(Norm[r.text])
  BY DEF RefIntent, RefStats, KnownWord
<1>2. \A k : RefMatching(r, k)' = RefMatching(r, k) /\ RefScore(r, k)' = RefScore(r, k)
  BY <1>1 DEF RefMatching, RefScore, Matching, PlanScore
<1>3. \A k : RefPages(r, k)' = RefPages(r, k)
  BY <1>1 DEF RefPages, FTSPages, FTSOrder, Matching, PlanScore
<1>4. RefRun(r)' = RefRun(r) /\ \A k : NoneEnough(r, k)' <=> NoneEnough(r, k)
  BY <1>2 DEF RefRun, NoneEnough
<1>5. \A k : RunOf(r, k)' = RunOf(r, k) /\ RunUpTo(r, k)' = RunUpTo(r, k)
  BY <1>4 DEF RunOf, RunUpTo
<1>6. \A k : TotalBefore(r, k)' = TotalBefore(r, k)
  BY <1>2, <1>5 DEF TotalBefore, PlansTotal
<1>7. ASSUME NEW K PROVE PlansPool(r, K)' = PlansPool(r, K)
  <2>1. \A k : Leading(r, K, k)' = Leading(r, K, k)
    BY <1>2, <1>3 DEF Leading, Leads
  <2>2. \A k : LeadingRows(r, K, k)' = LeadingRows(r, K, k)
    BY <1>2, <2>1 DEF LeadingRows, Candidate
  <2> QED BY <2>2 DEF PlansPool
<1>8. /\ \A k : PoolBefore(r, k)' = PoolBefore(r, k)
      /\ \A k : PlansPool(r, RunUpTo(r, k))' = PlansPool(r, RunUpTo(r, k))
      /\ RefPlans(r)' = RefPlans(r)
  BY <1>4, <1>5, <1>7 DEF PoolBefore, RefPlans
<1>9. /\ SearchRecent(r, RefStats(r.text))' = SearchRecent(r, RefStats(r.text))
      /\ SearchExcluding(r, RefStats(r.text))' = SearchExcluding(r, RefStats(r.text))
  BY <1>1 DEF SearchRecent, SearchExcluding, Matching, PlanScore, Candidate
<1>10. SearchNavigational(r)' = SearchNavigational(r)
  BY DEF SearchNavigational, Candidate
<1>11. RefRecent(r)' = RefRecent(r)
  BY <1>8, <1>9 DEF RefRecent
<1>12. RefDiverse(r)' = RefDiverse(r)
  BY <1>9, <1>11 DEF RefDiverse
<1>13. Reference(r)' = Reference(r)
  BY <1>1, <1>2, <1>4, <1>10, <1>12 DEF Reference
<1> QED BY <1>1, <1>2, <1>4, <1>6, <1>8, <1>11, <1>12, <1>13

-----------------------------------------------------------------------------
(* Search: the copies of a page.                                           *)

CopyOf(r, j, p) == Candidate(r.text, p, PlanMode[j], RefScore(r, j)[p])

LEMMA RefTypes ==
  ASSUME SearchInv, NEW r \in Request
  PROVE  /\ r.text \in Text /\ RefStats(r.text) \in Stats
         /\ \A k \in 1..4 : RefScore(r, k) \in [Page -> Int] /\ RefPages(r, k) \in SUBSET RefMatching(r, k)
                            /\ RefMatching(r, k) \in SUBSET stored /\ RefPages(r, k) \in SUBSET Page
<1>1. r.text \in Text /\ stored \in SUBSET Page
  BY SearchAssumption DEF SearchInv, SearchOK
<1>2. RefStats(r.text) \in Stats
  BY <1>1 DEF RefStats, Stats
<1>3. ASSUME NEW k \in 1..4
      PROVE  /\ RefScore(r, k) \in [Page -> Int] /\ RefPages(r, k) \in SUBSET RefMatching(r, k)
             /\ RefMatching(r, k) \in SUBSET stored /\ RefPages(r, k) \in SUBSET Page
  <2>1. RefScore(r, k) \in [Page -> Int]
    BY <1>1, <1>2, ScoreType DEF RefScore
  <2>2. RefPages(r, k) \in SUBSET RefMatching(r, k) /\ RefMatching(r, k) \in SUBSET stored
    BY DEF RefPages, RefMatching, FTSPages, Best, Matching
  <2> QED BY <1>1, <2>1, <2>2
<1> QED BY <1>1, <1>2, <1>3

\* Copies of a page differ in their mode and their score.
LEMMA Copies ==
  ASSUME SearchInv, NEW r \in Request, NEW p \in Page, NEW j \in 1..4, NEW k \in 1..4
  PROVE  /\ CopyOf(r, j, p) \in Candidates /\ CopyOf(r, j, p).id = p
         /\ CopyOf(r, j, p).snippet = (p \in described)
         /\ RefScore(r, j)[p] \in Int /\ RefScore(r, k)[p] \in Int
         /\ Replaces(CopyOf(r, k, p), CopyOf(r, j, p)) <=> RefScore(r, k)[p] > RefScore(r, j)[p]
<1>1. clicks[r.text][p] \in Int
  <2>1. clicks[r.text] \in [Page -> 0..MaxClicks] /\ MaxClicks \in Nat
    BY RefTypes, SearchAssumption DEF SearchInv, SearchOK
  <2> QED BY <2>1
<1>2. RefScore(r, j)[p] \in Int /\ RefScore(r, k)[p] \in Int
  BY RefTypes
<1> DEFINE more == 50 * clicks[r.text][p]
           shown == p \in described
<1>3. more \in Int
  BY <1>1
<1>4. /\ CopyOf(r, j, p) = [id |-> p, mode |-> PlanMode[j], sqlScore |-> RefScore(r, j)[p] + more, snippet |-> shown]
      /\ CopyOf(r, k, p) = [id |-> p, mode |-> PlanMode[k], sqlScore |-> RefScore(r, k)[p] + more, snippet |-> shown]
  BY DEF CopyOf, Candidate
<1>5. PlanMode[j] \in Modes /\ shown \in BOOLEAN
  BY DEF PlanMode, Modes
<1> HIDE DEF more, shown
<1>6. RefScore(r, j)[p] + more \in Int
  BY <1>2, <1>3
<1>7. CopyOf(r, j, p) \in Candidates /\ CopyOf(r, j, p).id = p /\ CopyOf(r, j, p).snippet = shown
  BY <1>4, <1>5, <1>6 DEF Candidates
<1>8. /\ CopyOf(r, j, p).sqlScore = RefScore(r, j)[p] + more /\ CopyOf(r, k, p).sqlScore = RefScore(r, k)[p] + more
      /\ CopyOf(r, k, p).snippet = shown
  BY <1>4
<1>9. (RefScore(r, k)[p] + more > RefScore(r, j)[p] + more) <=> RefScore(r, k)[p] > RefScore(r, j)[p]
  BY <1>2, <1>3
<1>10. Replaces(CopyOf(r, k, p), CopyOf(r, j, p)) <=> RefScore(r, k)[p] > RefScore(r, j)[p]
  BY <1>7, <1>8, <1>9 DEF Replaces
<1> QED BY <1>2, <1>7, <1>10 DEF shown

\* The candidate x is the leading copy of its page.
Leader(r, K, x) == \E j \in K : \E p \in stored : Leads(r, K, j, p) /\ x = CopyOf(r, j, p)

LEMMA InPool == ASSUME NEW r, NEW K PROVE \A x : x \in PlansPool(r, K) <=> Leader(r, K, x)
<1>1. \A j : \A x : x \in LeadingRows(r, K, j) <=> \E p \in Leading(r, K, j) : x = CopyOf(r, j, p)
  BY DEF LeadingRows, CopyOf
<1>2. \A j : \A p : p \in Leading(r, K, j) <=> p \in stored /\ Leads(r, K, j, p)
  BY DEF Leading
<1>3. \A x : x \in PlansPool(r, K) <=> \E j \in K : x \in LeadingRows(r, K, j)
  BY DEF PlansPool
<1> QED BY <1>1, <1>2, <1>3 DEF Leader

\* Of a few numbers one is the greatest, and the first of those.
LEMMA BestOf ==
  ASSUME NEW f \in [1..4 -> Int]
  PROVE  \A W \in SUBSET (1..4) : W # {} => \E j \in W : \A i \in W : f[i] < f[j] \/ (f[i] = f[j] /\ j <= i)
<1> DEFINE Good(W) == \E j \in W : \A i \in W : f[i] < f[j] \/ (f[i] = f[j] /\ j <= i)
           Claim(n) == \A W \in SUBSET (1..n) : W # {} => Good(W)
<1>1. Claim(1)
  <2> SUFFICES ASSUME NEW W \in SUBSET (1..1), W # {} PROVE Good(W)
    OBVIOUS
  <2>1. W = {1}
    <3>1. \A i \in W : i = 1
      OBVIOUS
    <3> QED BY <3>1
  <2>2. f[1] = f[1] /\ 1 <= 1
    OBVIOUS
  <2> QED BY <2>1, <2>2
<1>2. ASSUME NEW n \in 1..3, Claim(n) PROVE Claim(n + 1)
  <2> SUFFICES ASSUME NEW W \in SUBSET (1..(n + 1)), W # {} PROVE Good(W)
    OBVIOUS
  <2> DEFINE V == W \ {n + 1}
  <2>1. V \in SUBSET (1..n) /\ \A i \in W : i \in 1..4 /\ f[i] \in Int
    OBVIOUS
  <2>2. CASE n + 1 \notin W
    <3>1. V = W
      BY <2>2
    <3> QED BY <1>2, <2>1, <3>1
  <2>3. CASE n + 1 \in W /\ V = {}
    <3>1. W = {n + 1}
      BY <2>3
    <3> QED BY <2>1, <3>1
  <2>4. CASE n + 1 \in W /\ V # {}
    <3>1. PICK j \in V : \A i \in V : f[i] < f[j] \/ (f[i] = f[j] /\ j <= i)
      BY <1>2, <2>1, <2>4
    <3>2. j \in 1..n /\ f[j] \in Int /\ f[n + 1] \in Int /\ j \in W /\ j <= n + 1
      BY <2>1, <2>4
    <3>3. \A i \in W : i \in V \/ i = n + 1
      OBVIOUS
    <3>4. CASE f[n + 1] > f[j]
      <4>1. \A i \in V : f[i] < f[n + 1]
        BY <2>1, <3>1, <3>2, <3>4
      <4>2. \A i \in W : f[i] < f[n + 1] \/ (f[i] = f[n + 1] /\ n + 1 <= i)
        BY <3>3, <4>1
      <4> QED BY <2>4, <4>2
    <3>5. CASE ~(f[n + 1] > f[j])
      <4>1. f[n + 1] < f[j] \/ f[n + 1] = f[j]
        BY <3>2, <3>5
      <4>2. \A i \in W : f[i] < f[j] \/ (f[i] = f[j] /\ j <= i)
        BY <3>1, <3>2, <3>3, <4>1
      <4> QED BY <3>2, <4>2
    <3> QED BY <3>4, <3>5
  <2> QED BY <2>2, <2>3, <2>4
<1> HIDE DEF Claim
<1>3. Claim(2) /\ Claim(3) /\ Claim(4)
  <2>1. Claim(1 + 1)
    BY <1>1, <1>2
  <2>2. Claim(2)
    BY <2>1
  <2>3. Claim(2 + 1)
    BY <1>2, <2>2
  <2>4. Claim(3)
    BY <2>3
  <2>5. Claim(3 + 1)
    BY <1>2, <2>4
  <2> QED BY <2>2, <2>4, <2>5
<1> QED BY <1>3 DEF Claim

\* Of the copies of a page that some plans have, one leads.
LEMMA LeaderExists ==
  ASSUME SearchInv, NEW r \in Request, NEW K \in SUBSET (1..4), NEW i \in K, NEW p \in RefPages(r, i)
  PROVE  p \in stored /\ \E j \in K : Leads(r, K, j, p)
<1>1. p \in stored /\ p \in Page
  BY RefTypes
<1> DEFINE f == [j \in 1..4 |-> RefScore(r, j)[p]]
           W == {j \in K : p \in RefPages(r, j)}
<1>2. f \in [1..4 -> Int]
  BY <1>1, RefTypes
<1>3. W \in SUBSET (1..4) /\ W # {}
  OBVIOUS
<1>4. PICK j \in W : \A l \in W : f[l] < f[j] \/ (f[l] = f[j] /\ j <= l)
  <2> HIDE DEF f, W
  <2> QED BY <1>2, <1>3, BestOf
<1>5. Leads(r, K, j, p)
  BY <1>4 DEF Leads
<1> QED BY <1>1, <1>5

\* The pages of the plans.
LEMMA PoolPages ==
  ASSUME SearchInv, NEW r \in Request, NEW K \in SUBSET (1..4)
  PROVE  Ids(PlansPool(r, K)) = UNION {RefPages(r, j) : j \in K}
<1>1. ASSUME NEW x \in PlansPool(r, K) PROVE \E j \in K : x.id \in RefPages(r, j)
  <2>1. Leader(r, K, x)
    BY InPool
  <2>2. PICK j \in K, p \in stored : Leads(r, K, j, p) /\ x = CopyOf(r, j, p)
    BY <2>1 DEF Leader
  <2>3. p \in Page /\ p \in RefPages(r, j)
    BY <2>2 DEF Leads, SearchInv, SearchOK
  <2> QED BY <2>2, <2>3, Copies
<1>2. ASSUME NEW i \in K, NEW p \in RefPages(r, i) PROVE p \in Ids(PlansPool(r, K))
  <2>1. PICK j \in K : Leads(r, K, j, p)
    BY LeaderExists
  <2>2. p \in stored /\ p \in Page
    BY RefTypes
  <2>3. CopyOf(r, j, p) \in PlansPool(r, K) /\ CopyOf(r, j, p).id = p
    BY <2>1, <2>2, InPool, Copies DEF Leader
  <2> QED BY <2>3 DEF Ids
<1> QED BY <1>1, <1>2 DEF Ids

LEMMA HeirSame == ASSUME NEW d \in Candidates PROVE [d EXCEPT !.snippet = d.snippet] = d
BY DEF Candidates

\* The best copies after one more plan: of equal scores the older copy stays, and
\* no copy has more of a snippet than another.
LEMMA MergeLeading ==
  ASSUME SearchInv, NEW r \in Request, NEW k \in 1..4, NEW K \in SUBSET (1..4), \A j \in K : j < k
  PROVE  Merge(PlansPool(r, K), SearchFTS(r, RefStats(r.text), k, RefIntent(r.text))) = PlansPool(r, K \cup {k})
<1> DEFINE P == PlansPool(r, K)
           R == SearchFTS(r, RefStats(r.text), k, RefIntent(r.text))
           L == K \cup {k}
           Stays == {x \in P : \A d \in R : d.id = x.id => ~Replaces(d, x)}
           New == {d \in R : \A x \in P : x.id = d.id => Replaces(d, x)}
           shown == [d \in New |-> d.snippet \/ \E x \in P : x.id = d.id /\ x.snippet]
           heir == [d \in New |-> [d EXCEPT !.snippet = shown[d]]]
           Heir == {heir[d] : d \in New}
<1>1. Merge(P, R) = Stays \cup Heir
  BY DEF Merge
<1>2. \A x : x \in P <=> Leader(r, K, x)
  BY InPool
<1>3. \A x : x \in R <=> \E p \in RefPages(r, k) : x = CopyOf(r, k, p)
  BY DEF SearchFTS, RefPages, CopyOf, RefScore
<1>4. L \in SUBSET (1..4) /\ \A x : x \in PlansPool(r, L) <=> Leader(r, L, x)
  BY InPool
<1>5. \A j \in 1..4 : \A p \in RefPages(r, j) : p \in stored /\ p \in Page
  BY RefTypes
<1>6. stored \subseteq Page
  BY DEF SearchInv, SearchOK
<1>7. \A x \in New : x \in R /\ \A y \in P : y.id = x.id => Replaces(x, y)
  OBVIOUS
<1>8. ASSUME NEW d \in New PROVE heir[d] = d
  <2>1. PICK p \in RefPages(r, k) : d = CopyOf(r, k, p)
    BY <1>3, <1>7
  <2>2. d \in Candidates /\ d.id = p /\ d.snippet = (p \in described)
    BY <1>5, <2>1, Copies
  <2>3. ASSUME NEW x \in P, x.id = d.id PROVE x.snippet = d.snippet
    <3>1. PICK j \in K : \E q \in stored : Leads(r, K, j, q) /\ x = CopyOf(r, j, q)
      BY <1>2 DEF Leader
    <3>2. PICK q \in stored : x = CopyOf(r, j, q)
      BY <3>1
    <3>3. x.id = q /\ x.snippet = (q \in described)
      BY <1>6, <3>2, Copies
    <3> QED BY <2>2, <2>3, <3>3
  <2>4. shown[d] = d.snippet
    <3>1. d.snippet \in BOOLEAN
      BY <2>2
    <3>2. shown[d] <=> d.snippet
      BY <2>3
    <3>3. shown[d] \in BOOLEAN
      OBVIOUS
    <3> HIDE DEF shown
    <3> QED BY <3>1, <3>2, <3>3
  <2>5. heir[d] = [d EXCEPT !.snippet = shown[d]]
    OBVIOUS
  <2> HIDE DEF shown, heir, New
  <2> QED BY <2>2, <2>4, <2>5, HeirSame
<1>9. Heir = New
  <2> HIDE DEF heir, New
  <2> QED BY <1>8
<1>10. \A x \in Stays : x \in P /\ \A d \in R : d.id = x.id => ~Replaces(d, x)
  OBVIOUS
<1>11. \A x : x \in P /\ (\A d \in R : d.id = x.id => ~Replaces(d, x)) => x \in Stays
  OBVIOUS
<1>12. \A x : x \in R /\ (\A y \in P : y.id = x.id => Replaces(x, y)) => x \in New
  OBVIOUS
<1> HIDE DEF P, R, Stays, New, Heir, heir, shown
<1>13. ASSUME NEW x \in Stays PROVE Leader(r, L, x)
  <2>1. PICK j \in K : \E p \in stored : Leads(r, K, j, p) /\ x = CopyOf(r, j, p)
    BY <1>2, <1>10 DEF Leader
  <2>2. PICK p \in stored : Leads(r, K, j, p) /\ x = CopyOf(r, j, p)
    BY <2>1
  <2>3. ASSUME p \in RefPages(r, k)
        PROVE  RefScore(r, k)[p] < RefScore(r, j)[p] \/ (RefScore(r, k)[p] = RefScore(r, j)[p] /\ j <= k)
    <3>1. p \in Page /\ j \in 1..4 /\ k \in 1..4 /\ j <= k
      BY <1>6, <2>2
    <3>2. CopyOf(r, k, p) \in R /\ CopyOf(r, k, p).id = x.id
      BY <1>3, <2>2, <2>3, <3>1, Copies
    <3>3. ~Replaces(CopyOf(r, k, p), CopyOf(r, j, p))
      BY <1>10, <2>2, <3>2
    <3>4. RefScore(r, k)[p] \in Int /\ RefScore(r, j)[p] \in Int /\ ~(RefScore(r, k)[p] > RefScore(r, j)[p])
      BY <3>1, <3>3, Copies
    <3> QED BY <3>1, <3>4
  <2>4. Leads(r, L, j, p)
    BY <2>2, <2>3 DEF Leads
  <2> QED BY <2>2, <2>4 DEF Leader
<1>14. ASSUME NEW x \in New PROVE Leader(r, L, x)
  <2>1. PICK p \in RefPages(r, k) : x = CopyOf(r, k, p)
    BY <1>3, <1>7
  <2>2. p \in stored /\ p \in Page
    BY <1>5
  <2>3. ASSUME NEW i \in K, p \in RefPages(r, i) PROVE RefScore(r, i)[p] < RefScore(r, k)[p]
    <3>1. PICK j \in K : Leads(r, K, j, p)
      BY <2>3, LeaderExists
    <3>2. i \in 1..4 /\ j \in 1..4 /\ k \in 1..4
      OBVIOUS
    <3>3. CopyOf(r, j, p) \in P /\ CopyOf(r, j, p).id = x.id
      BY <1>2, <2>1, <2>2, <3>1, <3>2, Copies DEF Leader
    <3>4. Replaces(CopyOf(r, k, p), CopyOf(r, j, p))
      BY <1>7, <2>1, <3>3
    <3>5. RefScore(r, k)[p] > RefScore(r, j)[p]
      BY <2>2, <3>2, <3>4, Copies
    <3>6. RefScore(r, i)[p] < RefScore(r, j)[p] \/ RefScore(r, i)[p] = RefScore(r, j)[p]
      BY <2>3, <3>1 DEF Leads
    <3>7. RefScore(r, i)[p] \in Int /\ RefScore(r, j)[p] \in Int /\ RefScore(r, k)[p] \in Int
      BY <2>2, <3>2, Copies
    <3> QED BY <3>5, <3>6, <3>7
  <2>4. Leads(r, L, k, p)
    BY <2>1, <2>3 DEF Leads
  <2> QED BY <2>1, <2>2, <2>4 DEF Leader
<1>15. ASSUME NEW x, Leader(r, L, x) PROVE x \in Stays \cup New
  <2>1. PICK j \in L : \E p \in stored : Leads(r, L, j, p) /\ x = CopyOf(r, j, p)
    BY <1>15 DEF Leader
  <2>2. PICK p \in stored : Leads(r, L, j, p) /\ x = CopyOf(r, j, p)
    BY <2>1
  <2>3. p \in Page /\ j \in 1..4 /\ p \in RefPages(r, j) /\ x.id = p
    BY <1>6, <2>2, Copies DEF Leads
  <2>4. CASE j \in K
    <3>1. Leads(r, K, j, p)
      BY <2>2 DEF Leads
    <3>2. x \in P
      BY <1>2, <2>2, <2>4, <3>1 DEF Leader
    <3>3. ASSUME NEW d \in R, d.id = x.id PROVE ~Replaces(d, x)
      <4>1. PICK q \in RefPages(r, k) : d = CopyOf(r, k, q)
        BY <1>3
      <4>2. q \in Page /\ d.id = q
        BY <1>5, <4>1, Copies
      <4>3. q = p
        BY <2>3, <3>3, <4>2
      <4>4. RefScore(r, k)[p] < RefScore(r, j)[p] \/ RefScore(r, k)[p] = RefScore(r, j)[p]
        BY <2>2, <4>1, <4>3 DEF Leads
      <4>5. RefScore(r, k)[p] \in Int /\ RefScore(r, j)[p] \in Int
        BY <2>3, Copies
      <4>6. ~(RefScore(r, k)[p] > RefScore(r, j)[p])
        BY <4>4, <4>5
      <4> QED BY <2>2, <2>3, <4>1, <4>3, <4>6, Copies
    <3> QED BY <1>11, <3>2, <3>3
  <2>5. CASE j = k
    <3>1. x \in R
      BY <1>3, <2>2, <2>3, <2>5
    <3>2. ASSUME NEW y \in P, y.id = x.id PROVE Replaces(x, y)
      <4>1. PICK i \in K : \E q \in stored : Leads(r, K, i, q) /\ y = CopyOf(r, i, q)
        BY <1>2 DEF Leader
      <4>2. PICK q \in stored : Leads(r, K, i, q) /\ y = CopyOf(r, i, q)
        BY <4>1
      <4>3. q \in Page /\ i \in 1..4 /\ y.id = q /\ i < k
        BY <1>6, <4>2, Copies
      <4>4. q = p /\ p \in RefPages(r, i)
        BY <2>3, <3>2, <4>2, <4>3 DEF Leads
      <4>5. RefScore(r, i)[p] < RefScore(r, k)[p] \/ (RefScore(r, i)[p] = RefScore(r, k)[p] /\ k <= i)
        BY <2>2, <2>5, <4>4 DEF Leads
      <4>6. RefScore(r, k)[p] \in Int /\ RefScore(r, i)[p] \in Int
        BY <2>3, <4>3, Copies
      <4>7. RefScore(r, k)[p] > RefScore(r, i)[p]
        BY <4>3, <4>5, <4>6
      <4> QED BY <2>2, <2>3, <2>5, <4>2, <4>3, <4>4, <4>7, Copies
    <3> QED BY <1>12, <3>1, <3>2
  <2> QED BY <2>4, <2>5
<1>16. \A x : x \in Merge(P, R) <=> x \in PlansPool(r, L)
  BY <1>1, <1>4, <1>9, <1>13, <1>14, <1>15
<1>17. Merge(P, R) = PlansPool(r, L)
  BY <1>16
<1> QED BY <1>17 DEF P, R

-----------------------------------------------------------------------------
(* Search: the plans of the reference.                                     *)

\* The plans before k that have rows are those of the reference, as long as
\* none had enough.
LEMMA RunBefore ==
  ASSUME NEW r \in Request, NEW k \in 1..5, NoneEnough(r, k)
  PROVE  /\ RunOf(r, k) = {j \in Plans[r.text] : j < k /\ RefMatching(r, j) # {}}
         /\ k \in Plans[r.text] /\ RefMatching(r, k) # {} => k \in RefRun(r)
         /\ RefRun(r) \subseteq 1..4 /\ \A j \in RefRun(r) : j \in Plans[r.text] /\ RefMatching(r, j) # {}
<1>1. r.text \in Text /\ Plans[r.text] \subseteq 1..4
  BY SearchAssumption, PlansOf
<1>2. ASSUME NEW j \in Plans[r.text], j <= k, RefMatching(r, j) # {} PROVE j \in RefRun(r)
  <2>1. \A i \in Plans[r.text] :
          RefMatching(r, i) # {} /\ Cardinality(RefMatching(r, i)) >= EarlyExit(r) => j <= i
    BY <1>1, <1>2 DEF NoneEnough
  <2> QED BY <1>2, <2>1 DEF RefRun
<1>3. \A j \in RefRun(r) : j \in Plans[r.text] /\ RefMatching(r, j) # {}
  BY DEF RefRun
<1>4. \A j : j \in RunOf(r, k) <=> j \in Plans[r.text] /\ j < k /\ RefMatching(r, j) # {}
  BY <1>1, <1>2, <1>3 DEF RunOf
<1>5. k \in Plans[r.text] /\ RefMatching(r, k) # {} => k \in RefRun(r)
  BY <1>2
<1> QED BY <1>1, <1>3, <1>4, <1>5

\* What FTSRows says of a plan of the reference.
LEMMA RefRows ==
  ASSUME SearchInv, NEW r \in Request, NEW k \in 1..4
  PROVE  LET Q == RefPages(r, k)
             M == RefMatching(r, k)
             rows == SearchFTS(r, RefStats(r.text), k, RefIntent(r.text)) IN
         /\ Q \in SUBSET M /\ M \in SUBSET stored /\ IsFiniteSet(M) /\ IsFiniteSet(Q)
         /\ Cardinality(M) \in Nat /\ Cardinality(Q) \in Nat
         /\ PoolOK(rows) /\ Ids(rows) = Q /\ (Q # M => Cardinality(Q) >= CandidateLimit(r))
<1>1. RefStats(r.text) \in Stats
  BY RefTypes
<1> DEFINE m == RefStats(r.text)
           nav == RefIntent(r.text)
<1> HIDE DEF m, nav
<1>2. m \in Stats
  BY <1>1 DEF m
<1>3. /\ FTSPages(r, m, k, nav) \in SUBSET Matching(r.text, m, k) /\ Matching(r.text, m, k) \in SUBSET stored
      /\ IsFiniteSet(Matching(r.text, m, k)) /\ IsFiniteSet(FTSPages(r, m, k, nav))
  BY <1>2, FTSRows
<1>4. Cardinality(Matching(r.text, m, k)) \in Nat /\ Cardinality(FTSPages(r, m, k, nav)) \in Nat
  BY <1>2, FTSRows
<1>5. /\ PoolOK(SearchFTS(r, m, k, nav)) /\ Ids(SearchFTS(r, m, k, nav)) = FTSPages(r, m, k, nav)
      /\ FTSPages(r, m, k, nav) # Matching(r.text, m, k)
           => Cardinality(FTSPages(r, m, k, nav)) >= CandidateLimit(r)
  BY <1>2, FTSRows
<1> QED BY <1>3, <1>4, <1>5 DEF m, nav, RefPages, RefMatching

\* Their LIMIT has cut nothing off.
LEMMA AllBefore ==
  ASSUME SearchInv, NEW r \in Request, NEW k \in 1..5, NoneEnough(r, k), NEW j \in Plans[r.text], j < k
  PROVE  RefPages(r, j) = RefMatching(r, j)
<1> DEFINE Q == RefPages(r, j)
           M == RefMatching(r, j)
<1> SUFFICES ASSUME Q # M PROVE FALSE
  OBVIOUS
<1>1. j \in 1..4
  BY SearchAssumption, PlansOf
<1>2. /\ Q \in SUBSET M /\ IsFiniteSet(M) /\ Cardinality(M) \in Nat /\ Cardinality(Q) \in Nat
      /\ Cardinality(Q) >= CandidateLimit(r)
  BY <1>1, RefRows
<1>3. Cardinality(M) >= Cardinality(Q) /\ M # {}
  BY <1>2, FS_Subset
<1>4. Cardinality(M) >= EarlyExit(r)
  <2>1. CandidateLimit(r) \in Nat /\ EarlyExit(r) \in Int /\ EarlyExit(r) <= CandidateLimit(r)
    BY Limits
  <2> HIDE DEF Q, M
  <2> QED BY <1>2, <1>3, <2>1
<1>5. ~(k <= j)
  BY <1>1
<1> QED BY <1>3, <1>4, <1>5 DEF NoneEnough

\* Plan k returns rows if anything matches; what was found before matches it, too;
\* and there is enough if enough matches.
LEMMA PlanReached ==
  ASSUME SearchInv, NEW r \in Request, NEW k \in Plans[r.text], NoneEnough(r, k), PoolOK(PlansPool(r, RunOf(r, k) \cup {k}))
  PROVE  /\ SearchFTS(r, RefStats(r.text), k, RefIntent(r.text)) = {} <=> RefMatching(r, k) = {}
         /\ Cardinality(PlansPool(r, RunOf(r, k) \cup {k})) >= EarlyExit(r)
              <=> Cardinality(RefMatching(r, k)) >= EarlyExit(r)
<1> DEFINE t == r.text
           M == RefMatching(r, k)
           Q == RefPages(r, k)
           run == RunOf(r, k)
           U == UNION {RefPages(r, j) : j \in run}
           rows == SearchFTS(r, RefStats(t), k, RefIntent(t))
           both == PlansPool(r, run \cup {k})
<1>1. t \in Text /\ k \in 1..4 /\ Plans[t] \subseteq 1..4
  BY SearchAssumption, PlansOf
<1>2. run = {j \in Plans[t] : j < k /\ RefMatching(r, j) # {}} /\ run \subseteq 1..4
  <2>1. k \in 1..5
    BY <1>1
  <2>2. run = {j \in Plans[t] : j < k /\ RefMatching(r, j) # {}}
    BY <2>1, RunBefore
  <2> QED BY <1>1, <2>2
<1>3. /\ Q \in SUBSET M /\ M \in SUBSET stored /\ IsFiniteSet(M) /\ IsFiniteSet(Q)
      /\ Cardinality(M) \in Nat /\ Cardinality(Q) \in Nat
      /\ Ids(rows) = Q /\ (Q # M => Cardinality(Q) >= CandidateLimit(r))
  BY <1>1, RefRows
<1>4. stored \in SUBSET Page /\ \A p \in Page : Level(t, RefStats(t), p) \in 1..5
  <2>1. RefStats(t) \in Stats
    BY RefTypes
  <2> QED BY <1>1, <2>1, ScoresAssumption DEF SearchInv, SearchOK
<1>5. CandidateLimit(r) \in Nat \ {0} /\ EarlyExit(r) \in Int /\ EarlyExit(r) <= CandidateLimit(r)
  BY Limits
<1>6. \A j \in run : RefPages(r, j) = RefMatching(r, j)
  <2>1. k \in 1..5
    BY <1>1
  <2> QED BY <1>2, <2>1, AllBefore
<1>7. U \in SUBSET M
  <2> SUFFICES ASSUME NEW p \in U PROVE p \in M
    OBVIOUS
  <2>1. PICK j \in run : p \in RefPages(r, j)
    OBVIOUS
  <2>2. p \in RefMatching(r, j) /\ j \in 1..4 /\ j < k
    BY <1>2, <1>6, <2>1
  <2>3. p \in stored /\ Level(t, RefStats(t), p) <= j
    BY <2>2 DEF RefMatching, Matching
  <2>4. Level(t, RefStats(t), p) \in 1..5
    BY <1>4, <2>3
  <2>5. Level(t, RefStats(t), p) <= k
    BY <1>1, <2>2, <2>3, <2>4
  <2> QED BY <2>3, <2>5 DEF RefMatching, Matching
<1>8. Ids(both) = U \cup Q
  <2>1. run \cup {k} \in SUBSET (1..4)
    BY <1>1, <1>2
  <2>2. Ids(both) = UNION {RefPages(r, j) : j \in run \cup {k}}
    BY <2>1, PoolPages
  <2> QED BY <2>2
<1>9. Cardinality(both) = Cardinality(U \cup Q) /\ Cardinality(both) \in Nat /\ IsFiniteSet(U \cup Q)
  BY <1>8, IdsCount
<1> HIDE DEF U, Q, M, rows, run, t, both
<1>10. rows = {} <=> M = {}
  <2>1. rows = {} <=> Q = {}
    BY <1>3 DEF Ids
  <2>2. Q = {} => Cardinality(Q) = 0
    BY FS_EmptySet
  <2> QED BY <1>3, <1>5, <2>1, <2>2
<1>11. Cardinality(both) >= EarlyExit(r) <=> Cardinality(M) >= EarlyExit(r)
  <2>1. Cardinality(U \cup Q) <= Cardinality(M) /\ Cardinality(Q) <= Cardinality(U \cup Q)
    BY <1>3, <1>7, <1>9, FS_Subset
  <2>2. CASE Q = M
    <3>1. U \cup Q = M
      BY <1>7, <2>2
    <3> QED BY <1>9, <3>1
  <2>3. CASE Q # M
    BY <1>3, <1>5, <1>9, <2>1, <2>3
  <2> QED BY <2>2, <2>3
<1> QED BY <1>10, <1>11 DEF rows, M, t, both, run

\* A plan that matches nothing changes nothing; the next one is reached, too.
LEMMA EmptyPlan ==
  ASSUME NEW r \in Request, NEW k \in Plans[r.text], NoneEnough(r, k), RefMatching(r, k) = {}
  PROVE  LET next == NextPlan(r.text, k) IN
         /\ next \in 1..5 /\ RunOf(r, next) = RunOf(r, k)
         /\ next # 5 => next \in Plans[r.text] /\ NoneEnough(r, next)
<1> DEFINE t == r.text
           next == NextPlan(t, k)
<1>1. /\ t \in Text /\ k \in 1..4 /\ Plans[t] \subseteq 1..4
      /\ next \in Plans[t] \cup {5} /\ next \in 1..5 /\ next > k
      /\ \A j \in Plans[t] : j < next => j <= k
  BY SearchAssumption, PlansOf
<1> HIDE DEF next
<1>2. \A j \in RefRun(r) : j \in Plans[t] /\ j # k /\ j \in 1..4
  BY <1>1 DEF RefRun
<1>3. \A j \in RefRun(r) : j < next <=> j < k
  BY <1>1, <1>2
<1>4. RunOf(r, next) = RunOf(r, k)
  BY <1>3 DEF RunOf
<1>5. ASSUME next # 5 PROVE next \in Plans[t] /\ NoneEnough(r, next)
  <2> SUFFICES ASSUME NEW j \in Plans[t], RefMatching(r, j) # {}, Cardinality(RefMatching(r, j)) >= EarlyExit(r)
               PROVE  next <= j
    BY <1>1, <1>5 DEF NoneEnough, t
  <2>1. k <= j /\ j # k /\ j \in 1..4
    BY <1>1 DEF NoneEnough, t
  <2> QED BY <1>1, <2>1
<1> QED BY <1>1, <1>4, <1>5 DEF next

\* One that matches is the last, or the last so far.
LEMMA CountedPlan ==
  ASSUME NEW r \in Request, NEW k \in Plans[r.text], NoneEnough(r, k), RefMatching(r, k) # {}
  PROVE  LET next == IF Cardinality(RefMatching(r, k)) >= EarlyExit(r) THEN 5 ELSE NextPlan(r.text, k) IN
         /\ RunUpTo(r, k) = RunOf(r, k) \cup {k}
         /\ next \in 1..5 /\ RunOf(r, next) = RunUpTo(r, k)
         /\ PlansTotal(r, RunUpTo(r, k)) = Cardinality(RefMatching(r, k))
         /\ next # 5 => next \in Plans[r.text] /\ NoneEnough(r, next)
<1> DEFINE t == r.text
           M == RefMatching(r, k)
           enough == Cardinality(M) >= EarlyExit(r)
           next == IF enough THEN 5 ELSE NextPlan(t, k)
<1>1. /\ t \in Text /\ k \in 1..4 /\ Plans[t] \subseteq 1..4
      /\ NextPlan(t, k) \in Plans[t] \cup {5} /\ NextPlan(t, k) \in 1..5 /\ NextPlan(t, k) > k
      /\ \A j \in Plans[t] : j < NextPlan(t, k) => j <= k
  BY SearchAssumption, PlansOf
<1>2. k \in RefRun(r) /\ \A j \in RefRun(r) : j \in Plans[t] /\ j \in 1..4
  <2>1. k \in 1..5
    BY <1>1
  <2> QED BY <1>1, <2>1, RunBefore
<1>3. RunUpTo(r, k) = RunOf(r, k) \cup {k}
  <2>1. \A j \in RefRun(r) : j <= k <=> j < k \/ j = k
    BY <1>1, <1>2
  <2> QED BY <1>2, <2>1 DEF RunUpTo, RunOf
<1>4. \A j \in RefRun(r) : j < next <=> j <= k
  <2>1. CASE enough
    <3>1. \A j \in RefRun(r) : j <= k
      BY <1>2, <2>1 DEF RefRun
    <3> QED BY <1>2, <2>1, <3>1
  <2>2. CASE ~enough
    BY <1>1, <1>2, <2>2
  <2> QED BY <2>1, <2>2
<1>5. RunOf(r, next) = RunUpTo(r, k)
  <2> HIDE DEF next
  <2> QED BY <1>4 DEF RunOf, RunUpTo
<1>6. PlansTotal(r, RunUpTo(r, k)) = Cardinality(M)
  <2> DEFINE K == RunUpTo(r, k)
  <2>1. k \in K /\ \A y \in K : k >= y /\ y \in 1..4
    BY <1>1, <1>2 DEF RunUpTo
  <2> HIDE DEF K
  <2>2. \A x \in K : (\A y \in K : x >= y) => x = k
    BY <1>1, <2>1
  <2>3. Max(K) = k
    BY <2>1, <2>2 DEF Max
  <2> QED BY <2>1, <2>3 DEF PlansTotal, K
<1>7. ASSUME next # 5 PROVE next \in Plans[t] /\ NoneEnough(r, next)
  <2>1. ~enough /\ next = NextPlan(t, k)
    BY <1>7
  <2>2. ASSUME NEW j \in Plans[t], RefMatching(r, j) # {}, Cardinality(RefMatching(r, j)) >= EarlyExit(r)
        PROVE  NextPlan(t, k) <= j
    <3>1. k <= j /\ j # k /\ j \in 1..4
      BY <1>1, <2>1, <2>2 DEF NoneEnough
    <3> QED BY <1>1, <3>1
  <2> QED BY <1>1, <1>7, <2>1, <2>2 DEF NoneEnough
<1>8. next \in 1..5
  BY <1>1
<1> QED BY <1>3, <1>5, <1>6, <1>7, <1>8

-----------------------------------------------------------------------------
(* Search: a step keeps the reference.                                     *)

SameSearch(d) == Same(d) /\ total'[d] = total[d] /\ intent'[d] = intent[d] /\ touched'[d] = touched[d]

\* A search that has not moved stays exact while nothing is written.
LEMMA OtherExact ==
  ASSUME ExactInv, NEW d \in Client, SameSearch(d), UNCHANGED <<stored, described, clicks>>
  PROVE  ExactClient(d)'
<1>1. ExactClient(d)
  BY DEF ExactInv
<1>2. ASSUME ExactSearch(d) PROVE ExactSearch(d)'
  <2>1. PICK r \in Request, k \in 1..5 :
          /\ req[d] = r /\ plan[d] = k
          /\ IF pc[d] \in Lookups THEN /\ pool[d] = {} /\ total[d] = 0
                                       /\ LookupExact(r, pc[d], stats[d], intent[d])
             ELSE intent[d] = RefIntent(r.text) /\ stats[d] = RefStats(r.text)
          /\ PlanExact(r, pc[d], k, pool[d], total[d])
          /\ StageExact(r, pc[d], pool[d], total[d])
    BY <1>2 DEF ExactSearch
  <2>2. StageExact(r, pc[d], pool[d], total[d])'
    BY <2>1, Frozen DEF StageExact, SameSearch, Same
  <2>3. PlanExact(r, pc[d], k, pool[d], total[d])'
    BY <2>1, Frozen DEF PlanExact, SameSearch, Same
  <2>4. LookupExact(r, pc[d], stats[d], intent[d]) => LookupExact(r, pc[d], stats[d], intent[d])'
    BY Frozen DEF LookupExact, SameSearch, Same
  <2>5. /\ req'[d] = r /\ plan'[d] = k
        /\ IF pc'[d] \in Lookups THEN /\ pool'[d] = {} /\ total'[d] = 0
                                      /\ LookupExact(r, pc[d], stats[d], intent[d])'
           ELSE intent'[d] = RefIntent(r.text)' /\ stats'[d] = RefStats(r.text)'
    BY <2>1, <2>4, Frozen DEF SameSearch, Same
  <2> QED BY <2>2, <2>3, <2>5 DEF ExactSearch
<1> QED BY <1>1, <1>2 DEF ExactClient, Undisturbed, SameSearch, Same

\* The answer to r is the reference.
Referred(answer, r) ==
  answer = Answer(Reference(r).pool, Reference(r).total, r, RefStats(r.text), Reference(r).nav)

\* The cached answers stay the reference while nothing is written.
LEMMA AnswersKept ==
  ASSUME ExactInv, UNCHANGED <<stored, described, clicks>>,
         \A k \in tidy' : \/ k \in tidy /\ cache'[k] = cache[k]
                          \/ \E r \in Request : Key(r) = k /\ Referred(cache'[k], r)
  PROVE  AnswersExact'
<1> SUFFICES ASSUME NEW k \in tidy' PROVE IsReference(cache[k], k)'
  BY DEF AnswersExact
<1>1. PICK r \in Request : Key(r) = k /\ Referred(cache'[k], r)
  <2>1. CASE k \in tidy /\ cache'[k] = cache[k]
    <3>1. IsReference(cache[k], k)
      BY <2>1 DEF ExactInv, AnswersExact
    <3> QED BY <2>1, <3>1 DEF IsReference, Referred
  <2> QED BY <2>1
<1>2. Reference(r)' = Reference(r) /\ RefStats(r.text)' = RefStats(r.text)
  BY Frozen
<1> QED BY <1>1, <1>2 DEF IsReference, Referred

LEMMA ExactStep ==
  ASSUME ExactInv, SearchInv', NEW c \in Client, UNCHANGED <<stored, described, clicks>>,
         \A d \in Client \ {c} : SameSearch(d), ExactClient(c)',
         UNCHANGED <<cache, tidy>> \/ (DOMAIN cache' = Keys /\ AnswersExact')
  PROVE  ExactInv'
<1>1. \A d \in Client : ExactClient(d)'
  BY OtherExact
<1>2. DOMAIN cache' = Keys /\ AnswersExact'
  BY AnswersKept DEF ExactInv
<1> QED BY <1>1, <1>2 DEF ExactInv

\* The plans are run: what they found is the reference's, and the next stage
\* is one that concerns the query.
LEMMA AllPlans == ASSUME NEW r \in Request PROVE PoolBefore(r, 5) = RefPlans(r) /\ TotalBefore(r, 5) = Reference(r).total
<1>1. \A j \in RefRun(r) : j < 5
  <2>1. Plans[r.text] \subseteq 1..4
    BY SearchAssumption, PlansOf
  <2>2. RefRun(r) \subseteq Plans[r.text]
    BY DEF RefRun
  <2> QED BY <2>1, <2>2
<1>2. RunOf(r, 5) = RefRun(r)
  BY <1>1 DEF RunOf
<1> QED BY <1>2 DEF PoolBefore, TotalBefore, PlansTotal, RefPlans, Reference

LEMMA NextExact ==
  ASSUME NEW r \in Request, NEW P, NEW n, NEW done, n = Reference(r).total,
         \/ done = {} /\ P = RefPlans(r)
         \/ done = {"recent"} /\ P = RefRecent(r)
         \/ done = {"recent", "diverse"} /\ P = RefDiverse(r)
         \/ done = {"recent", "diverse", "nav"} /\ P = Reference(r).pool
  PROVE  StageExact(r, NextStage(r.text, RefIntent(r.text), done), P, n)
<1> DEFINE t == r.text
           nav == RefIntent(t)
           l == NextStage(t, nav, done)
<1>1. Plans[t] # {}
  BY SearchAssumption, PlansOf
<1>2. ~Fresh[t] => RefRecent(r) = RefPlans(r)
  BY DEF RefRecent
<1>3. Platform[t] = None => RefDiverse(r) = RefRecent(r)
  BY DEF RefDiverse
<1>4. ~nav => Reference(r).pool = RefDiverse(r)
  BY DEF Reference
<1>5. CASE done = {} /\ P = RefPlans(r)
  BY <1>1, <1>2, <1>3, <1>4, <1>5 DEF NextStage, StageExact
<1>6. CASE done = {"recent"} /\ P = RefRecent(r)
  BY <1>1, <1>3, <1>4, <1>6 DEF NextStage, StageExact
<1>7. CASE done = {"recent", "diverse"} /\ P = RefDiverse(r)
  BY <1>4, <1>7 DEF NextStage, StageExact
<1>8. CASE done = {"recent", "diverse", "nav"} /\ P = Reference(r).pool
  BY <1>8 DEF NextStage, StageExact
<1> QED BY <1>5, <1>6, <1>7, <1>8

\* Before the first plan.
LEMMA FirstPlan ==
  ASSUME NEW r \in Request
  PROVE  /\ PoolBefore(r, 1) = {} /\ TotalBefore(r, 1) = 0 /\ NoneEnough(r, 1)
         /\ 1 \in Plans[r.text] /\ Plans[r.text] \subseteq 1..4
<1>1. 1 \in Plans[r.text] /\ Plans[r.text] \subseteq 1..4
  BY SearchAssumption, PlansOf
<1>2. \A j \in RefRun(r) : j \in 1..4
  BY <1>1 DEF RefRun
<1>3. RunOf(r, 1) = {}
  BY <1>2 DEF RunOf
<1>4. PlansPool(r, {}) = {} /\ PlansTotal(r, {}) = 0
  BY DEF PlansPool, PlansTotal
<1>5. NoneEnough(r, 1)
  BY <1>1 DEF NoneEnough
<1> QED BY <1>1, <1>3, <1>4, <1>5 DEF PoolBefore, TotalBefore

\* An undisturbed search asks for its statistics with the intent of the
\* reference, or needs none.
LEMMA EnteredExact ==
  ASSUME NEW r \in Request, NEW m, NEW nav, nav = RefIntent(r.text), m = None
  PROVE  LET l == Enriched(r.text) IN
         /\ l \in {"docs", "plan"}
         /\ IF l \in Lookups THEN LookupExact(r, l, m, nav) ELSE nav = RefIntent(r.text) /\ m = RefStats(r.text)
         /\ PlanExact(r, l, 1, {}, 0) /\ StageExact(r, l, {}, 0)
<1>1. CASE HasTokens(r.text)
  BY <1>1 DEF Enriched, LookupExact, PlanExact, StageExact, Lookups
<1>2. CASE ~HasTokens(r.text)
  BY <1>2, FirstPlan DEF Enriched, RefStats, PlanExact, StageExact, Lookups
<1> QED BY <1>1, <1>2

\* Where a client is that has not come past its first plan.
LEMMA EarlyExact ==
  ASSUME NEW c \in Client, NEW r \in Request, SearchInv', UNCHANGED <<stored, described, clicks>>,
         req'[c] = r, plan'[c] = 1, pool'[c] = {}, total'[c] = 0, pc'[c] # "idle",
         IF pc'[c] \in Lookups THEN LookupExact(r, pc'[c], stats'[c], intent'[c])
         ELSE intent'[c] = RefIntent(r.text) /\ stats'[c] = RefStats(r.text),
         PlanExact(r, pc'[c], 1, {}, 0), StageExact(r, pc'[c], {}, 0)
  PROVE  ExactClient(c)'
<1>1. LookupExact(r, pc'[c], stats'[c], intent'[c]) => LookupExact(r, pc[c], stats[c], intent[c])'
  BY Frozen DEF LookupExact
<1>2. PlanExact(r, pc[c], 1, pool[c], total[c])' /\ StageExact(r, pc[c], pool[c], total[c])'
  BY Frozen DEF PlanExact, StageExact
<1>3. RefIntent(r.text)' = RefIntent(r.text) /\ RefStats(r.text)' = RefStats(r.text)
  BY Frozen
<1>4. ExactSearch(c)'
  <2>1. 1 \in 1..5
    OBVIOUS
  <2> QED BY <1>1, <1>2, <1>3, <2>1 DEF ExactSearch
<1> QED BY <1>4 DEF ExactClient

LEMMA ExactLookup ==
  ASSUME ExactInv, NEW c \in Client, NEW ok \in BOOLEAN, Lookup(c, ok)
  PROVE  ExactInv'
<1>1. SearchInv /\ Typed /\ ExactClient(c) /\ ClientInv(c)
  BY InvTypes DEF ExactInv, SearchInv
<1>2. SearchInv'
  BY <1>1, LookupInv
<1>3. /\ pc[c] \in Lookups
      /\ UNCHANGED <<stored, described, clicks, cache, req, plan, pool, total, expired, before, tidy>>
  BY <1>1, LookupMoves
<1>4. PICK l \in (Lookups \cup {"plan"}) : pc' = [pc EXCEPT ![c] = l]
  BY <1>1, LookupMoves
<1>5. PICK m \in Stats : stats' = [stats EXCEPT ![c] = m]
  BY <1>1, LookupMoves
<1>6. PICK i \in BOOLEAN : intent' = [intent EXCEPT ![c] = i]
  BY <1>1, LookupMoves
<1>7. PICK h \in BOOLEAN : hindered' = [hindered EXCEPT ![c] = h] /\ (hindered[c] => h)
  BY <1>1, LookupMoves
<1>8. PICK x \in BOOLEAN : touched' = [touched EXCEPT ![c] = x]
  BY <1>1, LookupMoves
<1>9. \A d \in Client \ {c} : SameSearch(d)
  BY <1>1, <1>3, <1>4, <1>5, <1>6, <1>7, <1>8 DEF SameSearch, Same, Typed
<1>10. pc'[c] = l /\ pc'[c] # "idle" /\ stats'[c] = m /\ intent'[c] = i
  BY <1>1, <1>4, <1>5, <1>6 DEF Typed, Lookups
<1>11. ASSUME Undisturbed(c)' PROVE ExactClient(c)'
  <2>1. ~hindered[c] /\ ~touched[c] /\ ~hindered'[c] /\ ~touched'[c]
    <3>1. touched[c] => touched'[c]
      <4>1. \A w : Touch(c, w) => (touched[c] => touched'[c])
        BY <1>1 DEF Touch, Typed
      <4> QED BY <4>1 DEF Lookup, AskWord, FindDomain, CountDocs, LoadIDF
    <3>2. hindered[c] => hindered'[c]
      BY <1>1, <1>7 DEF Typed
    <3> QED BY <1>11, <3>1, <3>2 DEF Undisturbed
  <2>2. \A w : Hinder(c, w) => w
    BY <1>1, <2>1 DEF Hinder, Typed
  <2>3. \A w : Touch(c, w) => ~w
    BY <1>1, <2>1 DEF Touch, Typed
  <2>4. PICK r \in Request : /\ req[c] = r /\ pool[c] = {} /\ total[c] = 0
                             /\ LookupExact(r, pc[c], stats[c], intent[c])
    BY <1>1, <1>3, <2>1 DEF ExactClient, Undisturbed, ExactSearch
  <2>5. req'[c] = r /\ plan'[c] = 1 /\ pool'[c] = {} /\ total'[c] = 0
    BY <1>1, <1>3, <2>4 DEF ClientInv
  <2>6. /\ IF l \in Lookups THEN LookupExact(r, l, m, i)
           ELSE i = RefIntent(r.text) /\ m = RefStats(r.text)
        /\ PlanExact(r, l, 1, {}, 0) /\ StageExact(r, l, {}, 0)
    <3> DEFINE t == r.text
               n == Norm[t]
    <3>1. CASE AskWord(c, ok)
      <4> DEFINE known == IF words[n] # "none" THEN words[n] = "known" ELSE ok /\ KnownWord(n)
      <4>1. /\ pc[c] = "word" /\ UNCHANGED <<stats, intent>> /\ Touch(c, known # KnownWord(n))
            /\ pc' = [pc EXCEPT ![c] = IF known THEN Enriched(t) ELSE "domain"]
        BY <2>4, <3>1 DEF AskWord, Goto, query
      <4>2. known = KnownWord(n)
        BY <2>3, <4>1
      <4>3. MayNameDomain(t) /\ stats[c] = None /\ ~intent[c] /\ m = None /\ ~i
        BY <1>10, <2>4, <4>1 DEF LookupExact
      <4> HIDE DEF known
      <4>4. pc'[c] = IF known THEN Enriched(t) ELSE "domain"
        BY <1>1, <4>1 DEF Typed
      <4>5. CASE known
        <5>1. ~RefIntent(t) /\ RefIntent(t) \in BOOLEAN
          BY <4>2, <4>3, <4>5 DEF RefIntent, MayNameDomain
        <5>2. i = RefIntent(t) /\ l = Enriched(t)
          BY <1>10, <4>3, <4>4, <4>5, <5>1
        <5> HIDE DEF t
        <5> QED BY <4>3, <5>2, EnteredExact DEF t
      <4>6. CASE ~known
        <5>1. l = "domain" /\ ~KnownWord(n)
          BY <1>10, <4>2, <4>4, <4>6
        <5> QED BY <4>3, <5>1 DEF LookupExact, PlanExact, StageExact, Lookups
      <4> QED BY <4>5, <4>6
    <3>2. CASE FindDomain(c, ok)
      <4>1. /\ pc[c] = "domain" /\ UNCHANGED stats /\ Hinder(c, ok)
            /\ intent' = [intent EXCEPT ![c] = ok /\ \E p \in stored : DomainOf[p] = Brand[t]]
            /\ pc' = [pc EXCEPT ![c] = Enriched(t)]
        BY <2>4, <3>2 DEF FindDomain, Goto
      <4>2. ok
        BY <2>2, <4>1
      <4>3. MayNameDomain(t) /\ m = None /\ ~KnownWord(n)
        BY <1>10, <2>4, <4>1 DEF LookupExact
      <4>4. l = Enriched(t)
        BY <1>1, <1>10, <4>1 DEF Typed
      <4>5. i = RefIntent(t)
        <5>1. i = (ok /\ \E p \in stored : DomainOf[p] = Brand[t])
          BY <1>1, <1>10, <4>1 DEF Typed
        <5>2. RefIntent(t) <=> \E p \in stored : DomainOf[p] = Brand[t]
          BY <4>3 DEF RefIntent, MayNameDomain
        <5>3. RefIntent(t) \in BOOLEAN
          BY DEF RefIntent
        <5> QED BY <4>2, <5>1, <5>2, <5>3
      <4> HIDE DEF t
      <4> QED BY <4>3, <4>4, <4>5, EnteredExact DEF t
    <3>3. CASE CountDocs(c, ok)
      <4>1. /\ pc[c] = "docs" /\ UNCHANGED intent /\ Hinder(c, ok) /\ pc' = [pc EXCEPT ![c] = "idf"]
            /\ stats' = [stats EXCEPT ![c] = IF ok THEN stored ELSE Skewed]
        BY <3>3 DEF CountDocs, Goto
      <4>2. m = stored /\ l = "idf"
        BY <1>1, <1>10, <2>2, <4>1 DEF Typed
      <4>3. HasTokens(t) /\ i = RefIntent(t)
        BY <1>10, <2>4, <4>1 DEF LookupExact
      <4> QED BY <4>2, <4>3 DEF LookupExact, PlanExact, StageExact, Lookups
    <3>4. CASE LoadIDF(c, ok)
      <4>1. PICK map : /\ pc[c] = "idf" /\ UNCHANGED intent /\ Touch(c, map # stored)
                       /\ pc' = [pc EXCEPT ![c] = "plan"] /\ stats' = [stats EXCEPT ![c] = map]
        BY <3>4 DEF LoadIDF, Goto
      <4>2. m = stored /\ l = "plan"
        BY <1>1, <1>10, <2>3, <4>1 DEF Typed
      <4>3. HasTokens(t) /\ i = RefIntent(t)
        BY <1>10, <2>4, <4>1 DEF LookupExact
      <4>4. m = RefStats(t) /\ PoolBefore(r, 1) = {} /\ TotalBefore(r, 1) = 0 /\ NoneEnough(r, 1) /\ 1 \in Plans[t]
        BY <4>2, <4>3, FirstPlan DEF RefStats
      <4> QED BY <4>2, <4>3, <4>4 DEF PlanExact, StageExact, Lookups
    <3> QED BY <3>1, <3>2, <3>3, <3>4 DEF Lookup
  <2> QED BY <1>2, <1>3, <1>10, <2>5, <2>6, EarlyExact
<1>12. ExactClient(c)'
  BY <1>10, <1>11 DEF ExactClient
<1> QED BY <1>2, <1>3, <1>9, <1>12, ExactStep

\* Where a client is that is past the lookups.
LEMMA LaterExact ==
  ASSUME NEW c \in Client, NEW r \in Request, NEW k \in 1..5, UNCHANGED <<stored, described, clicks>>,
         req'[c] = r, plan'[c] = k, pc'[c] # "idle", pc'[c] \notin Lookups,
         intent'[c] = RefIntent(r.text), stats'[c] = RefStats(r.text),
         PlanExact(r, pc'[c], k, pool'[c], total'[c]), StageExact(r, pc'[c], pool'[c], total'[c])
  PROVE  ExactClient(c)'
<1>1. PlanExact(r, pc[c], k, pool[c], total[c])' /\ StageExact(r, pc[c], pool[c], total[c])'
  BY Frozen DEF PlanExact, StageExact
<1>2. RefIntent(r.text)' = RefIntent(r.text) /\ RefStats(r.text)' = RefStats(r.text)
  BY Frozen
<1>3. ExactSearch(c)'
  BY <1>1, <1>2 DEF ExactSearch
<1> QED BY <1>3 DEF ExactClient

LEMMA ExactPlansDone == ASSUME ExactInv, NEW c \in Client, PlansDone(c) PROVE ExactInv'
<1>1. SearchInv /\ Typed /\ ExactClient(c) /\ ClientInv(c)
  BY InvTypes DEF ExactInv, SearchInv
<1>2. SearchInv'
  BY <1>1, PlansDoneInv
<1>3. /\ UNCHANGED <<stored, described, clicks, cache, tidy, req, stats, plan, total, pool, intent, expired,
                     before, hindered, touched>>
      /\ pc[c] = "plan" /\ (expired[c] \/ plan[c] = 5)
      /\ pc' = [pc EXCEPT ![c] = NextStage(req[c].text, intent[c], {})]
  BY DEF PlansDone, Later, Goto, dataVars, query, progress
<1>4. pc'[c] = NextStage(req[c].text, intent[c], {}) /\ pc'[c] \in {"recent", "diverse", "nav", "rank"}
  BY <1>1, <1>3, NextStages DEF Typed
<1>5. ASSUME Undisturbed(c)' PROVE ExactClient(c)'
  <2>1. ~hindered[c] /\ ~touched[c] /\ plan[c] = 5
    BY <1>1, <1>3, <1>5 DEF Undisturbed, ClientInv, Unhindered
  <2>2. PICK r \in Request :
          /\ req[c] = r /\ intent[c] = RefIntent(r.text) /\ stats[c] = RefStats(r.text)
          /\ total[c] = TotalBefore(r, 5) /\ pool[c] = PoolBefore(r, 5)
    BY <1>1, <1>3, <2>1 DEF ExactClient, Undisturbed, ExactSearch, PlanExact, Lookups
  <2>3. StageExact(r, pc'[c], pool[c], total[c])
    BY <1>4, <2>2, AllPlans, NextExact
  <2>4. PlanExact(r, pc'[c], 5, pool[c], total[c])
    BY <1>4 DEF PlanExact
  <2>5. /\ 5 \in 1..5 /\ req'[c] = r /\ plan'[c] = 5 /\ pool'[c] = pool[c] /\ total'[c] = total[c]
        /\ intent'[c] = RefIntent(r.text) /\ stats'[c] = RefStats(r.text)
        /\ pc'[c] # "idle" /\ pc'[c] \notin Lookups
    BY <1>3, <1>4, <2>1, <2>2 DEF Lookups
  <2> QED BY <1>3, <2>3, <2>4, <2>5, LaterExact
<1>6. ExactClient(c)'
  BY <1>4, <1>5 DEF ExactClient
<1>7. \A d \in Client \ {c} : SameSearch(d)
  BY <1>1, <1>3 DEF SameSearch, Same, Typed
<1> QED BY <1>2, <1>3, <1>6, <1>7, ExactStep

LEMMA ExactPlanRows == ASSUME ExactInv, NEW c \in Client, PlanRows(c) PROVE ExactInv'
<1> DEFINE rows == SearchFTS(req[c], stats[c], plan[c], intent[c])
           merged == Merge(pool[c], rows)
           next == IF rows = {} THEN NextPlan(req[c].text, plan[c]) ELSE plan[c]
           stage == IF rows = {} THEN "plan" ELSE "count"
           count == IF rows = {} THEN total[c] ELSE Cardinality(rows)
<1>1. SearchInv /\ Typed /\ ExactClient(c) /\ pool \in [Client -> SUBSET Candidates] /\ PoolOK(pool[c])
  BY InvTypes DEF ExactInv, SearchInv
<1>2. SearchInv' /\ PoolOK(merged)
  <2>1. Running(c)
    BY DEF PlanRows
  <2> QED BY <1>1, <2>1, PlanRowsInv, PlanPool
<1>3. /\ UNCHANGED <<stored, described, clicks, cache, tidy, req, stats, intent, expired, before, hindered, touched>>
      /\ pc[c] = "plan" /\ plan[c] # 5
      /\ pool' = [pool EXCEPT ![c] = merged] /\ plan' = [plan EXCEPT ![c] = next]
      /\ total' = [total EXCEPT ![c] = count] /\ pc' = [pc EXCEPT ![c] = stage]
  <2>1. /\ UNCHANGED <<stored, described, clicks, cache, tidy, req, stats, intent, expired, before, hindered, touched>>
        /\ pc[c] = "plan" /\ plan[c] # 5
    BY DEF PlanRows, Running, dataVars, query
  <2>2. pc = [pc EXCEPT ![c] = pc[c]] /\ plan = [plan EXCEPT ![c] = plan[c]] /\ total = [total EXCEPT ![c] = total[c]]
    BY <1>1 DEF Typed
  <2>3. pool' = [pool EXCEPT ![c] = merged]
        /\ (rows = {} => plan' = [plan EXCEPT ![c] = NextPlan(req[c].text, plan[c])] /\ pc' = pc /\ total' = total)
        /\ (rows # {} => pc' = [pc EXCEPT ![c] = "count"] /\ plan' = plan
                         /\ total' = [total EXCEPT ![c] = Cardinality(rows)])
    BY DEF PlanRows, Goto
  <2> HIDE DEF rows, merged
  <2> QED BY <2>1, <2>2, <2>3
<1>4. (rows = {} => next = NextPlan(req[c].text, plan[c]) /\ count = total[c] /\ stage = "plan")
      /\ (rows # {} => next = plan[c] /\ stage = "count")
  OBVIOUS
<1> HIDE DEF rows, merged, next, count, stage
<1>5. pool'[c] = merged /\ plan'[c] = next /\ total'[c] = count /\ pc'[c] = stage
  BY <1>1, <1>3 DEF Typed
<1>6. ASSUME Undisturbed(c)' PROVE ExactClient(c)'
  <2>1. ~hindered[c] /\ ~touched[c]
    BY <1>3, <1>6 DEF Undisturbed
  <2>2. PICK r \in Request, k \in 1..5 :
          /\ req[c] = r /\ plan[c] = k /\ k # 5
          /\ intent[c] = RefIntent(r.text) /\ stats[c] = RefStats(r.text)
          /\ pool[c] = PoolBefore(r, k) /\ total[c] = TotalBefore(r, k)
          /\ k \in Plans[r.text] /\ NoneEnough(r, k)
    BY <1>1, <1>3, <2>1 DEF ExactClient, Undisturbed, ExactSearch, PlanExact, Lookups
  <2> DEFINE K == RunOf(r, k)
             R == SearchFTS(r, RefStats(r.text), k, RefIntent(r.text))
  <2>3. k \in 1..4 /\ K \in SUBSET (1..4) /\ \A j \in K : j < k
    <3>1. RefRun(r) \subseteq 1..4
      BY <2>2, RunBefore
    <3> QED BY <2>2, <3>1 DEF RunOf
  <2>4. rows = R /\ merged = Merge(PlansPool(r, K), R)
    BY <2>2 DEF rows, merged, PoolBefore
  <2>5. Merge(PlansPool(r, K), R) = PlansPool(r, K \cup {k})
    <3> HIDE DEF K
    <3> QED BY <1>1, <2>3, MergeLeading
  <2>6. PoolOK(PlansPool(r, K \cup {k})) /\ merged = PlansPool(r, K \cup {k})
    <3> HIDE DEF R, K
    <3> QED BY <1>2, <2>4, <2>5
  <2>7. R = {} <=> RefMatching(r, k) = {}
    BY <1>1, <2>2, <2>6, PlanReached
  <2> HIDE DEF K, R
  <2>8. CASE rows = {}
    <3>1. /\ NextPlan(r.text, k) \in 1..5 /\ RunOf(r, NextPlan(r.text, k)) = RunOf(r, k)
          /\ NextPlan(r.text, k) # 5 => NextPlan(r.text, k) \in Plans[r.text] /\ NoneEnough(r, NextPlan(r.text, k))
      BY <2>2, <2>4, <2>7, <2>8, EmptyPlan
    <3>2. PICK n \in 1..5 : n = NextPlan(r.text, k)
      BY <3>1
    <3>3. merged = PoolBefore(r, n) /\ count = TotalBefore(r, n)
      <4>1. merged = pool[c]
        BY <2>8 DEF merged, Merge
      <4> QED BY <1>4, <2>2, <2>8, <3>1, <3>2, <4>1 DEF PoolBefore, TotalBefore
    <3>4. PlanExact(r, "plan", n, merged, count) /\ StageExact(r, "plan", merged, count)
      BY <3>1, <3>2, <3>3 DEF PlanExact, StageExact
    <3>5. pc'[c] = "plan" /\ plan'[c] = n
      BY <1>4, <1>5, <2>2, <2>8, <3>2
    <3> QED BY <1>3, <1>5, <2>2, <3>4, <3>5, LaterExact DEF Lookups
  <2>9. CASE rows # {}
    <3>1. RefMatching(r, k) # {}
      BY <2>4, <2>7, <2>9
    <3>2. RunUpTo(r, k) = K \cup {k}
      BY <2>2, <3>1, CountedPlan DEF K
    <3>3. PlanExact(r, "count", k, merged, count) /\ StageExact(r, "count", merged, count)
      BY <2>2, <2>6, <3>1, <3>2 DEF PlanExact, StageExact
    <3>4. pc'[c] = "count" /\ plan'[c] = k
      BY <1>4, <1>5, <2>2, <2>9
    <3> QED BY <1>3, <1>5, <2>2, <3>3, <3>4, LaterExact DEF Lookups
  <2> QED BY <2>8, <2>9
<1>7. ExactClient(c)'
  <2>1. pc'[c] # "idle"
    BY <1>5 DEF stage
  <2> QED BY <1>6, <2>1 DEF ExactClient
<1>8. \A d \in Client \ {c} : SameSearch(d)
  BY <1>1, <1>3 DEF SameSearch, Same, Typed
<1> QED BY <1>2, <1>3, <1>7, <1>8, ExactStep

LEMMA ExactCountRows ==
  ASSUME ExactInv, NEW c \in Client, NEW ok \in BOOLEAN, CountRows(c, ok)
  PROVE  ExactInv'
<1> DEFINE next == IF Cardinality(pool[c]) >= EarlyExit(req[c]) THEN 5 ELSE NextPlan(req[c].text, plan[c])
           count == IF ok THEN Cardinality(Matching(req[c].text, stats[c], plan[c])) ELSE total[c]
<1>1. SearchInv /\ Typed /\ ExactClient(c) /\ PoolOK(pool[c])
  BY InvTypes DEF ExactInv, SearchInv
<1>2. SearchInv'
  BY <1>1, CountRowsInv
<1>3. /\ UNCHANGED <<stored, described, clicks, cache, tidy, req, stats, intent, pool, expired, before, touched>>
      /\ pc[c] = "count" /\ pc' = [pc EXCEPT ![c] = "plan"] /\ plan' = [plan EXCEPT ![c] = next]
      /\ total' = [total EXCEPT ![c] = count] /\ hindered' = [hindered EXCEPT ![c] = @ \/ ~ok]
  BY DEF CountRows, Goto, Hinder, dataVars, query
<1> HIDE DEF next, count
<1>4. /\ plan'[c] = next /\ total'[c] = count /\ pc'[c] = "plan" /\ hindered'[c] = (hindered[c] \/ ~ok)
      /\ pool'[c] = pool[c]
  BY <1>1, <1>3 DEF Typed
<1>5. ASSUME Undisturbed(c)' PROVE ExactClient(c)'
  <2>1. ~hindered[c] /\ ~touched[c] /\ ok
    BY <1>3, <1>4, <1>5 DEF Undisturbed
  <2>2. PICK r \in Request, k \in 1..5 :
          /\ req[c] = r /\ plan[c] = k
          /\ intent[c] = RefIntent(r.text) /\ stats[c] = RefStats(r.text)
          /\ pool[c] = PlansPool(r, RunUpTo(r, k)) /\ RefMatching(r, k) # {}
          /\ k \in Plans[r.text] /\ NoneEnough(r, k)
    BY <1>1, <1>3, <2>1 DEF ExactClient, Undisturbed, ExactSearch, PlanExact, Lookups
  <2> DEFINE enough == Cardinality(RefMatching(r, k)) >= EarlyExit(r)
             n == IF enough THEN 5 ELSE NextPlan(r.text, k)
  <2>3. /\ RunUpTo(r, k) = RunOf(r, k) \cup {k}
        /\ n \in 1..5 /\ RunOf(r, n) = RunUpTo(r, k)
        /\ PlansTotal(r, RunUpTo(r, k)) = Cardinality(RefMatching(r, k))
        /\ n # 5 => n \in Plans[r.text] /\ NoneEnough(r, n)
    BY <2>2, CountedPlan
  <2>4. Cardinality(pool[c]) >= EarlyExit(r) <=> enough
    <3>1. PoolOK(PlansPool(r, RunOf(r, k) \cup {k})) /\ pool[c] = PlansPool(r, RunOf(r, k) \cup {k})
      BY <1>1, <2>2, <2>3
    <3> QED BY <1>1, <2>2, <3>1, PlanReached
  <2>5. next = n
    BY <2>2, <2>4 DEF next
  <2>6. count = Cardinality(RefMatching(r, k))
    BY <2>1, <2>2 DEF count, RefMatching
  <2> HIDE DEF n, enough
  <2>7. pool[c] = PoolBefore(r, n) /\ count = TotalBefore(r, n)
    BY <2>2, <2>3, <2>6 DEF PoolBefore, TotalBefore
  <2>8. PlanExact(r, "plan", n, pool[c], count) /\ StageExact(r, "plan", pool[c], count)
    BY <2>3, <2>7 DEF PlanExact, StageExact
  <2> QED BY <1>3, <1>4, <2>2, <2>3, <2>5, <2>8, LaterExact DEF Lookups
<1>6. ExactClient(c)'
  BY <1>4, <1>5 DEF ExactClient
<1>7. \A d \in Client \ {c} : SameSearch(d)
  BY <1>1, <1>3 DEF SameSearch, Same, Typed
<1> QED BY <1>2, <1>3, <1>6, <1>7, ExactStep

LEMMA ExactPlanFails ==
  ASSUME ExactInv, NEW c \in Client, PlanTimeout(c) \/ PlanError(c) \/ Timeout(c)
  PROVE  ExactInv'
<1>1. SearchInv /\ Typed
  BY InvTypes DEF ExactInv, SearchInv
<1>2. SearchInv'
  BY <1>1, PlanFailsInv
<1>3. hindered' = [hindered EXCEPT ![c] = TRUE]
  <2>1. \A x \in BOOLEAN : (x \/ ~FALSE) = TRUE
    OBVIOUS
  <2> QED BY <2>1 DEF PlanTimeout, PlanError, Timeout, Hinder
<1>4. UNCHANGED <<stored, described, clicks, cache, tidy, req, stats, pool, total, intent, before, touched>>
  BY DEF PlanTimeout, PlanError, Timeout, query, progress, dataVars
<1>5. /\ pc'[c] # "idle"
      /\ \A d \in Client \ {c} : pc'[d] = pc[d] /\ plan'[d] = plan[d] /\ expired'[d] = expired[d]
  <2>1. CASE PlanTimeout(c)
    BY <1>1, <2>1 DEF PlanTimeout, Running, Typed
  <2>2. CASE PlanError(c)
    BY <1>1, <2>2 DEF PlanError, Goto, progress, Typed
  <2>3. CASE Timeout(c)
    BY <1>1, <2>3 DEF Timeout, progress, Typed
  <2> QED BY <2>1, <2>2, <2>3
<1>6. hindered'[c]
  BY <1>1, <1>3 DEF Typed
<1>7. ExactClient(c)'
  BY <1>5, <1>6 DEF ExactClient, Undisturbed
<1>8. \A d \in Client \ {c} : SameSearch(d)
  BY <1>1, <1>3, <1>4, <1>5 DEF SameSearch, Same, Typed
<1> QED BY <1>2, <1>4, <1>7, <1>8, ExactStep

\* A stage after the plans adds its rows.
LEMMA ExactExtra ==
  ASSUME ExactInv, SearchInv', NEW c \in Client, NEW ok \in BOOLEAN, NEW rows, NEW done,
         pc[c] \in {"recent", "diverse", "nav"}, Extra(c, ok, rows, done),
         \A r \in Request :
           req[c] = r /\ intent[c] = RefIntent(r.text) /\ stats[c] = RefStats(r.text)
             /\ StageExact(r, pc[c], pool[c], total[c]) =>
           \/ done = {"recent"} /\ Merge(pool[c], rows) = RefRecent(r)
           \/ done = {"recent", "diverse"} /\ Merge(pool[c], rows) = RefDiverse(r)
           \/ done = {"recent", "diverse", "nav"} /\ Merge(pool[c], rows) = Reference(r).pool
  PROVE  ExactInv'
<1> DEFINE new == IF expired[c] \/ ~ok THEN pool[c] ELSE Merge(pool[c], rows)
<1>1. SearchInv /\ Typed /\ ExactClient(c) /\ pool \in [Client -> SUBSET Candidates] /\ ClientInv(c)
  BY InvTypes DEF ExactInv, SearchInv
<1>2. /\ UNCHANGED <<stored, described, clicks, cache, tidy, req, stats, plan, total, intent, expired, before, touched>>
      /\ pc' = [pc EXCEPT ![c] = NextStage(req[c].text, intent[c], done)]
      /\ pool' = [pool EXCEPT ![c] = new] /\ hindered' = [hindered EXCEPT ![c] = @ \/ ~ok]
  BY DEF Extra, Later, Goto, Hinder, dataVars, query
<1>3. /\ pc'[c] = NextStage(req[c].text, intent[c], done) /\ pool'[c] = new
      /\ pc'[c] \in {"recent", "diverse", "nav", "rank"} /\ hindered'[c] = (hindered[c] \/ ~ok)
  <2> HIDE DEF new
  <2> QED BY <1>1, <1>2, NextStages DEF Typed
<1>4. ASSUME Undisturbed(c)' PROVE ExactClient(c)'
  <2>1. ~hindered[c] /\ ~touched[c] /\ ok
    BY <1>2, <1>3, <1>4 DEF Undisturbed
  <2>2. ~expired[c] /\ new = Merge(pool[c], rows)
    BY <1>1, <2>1 DEF ClientInv, Unhindered
  <2>3. PICK r \in Request, k \in 1..5 :
          /\ req[c] = r /\ plan[c] = k /\ intent[c] = RefIntent(r.text) /\ stats[c] = RefStats(r.text)
          /\ StageExact(r, pc[c], pool[c], total[c])
    BY <1>1, <2>1 DEF ExactClient, Undisturbed, ExactSearch, Lookups
  <2>4. total[c] = Reference(r).total
    BY <2>3 DEF StageExact
  <2>5. StageExact(r, pc'[c], pool'[c], total[c])
    <3>1. PICK P : P = pool'[c]
      OBVIOUS
    <3>2. StageExact(r, NextStage(r.text, RefIntent(r.text), done), P, total[c])
      BY <1>3, <2>2, <2>3, <2>4, <3>1, NextExact
    <3> QED BY <1>3, <2>3, <3>1, <3>2
  <2>6. PlanExact(r, pc'[c], k, pool'[c], total[c])
    BY <1>3 DEF PlanExact
  <2> QED BY <1>2, <1>3, <2>3, <2>5, <2>6, LaterExact DEF Lookups
<1>5. ExactClient(c)'
  BY <1>3, <1>4 DEF ExactClient
<1>6. \A d \in Client \ {c} : SameSearch(d)
  BY <1>1, <1>2 DEF SameSearch, Same, Typed
<1> QED BY <1>2, <1>5, <1>6, ExactStep

LEMMA ExactStages ==
  ASSUME ExactInv, NEW c \in Client, NEW ok \in BOOLEAN,
         RecentRows(c, ok) \/ DiverseRows(c, ok) \/ NavRows(c, ok)
  PROVE  ExactInv'
<1>1. SearchInv'
  BY StagesInv DEF ExactInv
<1>2. ASSUME NEW r \in Request PROVE Plans[r.text] # {}
  BY SearchAssumption, PlansOf
<1>3. CASE RecentRows(c, ok)
  <2>1. pc[c] = "recent" /\ Extra(c, ok, SearchRecent(req[c], stats[c]), {"recent"})
    BY <1>3 DEF RecentRows
  <2>2. ASSUME NEW r \in Request, req[c] = r, stats[c] = RefStats(r.text), StageExact(r, pc[c], pool[c], total[c])
        PROVE  Merge(pool[c], SearchRecent(req[c], stats[c])) = RefRecent(r)
    BY <1>2, <2>1, <2>2 DEF StageExact, RefRecent
  <2> QED BY <1>1, <2>1, <2>2, ExactExtra
<1>4. CASE DiverseRows(c, ok)
  <2>1. pc[c] = "diverse" /\ Extra(c, ok, SearchExcluding(req[c], stats[c]), {"recent", "diverse"})
    BY <1>4 DEF DiverseRows
  <2>2. ASSUME NEW r \in Request, req[c] = r, stats[c] = RefStats(r.text), StageExact(r, pc[c], pool[c], total[c])
        PROVE  Merge(pool[c], SearchExcluding(req[c], stats[c])) = RefDiverse(r)
    BY <1>2, <2>1, <2>2 DEF StageExact, RefDiverse
  <2> QED BY <1>1, <2>1, <2>2, ExactExtra
<1>5. CASE NavRows(c, ok)
  <2> DEFINE rows == IF Cardinality(pool[c]) < NavBelow THEN SearchNavigational(req[c]) ELSE {}
  <2>1. pc[c] = "nav" /\ Extra(c, ok, rows, {"recent", "diverse", "nav"})
    BY <1>5 DEF NavRows
  <2>2. ASSUME NEW r \in Request, req[c] = r, StageExact(r, pc[c], pool[c], total[c])
        PROVE  Merge(pool[c], rows) = Reference(r).pool
    <3>1. Merge(pool[c], {}) = pool[c]
      BY DEF Merge
    <3>2. pool[c] = RefDiverse(r) /\ RefIntent(r.text)
      BY <2>1, <2>2 DEF StageExact
    <3> QED BY <2>2, <3>1, <3>2 DEF Reference
  <2> HIDE DEF rows
  <2> QED BY <1>1, <2>1, <2>2, ExactExtra
<1> QED BY <1>3, <1>4, <1>5

\* The answer of an undisturbed search is the reference.
LEMMA ExactFinish ==
  ASSUME ExactInv, NEW c \in Client, NEW kept \in BOOLEAN, Finish(c, kept)
  PROVE  ExactInv'
<1> DEFINE answer == Answer(pool[c], total[c], req[c], stats[c], intent[c])
<1>1. SearchInv /\ Typed /\ ExactClient(c) /\ DOMAIN cache = Keys /\ ClientInv(c)
  BY InvTypes DEF ExactInv, SearchInv
<1>2. SearchInv'
  BY <1>1, FinishInv
<1>3. /\ pc[c] = "rank" /\ pc' = [pc EXCEPT ![c] = "done"]
      /\ UNCHANGED <<stored, described, clicks, req, stats, plan, total, pool, intent, expired, before, hindered,
                     touched>>
  BY DEF Finish, Goto, dataVars, query, progress
<1>4. \/ UNCHANGED <<cache, tidy>>
      \/ /\ cache' = [cache EXCEPT ![Key(req[c])] = answer]
         /\ tidy' = IF hindered[c] \/ touched[c] THEN tidy \ {Key(req[c])} ELSE tidy \cup {Key(req[c])}
  BY DEF Finish
<1> HIDE DEF answer
<1>5. req[c] \in Request /\ Key(req[c]) \in Keys
  BY <1>1, <1>3 DEF ClientInv, Keys
<1>6. ASSUME ~hindered[c], ~touched[c]
      PROVE  \E r \in Request : Key(r) = Key(req[c]) /\ Referred(answer, r)
  <2>1. PICK r \in Request :
          /\ req[c] = r /\ intent[c] = RefIntent(r.text) /\ stats[c] = RefStats(r.text)
          /\ pool[c] = Reference(r).pool /\ total[c] = Reference(r).total
    BY <1>1, <1>3, <1>6 DEF ExactClient, Undisturbed, ExactSearch, StageExact, Lookups
  <2>2. intent[c] = Reference(r).nav
    BY <2>1 DEF Reference
  <2> QED BY <2>1, <2>2 DEF answer, Referred
<1>7. DOMAIN cache' = Keys
  BY <1>1, <1>4
<1>8. ASSUME NEW k \in tidy'
      PROVE  \/ k \in tidy /\ cache'[k] = cache[k]
             \/ \E r \in Request : Key(r) = k /\ Referred(cache'[k], r)
  <2>1. CASE UNCHANGED <<cache, tidy>>
    BY <2>1
  <2>2. CASE cache' = [cache EXCEPT ![Key(req[c])] = answer] /\ ~UNCHANGED <<cache, tidy>>
    <3>1. tidy' = IF hindered[c] \/ touched[c] THEN tidy \ {Key(req[c])} ELSE tidy \cup {Key(req[c])}
      BY <1>4, <2>2
    <3>2. CASE k = Key(req[c])
      <4>1. ~hindered[c] /\ ~touched[c]
        BY <3>1, <3>2
      <4>2. cache'[k] = answer
        BY <1>1, <1>5, <2>2, <3>2
      <4> QED BY <1>6, <3>2, <4>1, <4>2
    <3>3. CASE k # Key(req[c])
      <4>1. k \in tidy
        BY <3>1, <3>3
      <4>2. k \in Keys
        BY <1>1, <4>1 DEF Typed
      <4>3. cache'[k] = cache[k]
        BY <1>1, <2>2, <3>3, <4>2
      <4> QED BY <4>1, <4>3
    <3> QED BY <3>2, <3>3
  <2> QED BY <1>4, <2>1, <2>2
<1>9. AnswersExact'
  BY <1>3, <1>8, AnswersKept
<1>10. ExactClient(c)'
  <2>1. pc'[c] = "done"
    BY <1>1, <1>3 DEF Typed
  <2> QED BY <2>1 DEF ExactClient, Undisturbed, Lookups
<1>11. \A d \in Client \ {c} : SameSearch(d)
  BY <1>1, <1>3 DEF SameSearch, Same, Typed
<1> QED BY <1>2, <1>3, <1>7, <1>9, <1>10, <1>11, ExactStep

LEMMA ExactLeave == ASSUME ExactInv, NEW c \in Client, Leave(c) PROVE ExactInv'
<1>1. SearchInv /\ Typed /\ pool \in [Client -> SUBSET Candidates]
  BY InvTypes DEF ExactInv
<1>2. SearchInv'
  BY <1>1, LeaveInv
<1>3. /\ pc' = [pc EXCEPT ![c] = "idle"] /\ req' = [req EXCEPT ![c] = Idle]
      /\ plan' = [plan EXCEPT ![c] = 1] /\ pool' = [pool EXCEPT ![c] = {}]
      /\ total' = [total EXCEPT ![c] = 0] /\ intent' = [intent EXCEPT ![c] = FALSE]
      /\ stats' = [stats EXCEPT ![c] = None]
      /\ expired' = [expired EXCEPT ![c] = FALSE] /\ before' = [before EXCEPT ![c] = {}]
      /\ hindered' = [hindered EXCEPT ![c] = FALSE] /\ touched' = [touched EXCEPT ![c] = FALSE]
      /\ UNCHANGED <<stored, described, clicks, cache, tidy>>
  BY DEF Leave, Goto, dataVars
<1>4. pc'[c] = "idle" /\ pool'[c] = {} /\ total'[c] = 0 /\ stats'[c] = None
  BY <1>1, <1>3 DEF Typed
<1>5. ExactClient(c)'
  BY <1>4 DEF ExactClient, Undisturbed, Lookups
<1>6. \A d \in Client \ {c} : SameSearch(d)
  BY <1>1, <1>3 DEF SameSearch, Same, Typed
<1> QED BY <1>2, <1>3, <1>5, <1>6, ExactStep

LEMMA ExactHit ==
  ASSUME ExactInv, NEW c \in Client, NEW r \in Request, Hit(c, r)
  PROVE  ExactInv'
<1>1. SearchInv /\ Typed
  BY InvTypes DEF ExactInv
<1>2. SearchInv'
  BY <1>1, HitInv
<1>3. /\ pc' = [pc EXCEPT ![c] = "done"] /\ req' = [req EXCEPT ![c] = r]
      /\ UNCHANGED <<stored, described, clicks, cache, tidy, stats, plan, pool, total, intent, expired, before,
                     hindered, touched>>
  BY DEF Hit, Goto, dataVars, progress
<1>4. pc'[c] = "done"
  BY <1>1, <1>3 DEF Typed
<1>5. ExactClient(c)'
  BY <1>4 DEF ExactClient, Undisturbed, Lookups
<1>6. \A d \in Client \ {c} : SameSearch(d)
  BY <1>1, <1>3 DEF SameSearch, Same, Typed
<1> QED BY <1>2, <1>3, <1>5, <1>6, ExactStep

\* A query that cannot turn out to name a domain has its intent from the start.
LEMMA ExactMiss ==
  ASSUME ExactInv, NEW c \in Client, NEW r \in Request, Miss(c, r)
  PROVE  ExactInv'
<1> DEFINE t == r.text
           l == IF MayNameDomain(t) THEN "word" ELSE Enriched(t)
<1>1. SearchInv /\ Typed /\ ExactClient(c) /\ pc[c] = "idle" /\ ClientInv(c)
  BY InvTypes DEF ExactInv, Miss, SearchInv
<1>2. SearchInv'
  BY <1>1, MissInv
<1>3. /\ pc' = [pc EXCEPT ![c] = l] /\ req' = [req EXCEPT ![c] = r]
      /\ intent' = [intent EXCEPT ![c] = Navigational[t]] /\ before' = [before EXCEPT ![c] = stored]
      /\ UNCHANGED <<stored, described, clicks, cache, tidy, stats, plan, pool, total, expired, hindered, touched>>
  BY DEF Miss, Goto, dataVars, progress
<1>4. t \in Text /\ Navigational[t] \in BOOLEAN
  BY SearchAssumption
<1> HIDE DEF t, l
<1>5. pc'[c] = l /\ req'[c] = r /\ intent'[c] = Navigational[t]
  BY <1>1, <1>3 DEF Typed
<1>6. pool[c] = {} /\ total[c] = 0 /\ stats[c] = None /\ plan[c] = 1
  BY <1>1 DEF ExactClient, ClientInv
<1>7. /\ IF l \in Lookups THEN LookupExact(r, l, None, Navigational[t])
         ELSE Navigational[t] = RefIntent(t) /\ None = RefStats(t)
      /\ PlanExact(r, l, 1, {}, 0) /\ StageExact(r, l, {}, 0) /\ l # "idle"
  <2>1. CASE MayNameDomain(t)
    <3>1. l = "word" /\ ~Navigational[t]
      BY <2>1 DEF l, MayNameDomain
    <3> QED BY <2>1, <3>1 DEF LookupExact, PlanExact, StageExact, Lookups, t
  <2>2. CASE ~MayNameDomain(t)
    <3>1. l = Enriched(r.text) /\ Navigational[t] = RefIntent(r.text)
      <4>1. RefIntent(t) <=> Navigational[t]
        BY <2>2 DEF RefIntent
      <4>2. RefIntent(t) \in BOOLEAN
        BY DEF RefIntent
      <4> QED BY <1>4, <2>2, <4>1, <4>2 DEF l, t
    <3>2. Enriched(r.text) # "idle"
      BY DEF Enriched
    <3> QED BY <3>1, <3>2, EnteredExact DEF t
  <2> QED BY <2>1, <2>2
<1>8. ExactClient(c)'
  BY <1>2, <1>3, <1>5, <1>6, <1>7, EarlyExact DEF t
<1>9. \A d \in Client \ {c} : SameSearch(d)
  BY <1>1, <1>3 DEF SameSearch, Same, Typed
<1> QED BY <1>2, <1>3, <1>8, <1>9, ExactStep

\* A write touches every search that is under way and leaves no cached answer
\* to vouch for.
LEMMA ExactWrite ==
  ASSUME ExactInv, SearchInv', Written
  PROVE  ExactInv'
<1>1. /\ UNCHANGED <<pc, pool, total, stats>> /\ tidy' = {} /\ cache' = cache
      /\ \A d \in Client : touched'[d] <=> touched[d] \/ pc[d] \notin {"idle", "done"}
  BY DEF Written, progress, query
<1>2. ASSUME NEW d \in Client PROVE ExactClient(d)'
  <2>1. ExactClient(d)
    BY DEF ExactInv
  <2> QED BY <1>1, <2>1 DEF ExactClient, Undisturbed, Lookups
<1>3. AnswersExact'
  BY <1>1 DEF AnswersExact
<1> QED BY <1>1, <1>2, <1>3 DEF ExactInv

LEMMA ExactExpiry ==
  ASSUME ExactInv, \/ \E k \in Keys : ExpireAnswer(k)
                   \/ \E t \in Text : ExpireWord(t) \/ ExpireIDF(t)
                   \/ UNCHANGED searchState
  PROVE  ExactInv'
<1>1. SearchInv'
  BY ExpiryInv DEF ExactInv
<1>2. UNCHANGED <<stored, described, clicks, pc, req, stats, plan, total, pool, intent, expired, before,
                  hindered, touched>>
  BY DEF ExpireAnswer, ExpireWord, ExpireIDF, searchState, dataVars, searchVars, query, progress
<1>3. DOMAIN cache' = Keys /\ \A k \in tidy' : k \in tidy /\ cache'[k] = cache[k]
  <2>1. DOMAIN cache = Keys /\ tidy \subseteq Keys
    BY InvTypes DEF ExactInv, Typed
  <2>2. CASE \E k \in Keys : ExpireAnswer(k)
    <3>1. PICK x \in Keys : cache' = [cache EXCEPT ![x] = None] /\ tidy' = tidy \ {x}
      BY <2>2 DEF ExpireAnswer
    <3> QED BY <2>1, <3>1
  <2>3. CASE (\E t \in Text : ExpireWord(t) \/ ExpireIDF(t)) \/ UNCHANGED searchState
    BY <2>1, <2>3 DEF ExpireWord, ExpireIDF, searchState
  <2> QED BY <2>2, <2>3
<1>4. AnswersExact'
  BY <1>2, <1>3, AnswersKept
<1>5. \A d \in Client : ExactClient(d)'
  <2>1. \A d \in Client : SameSearch(d)
    BY <1>2 DEF SameSearch, Same
  <2> QED BY <1>2, <2>1, OtherExact
<1> QED BY <1>1, <1>3, <1>4, <1>5 DEF ExactInv

LEMMA ExactInit == SearchInit => ExactInv
<1> SUFFICES ASSUME SearchInit PROVE ExactInv
  OBVIOUS
<1>1. SearchInv
  BY SearchInitInv
<1>2. DOMAIN cache = Keys /\ AnswersExact
  BY DEF SearchInit, AnswersExact
<1>3. \A c \in Client : ExactClient(c)
  BY DEF SearchInit, ExactClient, Undisturbed, Lookups
<1> QED BY <1>1, <1>2, <1>3 DEF ExactInv

LEMMA ExactNext == ExactInv /\ [SearchNext]_searchState => ExactInv'
<1> SUFFICES ASSUME ExactInv, [SearchNext]_searchState PROVE ExactInv'
  OBVIOUS
<1>1. ASSUME NEW c \in Client, SearchStep(c) \/ Timeout(c) PROVE ExactInv'
  BY <1>1, ExactLookup, ExactPlansDone, ExactPlanRows, ExactCountRows, ExactPlanFails, ExactStages, ExactFinish,
     ExactLeave DEF SearchStep
<1>2. ASSUME NEW c \in Client, NEW r \in Request, Hit(c, r) \/ Miss(c, r) PROVE ExactInv'
  BY <1>2, ExactHit, ExactMiss
<1>3. ASSUME \/ \E p \in Page : Store(p)
             \/ \E p \in Recrawled : Rewrite(p)
             \/ \E t \in Text, p \in Clickable : RecordClick(t, p)
      PROVE  ExactInv'
  <2>1. ASSUME NEW p \in Recrawled, Rewrite(p) PROVE p \in Page
    BY <2>1 DEF Rewrite, ExactInv, SearchInv, SearchOK
  <2>2. SearchInv'
    BY <1>3, <2>1, StoreInv, RewriteInv, RecordClickInv DEF ExactInv
  <2>3. Written
    BY <1>3 DEF Store, Rewrite, RecordClick
  <2> QED BY <2>2, <2>3, ExactWrite
<1>4. ASSUME \/ \E k \in Keys : ExpireAnswer(k)
             \/ \E t \in Text : ExpireWord(t) \/ ExpireIDF(t)
             \/ UNCHANGED searchState
      PROVE  ExactInv'
  BY <1>4, ExactExpiry
<1> QED BY <1>1, <1>2, <1>3, <1>4 DEF SearchNext

\* The statements of a search that nothing has failed or written into, and that
\* no outdated lookup has entered, add up to the reference, computed from the
\* tables at once: every page counts with its best-scored copy among the plans
\* that are run.  Its cached answer stays the reference until something is
\* written (SearchPages).
THEOREM AnswersAreReference == SearchSpec => []AnswersExact
<1>1. SearchSpec => []ExactInv
  BY ExactInit, ExactNext, PTL DEF SearchSpec
<1>2. ExactInv => AnswersExact
  BY DEF ExactInv
<1> QED BY <1>1, <1>2, PTL

-----------------------------------------------------------------------------
(* Search: induction over the positions of a list.                         *)

LEMMA LeastNat ==
  ASSUME NEW T \in SUBSET Nat, T # {}
  PROVE  \E x \in T : \A y \in T : x <= y
<1> DEFINE less == {ss \in Nat \X Nat : ss[1] < ss[2]}
<1>1. IsWellFoundedOn(less, Nat)
  BY NatLessThanWellFounded DEF OpToRel
<1>2. PICK x \in T : \A y \in T : ~(<<y, x>> \in less)
  <2> HIDE DEF less
  <2> QED BY <1>1, WFMin
<1>3. \A y \in T : ~(y < x)
  BY <1>2
<1> QED BY <1>3

\* A set with 0 and with every number after one of its own has them all.
LEMMA UpTo ==
  ASSUME NEW n \in Nat, NEW T, 0 \in T, \A i \in 1..n : i - 1 \in T => i \in T
  PROVE  \A i \in 0..n : i \in T
<1> SUFFICES ASSUME NEW j \in 0..n, j \notin T PROVE FALSE
  OBVIOUS
<1> DEFINE U == {i \in 0..n : i \notin T}
<1>1. PICK x \in U : \A y \in U : x <= y
  <2>1. U \in SUBSET Nat /\ U # {}
    OBVIOUS
  <2> QED BY <2>1, LeastNat
<1>2. x # 0 /\ x \in 1..n
  BY <1>1
<1>3. x - 1 \notin U
  BY <1>1, <1>2
<1>4. x - 1 \in T
  BY <1>2, <1>3
<1> QED BY <1>1, <1>2, <1>4

\* The values after each of n steps F from b.
Iteration(f, n, A, b, F) == f \in [0..n -> A] /\ f[0] = b /\ \A i \in 1..n : f[i] = F[<<i, f[i - 1]>>]

\* Whatever a step F makes of a position and a value, it can be iterated.
LEMMA Iterated ==
  ASSUME NEW n \in Nat, NEW A, NEW b \in A, NEW F \in [(1..n) \X A -> A]
  PROVE  \E f : Iteration(f, n, A, b, F)
<1> DEFINE upto(m, f) == f \in [0..m -> A] /\ f[0] = b /\ \A i \in 1..m : f[i] = F[<<i, f[i - 1]>>]
           T == {m \in 0..n : \E f : upto(m, f)}
<1>1. 0 \in T
  <2>1. upto(0, [i \in 0..0 |-> b])
    OBVIOUS
  <2> HIDE DEF upto
  <2> QED BY <2>1
<1>2. ASSUME NEW m \in 1..n, m - 1 \in T PROVE m \in T
  <2>1. PICK f : upto(m - 1, f)
    BY <1>2
  <2> DEFINE g == [i \in 0..m |-> IF i = m THEN F[<<m, f[m - 1]>>] ELSE f[i]]
  <2>2. f[m - 1] \in A /\ F[<<m, f[m - 1]>>] \in A
    BY <2>1
  <2>3. g \in [0..m -> A]
    BY <2>1, <2>2
  <2>4. g[0] = b
    BY <2>1
  <2>5. ASSUME NEW i \in 1..m PROVE g[i] = F[<<i, g[i - 1]>>]
    <3>1. CASE i = m
      BY <3>1
    <3>2. CASE i # m
      <4>1. i \in 1..(m - 1) /\ g[i] = f[i] /\ g[i - 1] = f[i - 1]
        BY <3>2
      <4> QED BY <4>1, <2>1
    <3> QED BY <3>1, <3>2
  <2>6. upto(m, g)
    <3> HIDE DEF g
    <3> QED BY <2>3, <2>4, <2>5
  <2> HIDE DEF upto, g
  <2> QED BY <2>6
<1>3. n \in T
  <2> HIDE DEF T
  <2> QED BY <1>1, <1>2, UpTo
<1> QED BY <1>3 DEF Iteration

-----------------------------------------------------------------------------
(* Search: lists of pages.                                                 *)

\* A list has the pages X, each of them once.
Lists(s, X) == s \in Seq(Page) /\ IsInjective(s) /\ ToSet(s) = X

\* A strict order of S.
IsOrder(S, lt) ==
  /\ \A x \in S : <<x, x>> \notin lt
  /\ \A x, y, z \in S : <<x, y>> \in lt /\ <<y, z>> \in lt => <<x, z>> \in lt
  /\ \A x, y \in S : x # y => <<x, y>> \in lt \/ <<y, x>> \in lt

\* Sorting a finite set enumerates it: no two elements have equally many before
\* them.
LEMMA SortedAll ==
  ASSUME NEW S, IsFiniteSet(S), NEW lt, IsOrder(S, lt)
  PROVE  /\ Cardinality(S) \in Nat
         /\ Sorted(S, lt) \in [1..Cardinality(S) -> S]
         /\ \A i, j \in 1..Cardinality(S) : Sorted(S, lt)[i] = Sorted(S, lt)[j] => i = j
         /\ \A x \in S : \E i \in 1..Cardinality(S) : Sorted(S, lt)[i] = x
<1> DEFINE n == Cardinality(S)
           ahead(x) == {y \in S : <<y, x>> \in lt}
           rank == [x \in S |-> Cardinality(ahead(x))]
<1>1. n \in Nat
  BY FS_CardinalityType
<1>2. ASSUME NEW x \in S PROVE rank[x] \in 0..(n - 1) /\ IsFiniteSet(ahead(x))
  <2>1. ahead(x) \in SUBSET (S \ {x})
    BY DEF IsOrder
  <2>2. IsFiniteSet(S \ {x}) /\ Cardinality(S \ {x}) = n - 1
    BY FS_RemoveElement
  <2>3. IsFiniteSet(ahead(x)) /\ Cardinality(ahead(x)) <= n - 1
    <3> HIDE DEF ahead
    <3> QED BY <2>1, <2>2, FS_Subset
  <2> QED BY <2>3, FS_CardinalityType
<1>3. ASSUME NEW x \in S, NEW y \in S, <<x, y>> \in lt PROVE rank[x] < rank[y]
  <2>1. ahead(x) \in SUBSET ahead(y) /\ x \in ahead(y) /\ x \notin ahead(x)
    BY <1>3 DEF IsOrder
  <2>2. IsFiniteSet(ahead(y)) /\ rank[x] \in Nat /\ rank[y] \in Nat
    BY <1>2
  <2>3. Cardinality(ahead(x)) <= Cardinality(ahead(y)) /\ Cardinality(ahead(x)) # Cardinality(ahead(y))
    BY <2>1, <2>2, FS_Subset
  <2> QED BY <2>2, <2>3
<1>4. rank \in Injection(S, 0..(n - 1))
  <2>1. \A x, y \in S : rank[x] = rank[y] => x = y
    <3> SUFFICES ASSUME NEW x \in S, NEW y \in S, x # y PROVE rank[x] # rank[y]
      OBVIOUS
    <3>1. <<x, y>> \in lt \/ <<y, x>> \in lt
      BY DEF IsOrder
    <3>2. rank[x] < rank[y] \/ rank[y] < rank[x]
      BY <3>1, <1>3
    <3>3. rank[x] \in Nat /\ rank[y] \in Nat
      BY <1>2
    <3> HIDE DEF rank
    <3> QED BY <3>2, <3>3
  <2>2. rank \in [S -> 0..(n - 1)]
    <3>1. \A x \in S : rank[x] \in 0..(n - 1)
      BY <1>2
    <3>2. rank = [x \in S |-> rank[x]]
      OBVIOUS
    <3> HIDE DEF rank
    <3> QED BY <3>1, <3>2
  <2> HIDE DEF rank
  <2> QED BY <2>1, <2>2 DEF Injection, IsInjective
<1>5. rank \in Surjection(S, 0..(n - 1))
  <2>1. IsFiniteSet(0..(n - 1)) /\ Cardinality(0..(n - 1)) = n
    BY <1>1, FS_Interval
  <2> HIDE DEF rank
  <2> QED BY <1>4, <2>1, FS_Injection
<1>6. ASSUME NEW i \in 1..n PROVE Sorted(S, lt)[i] \in S /\ rank[Sorted(S, lt)[i]] = i - 1
  <2>1. \E x \in S : rank[x] = i - 1
    <3>1. i - 1 \in 0..(n - 1)
      BY <1>1
    <3> HIDE DEF rank
    <3> QED BY <1>5, <3>1 DEF Surjection
  <2>2. Sorted(S, lt)[i] = CHOOSE x \in S : Cardinality(ahead(x)) = i - 1
    BY DEF Sorted
  <2>3. \E x \in S : Cardinality(ahead(x)) = i - 1
    BY <2>1
  <2> QED BY <2>2, <2>3
<1>7. Sorted(S, lt) \in [1..n -> S]
  BY <1>6 DEF Sorted
<1>8. ASSUME NEW x \in S PROVE \E i \in 1..n : Sorted(S, lt)[i] = x
  <2> DEFINE k == rank[x] + 1
  <2>1. k \in 1..n /\ k - 1 = rank[x]
    BY <1>1, <1>2
  <2> HIDE DEF k
  <2>2. rank[Sorted(S, lt)[k]] = rank[x] /\ Sorted(S, lt)[k] \in S
    <3> HIDE DEF rank
    <3> QED BY <1>6, <2>1
  <2>3. Sorted(S, lt)[k] = x
    <3> HIDE DEF rank
    <3> QED BY <1>4, <2>2 DEF Injection, IsInjective
  <2> QED BY <2>1, <2>3
<1>9. \A i, j \in 1..n : Sorted(S, lt)[i] = Sorted(S, lt)[j] => i = j
  <2> SUFFICES ASSUME NEW i \in 1..n, NEW j \in 1..n, Sorted(S, lt)[i] = Sorted(S, lt)[j] PROVE i = j
    OBVIOUS
  <2>1. i - 1 = j - 1
    <3> HIDE DEF rank
    <3> QED BY <1>6
  <2> QED BY <2>1, <1>1
<1> QED BY <1>1, <1>7, <1>8, <1>9

\* A list has as many elements as pages.
LEMMA ListLength ==
  ASSUME NEW s, NEW X, Lists(s, X)
  PROVE  Len(s) \in Nat /\ DOMAIN s = 1..Len(s) /\ \A i \in 1..Len(s) : s[i] \in Page /\ s[i] \in X
<1>1. Len(s) \in Nat /\ DOMAIN s = 1..Len(s) /\ s \in [1..Len(s) -> Page]
  BY LenProperties DEF Lists
<1> QED BY <1>1 DEF Lists, ToSet

\* Functions on 1..n are sequences of length n.
LEMMA AsSequence ==
  ASSUME NEW n \in Nat, NEW X, NEW f \in [1..n -> X]
  PROVE  f \in Seq(X) /\ Len(f) = n /\ DOMAIN f = 1..n
<1>1. f \in Seq(X)
  BY SeqDef
<1>2. Len(f) \in Nat /\ DOMAIN f = 1..Len(f)
  BY <1>1, LenProperties
<1>3. 1..n = 1..Len(f)
  BY <1>2
<1> QED BY <1>1, <1>2, <1>3

Through(s, n, at) == [k \in 1..n |-> s[at[k]]]
At(s, I) == {s[i] : i \in I}

\* The elements of a list at the positions I, in whatever order, are a list.
LEMMA Picked ==
  ASSUME NEW s, NEW X, Lists(s, X), NEW n \in Nat, NEW I \in SUBSET (DOMAIN s), NEW at \in [1..n -> I],
         \A i, j \in 1..n : at[i] = at[j] => i = j,
         \A x \in I : \E i \in 1..n : at[i] = x
  PROVE  Lists(Through(s, n, at), At(s, I))
<1> DEFINE t == [k \in 1..n |-> s[at[k]]]
<1>1. \A i \in DOMAIN s : s[i] \in Page
  BY ListLength
<1>2. \A k \in 1..n : at[k] \in I /\ at[k] \in DOMAIN s
  OBVIOUS
<1>3. t \in [1..n -> Page]
  BY <1>1, <1>2
<1>4. t \in Seq(Page) /\ DOMAIN t = 1..n
  <2> HIDE DEF t
  <2> QED BY <1>3, AsSequence
<1>5. IsInjective(t)
  <2>1. \A i, j \in 1..n : t[i] = t[j] => i = j
    <3> SUFFICES ASSUME NEW i \in 1..n, NEW j \in 1..n, t[i] = t[j] PROVE i = j
      OBVIOUS
    <3>1. s[at[i]] = s[at[j]]
      OBVIOUS
    <3>2. at[i] = at[j]
      BY <1>2, <3>1 DEF Lists, IsInjective
    <3> QED BY <3>2
  <2> QED BY <2>1 DEF IsInjective
<1>6. ToSet(t) = {s[i] : i \in I}
  BY <1>2 DEF ToSet
<1> QED BY <1>4, <1>5, <1>6 DEF Lists, Through, At

\* Kept keeps what it is told to.
LEMMA KeptLists ==
  ASSUME NEW s, NEW X, Lists(s, X), NEW I \in SUBSET (DOMAIN s)
  PROVE  Lists(Kept(s, I), At(s, I))
<1> DEFINE lt == {ij \in I \X I : ij[1] < ij[2]}
           n == Cardinality(I)
           at == Sorted(I, lt)
<1>1. I \subseteq Nat /\ IsFiniteSet(I)
  <2>1. Len(s) \in Nat /\ DOMAIN s = 1..Len(s)
    BY ListLength
  <2>2. IsFiniteSet(DOMAIN s) /\ DOMAIN s \subseteq Nat
    BY <2>1, FS_Interval
  <2> QED BY <2>2, FS_Subset
<1>2. IsOrder(I, lt)
  BY <1>1 DEF IsOrder
<1>3. /\ n \in Nat /\ at \in [1..n -> I]
      /\ \A i, j \in 1..n : at[i] = at[j] => i = j
      /\ \A x \in I : \E i \in 1..n : at[i] = x
  <2> HIDE DEF lt
  <2> QED BY <1>1, <1>2, SortedAll
<1>4. Lists(Through(s, n, at), At(s, I))
  <2> HIDE DEF at, n
  <2> QED BY <1>3, Picked
<1> QED BY <1>4 DEF Kept, Through

\* rerankSearchCandidates drops and repeats nobody.
LEMMA RerankLists ==
  ASSUME NEW P, PoolOK(P), NEW r \in Request, NEW m \in Stats, NEW nav \in BOOLEAN
  PROVE  Lists(Rerank(P, r, m, nav), Ids(P))
<1> DEFINE rank(c) == Rank(c, r.text, m, r.lang, nav)
           ahead(c, d) == rank(c) > rank(d) \/ (rank(c) = rank(d) /\ c.id < d.id)
           lt == {cd \in P \X P : ahead(cd[1], cd[2])}
           ranked == Sorted(P, lt)
           n == Cardinality(P)
<1>1. ASSUME NEW c \in P PROVE rank(c) \in Int /\ c.id \in Nat /\ c.id \in Page
  <2>1. c.id \in Page /\ c.sqlScore \in Int /\ c.mode \in Modes
    BY DEF PoolOK, Candidates
  <2>2. ModeBonus[c.mode] \in Int
    BY <2>1 DEF ModeBonus, Modes
  <2>3. Worth(r.text, m, nav, c.id) \in Int /\ LanguageBoost \in Int /\ SecondaryLanguageBoost \in Int
    <3>1. r.text \in Text /\ LanguageBoost \in Int /\ SecondaryLanguageBoost \in Nat
      BY SearchAssumption
    <3>2. Worth(r.text, m, nav, c.id) \in Int
      BY <2>1, <3>1, ScoresAssumption
    <3> QED BY <3>1, <3>2
  <2>4. c.id \in Nat
    BY <2>1, SearchAssumption
  <2> DEFINE worth == Worth(r.text, m, nav, c.id)
             language == IF r.lang = None THEN 0
                         ELSE IF LangOf[c.id] = r.lang THEN LanguageBoost
                         ELSE IF LangOf[c.id] = SecondaryLang THEN SecondaryLanguageBoost ELSE 0
             signal == MinOf(c.sqlScore, 500)
  <2>5. worth \in Int /\ language \in Int /\ signal \in Int
    BY <2>1, <2>3 DEF MinOf
  <2>6. rank(c) = 100 * (worth + ModeBonus[c.mode] + language) + 4000 * c.sqlScore + signal
    BY DEF Rank
  <2> HIDE DEF worth, language, signal, rank
  <2>7. rank(c) \in Int
    BY <2>1, <2>2, <2>5, <2>6
  <2> QED BY <2>1, <2>4, <2>7
<1>2. \A c, d \in P : <<c, d>> \in lt <=> ahead(c, d)
  OBVIOUS
<1>3. IsOrder(P, lt)
  <2> HIDE DEF rank, lt
  <2>1. \A x \in P : <<x, x>> \notin lt
    BY <1>1, <1>2
  <2>2. \A x, y, z \in P : <<x, y>> \in lt /\ <<y, z>> \in lt => <<x, z>> \in lt
    BY <1>1, <1>2
  <2>3. \A x, y \in P : x # y => <<x, y>> \in lt \/ <<y, x>> \in lt
    <3>1. \A x, y \in P : x.id = y.id => x = y
      BY DEF PoolOK
    <3> QED BY <1>1, <1>2, <3>1
  <2> QED BY <2>1, <2>2, <2>3 DEF IsOrder
<1>4. /\ n \in Nat /\ ranked \in [1..n -> P]
      /\ \A i, j \in 1..n : ranked[i] = ranked[j] => i = j
      /\ \A x \in P : \E i \in 1..n : ranked[i] = x
  <2> HIDE DEF lt
  <2> QED BY <1>3, SortedAll DEF PoolOK
<1> HIDE DEF lt, ranked, n
<1>5. Len(ranked) = n
  BY <1>4, AsSequence
<1>6. Rerank(P, r, m, nav) = [i \in 1..n |-> ranked[i].id]
  BY <1>5 DEF Rerank, ranked, lt
<1> DEFINE t == [i \in 1..n |-> ranked[i].id]
<1>7. t \in [1..n -> Page]
  BY <1>1, <1>4
<1>8. t \in Seq(Page) /\ DOMAIN t = 1..n
  <2> HIDE DEF t
  <2> QED BY <1>4, <1>7, AsSequence
<1>9. \A i, j \in 1..n : t[i] = t[j] => i = j
  BY <1>4 DEF PoolOK
<1>10. ToSet(t) = Ids(P)
  BY <1>4 DEF ToSet, Ids
<1> QED BY <1>6, <1>8, <1>9, <1>10 DEF Lists, IsInjective

\* promoteLanguagePerDomain moves elements only: no two have the same place.
LEMMA PromoteLists ==
  ASSUME NEW s, NEW X, Lists(s, X), NEW lang
  PROVE  Lists(PromoteLanguage(s, lang), X)
<1> DEFINE Of(i)    == {j \in DOMAIN s : SiteOf[s[j]] = SiteOf[s[i]]}
           Score(i) == IF LangOf[s[i]] = lang THEN 2
                       ELSE IF SecondaryLang # None /\ LangOf[s[i]] = SecondaryLang THEN 1 ELSE 0
           IsBest(i) == /\ Score(i) > 0
                        /\ \A j \in Of(i) : Score(j) < Score(i) \/ (Score(j) = Score(i) /\ i <= j)
           First(i) == CHOOSE j \in Of(i) : \A k \in Of(i) : j <= k
           place(i) == IF IsBest(i) THEN 2 * First(i) - 1 ELSE 2 * i
           lt == {ij \in (DOMAIN s) \X (DOMAIN s) : place(ij[1]) < place(ij[2])}
           n == Len(s)
<1>1. n \in Nat /\ DOMAIN s = 1..n
  BY ListLength
<1>2. ASSUME NEW i \in 1..n PROVE First(i) \in 1..n /\ First(i) \in Of(i)
  <2>1. Of(i) \in SUBSET Nat /\ i \in Of(i) /\ Of(i) \subseteq 1..n
    BY <1>1
  <2>2. \E j \in Of(i) : \A k \in Of(i) : j <= k
    <3> HIDE DEF Of
    <3> QED BY <2>1, LeastNat
  <2>3. First(i) \in Of(i)
    <3> HIDE DEF Of
    <3> QED BY <2>2
  <2> QED BY <2>1, <2>3
<1>3. \A i \in 1..n : place(i) \in Int
  <2> HIDE DEF First, IsBest
  <2> QED BY <1>2
<1>4. ASSUME NEW i \in 1..n, NEW j \in 1..n, place(i) = place(j) PROVE i = j
  <2>1. CASE IsBest(i) /\ IsBest(j)
    <3>1. First(i) = First(j)
      <4> HIDE DEF First, IsBest
      <4> QED BY <1>2, <1>4, <2>1
    <3>2. SiteOf[s[First(i)]] = SiteOf[s[i]] /\ SiteOf[s[First(j)]] = SiteOf[s[j]]
      <4> HIDE DEF First
      <4> QED BY <1>2
    <3>3. i \in Of(j) /\ j \in Of(i)
      <4> HIDE DEF First
      <4> QED BY <1>1, <3>1, <3>2
    <3>4. Score(i) \in Int /\ Score(j) \in Int
      OBVIOUS
    <3> HIDE DEF Score, Of
    <3> QED BY <2>1, <3>3, <3>4
  <2>2. CASE ~(IsBest(i) /\ IsBest(j))
    <3> HIDE DEF First, IsBest
    <3> QED BY <1>2, <1>4, <2>2
  <2> QED BY <2>1, <2>2
<1>5. \A i, j \in 1..n : <<i, j>> \in lt <=> place(i) < place(j)
  <2> HIDE DEF place
  <2> QED BY <1>1
<1>6. IsOrder(1..n, lt)
  <2> HIDE DEF place, lt
  <2> QED BY <1>3, <1>4, <1>5 DEF IsOrder
<1>7. IsFiniteSet(1..n) /\ Cardinality(1..n) = n
  <2> HIDE DEF n
  <2> QED BY <1>1, FS_Interval
<1> DEFINE order == Sorted(1..n, lt)
<1>8. /\ order \in [1..n -> 1..n]
      /\ \A i, j \in 1..n : order[i] = order[j] => i = j
      /\ \A x \in 1..n : \E i \in 1..n : order[i] = x
  <2> DEFINE S == 1..n
  <2>1. IsFiniteSet(S) /\ IsOrder(S, lt) /\ Cardinality(S) = n
    BY <1>6, <1>7
  <2> HIDE DEF lt, n, S
  <2>2. /\ Sorted(S, lt) \in [1..Cardinality(S) -> S]
        /\ \A i, j \in 1..Cardinality(S) : Sorted(S, lt)[i] = Sorted(S, lt)[j] => i = j
        /\ \A x \in S : \E i \in 1..Cardinality(S) : Sorted(S, lt)[i] = x
    BY <2>1, SortedAll
  <2> QED BY <2>1, <2>2 DEF S
<1>9. PromoteLanguage(s, lang) = Through(s, n, order)
  BY <1>1 DEF PromoteLanguage, Through
<1>10. At(s, 1..n) = X
  BY <1>1 DEF Lists, ToSet, At
<1> HIDE DEF order, n
<1>11. Lists(Through(s, n, order), At(s, 1..n))
  <2>1. 1..n \in SUBSET (DOMAIN s)
    BY <1>1
  <2>2. \A I \in SUBSET (DOMAIN s) : \A at \in [1..n -> I] :
          /\ \A i, j \in 1..n : at[i] = at[j] => i = j
          /\ \A x \in I : \E i \in 1..n : at[i] = x
          => Lists(Through(s, n, at), At(s, I))
    BY <1>1, Picked
  <2> QED BY <1>8, <2>1, <2>2
<1> QED BY <1>9, <1>10, <1>11

-----------------------------------------------------------------------------
(* Search: the passes of diversifyByDomain.                                *)

Passing == [result : Seq(Page), deferred : Seq(Page)]
All(acc) == ToSet(acc.result) \cup ToSet(acc.deferred)

DomainIn(d, s) == \E k \in DOMAIN s : DomainOf[s[k]] = d

\* No two of the first Top pages have a domain in common.
LeadersApart(s) ==
  \A j, k \in DOMAIN s : j <= Top /\ k <= Top /\ DomainOf[s[j]] = DomainOf[s[k]] => j = k

\* What holds after every candidate of every pass.
PassingOK(acc) ==
  /\ acc \in Passing
  /\ IsInjective(acc.result) /\ IsInjective(acc.deferred)
  /\ ToSet(acc.result) \cap ToSet(acc.deferred) = {}
  /\ LeadersApart(acc.result)

LEMMA AppendList ==
  ASSUME NEW s \in Seq(Page), NEW p \in Page
  PROVE  /\ Append(s, p) \in Seq(Page) /\ Len(s) \in Nat /\ Len(Append(s, p)) = Len(s) + 1
         /\ DOMAIN s = 1..Len(s) /\ DOMAIN Append(s, p) = 1..(Len(s) + 1)
         /\ \A i \in 1..Len(s) : Append(s, p)[i] = s[i]
         /\ Append(s, p)[Len(s) + 1] = p
         /\ ToSet(Append(s, p)) = ToSet(s) \cup {p}
         /\ IsInjective(s) /\ p \notin ToSet(s) => IsInjective(Append(s, p))
<1> DEFINE t == Append(s, p)
<1>1. Len(s) \in Nat /\ DOMAIN s = 1..Len(s)
  BY LenProperties
<1>2. /\ t \in Seq(Page) /\ Len(t) = Len(s) + 1
      /\ \A i \in 1..Len(s) : t[i] = s[i]
      /\ t[Len(s) + 1] = p
  BY AppendProperties
<1>3. DOMAIN t = 1..(Len(s) + 1)
  BY <1>2, LenProperties
<1> HIDE DEF t
<1>4. ToSet(t) = ToSet(s) \cup {p}
  <2>1. \A i \in 1..(Len(s) + 1) : i \in 1..Len(s) \/ i = Len(s) + 1
    BY <1>1
  <2>2. 1..Len(s) \subseteq 1..(Len(s) + 1) /\ Len(s) + 1 \in 1..(Len(s) + 1)
    BY <1>1
  <2> QED BY <1>1, <1>2, <1>3, <2>1, <2>2 DEF ToSet
<1>5. ASSUME IsInjective(s), p \notin ToSet(s) PROVE IsInjective(t)
  <2> SUFFICES ASSUME NEW i \in 1..(Len(s) + 1), NEW j \in 1..(Len(s) + 1), t[i] = t[j] PROVE i = j
    BY <1>3 DEF IsInjective
  <2>1. \A k \in 1..Len(s) : t[k] # p
    BY <1>1, <1>2, <1>5 DEF ToSet
  <2>2. \A k \in 1..(Len(s) + 1) : k \in 1..Len(s) \/ k = Len(s) + 1
    BY <1>1
  <2>3. CASE i \in 1..Len(s) /\ j \in 1..Len(s)
    BY <1>1, <1>2, <1>5, <2>3 DEF IsInjective
  <2> QED BY <1>2, <2>1, <2>2, <2>3
<1> QED BY <1>1, <1>2, <1>3, <1>4, <1>5 DEF t

LEMMA CountZero ==
  ASSUME NEW s \in Seq(Page), NEW d
  PROVE  CountOf(s, d) \in Nat /\ (CountOf(s, d) = 0 <=> ~DomainIn(d, s))
<1> DEFINE I == {i \in DOMAIN s : DomainOf[s[i]] = d}
<1>1. IsFiniteSet(I)
  <2>1. Len(s) \in Nat /\ DOMAIN s = 1..Len(s)
    BY LenProperties
  <2>2. IsFiniteSet(DOMAIN s)
    BY <2>1, FS_Interval
  <2> QED BY <2>2, FS_Subset
<1>2. Cardinality(I) \in Nat /\ (Cardinality(I) = 0 <=> I = {})
  BY <1>1, FS_CardinalityType, FS_EmptySet
<1> QED BY <1>2 DEF CountOf, DomainIn

\* While there is room among the leaders a candidate of a new domain is placed
\* and any other deferred.
LEMMA PlaceOK ==
  ASSUME NEW acc, PassingOK(acc), NEW p \in Page, p \notin All(acc)
  PROVE  LET new == Place(acc, p) IN
         /\ PassingOK(new) /\ All(new) = All(acc) \cup {p}
         /\ ToSet(new.deferred) \subseteq ToSet(acc.deferred) \cup {p}
         /\ Len(acc.result) \in Nat /\ Len(new.result) \in Nat /\ Len(new.result) >= Len(acc.result)
         /\ \A d : DomainIn(d, acc.result) => DomainIn(d, new.result)
         /\ Len(new.result) < Top => DomainIn(DomainOf[p], new.result)
<1> DEFINE new == Place(acc, p)
           r == acc.result
           room == CountOf(r, DomainOf[p]) < MaxPerDomain(Len(r))
<1>1. r \in Seq(Page) /\ acc.deferred \in Seq(Page) /\ Len(r) \in Nat /\ Top \in Nat
  BY LenProperties, SearchAssumption DEF PassingOK, Passing
<1>2. Len(r) < Top => (room <=> ~DomainIn(DomainOf[p], r))
  <2>1. CountOf(r, DomainOf[p]) \in Nat /\ (CountOf(r, DomainOf[p]) = 0 <=> ~DomainIn(DomainOf[p], r))
    BY <1>1, CountZero
  <2> QED BY <2>1 DEF MaxPerDomain
<1>3. CASE room
  <2>1. new.result = Append(r, p) /\ new.deferred = acc.deferred /\ new \in Passing
    <3>1. Append(r, p) \in Seq(Page)
      BY <1>1, AppendList
    <3> QED BY <1>3, <1>1, <3>1 DEF Place, PassingOK, Passing
  <2>2. /\ Len(new.result) = Len(r) + 1 /\ DOMAIN r = 1..Len(r) /\ DOMAIN new.result = 1..(Len(r) + 1)
        /\ \A i \in 1..Len(r) : new.result[i] = r[i]
        /\ new.result[Len(r) + 1] = p
        /\ ToSet(new.result) = ToSet(r) \cup {p}
    BY <1>1, <2>1, AppendList
  <2>3. IsInjective(new.result)
    BY <1>1, <2>1, AppendList DEF PassingOK, All
  <2> HIDE DEF new, room
  <2>4. LeadersApart(new.result)
    <3> SUFFICES ASSUME NEW j \in 1..(Len(r) + 1), NEW k \in 1..(Len(r) + 1), j <= Top, k <= Top,
                        DomainOf[new.result[j]] = DomainOf[new.result[k]]
                 PROVE  j = k
      BY <2>2 DEF LeadersApart
    <3>1. \A i \in 1..(Len(r) + 1) : i \in 1..Len(r) \/ i = Len(r) + 1
      BY <1>1
    <3>2. CASE j \in 1..Len(r) /\ k \in 1..Len(r)
      BY <2>2, <3>2 DEF PassingOK, LeadersApart
    <3>3. ASSUME NEW i \in 1..Len(r), Len(r) + 1 <= Top PROVE DomainOf[r[i]] # DomainOf[p]
      <4>1. ~DomainIn(DomainOf[p], r)
        BY <1>1, <1>2, <1>3, <3>3
      <4> QED BY <2>2, <4>1 DEF DomainIn
    <3> QED BY <2>2, <3>1, <3>2, <3>3
  <2>5. \A d : DomainIn(d, r) => DomainIn(d, new.result)
    <3>1. 1..Len(r) \subseteq 1..(Len(r) + 1)
      BY <1>1
    <3> QED BY <2>2, <3>1 DEF DomainIn
  <2>6. DomainIn(DomainOf[p], new.result)
    <3>1. Len(r) + 1 \in 1..(Len(r) + 1)
      BY <1>1
    <3> QED BY <2>2, <3>1 DEF DomainIn
  <2>7. PassingOK(new) /\ All(new) = All(acc) \cup {p}
    BY <2>1, <2>2, <2>3, <2>4 DEF PassingOK, All
  <2>8. Len(new.result) \in Nat /\ Len(new.result) >= Len(r)
    BY <1>1, <2>2
  <2> QED BY <1>1, <2>1, <2>5, <2>6, <2>7, <2>8 DEF new
<1>4. CASE ~room
  <2>1. new.result = r /\ new.deferred = Append(acc.deferred, p) /\ new \in Passing
    <3>1. Append(acc.deferred, p) \in Seq(Page)
      BY <1>1, AppendList
    <3> QED BY <1>4, <1>1, <3>1 DEF Place, PassingOK, Passing
  <2>2. ToSet(new.deferred) = ToSet(acc.deferred) \cup {p} /\ IsInjective(new.deferred)
    BY <1>1, <2>1, AppendList DEF PassingOK, All
  <2>3. Len(new.result) < Top => DomainIn(DomainOf[p], new.result)
    <3> HIDE DEF room
    <3> QED BY <1>2, <1>4, <2>1
  <2> HIDE DEF new, room
  <2>4. PassingOK(new) /\ All(new) = All(acc) \cup {p}
    BY <2>1, <2>2 DEF PassingOK, All
  <2> QED BY <1>1, <2>1, <2>2, <2>3, <2>4 DEF new
<1> QED BY <1>3, <1>4

\* What a pass has placed or deferred of the first i candidates of s.
PassSoFar(last, s, i, acc) ==
  /\ PassingOK(acc) /\ All(acc) = ToSet(last.result) \cup At(s, 1..i)
  /\ ToSet(acc.deferred) \subseteq At(s, 1..i)
  /\ Len(acc.result) \in Nat
  /\ Len(acc.result) < Top => \A j \in 1..i : DomainIn(DomainOf[s[j]], acc.result)

LEMMA PassStep ==
  ASSUME NEW last, PassingOK(last), NEW i \in 1..Len(last.deferred), NEW acc,
         PassSoFar(last, last.deferred, i - 1, acc)
  PROVE  PassSoFar(last, last.deferred, i, Place(acc, last.deferred[i]))
<1> DEFINE s == last.deferred
           new == Place(acc, s[i])
<1>1. s \in Seq(Page) /\ Len(s) \in Nat /\ DOMAIN s = 1..Len(s) /\ s[i] \in Page
  BY LenProperties, ElementOfSeq DEF PassingOK, Passing
<1>2. s[i] \notin All(acc)
  <2>1. s[i] \notin ToSet(last.result)
    BY <1>1 DEF PassingOK, ToSet
  <2>2. \A j \in 1..(i - 1) : s[j] # s[i]
    <3>1. \A j \in 1..(i - 1) : j \in 1..Len(s) /\ j # i
      BY <1>1
    <3> QED BY <1>1, <3>1 DEF PassingOK, IsInjective
  <2> QED BY <2>1, <2>2 DEF PassSoFar, At
<1>3. /\ PassingOK(new) /\ All(new) = All(acc) \cup {s[i]}
      /\ ToSet(new.deferred) \subseteq ToSet(acc.deferred) \cup {s[i]}
      /\ Len(acc.result) \in Nat /\ Len(new.result) \in Nat /\ Len(new.result) >= Len(acc.result)
      /\ \A d : DomainIn(d, acc.result) => DomainIn(d, new.result)
      /\ Len(new.result) < Top => DomainIn(DomainOf[s[i]], new.result)
  BY <1>1, <1>2, PlaceOK DEF PassSoFar
<1> HIDE DEF new, s
<1>4. At(s, 1..i) = At(s, 1..(i - 1)) \cup {s[i]}
  <2>1. i \in 1..i /\ \A j \in 1..i : j = i \/ j \in 1..(i - 1)
    BY <1>1
  <2>2. 1..(i - 1) \subseteq 1..i
    BY <1>1
  <2> QED BY <2>1, <2>2 DEF At
<1>5. Len(new.result) < Top => \A j \in 1..i : DomainIn(DomainOf[s[j]], new.result)
  <2> SUFFICES ASSUME Len(new.result) < Top, NEW j \in 1..i PROVE DomainIn(DomainOf[s[j]], new.result)
    OBVIOUS
  <2>1. CASE j = i
    BY <1>3, <2>1
  <2>2. CASE j # i
    <3>1. j \in 1..(i - 1)
      BY <1>1, <2>2
    <3>2. Len(acc.result) < Top
      BY <1>3, SearchAssumption
    <3> QED BY <1>3, <3>1, <3>2 DEF PassSoFar, s
  <2> QED BY <2>1, <2>2
<1>6. PassSoFar(last, s, i, new)
  BY <1>3, <1>4, <1>5 DEF PassSoFar, s
<1> QED BY <1>6 DEF new, s

\* A pass over the candidates that are deferred loses none; if it leaves room
\* among the leaders, the domains of all of them are there.
LEMMA PassOK ==
  ASSUME NEW last, PassingOK(last)
  PROVE  /\ PassingOK(Pass(last)) /\ All(Pass(last)) = All(last)
         /\ Len(Pass(last).result) \in Nat
         /\ Len(Pass(last).result) < Top =>
              \A p \in ToSet(Pass(last).deferred) : DomainIn(DomainOf[p], Pass(last).result)
<1> DEFINE s == last.deferred
           n == Len(s)
           start == [last EXCEPT !.deferred = <<>>]
           run(g) == g = [i \in 0..n |-> IF i = 0 THEN start ELSE Place(g[i - 1], s[i])]
           after == CHOOSE g : run(g)
<1>1. last.result \in Seq(Page) /\ s \in Seq(Page) /\ n \in Nat /\ DOMAIN s = 1..n
  BY LenProperties DEF PassingOK, Passing
<1>2. PassSoFar(last, s, 0, start)
  <2>1. start \in Passing /\ start.result = last.result /\ start.deferred = <<>>
    BY <1>1, EmptySeq DEF PassingOK, Passing
  <2>2. ToSet(<<>>) = {} /\ IsInjective(<<>>)
    BY DEF ToSet, IsInjective
  <2>3. At(s, 1..0) = {} /\ Len(last.result) \in Nat
    BY <1>1, LenProperties DEF At
  <2> HIDE DEF start
  <2> QED BY <2>1, <2>2, <2>3 DEF PassSoFar, PassingOK, All
<1>3. \E g : run(g)
  <2> DEFINE F == [x \in (1..n) \X Passing |-> Place(x[2], s[x[1]])]
  <2>1. F \in [(1..n) \X Passing -> Passing]
    <3> SUFFICES ASSUME NEW x \in (1..n) \X Passing PROVE Place(x[2], s[x[1]]) \in Passing
      OBVIOUS
    <3>1. x[1] \in 1..n /\ x[2] \in Passing
      OBVIOUS
    <3>2. s[x[1]] \in Page /\ x[2].result \in Seq(Page) /\ x[2].deferred \in Seq(Page)
      BY <1>1, <3>1, ElementOfSeq DEF Passing
    <3>3. Append(x[2].result, s[x[1]]) \in Seq(Page) /\ Append(x[2].deferred, s[x[1]]) \in Seq(Page)
      BY <3>2, AppendList
    <3> HIDE DEF s, n
    <3> QED BY <3>1, <3>2, <3>3 DEF Place, Passing
  <2> HIDE DEF s, n, start
  <2>2. start \in Passing
    BY <1>2 DEF PassSoFar, PassingOK
  <2>3. PICK f : Iteration(f, n, Passing, start, F)
    <3> HIDE DEF F
    <3> QED BY <1>1, <2>1, <2>2, Iterated
  <2>4. ASSUME NEW i \in 1..n PROVE f[i] = Place(f[i - 1], s[i])
    <3>1. f[i] = F[<<i, f[i - 1]>>] /\ f[i - 1] \in Passing
      <4>1. i - 1 \in 0..n
        BY <1>1
      <4> HIDE DEF F
      <4> QED BY <2>3, <4>1 DEF Iteration
    <3> QED BY <3>1
  <2> HIDE DEF F
  <2>5. run(f)
    BY <1>1, <2>3, <2>4 DEF Iteration
  <2> QED BY <2>5
<1>4. run(after)
  <2> HIDE DEF run
  <2> QED BY <1>3
<1>5. Pass(last) = after[n]
  BY DEF Pass
<1> HIDE DEF after, s, n, start
<1>6. \A i \in 0..n : PassSoFar(last, s, i, after[i])
  <2> DEFINE T == {i \in 0..n : PassSoFar(last, s, i, after[i])}
  <2>1. 0 \in T
    BY <1>1, <1>2, <1>4
  <2>2. ASSUME NEW i \in 1..n, i - 1 \in T PROVE i \in T
    <3>1. i \in 0..n /\ i # 0 /\ PassSoFar(last, s, i - 1, after[i - 1])
      BY <1>1, <2>2
    <3>2. after[i] = Place(after[i - 1], s[i])
      BY <1>4, <3>1
    <3>3. PassSoFar(last, s, i, Place(after[i - 1], s[i]))
      BY <3>1, PassStep DEF s, n
    <3> QED BY <3>1, <3>2, <3>3
  <2> HIDE DEF T
  <2>3. \A i \in 0..n : i \in T
    BY <1>1, <2>1, <2>2, UpTo
  <2> QED BY <2>3 DEF T
<1>7. PassSoFar(last, s, n, after[n])
  BY <1>1, <1>6
<1>8. At(s, 1..n) = ToSet(s)
  BY <1>1 DEF At, ToSet
<1>9. \A p \in ToSet(after[n].deferred) : \E j \in 1..n : s[j] = p
  BY <1>7 DEF PassSoFar, At
<1> QED BY <1>5, <1>7, <1>8, <1>9 DEF PassSoFar, All, s

DomainsOf(s, I) == {DomainOf[s[i]] : i \in I}

\* The first pages come from as many domains as there can be.
DomainsLead(s) ==
  \E n \in Nat : /\ n = MinOf(Top, Cardinality(DomainsOf(s, DOMAIN s)))
                /\ Cardinality(DomainsOf(s, 1..n)) = n

\* The positions of r \o d: the m of r, then the l of d.
Joined(r, d, m, l, n) ==
  /\ m \in Nat /\ l \in Nat /\ n \in Nat /\ m = Len(r) /\ n = m + l /\ m <= n
  /\ DOMAIN r = 1..m /\ DOMAIN d = 1..l /\ DOMAIN (r \o d) = 1..n
  /\ r \o d \in Seq(Page)
  /\ \A i \in 1..m : i \in 1..n /\ (r \o d)[i] = r[i]
  /\ \A i \in 1..l : m + i \in 1..n /\ m + i \notin 1..m /\ (r \o d)[m + i] = d[i]
  /\ \A i \in 1..n : i \in 1..m \/ \E j \in 1..l : i = m + j

LEMMA ConcatLists ==
  ASSUME NEW r \in Seq(Page), NEW d \in Seq(Page)
  PROVE  \E m, l, n : Joined(r, d, m, l, n)
<1> DEFINE s == r \o d
           m == Len(r)
           l == Len(d)
           n == m + l
<1>1. m \in Nat /\ l \in Nat /\ DOMAIN r = 1..m /\ DOMAIN d = 1..l
  BY LenProperties
<1>2. /\ s \in Seq(Page) /\ Len(s) = n
      /\ \A i \in 1..n : s[i] = IF i <= m THEN r[i] ELSE d[i - m]
  BY <1>1, ConcatProperties
<1>3. DOMAIN s = 1..n
  BY <1>2, LenProperties
<1>4. m <= n /\ n \in Nat /\ n = m + l
  BY <1>1
<1> HIDE DEF s, m, n, l
<1>5. \A i \in 1..m : i \in 1..n /\ i <= m
  BY <1>1, <1>4
<1>6. \A i \in 1..l : m + i \in 1..n /\ ~(m + i <= m) /\ (m + i) - m = i
  BY <1>1, <1>4
<1>7. \A i \in 1..n : i \in 1..m \/ \E j \in 1..l : i = m + j
  <2> SUFFICES ASSUME NEW i \in 1..n, i \notin 1..m PROVE \E j \in 1..l : i = m + j
    OBVIOUS
  <2>1. i - m \in 1..l /\ i = m + (i - m)
    BY <1>1, <1>4
  <2> QED BY <2>1
<1>8. \A i \in 1..m : s[i] = r[i]
  BY <1>2, <1>5
<1>9. ASSUME NEW i \in 1..l PROVE s[m + i] = d[i] /\ m + i \notin 1..m
  <2>1. m + i \in 1..n /\ ~(m + i <= m) /\ (m + i) - m = i
    BY <1>6
  <2>2. s[m + i] = d[(m + i) - m]
    BY <1>2, <2>1
  <2>3. m + i \notin 1..m
    BY <1>1, <2>1
  <2> QED BY <2>1, <2>2, <2>3
<1>10. m = Len(r) /\ l = Len(d)
  BY DEF m, l
<1>11. Joined(r, d, m, l, n)
  BY <1>1, <1>2, <1>3, <1>4, <1>5, <1>6, <1>7, <1>8, <1>9, <1>10 DEF s, Joined
<1> QED BY <1>11

\* What is placed comes first, and no domain is missing among the leaders while
\* there is room: the candidates left over change nothing.
LEMMA JoinOK ==
  ASSUME NEW acc, PassingOK(acc), Len(acc.result) \in Nat,
         Len(acc.result) < Top => \A p \in ToSet(acc.deferred) : DomainIn(DomainOf[p], acc.result)
  PROVE  LET s == acc.result \o acc.deferred IN Lists(s, All(acc)) /\ DomainsLead(s)
<1> DEFINE r == acc.result
           d == acc.deferred
           s == r \o d
<1>1. /\ r \in Seq(Page) /\ d \in Seq(Page) /\ Top \in Nat
      /\ IsInjective(r) /\ IsInjective(d) /\ ToSet(r) \cap ToSet(d) = {} /\ LeadersApart(r)
  BY SearchAssumption DEF PassingOK, Passing
<1>2. PICK m, l, n : Joined(r, d, m, l, n)
  BY <1>1, ConcatLists
<1>a. /\ m \in Nat /\ l \in Nat /\ n \in Nat /\ m = Len(r) /\ n = m + l /\ m <= n
      /\ DOMAIN r = 1..m /\ DOMAIN d = 1..l /\ DOMAIN s = 1..n
      /\ s \in Seq(Page)
      /\ \A i \in 1..m : i \in 1..n /\ s[i] = r[i]
      /\ \A i \in 1..l : m + i \in 1..n /\ m + i \notin 1..m /\ s[m + i] = d[i]
      /\ \A i \in 1..n : i \in 1..m \/ \E j \in 1..l : i = m + j
  BY <1>2 DEF Joined
<1>3. /\ m < Top => \A p \in ToSet(d) : DomainIn(DomainOf[p], r)
      /\ All(acc) = ToSet(r) \cup ToSet(d)
  BY <1>a DEF All
<1> HIDE DEF s, r, d
<1>4. \A i \in 1..m : \A j \in 1..l : r[i] # d[j]
  <2>1. ToSet(r) = {r[i] : i \in 1..m} /\ ToSet(d) = {d[i] : i \in 1..l}
    BY <1>a DEF ToSet
  <2> QED BY <1>1, <2>1
<1>5. IsInjective(s)
  <2> SUFFICES ASSUME NEW i \in 1..n, NEW j \in 1..n, s[i] = s[j] PROVE i = j
    BY <1>a DEF IsInjective
  <2>1. CASE i \in 1..m /\ j \in 1..m
    BY <1>1, <1>a, <2>1 DEF IsInjective
  <2>2. CASE i \notin 1..m /\ j \notin 1..m
    <3>0. \A k \in 1..n : k \in 1..m \/ \E h \in 1..l : k = m + h
      BY <1>a
    <3>1. PICK a \in 1..l, b \in 1..l : i = m + a /\ j = m + b
      BY <2>2, <3>0
    <3>2. d[a] = d[b]
      BY <1>a, <3>1
    <3>3. a = b
      BY <1>1, <1>a, <3>1, <3>2 DEF IsInjective
    <3> QED BY <3>1, <3>3
  <2>3. ASSUME NEW k \in 1..n, NEW h \in 1..n, k \in 1..m, h \notin 1..m PROVE s[k] # s[h]
    <3>1. PICK b \in 1..l : h = m + b
      BY <1>a, <2>3
    <3>2. s[k] = r[k] /\ s[h] = d[b]
      BY <1>a, <2>3, <3>1
    <3> QED BY <1>4, <2>3, <3>1, <3>2
  <2> QED BY <2>1, <2>2, <2>3
<1>6. ToSet(s) = ToSet(r) \cup ToSet(d)
  <2>1. /\ ToSet(r) = {r[i] : i \in 1..m} /\ ToSet(d) = {d[i] : i \in 1..l}
        /\ ToSet(s) = {s[i] : i \in 1..n}
    BY <1>a DEF ToSet
  <2>2. ASSUME NEW i \in 1..n PROVE s[i] \in {r[k] : k \in 1..m} \cup {d[k] : k \in 1..l}
    <3>1. CASE i \in 1..m
      BY <1>a, <3>1
    <3>2. CASE i \notin 1..m
      <4>1. PICK k \in 1..l : i = m + k
        BY <1>a, <3>2
      <4> QED BY <1>a, <4>1
    <3> QED BY <3>1, <3>2
  <2>3. \A i \in 1..m : r[i] \in {s[k] : k \in 1..n}
    BY <1>a
  <2>4. ASSUME NEW i \in 1..l PROVE d[i] \in {s[k] : k \in 1..n}
    <3>1. m + i \in 1..n /\ s[m + i] = d[i]
      BY <1>a
    <3> QED BY <3>1
  <2> QED BY <2>1, <2>2, <2>3, <2>4
<1>7. \A I \in SUBSET (1..n) : IsFiniteSet(DomainsOf(s, I)) /\ IsFiniteSet(I)
  <2> SUFFICES ASSUME NEW I \in SUBSET (1..n) PROVE IsFiniteSet(DomainsOf(s, I)) /\ IsFiniteSet(I)
    OBVIOUS
  <2> DEFINE f == [i \in I |-> DomainOf[s[i]]]
  <2>1. IsFiniteSet(I)
    <3>1. IsFiniteSet(1..n)
      BY <1>a, FS_Interval
    <3> QED BY <3>1, FS_Subset
  <2>2. f \in Surjection(I, DomainsOf(s, I))
    BY DEF Surjection, DomainsOf
  <2> HIDE DEF f
  <2> QED BY <2>1, <2>2, FS_Surjection
\* The first k pages have k domains.
<1>8. ASSUME NEW k \in 0..n, k <= m, k <= Top PROVE Cardinality(DomainsOf(s, 1..k)) = k
  <2> DEFINE f == [i \in 1..k |-> DomainOf[s[i]]]
  <2>1. f \in Surjection(1..k, DomainsOf(s, 1..k))
    BY DEF Surjection, DomainsOf
  <2>2. \A i, j \in 1..k : f[i] = f[j] => i = j
    <3>1. \A i \in 1..k : i \in 1..m /\ i <= Top
      BY <1>1, <1>a, <1>8
    <3>2. \A i \in 1..k : s[i] = r[i]
      BY <1>a, <3>1
    <3> QED BY <1>1, <1>a, <3>1, <3>2 DEF LeadersApart
  <2>3. f \in [1..k -> DomainsOf(s, 1..k)]
    BY DEF DomainsOf
  <2>4. f \in Injection(1..k, DomainsOf(s, 1..k))
    <3> DEFINE D == DomainsOf(s, 1..k)
    <3>1. DOMAIN f = 1..k
      OBVIOUS
    <3> HIDE DEF f
    <3> QED BY <2>2, <2>3, <3>1 DEF Injection, IsInjective
  <2>5. IsFiniteSet(1..k) /\ Cardinality(1..k) = k
    <3>1. k \in Int /\ 1 \in Int /\ (1 > k => k = 0) /\ k - 1 + 1 = k
      OBVIOUS
    <3> QED BY <3>1, FS_Interval
  <2> HIDE DEF f
  <2> QED BY <2>1, <2>4, <2>5, FS_Surjection
<1> DEFINE D == DomainsOf(s, 1..n)
           c == Cardinality(D)
<1>9. IsFiniteSet(D) /\ c \in Nat
  BY <1>7, FS_CardinalityType
<1>10. \A k \in 0..n : Cardinality(DomainsOf(s, 1..k)) <= c
  <2> SUFFICES ASSUME NEW k \in 0..n PROVE Cardinality(DomainsOf(s, 1..k)) <= c
    OBVIOUS
  <2>1. 1..k \subseteq 1..n
    BY <1>a
  <2>2. DomainsOf(s, 1..k) \in SUBSET D
    BY <2>1 DEF DomainsOf
  <2> HIDE DEF D
  <2> QED BY <1>9, <2>2, FS_Subset
<1> HIDE DEF c
<1>11. CASE m >= Top
  <2>1. Top \in 0..n /\ Top <= m
    BY <1>1, <1>a, <1>11
  <2>2. Cardinality(DomainsOf(s, 1..Top)) = Top
    BY <1>1, <1>8, <2>1
  <2>3. Top <= c
    BY <1>10, <2>1, <2>2
  <2>4. MinOf(Top, c) = Top
    BY <1>1, <1>9, <2>3 DEF MinOf
  <2>5. DomainsLead(s)
    BY <1>1, <1>a, <2>2, <2>4 DEF DomainsLead, c
  <2> QED BY <1>a, <1>3, <1>5, <1>6, <2>5 DEF Lists, s, r, d
<1>12. CASE m < Top
  <2>1. m \in 0..n /\ m <= m /\ m <= Top
    BY <1>1, <1>a, <1>12
  <2>2. Cardinality(DomainsOf(s, 1..m)) = m
    BY <1>1, <1>8, <2>1
  <2>3. DomainsOf(s, 1..m) = D
    <3>1. \A i \in 1..n : \E k \in 1..m : DomainOf[s[k]] = DomainOf[s[i]]
      <4> SUFFICES ASSUME NEW i \in 1..n PROVE \E k \in 1..m : DomainOf[s[k]] = DomainOf[s[i]]
        OBVIOUS
      <4>1. CASE i \in 1..m
        BY <4>1
      <4>2. CASE i \notin 1..m
        <5>1. PICK j \in 1..l : i = m + j
          BY <1>a, <4>2
        <5>2. s[i] = d[j] /\ d[j] \in ToSet(d)
          BY <1>a, <5>1 DEF ToSet
        <5>3. DomainIn(DomainOf[d[j]], r)
          BY <1>3, <1>12, <5>2
        <5> QED BY <1>a, <5>2, <5>3 DEF DomainIn
      <4> QED BY <4>1, <4>2
    <3>2. 1..m \subseteq 1..n
      BY <1>a
    <3> QED BY <3>1, <3>2 DEF DomainsOf
  <2>4. c = m
    BY <2>2, <2>3 DEF c
  <2>5. MinOf(Top, c) = m
    BY <1>1, <1>a, <1>12, <2>4 DEF MinOf
  <2>6. DomainsLead(s)
    BY <1>1, <1>a, <2>2, <2>5 DEF DomainsLead, c
  <2> QED BY <1>a, <1>3, <1>5, <1>6, <2>6 DEF Lists, s, r, d
<1> QED BY <1>1, <1>a, <1>11, <1>12

\* What holds after every pass: none of the candidates is lost, and the domains
\* of those that are deferred lead if there is room.
Passed(acc, X, covered) ==
  /\ PassingOK(acc) /\ All(acc) = X /\ Len(acc.result) \in Nat
  /\ covered /\ Len(acc.result) < Top => \A p \in ToSet(acc.deferred) : DomainIn(DomainOf[p], acc.result)

\* The passes of diversifyByDomain, one of which at least is made.
LEMMA PassesOK ==
  ASSUME NEW s, NEW X, Lists(s, X), Len(s) > Top
  PROVE  Lists(Passes(s), X) /\ DomainsLead(Passes(s))
<1> DEFINE n == Len(s)
           start == [result |-> <<>>, deferred |-> s]
           run(g) == g = [i \in 0..n |-> IF i = 0 THEN start ELSE Pass(g[i - 1])]
           after == CHOOSE g : run(g)
<1>1. n \in Nat /\ s \in Seq(Page) /\ Top \in Nat /\ n >= 1 /\ n \in 0..n
  <2>1. Len(s) \in Nat /\ Top \in Nat /\ s \in Seq(Page)
    BY ListLength, SearchAssumption DEF Lists
  <2> QED BY <2>1
<1>2. Passed(start, X, FALSE)
  <2>1. start \in Passing /\ start.result = <<>> /\ start.deferred = s
    BY <1>1, EmptySeq DEF Passing
  <2>2. ToSet(<<>>) = {} /\ IsInjective(<<>>) /\ LeadersApart(<<>>) /\ Len(<<>>) \in Nat
    BY EmptySeq DEF ToSet, IsInjective, LeadersApart
  <2> HIDE DEF start
  <2> QED BY <2>1, <2>2 DEF Passed, PassingOK, All, Lists
<1>3. \E g : run(g)
  <2> DEFINE A == {acc \in Passing : PassingOK(acc)}
             F == [x \in (1..n) \X A |-> Pass(x[2])]
  <2>1. F \in [(1..n) \X A -> A]
    <3> SUFFICES ASSUME NEW x \in (1..n) \X A PROVE Pass(x[2]) \in A
      OBVIOUS
    <3>1. PassingOK(x[2])
      OBVIOUS
    <3>2. PassingOK(Pass(x[2]))
      BY <3>1, PassOK
    <3> QED BY <3>2 DEF PassingOK
  <2>2. start \in A
    <3> HIDE DEF start
    <3> QED BY <1>2 DEF Passed, PassingOK
  <2> HIDE DEF n, start, A
  <2>3. PICK f : Iteration(f, n, A, start, F)
    <3> HIDE DEF F
    <3> QED BY <1>1, <2>1, <2>2, Iterated
  <2>4. ASSUME NEW i \in 1..n PROVE f[i] = Pass(f[i - 1])
    <3>1. f[i] = F[<<i, f[i - 1]>>] /\ f[i - 1] \in A
      <4>1. i - 1 \in 0..n
        BY <1>1
      <4> HIDE DEF F
      <4> QED BY <2>3, <4>1 DEF Iteration
    <3> QED BY <3>1
  <2> HIDE DEF F
  <2>5. f = [i \in 0..n |-> f[i]] /\ f[0] = start
    BY <2>3 DEF Iteration
  <2>6. \A i \in 0..n : i # 0 => i \in 1..n
    BY <1>1
  <2>7. \A i \in 0..n : f[i] = IF i = 0 THEN start ELSE Pass(f[i - 1])
    BY <2>4, <2>5, <2>6
  <2>8. run(f)
    BY <2>5, <2>7
  <2> QED BY <2>8
<1>4. run(after)
  <2> HIDE DEF run
  <2> QED BY <1>3
<1>5. Passes(s) = after[n].result \o after[n].deferred
  BY DEF Passes
<1> HIDE DEF after, n, start
<1>6. \A i \in 0..n : Passed(after[i], X, i # 0)
  <2> DEFINE T == {i \in 0..n : Passed(after[i], X, i # 0)}
  <2>1. 0 \in T
    <3>1. 0 \in 0..n /\ after[0] = start
      BY <1>1, <1>4
    <3>2. Passed(after[0], X, 0 # 0)
      BY <1>2, <3>1 DEF Passed
    <3> QED BY <3>1, <3>2
  <2>2. ASSUME NEW i \in 1..n, i - 1 \in T PROVE i \in T
    <3>1. i \in 0..n /\ i # 0 /\ Passed(after[i - 1], X, i - 1 # 0)
      BY <1>1, <2>2
    <3>2. after[i] = Pass(after[i - 1])
      BY <1>4, <3>1
    <3>3. Passed(Pass(after[i - 1]), X, TRUE)
      BY <3>1, PassOK DEF Passed
    <3> QED BY <3>1, <3>2, <3>3
  <2> HIDE DEF T
  <2>3. \A i \in 0..n : i \in T
    BY <1>1, <2>1, <2>2, UpTo
  <2> QED BY <2>3 DEF T
<1>7. Passed(after[n], X, TRUE)
  <2>1. n # 0
    BY <1>1
  <2> QED BY <1>1, <1>6, <2>1
<1> QED BY <1>5, <1>7, JoinOK DEF Passed

LEMMA DiversifyOK ==
  ASSUME NEW s, NEW X, Lists(s, X)
  PROVE  /\ Lists(Diversify(s), X)
         /\ Len(Diversify(s)) > Top => DomainsLead(Diversify(s))
<1>1. Len(s) \in Nat /\ Top \in Nat
  BY ListLength, SearchAssumption
<1>2. CASE Len(s) <= Top
  BY <1>1, <1>2 DEF Diversify
<1>3. CASE ~(Len(s) <= Top)
  BY <1>1, <1>3, PassesOK DEF Diversify
<1> QED BY <1>2, <1>3

\* What a request without a domain keeps of a list are the pages of its schema.
LEMMA RankedOK ==
  ASSUME NEW P, PoolOK(P), NEW r \in Request, NEW m \in Stats, NEW nav \in BOOLEAN
  PROVE  /\ Ranked(P, r, m, nav) \in Seq(Page)
         /\ r.domain = None =>
              /\ Lists(Ranked(P, r, m, nav), {p \in Ids(P) : r.schema \in {None, SchemaOf[p]}})
              /\ Len(Ranked(P, r, m, nav)) > Top => DomainsLead(Ranked(P, r, m, nav))
<1> DEFINE reranked == Rerank(P, r, m, nav)
           s == IF r.lang = None THEN reranked ELSE PromoteLanguage(reranked, r.lang)
           I == {i \in DOMAIN s : r.domain \in {None, DomainOf[s[i]]} /\ r.schema \in {None, SchemaOf[s[i]]}}
           kept == Kept(s, I)
<1>1. Lists(s, Ids(P))
  <2>1. Lists(reranked, Ids(P))
    BY RerankLists
  <2> HIDE DEF reranked
  <2> QED BY <2>1, PromoteLists
<1>2. Ranked(P, r, m, nav) = IF r.domain = None THEN Diversify(kept) ELSE kept
  BY DEF Ranked, FilterAndDiversify
<1> HIDE DEF s
<1>3. Lists(kept, At(s, I))
  <2>1. I \in SUBSET (DOMAIN s)
    OBVIOUS
  <2> HIDE DEF I
  <2> QED BY <1>1, <2>1, KeptLists
<1>4. r.domain = None => At(s, I) = {p \in Ids(P) : r.schema \in {None, SchemaOf[p]}}
  BY <1>1 DEF At, Lists, ToSet
<1> HIDE DEF kept, I
<1>5. Lists(Diversify(kept), At(s, I)) /\ (Len(Diversify(kept)) > Top => DomainsLead(Diversify(kept)))
  BY <1>3, DiversifyOK
<1> QED BY <1>2, <1>3, <1>4, <1>5 DEF Lists

-----------------------------------------------------------------------------
(* Search: the answers.                                                    *)

Fits(answer) == answer # None => Len(answer.results) <= answer.total

LEMMA AnswerFits ==
  ASSUME NEW P, PoolOK(P), NEW n \in Nat, NEW r \in Request, NEW m \in Stats, NEW nav \in BOOLEAN
  PROVE  Fits(Answer(P, n, r, m, nav))
<1> DEFINE s == Ranked(P, r, m, nav)
           first == r.offset + 1
           last == MinOf(r.offset + r.limit, Len(s))
           page == SubSeq(s, first, last)
<1>1. s \in Seq(Page)
  BY RankedOK
<1>2. Len(s) \in Nat /\ r.offset \in Nat /\ r.limit \in Nat
  BY <1>1, LenProperties, SearchAssumption
<1> HIDE DEF s
<1>3. first \in Nat /\ first >= 1 /\ last \in Nat /\ last <= Len(s)
  BY <1>2 DEF MinOf
<1> HIDE DEF first, last
<1>4. Len(page) \in Nat /\ Len(page) <= Len(s)
  <2>1. CASE first <= last
    <3>1. \A i \in first..last : s[i] \in Page
      BY <1>1, <1>2, <1>3, ElementOfSeq
    <3>2. first \in Int /\ last \in Int
      BY <1>3
    <3>3. Len(page) = (last - first) + 1
      BY <1>1, <1>2, <1>3, <2>1, <3>1, <3>2, SubSeqProperties
    <3> QED BY <1>2, <1>3, <2>1, <3>3
  <2>2. CASE ~(first <= last)
    <3>1. page = <<>>
      BY <1>2, <1>3, <2>2, SubSeqProperties
    <3> QED BY <1>2, <3>1
  <2> QED BY <2>1, <2>2
<1>5. /\ Answer(P, n, r, m, nav).results = page
      /\ Answer(P, n, r, m, nav).total = IF r.domain # None \/ r.schema # None \/ n < Len(s) THEN Len(s) ELSE n
  BY DEF Answer, s, first, last
<1> HIDE DEF page
<1> QED BY <1>2, <1>4, <1>5 DEF Fits

-----------------------------------------------------------------------------
(* Search: the ranking of whatever was retrieved.                          *)

\* Every answer, returned or cached, shows no more results than it counts.
AnswersFit ==
  /\ DOMAIN cache = Keys /\ DOMAIN out = Client
  /\ \A k \in Keys : Fits(cache[k])
  /\ \A c \in Client : Fits(out[c])

LEMMA FitInit == SearchInit => AnswersFit
BY DEF SearchInit, AnswersFit, Fits

LEMMA FitFinish ==
  ASSUME SearchInv, AnswersFit, NEW c \in Client, NEW kept, Finish(c, kept)
  PROVE  AnswersFit'
<1> DEFINE r == req[c]
           answer == Answer(pool[c], total[c], r, stats[c], intent[c])
<1>1. r \in Request /\ PoolOK(pool[c]) /\ total[c] \in Nat /\ stats[c] \in Stats /\ intent[c] \in BOOLEAN
  BY DEF Finish, SearchInv, SearchOK, ClientInv
<1>2. Fits(answer)
  BY <1>1, AnswerFits
<1>3. Key(r) \in Keys
  BY <1>1 DEF Keys
<1> HIDE DEF answer
<1>4. cache' = cache \/ cache' = [cache EXCEPT ![Key(r)] = answer]
  BY DEF Finish, answer
<1>5. out' = [out EXCEPT ![c] = None] \/ out' = [out EXCEPT ![c] = answer]
  BY DEF Finish, answer
<1>6. DOMAIN cache' = Keys /\ \A k \in Keys : Fits(cache[k])'
  BY <1>2, <1>3, <1>4 DEF AnswersFit, Fits
<1>7. DOMAIN out' = Client /\ \A d \in Client : Fits(out[d])'
  BY <1>2, <1>5 DEF AnswersFit, Fits
<1> QED BY <1>6, <1>7 DEF AnswersFit

\* What leaves both alone.
LEMMA FitKept == AnswersFit /\ UNCHANGED <<cache, out>> => AnswersFit'
BY DEF AnswersFit, Fits

LEMMA FitNext == SearchInv /\ AnswersFit /\ [SearchNext]_searchState => AnswersFit'
<1> SUFFICES ASSUME SearchInv, AnswersFit, [SearchNext]_searchState PROVE AnswersFit'
  OBVIOUS
<1>1. ASSUME NEW c \in Client, SearchStep(c) \/ Timeout(c) PROVE AnswersFit'
  <2>1. CASE PlansDone(c) \/ PlanRows(c) \/ PlanTimeout(c) \/ PlanError(c) \/ Timeout(c)
    <3>1. UNCHANGED <<cache, out>>
      BY <2>1 DEF PlansDone, PlanRows, PlanTimeout, PlanError, Timeout
    <3> QED BY <3>1, FitKept
  <2>2. CASE Leave(c)
    BY <2>2 DEF Leave, AnswersFit, Fits
  <2>3. ASSUME NEW ok \in BOOLEAN, Lookup(c, ok) \/ CountRows(c, ok) PROVE AnswersFit'
    <3>1. UNCHANGED <<cache, out>>
      BY <2>3 DEF Lookup, AskWord, FindDomain, CountDocs, LoadIDF, CountRows
    <3> QED BY <3>1, FitKept
  <2>4. ASSUME NEW ok \in BOOLEAN, RecentRows(c, ok) \/ DiverseRows(c, ok) \/ NavRows(c, ok)
        PROVE  AnswersFit'
    <3>1. UNCHANGED <<cache, out>>
      BY <2>4 DEF RecentRows, DiverseRows, NavRows, Extra
    <3> QED BY <3>1, FitKept
  <2>5. ASSUME NEW ok \in BOOLEAN, Finish(c, ok) PROVE AnswersFit'
    BY <2>5, FitFinish
  <2> QED BY <1>1, <2>1, <2>2, <2>3, <2>4, <2>5 DEF SearchStep
<1>2. ASSUME NEW c \in Client, NEW r \in Request, Hit(c, r) PROVE AnswersFit'
  <2>1. Key(r) \in Keys
    BY DEF Keys
  <2>2. cache' = cache /\ out' = [out EXCEPT ![c] = cache[Key(r)]]
    BY <1>2 DEF Hit
  <2> QED BY <2>1, <2>2 DEF AnswersFit, Fits
<1>3. ASSUME NEW c \in Client, NEW r \in Request, Miss(c, r) PROVE AnswersFit'
  <2>1. UNCHANGED <<cache, out>>
    BY <1>3 DEF Miss
  <2> QED BY <2>1, FitKept
<1>4. ASSUME \/ \E p \in Page : Store(p)
             \/ \E p \in Recrawled : Rewrite(p)
             \/ \E t \in Text, p \in Clickable : RecordClick(t, p)
      PROVE  AnswersFit'
  <2>1. UNCHANGED <<cache, out>>
    BY <1>4 DEF Store, Rewrite, RecordClick, Written
  <2> QED BY <2>1, FitKept
<1>5. ASSUME NEW k \in Keys, ExpireAnswer(k) PROVE AnswersFit'
  BY <1>5 DEF ExpireAnswer, searchVars, AnswersFit, Fits
<1>6. ASSUME (\E t \in Text : ExpireWord(t) \/ ExpireIDF(t)) \/ UNCHANGED searchState PROVE AnswersFit'
  <2>1. UNCHANGED <<cache, out>>
    BY <1>6 DEF ExpireWord, ExpireIDF, searchVars, searchState
  <2> QED BY <2>1, FitKept
<1> QED BY <1>1, <1>2, <1>3, <1>4, <1>5, <1>6 DEF SearchNext

LEMMA FitInvariant == SearchSpec => []AnswersFit
<1>1. SearchInit => AnswersFit
  BY FitInit
<1>2. SearchInv /\ AnswersFit /\ [SearchNext]_searchState => AnswersFit'
  BY FitNext
<1> QED BY <1>1, <1>2, SearchInvariant, PTL DEF SearchSpec

\* Ranking, promotion by language, the filters and the passes of
\* diversifyByDomain keep every candidate the request asks for, once, and lead
\* with as many domains as there are (up to Top), for whatever was retrieved; no
\* answer shows more results than its total.
THEOREM RankingIsSound == SearchSpec => []RankingSound
<1>1. ASSUME SearchInv, AnswersFit PROVE RankingSound
  <2>1. \A c \in Client : out[c] # None => Len(out[c].results) <= out[c].total
    BY <1>1 DEF AnswersFit, Fits
  <2>2. ASSUME NEW c \in Client, Computed(c), req[c].domain = None
        PROVE  LET s == Ranked(pool[c], req[c], stats[c], intent[c])
                   D == {DomainOf[s[i]] : i \in DOMAIN s}
                   n == MinOf(Top, Cardinality(D)) IN
               /\ IsInjective(s)
               /\ ToSet(s) = {p \in Ids(pool[c]) : req[c].schema \in {None, SchemaOf[p]}}
               /\ Len(s) > Top => Cardinality({DomainOf[s[i]] : i \in 1..n}) = n
    <3> DEFINE s == Ranked(pool[c], req[c], stats[c], intent[c])
    <3>1. PoolOK(pool[c]) /\ req[c] \in Request /\ stats[c] \in Stats /\ intent[c] \in BOOLEAN
      BY <1>1, <2>2, Searching DEF SearchInv, SearchOK, Computed
    <3>2. /\ Lists(s, {p \in Ids(pool[c]) : req[c].schema \in {None, SchemaOf[p]}})
          /\ Len(s) > Top => DomainsLead(s)
      BY <2>2, <3>1, RankedOK
    <3> HIDE DEF s
    <3> QED BY <3>2 DEF Lists, DomainsLead, DomainsOf, s
  <2> QED BY <2>1, <2>2 DEF RankingSound
<1> QED BY <1>1, SearchInvariant, FitInvariant, PTL
=============================================================================

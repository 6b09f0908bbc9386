------------------------------ MODULE PageStore ------------------------------
(***************************************************************************)
(* How crawled and ingested pages reach the databases: the BatchWriter of  *)
(* internal/storage/batchwriter.go, which workers fill and a flush empties,*)
(* IngestPage, which writes past it, and the purge of blacklisted domains  *)
(* at startup.  Pages and images live in content.db, links in graph.db:    *)
(* two files, two transactions, one commit after the other.                *)
(*                                                                         *)
(* A version number stands for what one crawl or ingest of a URL found.    *)
(* One row of `links` stands for all links of one version: they are        *)
(* written and deleted together.  A SQLite statement or commit may fail,   *)
(* and the process may be killed between any two steps; what is committed  *)
(* survives, what is buffered does not.                                    *)
(***************************************************************************)
EXTENDS Integers, Sequences, FiniteSets, SequencesExt

CONSTANTS
  Url,          \* canonical page URLs
  Image,        \* image URLs; several pages may show the same image
  NoUrl,        \* the page of an image that is not stored or buffered
  MaxVersions,  \* bound: crawls and ingests
  MaxFails,     \* bound: SQLite errors (they are transient)
  MaxStarts     \* bound: starts of the process

ASSUME StoreAssumption ==
  /\ NoUrl \notin Url
  /\ MaxVersions \in Nat /\ MaxFails \in Nat /\ MaxStarts \in Nat

VARIABLES
  pages,      \* content.db: per URL, row ID (0: no row) and version
  lastID,     \* content.db: AUTOINCREMENT's counter
  images,     \* content.db: per image, page_url and page_id
  links,      \* graph.db: rows [source, owner, ver]; the owner is not stored
  bufPages,   \* BatchWriter.pages
  bufLinks,   \* BatchWriter.links
  bufImages,  \* BatchWriter.images: per image, the last page_url buffered
  flush,      \* the flush holding bw.mu: its place and its transaction
  writing,    \* workers inside persistParsedPage: what they have yet to write
  ingesting,  \* IngestPage calls that have yet to store their links
  phase,      \* the process: "down", purging, "purged" or "run"
  banned,     \* URLs of the domains now blacklisted, each its own domain
  purging,    \* banned URLs the purge has not dealt with, the present one first
  ver, fails, starts,      \* counters of the bounds
  owedPages, owedLinks,    \* history: accepted since the start and not failed
  applied, replaced        \* history: page versions committed, link sets deleted

content == <<pages, lastID, images>>
buffers == <<bufPages, bufLinks, bufImages>>
calls   == <<writing, ingesting>>
process == <<phase, banned, purging, starts>>
history == <<owedPages, owedLinks, applied, replaced>>
vars == <<content, links, buffers, flush, calls, process, ver, fails, history>>

Row == [id : Nat, ver : Nat]
Version == [url : Url, ver : Nat]
Picture == [page : Url \cup {NoUrl}, id : Nat]
LinkRow == [source : Nat, owner : Url, ver : Nat]

NoFlush == [step |-> "idle", todo |-> <<>>, pages |-> [u \in Url |-> [id |-> 0, ver |-> 0]],
            lastID |-> 0, done |-> {}, bad |-> {}]

NoImages == [i \in Image |-> NoUrl]

Unlocked == flush.step = "idle"
Fails == fails < MaxFails /\ fails' = fails + 1

-----------------------------------------------------------------------------
(* persistParsedPage: three calls, each taking bw.mu for itself.  The      *)
(* flush a call makes when a buffer is full is BeginFlush.                 *)

\* Mutant: the page is appended without bw.mu.
BugWritePageUnlocked(u) ==
  LET v == [url |-> u, ver |-> ver + 1] IN
  /\ phase = "run" /\ u \notin banned /\ ver < MaxVersions
  /\ ver' = ver + 1
  /\ bufPages' = Append(bufPages, v)
  /\ owedPages' = owedPages \cup {v}
  /\ writing' = writing \cup {[page |-> v, next |-> "links"]}
  /\ UNCHANGED <<content, links, bufLinks, bufImages, flush, ingesting, process,
                 fails, owedLinks, applied, replaced>>

\* A worker of the engine, which skips blacklisted domains.
WritePage(u) ==
  LET v == [url |-> u, ver |-> ver + 1] IN
  /\ phase = "run" /\ Unlocked /\ u \notin banned /\ ver < MaxVersions
  /\ ver' = ver + 1
  /\ bufPages' = Append(bufPages, v)
  /\ owedPages' = owedPages \cup {v}
  /\ writing' = writing \cup {[page |-> v, next |-> "links"]}
  /\ UNCHANGED <<content, links, bufLinks, bufImages, flush, ingesting, process,
                 fails, owedLinks, applied, replaced>>

\* Mutant: the images of the page are forgotten.
BugProceedToEnd(w) == writing' = (writing \ {w}) \cup {[w EXCEPT !.next = "end"]}

\* The links are dealt with, the images come next.
Proceed(w) == writing' = (writing \ {w}) \cup {[w EXCEPT !.next = "images"]}

\* WriteLinks returns at once when there are none.
WriteLinks(w, some) ==
  /\ w \in writing /\ w.next = "links"
  /\ Proceed(w)
  /\ IF some
     THEN /\ Unlocked
          /\ bufLinks' = bufLinks \cup {w.page}
          /\ owedLinks' = owedLinks \cup {w.page}
     ELSE UNCHANGED <<bufLinks, owedLinks>>
  /\ UNCHANGED <<content, links, bufPages, bufImages, flush, ingesting, process,
                 ver, fails, owedPages, applied, replaced>>

\* WriteImages, and the end of the worker's part.
WriteImages(w, some) ==
  /\ w \in writing /\ w.next = "images"
  /\ writing' = writing \ {w}
  /\ some # {} => Unlocked
  /\ bufImages' = [i \in Image |-> IF i \in some THEN w.page.url ELSE bufImages[i]]
  /\ UNCHANGED <<content, links, bufPages, bufLinks, flush, ingesting, process,
                 ver, fails, history>>

-----------------------------------------------------------------------------
(* flushLocked, from the ticker, a full buffer or Engine.Stop.  bw.mu and  *)
(* the only write connection of content.db are held to its end.            *)

\* Mutant: `||` for `&&` in the test for empty buffers.
BugBeginFlushIfAll ==
  /\ phase = "run" /\ Unlocked
  /\ bufPages # <<>> /\ bufLinks # {} /\ bufImages # NoImages
  /\ flush' = [step |-> "pages", todo |-> bufPages, pages |-> pages,
               lastID |-> lastID, done |-> {}, bad |-> {}]
  /\ UNCHANGED <<content, links, buffers, calls, process, ver, fails, history>>

\* There is something to write, and a transaction on content.db begins.
BeginFlush ==
  /\ phase = "run" /\ Unlocked
  /\ bufPages # <<>> \/ bufLinks # {} \/ bufImages # NoImages
  /\ flush' = [step |-> "pages", todo |-> bufPages, pages |-> pages,
               lastID |-> lastID, done |-> {}, bad |-> {}]
  /\ UNCHANGED <<content, links, buffers, calls, process, ver, fails, history>>

\* INSERT ... ON CONFLICT(url) DO UPDATE: the row keeps its ID.
Upsert(tab, last, v) ==
  [tab EXCEPT ![v.url] = [id |-> IF @.id = 0 THEN last + 1 ELSE @.id, ver |-> v.ver]]

NextID(tab, last, v) == IF tab[v.url].id = 0 THEN last + 1 ELSE last

FlushPage ==
  LET v == Head(flush.todo) IN
  /\ flush.step = "pages" /\ flush.todo # <<>>
  /\ flush' = [flush EXCEPT !.todo = Tail(@), !.done = @ \cup {v},
                 !.pages = Upsert(@, flush.lastID, v),
                 !.lastID = NextID(flush.pages, @, v)]
  /\ UNCHANGED <<content, links, buffers, calls, process, ver, fails, history>>

\* `batch upsert page failed`: a warning, and the loop goes on.
FlushPageFails ==
  /\ flush.step = "pages" /\ flush.todo # <<>> /\ Fails
  /\ flush' = [flush EXCEPT !.todo = Tail(@), !.bad = @ \cup {Head(flush.todo)}]
  /\ UNCHANGED <<content, links, buffers, calls, process, ver, history>>

\* Mutant: only the pages of this batch have an ID.
BugSourceIDBatchOnly(u) ==
  IF \E v \in flush.done : v.url = u THEN flush.pages[u].id ELSE 0

\* urlToID, and the query for a page that is not in this batch.
SourceID(u) == flush.pages[u].id

\* Links whose page has no row are skipped with a warning.
Resolved == {l \in bufLinks : SourceID(l.url) # 0}

\* DELETE FROM links WHERE source_id = ?, then the inserts.
Relink(rows, ids, new) == {r \in rows : r.source \notin ids} \cup new

\* The graph transaction, committed here.
FlushLinks ==
  LET ids == {SourceID(l.url) : l \in Resolved}
      new == {[source |-> SourceID(l.url), owner |-> l.url, ver |-> l.ver] : l \in Resolved}
  IN
  /\ flush.step = "pages" /\ flush.todo = <<>>
  /\ links' = Relink(links, ids, new)
  /\ replaced' = replaced \cup {[url |-> r.owner, ver |-> r.ver] :
                                r \in {q \in links : q.source = SourceID(q.owner) /\ q.source \in ids}}
  /\ flush' = [flush EXCEPT !.step = "commit"]
  /\ UNCHANGED <<content, buffers, calls, process, ver, fails, owedPages, owedLinks, applied>>

\* An error that ends the flush: the content transaction is rolled back, the
\* buffers are kept for the next one.
FlushFails ==
  /\ flush.step \in {"pages", "commit"} /\ flush.todo = <<>> /\ Fails
  /\ flush' = NoFlush
  /\ UNCHANGED <<content, links, buffers, calls, process, ver, history>>

ClearBuffers ==
  bufPages' = <<>> /\ bufLinks' = {} /\ bufImages' = NoImages

\* Mutant: the ID of the last row inserted.
BugImageLastInsertID(u) == flush.lastID

\* An image's page_id, looked up like the source of a link.
ImagePageID(u) == SourceID(u)

\* The images are upserted and the content transaction commits.
CommitContent ==
  /\ flush.step = "commit"
  /\ pages' = flush.pages /\ lastID' = flush.lastID
  /\ images' = [i \in Image |-> IF bufImages[i] = NoUrl THEN images[i]
                                ELSE [page |-> bufImages[i], id |-> ImagePageID(bufImages[i])]]
  /\ applied' = applied \cup flush.done
  /\ owedPages' = owedPages \ flush.bad
  /\ owedLinks' = owedLinks \ {l \in bufLinks : flush.pages[l.url].id = 0}
  /\ ClearBuffers
  /\ flush' = NoFlush
  /\ UNCHANGED <<links, calls, process, ver, fails, replaced>>

-----------------------------------------------------------------------------
(* IngestPage: a page from the browser extension, straight to the database.*)
(* Blacklisted domains are not refused.                                    *)

\* UpsertPage, one statement on the write connection a flush would hold.
IngestUpsert(u) ==
  LET v == [url |-> u, ver |-> ver + 1] IN
  /\ phase = "run" /\ Unlocked /\ ver < MaxVersions
  /\ ver' = ver + 1
  /\ pages' = Upsert(pages, lastID, v)
  /\ lastID' = NextID(pages, lastID, v)
  /\ applied' = applied \cup {v}
  /\ ingesting' = ingesting \cup {v}
  /\ UNCHANGED <<images, links, buffers, flush, writing, process, fails,
                 owedPages, owedLinks, replaced>>

\* GetPageByURL and StoreLinks, when the extension sent any.
StoreLinks(v, some) ==
  LET id == pages[v.url].id IN
  /\ v \in ingesting /\ ingesting' = ingesting \ {v}
  /\ IF some
     THEN /\ links' = Relink(links, {id}, {[source |-> id, owner |-> v.url, ver |-> v.ver]})
          /\ replaced' = replaced \cup {[url |-> v.url, ver |-> r.ver] :
                                        r \in {q \in links : q.source = id /\ q.owner = v.url}}
     ELSE UNCHANGED <<links, replaced>>
  /\ UNCHANGED <<content, buffers, flush, writing, process, ver, fails,
                 owedPages, owedLinks, applied>>

-----------------------------------------------------------------------------
(* The process: a kill or a shutdown, and the purge at the next start.     *)

\* What is only in memory is gone.
Crash ==
  /\ phase # "down"
  /\ phase' = "down"
  /\ ClearBuffers
  /\ flush' = NoFlush /\ writing' = {} /\ ingesting' = {} /\ purging' = <<>>
  /\ owedPages' = {} /\ owedLinks' = {}
  /\ UNCHANGED <<content, links, banned, starts, ver, fails, applied, replaced>>

\* The process starts; its configuration may name other domains than before.
\* They are purged one after the other, in the order a Go map gives them.
Boot(order) ==
  /\ phase = "down" /\ starts < MaxStarts
  /\ starts' = starts + 1
  /\ banned' = Range(order) /\ purging' = order
  /\ phase' = IF order = <<>> THEN "run" ELSE "purge images"
  /\ UNCHANGED <<content, links, buffers, flush, calls, ver, fails, history>>

\* purgeDomainFromContentDB: images go before pages.
PurgeImages ==
  /\ phase = "purge images" /\ phase' = "purge pages"
  /\ images' = [i \in Image |-> IF images[i].page = Head(purging)
                                THEN [page |-> NoUrl, id |-> 0] ELSE images[i]]
  /\ UNCHANGED <<pages, lastID, links, buffers, flush, calls, banned, purging,
                 starts, ver, fails, history>>

\* The IDs are not given out again: the counter stays.
PurgePages ==
  /\ phase = "purge pages" /\ phase' = "purge links"
  /\ pages' = [pages EXCEPT ![Head(purging)] = [id |-> 0, ver |-> 0]]
  /\ UNCHANGED <<lastID, images, links, buffers, flush, calls, banned, purging,
                 starts, ver, fails, history>>

\* purgeDomainFromGraphDB looks the page IDs up in content.db.
PurgeLinks ==
  /\ phase = "purge links"
  /\ links' = Relink(links, {pages[Head(purging)].id} \ {0}, {})
  /\ purging' = Tail(purging)
  /\ phase' = IF Len(purging) = 1 THEN "purged" ELSE "purge images"
  /\ UNCHANGED <<content, buffers, flush, calls, banned, starts, ver, fails, history>>

\* An error ends the purge; the engine starts all the same.
PurgeFails ==
  /\ phase \in {"purge images", "purge pages", "purge links"} /\ Fails
  /\ phase' = "run" /\ purging' = <<>>
  /\ UNCHANGED <<content, links, buffers, flush, calls, banned, starts, ver, history>>

Run ==
  /\ phase = "purged" /\ phase' = "run"
  /\ UNCHANGED <<content, links, buffers, flush, calls, banned, purging, starts,
                 ver, fails, history>>

-----------------------------------------------------------------------------
Init ==
  /\ pages = [u \in Url |-> [id |-> 0, ver |-> 0]] /\ lastID = 0
  /\ images = [i \in Image |-> [page |-> NoUrl, id |-> 0]]
  /\ links = {}
  /\ bufPages = <<>> /\ bufLinks = {} /\ bufImages = NoImages
  /\ flush = NoFlush /\ writing = {} /\ ingesting = {}
  /\ phase = "down" /\ banned = {} /\ purging = <<>> /\ starts = 0
  /\ ver = 0 /\ fails = 0
  /\ owedPages = {} /\ owedLinks = {} /\ applied = {} /\ replaced = {}

WorkerStep ==
  \/ \E u \in Url : WritePage(u)
  \/ \E w \in writing, some \in BOOLEAN : WriteLinks(w, some)
  \/ \E w \in writing, some \in SUBSET Image : WriteImages(w, some)

FlushStep ==
  BeginFlush \/ FlushPage \/ FlushPageFails \/ FlushLinks \/ FlushFails \/ CommitContent

IngestStep ==
  \/ \E u \in Url : IngestUpsert(u)
  \/ \E v \in ingesting, some \in BOOLEAN : StoreLinks(v, some)

StartStep ==
  \/ \E bs \in SUBSET Url : IsFiniteSet(bs) /\ \E order \in SetToSeqs(bs) : Boot(order)
  \/ PurgeImages \/ PurgePages \/ PurgeLinks \/ PurgeFails \/ Run

Next == WorkerStep \/ FlushStep \/ IngestStep \/ StartStep \/ Crash

Spec == Init /\ [][Next]_vars

\* The ticker calls Flush every two seconds and a flush comes to an end;
\* errors are transient (MaxFails).
FairSpec == Spec /\ WF_vars(FlushStep)

-----------------------------------------------------------------------------
(* Properties.                                                             *)

Buffered(v) == \E k \in 1..Len(bufPages) : bufPages[k] = v

\* The type of the state.
TypeOK ==
  /\ pages \in [Url -> Row] /\ lastID \in Nat
  /\ images \in [Image -> Picture] /\ links \subseteq LinkRow
  /\ bufPages \in Seq(Version) /\ bufLinks \subseteq Version
  /\ bufImages \in [Image -> Url \cup {NoUrl}]
  /\ flush \in [step : {"idle", "pages", "commit"}, todo : Seq(Version),
                pages : [Url -> Row], lastID : Nat,
                done : SUBSET Version, bad : SUBSET Version]
  /\ writing \subseteq [page : Version, next : {"links", "images"}]
  /\ ingesting \subseteq Version
  /\ phase \in {"down", "purge images", "purge pages", "purge links", "purged", "run"}
  /\ banned \subseteq Url /\ purging \in Seq(Url) /\ starts \in Nat /\ ver \in Nat /\ fails \in Nat
  /\ owedPages \subseteq Version /\ owedLinks \subseteq Version
  /\ applied \subseteq Version /\ replaced \subseteq Version

\* A page handed to WritePage is buffered until a transaction with it has
\* committed, whatever flushes fail and whoever writes meanwhile; only a
\* killed process or an error SQLite reports for that page loses it.
NoPageLost == \A v \in owedPages : Buffered(v) \/ v \in applied

\* Links handed to WriteLinks are buffered, or in graph.db under the ID the
\* page has in content.db, or were replaced by later links of that page: also
\* when the page itself was flushed before, or a first attempt was rolled back
\* and the page got another ID in the second.
LinksComplete ==
  \A l \in owedLinks :
    \/ l \in bufLinks \/ l \in replaced
    \/ pages[l.url].id # 0 /\ [source |-> pages[l.url].id, owner |-> l.url, ver |-> l.ver] \in links

\* No two pages share an ID and an image never points to another page than
\* the one it was found on, across rollbacks, ingests, purges and restarts.
ImagesBelong ==
  \A u \in Url : pages[u].id # 0 =>
    /\ \A v \in Url : pages[v].id = pages[u].id => v = u
    /\ \A i \in Image : images[i].id = pages[u].id => images[i].page = u

\* A buffered page is committed in the end, although flushes may fail.
PagesStored ==
  \A n \in 1..MaxVersions :
    (\E v \in owedPages : v.ver = n) ~>
      (phase = "down" \/ (\E v \in applied : v.ver = n) \/ \A v \in owedPages : v.ver # n)

\* batchwriter.go:412: a failed flush can be repeated because "writes are
\* idempotent thanks to ON CONFLICT clauses".  So once an ingest is over the
\* links in graph.db under a page's ID are that page's.
LinksBelong ==
  ingesting = {} => \A r \in links, u \in Url : pages[u].id = r.source => r.owner = u
=============================================================================

------------------------------- MODULE JobPool -------------------------------
(***************************************************************************)
(* What the crawler's in-memory queue promises, without mutexes, sorted    *)
(* slices or waiting: a set of pending jobs, the keys that the             *)
(* deduplicating operations refuse, and a counter of job IDs.              *)
(*                                                                         *)
(*   - a deduplicated admission needs a key that was never refused before; *)
(*   - a retry or a direct injection is always admitted;                   *)
(*   - the job handed to a worker is the best one of its domain: highest   *)
(*     score, and among equal scores the one admitted first.               *)
(*                                                                         *)
(* CrawlQueue implements this specification.                               *)
(***************************************************************************)
EXTENDS Integers

CONSTANTS
  Url,         \* canonical URLs
  Score,       \* scores the scorer may give, a set of integers
  DomainOf,    \* the domain of a URL
  KeyOf        \* the deduplication key of a URL

VARIABLES pending, seen, lastID

poolVars == <<pending, seen, lastID>>

PoolJob == [id : Nat, url : Url, score : Score]

PoolInit == pending = {} /\ seen = {} /\ lastID = 0

\* a goes before b when both wait in the same domain.
Before(a, b) == a.score > b.score \/ (a.score = b.score /\ a.id < b.id)

NewJob(u, s) == [id |-> lastID + 1, url |-> u, score |-> s]

\* The seen keys only grow; a Bloom filter may grow by more than it was told.
Remember(k) == seen \cup {k} \subseteq seen'

Admit(u, s) ==
  /\ KeyOf[u] \notin seen
  /\ Remember(KeyOf[u])
  /\ pending' = pending \cup {NewJob(u, s)}
  /\ lastID' = lastID + 1

Readmit(u, s) ==
  /\ pending' = pending \cup {NewJob(u, s)}
  /\ lastID' = lastID + 1
  /\ UNCHANGED seen

MarkAsSeen(k) == Remember(k) /\ UNCHANGED <<pending, lastID>>

Take(j) ==
  /\ j \in pending
  /\ \A k \in pending \ {j} : DomainOf[k.url] = DomainOf[j.url] => Before(j, k)
  /\ pending' = pending \ {j}
  /\ UNCHANGED <<seen, lastID>>

PoolNext ==
  \/ \E u \in Url, s \in Score : Admit(u, s) \/ Readmit(u, s)
  \/ \E u \in Url : MarkAsSeen(KeyOf[u])
  \/ \E j \in pending : Take(j)

PoolSpec == PoolInit /\ [][PoolNext]_poolVars
=============================================================================

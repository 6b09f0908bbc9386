------------------------------ MODULE DNSCache ------------------------------
(* The DNS cache of a direct connection (internal/crawler/dnscache.go).      *)
(* Entries are objects: a worker keeps the one it found, and the mutex in    *)
(* it, while the janitor may take it out of the map.  The fast path reads    *)
(* expires without a lock; it sees the value before or after a concurrent    *)
(* write, and the address list is written first.                             *)
EXTENDS FetchWorkers

CONSTANTS
  Entry,      \* dnsEntry objects
  NoEntry

\* There are enough objects for one to be unused whenever a new one is made.
ASSUME DNSAssumption ==
  /\ NoEntry \notin Entry
  /\ IsFiniteSet(Worker) /\ IsFiniteSet(Domain) /\ IsFiniteSet(Entry)
  /\ Cardinality(Entry) >= Cardinality(Worker) + Cardinality(Domain)

VARIABLES
  entries,     \* DNSCache.entries
  valid,       \* the objects with addresses that have not expired
  lookupMu,    \* per object: the holder of lookupMu
  found,       \* per worker: the object it looks at
  janitor,     \* the janitor runs
  pruned       \* history: the objects the janitor has taken out of the map

dnsVars == <<entries, valid, lookupMu, found, janitor, pruned>>

DNSOK ==
  /\ entries \in [Domain -> Entry \cup {NoEntry}]
  /\ valid \subseteq Entry
  /\ lookupMu \in [Entry -> Worker \cup {NoWorker}]
  /\ found \in [Worker -> Entry \cup {NoEntry}]
  /\ janitor \in BOOLEAN /\ pruned \subseteq Entry

DNSInit ==
  /\ entries = [h \in Domain |-> NoEntry]
  /\ valid = {}
  /\ lookupMu = [e \in Entry |-> NoWorker]
  /\ found = [w \in Worker |-> NoEntry]
  /\ janitor = TRUE /\ pruned = {}

\* An object nobody refers to any more is as good as a new one.
Unused(e) == (\A h \in Domain : entries[h] # e) /\ (\A w \in Worker : found[w] # e)

\* Lookup: the fast path.
LookupFast(w) ==
  /\ pc[w] = "lookup"
  /\ LET e == entries[job[w]] IN
       IF e = NoEntry THEN Goto(w, "dnsEntry") /\ UNCHANGED found
       ELSE IF e \in valid THEN Goto(w, "request") /\ UNCHANGED found
       ELSE Goto(w, "dnsLock") /\ found' = [found EXCEPT ![w] = e]
  /\ UNCHANGED <<job, entries, valid, lookupMu, janitor, pruned>>

\* Mutant: Lookup puts its new entry into the map without a second look.
BugEntryNoSecondLook(w) ==
  /\ pc[w] = "dnsEntry" /\ Goto(w, "dnsLock")
  /\ LET e == CHOOSE o \in Entry : Unused(o) IN
     /\ entries' = [entries EXCEPT ![job[w]] = e]
     /\ found' = [found EXCEPT ![w] = e]
     /\ valid' = valid \ {e} /\ pruned' = pruned \ {e}
  /\ UNCHANGED <<job, lookupMu, janitor>>

\* The write lock, the second look, and a new entry if there is still none.
LookupEntry(w) ==
  /\ pc[w] = "dnsEntry" /\ Goto(w, "dnsLock")
  /\ IF entries[job[w]] # NoEntry
     THEN /\ found' = [found EXCEPT ![w] = entries[job[w]]]
          /\ UNCHANGED <<entries, valid, pruned>>
     ELSE LET e == CHOOSE o \in Entry : Unused(o) IN
          /\ entries' = [entries EXCEPT ![job[w]] = e]
          /\ found' = [found EXCEPT ![w] = e]
          /\ valid' = valid \ {e} /\ pruned' = pruned \ {e}
  /\ UNCHANGED <<job, lookupMu, janitor>>

\* lookupMu and the double check.
LookupLock(w) ==
  /\ pc[w] = "dnsLock" /\ lookupMu[found[w]] = NoWorker
  /\ IF found[w] \in valid
     THEN /\ Goto(w, "request")
          /\ found' = [found EXCEPT ![w] = NoEntry]
          /\ UNCHANGED lookupMu
     ELSE /\ Goto(w, "resolve")
          /\ lookupMu' = [lookupMu EXCEPT ![found[w]] = w]
          /\ UNCHANGED found
  /\ UNCHANGED <<job, entries, valid, janitor, pruned>>

\* Mutant: the error path of Lookup returns without unlocking.
BugResolvedKeepsLock(w, ok) ==
  /\ pc[w] = "resolve" /\ Goto(w, "request")
  /\ lookupMu' = [lookupMu EXCEPT ![found[w]] = IF ok THEN NoWorker ELSE w]
  /\ found' = [found EXCEPT ![w] = NoEntry]
  /\ valid' = IF ok THEN valid \cup {found[w]} ELSE valid
  /\ UNCHANGED <<job, entries, janitor, pruned>>

\* The resolver answers: the addresses are stored and used, or, on an error,
\* the request fails and Fetch tries again or returns.
Resolved(w, ok) ==
  /\ pc[w] = "resolve" /\ Goto(w, "request")
  /\ lookupMu' = [lookupMu EXCEPT ![found[w]] = NoWorker]
  /\ found' = [found EXCEPT ![w] = NoEntry]
  /\ valid' = IF ok THEN valid \cup {found[w]} ELSE valid
  /\ UNCHANGED <<job, entries, janitor, pruned>>

\* The TTL of an entry ends.
Expire(e) ==
  /\ e \in valid /\ valid' = valid \ {e}
  /\ UNCHANGED <<pc, job, entries, lookupMu, found, janitor, pruned>>

\* The janitor: entries that are not valid leave the map, also the ones whose
\* lookup is under way (their expiry time is still zero).
Prune ==
  /\ janitor
  /\ LET dead == {h \in Domain : entries[h] # NoEntry /\ entries[h] \notin valid} IN
     /\ dead # {}
     /\ entries' = [h \in Domain |-> IF h \in dead THEN NoEntry ELSE entries[h]]
     /\ pruned' = pruned \cup {entries[h] : h \in dead}
  /\ UNCHANGED <<pc, job, valid, lookupMu, found, janitor>>

\* Close stops the janitor for good.
CloseDNS ==
  /\ janitor' = FALSE
  /\ UNCHANGED <<entries, valid, lookupMu, found, pruned>>
=============================================================================

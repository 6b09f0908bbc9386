---------------------------- MODULE DomainLimiter ----------------------------
(***************************************************************************)
(* The per-domain rate limiter of internal/ratelimit/ratelimit.go and the  *)
(* requests its callers make.  Time is a counter.  TryWait is three steps: *)
(* the clock is read, the cooldown is looked at under dl.mu, a slot is     *)
(* taken from the semaphore after dl.mu was given up.  A slot is given     *)
(* back by a goroutine of its own that sleeps first and that the scheduler *)
(* may run late.                                                           *)
(***************************************************************************)
EXTENDS Integers, FiniteSets

CONSTANTS
  Worker,       \* callers
  Domain,
  Parallelism,  \* DomainLimiter.parallelismPerDomain
  Delay,        \* DomainLimiter.delay
  RandomDelay,  \* DomainLimiter.randomDelay
  Cooldown,     \* defaultThrottleCooldown
  Cooldowns,    \* what MarkThrottledFor is called with; the crawler: {Cooldown}
  NoDomain,     \* the domain of a caller that is outside the limiter
  MaxTime,      \* bound: the last instant
  MaxGrants     \* bound: slots ever given

ASSUME LimiterAssumption ==
  /\ Parallelism \in Nat \ {0} /\ Delay \in Nat /\ RandomDelay \in Nat
  /\ Cooldowns \subseteq Nat \ {0} /\ Cooldown \in Cooldowns /\ NoDomain \notin Domain
  /\ MaxTime \in Nat /\ MaxGrants \in Nat

VARIABLES
  clock,           \* time.Now()
  throttledUntil,  \* domainState.throttledUntil, 0 when zero
  slots,           \* domainState.semaphore: who took a slot and when it is due back
  pc, dom, now,    \* per caller: its place, its domain, the time it read
  cooling,         \* history: throttledUntil when the caller's TryWait began,
                   \* or the shorter cooldown that has replaced it since
  given, grants    \* history: how many slots were ever given, and which

vars == <<clock, throttledUntil, slots, pc, dom, now, cooling, given, grants>>
callers == <<pc, dom, now, cooling>>

-----------------------------------------------------------------------------
(* Taking a slot.                                                          *)

\* rand.Int63n(randomDelay), or no jitter.
Jitter == IF RandomDelay > 0 THEN 0..(RandomDelay - 1) ELSE {0}

Free(d) == Cardinality(slots[d]) < Parallelism

\* Mutant: the goroutine sleeps for the jitter only.
BugJitterOnly(w, d) ==
  \E j \in Jitter :
    /\ slots' = [slots EXCEPT ![d] = @ \cup {[id |-> given, due |-> clock + j]}]
    /\ grants' = grants \cup {[id |-> given, domain |-> d, at |-> clock,
                               cooling |-> cooling[w]]}
    /\ given' = given + 1

\* `ds.semaphore <- struct{}{}` and the goroutine that gives the slot back.
TakeSlot(w, d) ==
  \E j \in Jitter :
    /\ slots' = [slots EXCEPT ![d] = @ \cup {[id |-> given,
                                              due |-> clock + Delay + j]}]
    /\ grants' = grants \cup {[id |-> given, domain |-> d, at |-> clock,
                               cooling |-> cooling[w]]}
    /\ given' = given + 1

\* time.Sleep(totalDelay); <-ds.semaphore
Release(d, s) ==
  /\ s \in slots[d] /\ clock >= s.due
  /\ slots' = [slots EXCEPT ![d] = @ \ {s}]
  /\ UNCHANGED <<clock, throttledUntil, callers, given, grants>>

-----------------------------------------------------------------------------
(* The callers.                                                            *)

GoIdle(w) ==
  /\ pc' = [pc EXCEPT ![w] = "idle"]
  /\ dom' = [dom EXCEPT ![w] = NoDomain]
  /\ now' = [now EXCEPT ![w] = 0]

Leave(w) == GoIdle(w) /\ cooling' = [cooling EXCEPT ![w] = 0]

\* getOrCreateDomain and `now := time.Now()`.
TryWait(w, d) ==
  /\ pc[w] = "idle"
  /\ pc' = [pc EXCEPT ![w] = "check"]
  /\ dom' = [dom EXCEPT ![w] = d]
  /\ now' = [now EXCEPT ![w] = clock]
  /\ cooling' = [cooling EXCEPT ![w] = throttledUntil[d]]
  /\ UNCHANGED <<clock, throttledUntil, slots, given, grants>>

\* Mutant: the cooldown is not looked at.
BugCheckSkips(w) ==
  /\ pc[w] = "check"
  /\ pc' = [pc EXCEPT ![w] = "acquire"]
  /\ UNCHANGED <<clock, throttledUntil, slots, dom, now, cooling, given, grants>>

\* Mutant: the cooldown is read together with the clock, before the lock.
BugStaleCooldown(w) ==
  /\ pc[w] = "check"
  /\ IF cooling[w] # 0 /\ now[w] < cooling[w]
     THEN Leave(w) /\ UNCHANGED throttledUntil
     ELSE /\ throttledUntil' = [throttledUntil EXCEPT ![dom[w]] = 0]
          /\ pc' = [pc EXCEPT ![w] = "acquire"]
          /\ UNCHANGED <<dom, now, cooling>>
  /\ UNCHANGED <<clock, slots, given, grants>>

\* The part under dl.mu: false in a cooldown, and a cooldown that is over is
\* cleared.
CheckCooldown(w) ==
  /\ pc[w] = "check"
  /\ IF throttledUntil[dom[w]] # 0 /\ now[w] < throttledUntil[dom[w]]
     THEN Leave(w) /\ UNCHANGED throttledUntil
     ELSE /\ throttledUntil' = [throttledUntil EXCEPT ![dom[w]] = 0]
          /\ pc' = [pc EXCEPT ![w] = "acquire"]
          /\ UNCHANGED <<dom, now, cooling>>
  /\ UNCHANGED <<clock, slots, given, grants>>

\* The select: a slot, and the caller makes its request; or false.
Acquire(w) ==
  /\ pc[w] = "acquire"
  /\ IF Free(dom[w])
     THEN /\ given < MaxGrants
          /\ TakeSlot(w, dom[w])
          /\ pc' = [pc EXCEPT ![w] = "request"]
          /\ UNCHANGED <<dom, now, cooling>>
     ELSE Leave(w) /\ UNCHANGED <<slots, given, grants>>
  /\ UNCHANGED <<clock, throttledUntil>>

\* Wait blocks until there is a slot and asks for no cooldown.  Nothing in the
\* crawler calls it.
Wait(w, d) ==
  /\ pc[w] = "idle" /\ Free(d) /\ given < MaxGrants
  /\ TakeSlot(w, d)
  /\ pc' = [pc EXCEPT ![w] = "request"]
  /\ dom' = [dom EXCEPT ![w] = d]
  /\ UNCHANGED <<clock, throttledUntil, now, cooling>>

\* The request for which the slot was taken is answered, at any later time.
Complete(w) ==
  /\ pc[w] = "request"
  /\ Leave(w)
  /\ UNCHANGED <<clock, throttledUntil, slots, given, grants>>

\* MarkThrottledFor: after an answer, whatever cooldown there was is replaced,
\* by a shorter one too.
MarkThrottledFor(w, c) ==
  /\ pc[w] = "request"
  /\ throttledUntil' = [throttledUntil EXCEPT ![dom[w]] = clock + c]
  /\ GoIdle(w)
  /\ cooling' = [v \in Worker |->
                   IF v = w THEN 0
                   ELSE IF dom[v] = dom[w] /\ cooling[v] > clock + c THEN clock + c
                   ELSE cooling[v]]
  /\ UNCHANGED <<clock, slots, given, grants>>

\* The answer was a 429.
MarkThrottled(w) == MarkThrottledFor(w, Cooldown)

\* IsCoolingDown clears a cooldown that is over.  It has no caller either.
IsCoolingDown(d) ==
  /\ throttledUntil[d] # 0 /\ clock >= throttledUntil[d]
  /\ throttledUntil' = [throttledUntil EXCEPT ![d] = 0]
  /\ UNCHANGED <<clock, slots, callers, given, grants>>

Tick ==
  /\ clock < MaxTime /\ clock' = clock + 1
  /\ UNCHANGED <<throttledUntil, slots, callers, given, grants>>

-----------------------------------------------------------------------------
Init ==
  /\ clock = 1
  /\ throttledUntil = [d \in Domain |-> 0]
  /\ slots = [d \in Domain |-> {}]
  /\ pc = [w \in Worker |-> "idle"] /\ dom = [w \in Worker |-> NoDomain]
  /\ now = [w \in Worker |-> 0] /\ cooling = [w \in Worker |-> 0]
  /\ given = 0 /\ grants = {}

CallerStep(w) ==
  \/ \E d \in Domain : TryWait(w, d)
  \/ CheckCooldown(w) \/ Acquire(w) \/ Complete(w) \/ MarkThrottled(w)

TimeStep == Tick \/ \E d \in Domain : \E s \in slots[d] : Release(d, s)

\* The calls the crawler makes.
CrawlerNext == TimeStep \/ \E w \in Worker : CallerStep(w)

\* All calls the limiter allows.
Next ==
  \/ CrawlerNext
  \/ \E w \in Worker, d \in Domain : Wait(w, d)
  \/ \E w \in Worker, c \in Cooldowns : MarkThrottledFor(w, c)
  \/ \E d \in Domain : IsCoolingDown(d)

Spec == Init /\ [][Next]_vars

-----------------------------------------------------------------------------
(* Properties.                                                             *)

Slot == [id : Nat, due : Nat]
Grant == [id : Nat, domain : Domain, at : Nat, cooling : Nat]

\* The type of the state.
TypeOK ==
  /\ clock \in Nat /\ throttledUntil \in [Domain -> Nat]
  /\ slots \in [Domain -> SUBSET Slot]
  /\ pc \in [Worker -> {"idle", "check", "acquire", "request"}]
  /\ dom \in [Worker -> Domain \cup {NoDomain}]
  /\ now \in [Worker -> Nat] /\ cooling \in [Worker -> Nat]
  /\ given \in Nat /\ grants \subseteq Grant
  /\ \A w \in Worker : pc[w] # "idle" => dom[w] \in Domain

\* The slots g's domain is given in the delay that begins with g.
Window(g) ==
  {h \in grants : h.domain = g.domain /\ h.at >= g.at /\ h.at < g.at + Delay}

\* The rate itself: in any stretch of time shorter than the delay a domain is
\* given no more slots than the parallelism, however late the releases are and
\* however the jitter falls.
PoliteRate == \A g \in grants : Cardinality(Window(g)) <= Parallelism

\* A TryWait that begins while the domain cools down gets no slot before that
\* cooldown, or the shorter one a mark has put in its place, is over, although the
\* slot is taken two steps after the clock was read and other callers may clear or
\* renew the cooldown in between.
NoGrantInCooldown == \A g \in grants : g.at >= g.cooling

\* Nobody ends a cooldown that is still running, and nobody shortens it but a
\* mark that begins a new one: a TryWait that read its clock long ago clears no
\* cooldown that was marked since.
CooldownKept ==
  [][\A d \in Domain : throttledUntil[d] > clock =>
       \/ throttledUntil'[d] >= throttledUntil[d]
       \/ \E c \in Cooldowns : throttledUntil'[d] = clock + c]_vars
=============================================================================

------------------------- MODULE DomainLimiterProofs --------------------------
(* Theorems about DomainLimiter, for every delay, jitter, parallelism and   *)
(* number of callers.                                                       *)
EXTENDS DomainLimiter, FiniteSetTheorems, TLAPS

-----------------------------------------------------------------------------
(* The inductive invariant.                                                *)

\* A caller's cooldown, as it was when its call began, is over, or the domain
\* still remembers one that ends no earlier; past the check it is over.
CoolingSeen ==
  \A w \in Worker :
    /\ pc[w] = "idle" => cooling[w] = 0
    /\ pc[w] = "check" => /\ now[w] <= clock
                          /\ cooling[w] <= clock \/ cooling[w] <= throttledUntil[dom[w]]
    /\ pc[w] = "acquire" => cooling[w] <= clock

\* When all marks have one length no cooldown reaches further than that.
CooldownBound ==
  Cooldowns = {Cooldown} => \A d \in Domain : throttledUntil[d] <= clock + Cooldown

\* Grants are in the past and have their own numbers.
GrantIds ==
  /\ \A g \in grants : g.id < given /\ g.at <= clock
  /\ \A g, h \in grants : g.id = h.id => g = h

\* A slot given less than a delay ago has not been given back.
SlotHeld ==
  \A g \in grants : clock < g.at + Delay =>
    \E s \in slots[g.domain] : s.id = g.id /\ s.due >= g.at + Delay

FiniteSlots == IsFiniteSet(grants) /\ \A d \in Domain : IsFiniteSet(slots[d])

IInv ==
  /\ TypeOK /\ CoolingSeen /\ CooldownBound /\ NoGrantInCooldown
  /\ GrantIds /\ SlotHeld /\ FiniteSlots /\ PoliteRate

-----------------------------------------------------------------------------
(* Taking a slot.                                                          *)

\* The grants that begin less than a delay ago are no more than the slots.
LEMMA RecentGrants ==
  ASSUME IInv, NEW d \in Domain, NEW W \in SUBSET grants,
         \A h \in W : h.domain = d /\ clock < h.at + Delay
  PROVE  IsFiniteSet(W) /\ Cardinality(W) <= Cardinality(slots[d])
<1> DEFINE f == [h \in W |-> CHOOSE s \in slots[d] : s.id = h.id]
<1>1. ASSUME NEW h \in W PROVE f[h] \in slots[d] /\ f[h].id = h.id
  <2>1. \E s \in slots[d] : s.id = h.id
    BY DEF IInv, SlotHeld
  <2> QED BY <2>1
<1>2. f \in [W -> slots[d]]
  BY <1>1
<1>3. \A g, h \in W : f[g] = f[h] => g = h
  <2> HIDE DEF f
  <2> QED BY <1>1 DEF IInv, GrantIds
<1>4. f \in Injection(W, slots[d])
  <2> HIDE DEF f
  <2> QED BY <1>2, <1>3 DEF Injection, IsInjective
<1>5. IsFiniteSet(slots[d])
  BY DEF IInv, FiniteSlots
<1> HIDE DEF f
<1> QED BY <1>4, <1>5, FS_Injection

\* A slot taken while one is free keeps the rate.
LEMMA TakeSlotInv ==
  ASSUME IInv, NEW w \in Worker, NEW d \in Domain, Free(d), cooling[w] <= clock,
         TakeSlot(w, d), UNCHANGED clock
  PROVE  /\ slots' \in [Domain -> SUBSET Slot] /\ given' \in Nat /\ grants' \subseteq Grant
         /\ NoGrantInCooldown' /\ GrantIds' /\ SlotHeld' /\ FiniteSlots' /\ PoliteRate'
<1>1. PICK j \in Jitter :
        /\ slots' = [slots EXCEPT ![d] = @ \cup {[id |-> given, due |-> clock + Delay + j]}]
        /\ grants' = grants \cup {[id |-> given, domain |-> d, at |-> clock, cooling |-> cooling[w]]}
        /\ given' = given + 1
  BY DEF TakeSlot
<1>2. j \in Nat /\ TypeOK
  BY LimiterAssumption DEF Jitter, IInv
<1> DEFINE x == [id |-> given, due |-> clock + Delay + j]
           n == [id |-> given, domain |-> d, at |-> clock, cooling |-> cooling[w]]
<1>3. x \in Slot /\ x.id = given /\ x.due = clock + Delay + j
  BY <1>2, LimiterAssumption DEF Slot, TypeOK
<1>4. n \in Grant /\ n.id = given /\ n.domain = d /\ n.at = clock /\ n.cooling = cooling[w]
  BY <1>2 DEF Grant, TypeOK
<1>5. slots' = [slots EXCEPT ![d] = @ \cup {x}] /\ grants' = grants \cup {n}
  BY <1>1
<1> HIDE DEF x, n
<1>6. slots' \in [Domain -> SUBSET Slot] /\ given' \in Nat /\ grants' \subseteq Grant
  BY <1>1, <1>2, <1>3, <1>4, <1>5 DEF TypeOK
<1>7. NoGrantInCooldown'
  BY <1>4, <1>5 DEF IInv, NoGrantInCooldown
<1>8. given \in Nat /\ clock \in Nat /\ grants \subseteq Grant
  BY <1>2 DEF TypeOK
<1>9. GrantIds'
  <2>1. \A g \in grants : g.id < given /\ g.at <= clock /\ g.id \in Nat
    BY <1>8 DEF IInv, GrantIds, Grant
  <2>2. \A g \in grants' : g.id < given' /\ g.at <= clock'
    BY <1>1, <1>4, <1>5, <1>8, <2>1
  <2>3. \A g \in grants : g.id # n.id
    BY <1>4, <1>8, <2>1
  <2>4. \A g, h \in grants' : g.id = h.id => g = h
    BY <1>5, <2>3 DEF IInv, GrantIds
  <2> QED BY <2>2, <2>4 DEF GrantIds
<1>10. SlotHeld'
  <2> SUFFICES ASSUME NEW g \in grants', clock < g.at + Delay
               PROVE  \E s \in slots'[g.domain] : s.id = g.id /\ s.due >= g.at + Delay
    BY DEF SlotHeld
  <2>1. \A e \in Domain : slots[e] \subseteq slots'[e]
    BY <1>2, <1>5 DEF TypeOK
  <2>2. CASE g \in grants
    <3>1. PICK s \in slots[g.domain] : s.id = g.id /\ s.due >= g.at + Delay
      BY <2>2 DEF IInv, SlotHeld
    <3>2. g.domain \in Domain
      BY <2>2, <1>8 DEF Grant
    <3> QED BY <2>1, <3>1, <3>2
  <2>3. CASE g = n
    <3>1. x \in slots'[d]
      BY <1>2, <1>5 DEF TypeOK
    <3>2. x.due >= clock + Delay
      BY <1>2, <1>3, <1>8, LimiterAssumption
    <3> QED BY <2>3, <3>1, <3>2, <1>3, <1>4
  <2> QED BY <1>5, <2>2, <2>3
<1>11. FiniteSlots'
  <2>1. IsFiniteSet(grants')
    BY <1>5, FS_AddElement DEF IInv, FiniteSlots
  <2>2. ASSUME NEW e \in Domain PROVE IsFiniteSet(slots'[e])
    <3>1. IsFiniteSet(slots[e]) /\ IsFiniteSet(slots[e] \cup {x})
      BY FS_AddElement DEF IInv, FiniteSlots
    <3>2. slots'[e] = IF e = d THEN slots[e] \cup {x} ELSE slots[e]
      BY <1>2, <1>5 DEF TypeOK
    <3> QED BY <3>1, <3>2
  <2> QED BY <2>1, <2>2 DEF FiniteSlots
<1>12. PoliteRate'
  <2> SUFFICES ASSUME NEW g \in grants' PROVE Cardinality(Window(g)') <= Parallelism
    BY DEF PoliteRate
  <2> DEFINE W == Window(g)'
  <2>1. W = {h \in grants' : h.domain = g.domain /\ h.at >= g.at /\ h.at < g.at + Delay}
    BY DEF Window
  <2>2. g \in Grant /\ \A h \in grants' : h \in Grant /\ h.at \in Nat
    BY <1>6 DEF Grant
  <2>3. CASE n \in W
    <3>1. g.domain = d /\ clock >= g.at /\ clock < g.at + Delay
      BY <2>1, <2>3, <1>4
    <3>2. W \ {n} \in SUBSET grants /\ \A h \in W \ {n} : h.domain = d /\ clock < h.at + Delay
      <4>1. ASSUME NEW h \in W \ {n} PROVE h \in grants /\ h.domain = d /\ clock < h.at + Delay
        BY <2>1, <2>2, <3>1, <1>5, <1>8, LimiterAssumption DEF Grant
      <4> QED BY <4>1
    <3>3. IsFiniteSet(W \ {n}) /\ Cardinality(W \ {n}) <= Cardinality(slots[d])
      BY <3>2, RecentGrants
    <3>4. Cardinality(slots[d]) < Parallelism /\ Cardinality(slots[d]) \in Nat
      BY FS_CardinalityType DEF Free, IInv, FiniteSlots
    <3>5. Cardinality(W) = Cardinality(W \ {n}) + 1 /\ Cardinality(W \ {n}) \in Nat
      <4>1. W = (W \ {n}) \cup {n}
        BY <2>3
      <4>2. Cardinality((W \ {n}) \cup {n}) = Cardinality(W \ {n}) + 1
        BY <3>3, FS_AddElement
      <4> HIDE DEF W
      <4> QED BY <3>3, <4>1, <4>2, FS_CardinalityType
    <3> HIDE DEF W
    <3>6. Cardinality(W) <= Parallelism
      BY <3>3, <3>4, <3>5, LimiterAssumption
    <3> QED BY <3>6 DEF W
  <2>4. CASE n \notin W
    <3>1. CASE g \in grants
      <4>1. W = Window(g)
        BY <2>1, <2>4, <1>5 DEF Window
      <4> QED BY <3>1, <4>1 DEF IInv, PoliteRate
    <3>2. CASE g = n
      <4>1. Delay = 0
        BY <2>1, <2>4, <3>2, <1>4, <1>5, <1>8, LimiterAssumption
      <4>2. W = {}
        BY <2>1, <2>2, <3>2, <4>1, <1>4, <1>8
      <4>3. Cardinality(W) = 0
        BY <4>2, FS_EmptySet
      <4> QED BY <4>3, LimiterAssumption
    <3> QED BY <3>1, <3>2, <1>5
  <2> QED BY <2>3, <2>4
<1> QED BY <1>6, <1>7, <1>9, <1>10, <1>11, <1>12
-----------------------------------------------------------------------------
(* The actions.                                                            *)

\* Steps that give no slot and take none back keep what is known of slots.
LEMMA GrantsKept ==
  ASSUME IInv, UNCHANGED <<clock, slots, given, grants>>
  PROVE  NoGrantInCooldown' /\ GrantIds' /\ SlotHeld' /\ FiniteSlots' /\ PoliteRate'
<1>1. PoliteRate'
  <2>1. \A g : Window(g)' = Window(g)
    BY DEF Window
  <2> QED BY <2>1 DEF IInv, PoliteRate
<1> QED BY <1>1 DEF IInv, NoGrantInCooldown, GrantIds, SlotHeld, FiniteSlots

\* A caller that leaves.
LEMMA LeaveInv ==
  ASSUME TypeOK, CoolingSeen, NEW w \in Worker, Leave(w), UNCHANGED clock,
         throttledUntil' \in [Domain -> Nat],
         \A d \in Domain : throttledUntil'[d] >= throttledUntil[d]
  PROVE  /\ CoolingSeen'
         /\ pc' \in [Worker -> {"idle", "check", "acquire", "request"}]
         /\ dom' \in [Worker -> Domain \cup {NoDomain}]
         /\ now' \in [Worker -> Nat] /\ cooling' \in [Worker -> Nat]
         /\ \A v \in Worker : pc'[v] # "idle" => dom'[v] \in Domain
<1>1. /\ pc'[w] = "idle" /\ cooling'[w] = 0
      /\ \A v \in Worker \ {w} :
           pc'[v] = pc[v] /\ dom'[v] = dom[v] /\ now'[v] = now[v] /\ cooling'[v] = cooling[v]
  BY DEF Leave, GoIdle, TypeOK
<1>2. ASSUME NEW v \in Worker \ {w}, pc[v] = "check"
      PROVE  cooling[v] <= clock \/ cooling[v] <= throttledUntil'[dom[v]]
  <2>1. dom[v] \in Domain /\ cooling[v] \in Nat
    BY <1>2 DEF TypeOK
  <2>2. throttledUntil[dom[v]] \in Nat /\ throttledUntil'[dom[v]] \in Nat
    BY <2>1 DEF TypeOK
  <2>3. throttledUntil'[dom[v]] >= throttledUntil[dom[v]]
    BY <2>1
  <2>4. cooling[v] <= clock \/ cooling[v] <= throttledUntil[dom[v]]
    BY <1>2 DEF CoolingSeen
  <2> QED BY <2>1, <2>2, <2>3, <2>4
<1>3. CoolingSeen'
  BY <1>1, <1>2 DEF CoolingSeen
<1> QED BY <1>3 DEF Leave, GoIdle, TypeOK

\* Clearing a cooldown that is over loses nothing a caller has seen.
LEMMA ClearInv ==
  ASSUME TypeOK, CoolingSeen, NEW d \in Domain, throttledUntil[d] <= clock,
         throttledUntil' = [throttledUntil EXCEPT ![d] = 0], UNCHANGED clock,
         NEW v \in Worker, pc[v] = "check"
  PROVE  cooling[v] <= clock \/ cooling[v] <= throttledUntil'[dom[v]]
<1>1. dom[v] \in Domain /\ cooling[v] \in Nat /\ clock \in Nat
  BY DEF TypeOK
<1>2. throttledUntil[dom[v]] \in Nat
  BY <1>1 DEF TypeOK
<1>3. cooling[v] <= clock \/ cooling[v] <= throttledUntil[dom[v]]
  BY DEF CoolingSeen
<1>4. dom[v] # d => throttledUntil'[dom[v]] = throttledUntil[dom[v]]
  BY <1>1 DEF TypeOK
<1> QED BY <1>1, <1>2, <1>3, <1>4

\* A mark replaces the cooldown, and what the callers have seen of it.
LEMMA MarkInv ==
  ASSUME IInv, NEW w \in Worker, NEW c \in Cooldowns, MarkThrottledFor(w, c) PROVE IInv'
<1>1. TypeOK /\ CoolingSeen /\ CooldownBound /\ clock \in Nat /\ c \in Nat /\ Cooldown \in Nat
  BY LimiterAssumption DEF IInv, TypeOK
<1>2. /\ pc[w] = "request" /\ dom[w] \in Domain
      /\ throttledUntil' = [throttledUntil EXCEPT ![dom[w]] = clock + c]
      /\ UNCHANGED <<clock, slots, given, grants>>
  BY <1>1 DEF MarkThrottledFor, TypeOK
<1>3. /\ pc'[w] = "idle" /\ cooling'[w] = 0
      /\ \A v \in Worker \ {w} :
           /\ pc'[v] = pc[v] /\ dom'[v] = dom[v] /\ now'[v] = now[v]
           /\ cooling'[v] = IF dom[v] = dom[w] /\ cooling[v] > clock + c THEN clock + c ELSE cooling[v]
  BY <1>1 DEF MarkThrottledFor, GoIdle, TypeOK
<1>4. \A v \in Worker : cooling[v] \in Nat
  BY <1>1 DEF TypeOK
<1>5. /\ pc' \in [Worker -> {"idle", "check", "acquire", "request"}]
      /\ dom' \in [Worker -> Domain \cup {NoDomain}] /\ now' \in [Worker -> Nat]
      /\ \A v \in Worker : pc'[v] # "idle" => dom'[v] \in Domain
  BY <1>1, <1>3 DEF MarkThrottledFor, GoIdle, TypeOK
<1>6. cooling' \in [Worker -> Nat]
  <2>1. cooling' = [v \in Worker |->
                      IF v = w THEN 0
                      ELSE IF dom[v] = dom[w] /\ cooling[v] > clock + c THEN clock + c
                      ELSE cooling[v]]
    BY DEF MarkThrottledFor
  <2>2. clock + c \in Nat
    BY <1>1
  <2> QED BY <1>4, <2>1, <2>2
<1>7. throttledUntil' \in [Domain -> Nat]
  BY <1>1, <1>2 DEF TypeOK
<1>8. CoolingSeen'
  <2> SUFFICES ASSUME NEW v \in Worker \ {w}
               PROVE  /\ pc[v] = "idle" => cooling'[v] = 0
                      /\ pc[v] = "check" =>
                           /\ now[v] <= clock
                           /\ cooling'[v] <= clock \/ cooling'[v] <= throttledUntil'[dom[v]]
                      /\ pc[v] = "acquire" => cooling'[v] <= clock
    BY <1>2, <1>3 DEF CoolingSeen
  <2>1. cooling[v] \in Nat /\ cooling'[v] \in Nat /\ cooling'[v] <= cooling[v]
    BY <1>1, <1>3, <1>4, <1>6
  <2>2. pc[v] = "idle" => cooling'[v] = 0
    BY <1>1, <2>1 DEF CoolingSeen
  <2>3. pc[v] = "acquire" => cooling'[v] <= clock
    BY <1>1, <2>1 DEF CoolingSeen
  <2>4. ASSUME pc[v] = "check"
        PROVE  now[v] <= clock /\ (cooling'[v] <= clock \/ cooling'[v] <= throttledUntil'[dom[v]])
    <3>1. dom[v] \in Domain /\ now[v] <= clock
          /\ (cooling[v] <= clock \/ cooling[v] <= throttledUntil[dom[v]])
      BY <1>1, <2>4 DEF TypeOK, CoolingSeen
    <3>2. throttledUntil[dom[v]] \in Nat
      BY <1>1, <3>1 DEF TypeOK
    <3>3. throttledUntil'[dom[v]] = IF dom[v] = dom[w] THEN clock + c ELSE throttledUntil[dom[v]]
      BY <1>1, <1>2, <3>1 DEF TypeOK
    <3>4. dom[v] = dom[w] => cooling'[v] <= clock + c
      BY <1>1, <1>3, <2>1
    <3> QED BY <1>1, <2>1, <3>1, <3>2, <3>3, <3>4
  <2> QED BY <2>2, <2>3, <2>4
<1>9. CooldownBound'
  <2> SUFFICES ASSUME Cooldowns = {Cooldown}, NEW d \in Domain
               PROVE  throttledUntil'[d] <= clock + Cooldown
    BY <1>2 DEF CooldownBound
  <2>1. c = Cooldown
    OBVIOUS
  <2>2. throttledUntil[d] <= clock + Cooldown
    BY <1>1 DEF CooldownBound
  <2>3. throttledUntil'[d] = clock + c \/ throttledUntil'[d] = throttledUntil[d]
    BY <1>1, <1>2 DEF TypeOK
  <2> QED BY <1>1, <2>1, <2>2, <2>3
<1>10. TypeOK'
  BY <1>1, <1>2, <1>5, <1>6, <1>7 DEF TypeOK
<1> QED BY <1>2, <1>8, <1>9, <1>10, GrantsKept DEF IInv

\* The calls of one caller.
LEMMA CallerInv ==
  ASSUME IInv, NEW w \in Worker, CallerStep(w) PROVE IInv'
<1>1. TypeOK /\ CoolingSeen /\ CooldownBound /\ clock \in Nat
  BY DEF IInv, TypeOK
<1>2. ASSUME NEW d \in Domain, TryWait(w, d) PROVE IInv'
  <2>1. UNCHANGED <<clock, throttledUntil, slots, given, grants>>
    BY <1>2 DEF TryWait
  <2>2. TypeOK' /\ CooldownBound'
    BY <1>1, <1>2 DEF TryWait, TypeOK, CooldownBound
  <2>3. /\ pc' = [pc EXCEPT ![w] = "check"] /\ dom' = [dom EXCEPT ![w] = d]
        /\ now' = [now EXCEPT ![w] = clock] /\ cooling' = [cooling EXCEPT ![w] = throttledUntil[d]]
    BY <1>2 DEF TryWait
  <2>4. throttledUntil[d] \in Nat
    BY <1>1 DEF TypeOK
  <2>5. CoolingSeen'
    BY <1>1, <2>1, <2>3, <2>4 DEF TypeOK, CoolingSeen
  <2> QED BY <2>1, <2>2, <2>5, GrantsKept DEF IInv
<1>3. CASE CheckCooldown(w)
  <2>1. UNCHANGED <<clock, slots, given, grants>> /\ pc[w] = "check" /\ dom[w] \in Domain
    BY <1>1, <1>3 DEF CheckCooldown, TypeOK
  <2>2. /\ throttledUntil[dom[w]] \in Nat /\ now[w] \in Nat /\ cooling[w] \in Nat
        /\ now[w] <= clock
    BY <1>1, <2>1 DEF TypeOK, CoolingSeen
  <2>3. CASE throttledUntil[dom[w]] # 0 /\ now[w] < throttledUntil[dom[w]]
    <3>1. Leave(w) /\ UNCHANGED throttledUntil
      BY <1>3, <2>3 DEF CheckCooldown
    <3>2. \A d \in Domain : throttledUntil[d] \in Nat
      BY <1>1 DEF TypeOK
    <3>3. \A d \in Domain : throttledUntil'[d] >= throttledUntil[d]
      BY <3>1, <3>2
    <3>4. throttledUntil' \in [Domain -> Nat]
      BY <1>1, <3>1 DEF TypeOK
    <3>5. /\ CoolingSeen'
          /\ pc' \in [Worker -> {"idle", "check", "acquire", "request"}]
          /\ dom' \in [Worker -> Domain \cup {NoDomain}]
          /\ now' \in [Worker -> Nat] /\ cooling' \in [Worker -> Nat]
          /\ \A v \in Worker : pc'[v] # "idle" => dom'[v] \in Domain
      BY <1>1, <2>1, <3>1, <3>3, <3>4, LeaveInv
    <3>6. TypeOK' /\ CooldownBound'
      BY <1>1, <2>1, <3>1, <3>5 DEF TypeOK, CooldownBound
    <3> QED BY <2>1, <3>5, <3>6, GrantsKept DEF IInv
  <2>4. CASE ~(throttledUntil[dom[w]] # 0 /\ now[w] < throttledUntil[dom[w]])
    <3>1. /\ throttledUntil' = [throttledUntil EXCEPT ![dom[w]] = 0]
          /\ pc' = [pc EXCEPT ![w] = "acquire"] /\ UNCHANGED <<dom, now, cooling>>
      BY <1>3, <2>4 DEF CheckCooldown
    <3>2. throttledUntil[dom[w]] <= clock
      BY <1>1, <2>2, <2>4
    <3>3. cooling[w] <= clock
      BY <1>1, <2>1, <2>2, <3>2 DEF CoolingSeen
    <3>4. \A v \in Worker : pc[v] = "check" =>
                              cooling[v] <= clock \/ cooling[v] <= throttledUntil'[dom[v]]
      BY <1>1, <2>1, <3>1, <3>2, ClearInv
    <3>5. CoolingSeen'
      BY <1>1, <2>1, <3>1, <3>3, <3>4 DEF CoolingSeen, TypeOK
    <3>6. TypeOK'
      BY <1>1, <2>1, <3>1 DEF TypeOK
    <3>7. CooldownBound'
      BY <1>1, <2>1, <3>1, LimiterAssumption DEF CooldownBound, TypeOK
    <3> QED BY <2>1, <3>5, <3>6, <3>7, GrantsKept DEF IInv
  <2> QED BY <2>3, <2>4
<1>4. CASE Acquire(w)
  <2>1. /\ UNCHANGED <<clock, throttledUntil>> /\ pc[w] = "acquire" /\ dom[w] \in Domain
        /\ cooling[w] <= clock
    BY <1>1, <1>4 DEF Acquire, TypeOK, CoolingSeen
  <2>2. CASE Free(dom[w])
    <3>1. /\ TakeSlot(w, dom[w]) /\ pc' = [pc EXCEPT ![w] = "request"]
          /\ UNCHANGED <<dom, now, cooling>>
      BY <1>4, <2>2 DEF Acquire
    <3>2. /\ slots' \in [Domain -> SUBSET Slot] /\ given' \in Nat /\ grants' \subseteq Grant
          /\ NoGrantInCooldown' /\ GrantIds' /\ SlotHeld' /\ FiniteSlots' /\ PoliteRate'
      BY <2>1, <2>2, <3>1, TakeSlotInv
    <3>3. TypeOK' /\ CoolingSeen' /\ CooldownBound'
      BY <1>1, <2>1, <3>1, <3>2 DEF TypeOK, CoolingSeen, CooldownBound
    <3> QED BY <3>2, <3>3 DEF IInv
  <2>3. CASE ~Free(dom[w])
    <3>1. Leave(w) /\ UNCHANGED <<slots, given, grants>>
      BY <1>4, <2>3 DEF Acquire
    <3>2. \A d \in Domain : throttledUntil'[d] >= throttledUntil[d]
      BY <1>1, <2>1 DEF TypeOK
    <3>3. throttledUntil' \in [Domain -> Nat]
      BY <1>1, <2>1 DEF TypeOK
    <3>4. /\ CoolingSeen'
          /\ pc' \in [Worker -> {"idle", "check", "acquire", "request"}]
          /\ dom' \in [Worker -> Domain \cup {NoDomain}]
          /\ now' \in [Worker -> Nat] /\ cooling' \in [Worker -> Nat]
          /\ \A v \in Worker : pc'[v] # "idle" => dom'[v] \in Domain
      BY <1>1, <2>1, <3>1, <3>2, <3>3, LeaveInv
    <3>5. TypeOK' /\ CooldownBound'
      BY <1>1, <2>1, <3>1, <3>4 DEF TypeOK, CooldownBound
    <3> QED BY <2>1, <3>1, <3>4, <3>5, GrantsKept DEF IInv
  <2> QED BY <2>2, <2>3
<1>5. CASE Complete(w)
  <2>1. Leave(w) /\ UNCHANGED <<clock, throttledUntil, slots, given, grants>>
    BY <1>5 DEF Complete
  <2>2. /\ throttledUntil' \in [Domain -> Nat]
        /\ \A d \in Domain : throttledUntil'[d] >= throttledUntil[d]
    BY <1>1, <2>1 DEF TypeOK
  <2>3. /\ CoolingSeen'
        /\ pc' \in [Worker -> {"idle", "check", "acquire", "request"}]
        /\ dom' \in [Worker -> Domain \cup {NoDomain}]
        /\ now' \in [Worker -> Nat] /\ cooling' \in [Worker -> Nat]
        /\ \A v \in Worker : pc'[v] # "idle" => dom'[v] \in Domain
    BY <1>1, <2>1, <2>2, LeaveInv
  <2>4. TypeOK' /\ CooldownBound'
    BY <1>1, <2>1, <2>3 DEF TypeOK, CooldownBound
  <2> QED BY <2>1, <2>3, <2>4, GrantsKept DEF IInv
<1>6. CASE MarkThrottled(w)
  BY <1>6, MarkInv, LimiterAssumption DEF MarkThrottled
<1> QED BY <1>2, <1>3, <1>4, <1>5, <1>6 DEF CallerStep

\* Time passes, slots come back, and the calls the crawler does not make.
LEMMA OtherInv ==
  ASSUME IInv,
         \/ TimeStep
         \/ \E w \in Worker, d \in Domain : Wait(w, d)
         \/ \E w \in Worker, c \in Cooldowns : MarkThrottledFor(w, c)
         \/ \E d \in Domain : IsCoolingDown(d)
  PROVE  IInv'
<1>1. TypeOK /\ CoolingSeen /\ CooldownBound /\ clock \in Nat
  BY DEF IInv, TypeOK
<1>2. CASE Tick
  <2>1. clock' = clock + 1 /\ UNCHANGED <<throttledUntil, slots, callers, given, grants>>
    BY <1>2 DEF Tick
  <2>2. TypeOK'
    BY <1>1, <2>1 DEF TypeOK, callers
  <2>3. CoolingSeen'
    BY <1>1, <2>1 DEF TypeOK, CoolingSeen, callers
  <2>4. CooldownBound'
    BY <1>1, <2>1, LimiterAssumption DEF TypeOK, CooldownBound
  <2>5. PoliteRate'
    <3>1. \A g : Window(g)' = Window(g)
      BY <2>1 DEF Window
    <3> QED BY <2>1, <3>1 DEF IInv, PoliteRate
  <2>6. grants \subseteq Grant
    BY <1>1 DEF TypeOK
  <2>7. GrantIds' /\ NoGrantInCooldown' /\ FiniteSlots'
    BY <1>1, <2>1, <2>6 DEF IInv, GrantIds, NoGrantInCooldown, FiniteSlots, Grant
  <2>8. SlotHeld'
    BY <1>1, <2>1, <2>6, LimiterAssumption DEF IInv, SlotHeld, Grant
  <2> QED BY <2>2, <2>3, <2>4, <2>5, <2>7, <2>8 DEF IInv
<1>3. ASSUME NEW d \in Domain, NEW s \in slots[d], Release(d, s) PROVE IInv'
  <2>1. /\ clock >= s.due /\ slots' = [slots EXCEPT ![d] = @ \ {s}]
        /\ UNCHANGED <<clock, throttledUntil, callers, given, grants>>
    BY <1>3 DEF Release
  <2>2. TypeOK' /\ CoolingSeen' /\ CooldownBound'
    BY <1>1, <2>1 DEF TypeOK, CoolingSeen, CooldownBound, callers
  <2>3. GrantIds' /\ NoGrantInCooldown'
    BY <2>1 DEF IInv, GrantIds, NoGrantInCooldown
  <2>4. PoliteRate'
    <3>1. \A g : Window(g)' = Window(g)
      BY <2>1 DEF Window
    <3> QED BY <2>1, <3>1 DEF IInv, PoliteRate
  <2>5. FiniteSlots'
    <3>1. ASSUME NEW e \in Domain PROVE IsFiniteSet(slots'[e])
      <4>1. IsFiniteSet(slots[e]) /\ IsFiniteSet(slots[e] \ {s})
        BY FS_RemoveElement DEF IInv, FiniteSlots
      <4>2. slots'[e] = IF e = d THEN slots[e] \ {s} ELSE slots[e]
        BY <1>1, <2>1 DEF TypeOK
      <4> QED BY <4>1, <4>2
    <3> QED BY <2>1, <3>1 DEF IInv, FiniteSlots
  <2>6. SlotHeld'
    <3> SUFFICES ASSUME NEW g \in grants, clock < g.at + Delay
                 PROVE  \E t \in slots'[g.domain] : t.id = g.id /\ t.due >= g.at + Delay
      BY <2>1 DEF SlotHeld
    <3>1. PICK t \in slots[g.domain] : t.id = g.id /\ t.due >= g.at + Delay
      BY DEF IInv, SlotHeld
    <3>2. g.domain \in Domain /\ g.at \in Nat
      BY <1>1 DEF TypeOK, Grant
    <3>3. s \in Slot /\ t \in Slot
      BY <1>1, <3>1, <3>2 DEF TypeOK
    <3>4. t # s
      BY <1>1, <2>1, <3>1, <3>2, <3>3, LimiterAssumption DEF Slot
    <3>5. t \in slots'[g.domain]
      BY <1>1, <2>1, <3>1, <3>2, <3>4 DEF TypeOK
    <3> QED BY <3>1, <3>5
  <2> QED BY <2>2, <2>3, <2>4, <2>5, <2>6 DEF IInv
<1>4. ASSUME NEW w \in Worker, NEW d \in Domain, Wait(w, d) PROVE IInv'
  <2>1. /\ pc[w] = "idle" /\ Free(d) /\ TakeSlot(w, d) /\ cooling[w] = 0 /\ cooling[w] <= clock
        /\ pc' = [pc EXCEPT ![w] = "request"] /\ dom' = [dom EXCEPT ![w] = d]
        /\ UNCHANGED <<clock, throttledUntil, now, cooling>>
    BY <1>1, <1>4 DEF Wait, CoolingSeen
  <2>2. /\ slots' \in [Domain -> SUBSET Slot] /\ given' \in Nat /\ grants' \subseteq Grant
        /\ NoGrantInCooldown' /\ GrantIds' /\ SlotHeld' /\ FiniteSlots' /\ PoliteRate'
    BY <2>1, TakeSlotInv
  <2>3. TypeOK' /\ CoolingSeen' /\ CooldownBound'
    BY <1>1, <2>1, <2>2 DEF TypeOK, CoolingSeen, CooldownBound
  <2> QED BY <2>2, <2>3 DEF IInv
<1>5. ASSUME NEW d \in Domain, IsCoolingDown(d) PROVE IInv'
  <2>1. /\ throttledUntil[d] \in Nat /\ throttledUntil[d] <= clock
        /\ throttledUntil' = [throttledUntil EXCEPT ![d] = 0]
        /\ UNCHANGED <<clock, slots, callers, given, grants>>
    BY <1>1, <1>5 DEF IsCoolingDown, TypeOK
  <2>2. \A v \in Worker : pc[v] = "check" =>
                            cooling[v] <= clock \/ cooling[v] <= throttledUntil'[dom[v]]
    BY <1>1, <2>1, ClearInv
  <2>3. CoolingSeen'
    BY <1>1, <2>1, <2>2 DEF CoolingSeen, callers
  <2>4. TypeOK' /\ CooldownBound'
    BY <1>1, <2>1, LimiterAssumption DEF TypeOK, CooldownBound, callers
  <2> QED BY <2>1, <2>3, <2>4, GrantsKept DEF IInv
<1> QED BY <1>2, <1>3, <1>4, <1>5, MarkInv DEF TimeStep

\* The initial state.
LEMMA InitInv == Init => IInv
<1> SUFFICES ASSUME Init PROVE IInv
  OBVIOUS
<1>1. TypeOK /\ CoolingSeen /\ CooldownBound
  BY LimiterAssumption DEF Init, TypeOK, CoolingSeen, CooldownBound
<1>2. NoGrantInCooldown /\ GrantIds /\ SlotHeld /\ PoliteRate
  BY DEF Init, NoGrantInCooldown, GrantIds, SlotHeld, PoliteRate
<1>3. FiniteSlots
  BY FS_EmptySet DEF Init, FiniteSlots
<1> QED BY <1>1, <1>2, <1>3 DEF IInv

\* Every step keeps the invariant.
LEMMA NextInv == IInv /\ [Next]_vars => IInv'
<1> SUFFICES ASSUME IInv, [Next]_vars PROVE IInv'
  OBVIOUS
<1>1. CASE Next
  BY <1>1, CallerInv, OtherInv DEF Next, CrawlerNext
<1>2. CASE UNCHANGED vars
  <2>1. TypeOK' /\ CoolingSeen' /\ CooldownBound'
    BY <1>2 DEF vars, IInv, TypeOK, CoolingSeen, CooldownBound
  <2> QED BY <1>2, <2>1, GrantsKept DEF vars, IInv
<1> QED BY <1>1, <1>2

\* A step ends or shortens no running cooldown, except that a mark replaces it.
LEMMA CooldownStep ==
  ASSUME IInv, Next, NEW d \in Domain, throttledUntil[d] > clock
  PROVE  \/ throttledUntil'[d] >= throttledUntil[d]
         \/ \E c \in Cooldowns : throttledUntil'[d] = clock + c
<1>1. TypeOK /\ CoolingSeen /\ clock \in Nat
  BY DEF IInv, TypeOK
<1>2. throttledUntil[d] \in Nat
  BY <1>1 DEF TypeOK
<1>3. CASE UNCHANGED throttledUntil
  BY <1>2, <1>3
<1>4. ASSUME NEW w \in Worker, CheckCooldown(w) PROVE throttledUntil'[d] >= throttledUntil[d]
  <2>1. dom[w] \in Domain /\ now[w] <= clock /\ now[w] \in Nat
    BY <1>1, <1>4 DEF CheckCooldown, TypeOK, CoolingSeen
  <2>2. \/ UNCHANGED throttledUntil
        \/ /\ ~(throttledUntil[dom[w]] # 0 /\ now[w] < throttledUntil[dom[w]])
           /\ throttledUntil' = [throttledUntil EXCEPT ![dom[w]] = 0]
    BY <1>4 DEF CheckCooldown
  <2>3. throttledUntil'[d] = throttledUntil[d]
    BY <1>1, <1>2, <2>1, <2>2 DEF TypeOK
  <2> QED BY <1>2, <2>3
<1>5. ASSUME NEW w \in Worker, NEW c \in Cooldowns, MarkThrottledFor(w, c)
      PROVE  throttledUntil'[d] >= throttledUntil[d] \/ throttledUntil'[d] = clock + c
  <2>1. throttledUntil' = [throttledUntil EXCEPT ![dom[w]] = clock + c]
    BY <1>5 DEF MarkThrottledFor
  <2>2. throttledUntil'[d] = throttledUntil[d] \/ throttledUntil'[d] = clock + c
    BY <1>1, <2>1 DEF TypeOK
  <2> QED BY <1>2, <2>2
<1>6. ASSUME NEW e \in Domain, IsCoolingDown(e) PROVE throttledUntil'[d] >= throttledUntil[d]
  BY <1>1, <1>2, <1>6 DEF IsCoolingDown, TypeOK
<1>7. \/ UNCHANGED throttledUntil
      \/ \E w \in Worker : CheckCooldown(w) \/ \E c \in Cooldowns : MarkThrottledFor(w, c)
      \/ \E e \in Domain : IsCoolingDown(e)
  BY LimiterAssumption DEF Next, CrawlerNext, TimeStep, CallerStep, Tick, Release, TryWait, Acquire,
                           Complete, Wait, MarkThrottled
<1> QED BY <1>3, <1>4, <1>5, <1>6, <1>7

-----------------------------------------------------------------------------
(* The theorems.                                                           *)

\* The inductive invariant holds in every reachable state.
THEOREM LimiterInvariant == Spec => []IInv
BY InitInv, NextInv, PTL DEF Spec

\* The limiter's state always has its type.
THEOREM LimiterTypeCorrect == Spec => []TypeOK
BY LimiterInvariant, PTL DEF IInv

\* TryWait and Wait keep a domain's rate: in less than a delay no more slots
\* than the parallelism, for every delay, jitter and parallelism.
THEOREM RateIsPolite == Spec => []PoliteRate
BY LimiterInvariant, PTL DEF IInv

\* A TryWait that begins in a cooldown gets no slot before its end.
THEOREM CooldownHonoured == Spec => []NoGrantInCooldown
BY LimiterInvariant, PTL DEF IInv

\* No TryWait and no IsCoolingDown ends or shortens a cooldown that is still
\* running; only MarkThrottledFor replaces it.
THEOREM CooldownsKept == Spec => CooldownKept
<1> DEFINE Kept == \A d \in Domain : throttledUntil[d] > clock =>
                     \/ throttledUntil'[d] >= throttledUntil[d]
                     \/ \E c \in Cooldowns : throttledUntil'[d] = clock + c
<1>1. IInv /\ [Next]_vars => [Kept]_vars
  BY CooldownStep
<1>2. CooldownKept <=> [][Kept]_vars
  BY DEF CooldownKept
<1> HIDE DEF Kept
<1> QED BY <1>1, <1>2, LimiterInvariant, PTL DEF Spec

\* The crawler marks with one length only (MarkThrottled), and then nothing at all
\* shortens a cooldown that is still running.
THEOREM CrawlerShortensNothing ==
  ASSUME Cooldowns = {Cooldown}
  PROVE  Spec => [][\A d \in Domain : throttledUntil[d] > clock =>
                                      throttledUntil'[d] >= throttledUntil[d]]_vars
<1> DEFINE Kept == \A d \in Domain : throttledUntil[d] > clock =>
                                    throttledUntil'[d] >= throttledUntil[d]
<1>1. ASSUME IInv, Next PROVE Kept
  <2> SUFFICES ASSUME NEW d \in Domain, throttledUntil[d] > clock
               PROVE  throttledUntil'[d] >= throttledUntil[d]
    OBVIOUS
  <2>1. throttledUntil[d] \in Nat /\ throttledUntil[d] <= clock + Cooldown
    BY <1>1 DEF IInv, TypeOK, CooldownBound
  <2>2. throttledUntil'[d] >= throttledUntil[d] \/ throttledUntil'[d] = clock + Cooldown
    BY <1>1, CooldownStep
  <2>3. clock + Cooldown >= throttledUntil[d]
    BY <1>1, <2>1, LimiterAssumption DEF IInv, TypeOK
  <2> QED BY <2>2, <2>3
<1>2. IInv /\ [Next]_vars => [Kept]_vars
  BY <1>1
<1> HIDE DEF Kept
<1>3. Spec => [][Kept]_vars
  BY <1>2, LimiterInvariant, PTL DEF Spec
<1> QED BY <1>3 DEF Kept
=============================================================================

--------------------------- MODULE InProcessProofs ---------------------------
(***************************************************************************)
(* Proofs about what the server keeps in its own memory: the slots of the  *)
(* login-portal limiter, the price table loaded from the environment, and  *)
(* the tasks that end the process.                                         *)
(*                                                                         *)
(* The limiter, for every number of users and callers, every window, limit *)
(* and delay.  RollingWindow alone is not inductive: it speaks of every    *)
(* request ever accepted, while check() counts only the slots left in the  *)
(* Vec.  Recent says that nothing a later window can hold has been dropped *)
(* from it, by whichever clock reading, and Prompt how old a reading is.   *)
(*                                                                         *)
(* The prices, for any number of exchanges and of add-ons: a Price ID is   *)
(* only ever configured for the slot it was created for, and the plan of a *)
(* subscription is its last item.                                          *)
(*                                                                         *)
(* The shutdown, for every set of requests and any number of signals.      *)
(***************************************************************************)
EXTENDS LoginPortalLimiter, Pricing, GracefulShutdown,
        FiniteSetTheorems, SequenceTheorems, TLAPS

-----------------------------------------------------------------------------
(* The limiter. *)

(* The Vec holds part of what was accepted, and its elements have places of their own. *)
Numbered ==
    \A u \in Users :
        /\ IsFiniteSet(granted[u]) /\ slots[u] \subseteq granted[u]
        /\ \A e \in granted[u] : e.n <= Cardinality(granted[u])
        /\ \A e, f \in granted[u] : e.n = f.n => e = f

(* Whatever is still in the window now is in the Vec, although entries are dropped
   by the clock readings of others. *)
Recent == \A u \in Users : \A e \in granted[u] : e.at + WINDOW > clock => e \in slots[u]

(* A caller's clock reading is at most Delay old. *)
Prompt ==
    \A c \in Callers : call[c] # NoCall => call[c].now <= clock /\ clock <= call[c].now + Delay

(* When a refused caller may come back, an entry of a full Vec is out of the window. *)
PromiseKept ==
    \A u \in Users : promised[u] # Never =>
        \/ Cardinality(slots[u]) < MAX_PER_WINDOW
        \/ \E e \in slots[u] : e.at + WINDOW <= promised[u]

IInv == TypeOK /\ Numbered /\ Recent /\ Prompt /\ RollingWindow /\ PromiseKept

-----------------------------------------------------------------------------
(* Facts about Vecs as sets. *)

(* A set of slots that is not empty has a first one. *)
LEMMA FirstFacts ==
    ASSUME NEW s \in SUBSET Slot, s # {}
    PROVE  first(s) \in s
  <1> DEFINE places == {e.n : e \in s}
             below == OpToRel(<, Nat)
  <1>1. places \in SUBSET Nat /\ places # {}
    BY DEF Slot
  <1>2. \E m \in places : \A k \in places : ~(<<k, m>> \in below)
    <2>1. IsWellFoundedOn(below, Nat)
      BY NatLessThanWellFounded
    <2> HIDE DEF below, places
    <2>2. QED
      BY <1>1, <2>1, WFMin
  <1>3. PICK m \in places : \A k \in places : ~(k < m)
    BY <1>1, <1>2 DEF OpToRel
  <1>4. \E e \in s : \A f \in s : e.n <= f.n
    <2>1. PICK e \in s : e.n = m
      BY <1>3
    <2>2. ASSUME NEW f \in s PROVE e.n <= f.n
      <3>1. f.n \in places /\ f.n \in Nat /\ e.n \in Nat
        BY DEF Slot
      <3>2. QED
        BY <1>3, <2>1, <3>1
    <2>3. QED
      BY <2>2
  <1>5. QED
    BY <1>4 DEF first

(* What is left of a finite set has no more elements, and fewer if one is dropped. *)
LEMMA SubsetFacts ==
    ASSUME NEW S, IsFiniteSet(S), NEW T \in SUBSET S
    PROVE  /\ IsFiniteSet(T) /\ Cardinality(T) \in Nat /\ Cardinality(S) \in Nat
           /\ Cardinality(T) <= Cardinality(S)
           /\ T # S => Cardinality(T) < Cardinality(S)
  BY FS_Subset, FS_CardinalityType

(* One more element makes at most one more. *)
LEMMA AddFacts ==
    ASSUME NEW S, IsFiniteSet(S), NEW x
    PROVE  /\ IsFiniteSet(S \cup {x})
           /\ Cardinality(S) \in Nat /\ Cardinality(S \cup {x}) \in Nat
           /\ Cardinality(S \cup {x}) <= Cardinality(S) + 1
           /\ x \notin S => Cardinality(S \cup {x}) = Cardinality(S) + 1
  <1>1. IsFiniteSet(S \cup {x}) /\ Cardinality(S) \in Nat /\ Cardinality(S \cup {x}) \in Nat
    BY FS_AddElement, FS_CardinalityType
  <1>2. Cardinality(S \cup {x}) = IF x \in S THEN Cardinality(S) ELSE Cardinality(S) + 1
    BY FS_AddElement
  <1>3. QED
    BY <1>1, <1>2

-----------------------------------------------------------------------------
(* What shares a window with an accepted request is recent enough to be in the Vec, also
   by the older clock reading that check() compares with: the window was not full. *)
LEMMA WindowGrows ==
    ASSUME IInv, NEW u \in Users, NEW now \in 0..MaxTime, NEW kept, NEW slot,
           kept = retain(slots[u], now), Cardinality(kept) < MAX_PER_WINDOW, Cardinality(kept) \in Nat,
           IsFiniteSet(kept), slot \in Slot, slot.at = now, clock <= now + Delay,
           granted' = [granted EXCEPT ![u] = @ \cup {slot}]
    PROVE  RollingWindow'
  <1> USE LimiterAssumption
  <1>1. granted \in [Users -> SUBSET Slot] /\ clock \in 0..MaxTime /\ IsFiniteSet(granted[u])
    BY DEF IInv, TypeOK, Numbered
  <1>2. granted'[u] = granted[u] \cup {slot} /\ \A v \in Users \ {u} : granted'[v] = granted[v]
    BY <1>1
  <1>3. ASSUME NEW t \in 0..MaxTime
        PROVE  Cardinality({e \in granted'[u] : e.at <= t /\ t < e.at + (WINDOW - Delay)}) <= MAX_PER_WINDOW
    <2> DEFINE W == {e \in granted'[u] : e.at <= t /\ t < e.at + (WINDOW - Delay)}
    <2>1. CASE now <= t /\ t < now + (WINDOW - Delay)
      <3>1. ASSUME NEW e \in granted[u], e.at <= t, t < e.at + (WINDOW - Delay) PROVE e \in kept
        <4>1. e \in Slot
          BY <1>1
        <4>2. e.at \in Nat /\ now \in Nat /\ clock \in Nat /\ t \in Nat /\ WINDOW \in Nat /\ Delay \in 0..WINDOW
          BY <1>1, <4>1 DEF Slot
        <4>3. e.at + WINDOW > t + Delay
          BY <3>1, <4>2
        <4>4. e.at + WINDOW > now /\ e.at + WINDOW > clock
          BY <2>1, <4>2, <4>3
        <4>5. QED
          BY <4>4 DEF IInv, Recent, retain
      <3>2. W \in SUBSET (kept \cup {slot})
        BY <1>2, <3>1
      <3>3. /\ IsFiniteSet(kept \cup {slot}) /\ Cardinality(kept \cup {slot}) \in Nat
            /\ Cardinality(kept \cup {slot}) <= Cardinality(kept) + 1
        BY AddFacts
      <3>4. Cardinality(W) <= Cardinality(kept \cup {slot}) /\ Cardinality(W) \in Nat
        <4> HIDE DEF W
        <4>1. QED
          BY <3>2, <3>3, SubsetFacts
      <3>5. QED
        BY <3>3, <3>4
    <2>2. CASE ~(now <= t /\ t < now + (WINDOW - Delay))
      <3>1. W = {e \in granted[u] : e.at <= t /\ t < e.at + (WINDOW - Delay)}
        BY <1>2, <2>2
      <3>2. QED
        BY <3>1 DEF IInv, RollingWindow
    <2>3. QED
      BY <2>1, <2>2
  <1>4. QED
    BY <1>2, <1>3 DEF IInv, RollingWindow

(* Dropping old entries keeps what is promised of a user's Vec. *)
LEMMA Retained ==
    ASSUME IInv, NEW u \in Users, NEW now \in 0..MaxTime, now <= clock, NEW kept, kept = retain(slots[u], now)
    PROVE  /\ kept \in SUBSET slots[u] /\ kept \in SUBSET Slot /\ kept \in SUBSET granted[u]
           /\ IsFiniteSet(kept) /\ Cardinality(kept) \in Nat
           /\ Cardinality(kept) <= MAX_PER_WINDOW
           /\ \A e \in granted[u] : e.at + WINDOW > clock => e \in kept
           /\ promised[u] # Never =>
                  \/ Cardinality(kept) < MAX_PER_WINDOW
                  \/ \E e \in kept : e.at + WINDOW <= promised[u]
  <1> USE LimiterAssumption
  <1>1. /\ kept \in SUBSET slots[u] /\ slots[u] \in SUBSET granted[u] /\ granted[u] \in SUBSET Slot
        /\ slots[u] \in SUBSET Slot /\ IsFiniteSet(granted[u])
        /\ clock \in Nat /\ Cardinality(slots[u]) <= MAX_PER_WINDOW
    BY DEF retain, IInv, TypeOK, Numbered
  <1>2. IsFiniteSet(slots[u])
    BY <1>1, SubsetFacts
  <1>3. /\ IsFiniteSet(kept) /\ Cardinality(kept) \in Nat /\ Cardinality(slots[u]) \in Nat
        /\ Cardinality(kept) <= Cardinality(slots[u])
        /\ kept # slots[u] => Cardinality(kept) < Cardinality(slots[u])
    BY <1>1, <1>2, SubsetFacts
  <1>4. ASSUME NEW e \in granted[u], e.at + WINDOW > clock PROVE e \in kept
    <2>1. e \in slots[u] /\ e \in Slot
      BY <1>1, <1>4 DEF IInv, Recent
    <2>2. e.at \in Nat /\ e.at + WINDOW > now
      BY <1>1, <1>4, <2>1 DEF Slot
    <2>3. QED
      BY <2>1, <2>2 DEF retain
  <1>5. promised[u] # Never =>
            \/ Cardinality(kept) < MAX_PER_WINDOW
            \/ \E e \in kept : e.at + WINDOW <= promised[u]
    BY <1>1, <1>3 DEF IInv, PromiseKept
  <1>6. QED
    BY <1>1, <1>3, <1>4, <1>5

-----------------------------------------------------------------------------
(* The invariant holds initially and every step keeps it. *)

(* Empty Vecs, no caller and nothing promised. *)
LEMMA InitInv == Init => IInv
  <1> SUFFICES ASSUME Init PROVE IInv
    OBVIOUS
  <1> USE LimiterAssumption
  <1>1. IsFiniteSet({}) /\ Cardinality({}) = 0
    BY FS_EmptySet
  <1>2. NoCall \in [user : Users \cup {"none"}, now : 0..MaxTime] /\ Never \in 0..Never
    BY DEF NoCall, Never
  <1>3. TypeOK
    BY <1>1, <1>2 DEF Init, TypeOK
  <1>4. Numbered /\ Recent /\ Prompt /\ PromiseKept
    BY <1>1 DEF Init, Numbered, Recent, Prompt, PromiseKept
  <1>5. RollingWindow
    <2>1. ASSUME NEW u \in Users, NEW t \in 0..MaxTime
          PROVE  {e \in granted[u] : e.at <= t /\ t < e.at + (WINDOW - Delay)} = {}
      BY DEF Init
    <2>2. QED
      BY <1>1, <2>1 DEF RollingWindow
  <1>6. QED
    BY <1>3, <1>4, <1>5 DEF IInv

(* A clock reading is as young as can be. *)
LEMMA ReadClockInv ==
    ASSUME IInv, NEW c \in Callers, NEW u \in Users, read_clock(c, u)
    PROVE  IInv'
  <1> USE LimiterAssumption
  <1>1. UNCHANGED <<clock, slots, granted, promised>>
    BY DEF read_clock
  <1>2. /\ call' \in [Callers -> [user : Users \cup {"none"}, now : 0..MaxTime]]
        /\ call'[c].now = clock /\ \A d \in Callers \ {c} : call'[d] = call[d]
    BY DEF read_clock, IInv, TypeOK
  <1>3. TypeOK' /\ Prompt'
    BY <1>1, <1>2 DEF IInv, TypeOK, Prompt, NoCall
  <1>4. Numbered' /\ Recent' /\ RollingWindow' /\ PromiseKept'
    BY <1>1 DEF IInv, Numbered, Recent, RollingWindow, PromiseKept
  <1>5. QED
    BY <1>3, <1>4 DEF IInv

(* Time passes: fewer slots are recent, and nobody waits longer than Delay. *)
LEMMA TickInv ==
    ASSUME IInv, Tick
    PROVE  IInv'
  <1> USE LimiterAssumption
  <1>1. UNCHANGED <<slots, call, granted, promised>> /\ clock' = clock + 1 /\ clock' \in 0..MaxTime
    BY DEF Tick, IInv, TypeOK
  <1>2. TypeOK' /\ Numbered' /\ RollingWindow' /\ PromiseKept'
    BY <1>1 DEF IInv, TypeOK, Numbered, RollingWindow, PromiseKept
  <1>3. Recent'
    BY <1>1 DEF IInv, TypeOK, Recent, Slot
  <1>4. Prompt'
    <2>1. ASSUME NEW c \in Callers, call[c] # NoCall
          PROVE  call[c].now <= clock + 1 /\ clock + 1 <= call[c].now + Delay
      <3>1. call[c].now \in Nat /\ clock \in Nat /\ Delay \in Nat
        BY DEF IInv, TypeOK
      <3>2. call[c].now <= clock /\ clock < call[c].now + Delay
        BY <2>1 DEF IInv, Prompt, Tick
      <3>3. QED
        BY <3>1, <3>2
    <2>2. QED
      BY <1>1, <2>1 DEF Prompt
  <1>5. QED
    BY <1>2, <1>3, <1>4 DEF IInv

(* The sweep drops by the clock itself. *)
LEMMA SweepInv ==
    ASSUME IInv, sweep
    PROVE  IInv'
  <1>1. UNCHANGED <<clock, call, granted, promised>> /\ clock \in 0..MaxTime /\ clock <= clock
    BY LimiterAssumption DEF sweep, IInv, TypeOK
  <1>2. \A u \in Users : slots'[u] = retain(slots[u], clock)
    BY DEF sweep
  <1>3. \A u \in Users :
           /\ slots'[u] \in SUBSET Slot /\ slots'[u] \in SUBSET granted[u]
           /\ Cardinality(slots'[u]) <= MAX_PER_WINDOW
           /\ \A e \in granted[u] : e.at + WINDOW > clock => e \in slots'[u]
           /\ promised[u] # Never =>
                  \/ Cardinality(slots'[u]) < MAX_PER_WINDOW
                  \/ \E e \in slots'[u] : e.at + WINDOW <= promised[u]
    BY <1>1, <1>2, Retained
  <1>4. slots' \in [Users -> SUBSET Slot]
    BY <1>3 DEF sweep
  <1>5. TypeOK'
    BY <1>1, <1>3, <1>4 DEF IInv, TypeOK
  <1>6. Numbered' /\ Recent'
    BY <1>1, <1>3 DEF IInv, Numbered, Recent
  <1>7. PromiseKept' /\ Prompt' /\ RollingWindow'
    BY <1>1, <1>3 DEF IInv, PromiseKept, Prompt, RollingWindow
  <1>8. QED
    BY <1>5, <1>6, <1>7 DEF IInv

(* A restart is a fresh start at a later time. *)
LEMMA RestartInv ==
    ASSUME IInv, Restart
    PROVE  IInv'
  <1> USE LimiterAssumption
  <1>1. IsFiniteSet({}) /\ Cardinality({}) = 0
    BY FS_EmptySet
  <1>2. NoCall \in [user : Users \cup {"none"}, now : 0..MaxTime] /\ Never \in 0..Never
    BY DEF NoCall, Never
  <1>3. TypeOK'
    BY <1>1, <1>2 DEF Restart, IInv, TypeOK
  <1>4. Numbered' /\ Recent' /\ Prompt' /\ PromiseKept'
    BY <1>1 DEF Restart, Numbered, Recent, Prompt, PromiseKept
  <1>5. RollingWindow'
    <2>1. ASSUME NEW u \in Users, NEW t \in 0..MaxTime
          PROVE  {e \in granted'[u] : e.at <= t /\ t < e.at + (WINDOW - Delay)} = {}
      BY DEF Restart
    <2>2. ASSUME NEW u \in Users, NEW t \in 0..MaxTime
          PROVE  Cardinality({e \in granted'[u] : e.at <= t /\ t < e.at + (WINDOW - Delay)}) <= MAX_PER_WINDOW
      BY <1>1, <2>1
    <2>3. QED
      BY <2>2 DEF RollingWindow
  <1>6. QED
    BY <1>3, <1>4, <1>5 DEF IInv

(* The caller is accepted or told when to come back. *)
LEMMA CheckInv ==
    ASSUME IInv, NEW c \in Callers, check(c)
    PROVE  IInv'
  <1> USE LimiterAssumption
  <1> DEFINE u == call[c].user
             now == call[c].now
             kept == retain(slots[u], now)
             slot == [n |-> Cardinality(granted[u]) + 1, at |-> now]
  <1>1. u \in Users /\ call[c] # NoCall /\ now \in 0..MaxTime
    BY DEF check, IInv, TypeOK, NoCall
  <1>2. now <= clock /\ clock <= now + Delay
    BY <1>1 DEF IInv, Prompt
  <1>3. /\ call' = [call EXCEPT ![c] = NoCall] /\ clock' = clock
        /\ NoCall \in [user : Users \cup {"none"}, now : 0..MaxTime]
    BY DEF check, NoCall
  <1>4. call' \in [Callers -> [user : Users \cup {"none"}, now : 0..MaxTime]]
    BY <1>3 DEF IInv, TypeOK
  <1>5. Prompt'
    BY <1>3 DEF IInv, TypeOK, Prompt
  <1>6. PICK k : k = kept
    OBVIOUS
  <1>7. PICK x : x = slot
    OBVIOUS
  <1>8. PICK w \in Users : w = u
    BY <1>1
  <1>9. PICK p \in 0..MaxTime : p = now
    BY <1>1
  <1>10. k = retain(slots[w], p) /\ x = [n |-> Cardinality(granted[w]) + 1, at |-> p]
    BY <1>6, <1>7, <1>8, <1>9
  <1>11. /\ k \in SUBSET slots[w] /\ k \in SUBSET Slot /\ k \in SUBSET granted[w]
         /\ IsFiniteSet(k) /\ Cardinality(k) \in Nat
         /\ Cardinality(k) <= MAX_PER_WINDOW
         /\ \A e \in granted[w] : e.at + WINDOW > clock => e \in k
    BY <1>2, <1>9, <1>10, Retained
  <1>12. \/ /\ Cardinality(k) >= MAX_PER_WINDOW
            /\ slots' = [slots EXCEPT ![w] = k]
            /\ promised' = [promised EXCEPT ![w] = retry_after(k, p)]
            /\ granted' = granted
         \/ /\ ~(Cardinality(k) >= MAX_PER_WINDOW)
            /\ slots' = [slots EXCEPT ![w] = k \cup {x}]
            /\ granted' = [granted EXCEPT ![w] = @ \cup {x}]
            /\ promised' = [promised EXCEPT ![w] = Never]
    BY <1>6, <1>7, <1>8, <1>9 DEF check
  <1> HIDE DEF u, now, kept, slot
  <1>13. /\ slots \in [Users -> SUBSET Slot] /\ granted \in [Users -> SUBSET Slot]
         /\ promised \in [Users -> 0..Never] /\ clock \in 0..MaxTime
    BY DEF IInv, TypeOK
  <1>14. CASE /\ Cardinality(k) >= MAX_PER_WINDOW
              /\ slots' = [slots EXCEPT ![w] = k]
              /\ promised' = [promised EXCEPT ![w] = retry_after(k, p)]
              /\ granted' = granted
    <2>1. k # {}
      BY <1>14, FS_EmptySet
    <2>2. first(k) \in k /\ first(k) \in Slot
      BY <1>11, <2>1, FirstFacts
    <2>3. first(k).at \in 0..MaxTime
      BY <2>2 DEF Slot
    <2>4. retry_after(k, p) \in 0..Never /\ first(k).at + WINDOW <= retry_after(k, p)
      BY <2>3 DEF retry_after, Never
    <2>5. /\ slots'[w] = k /\ promised'[w] = retry_after(k, p)
          /\ \A v \in Users \ {w} : slots'[v] = slots[v] /\ promised'[v] = promised[v]
      BY <1>13, <1>14
    <2>6. TypeOK'
      BY <1>3, <1>4, <1>11, <1>13, <1>14, <2>4, <2>5 DEF IInv, TypeOK
    <2>7. Numbered' /\ Recent'
      BY <1>3, <1>11, <1>14, <2>5 DEF IInv, Numbered, Recent
    <2>8. RollingWindow'
      BY <1>14 DEF IInv, RollingWindow
    <2>9. PromiseKept'
      BY <2>2, <2>4, <2>5 DEF IInv, PromiseKept
    <2>10. QED
      BY <1>5, <2>6, <2>7, <2>8, <2>9 DEF IInv
  <1>15. CASE /\ ~(Cardinality(k) >= MAX_PER_WINDOW)
              /\ slots' = [slots EXCEPT ![w] = k \cup {x}]
              /\ granted' = [granted EXCEPT ![w] = @ \cup {x}]
              /\ promised' = [promised EXCEPT ![w] = Never]
    <2>1. /\ IsFiniteSet(granted[w]) /\ Cardinality(granted[w]) \in Nat
          /\ \A e \in granted[w] : e.n <= Cardinality(granted[w])
      BY FS_CardinalityType DEF IInv, Numbered
    <2>2. x \in Slot /\ x.at = p /\ x.n = Cardinality(granted[w]) + 1
      BY <1>10, <2>1 DEF Slot
    <2>3. x \notin granted[w]
      BY <1>13, <2>1, <2>2 DEF Slot
    <2>4. /\ slots'[w] = k \cup {x} /\ granted'[w] = granted[w] \cup {x} /\ promised'[w] = Never
          /\ \A v \in Users \ {w} : /\ slots'[v] = slots[v] /\ granted'[v] = granted[v]
                                    /\ promised'[v] = promised[v]
      BY <1>13, <1>15
    <2>5. /\ IsFiniteSet(granted'[w]) /\ Cardinality(granted'[w]) = Cardinality(granted[w]) + 1
          /\ Cardinality(slots'[w]) \in Nat /\ Cardinality(slots'[w]) <= Cardinality(k) + 1
      <3>1. /\ IsFiniteSet(granted[w] \cup {x})
            /\ Cardinality(granted[w] \cup {x}) = Cardinality(granted[w]) + 1
        BY <2>1, <2>3, AddFacts
      <3>2. Cardinality(k \cup {x}) \in Nat /\ Cardinality(k \cup {x}) <= Cardinality(k) + 1
        BY <1>11, AddFacts
      <3>3. QED
        BY <2>4, <3>1, <3>2
    <2>6. Cardinality(slots'[w]) <= MAX_PER_WINDOW
      BY <1>11, <1>15, <2>5
    <2>7. TypeOK'
      <3>1. slots' \in [Users -> SUBSET Slot] /\ granted' \in [Users -> SUBSET Slot]
        BY <1>11, <1>13, <1>15, <2>2
      <3>2. promised' \in [Users -> 0..Never]
        BY <1>13, <1>15 DEF Never
      <3>3. QED
        BY <1>3, <1>4, <1>13, <2>4, <2>6, <3>1, <3>2 DEF IInv, TypeOK
    <2>8. Numbered'
      <3>1. ASSUME NEW e \in granted'[w] PROVE e.n <= Cardinality(granted'[w])
        BY <1>13, <2>1, <2>2, <2>4, <2>5 DEF Slot
      <3>2. ASSUME NEW e \in granted'[w], NEW f \in granted'[w], e.n = f.n PROVE e = f
        <4>1. \A g \in granted[w] : g.n # x.n
          BY <1>13, <2>1, <2>2 DEF Slot
        <4>2. QED
          BY <2>4, <3>2, <4>1 DEF IInv, Numbered
      <3>3. slots'[w] \subseteq granted'[w]
        BY <1>11, <2>4
      <3>4. QED
        BY <2>4, <2>5, <3>1, <3>2, <3>3 DEF IInv, Numbered
    <2>9. Recent'
      BY <1>3, <1>11, <2>4 DEF IInv, Recent
    <2>10. RollingWindow'
      <3>1. k = retain(slots[w], p) /\ clock <= p + Delay /\ Cardinality(k) < MAX_PER_WINDOW
        BY <1>2, <1>9, <1>10, <1>11, <1>15
      <3>2. granted' = [granted EXCEPT ![w] = @ \cup {x}]
        BY <1>15
      <3>3. QED
        BY <1>11, <2>2, <3>1, <3>2, WindowGrows
    <2>11. PromiseKept'
      BY <2>4 DEF IInv, PromiseKept
    <2>12. QED
      BY <1>5, <2>7, <2>8, <2>9, <2>10, <2>11 DEF IInv
  <1>16. QED
    BY <1>12, <1>14, <1>15

(* Every step keeps the invariant. *)
LEMMA NextInv == IInv /\ [Next]_vars => IInv'
  <1> SUFFICES ASSUME IInv, [Next]_vars PROVE IInv'
    OBVIOUS
  <1>1. CASE UNCHANGED vars
    <2>1. TypeOK' /\ Numbered' /\ Recent'
      BY <1>1 DEF IInv, TypeOK, Numbered, Recent, vars
    <2>2. Prompt' /\ RollingWindow' /\ PromiseKept'
      BY <1>1 DEF IInv, Prompt, RollingWindow, PromiseKept, vars
    <2>3. QED
      BY <2>1, <2>2 DEF IInv
  <1>2. QED
    BY <1>1, CheckInv, ReadClockInv, SweepInv, TickInv, RestartInv DEF Next

-----------------------------------------------------------------------------
(* Every reachable state satisfies the inductive invariant. *)
THEOREM Invariance == Spec => []IInv
  <1>1. QED
    BY InitInv, NextInv, PTL DEF Spec

(* check() accepts at most MAX_PER_WINDOW requests of a user in any WINDOW less the
   time a caller may wait for the mutex with its clock reading, whatever readings
   overtake each other and whenever the sweep runs. *)
THEOREM WindowHolds == Spec => []RollingWindow
  <1>1. IInv => RollingWindow
    BY DEF IInv
  <1>2. QED
    BY <1>1, Invariance, PTL

(* The retry_after of a refusal is long enough, although it is computed from the
   first slot, which need not be the oldest. *)
THEOREM RetrySucceeds == Spec => []RetryAfterIsEnough
  <1>1. ASSUME IInv, NEW u \in Users, clock >= promised[u]
        PROVE  Cardinality(retain(slots[u], clock)) < MAX_PER_WINDOW
    <2>1. /\ promised[u] \in Nat /\ promised[u] # Never /\ clock \in 0..MaxTime /\ clock <= clock
          /\ MAX_PER_WINDOW \in Nat
      BY <1>1, LimiterAssumption DEF IInv, TypeOK, Never
    <2>2. PICK k : k = retain(slots[u], clock)
      OBVIOUS
    <2>3. /\ k \in SUBSET Slot /\ IsFiniteSet(k) /\ Cardinality(k) \in Nat
          /\ Cardinality(k) <= MAX_PER_WINDOW
          /\ \/ Cardinality(k) < MAX_PER_WINDOW
             \/ \E e \in k : e.at + WINDOW <= promised[u]
      BY <1>1, <2>1, <2>2, Retained
    <2>4. ASSUME NEW e \in k, e.at + WINDOW <= promised[u] PROVE FALSE
      <3>1. e \in Slot /\ e.at + WINDOW > clock
        BY <2>2, <2>3 DEF retain
      <3>2. e.at \in Nat /\ WINDOW \in Nat /\ clock \in Nat
        BY <2>1, <3>1, LimiterAssumption DEF Slot
      <3>3. QED
        BY <1>1, <2>1, <2>4, <3>1, <3>2
    <2>5. QED
      BY <2>2, <2>3, <2>4
  <1>2. IInv => RetryAfterIsEnough
    BY <1>1 DEF RetryAfterIsEnough
  <1>3. QED
    BY <1>2, Invariance, PTL

-----------------------------------------------------------------------------
(* The price table. *)

(* x is a Price ID of slot s, of some generation. *)
OfSlot(x, s) == \E g \in Nat : x = Id(s, g)

(* Every slot of the environment and of the configuration is empty or has a Price ID
   that was created for it. *)
TableOwn ==
    /\ gen \in Nat
    /\ \A s \in Slots : env[s] = None \/ OfSlot(env[s], s)
    /\ billing # None => \A s \in Slots : billing[s] = <<>> \/ OfSlot(billing[s], s)

(* Price IDs: those of the slots, and the add-on's. *)
PriceIds == {Id(s, g) : s \in Slots, g \in Nat} \cup {AddOn}

Item == [id : PriceIds, plan : Metadata]

(* The last item of a subscription is the plan that was bought, with its own metadata,
   none or some that is no plan; the items before it are add-ons. *)
PlanIsLast ==
    /\ items \in Seq(Item)
    /\ items = <<>> <=> bought = None
    /\ items # <<>> =>
           /\ bought \in Plans
           /\ \E i \in Intervals : OfSlot(items[Len(items)].id, <<bought, i>>)
           /\ items[Len(items)].plan \in {bought, None, "other"}
           /\ \A n \in 1..(Len(items) - 1) :
                 items[n].id = AddOn /\ items[n].plan \in {None, "other"}

PricesInv == TableOwn /\ PlanIsLast

(* First returns the first element that is there. *)
LEMMA FirstOfSome ==
    ASSUME NEW seq, DOMAIN seq \in SUBSET Nat
    PROVE  \/ /\ First(seq) = None
              /\ \A n \in DOMAIN seq : seq[n] = None
           \/ \E n \in DOMAIN seq :
                 /\ First(seq) = seq[n] /\ seq[n] # None
                 /\ \A m \in DOMAIN seq : m < n => seq[m] = None
  <1> DEFINE some == Some(seq)
             below == OpToRel(<, Nat)
  <1>1. some \in SUBSET Nat /\ \A n \in DOMAIN seq : n \in some <=> seq[n] # None
    BY DEF Some
  <1>2. CASE some = {}
    BY <1>1, <1>2 DEF First
  <1>3. CASE some # {}
    <2>1. \E m \in some : \A k \in some : ~(<<k, m>> \in below)
      <3>1. IsWellFoundedOn(below, Nat)
        BY NatLessThanWellFounded
      <3> HIDE DEF below, some
      <3>2. QED
        BY <1>1, <1>3, <3>1, WFMin
    <2>2. PICK m \in some : \A k \in some : ~(k < m)
      BY <1>1, <2>1 DEF OpToRel
    <2> DEFINE least == CHOOSE n \in some : \A k \in some : n <= k
    <2>3. \A k \in some : m <= k
      BY <1>1, <2>2
    <2>4. least \in some /\ \A k \in some : least <= k
      BY <2>3
    <2>5. First(seq) = seq[least]
      BY <1>3 DEF First
    <2> HIDE DEF least, some
    <2>6. least \in DOMAIN seq /\ seq[least] # None
      BY <2>4 DEF some, Some
    <2>7. ASSUME NEW n \in DOMAIN seq, n < least PROVE seq[n] = None
      BY <1>1, <2>4, <2>6, <2>7
    <2>8. QED
      BY <2>5, <2>6, <2>7
  <1>4. QED
    BY <1>2, <1>3

(* A Price ID in slot s of the table was created for s. *)
LEMMA TableEntry ==
    ASSUME PricesInv, billing # None, NEW s \in Slots, NEW t, NEW g,
           billing[s] = Id(t, g)
    PROVE  s = t
  <1>1. billing[s] = <<>> \/ OfSlot(billing[s], s)
    BY DEF PricesInv, TableOwn
  <1>2. billing[s] # <<>>
    BY DEF Id
  <1>3. PICK h \in Nat : billing[s] = Id(s, h)
    BY <1>1, <1>2 DEF OfSlot
  <1>4. QED
    BY <1>3 DEF Id

(* plan_for recognises a configured Price ID of a plan as that plan, and nothing else. *)
LEMMA PlanForFacts ==
    ASSUME PricesInv, billing # None
    PROVE  /\ plan_for(AddOn) = None
           /\ \A p \in Plans, i \in Intervals, g \in Nat :
                 LET x == Id(<<p, i>>, g) IN
                 /\ plan_for(x) \in {p, None}
                 /\ (\E s \in Slots : x = billing[s]) => plan_for(x) = p
  <1> DEFINE sells(x, p) == \E i \in Intervals : x = billing[<<p, i>>]
  <1>1. \A x : plan_for(x) = IF sells(x, "basic") THEN "basic"
                                   ELSE IF sells(x, "pro") THEN "pro"
                                   ELSE IF sells(x, "enterprise") THEN "enterprise"
                                   ELSE None
    BY DEF plan_for
  <1>2. ASSUME NEW q \in Plans, NEW j, NEW p, NEW g,
               sells(Id(<<p, j>>, g), q)
        PROVE  p = q
    <2>1. PICK i \in Intervals : billing[<<q, i>>] = Id(<<p, j>>, g)
      BY <1>2
    <2>2. <<q, i>> \in Slots
      BY DEF Slots
    <2>3. <<q, i>> = <<p, j>>
      BY <2>1, <2>2, TableEntry
    <2>4. QED
      BY <2>3
  <1>3. plan_for(AddOn) = None
    <2>1. \A q \in Plans : ~sells(Id(<<"addon", "monthly">>, 0), q)
      <3> SUFFICES ASSUME NEW q \in Plans, sells(Id(<<"addon", "monthly">>, 0), q)
                   PROVE  FALSE
        OBVIOUS
      <3> HIDE DEF sells
      <3>1. "addon" = q
        BY <1>2
      <3>2. QED
        BY <3>1 DEF Plans
    <2> HIDE DEF sells
    <2>2. QED
      BY <1>1, <2>1 DEF Plans, AddOn
  <1>4. ASSUME NEW p \in Plans, NEW i \in Intervals, NEW g \in Nat,
               NEW x, x = Id(<<p, i>>, g)
        PROVE  /\ plan_for(x) \in {p, None}
               /\ (\E s \in Slots : x = billing[s]) => plan_for(x) = p
    <2>1. \A q \in Plans : sells(x, q) => p = q
      <3> HIDE DEF sells
      <3>1. QED
        BY <1>2, <1>4
    <2>2. (\E s \in Slots : x = billing[s]) => sells(x, p)
      <3> SUFFICES ASSUME NEW s \in Slots, x = billing[s] PROVE sells(x, p)
        OBVIOUS
      <3>1. s = <<p, i>>
        BY <1>4, TableEntry
      <3>2. QED
        BY <3>1
    <2> HIDE DEF sells
    <2>3. QED
      BY <1>1, <2>1, <2>2 DEF Plans
  <1>5. QED
    BY <1>3, <1>4

(* resolve_tier gives the plan bought or nothing, and the plan whenever the price of some
   item is still configured. *)
LEMMA ResolveFacts ==
    ASSUME PricesInv, billing # None, bought # None
    PROVE  /\ resolve_tier(items) \in {bought, None}
           /\ \A s \in Slots :
                 billing[s] # <<>> /\ (\E n \in DOMAIN items : items[n].id = billing[s])
                     => resolve_tier(items) = bought
  <1> DEFINE last == Len(items)
             plans == [n \in DOMAIN items |-> items[n].plan]
             known == [n \in DOMAIN items |-> plan_for(items[n].id)]
  <1>1. /\ items \in Seq(Item) /\ last \in Nat /\ last \in DOMAIN items /\ DOMAIN items = 1..last
        /\ bought \in Plans
    BY DEF PricesInv, PlanIsLast
  <1>2. \A n \in DOMAIN items :
           n # last => items[n].id = AddOn /\ items[n].plan \in {None, "other"}
    BY <1>1 DEF PricesInv, PlanIsLast
  <1>3. items[last].plan \in {bought, None, "other"}
    BY <1>1 DEF PricesInv, PlanIsLast
  <1>4. PICK i \in Intervals, g \in Nat : items[last].id = Id(<<bought, i>>, g)
    BY <1>1 DEF PricesInv, PlanIsLast, OfSlot
  <1>5. First(plans) \in Plans => First(plans) = bought
    <2>1. \A n \in DOMAIN plans : plans[n] \in {bought, None, "other"}
      BY <1>2, <1>3
    <2>2. DOMAIN plans \in SUBSET Nat
      BY <1>1
    <2> HIDE DEF plans
    <2>3. First(plans) = None \/ \E n \in DOMAIN plans : First(plans) = plans[n]
      BY <2>2, FirstOfSome
    <2>4. QED
      BY <2>1, <2>3, PricingAssumption DEF Plans
  <1>6. /\ known[last] \in {bought, None}
        /\ \A n \in DOMAIN known : n # last => known[n] = None
        /\ DOMAIN known \in SUBSET Nat /\ last \in DOMAIN known
    BY <1>1, <1>2, <1>4, PlanForFacts
  <1>7. First(known) = known[last]
    <2> HIDE DEF known, last
    <2>1. QED
      BY <1>6, FirstOfSome
  <1>8. resolve_tier(items) = IF First(plans) \in Plans
                                     THEN First(plans) ELSE First(known)
    BY DEF resolve_tier
  <1>9. ASSUME NEW s \in Slots, billing[s] # <<>>,
               NEW n \in DOMAIN items, items[n].id = billing[s]
        PROVE  known[last] = bought
    <2>1. n = last
      <3>1. ASSUME n # last PROVE FALSE
        <4>1. billing[s] = Id(<<"addon", "monthly">>, 0)
          BY <1>2, <1>9, <3>1 DEF AddOn
        <4>2. s = <<"addon", "monthly">>
          BY <4>1, TableEntry
        <4>3. QED
          BY <4>2 DEF Slots, Plans
      <3>2. QED
        BY <3>1
    <2>2. items[last].id = billing[s]
      BY <1>9, <2>1
    <2>3. plan_for(items[last].id) = bought
      BY <1>1, <1>4, <2>2, PlanForFacts
    <2>4. QED
      BY <1>1, <2>3
  <1> HIDE DEF plans, known, last
  <1>10. QED
    BY <1>5, <1>6, <1>7, <1>8, <1>9

(* The first start has nothing loaded and nobody has bought anything. *)
LEMMA PricesInitInv ==
    ASSUME PricingInit
    PROVE  PricesInv
  <1>1. TableOwn
    <2>1. PICK set \in SUBSET Slots :
             env = [s \in Slots |-> IF s \in set THEN Id(s, 0) ELSE None]
      BY DEF PricingInit
    <2>2. \A s \in Slots : env[s] = None \/ OfSlot(env[s], s)
      BY <2>1 DEF OfSlot
    <2>3. QED
      BY <2>2 DEF PricingInit, TableOwn
  <1>2. PlanIsLast
    BY DEF PricingInit, PlanIsLast
  <1>3. QED
    BY <1>1, <1>2 DEF PricesInv

(* The configuration is loaded slot by slot. *)
LEMMA StartInv ==
    ASSUME PricesInv, start
    PROVE  PricesInv'
  <1>1. UNCHANGED <<env, gen, items, bought>>
    BY DEF start
  <1>2. \A s \in Slots : billing'[s] = <<>> \/ OfSlot(billing'[s], s)
    BY DEF PricesInv, TableOwn, start, build_billing_config
  <1>3. TableOwn'
    BY <1>1, <1>2 DEF PricesInv, TableOwn
  <1>4. PlanIsLast'
    BY <1>1 DEF PricesInv, PlanIsLast
  <1>5. QED
    BY <1>3, <1>4 DEF PricesInv

(* A price that is for sale is one of its slot. *)
LEMMA LookupFacts ==
    ASSUME PricesInv, billing # None, NEW p \in Plans, NEW i \in Intervals,
           lookup(<<p, i>>) # None, NEW meta \in {p, None, "other"}
    PROVE  /\ OfSlot(lookup(<<p, i>>), <<p, i>>)
           /\ [id |-> lookup(<<p, i>>), plan |-> meta] \in Item
  <1>1. <<p, i>> \in Slots
    BY DEF Slots
  <1>2. billing[<<p, i>>] # <<>> /\ lookup(<<p, i>>) = billing[<<p, i>>]
    BY DEF lookup
  <1>3. OfSlot(billing[<<p, i>>], <<p, i>>)
    BY <1>1, <1>2 DEF PricesInv, TableOwn
  <1>4. meta \in Metadata
    BY DEF Metadata
  <1>5. QED
    BY <1>1, <1>2, <1>3, <1>4 DEF OfSlot, Item, PriceIds

(* A plan is bought: a subscription of one item. *)
LEMMA CheckoutInv ==
    ASSUME PricesInv,
           NEW p \in Plans, NEW i \in Intervals, NEW meta \in {p, None, "other"},
           create_checkout_session(p, i, meta)
    PROVE  PricesInv'
  <1>1. UNCHANGED <<env, billing, gen>> /\ billing # None /\ lookup(<<p, i>>) # None
    BY DEF create_checkout_session
  <1>2. PICK item : item = [id |-> lookup(<<p, i>>), plan |-> meta]
    OBVIOUS
  <1>3. item \in Item /\ OfSlot(item.id, <<p, i>>) /\ item.plan = meta
    BY <1>1, <1>2, LookupFacts
  <1>4. items' = <<item>> /\ bought' = p
    BY <1>2 DEF create_checkout_session
  <1>5. /\ items' \in Seq(Item) /\ items' # <<>> /\ Len(items') = 1 /\ items'[1] = item
        /\ \A n \in 1..(Len(items') - 1) : FALSE
    BY <1>3, <1>4
  <1>6. PlanIsLast'
    BY <1>3, <1>4, <1>5, PricingAssumption DEF PlanIsLast
  <1>7. TableOwn'
    BY <1>1 DEF PricesInv, TableOwn
  <1>8. QED
    BY <1>6, <1>7 DEF PricesInv

(* The plan is changed: the last item is replaced. *)
LEMMA ChangePlanInv ==
    ASSUME PricesInv,
           NEW p \in Plans, NEW i \in Intervals, NEW meta \in {p, None, "other"},
           ChangePlan(p, i, meta)
    PROVE  PricesInv'
  <1>1. UNCHANGED <<env, billing, gen>> /\ billing # None /\ lookup(<<p, i>>) # None
    BY DEF ChangePlan
  <1>2. PICK item : item = [id |-> lookup(<<p, i>>), plan |-> meta]
    OBVIOUS
  <1>3. item \in Item /\ OfSlot(item.id, <<p, i>>) /\ item.plan = meta
    BY <1>1, <1>2, LookupFacts
  <1>4. items' = SubSeq(items, 1, Len(items) - 1) \o <<item>> /\ bought' = p
    BY <1>2 DEF ChangePlan
  <1>5. items \in Seq(Item) /\ items # <<>> /\ Len(items) \in Nat \ {0}
    BY DEF PricesInv, PlanIsLast, ChangePlan
  <1>6. PICK addons : addons = SubSeq(items, 1, Len(items) - 1)
    OBVIOUS
  <1>7. /\ addons \in Seq(Item) /\ Len(addons) = Len(items) - 1
        /\ \A n \in 1..(Len(items) - 1) : addons[n] = items[n]
    <2>1. PICK k \in Nat : k = Len(items) - 1
      BY <1>5
    <2>2. k \in Int /\ 1 \in Int /\ \A n \in 1..k : items[n] \in Item
      BY <1>5, <2>1
    <2>3. /\ SubSeq(items, 1, k) \in Seq(Item)
          /\ Len(SubSeq(items, 1, k)) = IF 1 <= k THEN k - 1 + 1 ELSE 0
          /\ \A n \in 1..(k - 1 + 1) : SubSeq(items, 1, k)[n] = items[1 + n - 1]
      BY <2>2, SubSeqProperties
    <2>4. \A n \in 1..k : 1 + n - 1 = n /\ n \in 1..(k - 1 + 1)
      BY <2>1
    <2>5. addons = SubSeq(items, 1, k)
      BY <1>6, <2>1
    <2>6. addons \in Seq(Item) /\ Len(addons) = k
      BY <2>1, <2>3, <2>5
    <2>7. \A n \in 1..k : addons[n] = items[n]
      BY <2>3, <2>4, <2>5
    <2>8. QED
      BY <2>1, <2>6, <2>7
  <1>8. /\ items' \in Seq(Item) /\ Len(items') = Len(items) /\ items'[Len(items)] = item
        /\ \A n \in 1..(Len(items) - 1) : items'[n] = items[n]
    BY <1>3, <1>4, <1>5, <1>6, <1>7
  <1>9. items' # <<>>
    BY <1>5, <1>8
  <1>10. \A n \in 1..(Len(items) - 1) :
            items[n].id = AddOn /\ items[n].plan \in {None, "other"}
    BY <1>5 DEF PricesInv, PlanIsLast
  <1>11. PlanIsLast'
    BY <1>3, <1>4, <1>8, <1>9, <1>10, PricingAssumption DEF PlanIsLast
  <1>12. TableOwn'
    BY <1>1 DEF PricesInv, TableOwn
  <1>13. QED
    BY <1>11, <1>12 DEF PricesInv

(* An add-on moves the plan's item one place down. *)
LEMMA AddItemInv ==
    ASSUME PricesInv, NEW meta \in {None, "other"}, AddItem(meta)
    PROVE  PricesInv'
  <1>1. PICK addon : addon = [id |-> AddOn, plan |-> meta]
    OBVIOUS
  <1>2. addon \in Item /\ addon.id = AddOn /\ addon.plan \in {None, "other"}
    <2>1. meta \in Metadata
      BY DEF Metadata
    <2>2. QED
      BY <1>1, <2>1 DEF Item, PriceIds
  <1>3. items' = <<addon>> \o items /\ UNCHANGED <<env, billing, gen, bought>>
    BY <1>1 DEF AddItem
  <1>4. items \in Seq(Item) /\ items # <<>> /\ Len(items) \in Nat \ {0}
    BY DEF PricesInv, PlanIsLast, AddItem
  <1>5. /\ items' \in Seq(Item) /\ Len(items') = Len(items) + 1 /\ items'[1] = addon
        /\ \A n \in 2..(Len(items) + 1) : items'[n] = items[n - 1]
    BY <1>2, <1>3, <1>4
  <1>6. items' # <<>> /\ items'[Len(items')] = items[Len(items)]
    BY <1>4, <1>5
  <1>7. ASSUME NEW n \in 1..(Len(items') - 1)
        PROVE  items'[n].id = AddOn /\ items'[n].plan \in {None, "other"}
    <2>1. CASE n = 1
      BY <1>2, <1>5, <2>1
    <2>2. CASE n # 1
      <3>1. items'[n] = items[n - 1] /\ n - 1 \in 1..(Len(items) - 1)
        BY <1>4, <1>5, <2>2
      <3>2. QED
        BY <1>4, <3>1 DEF PricesInv, PlanIsLast
    <2>3. QED
      BY <2>1, <2>2
  <1>8. PlanIsLast'
    BY <1>3, <1>4, <1>5, <1>6, <1>7 DEF PricesInv, PlanIsLast
  <1>9. TableOwn'
    BY <1>3 DEF PricesInv, TableOwn
  <1>10. QED
    BY <1>8, <1>9 DEF PricesInv

(* Prices are exchanged in the slot they belong to, and none is loaded. *)
LEMMA ExchangeInv ==
    ASSUME PricesInv, NEW renewed, NEW dropped, Exchange(renewed, dropped)
    PROVE  PricesInv'
  <1>1. gen' \in Nat /\ billing' = None /\ UNCHANGED <<items, bought>> /\ gen \in Nat
    BY DEF Exchange, PricesInv, TableOwn
  <1>2. ASSUME NEW s \in Slots
        PROVE  env'[s] = None \/ OfSlot(env'[s], s)
    <2>1. env'[s] \in {Id(s, gen + 1), None, env[s]}
      BY DEF Exchange
    <2>2. OfSlot(Id(s, gen + 1), s)
      BY <1>1 DEF OfSlot
    <2>3. QED
      BY <2>1, <2>2 DEF PricesInv, TableOwn
  <1>3. TableOwn'
    BY <1>1, <1>2 DEF TableOwn
  <1>4. PlanIsLast'
    BY <1>1 DEF PricesInv, PlanIsLast
  <1>5. QED
    BY <1>3, <1>4 DEF PricesInv

(* Every step keeps the invariant. *)
LEMMA PricesNextInv ==
    ASSUME PricesInv, [PricingNext]_pricingVars
    PROVE  PricesInv'
  <1>1. CASE start
    BY <1>1, StartInv
  <1>2. ASSUME NEW p \in Plans, NEW i \in Intervals, NEW meta \in {p, None, "other"},
               create_checkout_session(p, i, meta) \/ ChangePlan(p, i, meta)
        PROVE  PricesInv'
    BY <1>2, CheckoutInv, ChangePlanInv
  <1>3. ASSUME NEW meta \in {None, "other"}, AddItem(meta) PROVE PricesInv'
    BY <1>3, AddItemInv
  <1>4. ASSUME NEW renewed \in SUBSET Slots, NEW dropped \in SUBSET (Slots \ renewed),
               Exchange(renewed, dropped)
        PROVE  PricesInv'
    BY <1>4, ExchangeInv
  <1>5. CASE UNCHANGED pricingVars
    BY <1>5 DEF pricingVars, PricesInv, TableOwn, PlanIsLast
  <1>6. QED
    BY <1>1, <1>2, <1>3, <1>4, <1>5 DEF PricingNext

(* The invariant holds throughout. *)
THEOREM PricesInvariance == PricingSpec => []PricesInv
  <1>1. PricingInit => PricesInv
    BY PricesInitInv
  <1>2. PricesInv /\ [PricingNext]_pricingVars => PricesInv'
    BY PricesNextInv
  <1>3. QED
    BY <1>1, <1>2, PTL DEF PricingSpec

(* However many prices were exchanged or taken off sale and whatever add-ons precede it:
   resolve_tier gives the plan that was paid for as long as its price is configured, and
   a subscription whose price is not never becomes a plan that was not bought. *)
THEOREM PlanIsResolved == PricingSpec => []BoughtIsResolved
  <1>1. PricesInv => BoughtIsResolved
    <2> SUFFICES ASSUME PricesInv, bought # None, billing # None
                 PROVE  /\ webhook_tier \in {bought, "basic"}
                        /\ \A s \in Slots :
                              billing[s] # <<>> /\ (\E n \in DOMAIN items : items[n].id = billing[s])
                                  => webhook_tier = bought
      BY DEF BoughtIsResolved
    <2>1. bought \in Plans
      BY DEF PricesInv, PlanIsLast
    <2>2. QED
      BY <2>1, ResolveFacts DEF webhook_tier
  <1>2. QED
    BY <1>1, PricesInvariance, PTL

(* With the recommended setup a subscription keeps its plan whatever becomes of the price
   table, its own price exchanged or taken off sale included. *)
THEOREM MetadataIsEnough == PricingSpec => []MetadataKeepsPlan
  <1>1. ASSUME PricesInv, bought # None, RecommendedSetup
        PROVE  webhook_tier = bought
    <2> DEFINE last == Len(items)
               plans == [n \in DOMAIN items |-> items[n].plan]
    <2>1. /\ DOMAIN plans = 1..last /\ last \in DOMAIN plans /\ last \in Nat
          /\ bought \in Plans
      BY <1>1 DEF PricesInv, PlanIsLast
    <2>2. plans[last] = bought /\ plans[last] # None
      BY <1>1, <2>1 DEF RecommendedSetup
    <2>3. \A n \in DOMAIN plans : n # last => plans[n] = None
      BY <1>1, <2>1 DEF PricesInv, PlanIsLast, RecommendedSetup
    <2>4. resolve_tier(items) = IF First(plans) \in Plans
                                       THEN First(plans) ELSE resolve_tier(items)
      BY DEF resolve_tier
    <2> HIDE DEF last, plans
    <2>5. DOMAIN plans \in SUBSET Nat
      BY <2>1
    <2>6. First(plans) = bought
      BY <2>1, <2>2, <2>3, <2>5, FirstOfSome
    <2>7. QED
      BY <1>1, <2>1, <2>4, <2>6 DEF webhook_tier
  <1>2. PricesInv => MetadataKeepsPlan
    BY <1>1 DEF MetadataKeepsPlan
  <1>3. QED
    BY <1>2, PricesInvariance, PTL

-----------------------------------------------------------------------------
(* The shutdown. *)

(* main goes on only when it was notified, which takes a signal or a failure to handle
   Ctrl-C. *)
Asked ==
    /\ sig \in {"raised", "notified"} => signals > 0 \/ "SIGINT" \notin handlers
    /\ main \in {"woken", "late", "exited"} => sig = "notified"
    /\ main = "killed" => signals > 0

(* A server that drains, or has drained, was told to. *)
Stopped == serve \in {"draining", "done"} => grace = "woken"

ShutdownInv == ShutdownTypeOK /\ Asked /\ Stopped

(* A clean exit that is not late has no request running. *)
CleanExit == main' = "exited" /\ main # "late" => inflight = {}

(* Nothing runs yet. *)
LEMMA ShutdownInitInv ==
    ASSUME ShutdownInit
    PROVE  ShutdownInv
  BY SignalsAssumption DEF ShutdownInit, ShutdownInv, ShutdownTypeOK, Asked, Stopped

(* Steps of main. *)
LEMMA MainStep ==
    ASSUME ShutdownInv, Main \/ Deadline
    PROVE  ShutdownInv' /\ CleanExit
  <1> USE DEF ShutdownInv, ShutdownTypeOK, Asked, Stopped, CleanExit
  <1>1. CASE spawn_signal_task
    BY <1>1 DEF spawn_signal_task
  <1>2. CASE spawn_serve
    BY <1>2 DEF spawn_serve
  <1>3. CASE main_notified
    BY <1>3 DEF main_notified
  <1>4. CASE join
    BY <1>4 DEF join, End
  <1>5. CASE drain_deadline
    BY <1>5 DEF drain_deadline, End
  <1>6. CASE Deadline
    BY <1>6 DEF Deadline
  <1>7. QED
    BY <1>1, <1>2, <1>3, <1>4, <1>5, <1>6 DEF Main

(* Steps of the signal task, and deliveries. *)
LEMMA SignalStep ==
    ASSUME ShutdownInv,
           SignalTask \/ \E kind \in Kinds : Signal(kind)
    PROVE  ShutdownInv' /\ CleanExit
  <1> USE DEF ShutdownInv, ShutdownTypeOK, Asked, Stopped, CleanExit, Ended
  <1>1. ASSUME NEW installed \in SUBSET Kinds, wait_for_signal(installed)
        PROVE  ShutdownInv' /\ CleanExit
    BY <1>1 DEF wait_for_signal
  <1>2. CASE notify_waiters
    BY <1>2 DEF notify_waiters
  <1>3. ASSUME NEW kind \in Kinds, Signal(kind)
        PROVE  ShutdownInv' /\ CleanExit
    BY <1>3, SignalsAssumption DEF Signal
  <1>4. QED
    BY <1>1, <1>2, <1>3 DEF SignalTask

(* Steps of the server and of requests: the server ends only when no request runs, and
   has stopped accepting by then. *)
LEMMA ServerStep ==
    ASSUME ShutdownInv,
           Server \/ \E r \in Reqs : accept(r) \/ finish(r)
    PROVE  ShutdownInv' /\ CleanExit
  <1> USE DEF ShutdownInv, ShutdownTypeOK, Asked, Stopped, CleanExit, Ended
  <1>1. CASE serve_start
    BY <1>1 DEF serve_start
  <1>2. CASE grace_notified
    BY <1>2 DEF grace_notified
  <1>3. CASE stop_accepting
    BY <1>3 DEF stop_accepting
  <1>4. CASE drained
    BY <1>4 DEF drained
  <1>5. ASSUME NEW r \in Reqs, accept(r) PROVE ShutdownInv' /\ CleanExit
    BY <1>5 DEF accept
  <1>6. ASSUME NEW r \in Reqs, finish(r) PROVE ShutdownInv' /\ CleanExit
    BY <1>6 DEF finish
  <1>7. QED
    BY <1>1, <1>2, <1>3, <1>4, <1>5, <1>6 DEF Server

(* Every step keeps the invariant, and only a late exit cuts requests. *)
LEMMA ShutdownNextInv ==
    ASSUME ShutdownInv, [ShutdownNext]_shutdownVars
    PROVE  ShutdownInv' /\ [CleanExit]_shutdownVars
  <1>1. CASE ShutdownNext
    BY <1>1, MainStep, SignalStep, ServerStep DEF ShutdownNext
  <1>2. CASE UNCHANGED shutdownVars
    BY <1>2 DEF shutdownVars, ShutdownInv, ShutdownTypeOK, Asked, Stopped
  <1>3. QED
    BY <1>1, <1>2

(* The invariant holds throughout. *)
THEOREM ShutdownInvariance == ShutdownSpec => []ShutdownInv
  <1>1. ShutdownInit => ShutdownInv
    BY ShutdownInitInv
  <1>2. ShutdownInv /\ [ShutdownNext]_shutdownVars => ShutdownInv'
    BY ShutdownNextInv
  <1>3. QED
    BY <1>1, <1>2, PTL DEF ShutdownSpec

(* Whatever number of requests runs and of signals arrives, and however the tasks
   interleave: main exits with requests running only after the drain deadline. *)
THEOREM DrainsUntilDeadline == ShutdownSpec => CutOnlyAtDeadline
  <1>1. ShutdownInv /\ [ShutdownNext]_shutdownVars => [CleanExit]_shutdownVars
    BY ShutdownNextInv
  <1>2. ShutdownSpec => [][CleanExit]_shutdownVars
    BY <1>1, ShutdownInvariance, PTL DEF ShutdownSpec
  <1>3. QED
    BY <1>2, PTL DEF CleanExit, CutOnlyAtDeadline

(* serve_with_deadline does not return of its own accord: the process ends only on a
   signal, or because the handler of Ctrl-C could not be installed. *)
THEOREM EndsOnSignal == ShutdownSpec => [](Ended => signals > 0 \/ "SIGINT" \notin handlers)
  <1>1. ShutdownInv => (Ended => signals > 0 \/ "SIGINT" \notin handlers)
    BY DEF ShutdownInv, Asked, Ended
  <1>2. QED
    BY <1>1, ShutdownInvariance, PTL
=============================================================================

------------------------- MODULE LoginPortalLimiter -------------------------
(***************************************************************************)
(* The per-user login-portal limiter of src/snaptrade/rate_limit.rs.       *)
(*                                                                         *)
(* check() reads the clock first and takes the mutex second, so a caller   *)
(* may reach the map with a time that others have already passed.  Delay   *)
(* bounds how long a caller may wait for the mutex.  The map lives in      *)
(* memory: a restart empties it.                                           *)
(***************************************************************************)
EXTENDS Naturals, FiniteSets

CONSTANTS
    Users, Callers,
    WINDOW,          \* length of the rolling window, in clock ticks
    MAX_PER_WINDOW,  \* requests allowed per window
    Delay,           \* bound: ticks between reading the clock and locking
    MaxTime          \* bound: last clock tick

ASSUME LimiterAssumption ==
    /\ WINDOW \in Nat /\ MAX_PER_WINDOW \in Nat \ {0}
    /\ Delay \in 0..WINDOW /\ MaxTime \in Nat

VARIABLES
    clock,    \* OffsetDateTime::now_utc()
    slots,    \* slots[u]: the Vec of accepted times, {} when u has no entry
    call,     \* call[c]: the check() running in caller c
    granted,  \* history: all slots of u since the last restart
    promised  \* history: promised[u], when the last refusal said to come back

vars == <<clock, slots, call, granted, promised>>

NoCall == [user |-> "none", now |-> 0]
Never  == MaxTime + WINDOW + 1

(* The element pushed as the n-th: a Vec is the set of its elements, n their order. *)
Slot == [n : Nat, at : 0..MaxTime]

TypeOK ==
    /\ clock \in 0..MaxTime
    /\ slots \in [Users -> SUBSET Slot]
    /\ \A u \in Users : Cardinality(slots[u]) <= MAX_PER_WINDOW
    /\ call \in [Callers -> [user : Users \cup {"none"}, now : 0..MaxTime]]
    /\ granted \in [Users -> SUBSET Slot]
    /\ promised \in [Users -> 0..Never]

Init ==
    /\ clock = 0
    /\ slots = [u \in Users |-> {}]
    /\ call = [c \in Callers |-> NoCall]
    /\ granted = [u \in Users |-> {}]
    /\ promised = [u \in Users |-> Never]

-----------------------------------------------------------------------------
(* Faulty variant: entries are dropped one tick early. *)
retain_early(s, now) == {e \in s : e.at + WINDOW > now + 1}

(* slots.retain(|t| *t > cutoff), cutoff = now - WINDOW. *)
retain(s, now) == {e \in s : e.at + WINDOW > now}

(* slots.first() *)
first(s) == CHOOSE e \in s : \A f \in s : e.n <= f.n

(* Faulty variant: the caller is sent back one tick too early. *)
retry_after_short(kept, now) == first(kept).at + WINDOW - 1

(* When the caller may come back: the first entry leaves the window then. *)
retry_after(kept, now) ==
    LET leaves == first(kept).at + WINDOW IN IF leaves > now THEN leaves ELSE now

(* let now = OffsetDateTime::now_utc() *)
read_clock(c, u) ==
    /\ call[c] = NoCall
    /\ call' = [call EXCEPT ![c] = [user |-> u, now |-> clock]]
    /\ UNCHANGED <<clock, slots, granted, promised>>

(* The rest of check(), under the mutex. *)
check(c) ==
    LET u == call[c].user
        now == call[c].now
        kept == retain(slots[u], now)
        slot == [n |-> Cardinality(granted[u]) + 1, at |-> now]
    IN
    /\ u # "none"
    /\ call' = [call EXCEPT ![c] = NoCall]
    /\ IF Cardinality(kept) >= MAX_PER_WINDOW
       THEN /\ slots' = [slots EXCEPT ![u] = kept]
            /\ promised' = [promised EXCEPT ![u] = retry_after(kept, now)]
            /\ UNCHANGED granted
       ELSE /\ slots' = [slots EXCEPT ![u] = kept \cup {slot}]
            /\ granted' = [granted EXCEPT ![u] = @ \cup {slot}]
            /\ promised' = [promised EXCEPT ![u] = Never]
    /\ UNCHANGED clock

(* The background sweep the code offers: every user's old entries go. *)
sweep ==
    /\ slots' = [u \in Users |-> retain(slots[u], clock)]
    /\ UNCHANGED <<clock, call, granted, promised>>

(* A caller never waits for the mutex longer than Delay. *)
Tick ==
    /\ clock < MaxTime
    /\ \A c \in Callers : call[c] # NoCall => clock < call[c].now + Delay
    /\ clock' = clock + 1
    /\ UNCHANGED <<slots, call, granted, promised>>

Restart ==
    /\ slots' = [u \in Users |-> {}]
    /\ call' = [c \in Callers |-> NoCall]
    /\ granted' = [u \in Users |-> {}]
    /\ promised' = [u \in Users |-> Never]
    /\ UNCHANGED clock

Next ==
    \/ \E c \in Callers : check(c) \/ \E u \in Users : read_clock(c, u)
    \/ sweep
    \/ Tick
    \/ Restart

Spec == Init /\ [][Next]_vars

-----------------------------------------------------------------------------
(* "10 requests per rolling hour per local user": no window of WINDOW - Delay
   ticks holds more than MAX_PER_WINDOW accepted requests.  Delay is the price
   of reading the clock before locking; with Delay = 0 it is the full window. *)
RollingWindow ==
    \A u \in Users : \A t \in 0..MaxTime :
        Cardinality({e \in granted[u] : e.at <= t /\ t < e.at + (WINDOW - Delay)})
            <= MAX_PER_WINDOW

(* A refused caller that waits out retry_after while nobody else is accepted
   for the user finds a free slot. *)
RetryAfterIsEnough ==
    \A u \in Users : clock >= promised[u] => Cardinality(retain(slots[u], clock)) < MAX_PER_WINDOW
=============================================================================

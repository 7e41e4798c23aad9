------------------------ MODULE CreditAccountProofs ------------------------
(***************************************************************************)
(* Bounds of the credit account for every plan, cost and concurrency.      *)
(*                                                                         *)
(* WithinCap is inductive with the types: a reply is only admitted below   *)
(* the monthly cap, so Monthly - 1 and one MaxCost for each of the others  *)
(* in flight is the most that can be charged.  SpentBounded needs that     *)
(* every period has spent no more than its counter shows: what was spent   *)
(* before the last reset is at most Cap for each reset.                    *)
(***************************************************************************)
EXTENDS CreditAccount, TLAPS

(* A plan with a cap: a reply costs at least a credit, and one fits in. *)
AccountAssumption ==
    /\ Monthly \in Nat
    /\ MaxCost \in Nat \ {0}
    /\ MaxConcurrent \in Nat \ {0}

TypeOK ==
    /\ used \in Nat /\ spent \in Nat /\ resets \in Nat
    /\ inflight \in 0..MaxConcurrent

(* What is spent beyond the counter was spent in periods that are over. *)
SpentBefore == spent <= Cap * resets + used

IInv == TypeOK /\ used + MaxCost * inflight <= Cap /\ SpentBefore

-----------------------------------------------------------------------------
(* Cap, and the products it is compared with, are natural numbers. *)
LEMMA Products ==
    ASSUME AccountAssumption, NEW n \in 0..MaxConcurrent
    PROVE  /\ Cap \in Nat /\ Cap >= Monthly
           /\ MaxCost * n \in Nat
           /\ MaxCost * MaxConcurrent \in Nat
           /\ n < MaxConcurrent => MaxCost * (n + 1) <= MaxCost * MaxConcurrent
           /\ MaxCost * (n + 1) = MaxCost * n + MaxCost
           /\ MaxCost * (n - 1) = MaxCost * n - MaxCost
  <1> USE DEF AccountAssumption
  <1>1. \A a, b, c \in Int : a * (b + c) = a * b + a * c
    OBVIOUS
  <1>2. MaxCost * MaxConcurrent \in Nat /\ MaxCost * MaxConcurrent >= 1
    OBVIOUS
  <1>3. MaxCost * n \in Nat
    OBVIOUS
  <1>4. Cap \in Nat /\ Cap >= Monthly
    BY <1>2 DEF Cap
  <1>5. n < MaxConcurrent => MaxCost * (n + 1) <= MaxCost * MaxConcurrent
    OBVIOUS
  <1>6. MaxCost * (n + 1) = MaxCost * n + MaxCost /\ MaxCost * (n - 1) = MaxCost * n - MaxCost
    OBVIOUS
  <1>7. QED
    BY <1>2, <1>3, <1>4, <1>5, <1>6

(* A counter within the cap, nothing in flight and nothing spent. *)
LEMMA InitInv == ASSUME AccountAssumption, Init PROVE IInv
  <1>1. 0 \in 0..MaxConcurrent
    BY DEF AccountAssumption
  <1>2. Monthly # UNLIMITED
    BY DEF AccountAssumption, UNLIMITED
  <1>3. TypeOK
    BY <1>1 DEF Init, TypeOK
  <1>4. used <= Cap /\ Cap \in Nat
    BY <1>1, <1>2, Products DEF Init, AccountAssumption
  <1>5. MaxCost * inflight = 0 /\ Cap * resets = 0
    BY <1>4 DEF Init, AccountAssumption
  <1>6. QED
    BY <1>3, <1>4, <1>5 DEF IInv, SpentBefore, TypeOK, Init

(* Every step keeps the three. *)
LEMMA NextInv == ASSUME AccountAssumption, IInv, [Next]_vars PROVE IInv'
  <1> USE DEF IInv, TypeOK
  <1>1. /\ Cap \in Nat /\ MaxCost * inflight \in Nat
        /\ MaxCost * (inflight + 1) = MaxCost * inflight + MaxCost
        /\ MaxCost * (inflight - 1) = MaxCost * inflight - MaxCost
        /\ MaxCost \in Nat /\ MaxConcurrent \in Nat
    BY Products DEF AccountAssumption
  <1>2. CASE Admit
    <2>1. TypeOK'
      BY <1>2 DEF Admit, AccountAssumption
    <2>2. used <= Monthly - 1
      BY <1>2 DEF Admit, AccountAssumption, UNLIMITED
    <2>3. MaxCost * (inflight + 1) <= MaxCost * MaxConcurrent
      BY <1>2, Products DEF Admit
    <2>4. (used + MaxCost * inflight <= Cap)'
      BY <1>1, <1>2, <2>2, <2>3, Products DEF Admit, Cap, AccountAssumption
    <2>5. SpentBefore'
      BY <1>2 DEF Admit, SpentBefore, Cap
    <2>6. QED
      BY <2>1, <2>4, <2>5
  <1>3. CASE Charge
    <2>1. PICK cost \in 1..MaxCost : used' = used + cost /\ spent' = spent + cost
      BY <1>3 DEF Charge
    <2>2. TypeOK'
      BY <1>1, <1>3, <2>1 DEF Charge
    <2>3. Cap' = Cap /\ MaxCost * inflight' = MaxCost * inflight - MaxCost
      BY <1>1, <1>3 DEF Charge, Cap
    <2>4. (used + MaxCost * inflight <= Cap)'
      BY <1>1, <2>1, <2>3
    <2>5. Cap * resets \in Nat /\ resets' = resets
      BY <1>1, <1>3 DEF Charge
    <2>6. SpentBefore'
      BY <1>1, <2>1, <2>3, <2>5 DEF SpentBefore
    <2>7. QED
      BY <2>2, <2>4, <2>6
  <1>4. CASE Abandon
    <2>1. TypeOK'
      BY <1>1, <1>4 DEF Abandon
    <2>2. (used + MaxCost * inflight <= Cap)'
      BY <1>1, <1>4 DEF Abandon, Cap
    <2>3. SpentBefore'
      BY <1>4 DEF Abandon, SpentBefore, Cap
    <2>4. QED
      BY <2>1, <2>2, <2>3
  <1>5. CASE Reset
    <2>1. TypeOK'
      BY <1>5 DEF Reset
    <2>2. used <= Cap
      BY <1>1
    <2>3. (used + MaxCost * inflight <= Cap)'
      BY <1>1, <1>5 DEF Reset, Cap
    <2>4. Cap * (resets + 1) = Cap * resets + Cap /\ Cap * resets \in Nat
      BY <1>1
    <2>5. SpentBefore'
      BY <1>1, <1>5, <2>2, <2>4 DEF Reset, SpentBefore, Cap
    <2>6. QED
      BY <2>1, <2>3, <2>5
  <1>6. CASE UNCHANGED vars
    BY <1>6 DEF vars, SpentBefore, Cap
  <1>7. QED
    BY <1>2, <1>3, <1>4, <1>5, <1>6 DEF Next

-----------------------------------------------------------------------------
(* However charges, abandoned replies and resets follow each other, the replies in
   flight never take the counter past Cap. *)
THEOREM NeverPastCap == ASSUME AccountAssumption PROVE Spec => []WithinCap
  <1>1. IInv => WithinCap
    BY DEF IInv, WithinCap
  <1>2. QED
    BY <1>1, InitInv, NextInv, PTL DEF Spec

(* All that is ever spent is at most Cap for each period. *)
THEOREM PeriodsBoundSpending == ASSUME AccountAssumption PROVE Spec => []SpentBounded
  <1>1. ASSUME IInv PROVE SpentBounded
    <2>1. Cap \in Nat /\ MaxCost * inflight \in Nat /\ used \in Nat /\ resets \in Nat /\ spent \in Nat
      BY <1>1, Products DEF IInv, TypeOK
    <2>2. Cap * (resets + 1) = Cap * resets + Cap /\ Cap * resets \in Nat
      BY <2>1
    <2>3. QED
      BY <1>1, <2>1, <2>2 DEF IInv, SpentBefore, SpentBounded
  <1>2. QED
    BY <1>1, InitInv, NextInv, PTL DEF Spec
=============================================================================

--------------------------- MODULE CreditAccount ---------------------------
(***************************************************************************)
(* What the managed-AI billing promises of one subscriber's credits,       *)
(* without streams, channels or webhooks: a reply is admitted below the    *)
(* monthly cap and reserves nothing, is charged when it is complete or     *)
(* abandoned, and a paid invoice starts the counter over.                  *)
(*                                                                         *)
(* ManagedAi implements it; BillingCycle drives its Reset from the Stripe  *)
(* webhook of StripeBilling.                                               *)
(***************************************************************************)
EXTENDS Integers

CONSTANTS
    Monthly,       \* ai_credits_monthly of the plan, or UNLIMITED
    MaxCost,       \* the most a single reply costs
    MaxConcurrent  \* the most replies in flight at a time

UNLIMITED == -1

VARIABLES
    used,      \* subscriptions.ai_credits_used
    inflight,  \* replies admitted and not yet charged or abandoned
    spent,     \* all credits charged to the ledger
    resets     \* how often the counter started over

vars == <<used, inflight, spent, resets>>

Init ==
    /\ used \in Nat
    /\ Monthly # UNLIMITED => used <= Monthly
    /\ inflight = 0 /\ spent = 0 /\ resets = 0

Admit ==
    /\ Monthly = UNLIMITED \/ used < Monthly
    /\ inflight < MaxConcurrent
    /\ inflight' = inflight + 1
    /\ UNCHANGED <<used, spent, resets>>

Charge ==
    /\ inflight > 0
    /\ \E cost \in 1..MaxCost : used' = used + cost /\ spent' = spent + cost
    /\ inflight' = inflight - 1
    /\ UNCHANGED resets

Abandon ==
    /\ inflight > 0
    /\ inflight' = inflight - 1
    /\ UNCHANGED <<used, spent, resets>>

Reset ==
    /\ used' = 0
    /\ resets' = resets + 1
    /\ UNCHANGED <<inflight, spent>>

Next == Admit \/ Charge \/ Abandon \/ Reset

Spec == Init /\ [][Next]_vars

-----------------------------------------------------------------------------
(* What a period may cost at most: the last reply below the cap, and every other
   one admitted beside it. *)
Cap == Monthly - 1 + MaxCost * MaxConcurrent

(* The replies in flight can still be charged without passing Cap. *)
WithinCap == Monthly # UNLIMITED => used + MaxCost * inflight <= Cap

(* What is spent is bounded by the number of times the counter started over. *)
SpentBounded == Monthly # UNLIMITED => spent <= Cap * (resets + 1)
=============================================================================

---------------------------- MODULE BillingCycle ----------------------------
(***************************************************************************)
(* The billing cycle of one subscriber: the Stripe webhook of              *)
(* StripeBilling and the credit account share one subscriptions row.  The  *)
(* commit of an invoice.paid is the account's Reset; a charge waits while  *)
(* a webhook's transaction holds the row's lock.                           *)
(***************************************************************************)
EXTENDS StripeBilling

CONSTANTS
    Subscriber,  \* the user whose account is followed
    Monthly, MaxCost, MaxConcurrent

ASSUME CycleAssumption ==
    /\ Subscriber \in Users
    /\ Monthly \in Nat
    /\ MaxCost \in Nat \ {0} /\ MaxConcurrent \in Nat \ {0}

VARIABLES used, inflight, spent, resets

Account == INSTANCE CreditAccount

account == <<used, inflight, spent, resets>>
cycleVars == <<vars, account>>

CycleInit == Init /\ used \in 0..Monthly /\ Account!Init

HasRow == row[Subscriber] # None

(* The transaction in slot d is about to commit a reset of the subscriber's row. *)
Resets(d) == job[d].writes /\ Subscriber \in subscribers(job[d].ev.customer)

(* Steps of the webhook, the checkout and the portal. *)
BillingProgress(d) ==
    \/ Resets(d) /\ commit(d) /\ Account!Reset
    \/ Progress(d) /\ ~(Resets(d) /\ job[d].at = "commit") /\ UNCHANGED account

BillingTimeout(d) == acquire_timeout(d) /\ UNCHANGED account

(* fetch_active finds the row, and the pre-flight passes. *)
admit == HasRow /\ Account!Admit /\ UNCHANGED vars

(* The UPDATE of add_ai_credits_used waits for the row's lock. *)
charge == ~(\E d \in Slots : Resets(d)) /\ Account!Charge /\ UNCHANGED vars

abandon == Account!Abandon /\ UNCHANGED vars

CycleNext ==
    \/ \E d \in Slots :
          \/ BillingProgress(d) \/ BillingTimeout(d)
          \/ /\ UNCHANGED account
             /\ \/ Drop(d)
                \/ \E e \in Events : receive_webhook(d, e)
                \/ \E u \in Users : create_checkout_session(d, u) \/ create_portal_session(d, u)
    \/ admit \/ charge \/ abandon

CycleSpec == CycleInit /\ [][CycleNext]_cycleVars

CycleFairSpec ==
    /\ CycleSpec
    /\ \A d \in Slots : SF_cycleVars(BillingProgress(d)) /\ WF_cycleVars(BillingTimeout(d))
    /\ \A e \in Invoices : /\ SF_cycleVars(e \notin recorded /\ Retry(e) /\ UNCHANGED account)
                           /\ SF_cycleVars(Begins(e) /\ UNCHANGED account)

-----------------------------------------------------------------------------
(* Properties. *)

(* Two invoices may be delivered again and again, together and in the wrong order:
   however their transactions interleave with the replies being charged, the
   subscriber never spends more than one period's Cap for each invoice paid, and
   one for the period that was running. *)
BudgetPerInvoice ==
    spent <= Account!Cap * (1 + Cardinality(recorded \cap Invoices))
=============================================================================

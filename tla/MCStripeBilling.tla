-------------------------- MODULE MCStripeBilling --------------------------
(* Small instances of BillingCycle for TLC. *)
EXTENDS BillingCycle, TLC

CONSTANTS c1, old, new

(* The endpoint's secret is being rolled. *)
MCSecrets == <<old, new>>

Ev(i, t, c, p) == [id |-> i, type |-> t, customer |-> c, period |-> p]

(* Two periods of one customer and a subscription event. *)
MCEvents == {Ev(1, "invoice.paid", c1, 1), Ev(2, "invoice.paid", c1, 2),
             Ev(3, SubscriptionEvent, c1, 0)}
=============================================================================

--------------------------- MODULE StripeBilling ---------------------------
(***************************************************************************)
(* Stripe billing of src/billing: the webhook handler with its signature   *)
(* check, its transaction and its use of the connection pool, the checkout *)
(* and portal handlers.  Stripe delivers an event again until it has seen  *)
(* a 2xx, and at times once more: any event may be delivered at any time.  *)
(*                                                                         *)
(* receive_webhook opens a transaction, records the event id in it and     *)
(* runs the event's side effect.  resolve_user_id asks the POOL while the  *)
(* transaction already holds a connection of it.  Every delivery and every *)
(* checkout may be dropped at any await.                                   *)
(*                                                                         *)
(* subscriptions.team_id is NOT NULL since migration 0005 and neither      *)
(* INSERT of the code names it, so PostgreSQL rejects both; the rows that  *)
(* exist were there when 0005 ran (it sets their team_id) or were put in   *)
(* by an operator.                                                         *)
(***************************************************************************)
EXTENDS Integers, FiniteSets, Sequences

CONSTANTS
    Users,
    Customers,   \* Stripe customer ids; a customer has one subscription, named by its customer
    Events,      \* Stripe events: [id, type, customer, period]
    Slots,       \* slots of concurrently running handlers
    Conns,       \* DATABASE_MAX_CONNECTIONS
    whsec,       \* the webhook secret this server is configured with
    Secrets,     \* the endpoint's active secrets at Stripe, oldest first
    Delays,      \* seconds a delivery may take from Stripe to the handler
    MaxFaults,   \* bound: dropped handlers
    None

SubscriptionEvent == "customer.subscription"
Types == {SubscriptionEvent, "invoice.paid", "other"}

ASSUME BillingAssumption ==
    /\ Events \subseteq [id : Nat, type : Types, customer : Customers, period : Nat]
    /\ Conns \in Nat \ {0} /\ MaxFaults \in Nat
    /\ Delays \subseteq Nat /\ IsFiniteSet(Slots)
    /\ None \notin Users \cup Customers \cup Events

VARIABLES
    row,       \* row[u]: the subscriptions row of u, or None
    recorded,  \* stripe_events, as committed
    job,       \* job[d]: the handler running in slot d
    known,     \* Stripe: known[u], the customers created for user u
    faults,    \* dropped handlers so far (bounded)
    applied    \* history: applied[e], how often the reset of e was committed, whether or not
               \* a row has its subscription

vars == <<row, recorded, job, known, faults, applied>>

(* linked: stripe_subscription_id is set; a stub has none. *)
SubscriptionRow == [customer : Customers, linked : BOOLEAN, period : Nat]

Steps == {"idle", "begin", "record", "resolve", "resolving", "upsert", "reset", "commit",
          "lookup", "customer", "stub", "session", "portal", "failed"}

(* fresh: this transaction inserted the event id; writes: it holds the
   row's lock for a reset. *)
Job == [at : Steps, ev : Events \cup {None}, user : Users \cup {None},
        fresh : BOOLEAN, writes : BOOLEAN, customer : Customers \cup {None}]

Idle == [at |-> "idle", ev |-> None, user |-> None,
         fresh |-> FALSE, writes |-> FALSE, customer |-> None]

(* The connections of handler j: one for its transaction, and a second one while
   the SELECT of resolve_user_id runs on the pool.  The other statements on the
   pool take a connection and give it back in one step. *)
HeldBy(j) ==
    {c \in {"tx", "query"} :
        \/ c = "tx" /\ j.at \in {"record", "resolve", "resolving", "upsert", "reset", "commit"}
        \/ c = "tx" /\ j.at = "failed" /\ j.ev # None
        \/ c = "query" /\ j.at = "resolving"}
Held == {c \in Slots \X {"tx", "query"} : c[2] \in HeldBy(job[c[1]])}

TypeOK ==
    /\ row \in [Users -> SubscriptionRow \cup {None}]
    /\ recorded \subseteq Events
    /\ job \in [Slots -> Job]
    /\ known \in [Users -> SUBSET Customers]
    /\ faults \in 0..MaxFaults
    /\ applied \in [Events -> Nat]
    /\ Cardinality(Held) <= Conns

(* Any user may already have a row with a customer of its own. *)
Init ==
    /\ row \in [Users -> [customer : Customers, linked : BOOLEAN, period : {0}] \cup {None}]
    /\ \A u, v \in Users :
          u # v /\ row[u] # None /\ row[v] # None => row[u].customer # row[v].customer
    /\ recorded = {}
    /\ job = [d \in Slots |-> Idle]
    /\ known = [u \in Users |-> IF row[u] = None THEN {} ELSE {row[u].customer}]
    /\ faults = 0
    /\ applied = [e \in Events |-> 0]

-----------------------------------------------------------------------------
(* The pool and the row locks. *)

Free == Conns - Cardinality(Held)

(* A connection for one statement on the pool. *)
acquire == Free > 0

Go(d, to) == job' = [job EXCEPT ![d] = [@ EXCEPT !.at = to]]
End(d)    == job' = [job EXCEPT ![d] = Idle]

(* Another transaction has inserted the id and not yet ended: the INSERT waits. *)
IdLocked(d) == \E q \in Slots \ {d} : job[q].ev = job[d].ev /\ job[q].fresh

(* SELECT user_id FROM subscriptions WHERE stripe_customer_id = $1 *)
owners(c) == {u \in Users : row[u] # None /\ row[u].customer = c}

(* ... WHERE stripe_subscription_id = the subscription of c *)
subscribers(c) == {u \in owners(c) : row[u].linked}

(* Another transaction has updated the row and not yet ended. *)
RowLocked(d) ==
    /\ subscribers(job[d].ev.customer) # {}
    /\ \E q \in Slots \ {d} : job[q].writes /\ job[q].ev.customer = job[d].ev.customer

-----------------------------------------------------------------------------
(* POST /v1/stripe/webhook. *)

(* HMAC-SHA256 over "<t>.<body>": equal only for the same three inputs. *)
hmac(secret, t, body) == <<secret, t, body>>

(* Stripe-Signature as Stripe sends it at time t: the timestamp, and one v1 for
   every active secret while the endpoint's secret is being rolled. *)
Header(t, e) ==
    <<[key |-> "t", value |-> t]>>
        \o [i \in DOMAIN Secrets |-> [key |-> "v1", value |-> hmac(Secrets[i], t, e)]]

(* Faulty variant: only the first v1 is compared. *)
verify_webhook_first_only(secret, header, body, now) ==
    LET stamps == SelectSeq(header, LAMBDA p : p.key = "t")
        sigs   == SelectSeq(header, LAMBDA p : p.key = "v1")
        ts     == stamps[Len(stamps)].value
    IN  /\ stamps # <<>> /\ sigs # <<>>
        /\ now - ts \in -300..300
        /\ sigs[1].value = hmac(secret, ts, body)

(* The last t counts, and any v1 may match. *)
verify_webhook(secret, header, body, now) ==
    LET stamps == SelectSeq(header, LAMBDA p : p.key = "t")
        sigs   == SelectSeq(header, LAMBDA p : p.key = "v1")
        ts     == stamps[Len(stamps)].value
    IN  /\ stamps # <<>> /\ sigs # <<>>
        /\ now - ts \in -300..300
        /\ \E i \in DOMAIN sigs : sigs[i].value = hmac(secret, ts, body)

(* A delivery or redelivery of e, signed when it left Stripe; 401 when it comes
   too late. *)
receive_webhook(d, e) ==
    /\ job[d].at = "idle"
    /\ \E delay \in Delays :
          job' = IF verify_webhook(whsec, Header(0, e), e, delay)
                 THEN [job EXCEPT ![d] = [Idle EXCEPT !.at = "begin", !.ev = e]]
                 ELSE job
    /\ UNCHANGED <<row, recorded, known, faults, applied>>

begin(d) ==
    /\ job[d].at = "begin"
    /\ acquire
    /\ Go(d, "record")
    /\ UNCHANGED <<row, recorded, known, faults, applied>>

NextStep(e) ==
    CASE e.type = SubscriptionEvent -> "resolve"
      [] e.type = "invoice.paid" /\ e.period > 0 -> "reset"
      [] OTHER -> "commit"

(* Faulty variant: a SELECT looks for the id, and two deliveries both miss it. *)
try_record_by_select(d) ==
    LET e == job[d].ev IN
    /\ job[d].at = "record"
    /\ job' = [job EXCEPT ![d] = IF e \in recorded
                                 THEN [@ EXCEPT !.at = "commit"]
                                 ELSE [@ EXCEPT !.at = NextStep(e), !.fresh = TRUE]]
    /\ UNCHANGED <<row, recorded, known, faults, applied>>

(* Faulty variant: the id is inserted on the pool, outside the transaction. *)
try_record_autocommit(d) ==
    LET e == job[d].ev IN
    /\ job[d].at = "record"
    /\ job' = [job EXCEPT ![d] = IF e \in recorded
                                 THEN [@ EXCEPT !.at = "commit"]
                                 ELSE [@ EXCEPT !.at = NextStep(e), !.fresh = TRUE]]
    /\ recorded' = recorded \cup {e}
    /\ UNCHANGED <<row, known, faults, applied>>

(* INSERT ... ON CONFLICT DO NOTHING: a known id goes straight to the commit. *)
try_record_stripe_event(d) ==
    LET e == job[d].ev IN
    /\ job[d].at = "record"
    /\ ~IdLocked(d)
    /\ job' = [job EXCEPT ![d] = IF e \in recorded
                                 THEN [@ EXCEPT !.at = "commit"]
                                 ELSE [@ EXCEPT !.at = NextStep(e), !.fresh = TRUE]]
    /\ UNCHANGED <<row, recorded, known, faults, applied>>

(* The SELECT needs a second connection. *)
resolve_user_id(d) ==
    /\ job[d].at = "resolve"
    /\ acquire
    /\ Go(d, "resolving")
    /\ UNCHANGED <<row, recorded, known, faults, applied>>

(* Its answer: an unknown customer skips the upsert. *)
user_resolved(d) ==
    /\ job[d].at = "resolving"
    /\ Go(d, IF owners(job[d].ev.customer) # {} THEN "upsert" ELSE "commit")
    /\ UNCHANGED <<row, recorded, known, faults, applied>>

(* The tuple lacks team_id: the statement fails and aborts the transaction, the
   event id included. *)
upsert_from_webhook(d) ==
    /\ job[d].at = "upsert"
    /\ job' = [job EXCEPT ![d] = [@ EXCEPT !.at = "failed", !.fresh = FALSE]]
    /\ UNCHANGED <<row, recorded, known, faults, applied>>

reset_ai_credits(d) ==
    /\ job[d].at = "reset"
    /\ ~RowLocked(d)
    /\ job' = [job EXCEPT ![d] = [@ EXCEPT !.at = "commit", !.writes = TRUE]]
    /\ UNCHANGED <<row, recorded, known, faults, applied>>

(* The id and the reset become visible together; 200. *)
commit(d) ==
    LET e == job[d].ev IN
    /\ job[d].at = "commit"
    /\ recorded' = recorded \cup {e}
    /\ row' = [u \in Users |-> IF job[d].writes /\ u \in subscribers(e.customer)
                               THEN [row[u] EXCEPT !.period = e.period] ELSE row[u]]
    /\ applied' = [applied EXCEPT ![e] = IF job[d].writes THEN @ + 1 ELSE @]
    /\ End(d)
    /\ UNCHANGED <<known, faults>>

(* Faulty variant: only the first acquire has a deadline. *)
acquire_timeout_at_begin(d) ==
    /\ job[d].at \in {"begin", "lookup", "stub", "portal"}
    /\ ~acquire
    /\ End(d)
    /\ UNCHANGED <<row, recorded, known, faults, applied>>

(* No connection came free within acquire_timeout: the handler fails and its
   transaction, if any, is rolled back. *)
acquire_timeout(d) ==
    /\ job[d].at \in {"begin", "resolve", "lookup", "stub", "portal"}
    /\ ~acquire
    /\ End(d)
    /\ UNCHANGED <<row, recorded, known, faults, applied>>

-----------------------------------------------------------------------------
(* POST /v1/billing/checkout. *)

create_checkout_session(d, u) ==
    /\ job[d].at = "idle"
    /\ job' = [job EXCEPT ![d] = [Idle EXCEPT !.at = "lookup", !.user = u]]
    /\ UNCHANGED <<row, recorded, known, faults, applied>>

fetch_customer_id(d) ==
    LET r == row[job[d].user] IN
    /\ job[d].at = "lookup"
    /\ acquire
    /\ job' = [job EXCEPT ![d] = IF r = None
                                 THEN [@ EXCEPT !.at = "customer"]
                                 ELSE [@ EXCEPT !.at = "session", !.customer = r.customer]]
    /\ UNCHANGED <<row, recorded, known, faults, applied>>

(* An error status, an answer that does not decode or none in 20 s is 503. *)
post_form_impl(d, ok) == job' = [job EXCEPT ![d] = ok] \/ End(d)

(* Stripe makes a new customer on every call it accepts; an answer that is lost
   leaves it without a trace here. *)
create_customer(d) ==
    /\ job[d].at = "customer"
    /\ \/ \E c \in Customers \ UNION {known[u] : u \in Users} :
             /\ known' = [known EXCEPT ![job[d].user] = @ \cup {c}]
             /\ post_form_impl(d, [job[d] EXCEPT !.at = "stub", !.customer = c])
       \/ End(d) /\ UNCHANGED known
    /\ UNCHANGED <<row, recorded, faults, applied>>

(* Rejected like the upsert: no team_id. *)
upsert_customer_stub(d) ==
    /\ job[d].at = "stub"
    /\ acquire
    /\ Go(d, "failed")
    /\ UNCHANGED <<row, recorded, known, faults, applied>>

(* The checkout or portal session is opened, or not; nothing is kept of it. *)
open_session(d) ==
    /\ job[d].at = "session"
    /\ post_form_impl(d, Idle)
    /\ UNCHANGED <<row, recorded, known, faults, applied>>

(* POST /v1/billing/portal never creates a customer: 404 without a row. *)
create_portal_session(d, u) ==
    /\ job[d].at = "idle"
    /\ job' = [job EXCEPT ![d] = [Idle EXCEPT !.at = "portal", !.user = u]]
    /\ UNCHANGED <<row, recorded, known, faults, applied>>

portal_customer(d) ==
    LET r == row[job[d].user] IN
    /\ job[d].at = "portal"
    /\ acquire
    /\ job' = [job EXCEPT ![d] = IF r = None THEN Idle
                                 ELSE [@ EXCEPT !.at = "session", !.customer = r.customer]]
    /\ UNCHANGED <<row, recorded, known, faults, applied>>

-----------------------------------------------------------------------------
(* The error is answered with a 500 and the connection goes back. *)
answer_error(d) ==
    /\ job[d].at = "failed"
    /\ End(d)
    /\ UNCHANGED <<row, recorded, known, faults, applied>>

(* The future is dropped or a call fails: the transaction is rolled back. *)
Drop(d) ==
    /\ job[d].at # "idle"
    /\ faults < MaxFaults
    /\ faults' = faults + 1
    /\ End(d)
    /\ UNCHANGED <<row, recorded, known, applied>>

Progress(d) ==
    \/ begin(d) \/ try_record_stripe_event(d) \/ resolve_user_id(d) \/ user_resolved(d)
    \/ upsert_from_webhook(d) \/ reset_ai_credits(d) \/ commit(d)
    \/ fetch_customer_id(d) \/ create_customer(d) \/ upsert_customer_stub(d) \/ open_session(d)
    \/ portal_customer(d) \/ answer_error(d)

Step(d) == Progress(d) \/ acquire_timeout(d)

Next ==
    \E d \in Slots :
        \/ Step(d)
        \/ Drop(d)
        \/ \E e \in Events : receive_webhook(d, e)
        \/ \E u \in Users : create_checkout_session(d, u) \/ create_portal_session(d, u)

Spec == Init /\ [][Next]_vars

(* The events that reset the credits. *)
Invoices == {e \in Events : e.type = "invoice.paid" /\ e.period > 0}

(* A delivery of e whose signature verifies and that finds a free connection. *)
Retry(e) == acquire /\ \E d \in Slots : receive_webhook(d, e) /\ job' # job

(* A delivery of e gets its connection. *)
Begins(e) == \E d \in Slots : job[d].ev = e /\ begin(d)

(* A started handler is polled; PostgreSQL grants a lock, and the pool a connection,
   that comes free again and again to the one who waits for it, and a wait for a
   connection ends in acquire_timeout at the latest.  Stripe delivers an invoice that
   has not been recorded again and again, for days: not every delivery is late or
   comes while the pool is exhausted, and of those that find a free connection not
   every one loses it to another handler.  A Drop never has to come. *)
FairSpec ==
    /\ Spec
    /\ \A d \in Slots : SF_vars(Progress(d)) /\ WF_vars(acquire_timeout(d))
    /\ \A e \in Invoices : SF_vars(e \notin recorded /\ Retry(e)) /\ SF_vars(Begins(e))

-----------------------------------------------------------------------------
(* Properties. *)

(* webhook.rs: the id is recorded "in the same transaction as any subscription
   mutation, so a Stripe redelivery is a no-op": overlapping deliveries of one
   event, redeliveries and drops included, commit its reset at most once. *)
AppliedOnce == \A e \in Events : applied[e] <= 1

(* An event id is never committed without its side effect, so a delivery that
   was dropped half-way leaves nothing behind that would silence the retry. *)
RecordedMeansApplied ==
    \A e \in recorded \cap Invoices : applied[e] = 1

(* Webhooks that all hold a connection and all wait for a second one do not wait
   for ever: every handler that starts ends. *)
HandlersEnd == \A d \in Slots : job[d].at # "idle" ~> job[d].at = "idle"

(* A paid invoice is applied in the end: behind late deliveries, while the secret
   is being rolled, after dropped handlers, and after deliveries that gave up in
   acquire_timeout because webhooks with two connections each had the pool to
   themselves. *)
PaidInvoicesApplied == \A e \in Invoices : <>(applied[e] = 1)

-----------------------------------------------------------------------------
(* A statement of the documentation that the code does not meet. *)

(* resolve_user_id: "We persist (user_id, stripe_customer_id) at
   checkout-creation time, so by the time subscription.created fires there's a
   placeholder row to join against": the stub is never rejected after the
   customer was created. *)
PlaceholderPersisted == \A d \in Slots : ~(job[d].at = "failed" /\ job[d].customer # None)
=============================================================================

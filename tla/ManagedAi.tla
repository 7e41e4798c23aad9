----------------------------- MODULE ManagedAi -----------------------------
(***************************************************************************)
(* The managed-AI proxy of src/billing/ai_proxy.rs for one user: the       *)
(* pre-flight check of chat(), the streamer task run_stream() with its     *)
(* bounded SSE channel, and the transaction that charges the reply to      *)
(* usage_ledger and subscriptions.ai_credits_used; and POST /v1/usage,     *)
(* which appends rows of the client's own to the same ledger.              *)
(*                                                                         *)
(* chat() reads ai_credits_used and reserves nothing; the charge is        *)
(* written when the stream ends, by then other streams, an invoice.paid    *)
(* reset or a status change may have come in between.                      *)
(***************************************************************************)
EXTENDS Integers, FiniteSets, FiniteSetsExt

CONSTANTS
    Streams,        \* POST /v1/ai/chat requests, each used once
    Posts,          \* POST /v1/usage requests, each used once
    Replies,        \* token usage upstream may report: [prompt, completion]
    Monthly,        \* ai_credits_monthly of the plan, or UNLIMITED
    Capacity,       \* SSE_CHANNEL_CAPACITY
    MaxConcurrent,  \* bound: streams of the user running at the same time
    MaxPeriod       \* bound: billing periods

UNLIMITED == -1

(* Credits reserved in the pre-flight comparison, by request kind. *)
estimated_cost ==
    [simple |-> 1, analysis |-> 5, csv_mapping |-> 10, monthly_report |-> 25, deep_report |-> 50]

(* A credit per 1000 weighted tokens, rounded up, and at least one. *)
credits_for_tokens(prompt, completion) ==
    LET credits == (prompt + 3 * completion + 999) \div 1000
    IN  IF credits > 1 THEN credits ELSE 1

(* TokenUsage::default() is charged when upstream reports no usage. *)
Costs == {credits_for_tokens(r.prompt, r.completion) : r \in Replies \cup {[prompt |-> 0, completion |-> 0]}}

ASSUME AiAssumption ==
    /\ IsFiniteSet(Streams) /\ IsFiniteSet(Posts)
    /\ Replies \subseteq [prompt : Nat, completion : Nat] /\ IsFiniteSet(Replies)
    /\ Monthly \in Nat \cup {UNLIMITED}
    /\ Capacity \in Nat \ {0} /\ MaxConcurrent \in Nat \ {0} /\ MaxPeriod \in Nat
    /\ Streams \cap Posts = {}

VARIABLES
    status,   \* subscriptions.status of the user's row
    used,     \* subscriptions.ai_credits_used
    period,   \* how often invoice.paid has reset the row
    carried,  \* history: what `used` held when the period began
    ledger,   \* ledger[x]: the usage_ledger row of stream or post x, or NoRow
    stream    \* stream[s]: the chat() request and its run_stream() task

vars == <<status, used, period, carried, ledger, stream>>

Statuses == {"active", "trialing", "past_due", "canceled"}
Billable == {"active", "trialing", "past_due"}

NoRow == [cost |-> 0, period |-> -1]
Metrics == {"ai_reply", "broker_poll", "csv_intel", "market_refresh"}

(* streaming: the task waits for upstream; sending, finishing: it waits for room in
   the channel.  queued events sit in the channel; lost ones were in it when the client left. *)
Stream == [at     : {"new", "opening", "streaming", "sending", "finishing", "charging", "ended"},
           alive  : BOOLEAN,
           queued : 0..Capacity,
           lost   : Nat,
           done   : BOOLEAN]

TypeOK ==
    /\ status \in Statuses
    /\ used \in Nat /\ carried \in Nat
    /\ period \in 0..MaxPeriod
    /\ ledger \in [Streams \cup Posts -> {NoRow} \cup [cost : Costs \cup {0}, period : 0..MaxPeriod]]
    /\ stream \in [Streams -> Stream]

Init ==
    /\ status \in Statuses
    /\ used \in 0..(IF Monthly = UNLIMITED THEN 1 ELSE Monthly)
    /\ carried = used
    /\ period = 0
    /\ ledger = [x \in Streams \cup Posts |-> NoRow]
    /\ stream = [s \in Streams |->
                    [at |-> "new", alive |-> TRUE, queued |-> 0, lost |-> 0, done |-> FALSE]]

Running == {s \in Streams : stream[s].at \notin {"new", "ended"}}
Set(s, r) == stream' = [stream EXCEPT ![s] = r]

-----------------------------------------------------------------------------
(* fetch_active sees past_due rows; entitlements_for grants managed_ai only to
   active and trialing ones. *)
managed_ai == status \in {"active", "trialing"}

(* Faulty variant: the estimate is left out of the comparison. *)
under_cap_without_estimate(estimated) == Monthly = UNLIMITED \/ used <= Monthly

under_cap(estimated) == Monthly = UNLIMITED \/ used + estimated <= Monthly

(* The pre-flight passes and the upstream connection is being opened. *)
chat(s) ==
    /\ stream[s].at = "new"
    /\ Cardinality(Running) < MaxConcurrent
    /\ managed_ai
    /\ \E kind \in DOMAIN estimated_cost : under_cap(estimated_cost[kind])
    /\ Set(s, [stream[s] EXCEPT !.at = "opening"])
    /\ UNCHANGED <<status, used, period, carried, ledger>>

(* Upstream accepts: the streamer task is spawned and owns the rest. *)
open_upstream(s) ==
    /\ stream[s].at = "opening"
    /\ Set(s, [stream[s] EXCEPT !.at = "streaming"])
    /\ UNCHANGED <<status, used, period, carried, ledger>>

(* A line arrives: a data: payload or [DONE].  Other lines are skipped. *)
next_line(s) ==
    /\ stream[s].at = "streaming"
    /\ \E to \in {"sending", "finishing"} : Set(s, [stream[s] EXCEPT !.at = to])
    /\ UNCHANGED <<status, used, period, carried, ledger>>

(* Faulty variant: a failed send does not stop the stream. *)
forward_event_ignores_error(s) ==
    /\ stream[s].at = "sending"
    /\ \/ /\ stream[s].alive /\ stream[s].queued < Capacity
          /\ Set(s, [stream[s] EXCEPT !.at = "streaming", !.queued = @ + 1])
       \/ /\ ~stream[s].alive /\ stream[s].lost <= Capacity + 1
          /\ Set(s, [stream[s] EXCEPT !.at = "streaming", !.lost = @ + 1])
    /\ UNCHANGED <<status, used, period, carried, ledger>>

(* send() waits for room; once the receiver is gone it fails and the task returns
   without charging. *)
forward_event(s) ==
    /\ stream[s].at = "sending"
    /\ \/ /\ stream[s].alive /\ stream[s].queued < Capacity
          /\ Set(s, [stream[s] EXCEPT !.at = "streaming", !.queued = @ + 1])
       \/ /\ ~stream[s].alive
          /\ Set(s, [stream[s] EXCEPT !.at = "ended"])
    /\ UNCHANGED <<status, used, period, carried, ledger>>

(* The [DONE] line.  The result of its send is thrown away. *)
forward_done(s) ==
    /\ stream[s].at = "finishing"
    /\ stream[s].alive => stream[s].queued < Capacity
    /\ Set(s, [stream[s] EXCEPT !.at = "charging", !.done = TRUE,
                                !.queued = IF stream[s].alive THEN @ + 1 ELSE @])
    /\ UNCHANGED <<status, used, period, carried, ledger>>

(* Faulty variant: the timeout covers the connection only. *)
upstream_refused(s) ==
    /\ stream[s].at = "opening"
    /\ Set(s, [stream[s] EXCEPT !.at = "ended"])
    /\ UNCHANGED <<status, used, period, carried, ledger>>

(* The connection is refused, breaks, ends without [DONE] or exceeds
   UPSTREAM_TIMEOUT_SECS, which covers the whole reply. *)
upstream_closed(s) ==
    /\ stream[s].at \in {"opening", "streaming"}
    /\ Set(s, [stream[s] EXCEPT !.at = "ended"])
    /\ UNCHANGED <<status, used, period, carried, ledger>>

Reply(cost) == [cost |-> cost, period |-> period]

(* Faulty variant: the ledger row is committed on its own. *)
reconcile_without_tx(s) ==
    /\ stream[s].at = "charging"
    /\ \E cost \in Costs :
          /\ ledger' = [ledger EXCEPT ![s] = Reply(cost)]
          /\ used' = IF status \in Billable THEN used + cost ELSE used
    /\ Set(s, [stream[s] EXCEPT !.at = "ended"])
    /\ UNCHANGED <<status, period, carried>>

(* record_usage and add_ai_credits_used commit together; without a billable row
   the second finds nothing to update and both are rolled back. *)
reconcile(s) ==
    /\ stream[s].at = "charging"
    /\ IF status \in Billable
       THEN \E cost \in Costs :
               /\ ledger' = [ledger EXCEPT ![s] = Reply(cost)]
               /\ used' = used + cost
       ELSE UNCHANGED <<ledger, used>>
    /\ Set(s, [stream[s] EXCEPT !.at = "ended"])
    /\ UNCHANGED <<status, period, carried>>

(* The ledger transaction fails, or the process stops before it. *)
reconcile_failed(s) ==
    /\ stream[s].at = "charging"
    /\ Set(s, [stream[s] EXCEPT !.at = "ended"])
    /\ UNCHANGED <<status, used, period, carried, ledger>>

-----------------------------------------------------------------------------
(* The client and the webhook side. *)

client_read(s) ==
    /\ stream[s].alive /\ stream[s].queued > 0
    /\ Set(s, [stream[s] EXCEPT !.queued = @ - 1])
    /\ UNCHANGED <<status, used, period, carried, ledger>>

(* The receiver is dropped with whatever was still queued in it. *)
client_gone(s) ==
    /\ stream[s].alive /\ stream[s].at \notin {"new", "opening"}
    /\ Set(s, [stream[s] EXCEPT !.alive = FALSE, !.lost = stream[s].queued, !.queued = 0])
    /\ UNCHANGED <<status, used, period, carried, ledger>>

(* POST /v1/usage: an unknown metric and negative units are 400, the row costs
   nothing. *)
record_usage(p) ==
    /\ ledger[p] = NoRow
    /\ \E metric \in Metrics \cup {"unknown"}, units \in {-1, 0, 1} :
          /\ metric \in Metrics /\ units >= 0
          /\ ledger' = [ledger EXCEPT ![p] = [cost |-> 0, period |-> period]]
    /\ UNCHANGED <<status, used, period, carried, stream>>

(* invoice.paid: the counter starts over, whatever streams are running. *)
reset_ai_credits ==
    /\ period < MaxPeriod
    /\ period' = period + 1
    /\ used' = 0
    /\ carried' = 0
    /\ UNCHANGED <<status, ledger, stream>>

(* The row's status changes under the streams. *)
set_status ==
    /\ \E st \in Statuses \ {status} : status' = st
    /\ UNCHANGED <<used, period, carried, ledger, stream>>

Send(s) == forward_event(s) \/ forward_done(s)
Reconcile(s) == reconcile(s) \/ reconcile_failed(s)

Next ==
    \/ \E s \in Streams :
          \/ chat(s) \/ open_upstream(s) \/ next_line(s) \/ upstream_closed(s)
          \/ Send(s) \/ Reconcile(s) \/ client_read(s) \/ client_gone(s)
    \/ \E p \in Posts : record_usage(p)
    \/ reset_ai_credits
    \/ set_status

Spec == Init /\ [][Next]_vars

(* The streamer task is polled, PostgreSQL answers or fails, and UPSTREAM_TIMEOUT_SECS
   ends a reply that goes on for ever.  Nothing is assumed of the client. *)
FairSpec ==
    /\ Spec
    /\ \A s \in Streams : WF_vars(Send(s)) /\ WF_vars(Reconcile(s)) /\ SF_vars(upstream_closed(s))

-----------------------------------------------------------------------------
(* Properties. *)

Charged == {s \in Streams : ledger[s] # NoRow}
Rows == {x \in Streams \cup Posts : ledger[x] # NoRow}
CostOf(rows) == MapThenSumSet(LAMBDA x : ledger[x].cost, rows)

(* "AI replies also bump subscriptions.ai_credits_used in the same
   transaction": the counter is what the ledger charged since the last reset,
   across failed charges, resets and cancellations under a running stream, and
   whatever rows the client adds. *)
LedgerMatchesUsage == used = carried + CostOf({x \in Rows : ledger[x].period = period})

(* Only a reply that upstream completed with [DONE] is charged.  [DONE] goes out
   without looking at the send's result, so a client that left may be charged;
   but besides the [DONE] line itself it has missed no more than the channel can
   hold. *)
ChargedLossBounded == \A s \in Charged : stream[s].done /\ stream[s].lost <= Capacity

(* The client neither reads nor leaves, and the streamer waits for room. *)
blocked(s) ==
    /\ stream[s].at \in {"sending", "finishing"}
    /\ stream[s].alive /\ stream[s].queued = Capacity

(* A stream that has started ends, however long upstream goes on and whenever the
   client leaves.  There is one exception: a send has no timeout, so a client that
   neither reads nor closes holds the task, and its upstream connection, for ever. *)
StreamsEnd ==
    \A s \in Streams : stream[s].at # "new" ~> (stream[s].at = "ended" \/ []blocked(s))

(* Streams, channels and transactions are one account: admitted below the cap,
   charged at most once when complete, started over by an invoice.  What
   CreditAccount proves of its overrun (WithinCap, SpentBounded) holds here. *)
Account == INSTANCE CreditAccount WITH
    MaxCost  <- Max(Costs),
    inflight <- Cardinality(Running),
    spent    <- CostOf(Rows),
    resets   <- period
ImplementsAccount == Account!Spec
=============================================================================

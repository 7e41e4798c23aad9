# TLA+ model of mizan-connect

mizan-connect is the cloud side of the Mizan desktop client: an Axum service in
front of PostgreSQL that links a user's brokers through SnapTrade, sells
subscriptions through Stripe, proxies a managed AI model against a monthly credit
budget, writes monthly reports and keeps teams. The program is small, but almost
all of its handlers are several awaits long, run concurrently with each other, and
may be dropped at every await (30 s timeout layer, client gone, process restart).
That is what these modules are about.

File names below are relative to the repository; `PROJECT.json` maps every
definition to its lines.

## Inventory

| Component | State it keeps | Operations | Talks to | Module |
|---|---|---|---|---|
| Broker connections (`src/snaptrade`) | `broker_connections`, one row per user | login portal, callback, refresh, DELETE, four reads | SnapTrade, audit log, limiter | `BrokerConnections`, `BrokerLifecycle` |
| Login-portal limiter (`rate_limit.rs`) | in-memory times per user behind a mutex | check, sweep | called first by the login portal | `LoginPortalLimiter` |
| Managed AI proxy (`billing/ai_proxy.rs`, `credits.rs`), `POST /v1/usage` | `usage_ledger`, `subscriptions.ai_credits_used`, SSE channel, streamer task | pre-flight, stream, charge, usage rows | OpenAI; reset by the webhook | `ManagedAi`, `CreditAccount` |
| Stripe webhook, checkout (`billing/webhook.rs`, `handlers.rs`, `stripe_client.rs`) | `subscriptions`, `stripe_events`, connections of the pool | verify, record, resolve, upsert, reset, commit; checkout, portal | Stripe; the credit counter | `StripeBilling`, `BillingCycle` |
| Plans (`prices.rs`, `resolve_tier` of `webhook.rs`) | price table in the configuration | price lookup, tier resolution | checkout and webhook | `Pricing` |
| Monthly reports (`reports.rs`, `reports_cron.rs`) | `monthly_reports` | enqueue cron, worker tick, on-demand request | scheduler | `MonthlyReports`, `Calendar` |
| Teams (`src/teams`, `auth/upsert.rs`) | `teams`, `team_members`, `team_invites`, `users` | invite, accept, first login | mail (external) | `TeamInvites` |
| JWKS cache (`auth/jwks.rs`, `health.rs`) | keys and `fetched_at` behind a lock | warm-up, hourly refresh, lazy fetch, `/ready` | Supabase | `JwksCache` |
| Authentication (`auth/supabase_jwt.rs`, `extractor.rs`, `upsert.rs`), `PATCH /me` | `users`, the test secret of the configuration | verify, upsert, patch | JWKS cache; in front of every handler | `Authentication` |
| Startup and shutdown (`main.rs`, `shutdown.rs`) | three tasks and a `Notify` | signal, graceful stop, drain deadline | axum | `GracefulShutdown` |

What makes them correct, and what is hard about each:

* **Broker connections.** A row must stay with its user, go through legal phases
  only, and agree with SnapTrade. Hard: the handlers read the row, call SnapTrade,
  and then update by id; SnapTrade hands a `userSecret` out once.
* **Limiter.** Ten requests per rolling hour, and an honest `Retry-After`. Hard: the
  clock is read before the mutex is taken.
* **Managed AI.** Counter and ledger agree, nothing incomplete is charged, the budget
  is not exceeded by much, and a stream ends. Hard: check and charge are minutes apart
  and the client may leave, or stop reading, in between.
* **Stripe.** Each event takes effect exactly once, and an invoice buys one budget.
  Hard: redeliveries that overlap, late ones and secrets being rolled, handlers dropped
  inside the transaction, a second connection taken from the pool while the transaction
  holds the first.
* **Plans.** The webhook resolves the plan that was bought. Hard: subscriptions keep the
  price they were bought with while the operator exchanges the table.
* **Reports.** Every pending report is finished, none is lost, and the periods tile the
  calendar. Hard: ticks overlap and nothing claims a row; the key of a row is computed
  from today's date.
* **Teams.** Nobody is a member without an invite of the owner, and no invite is used up
  without letting somebody in. Hard: the checks and the writes are separate statements.
* **JWKS and authentication.** Ready instances use recent keys, only tokens of the issuer
  are let in, and its users get in. Hard: overlapping fetches write out of order, one may
  write after the tick that followed its answer, and a lazy fetch happens on an empty cache only.
* **Shutdown.** A signal ends the process without cutting requests early. Hard:
  `notify_waiters` stores no permit.

The hazards are listed one by one, at their lines, in `PROJECT.json`.

## How the models are built

A handler is a record in a slot (`req[r]`, `job[d]`, `tick[w]`, `stream[s]`), with
the step it is at and what it has read so far. Every SQL statement and every
upstream call is one action, so all interleavings between awaits happen and a row
read early is stale when it is used. Code between two awaits is one action. An
action `Drop` (or `Crash`, `Restart`) ends a handler at any await: it stands for the
timeout layer, for a client that left and for a statement or call that failed. The
action names are the names of the functions; where a handler is more than one
action, the later ones carry the name of the statement or call they stand for.

Data is abstracted to what the properties tell apart: users, authorizations, tokens,
customers and keys are model values; a date is a day number; times are ticks; an HMAC is
the tuple of its inputs; a token is the record of what its verification looks at. Externals (SnapTrade, Stripe, Supabase, OpenAI,
axum, the wall clock) are actions that do anything the code has to expect of them.

Definitions introduced by "Faulty variant" are never part of a specification. Each
is a plausible slip in the definition that follows it, kept so that every property
can be shown to fail for at least one wrong version of the code.

### BrokerConnections, BrokerLifecycle

`conn[u]` is the row of a user (`snaptrade_user_id` is unique and equals the user's
id, so there is at most one), `live[u]` what SnapTrade lists for that user, `issued`
and `expired` the state JWTs of the callback. `stranded` and `acked` are history: the
users whose fresh secret went down with a dropped request, and the authorizations
whose DELETE was answered with ok.

* login portal: `login_portal`, `register_user`, `audit_initiated`, `insert_pending`,
  `login_user`;
* callback: `snaptrade_callback`, `list_authorizations` (or `..._failed`),
  `mark_completed`, `audit_completed`;
* DELETE: `delete_connection`, `remove_authorization`, `soft_delete`, `audit_disconnect`;
* refresh: `refresh_connection`, `refresh_authorization`, `audit_refresh`;
* the four GET handlers: `read_brokerage`, `brokerage_answer`.

`BrokerLifecycle` is what the handlers promise, with no requests in it: a link is
opened once, then linked and disconnected alternately, and only ever linked to an
authorization its own user created. `ImplementsLifecycle` is the refinement, with
`phase`, `linkedTo` and `created` computed from the rows and from SnapTrade's side.

### LoginPortalLimiter

`check` has two actions, `read_clock` and the part under the mutex. `Delay` bounds how
long a caller waits for the mutex, and the guarantee is stated in terms of it: no
window of `WINDOW - Delay` ticks holds more than `MAX_PER_WINDOW` grants. With
`Delay = 0` that is the documented rolling window. `Restart` empties the map. A user's
Vec is a set of slots, each with its time and its number in the order of the pushes, so
that `retain` is a filter, `len` a cardinality and `first` the lowest number; the proofs
show that no two slots share a number.

### ManagedAi, CreditAccount

One user; each stream is a `chat` request followed by its `run_stream` task, with the
number of events queued in the bounded channel. `next_line` is the arrival of a line
from upstream; `forward_event` and `forward_done` are the sends, which wait for room.
`reconcile` is one transaction that writes the ledger and the counter, or neither;
what it charges is `credits_for_tokens` of what upstream reported. `record_usage` is
`POST /v1/usage`. `reset_ai_credits` and `set_status` come from outside at any time.

`CreditAccount` is the promise without streams: admitted below the cap, charged at most
once, started over by an invoice. `ImplementsAccount` is the refinement: `inflight` is
the number of running streams, `spent` the sum of the ledger.

### StripeBilling, BillingCycle

A delivery is the signed header and the event; it may reach `verify_webhook` after any of
`Delays` seconds. Transactions hold connections of a pool of `Conns`, and while
`resolve_user_id` waits for its answer the handler holds two: one subscription event can
take a pool of two to itself, and another handler at `begin` waits for its first. A
reset goes to the row with the subscription's id (`linked`); it is counted as applied when
its transaction commits, whether or not a row matched. A row inserted by an open transaction blocks others with the same event
id (`IdLocked`), an updated row blocks others that update it (`RowLocked`). A call of
Stripe may fail, and may take effect without its answer arriving (`post_form_impl`). The
schema is part of the model: `subscriptions.team_id` is NOT NULL since migration 0005 and
neither INSERT of the code names it, so both are rejected. Rows that exist from the start
are those the migration filled in.

`BillingCycle` puts the webhook and the credit account of one subscriber on one
`subscriptions` row: the commit of an `invoice.paid` is the account's `Reset`, and a
charge waits for the row's lock.

### Pricing

The price table as `build_billing_config` loads it, the items of the customer's
subscription, and the tier `resolve_tier` derives from them, which is what the handler
passes to the upsert; that the upsert is rejected is the matter of `StripeBilling`, and
for this reason nothing is said here of what `GET /me` grants. The customer portal may
change the plan, add-ons may be put in front, and at a restart the operator may renew any
of the prices and take others off sale ("each is configured separately",
`billing/prices.rs:8`). `First` is what `filter_map(..).next()` and `find_map(..)` return.

### MonthlyReports, Calendar

`report[<<u, start>>]` is a row, keyed by the first day of its period as
`previous_month_window` computes it from today's date; `requests` is the order of
`requested_at`. `run_enqueue` reads the subscribers and `enqueue_user` inserts one row at a
time, `cron.read` keeping whom the SELECT returned; `run_worker_tick` fetches rows and works through them one after the other, because
the iterator of tasks is lazy. `mark_succeeded` and `mark_failed` update by id, whatever the
status is by then. `Calendar` has the day numbers of the `time` crate, and independently
of them the lengths of the months.

### TeamInvites

Invites are created in two steps (owner and role check, INSERT with the CHECK of migration
0006) and redeemed in three (SELECT; a transaction that upserts the membership and locks its
row; the mark and the commit). Users appear on their first request and may change their address; two
users may have the same address. The initial states are those the backfill of
migration 0005 can leave.

### JwksCache, Authentication

A fetch is sent, answered with the document the issuer serves at that moment, and
written; fetches overlap. Time advances by refresh intervals (`Hour`), whatever fetches are
under way then: a lazy fetch answered before the tick may write its document after the
refresher has written a newer one. `old` marks such a fetch; none outlives a second tick
(`FETCH_TIMEOUT` is 10 s, the interval an hour). `PublishedKeysKnown` therefore speaks of
keys published throughout two intervals; of one interval it is false. A document is a sequence of keys,
because a token without a `kid` is checked with the first.

`Authentication` adds the requests: `from_request_parts` takes the test path or, on an
empty cache, starts the lazy fetch; `decode_token` reads the cache when that is over;
`upsert_user_from_claims` writes the row and the handler follows, `patch_me` being one.

### GracefulShutdown

The states of the main task, the signal task, the server task and the future given to
`with_graceful_shutdown`. `notify_waiters` moves only those that are waiting.
`wait_for_signal` may fail to install either handler: without that of Ctrl-C its future
completes at once, without that of SIGTERM this signal kills the process.

## Runs

| Run | Instance | Shows |
|---|---|---|
| `broker_concurrent` | 2 users, 2 requests at a time, 4 in all, 2 authorizations, 2 tokens | types, `RowPhases`, `SnapshotsSound`, `SoleRegistrant`, `SecretKept`, `OwnAuthorizations`, `OnlyOwnerActs`, refinement of `BrokerLifecycle` |
| `broker_sequential` | 1 user, one request at a time, 6 in all, 2 authorizations | `DeleteDisconnects`, `AckedStaysInactive` with drops and retries |
| `broker_replay` | 1 user, one request at a time | violation: a replayed callback changes the row |
| `limiter` | window 3, 2 grants, 2 callers, 7 ticks, delay 1 | `RollingWindow`, `RetryAfterIsEnough` |
| `managed_ai` | 2 streams together, 1 usage row, 2 periods, replies of 1 and 3 credits, cap 5, channel of 2 | `LedgerMatchesUsage`, `ChargedLossBounded`, `StreamsEnd`, refinement of `CreditAccount` |
| `stripe` | 2 handlers, 2 connections, 2 invoices and a subscription event, 1 customer, delays of 300 and 301 s, two active secrets, 1 drop, 1 reply at a time | `AppliedOnce`, `RecordedMeansApplied`, `BudgetPerInvoice`, `HandlersEnd`, `PaidInvoicesApplied` |
| `stripe_stub` | 1 handler | violation: the placeholder row is never stored |
| `reports` | 2 users, January and February 2028, 2 overlapping ticks of 2 rows, 2 faults; windows of the years 2000, 2027, 2028, 2100 | `SummaryMatches`, `ReportsTile`, `EnqueueCovers`, `PendingEnds` |
| `team_invites` | 2 users, 2 addresses, 2 invites, 2 requests at a time, 4 in all | `MembersWereInvited`, `NoHalfRedeemed` |
| `jwks` | 2 keys, 4 documents (one without usable keys), 4 tokens, 1 request at a time, 2 lazy fetches, stale after 1 interval, with and without production and the test secret | types, `ReadyKeysAreRecent`, `PublishedKeysKnown`, `EventuallyCurrent`, `AcceptedWereIssued`, `UsersGetIn` |
| `shutdown_drain` | 2 requests, 2 signals, handlers installed or not | `CutOnlyAtDeadline`, `WaitersAreServed` |
| `pricing` | every subset of the six prices, any of them renewed or taken off sale once, up to 3 items | `BoughtIsResolved`, `MetadataKeepsPlan` |

Every component states its types (`TypeOK`, or with the component's name in front); the types of the credit account and of the requests of
`Authentication` are stated with their proofs. `broker_concurrent` and `jwks` check theirs
(the latter says that an empty cache is never fresh). Where there are proofs, the types they
need are part of the inductive invariant.

Bounds. The interesting cases of every module need two actors on one row and one
stale read, so two slots are the core of each instance; two handlers also exhaust a pool
of two, each with one connection and waiting for the second, and one of them holds both
while the other waits for its first. One customer is enough for both: the rows of
different customers share nothing but the pool. Two users on a team are its owner and an
invitee, who may have one address and redeem one invite together. A refresh that fails
once makes a cache stale after one interval. Four broker requests are a
registration, a completed callback and two more that race; six in sequence are a link, a
second link, a DELETE, its retry and a replay. A window of three ticks with two grants has
out-of-order entries at both ends. Two streams started at four of five credits pass the
cap and cross a reset; their replies lie on both sides of a rounding boundary of
`credits_for_tokens`. Delays of 300 and 301 s are the edge of the signature's tolerance, and
the configured secret is the second of the two that sign. January 2028 reports on the
December before, and the four years are a common one, a leap year and a century of either
kind. Four documents are a rotation with an overlap and an unusable document; the tokens
are one of the new key, one of the old key without a `kid` and with a name, one of the
anonymous role and a test token. The bounds named in the modules (`MaxRequests`,
`MaxStarts`, `MaxFaults`, `MaxTime`, `MaxPeriod`, `LastMonth`, `MaxSignals`,
`MaxGeneration`, `MaxItems`) only end behaviours; deadlock is therefore not checked, except in `jwks`,
where time always goes on. Symmetry is used only in runs without liveness, over sets whose
members the specification never tells apart.

Fairness, and why the code justifies it:

* `StripeBilling`, `BillingCycle`: strong fairness of each handler's own steps
  (`Progress`), weak fairness of `acquire_timeout`. A future that can make progress is
  polled, PostgreSQL and the pool serve their waiters in turn, and a handler that finds no
  connection gives up after `acquire_timeout`, also when others give connections back and
  take them again meanwhile. Stripe goes on delivering an invoice that was not answered with
  2xx: not every delivery is late or meets an exhausted pool (`Retry`), and not every one
  that meets a free connection loses it to another handler before its `begin`
  (`Begins`). Without this last assumption `PaidInvoicesApplied` fails: nothing in the code
  keeps subscription events from having the pool to themselves. Drops never have to come.
* `ManagedAi`: the streamer task is polled, PostgreSQL answers or fails, and the total
  timeout of the reqwest client ends a reply that goes on for ever (strong fairness,
  because the task is in turn waiting for upstream and for the channel). Nothing is
  assumed of the client, which is why `StreamsEnd` has an exception.
* `MonthlyReports`: weak fairness of each worker slot: the scheduler fires every 60 s
  and an accepted statement is answered. The monthly enqueue has no fairness, since an
  instance that is down at 03:00 on the 1st misses it; failures are bounded by
  `MaxFaults`.
* `JwksCache`: time and the refresher go on, every fetch ends (`FETCH_TIMEOUT`), and the
  refresher's fetches do not fail forever. The last is an assumption on the issuer, not
  on the code, and `EventuallyCurrent` cannot do without it. In `Authentication` a request
  ends (timeout layer), users come again after a 401, and not every one of their requests
  is dropped.
* `GracefulShutdown`: the runtime polls woken tasks and the deadline passes. Requests
  have no fairness: a streamed body may never end.

## Proofs

Every safety property that a passing run checks is also a theorem: the run shows it on its
instance, the theorem for every value of the constants. The proofs of a component are in a
module of their own, those of the three that keep their state in the process (limiter,
prices, shutdown) in one, `InProcessProofs`, which is why the specifications of the latter
two are called `PricingSpec` and `ShutdownSpec`. For each component there is the inductive invariant, one lemma per action or group of actions,
and the theorems that follow from the invariant.

| Module | Theorems, and the properties they state |
|---|---|
| `BrokerConnectionsProofs` | `TypeCorrect` (`TypeOK`), `RowsKeepPhases` (`RowPhases`), `RowsAreOwn` (`OwnAuthorizations`), `StaleRowsAreSound` (`SnapshotsSound`), `OneRegistrant` (`SoleRegistrant`), `RegistrationIsSafe` (`SecretKept`), `OwnersOnly` (`OnlyOwnerActs`), `Refinement` (`ImplementsLifecycle`); for requests that do not overlap `DeleteIsUpstream` (`DeleteDisconnects`), `DeletedStaysInactive` (`AckedStaysInactive`) |
| `InProcessProofs` | limiter: `WindowHolds` (`RollingWindow`), `RetrySucceeds` (`RetryAfterIsEnough`); prices: `PlanIsResolved` (`BoughtIsResolved`), `MetadataIsEnough` (`MetadataKeepsPlan`); shutdown: `DrainsUntilDeadline` (`CutOnlyAtDeadline`), `EndsOnSignal` |
| `CreditAccountProofs` | `NeverPastCap` (`WithinCap`), `PeriodsBoundSpending` (`SpentBounded`) |
| `ManagedAiProofs` | `CounterMatchesLedger` (`LedgerMatchesUsage`), `LossBounded` (`ChargedLossBounded`), `ProxyImplementsAccount` (`ImplementsAccount`), `OverrunBounded` (the account's two bounds) |
| `BillingCycleProofs` | `Typing` (`TypeOK`), `ResetOnce` (`AppliedOnce`), `NoSilencedRetry` (`RecordedMeansApplied`), `CycleImplementsBilling`, `CycleImplementsAccount`, `InvoicesBoundSpending` (`BudgetPerInvoice`) |
| `MonthlyReportsProofs` | `SummariesMatch` (`SummaryMatches`), `LoopCovers` (`EnqueueCovers`), `PeriodsTile` (`ReportsTile`) |
| `TeamInvitesProofs` | `Typing` (`TypeOK`), `OnlyInvitedMembers` (`MembersWereInvited`), `RedeemedAreMembers` (`NoHalfRedeemed`) |
| `AuthenticationProofs` | `CacheTyping` (`TypeOK` of `JwksCache`), `ReadyMeansRecent` (`ReadyKeysAreRecent`), `RefreshMakesKnown` (`PublishedKeysKnown`), `OnlyIssuedAccepted` (`AcceptedWereIssued`) |

### Assumptions

They are the `ASSUME`s of the modules, which TLC evaluates on every run. Bounds and sizes
are natural numbers, those of the pool, the channel, the window's limit and the worker not
zero; `None` is no user, row, event, token, role or plan. The slots of handlers, streams and
usage posts and the set of replies are finite, because the code counts them
(`Cardinality`, sums) or takes a maximum over them. The issuer serves a first document
(`1 \in Versions`). A caller of the limiter waits for the mutex no longer than the window
(`Delay \in 0..WINDOW`). `FirstMonth` is a month of the common era. `CreditAccount` states
its assumption in its proofs, where it is a hypothesis of each theorem, and the two
modules that implement the account discharge it. `OneAtATime`, a singleton `Reqs`, is a
hypothesis of the broker theorems that need it; the section on disagreements says
what overlapping requests do.

### Broker connections

`IInv` is the conjunction of all the invariants and `RowsRegistered`. None of them is
inductive alone. That a callback writes only its own
user's authorization (`OwnAuthorizations`) needs that the row it read is its user's and
still there (`SnapshotsSound`), which needs that no state JWT names a user without a
row. `RowPhases` survives `soft_delete` only because a DELETE in progress implies that
the row carries an authorization, and that once linked it stays linked. That
`insert_pending` never finds a row (`SoleRegistrant`) needs that a row exists only for
registered users, which is `RowsRegistered`. Steps that
touch neither rows nor owners share `QuietStep`, the two UPDATEs by id share
`RowRewrite`, and the frame lemmas say what a step of one request means for the
others. The refinement reuses `IInv` for its step: a stale `mark_completed` is still a
legal `Link`, and a repeated `soft_delete` is a stutter.

For requests in sequence `SeqInv` is added. Its heart is `DisabledGone`: a disabled row
shows an authorization SnapTrade has no longer, which is what allows `delete_connection`
to skip the upstream call. It holds because the row a DELETE disables still carries the
authorization the DELETE removed (`Faithful`), the one thing that overlapping requests
break; that SnapTrade never gives an id twice keeps it true.

### Limiter

`RollingWindow` speaks of every request ever accepted, `check` of the slots left in the
Vec. `Recent` closes the gap: whatever is in the window by the clock is in the Vec,
although slots are dropped by the clock readings of others, which are never ahead of the
clock. What shares a window of `WINDOW - Delay` with a new request is then among the slots
`check` counts. `PromiseKept` says that a full Vec has a slot that leaves the window by
the time promised; the first slot is one such, oldest or not.

### Prices and shutdown

`PricesInv`: a Price ID stands only in the slot it was created for, in the environment and
in the configuration (`TableOwn`), and the last item of a subscription is the plan that was
bought while all others are add-ons (`PlanIsLast`). The first gives what `plan_for` returns
for a configured price, an exchanged one and an add-on; the second which item `First` finds.
`MetadataIsEnough` is about the setup that `resolve_tier` recommends: with it, exchanges
never cost anybody a plan. An add-on whose metadata is no plan spoils it, because only the
first metadata is tried; `PlanIsResolved` says what is left then.

`ShutdownTypeOK` is not inductive: that a server which is done was told to stop has
to be known while it drains (`Stopped`). `Asked` relates main to the signal task, and both
to the signals: main goes on only after a notification, and that takes a signal or a
Ctrl-C handler that could not be installed.

### Credits

The account: with `Cap = Monthly - 1 + MaxCost * MaxConcurrent`, the
counter and what the replies in flight may still add stay within `Cap`, and all that is
ever charged is at most `Cap` for each period. The inductive invariant adds `SpentBefore`:
what was spent beyond the counter is at most `Cap` for each reset.

The proxy: `StreamsSound` says that a stream is charged at its end only, after `[DONE]`, and
has lost no more than the channel holds; `RowsPast` that no row is of a period still to
come, so that a reset starts from an empty sum. The sums over the ledger are folds over
sets, recursive functions for which there is no induction rule the provers could use. That such a sum exists, does not depend on the
order, and grows by the cost of a new row is shown on a smallest set where it would not
(`SmallestSet`, from the well-foundedness of the strict subset relation on finite sets).
`OverrunBounded` is the refinement put together with the account's theorems.

### Webhook and billing cycle

`Sound` says what a handler has done by the step it is at, `IdsExclusive` that two open
transactions never hold the same event id, and `AppliedExactly` that a committed id and a
committed reset are the same thing; from the last, `AppliedOnce` and
`RecordedMeansApplied` follow. In the cycle every reset of the account is the commit of an
invoice that was not yet recorded, so the resets are at most the invoices paid.

### Reports

`RowsWindowed` and `CronWindowed` say that the window of every row, and of a running loop
of the cron, is that of a month that has begun, even if the loop runs on into the next
month. `Covered` says of every subscriber the loop is through with what `EnqueueCovers`
says at its end. The calendar lemmas show that `from_calendar_date` counts the
days of every month of every year, that first days are ordered as their months, and that
windows of different months are disjoint: `ReportsTile` for all years, not only the four of
the run.

### Teams

What a handler established before its second statement still holds at it, apart from
`redeemed_by`: `InsertSound` (the invite is the owner's, its token is nobody else's) and
`RedeemSound` (the row has the same team, role and address, and the address was the
caller's), until the commit. `InvitesByOwner` and `MailsKept` carry this through the stored
rows; that an invite's author is the team's owner needs `SoleOwner`: no step makes a
second one.

### Cache and authentication

An answer that is about to be written was served in the running interval, or in the one
before it when its fetch straddled the tick (`AnswersRecent`); `before` and `atHour` are the
documents served when these intervals began. `KeysAged`: the cached document had been
replaced for at most one interval longer than the cache is old. `TickedRecent`: after a
refresh the cache holds a document of these two intervals, whoever wrote last. The requests add `RowsThere`: a PATCH
finds the row its own upsert has written.

### Only model-checked

* Liveness, which the provers cannot do: `StreamsEnd`, `HandlersEnd`,
  `PaidInvoicesApplied`, `PendingEnds`, `EventuallyCurrent`, `UsersGetIn`,
  `WaitersAreServed`.

## Disagreements between code and documentation

Two have runs:

* `broker_replay`: `snaptrade_callback` says a replay returns "without touching the DB
  or audit log". With two live authorizations a reload of the callback finds the other
  one as candidate and marks the row with it; each further reload flips it again.
* `stripe_stub`: `resolve_user_id` says the pair of user and customer is persisted at
  checkout. The INSERT omits `team_id` and is rejected after the Stripe customer was
  created; every retry creates another customer.

Others the models exhibit, without a run of their own:

* a repeated DELETE is called "a pure no-op locally (no upstream traffic, no audit
  duplication)" (`snaptrade/handlers.rs:606`), but `soft_delete` and the audit row are
  written every time;
* `/connections` lists every live authorization while a row holds one: refresh and DELETE
  of the others answer 404 (`handlers.rs:549`, `594`);
* a DELETE that overlaps a callback disables the row of the newer authorization; the
  DELETE of that one then skips SnapTrade and answers ok while it stays live. This is
  why `DeleteDisconnects` is stated for requests in sequence;
* `upsert_from_webhook` omits `team_id` as well, so a subscription event of a known
  customer never promotes its row (`billing/repository.rs:125`);
* `reset_ai_credits` compares no periods: an older `invoice.paid` that arrives late moves
  the anchor back and clears the counter again (`BudgetPerInvoice` still holds: each event
  resets once);
* `verify_token` says that it tries the JWKS path first and the test path as a fallback; it is
  the other way round, and an HS256 token never reaches the JWKS when a test secret is set;
* a name set by `PATCH /me` is replaced by the next request whose token carries one
  (`auth/upsert.rs:34`);
* `run_stream` has no deadline on a send: a client that neither reads nor closes holds the
  task for ever;
* `chat` documents a 422 when the cap would be exceeded and speaks of a reservation;
  nothing is reserved, and streams that run together pass the cap (`Cap` of `CreditAccount`
  says by how much);
* `run_stream` promises never to charge for a stream the user did not receive; a client
  that leaves with events still queued is charged (`ChargedLossBounded`);
* migration 0004 says that on-demand regeneration "inserts a fresh row with
  status='pending'" (lines 7-9) and that for a failed report "the user (or admin) can
  request regen on-demand" (22-23). The key is unique and `enqueue_pending` does nothing
  on a conflict: in the model, as in the code, no request takes a failed report back to
  pending, so it is never generated again;
* `generate_one` is to drive a report from pending; a stale tick may turn a succeeded
  report into a failed one. "Process in parallel up to the cap" is one row at a time;
* migration 0006 calls a redeemed invite consumed; two users with one address that both
  pass the SELECT are both admitted;
* `teams/model.rs:9` gives every user a solo team; users created after migration 0005
  have none. "Owners can't be invited" (`teams/invites.rs:40`) holds of the role only: an
  owner who accepts an invite to the own team loses the owner role, and with it the team
  its only member who can invite;
* a signal between installing the handlers and main's call of `notified()` wakes nobody
  and the process never ends. `WaitersAreServed` therefore speaks of registered waiters;
* a Ctrl-C handler that cannot be installed shuts the server down and is logged as
  "received SIGINT" (`shutdown.rs:37`); without a handler of SIGTERM that signal kills the
  process without a drain;
* `billing/prices.rs:9` says that missing price variables surface at load time; they load
  as empty strings.

## Not modelled

* SnapTrade request signing and secret encryption: cryptography over bytes, without state.
* What the brokerage reads return (accounts, holdings, activities): passed through.
* The audit table beyond the events of the broker handlers: nothing reads it.
* The entitlement matrix and the catalogue of plans: constant tables. `GET /me` applies them
  to the `subscriptions` row, which the webhook's upsert cannot write.
* Read-only endpoints (reports, teams, invites, health other than the JWKS part).
* Routing, headers, error mapping, telemetry: stateless. Of the configuration, the checks
  that abort the start; the per-IP limiter is `tower_governor`.
* `usage.total_tokens as i32`: the cast wraps only beyond any reply's size, and no decision
  reads the column.

## Plan

Order of work, most important first; all but the last are done.

1. `BrokerConnections` with its abstract life cycle and proofs.
2. The other components with state, one module each, in the order of the inventory.
3. One run per question, each with the instance that makes its cases happen.
4. Composition: webhook and credit account over one `subscriptions` row (`BillingCycle`),
   requests over the JWKS cache (`Authentication`).
5. An abstract account that the proxy implements, with its bounds proved.
6. Theorems: each safety property for every value of the constants. Liveness stays with TLC.
7. Smaller: the limiter in front of `login_portal`.

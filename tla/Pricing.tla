------------------------------- MODULE Pricing -------------------------------
(***************************************************************************)
(* What is sold and recognised: the price table loaded from the            *)
(* environment (src/config.rs), the price a checkout asks Stripe for       *)
(* (src/billing/prices.rs) and the tier a subscription event is resolved   *)
(* to (src/billing/webhook.rs).  The tier is what the handler passes to    *)
(* the upsert; what becomes of the upsert is StripeBilling.                *)
(*                                                                         *)
(* The operator may exchange prices one by one at a restart; subscriptions *)
(* keep the price they were bought with.                                   *)
(***************************************************************************)
EXTENDS Integers, Sequences

CONSTANTS
    MaxGeneration,  \* bound: exchanges of prices
    MaxItems,       \* bound: items of a subscription
    None

Plans == {"basic", "pro", "enterprise"}

ASSUME PricingAssumption ==
    /\ MaxGeneration \in Nat /\ MaxItems \in Nat \ {0}
    /\ None \notin Plans

Intervals == {"monthly", "yearly"}
Slots == Plans \X Intervals

(* A Price ID is the slot it was created for and its generation; <<>> is the empty
   string, and AddOn stands for every price the operator never configured. *)
Id(slot, g) == <<slot, g>>
AddOn == Id(<<"addon", "monthly">>, 0)

VARIABLES
    env,      \* STRIPE_PRICE_*: the Price ID of each slot, or None when not set
    billing,  \* BillingConfig.stripe_prices, or None while no process runs
    gen,      \* generation of the newest prices in env
    items,    \* items of the customer's Stripe subscription
    bought    \* history: the plan of that subscription

pricingVars == <<env, billing, gen, items, bought>>

Metadata == Plans \cup {None, "other"}

PricingTypeOK ==
    /\ env \in [Slots -> {Id(s, g) : s \in Slots, g \in 0..gen} \cup {None}]
    /\ billing = None \/ DOMAIN billing = Slots
    /\ gen \in 0..MaxGeneration
    /\ \A n \in DOMAIN items : items[n].plan \in Metadata
    /\ bought \in Plans \cup {None}
    /\ bought = None <=> items = <<>>

PricingInit ==
    /\ env \in {[s \in Slots |-> IF s \in set THEN Id(s, 0) ELSE None] : set \in SUBSET Slots}
    /\ billing = None
    /\ gen = 0 /\ items = <<>> /\ bought = None

-----------------------------------------------------------------------------
(* The process starts with both Stripe secrets set (without them billing is off):
   an unset price variable becomes the empty string. *)
build_billing_config(e) == [s \in Slots |-> IF e[s] = None THEN <<>> ELSE e[s]]

start ==
    /\ billing = None
    /\ billing' = build_billing_config(env)
    /\ UNCHANGED <<env, gen, items, bought>>

lookup(slot) == IF billing[slot] = <<>> THEN None ELSE billing[slot]

(* Faulty variant: the yearly price of pro is compared in the basic branch. *)
plan_for_crossed(id) ==
    IF id \in {billing[<<"basic", "monthly">>], billing[<<"pro", "yearly">>]} THEN "basic"
    ELSE IF id \in {billing[<<"pro", "monthly">>], billing[<<"basic", "yearly">>]} THEN "pro"
    ELSE IF \E i \in Intervals : id = billing[<<"enterprise", i>>] THEN "enterprise"
    ELSE None

(* Plans are tried in the order basic, pro, enterprise. *)
plan_for(id) ==
    LET sells(p) == \E i \in Intervals : id = billing[<<p, i>>] IN
    IF sells("basic") THEN "basic"
    ELSE IF sells("pro") THEN "pro"
    ELSE IF sells("enterprise") THEN "enterprise"
    ELSE None

(* The first element that is not None, as filter_map(..).next() and find_map(..) give it. *)
Some(seq) == {n \in DOMAIN seq : seq[n] # None}
First(seq) ==
    IF Some(seq) = {} THEN None
    ELSE seq[CHOOSE n \in Some(seq) : \A m \in Some(seq) : n <= m]

(* Faulty variant: metadata is read from the first item only. *)
resolve_tier_of_first(its) ==
    IF its[1].plan \in Plans THEN its[1].plan ELSE First([n \in DOMAIN its |-> plan_for(its[n].id)])

(* The first item with Price.metadata.plan, if that parses; else the first item
   whose Price ID is configured. *)
resolve_tier(its) ==
    LET named == First([n \in DOMAIN its |-> its[n].plan]) IN
    IF named \in Plans THEN named ELSE First([n \in DOMAIN its |-> plan_for(its[n].id)])

(* The tier the upsert of a subscription event gets. *)
webhook_tier == IF resolve_tier(items) = None THEN "basic" ELSE resolve_tier(items)

(* Checkout of a plan; the price's metadata is absent, right, or something else. *)
create_checkout_session(p, i, meta) ==
    /\ billing # None /\ items = <<>>
    /\ lookup(<<p, i>>) # None
    /\ items' = <<[id |-> lookup(<<p, i>>), plan |-> meta]>>
    /\ bought' = p
    /\ UNCHANGED <<env, billing, gen>>

(* In the customer portal: the plan is changed. *)
ChangePlan(p, i, meta) ==
    /\ billing # None /\ items # <<>> /\ p # bought
    /\ lookup(<<p, i>>) # None
    /\ items' = SubSeq(items, 1, Len(items) - 1) \o <<[id |-> lookup(<<p, i>>), plan |-> meta]>>
    /\ bought' = p
    /\ UNCHANGED <<env, billing, gen>>

(* In the Stripe Dashboard: an add-on is put in front of the plan. *)
AddItem(meta) ==
    /\ items # <<>> /\ Len(items) < MaxItems
    /\ items' = <<[id |-> AddOn, plan |-> meta]>> \o items
    /\ UNCHANGED <<env, billing, gen, bought>>

(* The operator renews some prices, takes others off sale, and restarts. *)
Exchange(renewed, dropped) ==
    /\ billing # None /\ gen < MaxGeneration
    /\ gen' = gen + 1
    /\ env' = [s \in Slots |-> IF s \in renewed THEN Id(s, gen + 1)
                              ELSE IF s \in dropped THEN None
                              ELSE env[s]]
    /\ billing' = None
    /\ UNCHANGED <<items, bought>>

PricingNext ==
    \/ start
    \/ \E p \in Plans, i \in Intervals :
          \E meta \in {p, None, "other"} : create_checkout_session(p, i, meta) \/ ChangePlan(p, i, meta)
    \/ \E meta \in {None, "other"} : AddItem(meta)
    \/ \E renewed \in SUBSET Slots : \E dropped \in SUBSET (Slots \ renewed) : Exchange(renewed, dropped)

PricingSpec == PricingInit /\ [][PricingNext]_pricingVars

-----------------------------------------------------------------------------
(* Properties. *)

(* The plan that was paid for is the plan the webhook resolves, whatever slots are
   for sale, with and without metadata and add-ons, until prices are exchanged;
   after that a subscription without metadata may fall to basic, but never
   becomes a plan that was not bought. *)
BoughtIsResolved ==
    bought # None /\ billing # None =>
        /\ webhook_tier \in {bought, "basic"}
        /\ \A s \in Slots : billing[s] # <<>> /\ (\E n \in DOMAIN items : items[n].id = billing[s])
                                => webhook_tier = bought

(* The "recommended setup" of resolve_tier: the price bought names its plan in its
   metadata, and no add-on carries metadata that is no plan. *)
RecommendedSetup ==
    /\ items[Len(items)].plan = bought
    /\ \A n \in DOMAIN items : items[n].plan # "other"

(* With the recommended setup the webhook resolves the plan that was bought whatever
   becomes of the price table afterwards, its own price renewed or taken off sale
   included, and with add-ons without metadata in front of it. *)
MetadataKeepsPlan ==
    bought # None /\ billing # None /\ RecommendedSetup => webhook_tier = bought
=============================================================================

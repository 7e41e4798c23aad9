------------------------- MODULE BillingCycleProofs -------------------------
(***************************************************************************)
(* Proofs about StripeBilling and BillingCycle, for every set of events,   *)
(* any number of handlers and any pool size: the reset of an invoice is    *)
(* committed exactly once, together with its event id, and what a          *)
(* subscriber spends is bounded by the invoices paid.                      *)
(***************************************************************************)
EXTENDS BillingCycle, FiniteSetTheorems, TLAPS

AccountProofs == INSTANCE CreditAccountProofs

(* An event that resets the credits. *)
Paid(e) == e.type = "invoice.paid" /\ e.period > 0

(* The invoices whose event id is committed. *)
PaidInvoices == {e \in recorded : Paid(e)}

(* They are the recorded ones among the Invoices of the module. *)
LEMMA PaidIsInvoice == TypeOK => PaidInvoices = recorded \cap Invoices
  BY DEF TypeOK, PaidInvoices, Paid, Invoices

(* What a handler j has done so far, by the step it is at: only a transaction
   that inserted its event id gets past the record step, that id is not yet
   committed, and the reset precedes the commit. *)
Sound(j) ==
    /\ j.at \in {"begin", "record", "resolve", "resolving", "upsert", "reset", "commit"}
          => j.ev \in Events
    /\ j.at \in {"idle", "lookup", "customer", "stub", "session", "portal"} => j.ev = None
    /\ j.at \in {"lookup", "customer", "stub", "portal"} => j.user \in Users
    /\ j.at \in {"resolve", "resolving", "upsert", "reset"} => j.fresh
    /\ j.fresh => /\ j.at \in {"resolve", "resolving", "upsert", "reset", "commit"}
                  /\ j.ev \notin recorded
    /\ j.at = "reset" => Paid(j.ev)
    /\ j.at \in {"resolve", "resolving", "upsert"} => ~Paid(j.ev)
    /\ j.at = "commit" => \/ j.fresh /\ (j.writes <=> Paid(j.ev))
                          \/ ~j.fresh /\ ~j.writes /\ j.ev \in recorded
    /\ j.writes => j.at = "commit"

JobsSound == \A d \in Slots : Sound(job[d])

(* The index on stripe_events: two open transactions never hold the same id. *)
IdsExclusive ==
    \A d, q \in Slots : d # q /\ job[d].fresh /\ job[q].fresh => job[d].ev # job[q].ev

(* A committed event id and a committed reset are the same thing. *)
AppliedExactly ==
    \A e \in Events : applied[e] = IF e \in PaidInvoices THEN 1 ELSE 0

(* The inductive invariant of the webhook, the checkout and the portal. *)
IInv ==
    /\ TypeOK
    /\ JobsSound
    /\ IdsExclusive
    /\ AppliedExactly
    /\ IsFiniteSet(recorded)

(* With the account: every reset was paid for by an invoice of its own. *)
CycleInv ==
    /\ IInv
    /\ AccountProofs!IInv
    /\ resets <= Cardinality(PaidInvoices)

-----------------------------------------------------------------------------
(* The connection pool. *)

(* Handler d, becoming j, takes no connection, or one that is free. *)
Affords(d, j) ==
    \/ HeldBy(j) \subseteq HeldBy(job[d])
    \/ /\ acquire
       /\ \E c \in {"tx", "query"} : HeldBy(j) \subseteq HeldBy(job[d]) \cup {c}

(* The pool is never overdrawn by a step in which handler d becomes j, provided it
   takes no more than it can. *)
LEMMA PoolStep ==
    ASSUME TypeOK, NEW d \in Slots, NEW j \in Job, job' = [job EXCEPT ![d] = j], Affords(d, j)
    PROVE  Cardinality(Held') <= Conns
  <1>1. IsFiniteSet(Held) /\ Cardinality(Held) \in Nat /\ Cardinality(Held) <= Conns /\ Conns \in Nat
    <2>1. IsFiniteSet({"tx", "query"})
      <3>1. IsFiniteSet({"tx"} \cup {"query"})
        BY FS_Singleton, FS_AddElement
      <3>2. QED
        BY <3>1
    <2>2. IsFiniteSet(Slots \X {"tx", "query"})
      BY <2>1, FS_Product, BillingAssumption
    <2>3. Held \subseteq Slots \X {"tx", "query"}
      BY DEF Held
    <2>4. IsFiniteSet(Held)
      BY <2>2, <2>3, FS_Subset
    <2>5. QED
      BY <2>4, FS_CardinalityType, BillingAssumption DEF TypeOK
  <1>2. job'[d] = j /\ \A q \in Slots \ {d} : job'[q] = job[q]
    BY DEF TypeOK
  <1>3. Held' = {c \in Slots \X {"tx", "query"} : c[2] \in HeldBy(job'[c[1]])}
    BY DEF Held, HeldBy
  <1>4. CASE HeldBy(j) \subseteq HeldBy(job[d])
    <2>1. Held' \subseteq Held
      BY <1>2, <1>3, <1>4 DEF Held
    <2>2. QED
      BY <2>1, <1>1, FS_Subset, FS_CardinalityType
  <1>5. ASSUME acquire, NEW c \in {"tx", "query"}, HeldBy(j) \subseteq HeldBy(job[d]) \cup {c}
        PROVE  Cardinality(Held') <= Conns
    <2>1. Held' \subseteq Held \cup {<<d, c>>}
      <3>1. ASSUME NEW h \in Held' PROVE h \in Held \cup {<<d, c>>}
        <4>1. PICK q \in Slots, x \in {"tx", "query"} : h = <<q, x>> /\ x \in HeldBy(job'[q])
          BY <1>3, <3>1
        <4>2. CASE q = d
          <5>1. x \in HeldBy(job[d]) \cup {c}
            BY <1>2, <1>5, <4>1, <4>2
          <5>2. QED
            BY <4>1, <4>2, <5>1 DEF Held
        <4>3. CASE q # d
          BY <1>2, <4>1, <4>3 DEF Held
        <4>4. QED
          BY <4>2, <4>3
      <3>2. QED
        BY <3>1
    <2>2. /\ IsFiniteSet(Held \cup {<<d, c>>})
          /\ Cardinality(Held \cup {<<d, c>>}) \in Nat
          /\ Cardinality(Held \cup {<<d, c>>}) <= Cardinality(Held) + 1
      <3>1. PICK x : x = <<d, c>>
        OBVIOUS
      <3>2. /\ IsFiniteSet(Held \cup {x})
            /\ Cardinality(Held \cup {x}) = IF x \in Held THEN Cardinality(Held) ELSE Cardinality(Held) + 1
        BY <1>1, FS_AddElement
      <3>3. QED
        BY <1>1, <3>1, <3>2
    <2>3. IsFiniteSet(Held') /\ Cardinality(Held') <= Cardinality(Held \cup {<<d, c>>})
      BY <2>1, <2>2, FS_Subset
    <2>4. Cardinality(Held') \in Nat
      BY <2>3, FS_CardinalityType
    <2>5. Cardinality(Held) + 1 <= Conns
      BY <1>1, <1>5 DEF acquire, Free
    <2>6. QED
      BY <1>1, <2>2, <2>3, <2>4, <2>5
  <1>6. QED
    BY <1>4, <1>5 DEF Affords

-----------------------------------------------------------------------------
(* Steps that commit nothing. *)

(* Every step but a commit moves one handler to a sound state and leaves the rows,
   the event ids and the history alone. *)
LEMMA JobStep ==
    ASSUME IInv, NEW d \in Slots, NEW j \in Job, job' = [job EXCEPT ![d] = j],
           Sound(j),
           j.fresh => \A q \in Slots \ {d} : job[q].fresh => job[q].ev # j.ev,
           Affords(d, j),
           UNCHANGED <<row, recorded, applied>>,
           known' \in [Users -> SUBSET Customers], faults' \in 0..MaxFaults
    PROVE  IInv'
  <1> USE DEF IInv
  <1>1. /\ job' \in [Slots -> Job] /\ job'[d] = j
        /\ \A q \in Slots \ {d} : job'[q] = job[q]
    BY DEF TypeOK
  <1>2. TypeOK'
    BY <1>1, PoolStep DEF TypeOK
  <1>3. JobsSound'
    BY <1>1 DEF JobsSound, Sound, Paid
  <1>4. IdsExclusive'
    BY <1>1 DEF IdsExclusive
  <1>5. AppliedExactly'
    BY DEF AppliedExactly, PaidInvoices, Paid
  <1>6. QED
    BY <1>2, <1>3, <1>4, <1>5

(* An idle slot is sound. *)
LEMMA IdleSound == Idle \in Job /\ Sound(Idle) /\ ~Idle.fresh /\ HeldBy(Idle) = {}
  <1>1. Idle \in Job /\ ~Idle.fresh /\ Idle.at = "idle" /\ Idle.ev = None /\ ~Idle.writes
    BY DEF Idle, Job, Steps
  <1>2. QED
    BY <1>1 DEF Sound, HeldBy

(* A handler that ends rolls its transaction back, whatever it had done. *)
LEMMA EndStep ==
    ASSUME IInv, NEW d \in Slots, End(d), UNCHANGED <<row, recorded, applied>>,
           known' \in [Users -> SUBSET Customers], faults' \in 0..MaxFaults
    PROVE  IInv'
  BY IdleSound, JobStep DEF End, Affords

(* Moving a handler within its transaction, or outside any, by Go. *)
LEMMA GoStep ==
    ASSUME IInv, NEW d \in Slots, NEW to \in Steps, Go(d, to),
           Sound([job[d] EXCEPT !.at = to]),
           Affords(d, [job[d] EXCEPT !.at = to]),
           UNCHANGED <<row, recorded, known, faults, applied>>
    PROVE  IInv'
  <1> DEFINE j == [job[d] EXCEPT !.at = to]
  <1>1. job[d] \in Job
    BY DEF IInv, TypeOK
  <1>2. j \in Job /\ j.fresh = job[d].fresh /\ j.ev = job[d].ev
    BY <1>1 DEF Job
  <1>3. job' = [job EXCEPT ![d] = j]
    BY DEF Go
  <1>4. j.fresh => \A q \in Slots \ {d} : job[q].fresh => job[q].ev # j.ev
    BY <1>2 DEF IInv, IdsExclusive
  <1>5. known' \in [Users -> SUBSET Customers] /\ faults' \in 0..MaxFaults
    BY DEF IInv, TypeOK
  <1> HIDE DEF j
  <1>6. QED
    BY <1>2, <1>3, <1>4, <1>5, JobStep DEF j

-----------------------------------------------------------------------------
(* The actions of the webhook, one lemma each. *)

(* A delivery that verifies starts a handler outside any transaction. *)
LEMMA ReceiveStep ==
    ASSUME IInv, NEW d \in Slots, NEW e \in Events, receive_webhook(d, e)
    PROVE  IInv'
  <1> DEFINE j == [Idle EXCEPT !.at = "begin", !.ev = e]
  <1>1. job[d].at = "idle" /\ UNCHANGED <<row, recorded, known, faults, applied>>
    BY DEF receive_webhook
  <1>2. known' \in [Users -> SUBSET Customers] /\ faults' \in 0..MaxFaults
    BY <1>1 DEF IInv, TypeOK
  <1>3. CASE job' = [job EXCEPT ![d] = j]
    <2>1. j \in Job /\ j.at = "begin" /\ j.ev = e /\ ~j.fresh /\ ~j.writes
      BY DEF Job, Idle, Steps
    <2>2. Sound(j) /\ HeldBy(j) = {}
      BY <2>1 DEF Sound, HeldBy
    <2> HIDE DEF j
    <2>3. QED
      BY <1>1, <1>2, <1>3, <2>1, <2>2, JobStep DEF Affords
  <1>4. CASE job' = job
    BY <1>1, <1>4 DEF IInv, TypeOK, Held, JobsSound, Sound, Paid, IdsExclusive,
                      AppliedExactly, PaidInvoices
  <1>5. QED
    BY <1>3, <1>4 DEF receive_webhook

(* BEGIN takes a free connection. *)
LEMMA BeginStep ==
    ASSUME IInv, NEW d \in Slots, begin(d) PROVE IInv'
  <1> DEFINE j == [job[d] EXCEPT !.at = "record"]
  <1>1. job[d] \in Job /\ Sound(job[d]) /\ job[d].at = "begin"
    BY DEF IInv, TypeOK, JobsSound, begin
  <1>2. j.at = "record" /\ j.ev = job[d].ev /\ j.fresh = job[d].fresh /\ j.writes = job[d].writes
    BY <1>1 DEF Job
  <1>3. Sound(j)
    BY <1>1, <1>2 DEF Sound
  <1>4. Affords(d, j)
    BY <1>1, <1>2 DEF begin, Affords, HeldBy
  <1> HIDE DEF j
  <1>5. QED
    BY <1>3, <1>4, GoStep DEF begin, Steps, j

(* The INSERT finds the id committed, or holds it alone from here on. *)
LEMMA RecordStep ==
    ASSUME IInv, NEW d \in Slots, try_record_stripe_event(d) PROVE IInv'
  <1> DEFINE e == job[d].ev
             skip == [job[d] EXCEPT !.at = "commit"]
             go == [job[d] EXCEPT !.at = NextStep(e), !.fresh = TRUE]
  <1>1. job[d] \in Job /\ Sound(job[d]) /\ job[d].at = "record"
    BY DEF IInv, TypeOK, JobsSound, try_record_stripe_event
  <1>2. e \in Events /\ ~job[d].fresh /\ ~job[d].writes
    BY <1>1 DEF Sound, Job
  <1>3. /\ UNCHANGED <<row, recorded, known, faults, applied>>
        /\ known' \in [Users -> SUBSET Customers] /\ faults' \in 0..MaxFaults
    BY DEF try_record_stripe_event, IInv, TypeOK
  <1>4. CASE e \in recorded
    <2>1. job' = [job EXCEPT ![d] = skip]
      BY <1>4 DEF try_record_stripe_event
    <2>2. /\ skip \in Job /\ skip.at = "commit" /\ skip.ev = e
          /\ ~skip.fresh /\ ~skip.writes
      BY <1>1, <1>2 DEF Job, Steps
    <2>3. Sound(skip) /\ Affords(d, skip)
      BY <1>1, <1>2, <1>4, <2>2 DEF Sound, Affords, HeldBy
    <2> HIDE DEF skip
    <2>4. QED
      BY <1>1, <1>3, <2>1, <2>2, <2>3, JobStep
  <1>5. CASE e \notin recorded
    <2>1. job' = [job EXCEPT ![d] = go]
      BY <1>5 DEF try_record_stripe_event
    <2>2. /\ NextStep(e) \in {"resolve", "reset", "commit"}
          /\ NextStep(e) = "reset" <=> Paid(e)
      BY DEF NextStep, Paid, SubscriptionEvent
    <2>3. /\ go \in Job /\ go.at = NextStep(e) /\ go.ev = e
          /\ go.fresh /\ ~go.writes
      BY <1>1, <1>2, <2>2 DEF Job, Steps
    <2>4. Sound(go) /\ Affords(d, go)
      BY <1>1, <1>2, <1>5, <2>2, <2>3 DEF Sound, Affords, HeldBy
    <2>5. \A q \in Slots \ {d} : job[q].fresh => job[q].ev # go.ev
      BY <2>3 DEF try_record_stripe_event, IdLocked
    <2> HIDE DEF go
    <2>6. QED
      BY <1>1, <1>3, <2>1, <2>3, <2>4, <2>5, JobStep
  <1>6. QED
    BY <1>4, <1>5

(* resolve_user_id takes a second connection, and gives it back with its answer. *)
LEMMA ResolveStep ==
    ASSUME IInv, NEW d \in Slots, resolve_user_id(d) \/ user_resolved(d) PROVE IInv'
  <1>1. job[d] \in Job /\ Sound(job[d]) /\ job[d].at \in {"resolve", "resolving"}
    BY DEF IInv, TypeOK, JobsSound, resolve_user_id, user_resolved
  <1>2. PICK to \in {"resolving", "upsert", "commit"} :
            /\ Go(d, to)
            /\ to = "resolving" => job[d].at = "resolve" /\ acquire
            /\ to # "resolving" => job[d].at = "resolving"
    BY DEF resolve_user_id, user_resolved
  <1> DEFINE j == [job[d] EXCEPT !.at = to]
  <1>3. j.at = to /\ j.ev = job[d].ev /\ j.fresh = job[d].fresh /\ j.writes = job[d].writes
    BY <1>1 DEF Job
  <1>4. Sound(j)
    BY <1>1, <1>2, <1>3 DEF Sound, Job
  <1>5. Affords(d, j)
    <2>1. CASE to = "resolving"
      <3>1. HeldBy(j) \subseteq HeldBy(job[d]) \cup {"query"}
        BY <1>2, <1>3, <2>1 DEF HeldBy
      <3>2. QED
        BY <1>2, <2>1, <3>1 DEF Affords
    <2>2. CASE to # "resolving"
      BY <1>2, <1>3, <2>2 DEF Affords, HeldBy
    <2>3. QED
      BY <2>1, <2>2
  <1>6. UNCHANGED <<row, recorded, known, faults, applied>> /\ to \in Steps
    BY <1>2 DEF resolve_user_id, user_resolved, Steps
  <1> HIDE DEF j
  <1>7. QED
    BY <1>1, <1>2, <1>4, <1>5, <1>6, GoStep DEF j

(* A failed upsert gives the event id up. *)
LEMMA UpsertStep ==
    ASSUME IInv, NEW d \in Slots, upsert_from_webhook(d) PROVE IInv'
  <1> DEFINE j == [job[d] EXCEPT !.at = "failed", !.fresh = FALSE]
  <1>1. job[d] \in Job /\ Sound(job[d]) /\ job[d].at = "upsert"
    BY DEF IInv, TypeOK, JobsSound, upsert_from_webhook
  <1>2. /\ j \in Job /\ j.at = "failed" /\ ~j.fresh /\ ~j.writes
    BY <1>1 DEF Job, Steps, Sound
  <1>3. Sound(j) /\ Affords(d, j)
    BY <1>1, <1>2 DEF Sound, Affords, HeldBy
  <1>4. /\ job' = [job EXCEPT ![d] = j] /\ UNCHANGED <<row, recorded, known, faults, applied>>
        /\ known' \in [Users -> SUBSET Customers] /\ faults' \in 0..MaxFaults
    BY DEF upsert_from_webhook, IInv, TypeOK
  <1> HIDE DEF j
  <1>5. QED
    BY <1>1, <1>2, <1>3, <1>4, JobStep

(* The reset is written inside the transaction that holds the event id. *)
LEMMA ResetStep ==
    ASSUME IInv, NEW d \in Slots, reset_ai_credits(d) PROVE IInv'
  <1> DEFINE j == [job[d] EXCEPT !.at = "commit", !.writes = TRUE]
  <1>1. job[d] \in Job /\ Sound(job[d]) /\ job[d].at = "reset"
    BY DEF IInv, TypeOK, JobsSound, reset_ai_credits
  <1>2. /\ j \in Job /\ j.at = "commit" /\ j.writes /\ j.fresh /\ j.ev = job[d].ev
        /\ job[d].fresh
    BY <1>1 DEF Job, Steps, Sound
  <1>3. Sound(j) /\ Affords(d, j)
    BY <1>1, <1>2 DEF Sound, Affords, HeldBy
  <1>4. /\ job' = [job EXCEPT ![d] = j] /\ UNCHANGED <<row, recorded, known, faults, applied>>
        /\ known' \in [Users -> SUBSET Customers] /\ faults' \in 0..MaxFaults
    BY DEF reset_ai_credits, IInv, TypeOK
  <1>5. \A q \in Slots \ {d} : job[q].fresh => job[q].ev # j.ev
    BY <1>2 DEF IInv, IdsExclusive
  <1> HIDE DEF j
  <1>6. QED
    BY <1>1, <1>2, <1>3, <1>4, <1>5, JobStep

(* What a commit does to the invoices paid: a transaction that wrote a reset adds
   its event to them, any other leaves them as they are. *)
LEMMA CommitFacts ==
    ASSUME IInv, NEW d \in Slots, commit(d)
    PROVE  /\ job[d].ev \in Events
           /\ recorded' = recorded \cup {job[d].ev}
           /\ job[d].writes => /\ job[d].ev \notin PaidInvoices
                               /\ PaidInvoices' = PaidInvoices \cup {job[d].ev}
           /\ ~job[d].writes => PaidInvoices' = PaidInvoices
           /\ job[d].fresh \/ job[d].ev \in recorded
  <1>1. job[d] \in Job /\ Sound(job[d]) /\ job[d].at = "commit"
    BY DEF IInv, TypeOK, JobsSound, commit
  <1>2. recorded' = recorded \cup {job[d].ev}
    BY DEF commit
  <1>3. \/ job[d].fresh /\ job[d].ev \notin recorded /\ (job[d].writes <=> Paid(job[d].ev))
        \/ ~job[d].fresh /\ ~job[d].writes /\ job[d].ev \in recorded
    BY <1>1 DEF Sound
  <1>4. job[d].ev \in Events
    BY <1>1 DEF Sound
  <1>5. job[d].writes => /\ job[d].ev \notin PaidInvoices
                         /\ PaidInvoices' = PaidInvoices \cup {job[d].ev}
    BY <1>2, <1>3 DEF PaidInvoices
  <1>6. ~job[d].writes => PaidInvoices' = PaidInvoices
    BY <1>2, <1>3 DEF PaidInvoices
  <1>7. QED
    BY <1>2, <1>3, <1>4, <1>5, <1>6

(* The commit publishes the event id and the reset together, and no other open
   transaction holds that id. *)
LEMMA CommitStep ==
    ASSUME IInv, NEW d \in Slots, commit(d) PROVE IInv'
  <1> DEFINE e == job[d].ev
  <1> USE DEF IInv
  <1>1. /\ e \in Events /\ recorded' = recorded \cup {e}
        /\ job[d].writes => e \notin PaidInvoices /\ PaidInvoices' = PaidInvoices \cup {e}
        /\ ~job[d].writes => PaidInvoices' = PaidInvoices
        /\ job[d].fresh \/ e \in recorded
    BY CommitFacts
  <1>2. job' = [job EXCEPT ![d] = Idle] /\ UNCHANGED <<known, faults>>
    BY DEF commit, End
  <1>3. /\ job' \in [Slots -> Job] /\ job'[d] = Idle
        /\ \A q \in Slots \ {d} : job'[q] = job[q]
    BY <1>2, IdleSound DEF TypeOK
  <1>4. /\ applied' \in [Events -> Nat]
        /\ applied'[e] = IF job[d].writes THEN applied[e] + 1 ELSE applied[e]
        /\ \A f \in Events \ {e} : applied'[f] = applied[f]
    BY <1>1 DEF commit, TypeOK
  <1>5. row' \in [Users -> SubscriptionRow \cup {None}]
    <2>1. e.period \in Nat
      BY <1>1, BillingAssumption
    <2>2. ASSUME NEW u \in Users, u \in subscribers(e.customer)
          PROVE  [row[u] EXCEPT !.period = e.period] \in SubscriptionRow
      <3>1. row[u] \in SubscriptionRow
        BY <2>2 DEF subscribers, owners, TypeOK
      <3>2. QED
        BY <2>1, <3>1 DEF SubscriptionRow
    <2>3. QED
      BY <2>2 DEF commit, TypeOK
  <1>6. TypeOK'
    <2>1. Cardinality(Held') <= Conns
      BY <1>2, IdleSound, PoolStep DEF Affords
    <2>2. recorded' \subseteq Events
      BY <1>1 DEF TypeOK
    <2>3. QED
      BY <1>2, <1>3, <1>4, <1>5, <2>1, <2>2 DEF TypeOK
  <1>7. JobsSound'
    <2>1. ASSUME NEW q \in Slots \ {d} PROVE Sound(job[q])'
      <3>1. Sound(job[q]) /\ job'[q] = job[q]
        BY <1>3 DEF JobsSound
      <3>2. job[q].fresh => job[q].ev \notin recorded'
        BY <1>1, <3>1 DEF Sound, IdsExclusive
      <3>3. QED
        BY <1>1, <3>1, <3>2 DEF Sound, Paid
    <2>2. Sound(job[d])'
      BY <1>3, IdleSound DEF Sound, Idle
    <2>3. QED
      BY <2>1, <2>2 DEF JobsSound
  <1>8. IdsExclusive'
    BY <1>3, IdleSound DEF IdsExclusive
  <1>9. AppliedExactly'
    BY <1>1, <1>4 DEF AppliedExactly
  <1>10. IsFiniteSet(recorded')
    BY <1>1, FS_AddElement
  <1>11. QED
    BY <1>6, <1>7, <1>8, <1>9, <1>10

-----------------------------------------------------------------------------
(* Checkout and portal: no transaction, no event. *)

(* A checkout or a portal request starts outside any transaction. *)
LEMMA RequestStep ==
    ASSUME IInv, NEW d \in Slots, NEW u \in Users,
           create_checkout_session(d, u) \/ create_portal_session(d, u)
    PROVE  IInv'
  <1>1. PICK to \in {"lookup", "portal"} :
            job' = [job EXCEPT ![d] = [Idle EXCEPT !.at = to, !.user = u]]
    BY DEF create_checkout_session, create_portal_session
  <1> DEFINE j == [Idle EXCEPT !.at = to, !.user = u]
  <1>2. /\ j \in Job /\ j.at = to /\ j.user = u /\ j.ev = None
        /\ ~j.fresh /\ ~j.writes
    BY DEF Idle, Job, Steps
  <1>3. Sound(j) /\ HeldBy(j) = {}
    BY <1>2 DEF Sound, HeldBy
  <1>4. /\ UNCHANGED <<row, recorded, known, faults, applied>>
        /\ known' \in [Users -> SUBSET Customers] /\ faults' \in 0..MaxFaults
    BY DEF create_checkout_session, create_portal_session, IInv, TypeOK
  <1> HIDE DEF j
  <1>5. QED
    BY <1>1, <1>2, <1>3, <1>4, JobStep DEF j, Affords

(* A checkout handler that moves on, with or without a customer, stays outside
   any transaction. *)
LEMMA CheckoutStep ==
    ASSUME IInv, NEW d \in Slots, job[d].at \in {"lookup", "customer", "stub", "portal"},
           NEW to \in {"customer", "stub", "session", "failed"},
           NEW c \in Customers \cup {None},
           job' = [job EXCEPT ![d] = [job[d] EXCEPT !.at = to, !.customer = c]],
           UNCHANGED <<row, recorded, faults, applied>>,
           known' \in [Users -> SUBSET Customers]
    PROVE  IInv'
  <1> DEFINE j == [job[d] EXCEPT !.at = to, !.customer = c]
  <1>1. job[d] \in Job /\ Sound(job[d])
    BY DEF IInv, TypeOK, JobsSound
  <1>2. job[d].ev = None /\ ~job[d].fresh /\ ~job[d].writes /\ job[d].user \in Users
    BY <1>1 DEF Sound, Job
  <1>3. /\ j \in Job /\ j.at = to /\ j.user = job[d].user /\ j.ev = None
        /\ ~j.fresh /\ ~j.writes
    BY <1>1, <1>2 DEF Job, Steps
  <1>4. Sound(j) /\ HeldBy(j) = {}
    BY <1>2, <1>3 DEF Sound, HeldBy
  <1>5. faults' \in 0..MaxFaults
    BY DEF IInv, TypeOK
  <1> HIDE DEF j
  <1>6. QED
    BY <1>3, <1>4, <1>5, JobStep DEF j, Affords

(* The steps of the checkout and the portal. *)
LEMMA CheckoutSteps ==
    ASSUME IInv, NEW d \in Slots,
           \/ fetch_customer_id(d) \/ create_customer(d) \/ upsert_customer_stub(d)
           \/ open_session(d) \/ portal_customer(d)
    PROVE  IInv'
  <1>1. job[d] \in Job /\ Sound(job[d])
    BY DEF IInv, TypeOK, JobsSound
  <1>2. \A to \in Steps : [job[d] EXCEPT !.at = to]
                            = [job[d] EXCEPT !.at = to, !.customer = job[d].customer]
    BY <1>1 DEF Job
  <1>3. job[d].customer \in Customers \cup {None}
    BY <1>1 DEF Job
  <1>4. known \in [Users -> SUBSET Customers] /\ faults \in 0..MaxFaults
    BY DEF IInv, TypeOK
  <1>5. ASSUME job[d].user \in Users, row[job[d].user] # None
        PROVE  row[job[d].user].customer \in Customers
    BY <1>5 DEF IInv, TypeOK, SubscriptionRow
  <1>6. CASE fetch_customer_id(d)
    <2>1. job[d].at = "lookup" /\ job[d].user \in Users
      BY <1>1, <1>6 DEF fetch_customer_id, Sound
    <2>2. UNCHANGED <<row, recorded, known, faults, applied>>
      BY <1>6 DEF fetch_customer_id
    <2>3. CASE row[job[d].user] = None
      <3>1. job' = [job EXCEPT ![d] = [job[d] EXCEPT !.at = "customer", !.customer = job[d].customer]]
        BY <1>2, <1>6, <2>3 DEF fetch_customer_id, Steps
      <3>2. QED
        BY <1>3, <1>4, <2>1, <2>2, <3>1, CheckoutStep
    <2>4. CASE row[job[d].user] # None
      <3>1. job' = [job EXCEPT ![d] = [job[d] EXCEPT !.at = "session", !.customer = row[job[d].user].customer]]
        BY <1>6, <2>4 DEF fetch_customer_id
      <3>2. QED
        BY <1>4, <1>5, <2>1, <2>2, <2>4, <3>1, CheckoutStep
    <2>5. QED
      BY <2>3, <2>4
  <1>7. CASE create_customer(d)
    <2>1. job[d].at = "customer" /\ UNCHANGED <<row, recorded, faults, applied>>
      BY <1>7 DEF create_customer
    <2>2. known' \in [Users -> SUBSET Customers]
      <3>1. \/ UNCHANGED known
            \/ \E c \in Customers : known' = [known EXCEPT ![job[d].user] = @ \cup {c}]
        BY <1>7 DEF create_customer
      <3>2. QED
        BY <1>4, <3>1
    <2>3. CASE End(d)
      BY <1>4, <2>1, <2>2, <2>3, EndStep
    <2>4. CASE \E c \in Customers : job' = [job EXCEPT ![d] = [job[d] EXCEPT !.at = "stub", !.customer = c]]
      BY <2>1, <2>2, <2>4, CheckoutStep
    <2>5. QED
      <3>1. End(d) \/ \E c \in Customers \ UNION {known[u] : u \in Users} :
                post_form_impl(d, [job[d] EXCEPT !.at = "stub", !.customer = c])
        BY <1>7 DEF create_customer
      <3>2. QED
        BY <2>3, <2>4, <3>1 DEF post_form_impl
  <1>8. CASE upsert_customer_stub(d)
    <2>1. job[d].at = "stub" /\ UNCHANGED <<row, recorded, known, faults, applied>>
      BY <1>8 DEF upsert_customer_stub
    <2>2. job' = [job EXCEPT ![d] = [job[d] EXCEPT !.at = "failed", !.customer = job[d].customer]]
      BY <1>2, <1>8 DEF upsert_customer_stub, Go, Steps
    <2>3. QED
      BY <1>3, <1>4, <2>1, <2>2, CheckoutStep
  <1>9. CASE open_session(d)
    BY <1>4, <1>9, EndStep DEF open_session, post_form_impl, End
  <1>10. CASE portal_customer(d)
    <2>1. job[d].at = "portal" /\ job[d].user \in Users
      BY <1>1, <1>10 DEF portal_customer, Sound
    <2>2. UNCHANGED <<row, recorded, known, faults, applied>>
      BY <1>10 DEF portal_customer
    <2>3. CASE row[job[d].user] = None
      BY <1>4, <1>10, <2>2, <2>3, EndStep DEF portal_customer, End
    <2>4. CASE row[job[d].user] # None
      <3>1. job' = [job EXCEPT ![d] = [job[d] EXCEPT !.at = "session", !.customer = row[job[d].user].customer]]
        BY <1>10, <2>4 DEF portal_customer
      <3>2. QED
        BY <1>4, <1>5, <2>1, <2>2, <2>4, <3>1, CheckoutStep
    <2>5. QED
      BY <2>3, <2>4
  <1>11. QED
    BY <1>6, <1>7, <1>8, <1>9, <1>10

-----------------------------------------------------------------------------
(* Every step of the handlers keeps the invariant. *)

(* The initial rows are sound: nothing runs and nothing is recorded. *)
LEMMA InitIInv == Init => IInv
  <1> SUFFICES ASSUME Init PROVE IInv
    OBVIOUS
  <1>1. job \in [Slots -> Job] /\ \A d \in Slots : job[d] = Idle
    BY IdleSound DEF Init
  <1>3. Cardinality(Held) <= Conns
    <2>1. Held = {}
      BY <1>1, IdleSound DEF Held
    <2>2. QED
      BY <2>1, FS_EmptySet, BillingAssumption
  <1>4. row \in [Users -> SubscriptionRow \cup {None}]
    BY DEF Init, SubscriptionRow
  <1>5. known \in [Users -> SUBSET Customers]
    <2>1. \A u \in Users : row[u] # None => row[u].customer \in Customers
      BY <1>4 DEF SubscriptionRow
    <2>2. QED
      BY <2>1 DEF Init
  <1>6. applied \in [Events -> Nat] /\ faults \in 0..MaxFaults /\ recorded = {}
    BY BillingAssumption DEF Init
  <1>7. TypeOK
    BY <1>1, <1>3, <1>4, <1>5, <1>6 DEF TypeOK
  <1>8. JobsSound
    BY <1>1, IdleSound DEF JobsSound
  <1>9. IdsExclusive
    BY <1>1, IdleSound DEF IdsExclusive
  <1>10. AppliedExactly
    BY <1>6 DEF Init, AppliedExactly, PaidInvoices
  <1>11. IsFiniteSet(recorded)
    BY <1>6, FS_EmptySet
  <1>12. QED
    BY <1>7, <1>8, <1>9, <1>10, <1>11 DEF IInv

(* Steps that end a handler without a commit. *)
LEMMA EndSteps ==
    ASSUME IInv, NEW d \in Slots, acquire_timeout(d) \/ answer_error(d) \/ Drop(d)
    PROVE  IInv'
  <1>1. End(d) /\ UNCHANGED <<row, recorded, known, applied>>
    BY DEF acquire_timeout, answer_error, Drop
  <1>2. faults' \in 0..MaxFaults
    BY BillingAssumption DEF acquire_timeout, answer_error, Drop, IInv, TypeOK
  <1>3. QED
    BY <1>1, <1>2, EndStep DEF IInv, TypeOK

(* One step of the handler in slot d. *)
LEMMA StepIInv == ASSUME IInv, NEW d \in Slots, Step(d) PROVE IInv'
  BY BeginStep, RecordStep, ResolveStep, UpsertStep, ResetStep, CommitStep,
     CheckoutSteps, EndSteps DEF Step, Progress

(* A step of any handler, a delivery, a request or a drop. *)
LEMMA NextIInv == IInv /\ [Next]_vars => IInv'
  <1> SUFFICES ASSUME IInv, [Next]_vars PROVE IInv'
    OBVIOUS
  <1>1. CASE UNCHANGED vars
    BY <1>1 DEF vars, IInv, TypeOK, Held, JobsSound, Sound, Paid, IdsExclusive,
                AppliedExactly, PaidInvoices
  <1>2. CASE Next
    BY <1>2, StepIInv, EndSteps, ReceiveStep, RequestStep DEF Next
  <1>3. QED
    BY <1>1, <1>2

-----------------------------------------------------------------------------
(* The theorems of the webhook. *)

(* The inductive invariant holds of every reachable state. *)
THEOREM Invariance == Spec => []IInv
  BY InitIInv, NextIInv, PTL DEF Spec

(* Rows, handlers and histories keep their types, and open transactions never
   hold more connections than the pool has. *)
THEOREM Typing == Spec => []TypeOK
  <1>1. IInv => TypeOK
    BY DEF IInv
  <1>2. QED
    BY Invariance, <1>1, PTL

(* What the invariant says of the event ids. *)
LEMMA IInvApplied == IInv => AppliedOnce /\ RecordedMeansApplied
  BY DEF IInv, TypeOK, AppliedExactly, PaidInvoices, Paid, Invoices, AppliedOnce, RecordedMeansApplied

(* However deliveries of one event overlap, are repeated or are dropped, its reset
   is committed at most once. *)
THEOREM ResetOnce == Spec => []AppliedOnce
  BY Invariance, IInvApplied, PTL

(* An event id is only ever committed with its reset: a delivery that was dropped
   half-way leaves the retry something to do. *)
THEOREM NoSilencedRetry == Spec => []RecordedMeansApplied
  BY Invariance, IInvApplied, PTL

-----------------------------------------------------------------------------
(* The billing cycle. *)

(* Every step of the cycle is a step of the handlers or leaves them alone, and a
   step of the credit account or leaves that alone. *)
LEMMA CycleSteps ==
    ASSUME [CycleNext]_cycleVars
    PROVE  [Next]_vars /\ [Account!Next]_account
  <1>1. CASE UNCHANGED cycleVars
    BY <1>1 DEF cycleVars
  <1>2. ASSUME NEW d \in Slots, BillingProgress(d) \/ BillingTimeout(d)
        PROVE  [Next]_vars /\ [Account!Next]_account
    BY <1>2 DEF BillingProgress, BillingTimeout, Step, Progress, Next, Account!Next
  <1>3. CASE \E d \in Slots :
               /\ UNCHANGED account
               /\ \/ Drop(d)
                  \/ \E e \in Events : receive_webhook(d, e)
                  \/ \E u \in Users : create_checkout_session(d, u) \/ create_portal_session(d, u)
    BY <1>3 DEF Next
  <1>4. CASE admit \/ charge \/ abandon
    BY <1>4 DEF admit, charge, abandon, Account!Next
  <1>5. QED
    BY <1>1, <1>2, <1>3, <1>4 DEF CycleNext

(* The cycle implements the handlers. *)
THEOREM CycleImplementsBilling == CycleSpec => Spec
  <1>1. CycleInit => Init
    BY DEF CycleInit
  <1>2. [CycleNext]_cycleVars => [Next]_vars
    BY CycleSteps
  <1>3. QED
    BY <1>1, <1>2, PTL DEF CycleSpec, Spec

(* The cycle implements the credit account: the webhook's commit is its Reset. *)
THEOREM CycleImplementsAccount == CycleSpec => Account!Spec
  <1>1. CycleInit => Account!Init
    BY DEF CycleInit
  <1>2. [CycleNext]_cycleVars => [Account!Next]_account
    BY CycleSteps
  <1>3. QED
    BY <1>1, <1>2, PTL DEF CycleSpec, Account!Spec, Account!vars, account

(* The invoices paid are finitely many and never forgotten. *)
LEMMA InvoicesGrow ==
    ASSUME IInv, [Next]_vars
    PROVE  /\ IsFiniteSet(PaidInvoices) /\ IsFiniteSet(PaidInvoices')
           /\ Cardinality(PaidInvoices) \in Nat /\ Cardinality(PaidInvoices') \in Nat
           /\ Cardinality(PaidInvoices) <= Cardinality(PaidInvoices')
  <1>1. recorded \subseteq recorded'
    BY DEF Next, vars, Step, Progress, begin, try_record_stripe_event, resolve_user_id,
           user_resolved, upsert_from_webhook,
           reset_ai_credits, commit, acquire_timeout, fetch_customer_id, create_customer,
           upsert_customer_stub, open_session, portal_customer, answer_error, Drop,
           receive_webhook, create_checkout_session, create_portal_session
  <1>2. PaidInvoices \subseteq PaidInvoices'
    BY <1>1 DEF PaidInvoices, Paid
  <1>3. IsFiniteSet(recorded) /\ IsFiniteSet(recorded')
    BY NextIInv DEF IInv
  <1>4. PaidInvoices \subseteq recorded /\ PaidInvoices' \subseteq recorded'
    BY DEF PaidInvoices
  <1>5. IsFiniteSet(PaidInvoices) /\ IsFiniteSet(PaidInvoices')
    BY <1>3, <1>4, FS_Subset
  <1>6. QED
    BY <1>2, <1>5, FS_Subset, FS_CardinalityType

(* A commit that resets the subscriber's credits pays with a new invoice. *)
LEMMA ResetIsPaid ==
    ASSUME IInv, NEW d \in Slots, Resets(d), commit(d)
    PROVE  Cardinality(PaidInvoices') = Cardinality(PaidInvoices) + 1
  <1>1. job[d].ev \notin PaidInvoices /\ PaidInvoices' = PaidInvoices \cup {job[d].ev}
    BY CommitFacts DEF Resets
  <1>2. PaidInvoices \subseteq recorded
    BY DEF PaidInvoices
  <1>3. IsFiniteSet(PaidInvoices)
    BY <1>2, FS_Subset DEF IInv
  <1>4. QED
    BY <1>1, <1>3, FS_AddElement

(* Within the cycle the account is one with a monthly cap. *)
LEMMA CappedAccount == AccountProofs!AccountAssumption
  BY CycleAssumption DEF AccountProofs!AccountAssumption

(* The cycle starts with a counter within its cap and no invoice paid. *)
LEMMA CycleInitInv == CycleInit => CycleInv
  <1> SUFFICES ASSUME CycleInit PROVE CycleInv
    OBVIOUS
  <1>1. IInv
    BY InitIInv DEF CycleInit
  <1>2. AccountProofs!Init
    BY DEF CycleInit, Account!Init, AccountProofs!Init, Account!UNLIMITED, AccountProofs!UNLIMITED
  <1>3. AccountProofs!IInv
    BY <1>2, CappedAccount, AccountProofs!InitInv
  <1>4. resets = 0 /\ Cardinality(PaidInvoices) = 0
    <2>1. PaidInvoices = {}
      BY DEF CycleInit, Init, PaidInvoices
    <2>2. QED
      BY <2>1, FS_EmptySet DEF CycleInit, Account!Init
  <1>5. QED
    BY <1>1, <1>3, <1>4 DEF CycleInv

(* A step of the cycle keeps both invariants and the count of the resets. *)
LEMMA CycleNextInv == CycleInv /\ [CycleNext]_cycleVars => CycleInv'
  <1> SUFFICES ASSUME CycleInv, [CycleNext]_cycleVars PROVE CycleInv'
    OBVIOUS
  <1>1. IInv /\ [Next]_vars
    BY CycleSteps DEF CycleInv
  <1>2. IInv'
    BY <1>1, NextIInv
  <1>3. [AccountProofs!Next]_(AccountProofs!vars)
    BY CycleSteps DEF account, AccountProofs!vars, Account!Next, AccountProofs!Next,
       Account!Admit, AccountProofs!Admit, Account!Charge, AccountProofs!Charge,
       Account!Abandon, AccountProofs!Abandon, Account!Reset, AccountProofs!Reset,
       Account!UNLIMITED, AccountProofs!UNLIMITED
  <1>4. AccountProofs!IInv'
    BY <1>3, CappedAccount, AccountProofs!NextInv DEF CycleInv
  <1>5. resets \in Nat /\ resets' \in Nat
    BY <1>4 DEF CycleInv, AccountProofs!IInv, AccountProofs!TypeOK
  <1>6. resets' <= Cardinality(PaidInvoices')
    <2>1. CASE resets' = resets
      BY <1>1, <1>5, <2>1, InvoicesGrow DEF CycleInv
    <2>2. CASE \E d \in Slots : Resets(d) /\ commit(d) /\ Account!Reset
      BY <1>1, <1>5, <2>2, InvoicesGrow, ResetIsPaid DEF CycleInv, Account!Reset
    <2>3. QED
      BY <2>1, <2>2 DEF CycleNext, cycleVars, account, BillingProgress, BillingTimeout, admit, charge, abandon,
                        Account!Admit, Account!Charge, Account!Abandon
  <1>7. QED
    BY <1>2, <1>4, <1>6 DEF CycleInv

(* However often, in whatever order and with whatever failures the invoices are
   delivered, the subscriber spends at most one Cap for each invoice paid, and one
   for the period that was running. *)
THEOREM InvoicesBoundSpending == CycleSpec => []BudgetPerInvoice
  <1>1. ASSUME CycleInv PROVE BudgetPerInvoice
    <2> DEFINE n == Cardinality(PaidInvoices)
               cap == Account!Cap
    <2>1. n \in Nat
      <3>1. PaidInvoices \subseteq recorded
        BY DEF PaidInvoices
      <3>2. QED
        BY <1>1, <3>1, FS_Subset, FS_CardinalityType DEF CycleInv, IInv
    <2>2. /\ used \in Nat /\ spent \in Nat /\ resets \in Nat
          /\ inflight \in 0..MaxConcurrent /\ resets <= n
          /\ used + MaxCost * inflight <= cap
          /\ spent <= cap * resets + used
      BY <1>1 DEF CycleInv, AccountProofs!IInv, AccountProofs!TypeOK, AccountProofs!SpentBefore,
                  AccountProofs!Cap, Account!Cap
    <2>3. cap \in Nat /\ MaxCost * inflight \in Nat
      BY <2>2, CappedAccount, AccountProofs!Products DEF AccountProofs!Cap, Account!Cap
    <2> HIDE DEF n, cap
    <2>4. cap * resets <= cap * n /\ cap * n \in Nat /\ cap * resets \in Nat
      BY <2>1, <2>2, <2>3
    <2>5. cap * (1 + n) = cap + cap * n
      BY <2>1, <2>3
    <2>6. spent <= cap * (1 + n)
      BY <2>2, <2>3, <2>4, <2>5
    <2>7. QED
      <3>1. PaidInvoices = recorded \cap Invoices
        BY <1>1, PaidIsInvoice DEF CycleInv, IInv
      <3>2. QED
        BY <2>6, <3>1 DEF BudgetPerInvoice, n, cap
  <1>2. QED
    BY <1>1, CycleInitInv, CycleNextInv, PTL DEF CycleSpec
=============================================================================

---------------------- MODULE BrokerConnectionsProofs ----------------------
(***************************************************************************)
(* Proofs about BrokerConnections, for every number of users, requests,    *)
(* authorizations and tokens: the safety invariants, and that the handlers *)
(* implement BrokerLifecycle.                                              *)
(***************************************************************************)
EXTENDS BrokerConnections, TLAPS

(* A row is only ever inserted for a user SnapTrade has registered. *)
RowsRegistered == \A u \in Users : conn[u] # None => u \in registered

(* The inductive invariant. *)
IInv ==
    /\ TypeOK
    /\ RowPhases
    /\ OwnAuthorizations
    /\ SnapshotsSound
    /\ SoleRegistrant
    /\ SecretKept
    /\ RowsRegistered

-----------------------------------------------------------------------------
(* What the three ways of moving a request do to it and leave alone. *)

(* Go moves request r to step `to` and keeps its fields. *)
LEMMA GoFacts ==
    ASSUME req \in [Reqs -> Request], NEW r \in Reqs, NEW to \in Steps, Go(r, to)
    PROVE  /\ req' \in [Reqs -> Request]
           /\ req'[r].at = to /\ req'[r].user = req[r].user
           /\ req'[r].row = req[r].row /\ req'[r].auth = req[r].auth
           /\ \A q \in Reqs \ {r} : req'[q] = req[q]
  BY DEF Go, Request

(* Finish ends request r. *)
LEMMA FinishFacts ==
    ASSUME req \in [Reqs -> Request], NEW r \in Reqs, Finish(r)
    PROVE  /\ req' \in [Reqs -> Request]
           /\ req'[r].at = "idle"
           /\ \A q \in Reqs \ {r} : req'[q] = req[q]
  BY DEF Finish, Request, Idle, Steps

(* Start begins a request in slot r with the given fields. *)
LEMMA StartFacts ==
    ASSUME req \in [Reqs -> Request], started \in 0..MaxRequests,
           NEW r \in Reqs, NEW at \in Steps, NEW u \in Users \cup {None},
           NEW row \in StoredConnection \cup {None}, NEW a \in Auths \cup {None},
           Start(r, at, u, row, a)
    PROVE  /\ req' \in [Reqs -> Request]
           /\ req[r].at = "idle"
           /\ req'[r].at = at /\ req'[r].user = u /\ req'[r].row = row /\ req'[r].auth = a
           /\ \A q \in Reqs \ {r} : req'[q] = req[q]
           /\ started' \in 0..MaxRequests
  BY BoundAssumption DEF Start, Request

(* An audit write keeps the log's type. *)
LEMMA AuditFacts ==
    ASSUME audit \in [AuditEvent -> Nat], NEW e \in AuditEvent, record_event(e)
    PROVE  audit' \in [AuditEvent -> Nat]
  BY DEF record_event

-----------------------------------------------------------------------------
(* Frame lemmas: a conjunct survives a step that moves only request r. *)

(* Ownership survives when rows and owners stay and SnapTrade's lists only shrink. *)
LEMMA OwnFrame ==
    ASSUME OwnAuthorizations, NEW r \in Reqs, UNCHANGED <<conn, owner>>,
           \A u \in Users : live'[u] \subseteq live[u],
           \A q \in Reqs \ {r} : req'[q] = req[q],
           req'[r].at = "mark" => req'[r].auth # None /\ owner'[req'[r].auth] = req'[r].user
    PROVE  OwnAuthorizations'
  BY DEF OwnAuthorizations

(* Soundness of the snapshots survives when no row goes away or is unlinked. *)
LEMMA SnapshotFrame ==
    ASSUME TypeOK, SnapshotsSound, NEW r \in Reqs,
           \A u \in Users : conn[u] # None => conn'[u] # None,
           \A u \in Users : conn[u] # None /\ conn[u].auth # None => conn'[u].auth # None,
           \A q \in Reqs \ {r} : req'[q] = req[q],
           Sound(r)',
           \A t \in Tokens : issued'[t] # None => conn'[issued'[t]] # None
    PROVE  SnapshotsSound'
  <1>1. ASSUME NEW q \in Reqs \ {r} PROVE Sound(q)'
    <2>1. Sound(q) /\ req'[q] = req[q] /\ req[q] \in Request
      BY <1>1 DEF SnapshotsSound, TypeOK
    <2>2. req[q].at # "idle" => req[q].user \in Users
      BY <2>1 DEF Sound, Request
    <2>3. QED
      BY <2>1, <2>2 DEF Sound, Steps
  <1>2. QED
    BY <1>1 DEF SnapshotsSound

(* Registration survives a step that leaves rows and registrations alone and
   in which r neither gains nor loses a secret. *)
LEMMA SecretFrame ==
    ASSUME SoleRegistrant, SecretKept, RowsRegistered, NEW r \in Reqs,
           UNCHANGED <<conn, registered>>, stranded \subseteq stranded',
           \A q \in Reqs \ {r} : req'[q] = req[q],
           ~HoldsSecret(r)',
           HoldsSecret(r) => req[r].user \in stranded'
    PROVE  SoleRegistrant' /\ SecretKept' /\ RowsRegistered'
  BY DEF SoleRegistrant, SecretKept, RowsRegistered, HoldsSecret

(* The steps that change no row, owner or registration: it is enough that the
   types hold, r keeps a sound snapshot and r keeps no secret. *)
LEMMA QuietStep ==
    ASSUME IInv, TypeOK', NEW r \in Reqs, UNCHANGED <<conn, owner, registered>>,
           \A u \in Users : live'[u] \subseteq live[u],
           stranded \subseteq stranded',
           \A q \in Reqs \ {r} : req'[q] = req[q],
           req'[r].at = "mark" => req'[r].auth # None /\ owner'[req'[r].auth] = req'[r].user,
           req'[r].at \notin {"initiated", "insert"},
           HoldsSecret(r) => req[r].user \in stranded',
           Sound(r)',
           \A t \in Tokens : issued'[t] # None => conn'[issued'[t]] # None
    PROVE  IInv'
  <1>1. RowPhases'
    BY DEF IInv, RowPhases
  <1>2. OwnAuthorizations'
    BY OwnFrame DEF IInv
  <1>3. SnapshotsSound'
    BY SnapshotFrame DEF IInv
  <1>4. SoleRegistrant' /\ SecretKept' /\ RowsRegistered'
    BY SecretFrame DEF IInv, HoldsSecret
  <1>5. QED
    BY <1>1, <1>2, <1>3, <1>4 DEF IInv

(* A quiet step that ends request r. *)
LEMMA QuietFinish ==
    ASSUME IInv, NEW r \in Reqs, Finish(r), audit' \in [AuditEvent -> Nat],
           UNCHANGED <<conn, tokens, upstream, started>>,
           stranded \subseteq stranded', stranded' \subseteq Users, acked' \subseteq Auths,
           HoldsSecret(r) => req[r].user \in stranded'
    PROVE  IInv'
  <1>1. /\ req' \in [Reqs -> Request]
        /\ req'[r].at = "idle"
        /\ \A q \in Reqs \ {r} : req'[q] = req[q]
    BY FinishFacts DEF IInv, TypeOK
  <1>2. TypeOK'
    BY <1>1 DEF IInv, TypeOK, tokens, upstream
  <1>3. Sound(r)'
    BY <1>1 DEF Sound
  <1>4. QED
    BY <1>1, <1>2, <1>3, QuietStep DEF IInv, SnapshotsSound, tokens, upstream

-----------------------------------------------------------------------------
(* One lemma per action that is not a plain end of a request. *)

(* A row that was read is a row of the table, and belongs to its user. *)
LEMMA RowFacts ==
    ASSUME IInv, NEW u \in Users, conn[u] # None
    PROVE  conn[u] \in StoredConnection /\ conn[u].uid = u
  BY DEF IInv, TypeOK, RowPhases

(* A login-portal request starts from the row it finds. *)
LEMMA LoginPortalInv ==
    ASSUME IInv, NEW r \in Reqs, NEW u \in Users, login_portal(r, u)
    PROVE  IInv'
  <1> DEFINE at == IF conn[u] = None THEN "register" ELSE "login"
  <1>1. Start(r, at, u, conn[u], None) /\ at \in Steps /\ conn[u] \in StoredConnection \cup {None}
    BY DEF login_portal, fetch_any_for_user, Steps, IInv, TypeOK
  <1> HIDE DEF at
  <1>2. /\ req' \in [Reqs -> Request]
        /\ req[r].at = "idle"
        /\ req'[r].at = at /\ req'[r].user = u
        /\ \A q \in Reqs \ {r} : req'[q] = req[q]
        /\ started' \in 0..MaxRequests
    BY <1>1, StartFacts DEF IInv, TypeOK
  <1>3. TypeOK'
    BY <1>2 DEF IInv, TypeOK, login_portal, tokens, upstream, history
  <1>4. Sound(r)'
    BY <1>2, NoneAssumption DEF Sound, at, login_portal
  <1>5. QED
    BY <1>2, <1>3, <1>4, QuietStep DEF IInv, SnapshotsSound, HoldsSecret, at, login_portal, tokens, upstream, history

(* Only a user SnapTrade did not know comes back with a secret. *)
LEMMA RegisterUserInv ==
    ASSUME IInv, NEW r \in Reqs, register_user(r)
    PROVE  IInv'
  <1> DEFINE u == req[r].user
  <1>1. u \in Users /\ req[r].at = "register" /\ registered' = registered \cup {u}
    BY DEF IInv, TypeOK, Request, SnapshotsSound, Sound, register_user
  <1>2. CASE u \in registered
    <2>1. Finish(r) /\ registered' = registered
      BY <1>1, <1>2 DEF register_user
    <2>2. QED
      BY <1>1, <2>1, QuietFinish DEF IInv, TypeOK, HoldsSecret, register_user, tokens, upstream, history
  <1>3. CASE u \notin registered
    <2>1. /\ req' \in [Reqs -> Request]
          /\ req'[r].at = "initiated" /\ req'[r].user = u
          /\ \A q \in Reqs \ {r} : req'[q] = req[q]
      BY <1>3, GoFacts DEF IInv, TypeOK, Steps, register_user
    <2>2. TypeOK'
      BY <1>1, <2>1 DEF IInv, TypeOK, register_user, tokens, history
    <2>3. RowPhases'
      BY DEF IInv, RowPhases, register_user
    <2>4. OwnAuthorizations'
      BY <2>1, OwnFrame DEF IInv, register_user
    <2>5. Sound(r)'
      BY <1>1, <2>1, NoneAssumption DEF Sound
    <2>6. SnapshotsSound'
      BY <2>1, <2>5, SnapshotFrame DEF IInv, SnapshotsSound, register_user, tokens
    <2>7. conn[u] = None /\ \A q \in Reqs : HoldsSecret(q) => req[q].user # u
      BY <1>1, <1>3 DEF IInv, RowsRegistered, SoleRegistrant
    <2>8. SoleRegistrant' /\ SecretKept' /\ RowsRegistered'
      BY <1>1, <2>1, <2>7 DEF IInv, SoleRegistrant, SecretKept, RowsRegistered, HoldsSecret, register_user, history
    <2>9. QED
      BY <2>2, <2>3, <2>4, <2>6, <2>8 DEF IInv
  <1>4. QED
    BY <1>2, <1>3

(* The audit row changes nothing the invariant speaks of; the secret is kept. *)
LEMMA AuditInitiatedInv ==
    ASSUME IInv, NEW r \in Reqs, audit_initiated(r)
    PROVE  IInv'
  <1>1. /\ req' \in [Reqs -> Request]
        /\ req'[r].at = "insert" /\ req'[r].user = req[r].user
        /\ \A q \in Reqs \ {r} : req'[q] = req[q]
        /\ req[r].at = "initiated"
    BY GoFacts DEF IInv, TypeOK, Steps, audit_initiated
  <1>2. Event("connect.initiated", req[r].user, None) \in AuditEvent
    BY DEF Event, AuditEvent, IInv, TypeOK, Request
  <1>3. audit' \in [AuditEvent -> Nat]
    BY <1>2, AuditFacts DEF audit_initiated, IInv, TypeOK
  <1>4. TypeOK'
    BY <1>1, <1>3 DEF IInv, TypeOK, audit_initiated, tokens, upstream, history
  <1>5. RowPhases'
    BY DEF IInv, RowPhases, audit_initiated
  <1>6. OwnAuthorizations'
    BY <1>1, OwnFrame DEF IInv, audit_initiated, upstream
  <1>7. Sound(r)'
    BY <1>1 DEF Sound, IInv, SnapshotsSound
  <1>8. SnapshotsSound'
    BY <1>1, <1>7, SnapshotFrame DEF IInv, SnapshotsSound, audit_initiated, tokens
  <1>9. SoleRegistrant' /\ SecretKept' /\ RowsRegistered'
    <2>1. \A q \in Reqs : (HoldsSecret(q)' <=> HoldsSecret(q)) /\ req'[q].user = req[q].user
      BY <1>1 DEF HoldsSecret
    <2>2. UNCHANGED <<conn, registered, stranded>>
      BY DEF audit_initiated, upstream, history
    <2>3. QED
      BY <2>1, <2>2 DEF IInv, SoleRegistrant, SecretKept, RowsRegistered
  <1>10. QED
    BY <1>4, <1>5, <1>6, <1>8, <1>9 DEF IInv

(* The only request holding u's secret stores it: the 409 branch is dead. *)
LEMMA InsertPendingInv ==
    ASSUME IInv, NEW r \in Reqs, insert_pending(r)
    PROVE  IInv'
  <1> DEFINE u == req[r].user
  <1>1. u \in Users /\ req[r].at = "insert" /\ conn[u] = None /\ u \in registered
    BY DEF IInv, TypeOK, Request, SnapshotsSound, Sound, SoleRegistrant, HoldsSecret, insert_pending
  <1>2. /\ conn' \in [Users -> StoredConnection \cup {None}]
        /\ conn'[u] \in StoredConnection /\ conn'[u] # None
        /\ conn'[u].uid = u /\ conn'[u].auth = None
        /\ ~conn'[u].active /\ ~conn'[u].disabled
        /\ \A v \in Users \ {u} : conn'[v] = conn[v]
    <2>1. [uid |-> u, auth |-> None, active |-> FALSE, disabled |-> FALSE] \in StoredConnection
      BY <1>1 DEF StoredConnection
    <2>2. QED
      BY <1>1, <2>1, NullIsNoRow DEF IInv, TypeOK, insert_pending
  <1>3. /\ req' \in [Reqs -> Request]
        /\ req'[r].at = "login" /\ req'[r].user = u
        /\ \A q \in Reqs \ {r} : req'[q] = req[q]
    BY <1>1, GoFacts DEF IInv, TypeOK, Steps, insert_pending
  <1>4. TypeOK'
    BY <1>2, <1>3 DEF IInv, TypeOK, insert_pending, tokens, upstream, history
  <1>5. RowPhases'
    BY <1>1, <1>2 DEF IInv, RowPhases
  <1>6. OwnAuthorizations'
    BY <1>1, <1>2, <1>3 DEF IInv, OwnAuthorizations, insert_pending, upstream
  <1>7. Sound(r)'
    BY <1>1, <1>2, <1>3, NoneAssumption DEF Sound
  <1>8. SnapshotsSound'
    <2>1. \A v \in Users : conn[v] # None => conn'[v] = conn[v]
      BY <1>1, <1>2
    <2>2. \A t \in Tokens : issued'[t] # None => conn'[issued'[t]] # None
      BY <2>1 DEF IInv, TypeOK, SnapshotsSound, insert_pending, tokens
    <2>3. QED
      BY <1>3, <1>7, <2>1, <2>2, SnapshotFrame DEF IInv
  <1>9. SoleRegistrant' /\ SecretKept' /\ RowsRegistered'
    <2>1. UNCHANGED <<registered, stranded>>
      BY DEF insert_pending, upstream, history
    <2>2. \A q \in Reqs : HoldsSecret(q)' => q # r /\ HoldsSecret(q) /\ req'[q] = req[q]
      BY <1>3 DEF HoldsSecret
    <2>3. \A q \in Reqs : HoldsSecret(q)' => req[q].user # u
      BY <1>1, <2>2 DEF IInv, SoleRegistrant, HoldsSecret
    <2>4. SoleRegistrant'
      BY <1>2, <2>1, <2>2, <2>3 DEF IInv, TypeOK, SoleRegistrant
    <2>5. SecretKept'
      BY <1>1, <1>2, <1>3, <2>1 DEF IInv, TypeOK, SecretKept, HoldsSecret
    <2>6. RowsRegistered'
      BY <1>1, <1>2, <2>1 DEF IInv, RowsRegistered
    <2>7. QED
      BY <2>4, <2>5, <2>6
  <1>10. QED
    BY <1>4, <1>5, <1>6, <1>8, <1>9 DEF IInv

(* The state JWT goes to a user who has a row. *)
LEMMA LoginUserInv ==
    ASSUME IInv, NEW r \in Reqs, login_user(r)
    PROVE  IInv'
  <1> DEFINE u == req[r].user
  <1>1. u \in Users /\ req[r].at = "login" /\ conn[u] # None
    BY DEF IInv, TypeOK, Request, SnapshotsSound, Sound, Steps, login_user
  <1>2. PICK t \in Tokens : issued' = [issued EXCEPT ![t] = u]
    BY DEF login_user
  <1>3. /\ req' \in [Reqs -> Request]
        /\ req'[r].at = "idle"
        /\ \A q \in Reqs \ {r} : req'[q] = req[q]
    BY FinishFacts DEF IInv, TypeOK, login_user
  <1>4. TypeOK'
    BY <1>1, <1>2, <1>3 DEF IInv, TypeOK, login_user, upstream, history
  <1>5. \A k \in Tokens : issued'[k] # None => conn'[issued'[k]] # None
    BY <1>1, <1>2 DEF IInv, TypeOK, SnapshotsSound, login_user
  <1>6. Sound(r)'
    BY <1>3 DEF Sound
  <1>7. QED
    BY <1>1, <1>3, <1>4, <1>5, <1>6, QuietStep DEF HoldsSecret, login_user, upstream, history

(* A verified callback reads the row of the user its token names. *)
LEMMA CallbackInv ==
    ASSUME IInv, NEW r \in Reqs, NEW t \in Tokens \cup {None}, NEW uid \in Users \cup {None},
           snaptrade_callback(r, t, uid)
    PROVE  IInv'
  <1> DEFINE u == issued[t]
             row == IF verify(t) THEN fetch_any_for_user(issued[t]) ELSE None
  <1>1. CASE row # None /\ uid \in {None, row.uid}
    <2>1. u \in Users /\ row = conn[u] /\ conn[u] # None
      BY <1>1 DEF verify, fetch_any_for_user, IInv, TypeOK
    <2>2. conn[u] \in StoredConnection /\ conn[u].uid = u
      BY <2>1, RowFacts
    <2>3. Start(r, "list", u, conn[u], None)
      BY <1>1, <2>1 DEF snaptrade_callback
    <2>4. /\ req' \in [Reqs -> Request]
          /\ req[r].at = "idle"
          /\ req'[r].at = "list" /\ req'[r].user = u /\ req'[r].row = conn[u]
          /\ \A q \in Reqs \ {r} : req'[q] = req[q]
          /\ started' \in 0..MaxRequests
      BY <2>1, <2>2, <2>3, StartFacts DEF IInv, TypeOK, Steps
    <2>5. UNCHANGED <<conn, audit, tokens, upstream, history>>
      BY <1>1 DEF snaptrade_callback
    <2>6. TypeOK'
      BY <2>4, <2>5 DEF IInv, TypeOK, tokens, upstream, history
    <2>7. Sound(r)'
      BY <2>1, <2>2, <2>4, <2>5, NoneAssumption DEF Sound
    <2>8. QED
      BY <2>4, <2>5, <2>6, <2>7, QuietStep DEF IInv, SnapshotsSound, HoldsSecret, tokens, upstream, history
  <1>2. CASE ~(row # None /\ uid \in {None, row.uid})
    <2> DEFINE e == Event("connect.failed", IF verify(t) THEN u ELSE None, None)
    <2>1. /\ req[r].at = "idle" /\ started < MaxRequests /\ started' = started + 1
          /\ record_event(e)
          /\ UNCHANGED <<conn, req, tokens, upstream, history>>
      BY <1>2 DEF snaptrade_callback
    <2>2. e \in AuditEvent
      BY DEF Event, AuditEvent, verify, IInv, TypeOK
    <2>3. audit' \in [AuditEvent -> Nat]
      BY <2>1, <2>2, AuditFacts DEF IInv, TypeOK
    <2>4. started' \in 0..MaxRequests
      BY <2>1, BoundAssumption DEF IInv, TypeOK
    <2>5. TypeOK'
      BY <2>1, <2>3, <2>4 DEF IInv, TypeOK, tokens, upstream, history
    <2>6. Sound(r)'
      BY <2>1 DEF Sound, IInv, SnapshotsSound
    <2>7. QED
      BY <2>1, <2>5, <2>6, QuietStep DEF IInv, SnapshotsSound, HoldsSecret, tokens, upstream, history
  <1>3. QED
    BY <1>1, <1>2

(* What the callback chooses comes from SnapTrade's list for the row's account. *)
LEMMA ListAuthorizationsInv ==
    ASSUME IInv, NEW r \in Reqs, list_authorizations(r)
    PROVE  IInv'
  <1> DEFINE u == req[r].user
             existing == req[r].row.auth
             chosen == pick_newest_authorization(live[req[r].row.uid], existing)
  <1>1. u \in Users /\ req[r].at = "list" /\ req[r].row \in StoredConnection /\ req[r].row.uid = u
        /\ conn[u] # None /\ req[r] \in Request
    BY DEF IInv, TypeOK, Request, SnapshotsSound, Sound, Steps, list_authorizations
  <1>2. UNCHANGED <<conn, tokens, upstream, started, history>>
    BY DEF list_authorizations
  <1>3. ASSUME NEW a \in chosen,
               req' = [req EXCEPT ![r] = [@ EXCEPT !.at = "mark", !.auth = a.id]],
               UNCHANGED audit
        PROVE  IInv'
    <2>1. a \in live[u] /\ a.id \in Auths /\ owner[a.id] = u
      BY <1>1, <1>3 DEF pick_newest_authorization, IInv, TypeOK, StAuthorization, OwnAuthorizations
    <2>2. /\ req' \in [Reqs -> Request]
          /\ req'[r].at = "mark" /\ req'[r].user = u /\ req'[r].row = req[r].row
          /\ req'[r].auth = a.id
          /\ \A q \in Reqs \ {r} : req'[q] = req[q]
      BY <1>1, <1>3, <2>1 DEF IInv, TypeOK, Request, Steps
    <2>3. TypeOK'
      BY <1>2, <1>3, <2>2 DEF IInv, TypeOK, tokens, upstream, history
    <2>4. Sound(r)'
      BY <1>1, <1>2, <2>2, NoneAssumption, NullIsNoRow DEF Sound
    <2>5. req'[r].auth # None /\ owner'[req'[r].auth] = req'[r].user
      BY <1>2, <2>1, <2>2, NoneAssumption DEF upstream
    <2>6. QED
      BY <1>1, <1>2, <2>2, <2>3, <2>4, <2>5, QuietStep DEF IInv, SnapshotsSound, HoldsSecret, tokens, upstream, history
  <1>4. ASSUME Finish(r), audit' \in [AuditEvent -> Nat]
        PROVE  IInv'
    BY <1>1, <1>2, <1>4, QuietFinish DEF IInv, TypeOK, HoldsSecret, history
  <1>5. Event("connect.failed", u, None) \in AuditEvent
    BY <1>1 DEF Event, AuditEvent
  <1>6. \/ \E a \in chosen :
             /\ req' = [req EXCEPT ![r] = [@ EXCEPT !.at = "mark", !.auth = a.id]]
             /\ UNCHANGED audit
        \/ Finish(r) /\ UNCHANGED audit
        \/ Finish(r) /\ record_event(Event("connect.failed", u, None))
    BY DEF list_authorizations
  <1>7. QED
    BY <1>3, <1>4, <1>5, <1>6, AuditFacts DEF IInv, TypeOK

(* A failed listing ends the callback. *)
LEMMA ListFailedInv ==
    ASSUME IInv, NEW r \in Reqs, list_authorizations_failed(r)
    PROVE  IInv'
  <1>1. Event("connect.failed", req[r].user, None) \in AuditEvent
    BY DEF Event, AuditEvent, IInv, TypeOK, Request
  <1>2. audit' \in [AuditEvent -> Nat]
    BY <1>1, AuditFacts DEF list_authorizations_failed, IInv, TypeOK
  <1>3. QED
    BY <1>2, QuietFinish DEF IInv, TypeOK, HoldsSecret, list_authorizations_failed, history

(* A rewrite of a linked or completed row: it stays linked and stays u's. *)
LEMMA RowRewrite ==
    ASSUME IInv, NEW r \in Reqs, NEW u \in Users, NEW to \in Steps \ {"initiated", "insert", "mark"},
           req[r].at \in {"mark", "soft_delete"}, req[r].user = u, conn[u] # None,
           Go(r, to), Sound(r)',
           UNCHANGED <<audit, tokens, upstream, started, history>>,
           conn' \in [Users -> StoredConnection \cup {None}],
           \A v \in Users \ {u} : conn'[v] = conn[v],
           conn'[u] \in StoredConnection, conn'[u].uid = u,
           conn'[u].auth # None, owner[conn'[u].auth] = u,
           conn'[u].active <=> ~conn'[u].disabled
    PROVE  IInv'
  <1>1. conn'[u] # None
    BY NullIsNoRow
  <1>2. /\ req' \in [Reqs -> Request]
        /\ req'[r].at = to /\ req'[r].user = u
        /\ \A q \in Reqs \ {r} : req'[q] = req[q]
    BY GoFacts DEF IInv, TypeOK
  <1>3. TypeOK'
    BY <1>2 DEF IInv, TypeOK, tokens, upstream, history
  <1>4. RowPhases'
    BY DEF IInv, RowPhases
  <1>5. OwnAuthorizations'
    BY <1>2 DEF IInv, OwnAuthorizations, upstream
  <1>6. SnapshotsSound'
    <2>1. \A t \in Tokens : issued'[t] # None => conn'[issued'[t]] # None
      BY <1>1 DEF IInv, TypeOK, SnapshotsSound, tokens
    <2>2. QED
      BY <1>1, <1>2, <2>1, SnapshotFrame DEF IInv
  <1>7. SoleRegistrant' /\ SecretKept' /\ RowsRegistered'
    <2>1. UNCHANGED <<registered, stranded>>
      BY DEF upstream, history
    <2>2. \A q \in Reqs : /\ HoldsSecret(q)' <=> HoldsSecret(q)
                          /\ HoldsSecret(q) => req'[q].user = req[q].user
      BY <1>2 DEF HoldsSecret
    <2>3. \A q \in Reqs : HoldsSecret(q) => req[q].user # u
      BY DEF IInv, SoleRegistrant
    <2>4. SoleRegistrant'
      <3>1. \A q \in Reqs : HoldsSecret(q) => req[q].user \in registered
        BY DEF IInv, SoleRegistrant
      <3>2. \A q \in Reqs : HoldsSecret(q) => conn'[req[q].user] = conn[req[q].user]
        BY <2>3, <3>1 DEF IInv, TypeOK
      <3>3. QED
        BY <2>1, <2>2, <3>1, <3>2 DEF IInv, SoleRegistrant
    <2>5. SecretKept'
      BY <1>1, <2>1, <2>2 DEF IInv, TypeOK, SecretKept
    <2>6. RowsRegistered'
      BY <2>1 DEF IInv, RowsRegistered
    <2>7. QED
      BY <2>4, <2>5, <2>6
  <1>8. QED
    BY <1>3, <1>4, <1>5, <1>6, <1>7 DEF IInv

(* mark_completed links the row to an authorization of its user. *)
LEMMA MarkCompletedInv ==
    ASSUME IInv, NEW r \in Reqs, mark_completed(r)
    PROVE  IInv'
  <1> DEFINE u == req[r].user
  <1>1. /\ u \in Users /\ u = req[r].row.uid /\ req[r].at = "mark"
        /\ conn[u] # None
        /\ req[r].auth \in Auths /\ owner[req[r].auth] = u
    BY DEF IInv, TypeOK, Request, SnapshotsSound, Sound, OwnAuthorizations, Steps, mark_completed
  <1>2. conn[u] \in StoredConnection /\ conn[u].uid = u
    BY <1>1, RowFacts
  <1>3. /\ conn' \in [Users -> StoredConnection \cup {None}]
        /\ conn'[u] \in StoredConnection
        /\ conn'[u].uid = u /\ conn'[u].auth = req[r].auth
        /\ conn'[u].active /\ ~conn'[u].disabled
        /\ \A v \in Users \ {u} : conn'[v] = conn[v]
    BY <1>1, <1>2 DEF IInv, TypeOK, StoredConnection, mark_completed
  <1>4. Go(r, "completed") /\ UNCHANGED <<audit, tokens, upstream, started, history>>
    BY DEF mark_completed
  <1>5. req'[r].at = "completed" /\ req'[r].user = u
    BY <1>4, GoFacts DEF IInv, TypeOK, Steps
  <1>6. Sound(r)'
    BY <1>1, <1>3, <1>5, NoneAssumption, NullIsNoRow DEF Sound
  <1>7. QED
    BY <1>1, <1>3, <1>4, <1>6, NoneAssumption, RowRewrite DEF Steps

(* soft_delete disables whatever authorization the row carries by now. *)
LEMMA SoftDeleteInv ==
    ASSUME IInv, NEW r \in Reqs, soft_delete(r)
    PROVE  IInv'
  <1> DEFINE u == req[r].user
  <1>1. /\ u \in Users /\ u = req[r].row.uid /\ req[r].at = "soft_delete"
        /\ conn[u] # None /\ conn[u].auth # None /\ req[r].auth # None
    BY DEF IInv, TypeOK, Request, SnapshotsSound, Sound, Steps, soft_delete
  <1>2. conn[u] \in StoredConnection /\ conn[u].uid = u /\ owner[conn[u].auth] = u
    BY <1>1, RowFacts DEF IInv, OwnAuthorizations
  <1>3. /\ conn' \in [Users -> StoredConnection \cup {None}]
        /\ conn'[u] \in StoredConnection
        /\ conn'[u].uid = u /\ conn'[u].auth = conn[u].auth
        /\ ~conn'[u].active /\ conn'[u].disabled
        /\ \A v \in Users \ {u} : conn'[v] = conn[v]
    BY <1>1, <1>2 DEF IInv, TypeOK, StoredConnection, soft_delete
  <1>4. Go(r, "disconnected") /\ UNCHANGED <<audit, tokens, upstream, started, history>>
    BY DEF soft_delete
  <1>5. req'[r].at = "disconnected" /\ req'[r].user = u /\ req'[r].auth = req[r].auth
    BY <1>4, GoFacts DEF IInv, TypeOK, Steps
  <1>6. Sound(r)'
    BY <1>1, <1>3, <1>5, NoneAssumption, NullIsNoRow DEF Sound
  <1>7. QED
    BY <1>1, <1>2, <1>3, <1>4, <1>6, RowRewrite DEF Steps

(* The completed-connection audit row ends the callback. *)
LEMMA AuditCompletedInv ==
    ASSUME IInv, NEW r \in Reqs, audit_completed(r)
    PROVE  IInv'
  <1>1. Event("connect.completed", req[r].user, req[r].auth) \in AuditEvent
    BY DEF Event, AuditEvent, IInv, TypeOK, Request
  <1>2. audit' \in [AuditEvent -> Nat]
    BY <1>1, AuditFacts DEF audit_completed, IInv, TypeOK
  <1>3. QED
    BY <1>2, QuietFinish DEF IInv, TypeOK, HoldsSecret, audit_completed, history

(* The disconnect audit row ends the DELETE. *)
LEMMA AuditDisconnectInv ==
    ASSUME IInv, NEW r \in Reqs, audit_disconnect(r)
    PROVE  IInv'
  <1>1. Event("disconnect", req[r].user, req[r].auth) \in AuditEvent
    BY DEF Event, AuditEvent, IInv, TypeOK, Request
  <1>2. audit' \in [AuditEvent -> Nat]
    BY <1>1, AuditFacts DEF audit_disconnect, IInv, TypeOK
  <1>3. QED
    BY <1>2, QuietFinish DEF IInv, TypeOK, Request, SnapshotsSound, Sound, HoldsSecret, audit_disconnect, history

(* The refresh audit row ends the refresh. *)
LEMMA AuditRefreshInv ==
    ASSUME IInv, NEW r \in Reqs, audit_refresh(r)
    PROVE  IInv'
  <1>1. Event("refresh", req[r].user, req[r].auth) \in AuditEvent
    BY DEF Event, AuditEvent, IInv, TypeOK, Request
  <1>2. audit' \in [AuditEvent -> Nat]
    BY <1>1, AuditFacts DEF audit_refresh, IInv, TypeOK
  <1>3. QED
    BY <1>2, QuietFinish DEF IInv, TypeOK, HoldsSecret, audit_refresh, history

(* A handler that starts from the row of u; DELETE and refresh need the row to
   carry an authorization. *)
LEMMA StartOnRow ==
    ASSUME IInv, NEW r \in Reqs, NEW u \in Users, NEW a \in Auths \cup {None},
           conn[u] # None,
           NEW at \in {"remove", "soft_delete", "refresh", "read"},
           at # "read" => a # None /\ conn[u].auth # None,
           Start(r, at, u, conn[u], a),
           UNCHANGED <<conn, audit, tokens, upstream, history>>
    PROVE  IInv'
  <1>1. conn[u] \in StoredConnection /\ conn[u].uid = u /\ at \in Steps
    BY RowFacts DEF Steps
  <1>2. /\ req' \in [Reqs -> Request]
        /\ req[r].at = "idle"
        /\ req'[r].at = at /\ req'[r].user = u /\ req'[r].row = conn[u] /\ req'[r].auth = a
        /\ \A q \in Reqs \ {r} : req'[q] = req[q]
        /\ started' \in 0..MaxRequests
    BY <1>1, StartFacts DEF IInv, TypeOK
  <1>3. TypeOK'
    BY <1>2 DEF IInv, TypeOK, tokens, upstream, history
  <1>4. Sound(r)'
    BY <1>1, <1>2, NoneAssumption DEF Sound
  <1>5. QED
    BY <1>2, <1>3, <1>4, QuietStep DEF IInv, SnapshotsSound, HoldsSecret, tokens, upstream, history

(* DELETE starts from the row it found. *)
LEMMA DeleteConnectionInv ==
    ASSUME IInv, NEW r \in Reqs, NEW u \in Users, NEW a \in Auths, delete_connection(r, u, a)
    PROVE  IInv'
  <1> DEFINE at == IF conn[u].disabled THEN "soft_delete" ELSE "remove"
  <1>1. conn[u] # None /\ conn[u].auth = a /\ Start(r, at, u, conn[u], a)
    BY DEF delete_connection, fetch_by_authorization_id_for_user
  <1>2. at \in {"remove", "soft_delete", "refresh", "read"} /\ at # "read"
    OBVIOUS
  <1> HIDE DEF at
  <1>3. QED
    BY <1>1, <1>2, StartOnRow, NoneAssumption DEF delete_connection

(* A refresh starts from the row it found. *)
LEMMA RefreshConnectionInv ==
    ASSUME IInv, NEW r \in Reqs, NEW u \in Users, NEW a \in Auths, refresh_connection(r, u, a)
    PROVE  IInv'
  <1>1. conn[u] # None /\ conn[u].auth = a /\ Start(r, "refresh", u, conn[u], a)
    BY DEF refresh_connection, fetch_by_authorization_id_for_user
  <1>2. QED
    BY <1>1, StartOnRow, NoneAssumption DEF refresh_connection

(* A read starts from the active row it found. *)
LEMMA ReadBrokerageInv ==
    ASSUME IInv, NEW r \in Reqs, NEW u \in Users, read_brokerage(r, u)
    PROVE  IInv'
  <1>1. conn[u] # None /\ Start(r, "read", u, conn[u], None)
    BY DEF read_brokerage, fetch_active_for_user
  <1>2. QED
    BY <1>1, StartOnRow DEF read_brokerage

(* The answer to a read ends the request. *)
LEMMA BrokerageAnswerInv ==
    ASSUME IInv, NEW r \in Reqs, brokerage_answer(r)
    PROVE  IInv'
  BY QuietFinish DEF IInv, TypeOK, HoldsSecret, brokerage_answer, history

(* Removing an authorization upstream only shrinks SnapTrade's list. *)
LEMMA RemoveAuthorizationInv ==
    ASSUME IInv, NEW r \in Reqs, remove_authorization(r)
    PROVE  IInv'
  <1> DEFINE u == req[r].user
  <1>1. /\ u \in Users /\ u = req[r].row.uid /\ req[r].at = "remove" /\ req[r].row # None
        /\ conn[u] # None /\ conn[u].auth # None /\ req[r].auth # None
    BY DEF IInv, TypeOK, Request, SnapshotsSound, Sound, Steps, remove_authorization
  <1>2. /\ live' \in [Users -> SUBSET StAuthorization]
        /\ \A v \in Users : live'[v] \subseteq live[v]
    BY <1>1 DEF IInv, TypeOK, remove_authorization
  <1>3. /\ req' \in [Reqs -> Request]
        /\ req'[r].at = "soft_delete" /\ req'[r].user = u
        /\ req'[r].row = req[r].row /\ req'[r].auth = req[r].auth
        /\ \A q \in Reqs \ {r} : req'[q] = req[q]
    BY GoFacts DEF IInv, TypeOK, Steps, remove_authorization
  <1>4. TypeOK'
    BY <1>2, <1>3 DEF IInv, TypeOK, remove_authorization, tokens, history
  <1>5. Sound(r)'
    BY <1>1, <1>3, NoneAssumption DEF Sound, remove_authorization
  <1>6. QED
    BY <1>1, <1>2, <1>3, <1>4, <1>5, QuietStep DEF IInv, SnapshotsSound, HoldsSecret, remove_authorization, tokens, history

(* The upstream refresh changes no state of ours. *)
LEMMA RefreshAuthorizationInv ==
    ASSUME IInv, NEW r \in Reqs, refresh_authorization(r)
    PROVE  IInv'
  <1>1. Sound(r) /\ req[r].at = "refresh"
    BY DEF IInv, SnapshotsSound, refresh_authorization
  <1>2. /\ req' \in [Reqs -> Request]
        /\ req'[r].at = "refreshed" /\ req'[r].user = req[r].user /\ req'[r].auth = req[r].auth
        /\ \A q \in Reqs \ {r} : req'[q] = req[q]
    BY GoFacts DEF IInv, TypeOK, Steps, refresh_authorization
  <1>3. TypeOK'
    BY <1>2 DEF IInv, TypeOK, refresh_authorization, tokens, upstream, history
  <1>4. Sound(r)'
    BY <1>1, <1>2 DEF Sound, Steps, refresh_authorization
  <1>5. QED
    BY <1>1, <1>2, <1>3, <1>4, QuietStep DEF IInv, SnapshotsSound, HoldsSecret, refresh_authorization, tokens, upstream, history

(* A dropped request leaves what it did; a secret it held is stranded. *)
LEMMA DropInv ==
    ASSUME IInv, NEW r \in Reqs, Drop(r)
    PROVE  IInv'
  <1>1. stranded \subseteq stranded' /\ stranded' \subseteq Users
    BY DEF Drop, IInv, TypeOK
  <1>2. HoldsSecret(r) => req[r].user \in stranded'
    BY DEF HoldsSecret, Drop, IInv, TypeOK, SoleRegistrant
  <1>3. QED
    BY <1>1, <1>2, QuietFinish DEF Drop, IInv, TypeOK

(* A new authorization belongs to the user of the portal session. *)
LEMMA PortalConnectInv ==
    ASSUME IInv, NEW t \in Tokens, NEW a \in Auths, PortalConnect(t, a)
    PROVE  IInv'
  <1> DEFINE u == issued[t]
  <1>1. u \in Users /\ owner[a] = None /\ owner' = [owner EXCEPT ![a] = u] /\ born' \in Nat
    BY DEF PortalConnect, IInv, TypeOK
  <1>2. PICK ts \in {0, born + 1} :
            live' = [live EXCEPT ![u] = @ \cup {[id |-> a, ts |-> ts, idx |-> born + 1]}]
    BY DEF PortalConnect
  <1>3. [id |-> a, ts |-> ts, idx |-> born + 1] \in StAuthorization
    BY DEF StAuthorization, IInv, TypeOK
  <1>4. TypeOK'
    BY <1>1, <1>2, <1>3 DEF IInv, TypeOK, PortalConnect, tokens, history
  <1>5. \A b \in Auths : \A v \in Users : owner[b] = v => owner'[b] = v
    BY <1>1, NoneAssumption DEF IInv, TypeOK
  <1>6. OwnAuthorizations'
    <2>1. \A v \in Users : conn'[v] # None /\ conn'[v].auth # None => owner'[conn'[v].auth] = v
      BY <1>5, RowFacts DEF PortalConnect, IInv, OwnAuthorizations, StoredConnection
    <2>2. ASSUME NEW v \in Users, NEW b \in live'[v] PROVE owner'[b.id] = v
      <3>1. CASE b \in live[v]
        BY <1>5, <3>1 DEF IInv, TypeOK, OwnAuthorizations, StAuthorization
      <3>2. CASE b \notin live[v]
        <4>1. v = u /\ b = [id |-> a, ts |-> ts, idx |-> born + 1]
          BY <1>1, <1>2, <3>2 DEF IInv, TypeOK
        <4>2. QED
          BY <1>1, <4>1 DEF IInv, TypeOK
      <3>3. QED
        BY <3>1, <3>2
    <2>3. \A r \in Reqs : req'[r].at = "mark" => /\ req'[r].auth # None
                                               /\ owner'[req'[r].auth] = req'[r].user
      <3>1. ASSUME NEW r \in Reqs, req[r].at = "mark"
            PROVE  req[r].auth \in Auths /\ req[r].user \in Users /\ owner[req[r].auth] = req[r].user
        BY <3>1 DEF IInv, TypeOK, Request, OwnAuthorizations, SnapshotsSound, Sound
      <3>2. QED
        BY <1>5, <3>1, NoneAssumption DEF PortalConnect
    <2>4. QED
      BY <2>1, <2>2, <2>3 DEF OwnAuthorizations
  <1>7. UNCHANGED <<conn, req, issued, registered, stranded>>
    BY DEF PortalConnect, tokens, history
  <1>8. RowPhases' /\ RowsRegistered'
    BY <1>7 DEF IInv, RowPhases, RowsRegistered
  <1>9. SnapshotsSound'
    BY <1>7 DEF IInv, SnapshotsSound, Sound
  <1>10. SoleRegistrant' /\ SecretKept'
    BY <1>7 DEF IInv, SoleRegistrant, SecretKept, HoldsSecret
  <1>11. QED
    BY <1>4, <1>6, <1>8, <1>9, <1>10 DEF IInv

(* Nothing in the invariant depends on a token's age. *)
LEMMA ExpireInv ==
    ASSUME IInv, NEW t \in Tokens, Expire(t)
    PROVE  IInv'
  <1>1. UNCHANGED <<conn, req, issued, registered, live, owner, stranded>>
    BY DEF Expire, upstream, history
  <1>2. TypeOK'
    BY DEF IInv, TypeOK, Expire, upstream, history
  <1>3. RowPhases' /\ RowsRegistered' /\ OwnAuthorizations'
    BY <1>1 DEF IInv, RowPhases, RowsRegistered, OwnAuthorizations
  <1>4. SnapshotsSound'
    BY <1>1 DEF IInv, SnapshotsSound, Sound
  <1>5. SoleRegistrant' /\ SecretKept'
    BY <1>1 DEF IInv, SoleRegistrant, SecretKept, HoldsSecret
  <1>6. QED
    BY <1>2, <1>3, <1>4, <1>5 DEF IInv

-----------------------------------------------------------------------------
(* The invariant holds initially and every step keeps it. *)

(* No row, no request and no token: the invariant holds at the start. *)
LEMMA InitInv == Init => IInv
  <1> SUFFICES ASSUME Init PROVE IInv
    OBVIOUS
  <1>1. Idle \in Request /\ Idle.at = "idle" /\ Idle.user = None
    BY DEF Idle, Request, Steps
  <1>2. TypeOK
    BY <1>1, BoundAssumption DEF Init, TypeOK
  <1>3. RowPhases /\ OwnAuthorizations /\ SecretKept /\ RowsRegistered
    BY <1>1 DEF Init, RowPhases, OwnAuthorizations, SecretKept, RowsRegistered
  <1>4. SnapshotsSound /\ SoleRegistrant
    BY <1>1 DEF Init, SnapshotsSound, Sound, SoleRegistrant, HoldsSecret
  <1>5. QED
    BY <1>2, <1>3, <1>4 DEF IInv

(* Every action, and stuttering, preserves the invariant. *)
LEMMA NextInv == IInv /\ [Next]_vars => IInv'
  <1> SUFFICES ASSUME IInv, [Next]_vars PROVE IInv'
    OBVIOUS
  <1>1. ASSUME NEW r \in Reqs, Step(r) PROVE IInv'
    BY <1>1, RegisterUserInv, AuditInitiatedInv, InsertPendingInv, LoginUserInv,
       ListAuthorizationsInv, ListFailedInv, MarkCompletedInv, AuditCompletedInv,
       RemoveAuthorizationInv, SoftDeleteInv, AuditDisconnectInv,
       RefreshAuthorizationInv, AuditRefreshInv, BrokerageAnswerInv, DropInv DEF Step
  <1>2. CASE UNCHANGED vars
    <2>1. TypeOK'
      BY <1>2 DEF IInv, TypeOK, vars
    <2>2. RowPhases' /\ RowsRegistered' /\ OwnAuthorizations'
      BY <1>2 DEF IInv, RowPhases, RowsRegistered, OwnAuthorizations, vars
    <2>3. SnapshotsSound'
      BY <1>2 DEF IInv, SnapshotsSound, Sound, vars
    <2>4. SoleRegistrant' /\ SecretKept'
      BY <1>2 DEF IInv, SoleRegistrant, SecretKept, HoldsSecret, vars
    <2>5. QED
      BY <2>1, <2>2, <2>3, <2>4 DEF IInv
  <1>3. QED
    BY <1>1, <1>2, LoginPortalInv, CallbackInv, DeleteConnectionInv, RefreshConnectionInv,
       ReadBrokerageInv, ExpireInv, PortalConnectInv DEF Next

(* Every reachable state satisfies the inductive invariant. *)
THEOREM Invariance == Spec => []IInv
  <1>1. QED
    BY InitInv, NextInv, PTL DEF Spec

(* Types hold in every reachable state, for every value of the constants. *)
THEOREM TypeCorrect == Spec => []TypeOK
  <1>1. IInv => TypeOK
    BY DEF IInv
  <1>2. QED
    BY <1>1, Invariance, PTL

(* However the handlers interleave and wherever they are dropped, rows are only
   pending, linked or disconnected. *)
THEOREM RowsKeepPhases == Spec => []RowPhases
  <1>1. IInv => RowPhases
    BY DEF IInv
  <1>2. QED
    BY <1>1, Invariance, PTL

(* Every authorization on a row, in SnapTrade's list or chosen by a callback
   belongs to that row's user. *)
THEOREM RowsAreOwn == Spec => []OwnAuthorizations
  <1>1. IInv => OwnAuthorizations
    BY DEF IInv
  <1>2. QED
    BY <1>1, Invariance, PTL

(* A handler that goes on after an await works from a row that exists and is its
   user's, whatever happened to the row in the meantime. *)
THEOREM StaleRowsAreSound == Spec => []SnapshotsSound
  <1>1. IInv => SnapshotsSound
    BY DEF IInv
  <1>2. QED
    BY <1>1, Invariance, PTL

(* Concurrent first logins never collide on insert_pending. *)
THEOREM OneRegistrant == Spec => []SoleRegistrant
  <1>1. IInv => SoleRegistrant
    BY DEF IInv
  <1>2. QED
    BY <1>1, Invariance, PTL

(* A userSecret is lost only with the request that held it. *)
THEOREM RegistrationIsSafe == Spec => []SecretKept
  <1>1. IInv => SecretKept
    BY DEF IInv
  <1>2. QED
    BY <1>1, Invariance, PTL

-----------------------------------------------------------------------------
(* Which steps touch rows, owners and SnapTrade's lists, and how. *)

(* The row of a user changes in three ways only, each in a step of a request of
   that user: inserted pending, linked to an own authorization, disconnected. *)
LEMMA RowSteps ==
    ASSUME IInv, Next, conn' # conn
    PROVE  /\ owner' = owner /\ live' = live
           /\ \E r \in Reqs, u \in Users :
                 /\ req[r].user = u /\ req'[r] # req[r]
                 /\ conn' = [conn EXCEPT ![u] = conn'[u]] /\ conn'[u] \in StoredConnection
                 /\ \/ /\ conn[u] = None
                       /\ conn'[u].auth = None /\ ~conn'[u].active /\ ~conn'[u].disabled
                    \/ /\ conn[u] # None
                       /\ conn'[u].auth \in Auths /\ owner[conn'[u].auth] = u /\ conn'[u].active
                    \/ /\ conn[u] # None /\ conn[u].auth # None
                       /\ conn'[u].auth = conn[u].auth /\ ~conn'[u].active /\ conn'[u].disabled
  <1>1. PICK r \in Reqs : insert_pending(r) \/ mark_completed(r) \/ soft_delete(r)
    BY DEF Next, Step, login_portal, snaptrade_callback, delete_connection, refresh_connection,
           register_user, audit_initiated, login_user, list_authorizations,
           list_authorizations_failed, audit_completed, remove_authorization, audit_disconnect,
           refresh_authorization, audit_refresh, read_brokerage, brokerage_answer, Drop, Expire, PortalConnect
  <1> DEFINE u == req[r].user
  <1>2. UNCHANGED <<owner, live>>
    BY <1>1 DEF insert_pending, mark_completed, soft_delete, upstream
  <1>3. CASE insert_pending(r)
    <2>1. u \in Users /\ req[r].at = "insert" /\ conn[u] = None
      BY <1>3 DEF IInv, TypeOK, Request, SnapshotsSound, Sound, SoleRegistrant, HoldsSecret, insert_pending
    <2>2. Go(r, "login")
      BY <1>3, <2>1 DEF insert_pending
    <2>3. req'[r] # req[r]
      BY <2>1, <2>2, GoFacts DEF IInv, TypeOK, Steps
    <2>4. conn' = [conn EXCEPT ![u] = [uid |-> u, auth |-> None, active |-> FALSE, disabled |-> FALSE]]
      BY <1>3, <2>1 DEF insert_pending
    <2>5. conn'[u] = [uid |-> u, auth |-> None, active |-> FALSE, disabled |-> FALSE]
      BY <2>1, <2>4 DEF IInv, TypeOK
    <2>6. conn'[u] \in StoredConnection /\ conn'[u].auth = None
          /\ ~conn'[u].active /\ ~conn'[u].disabled
      BY <2>1, <2>5 DEF StoredConnection
    <2>7. conn' = [conn EXCEPT ![u] = conn'[u]]
      BY <2>4, <2>5
    <2>8. QED
      BY <1>2, <2>1, <2>3, <2>6, <2>7
  <1>4. CASE mark_completed(r)
    <2>1. /\ u \in Users /\ u = req[r].row.uid /\ req[r].at = "mark"
          /\ conn[u] # None
          /\ req[r].auth \in Auths /\ owner[req[r].auth] = u
      BY <1>4 DEF IInv, TypeOK, Request, SnapshotsSound, Sound, OwnAuthorizations, Steps, mark_completed
    <2>2. req'[r] # req[r]
      BY <1>4, <2>1, GoFacts DEF IInv, TypeOK, Steps, mark_completed
    <2>3. conn[u] \in StoredConnection
      BY <2>1, RowFacts
    <2>4. conn'[u] = [conn[u] EXCEPT !.auth = req[r].auth, !.active = TRUE, !.disabled = FALSE]
          /\ conn' = [conn EXCEPT ![u] = conn'[u]]
      BY <1>4, <2>1 DEF IInv, TypeOK, mark_completed
    <2>5. conn'[u] \in StoredConnection /\ conn'[u].auth = req[r].auth /\ conn'[u].active
      BY <2>1, <2>3, <2>4 DEF StoredConnection
    <2>6. QED
      BY <1>2, <2>1, <2>2, <2>4, <2>5
  <1>5. CASE soft_delete(r)
    <2>1. /\ u \in Users /\ u = req[r].row.uid /\ req[r].at = "soft_delete"
          /\ conn[u] # None /\ conn[u].auth # None
      BY <1>5 DEF IInv, TypeOK, Request, SnapshotsSound, Sound, Steps, soft_delete
    <2>2. req'[r] # req[r]
      BY <1>5, <2>1, GoFacts DEF IInv, TypeOK, Steps, soft_delete
    <2>3. conn[u] \in StoredConnection
      BY <2>1, RowFacts
    <2>4. conn'[u] = [conn[u] EXCEPT !.active = FALSE, !.disabled = TRUE]
          /\ conn' = [conn EXCEPT ![u] = conn'[u]]
      BY <1>5, <2>1 DEF IInv, TypeOK, soft_delete
    <2>5. conn'[u] \in StoredConnection /\ conn'[u].auth = conn[u].auth
          /\ ~conn'[u].active /\ conn'[u].disabled
      BY <2>1, <2>3, <2>4 DEF StoredConnection
    <2>6. QED
      BY <1>2, <2>1, <2>2, <2>4, <2>5
  <1>6. QED
    BY <1>1, <1>3, <1>4, <1>5

(* Only remove_authorization takes an authorization off SnapTrade's list, and it
   is a request of the same user. *)
LEMMA LiveSteps ==
    ASSUME IInv, Next, NEW v \in Users, ~(live[v] \subseteq live'[v])
    PROVE  \E r \in Reqs : req[r].user = v /\ req'[r] # req[r]
  <1>1. live' # live
    OBVIOUS
  <1>2. ~\E t \in Tokens, a \in Auths : PortalConnect(t, a)
    <2>1. ASSUME NEW t \in Tokens, NEW a \in Auths, PortalConnect(t, a) PROVE FALSE
      <3>1. issued[t] \in Users
        BY <2>1 DEF PortalConnect, IInv, TypeOK
      <3>2. PICK ts \in {0, born + 1} : live' = [live EXCEPT ![issued[t]] =
                       @ \cup {[id |-> a, ts |-> ts, idx |-> born + 1]}]
        BY <2>1 DEF PortalConnect
      <3>3. live[v] \subseteq live'[v]
        BY <3>1, <3>2 DEF IInv, TypeOK
      <3>4. QED
        BY <3>3
    <2>2. QED
      BY <2>1
  <1>3. PICK r \in Reqs : remove_authorization(r)
    BY <1>1, <1>2 DEF Next, Step, login_portal, snaptrade_callback, delete_connection, refresh_connection,
           register_user, audit_initiated, insert_pending, login_user, list_authorizations,
           list_authorizations_failed, mark_completed, audit_completed, soft_delete, audit_disconnect,
           refresh_authorization, audit_refresh, read_brokerage, brokerage_answer, Drop, Expire, upstream
  <1>4. req[r].row.uid = req[r].user /\ req[r].user \in Users /\ req[r].at = "remove"
    BY <1>3 DEF IInv, TypeOK, Request, SnapshotsSound, Sound, remove_authorization
  <1>5. req[r].user = v
    BY <1>3, <1>4 DEF IInv, TypeOK, remove_authorization
  <1>6. req'[r] # req[r]
    BY <1>3, <1>4, GoFacts DEF IInv, TypeOK, Steps, remove_authorization
  <1>7. QED
    BY <1>5, <1>6

(* No step of one user's request changes another user's row or takes away
   another user's authorization. *)
THEOREM OwnersOnly == Spec => OnlyOwnerActs
  <1> DEFINE A == \A v \in Users : (conn'[v] # conn[v] \/ ~(live[v] \subseteq live'[v])) =>
                     \E r \in Reqs : req[r].user = v /\ req'[r] # req[r]
  <1>1. IInv /\ [Next]_vars => [A]_vars
    <2> SUFFICES ASSUME IInv, Next PROVE A
      OBVIOUS
    <2>1. ASSUME NEW v \in Users, conn'[v] # conn[v]
          PROVE  \E r \in Reqs : req[r].user = v /\ req'[r] # req[r]
      <3>1. PICK r \in Reqs, u \in Users : /\ req[r].user = u /\ req'[r] # req[r]
                                           /\ conn' = [conn EXCEPT ![u] = conn'[u]]
        BY <2>1, RowSteps
      <3>2. u = v
        BY <2>1, <3>1 DEF IInv, TypeOK
      <3>3. QED
        BY <3>1, <3>2
    <2>2. QED
      BY <2>1, LiveSteps
  <1>2. QED
    BY <1>1, Invariance, PTL DEF Spec, OnlyOwnerActs

(* Initial states of the handlers are initial states of the lifecycle. *)
LEMMA LifecycleInit == Init => Lifecycle!LInit
  <1> SUFFICES ASSUME Init PROVE Lifecycle!LInit
    OBVIOUS
  <1>1. \A u \in Users : phaseOf(u) = "absent" /\ conn[u] = None
    BY DEF Init, phaseOf
  <1>2. \A u \in Users : {a \in Auths : owner[a] = u} = {}
    BY NoneAssumption DEF Init
  <1>3. QED
    BY <1>1, <1>2 DEF Lifecycle!LInit

(* Every step of the handlers is a step of the lifecycle or leaves it alone. *)
LEMMA LifecycleStep == IInv /\ IInv' /\ [Next]_vars => [Lifecycle!LNext]_(Lifecycle!lvars)
  <1> SUFFICES ASSUME IInv, IInv', [Next]_vars, ~UNCHANGED Lifecycle!lvars PROVE Lifecycle!LNext
    OBVIOUS
  <1> DEFINE phase == [u \in Users |-> phaseOf(u)]
             linkedTo == [u \in Users |-> IF conn[u] = None THEN None ELSE conn[u].auth]
             created == [u \in Users |-> {a \in Auths : owner[a] = u}]
  <1>1. Next
    BY DEF vars, Lifecycle!lvars, phaseOf
  <1>2. CASE conn' # conn
    <2>1. created' = created
      BY <1>1, <1>2, RowSteps
    <2>2. PICK u \in Users :
              /\ conn' = [conn EXCEPT ![u] = conn'[u]] /\ conn'[u] \in StoredConnection
              /\ \/ /\ conn[u] = None
                    /\ conn'[u].auth = None /\ ~conn'[u].active /\ ~conn'[u].disabled
                 \/ /\ conn[u] # None
                    /\ conn'[u].auth \in Auths /\ owner[conn'[u].auth] = u /\ conn'[u].active
                 \/ /\ conn[u] # None /\ conn[u].auth # None
                    /\ conn'[u].auth = conn[u].auth /\ ~conn'[u].active /\ conn'[u].disabled
      BY <1>1, <1>2, RowSteps
    <2>3. /\ phase' = [phase EXCEPT ![u] = phaseOf(u)']
          /\ linkedTo' = [linkedTo EXCEPT ![u] = conn'[u].auth]
      <3>1. conn'[u] # None /\ \A v \in Users \ {u} : conn'[v] = conn[v]
        BY <2>2, NullIsNoRow DEF IInv, TypeOK
      <3>2. QED
        BY <3>1 DEF phaseOf
    <2>4. CASE /\ conn[u] = None
               /\ conn'[u].auth = None /\ ~conn'[u].active /\ ~conn'[u].disabled
      <3>1. phase[u] = "absent" /\ phaseOf(u)' = "pending"
        BY <2>2, <2>4, NullIsNoRow DEF phaseOf
      <3>2. linkedTo' = linkedTo
        BY <2>3, <2>4
      <3>3. Lifecycle!Open(u)
        BY <2>1, <2>3, <3>1, <3>2 DEF Lifecycle!Open
      <3>4. QED
        BY <3>3 DEF Lifecycle!LNext
    <2>5. CASE /\ conn[u] # None
               /\ conn'[u].auth \in Auths /\ owner[conn'[u].auth] = u /\ conn'[u].active
      <3>1. phase[u] # "absent" /\ phaseOf(u)' = "linked"
        BY <2>2, <2>5, NullIsNoRow DEF phaseOf
      <3>2. PICK a \in Auths : a = conn'[u].auth /\ a \in created[u]
        BY <2>5
      <3>3. Lifecycle!Link(u, a)
        BY <2>1, <2>3, <3>1, <3>2 DEF Lifecycle!Link
      <3>4. QED
        BY <3>3 DEF Lifecycle!LNext
    <2>6. CASE /\ conn[u] # None /\ conn[u].auth # None
               /\ conn'[u].auth = conn[u].auth /\ ~conn'[u].active /\ conn'[u].disabled
      <3>1. phaseOf(u)' = "disconnected"
        BY <2>2, <2>6, NullIsNoRow DEF phaseOf
      <3>2. linkedTo' = linkedTo
        BY <2>3, <2>6
      <3>3. phase[u] \in {"linked", "disconnected"}
        BY <2>6 DEF phaseOf, IInv, RowPhases
      <3>4. phase[u] # "disconnected"
        BY <2>1, <2>3, <3>1, <3>2 DEF Lifecycle!lvars
      <3>5. Lifecycle!Disconnect(u)
        BY <2>1, <2>3, <3>1, <3>2, <3>3, <3>4 DEF Lifecycle!Disconnect
      <3>6. QED
        BY <3>5 DEF Lifecycle!LNext
    <2>7. QED
      BY <2>2, <2>4, <2>5, <2>6
  <1>3. CASE conn' = conn
    <2>1. phase' = phase /\ linkedTo' = linkedTo
      BY <1>3 DEF phaseOf
    <2>2. owner' # owner
      BY <2>1 DEF Lifecycle!lvars
    <2>3. PICK t \in Tokens, a \in Auths : PortalConnect(t, a)
      BY <1>1, <2>2 DEF Next, Step, login_portal, snaptrade_callback, delete_connection, refresh_connection,
           register_user, audit_initiated, insert_pending, login_user, list_authorizations,
           list_authorizations_failed, mark_completed, audit_completed, remove_authorization,
           soft_delete, audit_disconnect, refresh_authorization, audit_refresh,
           read_brokerage, brokerage_answer, Drop, Expire, upstream
    <2>4. PICK u \in Users : conn[u] # None /\ owner[a] = None /\ owner' = [owner EXCEPT ![a] = u]
      BY <2>3 DEF PortalConnect, IInv, TypeOK, SnapshotsSound
    <2>5. phase[u] # "absent"
      BY <2>4 DEF phaseOf
    <2>6. \A v \in Users : a \notin created[v]
      BY <2>4, NoneAssumption
    <2>7. created' = [created EXCEPT ![u] = @ \cup {a}]
      <3>1. \A v \in Users \ {u} : {b \in Auths : owner'[b] = v} = {b \in Auths : owner[b] = v}
        BY <2>4, NoneAssumption DEF IInv, TypeOK
      <3>2. {b \in Auths : owner'[b] = u} = {b \in Auths : owner[b] = u} \cup {a}
        BY <2>4 DEF IInv, TypeOK
      <3>3. QED
        BY <3>1, <3>2
    <2>8. Lifecycle!Create(u, a)
      BY <2>1, <2>5, <2>6, <2>7 DEF Lifecycle!Create
    <2>9. QED
      BY <2>8 DEF Lifecycle!LNext
  <1>4. QED
    BY <1>2, <1>3

(* The handlers implement the abstract lifecycle of a link, whatever the number
   of users, requests, authorizations and tokens. *)
THEOREM Refinement == Spec => ImplementsLifecycle
  <1>1. QED
    BY LifecycleInit, LifecycleStep, Invariance, PTL DEF Spec, ImplementsLifecycle, Lifecycle!LSpec

-----------------------------------------------------------------------------
(* One request at a time: what a handler read is still true when it uses it. *)

OneAtATime == \A q, r \in Reqs : q = r

(* SnapTrade has a no longer. *)
Gone(a) == \A u \in Users : a \notin LiveIds(u)

(* The row a callback read is the row as it is, and what it chose is there and not
   on the row; the authorization a DELETE is at is the one on the row. *)
Faithful(r) ==
    /\ req[r].at = "list" => req[r].row = conn[req[r].user]
    /\ req[r].at = "mark" => ~Gone(req[r].auth)
    /\ req[r].at \in {"remove", "soft_delete", "disconnected"} =>
          conn[req[r].user].auth = req[r].auth
    /\ req[r].at \in {"soft_delete", "disconnected"} => Gone(req[r].auth)
    /\ req[r].at = "disconnected" => ~conn[req[r].user].active

(* A disconnected row shows an authorization that SnapTrade has no longer: a DELETE
   may skip the upstream call. *)
DisabledGone == \A u \in Users : conn[u] # None /\ conn[u].disabled => Gone(conn[u].auth)

AckedGone == \A a \in acked : Gone(a) /\ owner[a] # None

(* What is inductive beside IInv. *)
SeqInv ==
    /\ \A r \in Reqs : Faithful(r)
    /\ DisabledGone
    /\ AckedGone
    /\ AckedStaysInactive

(* A step that only moves the request. *)
LEMMA SeqFrame ==
    ASSUME SeqInv, OneAtATime, NEW r \in Reqs, UNCHANGED <<conn, live, owner, acked>>, Faithful(r)'
    PROVE  SeqInv'
  <1>1. \A q \in Reqs : Faithful(q)'
    BY DEF OneAtATime
  <1>2. DisabledGone' /\ AckedGone'
    BY DEF SeqInv, DisabledGone, AckedGone, Gone, LiveIds
  <1>3. AckedStaysInactive'
    BY DEF SeqInv, AckedStaysInactive, fetch_active_for_user
  <1>4. QED
    BY <1>1, <1>2, <1>3 DEF SeqInv

(* A step to a place where the handler does not depend on the row. *)
LEMMA SeqPlain ==
    ASSUME SeqInv, OneAtATime, NEW r \in Reqs, UNCHANGED <<conn, live, owner, acked>>,
           req'[r].at \notin {"list", "mark", "remove", "soft_delete", "disconnected"}
    PROVE  SeqInv'
  <1>1. Faithful(r)'
    BY DEF Faithful
  <1>2. QED
    BY <1>1, SeqFrame

(* The handlers that start, go on or end without depending on the row. *)
LEMMA SeqPlainSteps ==
    ASSUME IInv, SeqInv, OneAtATime, NEW r \in Reqs,
           \/ \E u \in Users : login_portal(r, u) \/ read_brokerage(r, u)
           \/ \E u \in Users, a \in Auths : refresh_connection(r, u, a)
           \/ register_user(r) \/ audit_initiated(r) \/ login_user(r)
           \/ list_authorizations_failed(r) \/ audit_completed(r)
           \/ refresh_authorization(r) \/ audit_refresh(r) \/ brokerage_answer(r) \/ Drop(r)
    PROVE  SeqInv'
  <1>1. req \in [Reqs -> Request]
    BY DEF IInv, TypeOK
  <1>2. UNCHANGED <<conn, live, owner, acked>>
    BY DEF login_portal, read_brokerage, refresh_connection, register_user, audit_initiated, login_user,
           list_authorizations_failed, audit_completed, refresh_authorization, audit_refresh,
           brokerage_answer, Drop, upstream, history
  <1>3. \/ \E u, row, a : \E at \in {"register", "login", "read", "refresh"} : Start(r, at, u, row, a)
        \/ \E to \in {"initiated", "insert", "refreshed"} : Go(r, to)
        \/ Finish(r)
    BY DEF login_portal, read_brokerage, refresh_connection, register_user, audit_initiated, login_user,
           list_authorizations_failed, audit_completed, refresh_authorization, audit_refresh,
           brokerage_answer, Drop
  <1>4. req'[r].at \in {"register", "login", "read", "refresh", "initiated", "insert", "refreshed", "idle"}
    <2>1. ASSUME NEW u, NEW row, NEW a, NEW at \in {"register", "login", "read", "refresh"},
                 Start(r, at, u, row, a)
          PROVE  req'[r].at = at
      BY <1>1, <2>1 DEF Start
    <2>2. ASSUME NEW to \in {"initiated", "insert", "refreshed"}, Go(r, to)
          PROVE  req'[r].at = to
      BY <1>1, <2>2, GoFacts DEF Steps
    <2>3. Finish(r) => req'[r].at = "idle"
      BY <1>1, FinishFacts
    <2>4. QED
      BY <1>3, <2>1, <2>2, <2>3
  <1>5. QED
    BY <1>2, <1>4, SeqPlain

(* The callback reads the row and chooses. *)
LEMMA SeqCallback ==
    ASSUME IInv, SeqInv, OneAtATime, NEW r \in Reqs, NEW t \in Tokens \cup {None},
           NEW uid \in Users \cup {None}, snaptrade_callback(r, t, uid)
    PROVE  SeqInv'
  <1> DEFINE row == IF verify(t) THEN fetch_any_for_user(issued[t]) ELSE None
  <1>1. UNCHANGED <<conn, live, owner, acked>>
    BY DEF snaptrade_callback, upstream, history
  <1>2. CASE row # None /\ uid \in {None, row.uid}
    <2>1. issued[t] \in Users /\ row = conn[issued[t]]
      BY <1>2 DEF verify, fetch_any_for_user, IInv, TypeOK
    <2>2. Start(r, "list", issued[t], conn[issued[t]], None)
      BY <1>2, <2>1 DEF snaptrade_callback
    <2>3. req'[r] = [at |-> "list", user |-> issued[t], row |-> conn[issued[t]], auth |-> None]
      BY <2>2 DEF Start, IInv, TypeOK
    <2>4. Faithful(r)'
      BY <1>1, <2>3 DEF Faithful
    <2>5. QED
      BY <1>1, <2>4, SeqFrame
  <1>3. CASE ~(row # None /\ uid \in {None, row.uid})
    <2>1. req[r].at = "idle" /\ req' = req
      BY <1>3 DEF snaptrade_callback
    <2>2. QED
      BY <1>1, <2>1, SeqPlain
  <1>4. QED
    BY <1>2, <1>3

(* What the callback chooses is on SnapTrade's list. *)
LEMMA SeqList ==
    ASSUME IInv, SeqInv, OneAtATime, NEW r \in Reqs, list_authorizations(r)
    PROVE  SeqInv'
  <1> DEFINE u == req[r].user
             chosen == pick_newest_authorization(live[req[r].row.uid], req[r].row.auth)
  <1>1. UNCHANGED <<conn, live, owner, acked>> /\ req \in [Reqs -> Request]
    BY DEF list_authorizations, upstream, history, IInv, TypeOK
  <1>2. u \in Users /\ req[r].at = "list" /\ req[r].row.uid = u /\ req[r].row = conn[u]
    BY DEF IInv, TypeOK, Request, SnapshotsSound, Sound, list_authorizations, SeqInv, Faithful
  <1>3. CASE Finish(r)
    <2>1. req'[r].at = "idle"
      BY <1>1, <1>3, FinishFacts
    <2>2. QED
      BY <1>1, <2>1, SeqPlain
  <1>4. ASSUME NEW a \in chosen, req' = [req EXCEPT ![r] = [@ EXCEPT !.at = "mark", !.auth = a.id]]
        PROVE  SeqInv'
    <2>1. req[r] \in Request
      BY <1>1
    <2>2. req'[r].at = "mark" /\ req'[r].auth = a.id /\ req'[r].user = u
      BY <1>1, <1>4, <2>1 DEF Request
    <2>3. a \in live[u]
      BY <1>2 DEF pick_newest_authorization
    <2>4. ~Gone(a.id)
      BY <1>2, <2>3 DEF Gone, LiveIds
    <2>5. ~Gone(a.id)'
      BY <1>1, <2>4 DEF Gone, LiveIds
    <2>6. Faithful(r)'
      BY <1>1, <2>2, <2>5 DEF Faithful
    <2>7. QED
      BY <1>1, <2>6, SeqFrame
  <1>5. QED
    BY <1>3, <1>4 DEF list_authorizations

(* A DELETE that finds the row disconnected already skips SnapTrade. *)
LEMMA SeqDelete ==
    ASSUME IInv, SeqInv, OneAtATime, NEW r \in Reqs, NEW u \in Users, NEW a \in Auths,
           delete_connection(r, u, a)
    PROVE  SeqInv'
  <1> DEFINE at == IF conn[u].disabled THEN "soft_delete" ELSE "remove"
  <1>1. UNCHANGED <<conn, live, owner, acked>>
    BY DEF delete_connection, upstream, history
  <1>2. conn[u] # None /\ conn[u].auth = a /\ Start(r, at, u, conn[u], a)
    BY DEF delete_connection, fetch_by_authorization_id_for_user
  <1>3. req'[r] = [at |-> at, user |-> u, row |-> conn[u], auth |-> a]
    BY <1>2 DEF Start, IInv, TypeOK
  <1>4. at = "soft_delete" => Gone(a)
    BY <1>2 DEF SeqInv, DisabledGone
  <1>5. at \in {"soft_delete", "remove"}
    OBVIOUS
  <1> HIDE DEF at
  <1>6. Gone(a)' = Gone(a)
    BY <1>1 DEF Gone, LiveIds
  <1>7. Faithful(r)'
    BY <1>1, <1>2, <1>3, <1>4, <1>5, <1>6 DEF Faithful
  <1>8. QED
    BY <1>1, <1>7, SeqFrame

(* The row is new: neither active nor disabled. *)
LEMMA SeqInsert ==
    ASSUME IInv, SeqInv, OneAtATime, NEW r \in Reqs, insert_pending(r)
    PROVE  SeqInv'
  <1> DEFINE u == req[r].user
  <1>1. u \in Users /\ conn[u] = None
    BY DEF IInv, TypeOK, Request, SnapshotsSound, Sound, SoleRegistrant, HoldsSecret, insert_pending
  <1>2. /\ ~conn'[u].active /\ ~conn'[u].disabled
        /\ \A v \in Users \ {u} : conn'[v] = conn[v]
    BY <1>1 DEF IInv, TypeOK, insert_pending
  <1>3. req'[r].at = "login" /\ UNCHANGED <<live, owner, acked>>
    BY <1>1, GoFacts DEF IInv, TypeOK, Steps, insert_pending, upstream, history
  <1>4. \A q \in Reqs : Faithful(q)'
    BY <1>3 DEF OneAtATime, Faithful
  <1>5. DisabledGone' /\ AckedGone'
    BY <1>2, <1>3 DEF SeqInv, DisabledGone, AckedGone, Gone, LiveIds
  <1>6. AckedStaysInactive'
    BY <1>2, <1>3 DEF SeqInv, AckedStaysInactive, fetch_active_for_user
  <1>7. QED
    BY <1>4, <1>5, <1>6 DEF SeqInv

(* The row goes to an authorization that SnapTrade has, hence to none that was
   acknowledged as removed. *)
LEMMA SeqMark ==
    ASSUME IInv, SeqInv, OneAtATime, NEW r \in Reqs, mark_completed(r)
    PROVE  SeqInv'
  <1> DEFINE u == req[r].user
  <1>1. u \in Users /\ u = req[r].row.uid /\ req[r].at = "mark" /\ conn[u] \in StoredConnection
    BY DEF IInv, TypeOK, Request, SnapshotsSound, Sound, Steps, mark_completed
  <1>2. /\ conn'[u].auth = req[r].auth /\ ~conn'[u].disabled
        /\ \A v \in Users \ {u} : conn'[v] = conn[v]
    BY <1>1 DEF IInv, TypeOK, StoredConnection, mark_completed
  <1>3. req'[r].at = "completed" /\ UNCHANGED <<live, owner, acked>>
    BY GoFacts DEF IInv, TypeOK, Steps, mark_completed, upstream, history
  <1>4. \A q \in Reqs : Faithful(q)'
    BY <1>3 DEF OneAtATime, Faithful
  <1>5. DisabledGone' /\ AckedGone'
    BY <1>2, <1>3 DEF SeqInv, DisabledGone, AckedGone, Gone, LiveIds
  <1>6. req[r].auth \notin acked
    BY <1>1 DEF SeqInv, Faithful, AckedGone
  <1>7. AckedStaysInactive'
    BY <1>2, <1>3, <1>6 DEF SeqInv, AckedStaysInactive, fetch_active_for_user
  <1>8. QED
    BY <1>4, <1>5, <1>7 DEF SeqInv

(* Only its owner's list can hold an authorization: filtered out there, it is gone. *)
LEMMA SeqRemove ==
    ASSUME IInv, SeqInv, OneAtATime, NEW r \in Reqs, remove_authorization(r)
    PROVE  SeqInv'
  <1> DEFINE u == req[r].user
             b == req[r].auth
  <1>1. /\ u \in Users /\ u = req[r].row.uid /\ req[r].at = "remove"
        /\ conn[u] # None /\ b # None /\ conn[u].auth = b
    BY DEF IInv, TypeOK, Request, SnapshotsSound, Sound, Steps, SeqInv, Faithful, remove_authorization
  <1>2. owner[b] = u
    BY <1>1 DEF IInv, OwnAuthorizations
  <1>3. /\ req'[r].at = "soft_delete" /\ req'[r].user = u /\ req'[r].auth = b
        /\ UNCHANGED <<conn, owner, acked>>
    BY GoFacts DEF IInv, TypeOK, Steps, remove_authorization, history
  <1>4. live'[u] = {c \in live[u] : c.id # b} /\ \A v \in Users \ {u} : live'[v] = live[v]
    BY <1>1 DEF IInv, TypeOK, remove_authorization
  <1>5. \A v \in Users : live'[v] \subseteq live[v]
    BY <1>4
  <1>6. \A a : Gone(a) => Gone(a)'
    BY <1>5 DEF Gone, LiveIds
  <1>7. ASSUME NEW a, a = b PROVE Gone(a)'
    <2>1. ASSUME NEW v \in Users, NEW c \in live'[v], c.id = a PROVE FALSE
      <3>1. c \in live[v] /\ v = u
        BY <1>2, <1>5, <1>7, <2>1 DEF IInv, OwnAuthorizations
      <3>2. QED
        BY <1>4, <1>7, <2>1, <3>1
    <2>2. QED
      BY <2>1 DEF Gone, LiveIds
  <1>8. Faithful(r)'
    BY <1>1, <1>3, <1>7 DEF Faithful
  <1>9. \A q \in Reqs : Faithful(q)'
    BY <1>8 DEF OneAtATime
  <1>10. DisabledGone' /\ AckedGone'
    BY <1>3, <1>6 DEF SeqInv, DisabledGone, AckedGone
  <1>11. AckedStaysInactive'
    BY <1>3 DEF SeqInv, AckedStaysInactive, fetch_active_for_user
  <1>12. QED
    BY <1>9, <1>10, <1>11 DEF SeqInv

(* The row that is disabled shows the authorization that is gone. *)
LEMMA SeqSoftDelete ==
    ASSUME IInv, SeqInv, OneAtATime, NEW r \in Reqs, soft_delete(r)
    PROVE  SeqInv'
  <1> DEFINE u == req[r].user
             b == req[r].auth
  <1>1. /\ u \in Users /\ u = req[r].row.uid /\ req[r].at = "soft_delete"
        /\ conn[u] \in StoredConnection /\ conn[u].auth = b /\ Gone(b)
    BY DEF IInv, TypeOK, Request, SnapshotsSound, Sound, Steps, SeqInv, Faithful, soft_delete
  <1>2. /\ conn'[u].auth = b /\ ~conn'[u].active
        /\ \A v \in Users \ {u} : conn'[v] = conn[v]
    BY <1>1 DEF IInv, TypeOK, StoredConnection, soft_delete
  <1>3. /\ req'[r].at = "disconnected" /\ req'[r].user = u /\ req'[r].auth = b
        /\ UNCHANGED <<live, owner, acked>>
    BY GoFacts DEF IInv, TypeOK, Steps, soft_delete, upstream, history
  <1>4. \A a : Gone(a)' <=> Gone(a)
    BY <1>3 DEF Gone, LiveIds
  <1>5. Faithful(r)'
    BY <1>1, <1>2, <1>3, <1>4 DEF Faithful
  <1>6. \A q \in Reqs : Faithful(q)'
    BY <1>5 DEF OneAtATime
  <1>7. DisabledGone' /\ AckedGone'
    BY <1>1, <1>2, <1>3, <1>4 DEF SeqInv, DisabledGone, AckedGone
  <1>8. AckedStaysInactive'
    BY <1>2, <1>3 DEF SeqInv, AckedStaysInactive, fetch_active_for_user
  <1>9. QED
    BY <1>6, <1>7, <1>8 DEF SeqInv

(* The DELETE answers: the authorization is gone, its row is inactive, and no other
   user's row can show it. *)
LEMMA SeqDisconnect ==
    ASSUME IInv, SeqInv, OneAtATime, NEW r \in Reqs, audit_disconnect(r)
    PROVE  SeqInv'
  <1> DEFINE u == req[r].user
             b == req[r].auth
  <1>1. /\ u \in Users /\ req[r].at = "disconnected" /\ conn[u] # None /\ b # None
        /\ conn[u].auth = b /\ Gone(b) /\ ~conn[u].active
    BY DEF IInv, TypeOK, Request, SnapshotsSound, Sound, Steps, SeqInv, Faithful, audit_disconnect
  <1>2. owner[b] = u /\ owner[b] # None
    BY <1>1, NoneAssumption DEF IInv, OwnAuthorizations
  <1>3. req'[r].at = "idle" /\ acked' = acked \cup {b} /\ UNCHANGED <<conn, live, owner>>
    BY FinishFacts DEF IInv, TypeOK, audit_disconnect, upstream
  <1>4. \A a : Gone(a)' <=> Gone(a)
    BY <1>3 DEF Gone, LiveIds
  <1>5. \A q \in Reqs : Faithful(q)'
    BY <1>3 DEF OneAtATime, Faithful
  <1>6. DisabledGone' /\ AckedGone'
    BY <1>1, <1>2, <1>3, <1>4 DEF SeqInv, DisabledGone, AckedGone
  <1>7. AckedStaysInactive'
    <2>1. \A v \in Users : conn[v] # None /\ conn[v].active => conn[v].auth # b
      BY <1>1, <1>2, NoneAssumption DEF IInv, OwnAuthorizations
    <2>2. QED
      BY <1>3, <2>1 DEF SeqInv, AckedStaysInactive, fetch_active_for_user
  <1>8. QED
    BY <1>5, <1>6, <1>7 DEF SeqInv

(* SnapTrade never reuses an id: what is new is none of those that are gone. *)
LEMMA SeqPortal ==
    ASSUME IInv, SeqInv, OneAtATime, NEW t \in Tokens, NEW a \in Auths, PortalConnect(t, a)
    PROVE  SeqInv'
  <1>1. /\ owner[a] = None /\ UNCHANGED <<conn, req, acked>>
        /\ \A b \in Auths : owner[b] # None => owner'[b] = owner[b]
    BY DEF PortalConnect, IInv, TypeOK, history
  <1>2. /\ \A v \in Users : live[v] \subseteq live'[v]
        /\ \A v \in Users : \A c \in live'[v] : c \in live[v] \/ c.id = a
    BY DEF PortalConnect, IInv, TypeOK
  <1>3. \A b : b # a /\ Gone(b) => Gone(b)'
    BY <1>2 DEF Gone, LiveIds
  <1>4. \A b : ~Gone(b) => ~Gone(b)'
    BY <1>2 DEF Gone, LiveIds
  <1>5. \A v \in Users : conn[v] # None => conn[v].auth # a
    <2>1. ASSUME NEW v \in Users, conn[v] # None, conn[v].auth = a PROVE FALSE
      BY <1>1, <2>1, NoneAssumption DEF IInv, OwnAuthorizations
    <2>2. QED
      BY <2>1
  <1>6. ASSUME NEW r \in Reqs PROVE Faithful(r)'
    <2>1. Faithful(r) /\ Sound(r) /\ req[r] \in Request
      BY DEF SeqInv, IInv, SnapshotsSound, TypeOK
    <2>2. req[r].at \in {"soft_delete", "disconnected"} => req[r].auth # a
      BY <1>5, <2>1 DEF Faithful, Sound, Request, Steps
    <2>3. QED
      BY <1>1, <1>3, <1>4, <2>1, <2>2 DEF Faithful
  <1>7. DisabledGone'
    BY <1>1, <1>3, <1>5 DEF SeqInv, DisabledGone
  <1>8. AckedGone'
    BY <1>1, <1>3 DEF SeqInv, AckedGone, IInv, TypeOK
  <1>9. AckedStaysInactive'
    BY <1>1 DEF SeqInv, AckedStaysInactive, fetch_active_for_user
  <1>10. QED
    BY <1>6, <1>7, <1>8, <1>9 DEF SeqInv

(* No request, no row and nothing acknowledged. *)
LEMMA SeqInit == Init => SeqInv
  BY DEF Init, Idle, SeqInv, Faithful, DisabledGone, AckedGone, AckedStaysInactive, fetch_active_for_user

(* Every step of requests that do not overlap keeps SeqInv. *)
LEMMA SeqNext == ASSUME OneAtATime PROVE IInv /\ SeqInv /\ [Next]_vars => SeqInv'
  <1> SUFFICES ASSUME IInv, SeqInv, [Next]_vars PROVE SeqInv'
    OBVIOUS
  <1>1. ASSUME NEW r \in Reqs, Step(r) PROVE SeqInv'
    BY <1>1, SeqPlainSteps, SeqInsert, SeqList, SeqMark, SeqRemove, SeqSoftDelete, SeqDisconnect DEF Step
  <1>2. ASSUME UNCHANGED <<conn, req, live, owner, acked>> PROVE SeqInv'
    <2>1. (\A r \in Reqs : Faithful(r)') /\ DisabledGone' /\ AckedGone'
      BY <1>2 DEF SeqInv, Faithful, DisabledGone, AckedGone, Gone, LiveIds
    <2>2. AckedStaysInactive'
      BY <1>2 DEF SeqInv, AckedStaysInactive, fetch_active_for_user
    <2>3. QED
      BY <2>1, <2>2 DEF SeqInv
  <1>3. ASSUME NEW t \in Tokens, Expire(t) PROVE SeqInv'
    BY <1>2, <1>3 DEF Expire, upstream, history
  <1>4. CASE UNCHANGED vars
    BY <1>2, <1>4 DEF vars
  <1>5. ASSUME NEW r \in Reqs, NEW u \in Users, login_portal(r, u) \/ read_brokerage(r, u) PROVE SeqInv'
    BY <1>5, SeqPlainSteps
  <1>6. ASSUME NEW r \in Reqs, NEW u \in Users, NEW a \in Auths,
               delete_connection(r, u, a) \/ refresh_connection(r, u, a)
        PROVE  SeqInv'
    BY <1>6, SeqPlainSteps, SeqDelete
  <1>7. QED
    BY <1>1, <1>3, <1>4, <1>5, <1>6, SeqCallback, SeqPortal DEF Next

(* With one request at a time every reachable state satisfies SeqInv. *)
THEOREM SequentialInvariance == ASSUME OneAtATime PROVE Spec => []SeqInv
  <1>1. IInv /\ SeqInv /\ [Next]_vars => SeqInv'
    BY SeqNext
  <1>2. QED
    BY <1>1, SeqInit, Invariance, PTL DEF Spec

(* When delete_connection has answered ok SnapTrade no longer has the authorization,
   also when the row was disabled already and the upstream call was skipped: README's
   "Disconnect + soft-delete (idempotent)", for requests that do not overlap. *)
THEOREM DeleteIsUpstream == ASSUME OneAtATime PROVE Spec => []DeleteDisconnects
  <1>1. IInv /\ SeqInv => DeleteDisconnects
    BY DEF SeqInv, AckedGone, Gone, DeleteDisconnects
  <1>2. QED
    BY <1>1, Invariance, SequentialInvariance, PTL

(* No callback that follows makes a deleted authorization the active one again. *)
THEOREM DeletedStaysInactive == ASSUME OneAtATime PROVE Spec => []AckedStaysInactive
  <1>1. SeqInv => AckedStaysInactive
    BY DEF SeqInv
  <1>2. QED
    BY <1>1, SequentialInvariance, PTL
=============================================================================

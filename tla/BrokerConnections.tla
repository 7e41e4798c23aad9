------------------------- MODULE BrokerConnections -------------------------
(***************************************************************************)
(* The SnapTrade connection lifecycle of src/snaptrade: the login-portal,  *)
(* callback, refresh, delete and read handlers, the broker_connections     *)
(* rows they read and write, and the SnapTrade side they talk to.          *)
(*                                                                         *)
(* A handler is a request that runs one await at a time: every SQL         *)
(* statement and every SnapTrade call is one action, so a row read early   *)
(* in a handler may be stale when it is used.  A request may be dropped at *)
(* any await (30 s timeout layer, client gone, process crash).             *)
(*                                                                         *)
(* snaptrade_user_id is the local user id and is unique in the table, so   *)
(* a user has at most one row: the table is a function of the user.        *)
(***************************************************************************)
EXTENDS Naturals

CONSTANTS
    Users,        \* local users.id
    Reqs,         \* slots of concurrently running requests
    Auths,        \* SnapTrade authorization ids, never reused upstream
    Tokens,       \* callback state JWTs, told apart by their nonce
    MaxRequests,  \* bound: requests started in one behaviour
    None          \* SQL NULL / Rust None

ASSUME NoneAssumption == None \notin Users \cup Auths \cup Tokens
ASSUME BoundAssumption == MaxRequests \in Nat

VARIABLES
    conn,        \* conn[u]: the broker_connections row of u, or None
    audit,       \* audit[e]: how many rows the audit log holds for event e
    req,         \* req[r]: the handler running in slot r
    issued,      \* issued[t]: the user the state JWT t was issued to, or None
    expired,     \* state JWTs past exp + leeway
    registered,  \* SnapTrade: users known to registerUser
    live,        \* SnapTrade: live[u], the authorizations GET /authorizations returns
    owner,       \* SnapTrade: who created authorization a, or None
    born,        \* SnapTrade: how many authorizations were ever created
    started,     \* requests started so far (bounded)
    stranded,    \* history: users whose fresh userSecret was dropped unsaved
    acked        \* history: authorizations a DELETE answered ok for

vars == <<conn, audit, req, issued, expired, registered, live, owner, born,
          started, stranded, acked>>

upstream == <<registered, live, owner, born>>
tokens   == <<issued, expired>>
history  == <<stranded, acked>>

-----------------------------------------------------------------------------
(* Rows, requests and audit events. *)

(* uid is snaptrade_user_id, the SnapTrade account whose secret the row holds. *)
StoredConnection ==
    [uid : Users, auth : Auths \cup {None}, active : BOOLEAN, disabled : BOOLEAN]

ASSUME NullIsNoRow == None \notin StoredConnection

(* ts = 0 stands for a created_date that is missing or does not parse; idx is
   the place in SnapTrade's response. *)
StAuthorization == [id : Auths, ts : Nat, idx : Nat]

AuditEvent == [event : {"connect.initiated", "connect.failed", "connect.completed",
                        "refresh", "disconnect"},
               user  : Users \cup {None},
               auth  : Auths \cup {None}]

Event(e, u, a) == [event |-> e, user |-> u, auth |-> a]

Steps == {"idle", "register", "initiated", "insert", "login", "list", "mark",
          "completed", "remove", "soft_delete", "disconnected", "refresh", "refreshed",
          "read"}

(* row is the row as the handler read it, auth its path parameter or the
   authorization the callback chose. *)
Request == [at   : Steps,
            user : Users \cup {None},
            row  : StoredConnection \cup {None},
            auth : Auths \cup {None}]

Idle == [at |-> "idle", user |-> None, row |-> None, auth |-> None]

TypeOK ==
    /\ conn \in [Users -> StoredConnection \cup {None}]
    /\ audit \in [AuditEvent -> Nat]
    /\ req \in [Reqs -> Request]
    /\ issued \in [Tokens -> Users \cup {None}]
    /\ expired \subseteq Tokens
    /\ registered \subseteq Users
    /\ live \in [Users -> SUBSET StAuthorization]
    /\ owner \in [Auths -> Users \cup {None}]
    /\ born \in Nat
    /\ started \in 0..MaxRequests
    /\ stranded \subseteq Users
    /\ acked \subseteq Auths

Init ==
    /\ conn = [u \in Users |-> None]
    /\ audit = [e \in AuditEvent |-> 0]
    /\ req = [r \in Reqs |-> Idle]
    /\ issued = [t \in Tokens |-> None]
    /\ expired = {}
    /\ registered = {}
    /\ live = [u \in Users |-> {}]
    /\ owner = [a \in Auths |-> None]
    /\ born = 0
    /\ started = 0
    /\ stranded = {}
    /\ acked = {}

-----------------------------------------------------------------------------
(* Queries and helpers. *)

(* An audit row is written with `let _ =` or from a spawned task: the write may
   fail and nothing notices. *)
record_event(e) == audit' \in {audit, [audit EXCEPT ![e] = @ + 1]}

Start(r, at, u, row, a) ==
    /\ req[r].at = "idle"
    /\ started < MaxRequests
    /\ started' = started + 1
    /\ req' = [req EXCEPT ![r] = [at |-> at, user |-> u, row |-> row, auth |-> a]]

Go(r, to) == req' = [req EXCEPT ![r] = [@ EXCEPT !.at = to]]
Finish(r) == req' = [req EXCEPT ![r] = Idle]

fetch_any_for_user(u)    == conn[u]
fetch_active_for_user(u) == IF conn[u] # None /\ conn[u].active THEN conn[u] ELSE None

(* Faulty variant: the lookup forgets AND user_id = $2. *)
fetch_by_authorization_id_unscoped(u, a) ==
    LET carriers == {v \in Users : conn[v] # None /\ conn[v].auth = a}
    IN  IF carriers = {} THEN None ELSE conn[CHOOSE v \in carriers : TRUE]

(* The row of u that carries authorization a, or None. *)
fetch_by_authorization_id_for_user(u, a) ==
    IF conn[u] # None /\ conn[u].auth = a THEN conn[u] ELSE None

(* Newer by (created_date, position): Option orders None below Some. *)
Newer(a, b) == a.ts > b.ts \/ (a.ts = b.ts /\ a.idx > b.idx)

(* The newest authorization that is not the one on the row: a set with at
   most one member, empty for the code's None. *)
pick_newest_authorization(auths, existing) ==
    LET candidates == {a \in auths : a.id # existing}
    IN  {a \in candidates : \A b \in candidates : ~Newer(b, a)}

-----------------------------------------------------------------------------
(* Faulty variants of the actions below: slips a change to the handlers could
   make, each caught by one of the properties. *)

(* "already exists" from registerUser is taken for success. *)
register_user_again(r) ==
    /\ req[r].at = "register"
    /\ registered' = registered \cup {req[r].user}
    /\ Go(r, "initiated")
    /\ UNCHANGED <<conn, audit, tokens, live, owner, born, started, history>>

(* The row insert is lost: the handler goes on with the secret in memory. *)
insert_pending_skipped(r) ==
    /\ req[r].at = "insert"
    /\ Go(r, "login")
    /\ UNCHANGED <<conn, audit, tokens, upstream, started, history>>

(* disabled is not reset when a disconnected user links again. *)
mark_completed_keeps_disabled(r) ==
    /\ req[r].at = "mark"
    /\ conn' = [conn EXCEPT ![req[r].row.uid].auth = req[r].auth,
                            ![req[r].row.uid].active = TRUE]
    /\ Go(r, "completed")
    /\ UNCHANGED <<audit, tokens, upstream, started, history>>

(* Two bind parameters of the UPDATE are swapped. *)
mark_completed_swapped_binds(r) ==
    /\ req[r].at = "mark"
    /\ conn' = [conn EXCEPT ![req[r].row.uid].auth = req[r].row.uid,
                            ![req[r].row.uid].active = TRUE]
    /\ Go(r, "completed")
    /\ UNCHANGED <<audit, tokens, upstream, started, history>>

(* Every upstream error counts as removed, not only a 404. *)
remove_authorization_swallows(r) ==
    /\ req[r].at = "remove"
    /\ Go(r, "soft_delete")
    /\ UNCHANGED <<conn, audit, tokens, upstream, started, history>>

(* The soft delete also clears the authorization. *)
soft_delete_unlinks(r) ==
    /\ req[r].at = "soft_delete"
    /\ conn' = [conn EXCEPT ![req[r].user].active = FALSE, ![req[r].user].disabled = TRUE,
                            ![req[r].user].auth = None]
    /\ Go(r, "disconnected")
    /\ UNCHANGED <<audit, tokens, upstream, started, history>>

(* The soft delete leaves is_active set. *)
soft_delete_keeps_active(r) ==
    /\ req[r].at = "soft_delete"
    /\ conn' = [conn EXCEPT ![req[r].user].disabled = TRUE]
    /\ Go(r, "disconnected")
    /\ UNCHANGED <<audit, tokens, upstream, started, history>>

-----------------------------------------------------------------------------
(* POST /login-portal. *)

(* Once the limiter lets the request pass, the row is looked up; without one the
   user is registered upstream first. *)
login_portal(r, u) ==
    LET row == fetch_any_for_user(u) IN
    /\ Start(r, IF row = None THEN "register" ELSE "login", u, row, None)
    /\ UNCHANGED <<conn, audit, tokens, upstream, history>>

(* SnapTrade refuses a userId it already knows: it hands out a userSecret once. *)
register_user(r) ==
    LET u == req[r].user IN
    /\ req[r].at = "register"
    /\ registered' = registered \cup {u}
    /\ IF u \in registered THEN Finish(r) ELSE Go(r, "initiated")
    /\ UNCHANGED <<conn, audit, tokens, live, owner, born, started, history>>

audit_initiated(r) ==
    /\ req[r].at = "initiated"
    /\ record_event(Event("connect.initiated", req[r].user, None))
    /\ Go(r, "insert")
    /\ UNCHANGED <<conn, tokens, upstream, started, history>>

(* The unique index on snaptrade_user_id turns a second row into a 409. *)
insert_pending(r) ==
    LET u == req[r].user IN
    /\ req[r].at = "insert"
    /\ IF conn[u] = None
       THEN /\ conn' = [conn EXCEPT ![u] = 
                        [uid |-> u, auth |-> None, active |-> FALSE, disabled |-> FALSE]]
            /\ Go(r, "login")
       ELSE UNCHANGED conn /\ Finish(r)
    /\ UNCHANGED <<audit, tokens, upstream, started, history>>

(* A fresh state JWT rides in customRedirect of the portal URL.  If the call
   fails nobody ever holds the token, which is the same as not issuing it. *)
login_user(r) ==
    /\ req[r].at = "login"
    /\ \E t \in Tokens :
          /\ issued[t] = None
          /\ issued' = [issued EXCEPT ![t] = req[r].user]
    /\ Finish(r)
    /\ UNCHANGED <<conn, audit, expired, upstream, started, history>>

-----------------------------------------------------------------------------
(* GET /callback, public. *)

verify(t) == t # None /\ issued[t] # None /\ t \notin expired

(* Faulty variant: the row is the one of the userId parameter. *)
snaptrade_callback_by_query(r, t, uid) ==
    /\ verify(t)
    /\ uid # None /\ fetch_any_for_user(uid) # None
    /\ Start(r, "list", issued[t], fetch_any_for_user(uid), None)
    /\ UNCHANGED <<conn, audit, tokens, upstream, history>>

(* t = None is a missing or foreign token; uid is the optional userId parameter. *)
snaptrade_callback(r, t, uid) ==
    LET row == IF verify(t) THEN fetch_any_for_user(issued[t]) ELSE None IN
    IF row # None /\ uid \in {None, row.uid}
    THEN /\ Start(r, "list", issued[t], row, None)
         /\ UNCHANGED <<conn, audit, tokens, upstream, history>>
    ELSE /\ req[r].at = "idle"
         /\ started < MaxRequests
         /\ started' = started + 1
         /\ record_event(Event("connect.failed", IF verify(t) THEN issued[t] ELSE None, None))
         /\ UNCHANGED <<conn, req, tokens, upstream, history>>

(* GET /authorizations answered: choose the newest one not on the row as it was
   read.  None left and one on the row is a replay; none at all is a failure. *)
list_authorizations(r) ==
    LET existing == req[r].row.auth
        chosen == pick_newest_authorization(live[req[r].row.uid], existing)
    IN
    /\ req[r].at = "list"
    /\ \/ \E a \in chosen :
             /\ req' = [req EXCEPT ![r] = [@ EXCEPT !.at = "mark", !.auth = a.id]]
             /\ UNCHANGED audit
       \/ /\ chosen = {} /\ existing # None
          /\ Finish(r)
          /\ UNCHANGED audit
       \/ /\ chosen = {} /\ existing = None
          /\ record_event(Event("connect.failed", req[r].user, None))
          /\ Finish(r)
    /\ UNCHANGED <<conn, tokens, upstream, started, history>>

list_authorizations_failed(r) ==
    /\ req[r].at = "list"
    /\ record_event(Event("connect.failed", req[r].user, None))
    /\ Finish(r)
    /\ UNCHANGED <<conn, tokens, upstream, started, history>>

(* UPDATE ... WHERE id: whatever the row holds by now is overwritten. *)
mark_completed(r) ==
    /\ req[r].at = "mark"
    /\ conn' = [conn EXCEPT ![req[r].row.uid] =
                   [@ EXCEPT !.auth = req[r].auth, !.active = TRUE, !.disabled = FALSE]]
    /\ Go(r, "completed")
    /\ UNCHANGED <<audit, tokens, upstream, started, history>>

audit_completed(r) ==
    /\ req[r].at = "completed"
    /\ record_event(Event("connect.completed", req[r].user, req[r].auth))
    /\ Finish(r)
    /\ UNCHANGED <<conn, tokens, upstream, started, history>>

-----------------------------------------------------------------------------
(* DELETE /connections/:id and POST /connections/:id/refresh. *)

(* 404 when no row of u carries a; a disabled row skips the upstream call. *)
delete_connection(r, u, a) ==
    LET row == fetch_by_authorization_id_for_user(u, a) IN
    /\ row # None
    /\ Start(r, IF row.disabled THEN "soft_delete" ELSE "remove", u, row, a)
    /\ UNCHANGED <<conn, audit, tokens, upstream, history>>

(* A 404 from SnapTrade counts as removed. *)
remove_authorization(r) ==
    /\ req[r].at = "remove"
    /\ live' = [live EXCEPT ![req[r].row.uid] = {a \in @ : a.id # req[r].auth}]
    /\ Go(r, "soft_delete")
    /\ UNCHANGED <<conn, audit, tokens, registered, owner, born, started, history>>

(* UPDATE ... WHERE id AND user_id: the authorization the row carries by now is
   not looked at. *)
soft_delete(r) ==
    LET u == req[r].user IN
    /\ req[r].at = "soft_delete"
    /\ conn' = IF req[r].row.uid = u
               THEN [conn EXCEPT ![u] = [@ EXCEPT !.active = FALSE, !.disabled = TRUE]]
               ELSE conn
    /\ Go(r, "disconnected")
    /\ UNCHANGED <<audit, tokens, upstream, started, history>>

audit_disconnect(r) ==
    /\ req[r].at = "disconnected"
    /\ record_event(Event("disconnect", req[r].user, req[r].auth))
    /\ acked' = acked \cup {req[r].auth}
    /\ Finish(r)
    /\ UNCHANGED <<conn, tokens, upstream, started, stranded>>

refresh_connection(r, u, a) ==
    LET row == fetch_by_authorization_id_for_user(u, a) IN
    /\ row # None
    /\ Start(r, "refresh", u, row, a)
    /\ UNCHANGED <<conn, audit, tokens, upstream, history>>

refresh_authorization(r) ==
    /\ req[r].at = "refresh"
    /\ Go(r, "refreshed")
    /\ UNCHANGED <<conn, audit, tokens, upstream, started, history>>

audit_refresh(r) ==
    /\ req[r].at = "refreshed"
    /\ record_event(Event("refresh", req[r].user, req[r].auth))
    /\ Finish(r)
    /\ UNCHANGED <<conn, tokens, upstream, started, history>>

-----------------------------------------------------------------------------
(* GET /connections, /accounts, /accounts/:id/holdings and /accounts/:id/activities:
   the four differ in the SnapTrade endpoint and in the shape of the answer only. *)

(* Without an active row: an empty list (connections, accounts) or a 404. *)
read_brokerage(r, u) ==
    LET row == fetch_active_for_user(u) IN
    /\ row # None
    /\ Start(r, "read", u, row, None)
    /\ UNCHANGED <<conn, audit, tokens, upstream, history>>

(* SnapTrade's answer is passed on: the row may be inactive by then. *)
brokerage_answer(r) ==
    /\ req[r].at = "read"
    /\ Finish(r)
    /\ UNCHANGED <<conn, audit, tokens, upstream, started, history>>

-----------------------------------------------------------------------------
(* The environment. *)

(* The handler's future is dropped, or a SQL statement or SnapTrade call of it
   fails: nothing it has already done is undone. *)
Drop(r) ==
    /\ req[r].at # "idle"
    /\ stranded' = stranded \cup {u \in Users : u = req[r].user /\ req[r].at \in {"initiated", "insert"}}
    /\ Finish(r)
    /\ UNCHANGED <<conn, audit, tokens, upstream, started, acked>>

(* The user completes the portal a login opened: a new authorization, with or
   without a usable created_date. *)
PortalConnect(t, a) ==
    LET u == issued[t] IN
    /\ u # None
    /\ owner[a] = None
    /\ owner' = [owner EXCEPT ![a] = u]
    /\ born' = born + 1
    /\ \E ts \in {0, born + 1} :
          live' = [live EXCEPT ![u] = @ \cup {[id |-> a, ts |-> ts, idx |-> born + 1]}]
    /\ UNCHANGED <<conn, audit, req, tokens, registered, started, history>>

Expire(t) ==
    /\ issued[t] # None
    /\ t \notin expired
    /\ expired' = expired \cup {t}
    /\ UNCHANGED <<conn, audit, req, issued, upstream, started, history>>

Step(r) ==
    \/ register_user(r) \/ audit_initiated(r) \/ insert_pending(r) \/ login_user(r)
    \/ list_authorizations(r) \/ list_authorizations_failed(r)
    \/ mark_completed(r) \/ audit_completed(r)
    \/ remove_authorization(r) \/ soft_delete(r) \/ audit_disconnect(r)
    \/ refresh_authorization(r) \/ audit_refresh(r)
    \/ brokerage_answer(r)
    \/ Drop(r)

Next ==
    \/ \E r \in Reqs :
          \/ Step(r)
          \/ \E u \in Users : login_portal(r, u) \/ read_brokerage(r, u)
          \/ \E t \in Tokens \cup {None}, uid \in Users \cup {None} : snaptrade_callback(r, t, uid)
          \/ \E u \in Users, a \in Auths : delete_connection(r, u, a) \/ refresh_connection(r, u, a)
    \/ \E t \in Tokens : Expire(t) \/ \E a \in Auths : PortalConnect(t, a)

Spec == Init /\ [][Next]_vars

-----------------------------------------------------------------------------
(* Properties of every interleaving. *)

(* A row is pending, linked or disconnected and nothing else, whatever stale
   UPDATEs race on it: it is never active and disabled at once, and it carries an
   authorization exactly when it is one of the two. *)
RowPhases ==
    \A u \in Users : conn[u] # None =>
        /\ conn[u].uid = u
        /\ ~(conn[u].active /\ conn[u].disabled)
        /\ conn[u].active \/ conn[u].disabled <=> conn[u].auth # None

(* A row, the list SnapTrade returns and the authorization a callback has
   chosen all belong to the user the state JWT names. *)
OwnAuthorizations ==
    /\ \A u \in Users : conn[u] # None /\ conn[u].auth # None => owner[conn[u].auth] = u
    /\ \A u \in Users : \A a \in live[u] : owner[a.id] = u
    /\ \A r \in Reqs : req[r].at = "mark" => /\ req[r].auth # None
                                             /\ owner[req[r].auth] = req[r].user

(* The row a request works from, however old, is still the row of its own user,
   it still exists, and once it was linked it stays linked. *)
Sound(r) ==
    /\ req[r].at # "idle" => req[r].user # None
    /\ req[r].at \in Steps \ {"idle", "register", "initiated", "insert"} =>
          conn[req[r].user] # None
    /\ req[r].at \in {"list", "mark", "remove", "soft_delete", "read"} =>
          req[r].row # None /\ req[r].row.uid = req[r].user
    /\ req[r].at \in {"remove", "soft_delete", "disconnected", "refresh", "refreshed"} =>
          req[r].auth # None /\ conn[req[r].user].auth # None

(* No running handler holds a snapshot of a row that has gone or of another
   user's row, and no state JWT names a user without a row: the UPDATEs by row
   id of mark_completed and soft_delete never hit nothing. *)
SnapshotsSound ==
    /\ \A r \in Reqs : Sound(r)
    /\ \A t \in Tokens : issued[t] # None => conn[issued[t]] # None

HoldsSecret(r) == req[r].at \in {"initiated", "insert"}

(* Two first-time login-portal requests of one user may both find no row, but
   only one of them comes back from registerUser with a secret, and nobody has
   inserted a row meanwhile: insert_pending never answers 409. *)
SoleRegistrant ==
    \A r \in Reqs : HoldsSecret(r) =>
        /\ req[r].user \in registered
        /\ conn[req[r].user] = None
        /\ \A q \in Reqs : HoldsSecret(q) /\ req[q].user = req[r].user => q = r

(* The userSecret of a registered user is in the row or in the hands of a
   running login-portal request, unless the request that held it was dropped. *)
SecretKept ==
    \A u \in registered :
        \/ conn[u] # None
        \/ \E r \in Reqs : HoldsSecret(r) /\ req[r].user = u
        \/ u \in stranded

(* A step that changes the row of v or removes an authorization of v belongs
   to a request of v. *)
OnlyOwnerActs ==
    [][\A v \in Users : (conn'[v] # conn[v] \/ ~(live[v] \subseteq live'[v])) =>
           \E r \in Reqs : req[r].user = v /\ req'[r] # req[r]]_vars

phaseOf(u) ==
    IF conn[u] = None THEN "absent"
    ELSE IF conn[u].active THEN "linked"
    ELSE IF conn[u].disabled THEN "disconnected" ELSE "pending"

Lifecycle == INSTANCE BrokerLifecycle WITH
    phase    <- [u \in Users |-> phaseOf(u)],
    linkedTo <- [u \in Users |-> IF conn[u] = None THEN None ELSE conn[u].auth],
    created  <- [u \in Users |-> {a \in Auths : owner[a] = u}]

(* The handlers implement the abstract lifecycle of a link, for any number of
   overlapping and dropped requests. *)
ImplementsLifecycle == Lifecycle!LSpec

-----------------------------------------------------------------------------
(* Properties of one request at a time (Reqs a singleton). *)

LiveIds(u) == {a.id : a \in live[u]}

(* README: DELETE is "Disconnect + soft-delete (idempotent)".  Once a DELETE of
   an authorization answered ok, SnapTrade no longer has it. *)
DeleteDisconnects == \A u \in Users : acked \cap LiveIds(u) = {}

(* An authorization whose DELETE answered ok is never the active one again. *)
AckedStaysInactive ==
    \A u \in Users : fetch_active_for_user(u) # None => conn[u].auth \notin acked

-----------------------------------------------------------------------------
(* A statement of the documentation that the code does not meet. *)

(* snaptrade_callback: "Replay calls find the same authorization already on the
   row, treat the candidate set as empty, and return the success HTML without
   touching the DB": a callback that finds the newest authorization already on
   the row chooses nothing. *)
ReplayTouchesNothing ==
    [][\A r \in Reqs : req[r].at = "list" /\ req'[r].at = "mark" =>
           ~\E a \in pick_newest_authorization(live[req[r].user], None) :
               a.id = conn[req[r].user].auth]_vars
=============================================================================

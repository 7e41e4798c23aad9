-------------------------- MODULE BrokerLifecycle --------------------------
(***************************************************************************)
(* What the broker-connection handlers promise about a user's link, with   *)
(* no requests, retries or SnapTrade calls in sight: it starts absent,     *)
(* becomes pending, then alternates between linked and disconnected, and   *)
(* only ever carries an authorization that its own user created.           *)
(***************************************************************************)
CONSTANTS Users, Auths, None

VARIABLES
    phase,    \* phase[u]: "absent", "pending", "linked" or "disconnected"
    linkedTo, \* linkedTo[u]: the authorization on the link, or None
    created   \* created[u]: the authorizations u created in the portal

lvars == <<phase, linkedTo, created>>

LInit ==
    /\ phase = [u \in Users |-> "absent"]
    /\ linkedTo = [u \in Users |-> None]
    /\ created = [u \in Users |-> {}]

Open(u) ==
    /\ phase[u] = "absent"
    /\ phase' = [phase EXCEPT ![u] = "pending"]
    /\ UNCHANGED <<linkedTo, created>>

Create(u, a) ==
    /\ phase[u] # "absent"
    /\ \A v \in Users : a \notin created[v]
    /\ created' = [created EXCEPT ![u] = @ \cup {a}]
    /\ UNCHANGED <<phase, linkedTo>>

Link(u, a) ==
    /\ phase[u] # "absent"
    /\ a \in created[u]
    /\ phase' = [phase EXCEPT ![u] = "linked"]
    /\ linkedTo' = [linkedTo EXCEPT ![u] = a]
    /\ UNCHANGED created

(* A pending link has nothing to disconnect. *)
Disconnect(u) ==
    /\ phase[u] = "linked"
    /\ phase' = [phase EXCEPT ![u] = "disconnected"]
    /\ UNCHANGED <<linkedTo, created>>

LNext ==
    \E u \in Users : \/ Open(u)
                     \/ Disconnect(u)
                     \/ \E a \in Auths : Create(u, a) \/ Link(u, a)

LSpec == LInit /\ [][LNext]_lvars
=============================================================================

----------------------------- MODULE TeamInvites -----------------------------
(***************************************************************************)
(* Teams and invites of src/teams: creating an invite (owner check, then   *)
(* INSERT), redeeming it (SELECT, then a transaction that upserts the      *)
(* membership and marks the invite), and the lazy creation of users on     *)
(* their first authenticated request (src/auth/upsert.rs).                 *)
(*                                                                         *)
(* Migration 0005 gives every user of its day a team whose id is the       *)
(* user's own id; the code creates no other team.                          *)
(***************************************************************************)
EXTENDS Naturals

CONSTANTS
    Users,
    Emails,       \* lower-cased addresses
    Tokens,       \* invite tokens, never generated twice
    Reqs,         \* slots of concurrently running requests
    MaxRequests,  \* bound: requests started in one behaviour
    None

VARIABLES
    email,    \* email[u]: users.email, None before the first request of u
    team,     \* users whose solo team the backfill created; the team's id
    member,   \* member[t][u]: role of u on team t, or None
    invite,   \* invite[k]: the team_invites row of token k, or None
    expired,  \* invites past expires_at
    req,      \* req[r]: the request running in slot r
    started,  \* requests started so far (bounded)
    mails     \* history: mails[u], every email u has had

vars == <<email, team, member, invite, expired, req, started, mails>>

Roles == {"owner", "advisor", "viewer"}
Invitable == {"advisor", "viewer"}

Invite == [team : Users, by : Users, email : Emails, role : Invitable,
           redeemed_by : Users \cup {None}]

Request == [at : {"idle", "insert", "redeem", "tx"}, user : Users \cup {None},
            token : Tokens \cup {None}, invite : Invite \cup {None}]

Idle == [at |-> "idle", user |-> None, token |-> None, invite |-> None]

(* None stands for SQL's NULL and for a row that is not there. *)
ASSUME InvitesAssumption ==
    /\ None \notin Users \cup Emails \cup Tokens \cup Roles \cup Invite
    /\ MaxRequests \in Nat

TypeOK ==
    /\ email \in [Users -> Emails \cup {None}]
    /\ team \subseteq Users
    /\ member \in [Users -> [Users -> Roles \cup {None}]]
    /\ \A t, u \in Users : member[t][u] # None => t \in team /\ email[u] # None
    /\ invite \in [Tokens -> Invite \cup {None}]
    /\ expired \subseteq Tokens
    /\ req \in [Reqs -> Request]
    /\ started \in 0..MaxRequests
    /\ mails \in [Users -> SUBSET Emails]

(* The users that were there when migration 0005 ran own a solo team. *)
backfill(existing) ==
    /\ team = existing
    /\ member = [t \in Users |-> [u \in Users |->
                    IF t = u /\ u \in existing THEN "owner" ELSE None]]

Init ==
    /\ email \in [Users -> Emails \cup {None}]
    /\ backfill({u \in Users : email[u] # None})
    /\ invite = [k \in Tokens |-> None]
    /\ expired = {}
    /\ req = [r \in Reqs |-> Idle]
    /\ started = 0
    /\ mails = [u \in Users |-> {email[u]} \ {None}]

-----------------------------------------------------------------------------
Begin(r, at, u, k, i) ==
    /\ req[r].at = "idle"
    /\ started < MaxRequests
    /\ started' = started + 1
    /\ req' = [req EXCEPT ![r] = [at |-> at, user |-> u, token |-> k, invite |-> i]]

role_for(t, u) == member[t][u]

(* INSERT ... ON CONFLICT (supabase_user_id) DO UPDATE: a new user, or a user
   whose address changed at Supabase.  email is not unique. *)
upsert_user_from_claims(u, e) ==
    /\ email[u] # e
    /\ email' = [email EXCEPT ![u] = e]
    /\ mails' = [mails EXCEPT ![u] = @ \cup {e}]
    /\ UNCHANGED <<team, member, invite, expired, req, started>>

(* The owner check and the list of roles pass, and a token is generated. *)
create_invite(r, u, t, e, role, k) ==
    /\ email[u] # None
    /\ role_for(t, u) = "owner"
    /\ role \in Invitable
    /\ invite[k] = None /\ \A q \in Reqs : req[q].token # k
    /\ Begin(r, "insert", u, k, [team |-> t, by |-> u, email |-> e, role |-> role, redeemed_by |-> None])
    /\ UNCHANGED <<email, team, member, invite, expired, mails>>

(* The table has CHECK (role IN ('advisor', 'viewer')) as well. *)
insert_invite(r) ==
    /\ req[r].at = "insert"
    /\ req[r].invite.role \in Invitable
    /\ invite' = [invite EXCEPT ![req[r].token] = req[r].invite]
    /\ req' = [req EXCEPT ![r] = Idle]
    /\ UNCHANGED <<email, team, member, expired, started, mails>>

(* Faulty variant: the address is not compared. *)
accept_invite_any_email(r, u, k) ==
    /\ email[u] # None
    /\ invite[k] # None /\ invite[k].redeemed_by = None
    /\ k \notin expired
    /\ Begin(r, "redeem", u, k, invite[k])
    /\ UNCHANGED <<email, team, member, invite, expired, mails>>

(* The invite is open, not expired and addressed to the caller. *)
accept_invite(r, u, k) ==
    /\ email[u] # None
    /\ invite[k] # None /\ invite[k].redeemed_by = None
    /\ k \notin expired
    /\ email[u] = invite[k].email
    /\ Begin(r, "redeem", u, k, invite[k])
    /\ UNCHANGED <<email, team, member, invite, expired, mails>>

(* The row of team_members that the transaction of r has upserted and not committed. *)
RowOf(r) == <<req[r].invite.team, req[r].user>>

(* Faulty variant: the invite is marked first, and outside the transaction. *)
insert_member_marks(r) ==
    /\ req[r].at = "redeem"
    /\ \A q \in Reqs : req[q].at = "tx" => RowOf(q) # RowOf(r)
    /\ invite' = [invite EXCEPT ![req[r].token] = [@ EXCEPT !.redeemed_by = req[r].user]]
    /\ req' = [req EXCEPT ![r].at = "tx"]
    /\ UNCHANGED <<email, team, member, expired, started, mails>>

(* The transaction begins and upserts the membership; its row stays locked, and
   nothing is to be seen of it before the commit. *)
insert_member(r) ==
    /\ req[r].at = "redeem"
    /\ \A q \in Reqs : req[q].at = "tx" => RowOf(q) # RowOf(r)
    /\ req' = [req EXCEPT ![r].at = "tx"]
    /\ UNCHANGED <<email, team, member, invite, expired, started, mails>>

(* The invite is marked, whether or not somebody else has marked it since the
   SELECT, and the commit makes both visible: the role inserted or overwritten. *)
redeem(r) ==
    LET i == req[r].invite IN
    /\ req[r].at = "tx"
    /\ member' = [member EXCEPT ![i.team][req[r].user] = i.role]
    /\ invite' = [invite EXCEPT ![req[r].token] = [@ EXCEPT !.redeemed_by = req[r].user]]
    /\ req' = [req EXCEPT ![r] = Idle]
    /\ UNCHANGED <<email, team, expired, started, mails>>

(* The future is dropped or the statement fails; an open transaction rolls back. *)
Drop(r) ==
    /\ req[r].at # "idle"
    /\ req' = [req EXCEPT ![r] = Idle]
    /\ UNCHANGED <<email, team, member, invite, expired, started, mails>>

Expire(k) ==
    /\ invite[k] # None /\ k \notin expired
    /\ expired' = expired \cup {k}
    /\ UNCHANGED <<email, team, member, invite, req, started, mails>>

Next ==
    \/ \E u \in Users, e \in Emails : upsert_user_from_claims(u, e)
    \/ \E r \in Reqs :
          \/ insert_invite(r) \/ insert_member(r) \/ redeem(r) \/ Drop(r)
          \/ \E u \in Users, k \in Tokens :
                \/ accept_invite(r, u, k)
                \/ \E t \in Users, e \in Emails, role \in Roles : create_invite(r, u, t, e, role, k)
    \/ \E k \in Tokens : Expire(k)

Spec == Init /\ [][Next]_vars

-----------------------------------------------------------------------------
(* Properties. *)

(* Everybody with a role but owner is on the team through an invite of that team's owner for
   that role, redeemed and addressed to an email the member has had. *)
MembersWereInvited ==
    \A t, u \in Users : member[t][u] \in Invitable =>
        \E k \in Tokens : /\ invite[k] # None
                          /\ invite[k].team = t /\ invite[k].by = t
                          /\ invite[k].role = member[t][u]
                          /\ invite[k].redeemed_by # None
                          /\ invite[k].email \in mails[u]

(* "so a crash midway doesn't leave the invite half-redeemed": an invite that is
   marked has let its redeemer in, whatever was dropped or overlapped, and whether
   or not the redeemer was on the team before; a request that does not come to its
   commit leaves the invite open for another try. *)
NoHalfRedeemed ==
    \A k \in Tokens : invite[k] # None /\ invite[k].redeemed_by # None =>
        member[invite[k].team][invite[k].redeemed_by] \in Invitable
=============================================================================

------------------------- MODULE TeamInvitesProofs -------------------------
(***************************************************************************)
(* Proofs about TeamInvites, for every number of users, addresses, tokens  *)
(* and concurrent requests: everybody on a team but its owner was invited  *)
(* by that owner, and no invite is marked without having let somebody in.  *)
(***************************************************************************)
EXTENDS TeamInvites, TLAPS

(* Only the user a team was backfilled for is its owner, so that the owner check of
   create_invite tells who made an invite. *)
SoleOwner == \A t, u \in Users : member[t][u] = "owner" => u = t

(* Every stored invite was made by the owner of the team it is for. *)
InvitesByOwner ==
    \A k \in Tokens : invite[k] # None => /\ invite[k].by = invite[k].team
                                          /\ invite[k].team \in team

(* Token k is the redeemed invite by which u came to the role u has on team t. *)
InvitedBy(k, t, u) ==
    /\ invite[k] # None
    /\ invite[k].team = t /\ invite[k].by = t
    /\ invite[k].role = member[t][u]
    /\ invite[k].redeemed_by # None
    /\ invite[k].email \in mails[u]

(* A user's address is one the user has had. *)
MailsKept == \A u \in Users : email[u] # None => email[u] \in mails[u]

(* What create_invite established before the INSERT still holds: the invite is
   the owner's and its token is neither stored nor in another request. *)
InsertSound(r) ==
    req[r].at = "insert" =>
        /\ req[r].invite \in Invite /\ req[r].token \in Tokens
        /\ req[r].invite.by = req[r].invite.team /\ req[r].invite.team \in team
        /\ req[r].invite.redeemed_by = None /\ invite[req[r].token] = None
        /\ \A q \in Reqs \ {r} : req[q].token # req[r].token

(* What accept_invite read before the transaction holds until its commit, redeemed_by
   apart: the row is there with the same team, role and address, and the
   address is one of the caller's. *)
RedeemSound(r) ==
    LET i == req[r].invite
        k == req[r].token
        u == req[r].user IN
    req[r].at \in {"redeem", "tx"} =>
        /\ i \in Invite /\ k \in Tokens /\ u \in Users
        /\ invite[k] # None
        /\ invite[k].team = i.team /\ invite[k].by = i.by
        /\ invite[k].role = i.role /\ invite[k].email = i.email
        /\ email[u] # None /\ i.email \in mails[u]

RequestsSound == \A r \in Reqs : /\ InsertSound(r) /\ RedeemSound(r)
                                 /\ req[r].at = "idle" => req[r].token = None

(* The inductive invariant. *)
IInv ==
    /\ TypeOK
    /\ SoleOwner
    /\ MembersWereInvited
    /\ NoHalfRedeemed
    /\ InvitesByOwner
    /\ MailsKept
    /\ RequestsSound

-----------------------------------------------------------------------------
(* What the ways of moving a request do to it and leave alone. *)

(* Begin starts a request in slot r with the given fields. *)
LEMMA BeginFacts ==
    ASSUME TypeOK, NEW r \in Reqs, NEW at \in {"insert", "redeem"}, NEW u \in Users,
           NEW k \in Tokens, NEW i \in Invite, Begin(r, at, u, k, i)
    PROVE  /\ req' \in [Reqs -> Request]
           /\ req'[r].at = at /\ req'[r].user = u /\ req'[r].token = k /\ req'[r].invite = i
           /\ \A q \in Reqs \ {r} : req'[q] = req[q]
           /\ started' \in 0..MaxRequests
  <1>1. started' \in 0..MaxRequests
    BY InvitesAssumption DEF Begin, TypeOK
  <1>2. [at |-> at, user |-> u, token |-> k, invite |-> i] \in Request
    BY DEF Request
  <1>3. QED
    BY <1>1, <1>2 DEF Begin, TypeOK

(* A request that ends is idle and holds no token. *)
LEMMA EndFacts ==
    ASSUME TypeOK, NEW r \in Reqs, req' = [req EXCEPT ![r] = Idle]
    PROVE  /\ req' \in [Reqs -> Request]
           /\ req'[r].at = "idle" /\ req'[r].token = None
           /\ \A q \in Reqs \ {r} : req'[q] = req[q]
  BY DEF TypeOK, Request, Idle

(* Ending request r disturbs no other request when the rows stay as they are. *)
LEMMA EndSound ==
    ASSUME TypeOK, RequestsSound, NEW r \in Reqs, req' = [req EXCEPT ![r] = Idle],
           UNCHANGED <<email, team, invite, mails>>
    PROVE  RequestsSound'
  <1>1. ASSUME NEW q \in Reqs \ {r}
        PROVE  InsertSound(q)' /\ RedeemSound(q)'
                 /\ (req'[q].at = "idle" => req'[q].token = None)
    <2>1. req'[q] = req[q] /\ req'[r].token = None
      BY EndFacts
    <2>2. InsertSound(q)'
      BY <2>1, EndFacts, InvitesAssumption DEF RequestsSound, InsertSound
    <2>3. QED
      BY <2>1, <2>2 DEF RequestsSound, RedeemSound
  <1>2. QED
    BY <1>1, EndFacts DEF RequestsSound, InsertSound, RedeemSound

(* Memberships keep their invites when neither they nor the invites change and
   no address is forgotten. *)
LEMMA MembersFrame ==
    ASSUME MembersWereInvited, UNCHANGED <<member, invite>>,
           \A u \in Users : mails[u] \subseteq mails'[u]
    PROVE  MembersWereInvited'
  <1> SUFFICES ASSUME NEW t \in Users, NEW u \in Users, member'[t][u] \in Invitable
               PROVE  \E k \in Tokens : InvitedBy(k, t, u)'
    BY DEF MembersWereInvited, InvitedBy
  <1>1. PICK k \in Tokens : InvitedBy(k, t, u)
    BY DEF MembersWereInvited, InvitedBy
  <1>2. QED
    BY <1>1 DEF InvitedBy

(* The invariant does not depend on which invites have expired. *)
LEMMA QuietFrame ==
    ASSUME IInv, UNCHANGED <<email, team, member, invite, req, started, mails>>,
           expired' \subseteq Tokens
    PROVE  IInv'
  <1> USE DEF IInv
  <1>1. TypeOK'
    BY DEF TypeOK
  <1>2. MembersWereInvited'
    BY MembersFrame
  <1>3. SoleOwner' /\ NoHalfRedeemed' /\ InvitesByOwner' /\ MailsKept'
    BY DEF SoleOwner, NoHalfRedeemed, InvitesByOwner, MailsKept
  <1>4. RequestsSound'
    BY DEF RequestsSound, InsertSound, RedeemSound
  <1>5. QED
    BY <1>1, <1>2, <1>3, <1>4

-----------------------------------------------------------------------------
(* Init and the actions, one lemma each. *)

(* The backfill establishes the invariant. *)
LEMMA InitIInv == Init => IInv
  <1> SUFFICES ASSUME Init PROVE IInv
    OBVIOUS
  <1>1. TypeOK
    <2>1. member \in [Users -> [Users -> Roles \cup {None}]]
      BY DEF Init, backfill, Roles
    <2>2. \A t, u \in Users : member[t][u] = IF t = u /\ email[t] # None THEN "owner" ELSE None
      BY DEF Init, backfill
    <2>3. req \in [Reqs -> Request]
      BY DEF Init, Request, Idle
    <2>4. \A t, u \in Users : member[t][u] # None => t \in team /\ email[u] # None
      BY <2>2 DEF Init, backfill
    <2>5. /\ email \in [Users -> Emails \cup {None}] /\ team \subseteq Users
          /\ invite \in [Tokens -> Invite \cup {None}] /\ expired \subseteq Tokens
          /\ mails \in [Users -> SUBSET Emails]
      BY DEF Init, backfill
    <2>6. started \in 0..MaxRequests
      BY InvitesAssumption DEF Init
    <2>7. QED
      BY <2>1, <2>3, <2>4, <2>5, <2>6 DEF TypeOK
  <1>2. \A t, u \in Users : member[t][u] \notin Invitable /\ (member[t][u] = "owner" => u = t)
    <2>1. \A t, u \in Users : member[t][u] = IF t = u /\ email[t] # None THEN "owner" ELSE None
      BY DEF Init, backfill
    <2>2. QED
      BY <2>1, InvitesAssumption DEF Invitable, Roles
  <1>3. SoleOwner /\ MembersWereInvited /\ NoHalfRedeemed
    BY <1>2 DEF SoleOwner, MembersWereInvited, NoHalfRedeemed, Init
  <1>4. InvitesByOwner /\ MailsKept
    BY DEF Init, InvitesByOwner, MailsKept
  <1>5. RequestsSound
    BY DEF Init, RequestsSound, InsertSound, RedeemSound, Idle
  <1>6. QED
    BY <1>1, <1>3, <1>4, <1>5 DEF IInv

(* upsert_user_from_claims changes an address and remembers the old one. *)
LEMMA UpsertIInv ==
    ASSUME IInv, NEW u \in Users, NEW e \in Emails, upsert_user_from_claims(u, e)
    PROVE  IInv'
  <1> USE DEF IInv
  <1>1. /\ \A v \in Users : mails[v] \subseteq mails'[v]
        /\ email'[u] = e /\ e # None /\ e \in mails'[u]
        /\ \A v \in Users \ {u} : email'[v] = email[v]
        /\ email' \in [Users -> Emails \cup {None}] /\ mails' \in [Users -> SUBSET Emails]
    BY InvitesAssumption DEF upsert_user_from_claims, TypeOK
  <1>2. UNCHANGED <<team, member, invite, expired, req, started>>
    BY DEF upsert_user_from_claims
  <1>3. TypeOK'
    BY <1>1, <1>2 DEF TypeOK
  <1>4. SoleOwner' /\ NoHalfRedeemed' /\ InvitesByOwner' /\ MailsKept'
    BY <1>1, <1>2 DEF SoleOwner, NoHalfRedeemed, InvitesByOwner, MailsKept
  <1>5. MembersWereInvited'
    BY <1>1, <1>2, MembersFrame
  <1>6. RequestsSound'
    <2>1. \A r \in Reqs : InsertSound(r)'
      BY <1>2 DEF RequestsSound, InsertSound
    <2>2. \A r \in Reqs : RedeemSound(r)'
      BY <1>1, <1>2 DEF RequestsSound, RedeemSound
    <2>3. QED
      BY <2>1, <2>2, <1>2 DEF RequestsSound
  <1>7. QED
    BY <1>3, <1>4, <1>5, <1>6

(* create_invite: the caller is the owner, so the invite is made by the team's
   owner, and the token is fresh. *)
LEMMA CreateIInv ==
    ASSUME IInv, NEW r \in Reqs, NEW u \in Users, NEW t \in Users, NEW e \in Emails,
           NEW role \in Roles, NEW k \in Tokens, create_invite(r, u, t, e, role, k)
    PROVE  IInv'
  <1> DEFINE i == [team |-> t, by |-> u, email |-> e, role |-> role, redeemed_by |-> None]
  <1> USE DEF IInv
  <1>1. i \in Invite
    BY DEF Invite, create_invite
  <1>2. Begin(r, "insert", u, k, i) /\ UNCHANGED <<email, team, member, invite, expired, mails>>
    BY DEF create_invite
  <1> HIDE DEF i
  <1>3. /\ req' \in [Reqs -> Request] /\ started' \in 0..MaxRequests
        /\ req'[r].at = "insert" /\ req'[r].token = k /\ req'[r].invite = i
        /\ \A q \in Reqs \ {r} : req'[q] = req[q]
    BY <1>1, <1>2, BeginFacts
  <1>4. TypeOK'
    BY <1>2, <1>3 DEF TypeOK
  <1>5. SoleOwner' /\ NoHalfRedeemed' /\ InvitesByOwner' /\ MailsKept' /\ MembersWereInvited'
    BY <1>2, MembersFrame DEF SoleOwner, NoHalfRedeemed, InvitesByOwner, MailsKept
  <1>6. i.by = i.team /\ i.team \in team /\ i.redeemed_by = None
    BY InvitesAssumption DEF create_invite, role_for, SoleOwner, TypeOK, Roles, i
  <1>7. invite[k] = None /\ \A q \in Reqs : req[q].token # k
    BY DEF create_invite
  <1>8. InsertSound(r)' /\ RedeemSound(r)' /\ req'[r].at # "idle"
    BY <1>1, <1>2, <1>3, <1>6, <1>7 DEF InsertSound, RedeemSound
  <1>9. ASSUME NEW q \in Reqs \ {r}
        PROVE  InsertSound(q)' /\ RedeemSound(q)'
                 /\ (req'[q].at = "idle" => req'[q].token = None)
    BY <1>2, <1>3, <1>7 DEF RequestsSound, InsertSound, RedeemSound
  <1>10. QED
    BY <1>4, <1>5, <1>8, <1>9 DEF RequestsSound

(* insert_invite stores an invite of the team's owner under a token nobody reads. *)
LEMMA InsertIInv ==
    ASSUME IInv, NEW r \in Reqs, insert_invite(r)
    PROVE  IInv'
  <1> DEFINE i == req[r].invite
             k == req[r].token
  <1> USE DEF IInv
  <1>1. /\ i \in Invite /\ k \in Tokens
        /\ i.by = i.team /\ i.team \in team
        /\ invite[k] = None
        /\ \A q \in Reqs \ {r} : req[q].token # k
    BY DEF insert_invite, RequestsSound, InsertSound
  <1>2. /\ req' = [req EXCEPT ![r] = Idle]
        /\ UNCHANGED <<email, team, member, expired, started, mails>>
    BY DEF insert_invite
  <1>3. /\ invite' \in [Tokens -> Invite \cup {None}]
        /\ invite'[k] = i
        /\ \A j \in Tokens \ {k} : invite'[j] = invite[j]
    BY <1>1 DEF insert_invite, TypeOK
  <1>4. /\ req' \in [Reqs -> Request] /\ req'[r].at = "idle" /\ req'[r].token = None
        /\ \A q \in Reqs \ {r} : req'[q] = req[q]
    BY <1>2, EndFacts
  <1> HIDE DEF i, k
  <1>5. TypeOK'
    BY <1>2, <1>3, <1>4 DEF TypeOK
  <1>6. SoleOwner' /\ MailsKept' /\ InvitesByOwner'
    BY <1>1, <1>2, <1>3 DEF SoleOwner, MailsKept, InvitesByOwner
  <1>6a. NoHalfRedeemed'
    <2>1. i.redeemed_by = None
      BY <1>1 DEF insert_invite, RequestsSound, InsertSound, i
    <2>2. QED
      BY <1>2, <1>3, <2>1 DEF NoHalfRedeemed
  <1>7. MembersWereInvited'
    <2>1. SUFFICES ASSUME NEW t \in Users, NEW v \in Users, member'[t][v] \in Invitable
                   PROVE  \E j \in Tokens : InvitedBy(j, t, v)'
      BY DEF MembersWereInvited, InvitedBy
    <2>2. PICK j \in Tokens : InvitedBy(j, t, v)
      BY <2>1, <1>2 DEF MembersWereInvited, InvitedBy
    <2>3. j # k /\ invite'[j] = invite[j]
      BY <2>2, <1>1, <1>3 DEF InvitedBy
    <2>4. QED
      BY <2>2, <2>3, <1>2 DEF InvitedBy
  <1>8. ASSUME NEW q \in Reqs \ {r}
        PROVE  InsertSound(q)' /\ RedeemSound(q)'
                 /\ (req'[q].at = "idle" => req'[q].token = None)
    <2>1. InsertSound(q)'
      BY <1>1, <1>2, <1>3, <1>4, InvitesAssumption DEF RequestsSound, InsertSound
    <2>2. RedeemSound(q)'
      BY <1>1, <1>2, <1>3, <1>4 DEF RequestsSound, RedeemSound
    <2>3. QED
      BY <2>1, <2>2, <1>4 DEF RequestsSound
  <1>9. InsertSound(r)' /\ RedeemSound(r)'
    BY <1>4 DEF InsertSound, RedeemSound
  <1>10. QED
    BY <1>4, <1>5, <1>6, <1>7, <1>8, <1>9, <1>6a DEF RequestsSound

(* accept_invite takes a copy of an open invite addressed to the caller. *)
LEMMA AcceptIInv ==
    ASSUME IInv, NEW r \in Reqs, NEW u \in Users, NEW k \in Tokens, accept_invite(r, u, k)
    PROVE  IInv'
  <1> USE DEF IInv
  <1>1. invite[k] \in Invite /\ invite[k] # None
    BY DEF accept_invite, TypeOK
  <1>2. /\ Begin(r, "redeem", u, k, invite[k])
        /\ UNCHANGED <<email, team, member, invite, expired, mails>>
    BY DEF accept_invite
  <1>3. /\ req' \in [Reqs -> Request] /\ started' \in 0..MaxRequests
        /\ req'[r].at = "redeem" /\ req'[r].user = u /\ req'[r].token = k
        /\ req'[r].invite = invite[k]
        /\ \A q \in Reqs \ {r} : req'[q] = req[q]
    BY <1>1, <1>2, BeginFacts
  <1>4. TypeOK'
    BY <1>2, <1>3 DEF TypeOK
  <1>5. SoleOwner' /\ NoHalfRedeemed' /\ InvitesByOwner' /\ MailsKept' /\ MembersWereInvited'
    BY <1>2, MembersFrame DEF SoleOwner, NoHalfRedeemed, InvitesByOwner, MailsKept
  <1>6. email[u] # None /\ invite[k].email \in mails[u]
    BY DEF accept_invite, MailsKept
  <1>7. InsertSound(r)' /\ RedeemSound(r)'
    BY <1>1, <1>2, <1>3, <1>6 DEF InsertSound, RedeemSound
  <1>8. ASSUME NEW q \in Reqs \ {r}
        PROVE  InsertSound(q)' /\ RedeemSound(q)'
                 /\ (req'[q].at = "idle" => req'[q].token = None)
    <2>1. InsertSound(q)'
      BY <1>1, <1>2, <1>3 DEF RequestsSound, InsertSound
    <2>2. QED
      BY <1>2, <1>3, <2>1 DEF RequestsSound, RedeemSound
  <1>9. QED
    BY <1>3, <1>4, <1>5, <1>7, <1>8 DEF RequestsSound

(* insert_member shows nothing of what it has written. *)
LEMMA InsertMemberIInv ==
    ASSUME IInv, NEW r \in Reqs, insert_member(r)
    PROVE  IInv'
  <1> USE DEF IInv
  <1>1. req[r].at = "redeem" /\ UNCHANGED <<email, team, member, invite, expired, started, mails>>
    BY DEF insert_member
  <1>2. /\ req' \in [Reqs -> Request] /\ req'[r].at = "tx"
        /\ req'[r].user = req[r].user /\ req'[r].token = req[r].token
        /\ req'[r].invite = req[r].invite
        /\ \A q \in Reqs \ {r} : req'[q] = req[q]
    BY DEF insert_member, TypeOK, Request
  <1>3. TypeOK'
    BY <1>1, <1>2 DEF TypeOK
  <1>4. SoleOwner' /\ NoHalfRedeemed' /\ InvitesByOwner' /\ MailsKept' /\ MembersWereInvited'
    BY <1>1, MembersFrame DEF SoleOwner, NoHalfRedeemed, InvitesByOwner, MailsKept
  <1>5. InsertSound(r)' /\ RedeemSound(r)' /\ req'[r].at # "idle"
    BY <1>1, <1>2 DEF RequestsSound, InsertSound, RedeemSound
  <1>6. ASSUME NEW q \in Reqs \ {r}
        PROVE  InsertSound(q)' /\ RedeemSound(q)'
                 /\ (req'[q].at = "idle" => req'[q].token = None)
    <2>1. InsertSound(q)'
      BY <1>1, <1>2 DEF RequestsSound, InsertSound
    <2>2. QED
      BY <1>1, <1>2, <2>1 DEF RequestsSound, RedeemSound
  <1>7. QED
    BY <1>3, <1>4, <1>5, <1>6 DEF RequestsSound

(* redeem writes the role of an invite of the team's owner and marks the stored
   row, even one that somebody else has redeemed since it was read. *)
LEMMA RedeemIInv ==
    ASSUME IInv, NEW r \in Reqs, redeem(r)
    PROVE  IInv'
  <1> DEFINE i == req[r].invite
             k == req[r].token
             u == req[r].user
  <1> USE DEF IInv
  <1>1. /\ i \in Invite /\ k \in Tokens /\ u \in Users
        /\ invite[k] # None /\ invite[k] \in Invite
        /\ invite[k].team = i.team /\ invite[k].by = i.by
        /\ invite[k].role = i.role /\ invite[k].email = i.email
        /\ email[u] # None /\ i.email \in mails[u]
    BY DEF redeem, RequestsSound, RedeemSound, TypeOK
  <1>2. /\ req' = [req EXCEPT ![r] = Idle]
        /\ UNCHANGED <<email, team, expired, started, mails>>
    BY DEF redeem
  <1>3. /\ req' \in [Reqs -> Request] /\ req'[r].at = "idle" /\ req'[r].token = None
        /\ \A q \in Reqs \ {r} : req'[q] = req[q]
    BY <1>2, EndFacts
  <1>4. /\ invite'[k] \in Invite
        /\ invite'[k].team = i.team /\ invite'[k].by = i.by
        /\ invite'[k].role = i.role /\ invite'[k].email = i.email
        /\ invite'[k].redeemed_by = u
        /\ \A j \in Tokens \ {k} : invite'[j] = invite[j]
        /\ invite' \in [Tokens -> Invite \cup {None}]
    BY <1>1 DEF redeem, TypeOK, Invite
  <1>5. /\ i.team \in Users /\ i.role \in Invitable /\ i.team \in team
        /\ i.by = i.team
    BY <1>1 DEF Invite, InvitesByOwner
  <1>6. /\ member' \in [Users -> [Users -> Roles \cup {None}]]
        /\ member'[i.team][u] = i.role
        /\ \A t, v \in Users : ~(t = i.team /\ v = u) => member'[t][v] = member[t][v]
    BY <1>1, <1>5 DEF redeem, TypeOK, Roles, Invitable
  <1>7. invite'[k] # None /\ u # None
    BY <1>1, <1>4, InvitesAssumption
  <1> HIDE DEF i, k, u
  <1>8. TypeOK'
    <2>1. \A t, v \in Users : member'[t][v] # None => t \in team' /\ email'[v] # None
      BY <1>1, <1>2, <1>5, <1>6 DEF TypeOK
    <2>2. QED
      BY <1>2, <1>3, <1>4, <1>6, <2>1 DEF TypeOK
  <1>9. SoleOwner'
    BY <1>5, <1>6 DEF SoleOwner, Invitable
  <1>9a. NoHalfRedeemed'
    <2>1. SUFFICES ASSUME NEW j \in Tokens, invite'[j] # None, invite'[j].redeemed_by # None
                   PROVE  member'[invite'[j].team][invite'[j].redeemed_by] \in Invitable
      BY DEF NoHalfRedeemed
    <2>2. CASE j = k
      <3>1. invite'[j].team = i.team /\ invite'[j].redeemed_by = u
        BY <2>2, <1>4
      <3>2. QED
        BY <3>1, <1>5, <1>6
    <2>3. CASE j # k
      <3>1. /\ invite'[j] = invite[j] /\ invite[j] \in Invite
            /\ member[invite[j].team][invite[j].redeemed_by] \in Invitable
        BY <2>1, <2>3, <1>4 DEF NoHalfRedeemed, TypeOK
      <3>2. invite[j].team \in Users /\ invite[j].redeemed_by \in Users
        BY <2>1, <3>1 DEF Invite
      <3>3. QED
        BY <3>1, <3>2, <1>5, <1>6
    <2>4. QED
      BY <2>2, <2>3
  <1>10. MailsKept' /\ InvitesByOwner'
    BY <1>1, <1>2, <1>4, <1>5 DEF MailsKept, InvitesByOwner
  <1>11. MembersWereInvited'
    <2>1. SUFFICES ASSUME NEW t \in Users, NEW v \in Users, member'[t][v] \in Invitable
                   PROVE  \E j \in Tokens : InvitedBy(j, t, v)'
      BY DEF MembersWereInvited, InvitedBy
    <2>2. CASE t = i.team /\ v = u
      BY <2>2, <1>1, <1>2, <1>4, <1>5, <1>6, <1>7 DEF InvitedBy
    <2>3. CASE ~(t = i.team /\ v = u)
      <3>1. member'[t][v] = member[t][v] /\ mails' = mails
        BY <2>3, <1>2, <1>6
      <3>2. PICK j \in Tokens : InvitedBy(j, t, v)
        BY <2>1, <3>1 DEF MembersWereInvited, InvitedBy
      <3>3. CASE j = k
        BY <3>1, <3>2, <3>3, <1>1, <1>4, <1>7 DEF InvitedBy
      <3>4. CASE j # k
        BY <3>1, <3>2, <3>4, <1>4 DEF InvitedBy
      <3>5. QED
        BY <3>3, <3>4
    <2>4. QED
      BY <2>2, <2>3
  <1>12. ASSUME NEW q \in Reqs \ {r}
         PROVE  InsertSound(q)' /\ RedeemSound(q)'
                 /\ (req'[q].at = "idle" => req'[q].token = None)
    <2>1. req'[q] = req[q] /\ req'[r].token = None
      BY <1>3
    <2>2. req[q].at = "insert" => req[q].token # k
      BY <1>1 DEF RequestsSound, InsertSound
    <2>3. InsertSound(q)'
      BY <2>1, <2>2, <1>2, <1>3, <1>4, InvitesAssumption DEF RequestsSound, InsertSound
    <2>4. RedeemSound(q)'
      <3>1. CASE req[q].token = k
        BY <3>1, <2>1, <1>1, <1>2, <1>4, <1>7 DEF RequestsSound, RedeemSound
      <3>2. CASE req[q].token # k
        BY <3>2, <2>1, <1>2, <1>4 DEF RequestsSound, RedeemSound
      <3>3. QED
        BY <3>1, <3>2
    <2>5. QED
      BY <2>1, <2>3, <2>4 DEF RequestsSound
  <1>13. InsertSound(r)' /\ RedeemSound(r)'
    BY <1>3 DEF InsertSound, RedeemSound
  <1>14. QED
    BY <1>3, <1>8, <1>9, <1>10, <1>11, <1>12, <1>13, <1>9a DEF RequestsSound

(* Drop only ends a request. *)
LEMMA DropIInv ==
    ASSUME IInv, NEW r \in Reqs, Drop(r)
    PROVE  IInv'
  <1> USE DEF IInv
  <1>1. req' = [req EXCEPT ![r] = Idle] /\ UNCHANGED <<email, team, member, invite, expired, started, mails>>
    BY DEF Drop
  <1>2. RequestsSound'
    BY <1>1, EndSound
  <1>3. TypeOK'
    BY <1>1, EndFacts DEF TypeOK
  <1>4. SoleOwner' /\ NoHalfRedeemed' /\ InvitesByOwner' /\ MailsKept' /\ MembersWereInvited'
    BY <1>1, MembersFrame DEF SoleOwner, NoHalfRedeemed, InvitesByOwner, MailsKept
  <1>5. QED
    BY <1>2, <1>3, <1>4

(* Expire touches nothing the other conjuncts speak of. *)
LEMMA ExpireIInv ==
    ASSUME IInv, NEW k \in Tokens, Expire(k)
    PROVE  IInv'
  BY QuietFrame DEF Expire, IInv, TypeOK

(* Every step keeps the invariant. *)
LEMMA NextIInv == IInv /\ [Next]_vars => IInv'
  <1> SUFFICES ASSUME IInv, [Next]_vars PROVE IInv'
    OBVIOUS
  <1>1. CASE UNCHANGED vars
    BY <1>1, QuietFrame DEF vars, IInv, TypeOK
  <1>2. CASE Next
    BY <1>2, UpsertIInv, CreateIInv, InsertIInv, AcceptIInv, InsertMemberIInv, RedeemIInv,
       DropIInv, ExpireIInv DEF Next
  <1>3. QED
    BY <1>1, <1>2

-----------------------------------------------------------------------------
(* The inductive invariant holds of every reachable state of the team handlers. *)
THEOREM Invariance == Spec => []IInv
  BY InitIInv, NextIInv, PTL DEF Spec

(* Rows, requests and histories keep their types, and only a user with an account
   is on a team, and only on a team that exists. *)
THEOREM Typing == Spec => []TypeOK
  <1>1. IInv => TypeOK
    BY DEF IInv
  <1>2. QED
    BY Invariance, <1>1, PTL

(* Whatever ran between the SELECT and the transaction of accept_invite, an
   advisor or viewer was invited to that role by the team's owner at an address
   of theirs. *)
THEOREM OnlyInvitedMembers == Spec => []MembersWereInvited
  <1>1. IInv => MembersWereInvited
    BY DEF IInv
  <1>2. QED
    BY Invariance, <1>1, PTL

(* An invite that is marked as redeemed has let its redeemer in, whatever was dropped
   and however redemptions of it overlapped. *)
THEOREM RedeemedAreMembers == Spec => []NoHalfRedeemed
  <1>1. IInv => NoHalfRedeemed
    BY DEF IInv
  <1>2. QED
    BY Invariance, <1>1, PTL
=============================================================================

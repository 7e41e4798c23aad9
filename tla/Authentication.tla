--------------------------- MODULE Authentication ---------------------------
(***************************************************************************)
(* The AuthenticatedUser extractor of src/auth on top of the JWKS cache:   *)
(* verify_token with its two paths, the upsert of the users row that every *)
(* authenticated request performs, and PATCH /v1/me, which follows it.     *)
(*                                                                         *)
(* A request that finds the cache empty waits for its own lazy fetch and   *)
(* then reads whatever the cache holds; verification and the upsert are    *)
(* separate steps, and a request may be dropped before each.               *)
(***************************************************************************)
EXTENDS JwksCache

CONSTANTS
    Tokens,    \* bearer tokens
    Subs,      \* Supabase user ids
    Names,     \* display names
    Secret,    \* the value of MIZAN_TEST_JWT_SECRET
    None

Issuer == "supabase"
Audience == "authenticated"

(* signer: the key that made the signature; current: the clock is within nbf and
   exp, 60 s leeway included. *)
Token == [alg : {"RS256", "ES256", "HS256"}, kid : Kids \cup {NoKid}, signer : Kids \cup {Secret},
          iss : {Issuer, "mizan-test", "other"}, aud : {Audience, "anon"}, current : BOOLEAN,
          sub : Subs \cup {None}, email : STRING \cup {None}, name : Names \cup {None}]

(* A row of users, as far as it is followed here. *)
UserRow == [email : {t.email : t \in Tokens} \ {None}, name : Names \cup {None}]

ASSUME AuthAssumption ==
    /\ \A t \in Tokens : /\ DOMAIN t = {"alg", "kid", "signer", "iss", "aud", "current", "sub", "email", "name"}
                         /\ t.sub \in Subs \cup {None} /\ t.name \in Names \cup {None}
    /\ Secret \notin Kids /\ None \notin UserRow

VARIABLES
    config,  \* Config: the environment, and whether test_jwt_secret is Some
    req,     \* req[r]: the request in slot r
    users    \* users[sub]: the users row, or None

authVars == <<config, req, users>>
allVars == <<vars, authVars>>

NoReq == [at |-> "idle", token |-> None]

(* Config::from_env: production drops the secret. *)
from_env(production, secretSet) ==
    [production |-> production, test_jwt_secret |-> ~production /\ secretSet]

AuthInit ==
    /\ Init
    /\ config \in {from_env(p, s) : p \in BOOLEAN, s \in BOOLEAN}
    /\ req = [r \in Reqs |-> NoReq]
    /\ users = [s \in Subs |-> None]

-----------------------------------------------------------------------------
(* jsonwebtoken::decode: signature, algorithm, and the claims of the validation. *)
decode(t, key, validation) ==
    /\ t.signer = key
    /\ t.alg = validation.algorithm
    /\ t.iss \in validation.iss
    /\ t.aud \in validation.aud
    /\ t.current

(* Faulty variant: the audience is not set. *)
build_validation_any_audience(algorithm) ==
    [algorithm |-> algorithm, iss |-> {Issuer}, aud |-> {Audience, "anon"}]

build_validation(algorithm) == [algorithm |-> algorithm, iss |-> {Issuer}, aud |-> {Audience}]

default_alg_for_kty(kty) == [RSA |-> "RS256", EC |-> "ES256", oct |-> "HS256"][kty]

(* The test path is taken for an HS256 token if a secret is configured, and is
   final: there is no second try against the JWKS. *)
test_path(t) == ~config.production /\ config.test_jwt_secret /\ t.alg = "HS256"

verify_test_token(t) ==
    decode(t, Secret, [build_validation("HS256") EXCEPT !.iss = @ \cup {"mizan-test"}])

(* The algorithm is the cached key's, not the token's. *)
verify_token(t) ==
    \E i \in matching(t.kid) :
        /\ \A j \in matching(t.kid) : i <= j
        /\ decode(t, keys[i].kid, build_validation(default_alg_for_kty(keys[i].kty)))

-----------------------------------------------------------------------------
To(r, at) == req' = [req EXCEPT ![r].at = at]

(* Until the cache is read.  A header that is no bearer token is 401 at once. *)
from_request_parts(r, t) ==
    /\ Serving /\ req[r] = NoReq
    /\ LET to(at) == req' = [req EXCEPT ![r] = [at |-> at, token |-> t]] IN
       \/ /\ test_path(t) /\ verify_test_token(t)
          /\ to("upsert") /\ UNCHANGED vars
       \/ /\ ~test_path(t) /\ keys # <<>>
          /\ to("find") /\ UNCHANGED vars
       \/ /\ ~test_path(t) /\ find_key(r)
          /\ to("find")
    /\ UNCHANGED <<config, users>>

(* The rest of find_key, and the decoding. *)
decode_token(r) ==
    /\ req[r].at = "find" /\ fetch[r].at = "idle"
    /\ IF verify_token(req[r].token) THEN To(r, "upsert") ELSE req' = [req EXCEPT ![r] = NoReq]
    /\ UNCHANGED <<vars, config, users>>

(* COALESCE(a, b) *)
Coalesce(a, b) == IF a # None THEN a ELSE b
NameOf(sub) == IF users[sub] = None THEN None ELSE users[sub].name

(* INSERT ... ON CONFLICT (supabase_user_id) DO UPDATE; the handler follows, that of
   PATCH /v1/me or another.  A sub that is no UUID, or no email, is 401. *)
upsert_user_from_claims(r) ==
    LET t == req[r].token IN
    /\ req[r].at = "upsert"
    /\ IF t.sub # None /\ t.email # None
       THEN /\ users' = [users EXCEPT ![t.sub] =
                             [email |-> t.email, name |-> Coalesce(t.name, NameOf(t.sub))]]
            /\ To(r, "patch") \/ req' = [req EXCEPT ![r] = NoReq]
       ELSE UNCHANGED users /\ req' = [req EXCEPT ![r] = NoReq]
    /\ UNCHANGED <<vars, config>>

(* UPDATE ... COALESCE($2, display_name); a blank name is None. *)
patch_me(r) ==
    /\ req[r].at = "patch"
    /\ \E name \in Names \cup {None} :
          users' = [users EXCEPT ![req[r].token.sub].name = Coalesce(name, @)]
    /\ req' = [req EXCEPT ![r] = NoReq]
    /\ UNCHANGED <<vars, config>>

(* The future is dropped at an await, with its fetch, or the PATCH's body is 422. *)
Drop(r) ==
    /\ req[r] # NoReq
    /\ req' = [req EXCEPT ![r] = NoReq]
    /\ fetch' = [fetch EXCEPT ![r] = Idle]
    /\ UNCHANGED <<keys, age, due, version, lazy, gone, atHour, before, ticked, config, users>>

CacheStep ==
    \/ spawn_refresher
    \/ \E f \in Fetchers : Answer(f) \/ refresh(f) \/ refresh_failed(f)
    \/ Rotate \/ Hour

AuthNext ==
    \/ CacheStep /\ UNCHANGED authVars
    \/ \E r \in Reqs :
          \/ \E t \in Tokens : from_request_parts(r, t)
          \/ decode_token(r) \/ upsert_user_from_claims(r) \/ patch_me(r) \/ Drop(r)

AuthSpec == AuthInit /\ [][AuthNext]_allVars

(* The tokens of users: the kid names the key, sub and email are there. *)
UserTokens == {t \in Tokens : t.kid = t.signer /\ t.sub # None /\ t.email # None}

(* The cache's own fairness, of which the refresher's part is enough; a request
   ends, by the timeout layer if not before; users come again, and not every request
   of theirs is dropped. *)
AuthFairSpec ==
    /\ AuthSpec
    /\ WF_allVars(Hour /\ UNCHANGED authVars) /\ WF_allVars(spawn_refresher /\ UNCHANGED authVars)
    /\ \A f \in Fetchers :
          WF_allVars((Answer(f) \/ refresh(f) \/ refresh_failed(f)) /\ UNCHANGED authVars)
    /\ SF_allVars(Answer("refresher") /\ UNCHANGED authVars)
    /\ SF_allVars(refresh("refresher") /\ UNCHANGED authVars)
    /\ \A r \in Reqs : WF_allVars(Drop(r))
    /\ \A r \in Reqs, t \in UserTokens :
          /\ SF_allVars(from_request_parts(r, t))
          /\ SF_allVars(req[r].token = t /\ decode_token(r))
          /\ SF_allVars(req[r].token = t /\ upsert_user_from_claims(r))

-----------------------------------------------------------------------------
(* Properties. *)

(* The issuer has made t for this audience with a key it published, for a user. *)
IssuedBy(v, t) ==
    /\ t.iss = Issuer /\ t.aud = Audience /\ t.current
    /\ t.signer \in KidsOf(Published[v])

(* "Production builds reject this path even if the secret is present": a users row
   is only written for a token that the issuer signed with a key it has published
   by then, or outside production with the test secret; overtaken fetches, lazy
   ones and rotations included. *)
AcceptedWereIssued ==
    \A r \in Reqs : req[r].at = "upsert" =>
        \/ \E v \in Versions : v <= version /\ IssuedBy(v, req[r].token)
        \/ ~config.production /\ config.test_jwt_secret /\ req[r].token.signer = Secret

(* A user with a current token is let in sooner or later, once the issuer goes on
   publishing the key it was signed with: after a failed warm-up, failed fetches
   and rotations the cache knew nothing of. *)
UsersGetIn ==
    \A t \in UserTokens : <>[]IssuedBy(version, t) => <>(users[t.sub] # None)
=============================================================================

------------------------ MODULE AuthenticationProofs ------------------------
(***************************************************************************)
(* Proofs about the JWKS cache and the authenticated requests on top of    *)
(* it, for every sequence of documents the issuer may publish and any      *)
(* number of overlapping requests: the keys of a ready instance are        *)
(* recent, an hourly refresh makes known what was published all along, and *)
(* only tokens the issuer signed are accepted.                             *)
(***************************************************************************)
EXTENDS Authentication, TLAPS

(* Documents are published in order; those not replaced before the interval
   began have not been gone for an hour, and those not replaced before the one
   before it for at most one. *)
VersionsOrdered ==
    /\ before <= atHour /\ atHour <= version
    /\ \A v \in Versions : /\ atHour <= v => gone[v] = 0
                           /\ before <= v => gone[v] <= 1

(* ks was served at some moment since the document `from' was. *)
ServedSince(from, ks) ==
    \E v \in Versions : from <= v /\ v <= version /\ Published[v] = ks

(* A fetch that has been answered was answered after it was sent: in the running
   interval, or in the one before it. *)
AnswersRecent ==
    \A f \in Fetchers : fetch[f].at = "got" =>
        ServedSince(IF fetch[f].old THEN before ELSE atHour, fetch[f].doc)

(* A cache with keys holds a document that had been replaced for hardly longer
   than the cache is old: the end of one interval may lie between its answer and
   its write. *)
KeysAged ==
    keys # <<>> => \E v \in Versions : /\ v <= version /\ Published[v] = keys
                                       /\ age <= StaleAfter => gone[v] <= age + 1

TickedRecent == ticked => ServedSince(before, keys)

(* The inductive invariant of the cache. *)
CacheInv ==
    /\ TypeOK
    /\ VersionsOrdered
    /\ AnswersRecent
    /\ KeysAged
    /\ TickedRecent

(* The types of the requests and the users. *)
AuthTypeOK ==
    /\ req \in [Reqs -> [at : {"idle", "find", "upsert", "patch"}, token : Tokens \cup {None}]]
    /\ \A r \in Reqs : req[r].at # "idle" => req[r].token \in Tokens
    /\ users \in [Subs -> UserRow \cup {None}]

(* The row that a PATCH is about to update exists. *)
RowsThere ==
    \A r \in Reqs : req[r].at = "patch" =>
        req[r].token.sub \in Subs /\ users[req[r].token.sub] # None

(* The inductive invariant of the requests. *)
AuthInv ==
    /\ CacheInv
    /\ AuthTypeOK
    /\ RowsThere
    /\ AcceptedWereIssued

-----------------------------------------------------------------------------
(* The cache. *)

FetchState == [at : {"idle", "sent", "got"}, doc : Contents, old : BOOLEAN]

(* The two states of a fetch that has no answer. *)
LEMMA NoAnswer == Idle \in FetchState /\ Sent \in FetchState /\ Idle.at # "got" /\ Sent.at # "got"
  BY DEF Idle, Sent, FetchState, Contents

(* Steps that only move fetches, and give none an answer of another interval. *)
LEMMA FetchStep ==
    ASSUME CacheInv, UNCHANGED <<keys, age, version, gone, atHour, before, ticked>>,
           due' \in BOOLEAN, lazy' \in 0..MaxRequests,
           fetch' \in [Fetchers -> FetchState],
           \A f \in Fetchers : fetch'[f].at = "got" =>
               fetch'[f] = fetch[f] \/ ServedSince(atHour, fetch'[f].doc)
    PROVE  CacheInv'
  <1> USE DEF CacheInv
  <1>1. TypeOK'
    BY DEF TypeOK, FetchState
  <1>2. VersionsOrdered' /\ KeysAged'
    BY DEF VersionsOrdered, KeysAged
  <1>3. AnswersRecent'
    <2>1. before \in Nat /\ atHour \in Nat /\ \A v \in Versions : v \in Nat
      BY JwksAssumption DEF TypeOK
    <2>2. QED
      BY <2>1 DEF AnswersRecent, ServedSince, VersionsOrdered
  <1>4. TickedRecent'
    BY DEF TickedRecent, ServedSince
  <1>5. QED
    BY <1>1, <1>2, <1>3, <1>4

(* The fetch f becomes one without an answer. *)
LEMMA ResetFetch ==
    ASSUME CacheInv, NEW f \in Fetchers, NEW s \in {Idle, Sent}, fetch' = [fetch EXCEPT ![f] = s],
           UNCHANGED <<keys, age, version, gone, atHour, before, ticked>>,
           due' \in BOOLEAN, lazy' \in 0..MaxRequests
    PROVE  CacheInv'
  <1>1. fetch \in [Fetchers -> FetchState] /\ s \in FetchState /\ s.at # "got"
    BY NoAnswer DEF CacheInv, TypeOK, FetchState
  <1>2. fetch' \in [Fetchers -> FetchState]
    BY <1>1
  <1>3. \A g \in Fetchers : fetch'[g].at = "got" => fetch'[g] = fetch[g]
    BY <1>1
  <1>4. QED
    BY <1>2, <1>3, FetchStep

(* A request that finds the cache empty starts a fetch. *)
LEMMA FindKeyStep ==
    ASSUME CacheInv, NEW r \in Reqs, find_key(r) PROVE CacheInv'
  <1>1. lazy' \in 0..MaxRequests /\ due' \in BOOLEAN
    BY JwksAssumption DEF find_key, CacheInv, TypeOK
  <1>2. QED
    BY <1>1, ResetFetch DEF find_key, Fetchers

(* The refresher's ticker starts a fetch. *)
LEMMA SpawnStep ==
    ASSUME CacheInv, spawn_refresher PROVE CacheInv'
  <1>1. lazy' \in 0..MaxRequests /\ due' \in BOOLEAN
    BY DEF spawn_refresher, CacheInv, TypeOK
  <1>2. QED
    BY <1>1, ResetFetch DEF spawn_refresher, Fetchers

(* The issuer answers with the document it serves now. *)
LEMMA AnswerStep ==
    ASSUME CacheInv, NEW f \in Fetchers, Answer(f) PROVE CacheInv'
  <1> DEFINE s == [fetch[f] EXCEPT !.at = "got", !.doc = Published[version]]
  <1>1. fetch \in [Fetchers -> FetchState] /\ version \in Versions /\ atHour \in Versions
    BY DEF CacheInv, TypeOK, FetchState
  <1>2. s \in FetchState
    BY <1>1 DEF FetchState, Contents
  <1>3. ServedSince(atHour, s.doc)
    <2>1. s.doc = Published[version]
      BY <1>1 DEF FetchState
    <2>2. QED
      BY <1>1, <2>1, JwksAssumption DEF ServedSince, CacheInv, VersionsOrdered
  <1> HIDE DEF s
  <1>4. fetch' = [fetch EXCEPT ![f] = s]
    BY DEF Answer, s
  <1>5. fetch' \in [Fetchers -> FetchState]
    BY <1>1, <1>2, <1>4
  <1>6. \A g \in Fetchers : fetch'[g].at = "got" =>
            fetch'[g] = fetch[g] \/ ServedSince(atHour, fetch'[g].doc)
    BY <1>1, <1>3, <1>4
  <1>7. QED
    BY <1>5, <1>6, FetchStep DEF Answer, CacheInv, TypeOK

(* A failed fetch leaves the cache alone. *)
LEMMA FailedStep ==
    ASSUME CacheInv, NEW f \in Fetchers, refresh_failed(f) PROVE CacheInv'
  <1>1. lazy' \in 0..MaxRequests /\ due' \in BOOLEAN
    BY DEF refresh_failed, CacheInv, TypeOK
  <1>2. QED
    BY <1>1, ResetFetch DEF refresh_failed

(* A write stores a document of the running interval or of the one before it, perhaps
   an older one than it replaces. *)
LEMMA RefreshStep ==
    ASSUME CacheInv, NEW f \in Fetchers, refresh(f) PROVE CacheInv'
  <1> USE DEF CacheInv
  <1>0. before \in Nat /\ atHour \in Nat /\ \A v \in Versions : v \in Nat
    BY JwksAssumption DEF TypeOK
  <1>1. PICK v \in Versions : before <= v /\ v <= version /\ Published[v] = fetch[f].doc
    BY <1>0 DEF refresh, AnswersRecent, ServedSince, VersionsOrdered
  <1>2. gone[v] <= 1
    BY <1>1 DEF VersionsOrdered
  <1>3. keys' = Published[v] /\ keys' # <<>> /\ age' = 0
    BY <1>1 DEF refresh
  <1>4. fetch' = [fetch EXCEPT ![f] = Idle] /\ UNCHANGED <<due, version, lazy, gone, atHour, before>>
    BY DEF refresh
  <1>5. fetch \in [Fetchers -> FetchState]
    BY DEF TypeOK, FetchState
  <1>6. /\ fetch' \in [Fetchers -> FetchState] /\ fetch'[f].at # "got"
        /\ \A g \in Fetchers \ {f} : fetch'[g] = fetch[g]
    BY <1>4, <1>5, NoAnswer
  <1>7. TypeOK'
    <2>1. keys' \in Contents /\ age' \in 0..Oldest
      BY <1>3, JwksAssumption DEF Contents, Oldest
    <2>2. ticked' \in BOOLEAN
      BY DEF refresh, TypeOK
    <2>3. QED
      BY <1>3, <1>4, <1>6, <2>1, <2>2 DEF TypeOK, FetchState
  <1>8. VersionsOrdered'
    BY <1>4 DEF VersionsOrdered
  <1>9. AnswersRecent'
    BY <1>4, <1>6 DEF AnswersRecent, ServedSince
  <1>10. KeysAged'
    BY <1>1, <1>2, <1>3, <1>4, JwksAssumption DEF KeysAged
  <1>11. TickedRecent'
    BY <1>1, <1>3, <1>4 DEF TickedRecent, ServedSince
  <1>12. QED
    BY <1>7, <1>8, <1>9, <1>10, <1>11

(* A rotation only lengthens the list of documents. *)
LEMMA RotateStep ==
    ASSUME CacheInv, Rotate PROVE CacheInv'
  <1> USE DEF CacheInv
  <1>1. /\ version' = version + 1 /\ version' \in Versions
        /\ version \in Nat /\ atHour \in Nat /\ before \in Nat
        /\ UNCHANGED <<keys, age, fetch, due, lazy, gone, atHour, before, ticked>>
    BY JwksAssumption DEF Rotate, TypeOK
  <1>2. \A v \in Versions : v <= version => v <= version'
    BY <1>1, JwksAssumption
  <1>3. TypeOK'
    BY <1>1 DEF TypeOK
  <1>4. VersionsOrdered'
    BY <1>1 DEF VersionsOrdered
  <1>5. AnswersRecent'
    BY <1>1, <1>2 DEF AnswersRecent, ServedSince
  <1>6. KeysAged'
    BY <1>1, <1>2 DEF KeysAged
  <1>7. TickedRecent'
    BY <1>1, <1>2 DEF TickedRecent, ServedSince
  <1>8. QED
    BY <1>3, <1>4, <1>5, <1>6, <1>7

(* Older saturates past the limit. *)
LEMMA OlderFacts ==
    ASSUME NEW n \in 0..Oldest
    PROVE  /\ Older(n) \in 0..Oldest
           /\ n <= Older(n) /\ Older(n) <= n + 1
           /\ n <= StaleAfter => Older(n) = n + 1
           /\ n > StaleAfter => Older(n) > StaleAfter
  BY JwksAssumption DEF Older, Oldest

(* When an interval ends the cache and the documents that are gone age together,
   and what has been answered in it becomes an answer of the interval before. *)
LEMMA HourStep ==
    ASSUME CacheInv, Hour PROVE CacheInv'
  <1> USE DEF CacheInv
  <1>1. /\ age' = Older(age) /\ due' = TRUE /\ ticked' = FALSE
        /\ atHour' = version /\ before' = atHour
        /\ gone' = [v \in Versions |-> IF v < version THEN Older(gone[v]) ELSE gone[v]]
        /\ fetch' = [f \in Fetchers |-> [fetch[f] EXCEPT !.old = fetch[f].at # "idle"]]
        /\ UNCHANGED <<keys, version, lazy>>
        /\ \A f \in Fetchers : ~fetch[f].old
    BY DEF Hour
  <1>2. /\ age \in 0..Oldest /\ version \in Nat /\ atHour \in Nat /\ before \in Nat
        /\ StaleAfter \in Nat
        /\ \A v \in Versions : v \in Nat /\ gone[v] \in 0..Oldest
    BY JwksAssumption DEF TypeOK
  <1>3. \A v \in Versions : /\ gone'[v] \in 0..Oldest
                            /\ gone'[v] <= gone[v] + 1
                            /\ v >= version => gone'[v] = gone[v]
    BY <1>1, <1>2, OlderFacts
  <1>4. /\ fetch' \in [Fetchers -> FetchState]
        /\ \A f \in Fetchers : /\ fetch'[f].at = fetch[f].at /\ fetch'[f].doc = fetch[f].doc
                               /\ fetch[f].at = "got" => fetch'[f].old = TRUE
    <2>1. fetch \in [Fetchers -> FetchState]
      BY DEF TypeOK, FetchState
    <2>2. ASSUME NEW f \in Fetchers
          PROVE  /\ fetch'[f] \in FetchState
                 /\ fetch'[f].at = fetch[f].at /\ fetch'[f].doc = fetch[f].doc
                 /\ fetch[f].at = "got" => fetch'[f].old = TRUE
      BY <1>1, <2>1 DEF FetchState
    <2>3. QED
      BY <1>1, <2>2
  <1>5. TypeOK'
    <2>1. age' \in 0..Oldest /\ (keys = <<>> => age' > StaleAfter)
      BY <1>1, <1>2, OlderFacts DEF TypeOK
    <2>2. gone' \in [Versions -> 0..Oldest]
      BY <1>1, <1>3
    <2>3. QED
      BY <1>1, <1>4, <2>1, <2>2 DEF TypeOK, FetchState
  <1>6. VersionsOrdered'
    <2>1. \A v \in Versions : gone[v] \in Nat /\ gone'[v] \in Nat
      BY <1>2, <1>3, JwksAssumption DEF Oldest
    <2>2. \A v \in Versions : version <= v => gone'[v] = 0
      BY <1>2, <1>3 DEF VersionsOrdered
    <2>3. \A v \in Versions : atHour <= v => gone'[v] <= 1
      BY <1>2, <1>3, <2>1 DEF VersionsOrdered
    <2>4. QED
      BY <1>1, <1>2, <2>2, <2>3 DEF VersionsOrdered
  <1>7. AnswersRecent'
    <2>1. SUFFICES ASSUME NEW f \in Fetchers, fetch[f].at = "got"
                   PROVE  \E v \in Versions : atHour <= v /\ v <= version /\ Published[v] = fetch[f].doc
      BY <1>1, <1>4 DEF AnswersRecent, ServedSince
    <2>2. QED
      BY <1>1, <2>1 DEF AnswersRecent, ServedSince
  <1>8. TickedRecent'
    BY <1>1 DEF TickedRecent
  <1>9. KeysAged'
    <2>1. SUFFICES ASSUME keys # <<>>
                   PROVE  \E v \in Versions : /\ v <= version /\ Published[v] = keys
                                              /\ age' <= StaleAfter => gone'[v] <= age' + 1
      BY <1>1 DEF KeysAged
    <2>2. PICK v \in Versions : /\ v <= version /\ Published[v] = keys
                                /\ age <= StaleAfter => gone[v] <= age + 1
      BY <2>1 DEF KeysAged
    <2>3. age' <= StaleAfter => age <= StaleAfter /\ age' = age + 1
      BY <1>1, <1>2, OlderFacts
    <2>4. age' <= StaleAfter => gone'[v] <= age' + 1
      BY <1>2, <1>3, <2>2, <2>3, JwksAssumption DEF Oldest
    <2>5. QED
      BY <2>2, <2>4
  <1>10. QED
    BY <1>5, <1>6, <1>7, <1>8, <1>9

(* The cache starts empty, with the warm-up under way. *)
LEMMA CacheInit == Init => CacheInv
  <1> SUFFICES ASSUME Init PROVE CacheInv
    OBVIOUS
  <1>1. fetch \in [Fetchers -> FetchState] /\ \A f \in Fetchers : fetch[f].at # "got"
    BY NoAnswer DEF Init
  <1>2. TypeOK
    <2>1. keys \in Contents
      BY DEF Init, Contents
    <2>2. age \in 0..Oldest /\ lazy \in 0..MaxRequests /\ age > StaleAfter
      BY JwksAssumption DEF Init, Oldest
    <2>3. gone \in [Versions -> 0..Oldest]
      <3>1. 0 \in 0..Oldest
        BY JwksAssumption DEF Oldest
      <3>2. QED
        BY <3>1 DEF Init
    <2>4. version \in Versions /\ atHour \in Versions /\ before \in Versions /\ due \in BOOLEAN /\ ticked \in BOOLEAN
      BY JwksAssumption DEF Init
    <2>5. QED
      BY <1>1, <2>1, <2>2, <2>3, <2>4 DEF TypeOK, FetchState
  <1>3. VersionsOrdered
    BY DEF Init, VersionsOrdered
  <1>4. AnswersRecent /\ KeysAged /\ TickedRecent
    BY <1>1 DEF Init, AnswersRecent, KeysAged, TickedRecent
  <1>5. QED
    BY <1>2, <1>3, <1>4 DEF CacheInv

(* Nothing changes in the cache. *)
LEMMA CacheStutter == ASSUME CacheInv, UNCHANGED vars PROVE CacheInv'
  <1>1. fetch' \in [Fetchers -> FetchState] /\ due' \in BOOLEAN /\ lazy' \in 0..MaxRequests
    BY DEF vars, CacheInv, TypeOK, FetchState
  <1>2. QED
    BY <1>1, FetchStep DEF vars

(* A step of the refresher, of a fetch, of the issuer or of the clock. *)
LEMMA CacheStepInv == ASSUME CacheInv, CacheStep PROVE CacheInv'
  BY SpawnStep, AnswerStep, RefreshStep, FailedStep, RotateStep, HourStep DEF CacheStep

(* What the invariant says of the keys. *)
LEMMA CacheKeys == CacheInv => ReadyKeysAreRecent /\ PublishedKeysKnown
  <1> SUFFICES ASSUME CacheInv PROVE ReadyKeysAreRecent /\ PublishedKeysKnown
    OBVIOUS
  <1>1. ReadyKeysAreRecent
    <2>1. /\ age \in Nat /\ StaleAfter \in Nat
          /\ \A v \in Versions : gone[v] \in Nat
      BY JwksAssumption DEF CacheInv, TypeOK, Oldest
    <2>2. QED
      BY <2>1 DEF CacheInv, KeysAged, ReadyKeysAreRecent, ready
  <1>2. PublishedKeysKnown
    <2>1. SUFFICES ASSUME ticked, NEW k \in Kids,
                          \A v \in Versions : before <= v /\ v <= version => k \in KidsOf(Published[v])
                   PROVE  known(k)
      BY DEF PublishedKeysKnown
    <2>2. PICK v \in Versions : before <= v /\ v <= version /\ Published[v] = keys
      BY <2>1 DEF CacheInv, TickedRecent, ServedSince
    <2>3. k \in KidsOf(keys)
      BY <2>1, <2>2
    <2>4. QED
      BY <2>3 DEF KidsOf, known, matching
  <1>3. QED
    BY <1>1, <1>2

-----------------------------------------------------------------------------
(* The requests. *)

ReqState == [at : {"idle", "find", "upsert", "patch"}, token : Tokens \cup {None}]

(* A token was accepted rightly. *)
Accepted(t) ==
    \/ \E v \in Versions : v <= version /\ IssuedBy(v, t)
    \/ ~config.production /\ config.test_jwt_secret /\ t.signer = Secret

(* A request that ends, or never started. *)
LEMMA NoReqFacts == NoReq \in ReqState /\ NoReq.at = "idle"
  BY DEF NoReq, ReqState

(* Documents stay published, and the configuration is fixed. *)
LEMMA AcceptedKept ==
    ASSUME CacheInv, CacheInv', version' = version \/ version' = version + 1,
           UNCHANGED config, NEW t, Accepted(t)
    PROVE  Accepted(t)'
  <1>1. version \in Nat /\ \A v \in Versions : v \in Nat
    BY JwksAssumption DEF CacheInv, TypeOK
  <1>2. \A v \in Versions : v <= version => v <= version'
    BY <1>1
  <1>3. QED
    BY <1>2 DEF Accepted, IssuedBy

(* A step that changes no row: one request may move on, to a state it may be in. *)
LEMMA MoveStep ==
    ASSUME AuthInv, CacheInv', version' = version \/ version' = version + 1,
           UNCHANGED <<config, users>>,
           NEW r \in Reqs, NEW q \in ReqState, req' = [req EXCEPT ![r] = q],
           q.at # "idle" => q.token \in Tokens,
           q.at = "patch" => q = req[r],
           q.at = "upsert" => Accepted(q.token)
    PROVE  AuthInv'
  <1> USE DEF AuthInv
  <1>1. req \in [Reqs -> ReqState]
    BY DEF AuthTypeOK, ReqState
  <1>2. /\ req' \in [Reqs -> ReqState] /\ req'[r] = q
        /\ \A p \in Reqs \ {r} : req'[p] = req[p]
    BY <1>1
  <1>3. AuthTypeOK'
    BY <1>2 DEF AuthTypeOK, ReqState
  <1>4. RowsThere'
    BY <1>2 DEF RowsThere
  <1>5. AcceptedWereIssued'
    <2>1. ASSUME NEW p \in Reqs, req'[p].at = "upsert" PROVE Accepted(req'[p].token)
      BY <1>2, <2>1 DEF AcceptedWereIssued, Accepted
    <2>2. ASSUME NEW p \in Reqs, req'[p].at = "upsert" PROVE Accepted(req[p].token)'
      <3>1. Accepted(req'[p].token)
        BY <2>1, <2>2
      <3>2. \A t : Accepted(t) => Accepted(t)'
        BY AcceptedKept
      <3>3. QED
        BY <3>1, <3>2 DEF Accepted, IssuedBy
    <2>3. QED
      BY <2>2 DEF AcceptedWereIssued, Accepted
  <1>6. QED
    BY <1>3, <1>4, <1>5

(* The documents of a cache with keys were published: a token that verifies
   against it was issued. *)
LEMMA VerifiedIssued ==
    ASSUME CacheInv, NEW t, verify_token(t)
    PROVE  \E v \in Versions : v <= version /\ IssuedBy(v, t)
  <1>1. PICK i \in matching(t.kid) :
            decode(t, keys[i].kid, build_validation(default_alg_for_kty(keys[i].kty)))
    BY DEF verify_token
  <1>2. i \in DOMAIN keys
    BY <1>1 DEF matching
  <1>3. t.signer = keys[i].kid /\ t.iss = Issuer /\ t.aud = Audience /\ t.current
    BY <1>1 DEF decode, build_validation
  <1>4. keys # <<>>
    BY <1>2
  <1>5. PICK v \in Versions : v <= version /\ Published[v] = keys
    BY <1>4 DEF CacheInv, KeysAged
  <1>6. t.signer \in KidsOf(keys)
    BY <1>2, <1>3 DEF KidsOf
  <1>7. QED
    BY <1>3, <1>5, <1>6 DEF IssuedBy

(* The extractor up to the reading of the cache: only a test token goes straight
   to the upsert. *)
LEMMA RequestStep ==
    ASSUME AuthInv, NEW r \in Reqs, NEW t \in Tokens, from_request_parts(r, t)
    PROVE  AuthInv'
  <1>1. UNCHANGED <<config, users>>
    BY DEF from_request_parts
  <1>2. CacheInv' /\ UNCHANGED version
    <2>1. CASE UNCHANGED vars
      BY <2>1, CacheStutter DEF AuthInv, vars
    <2>2. CASE find_key(r)
      BY <2>2, FindKeyStep DEF AuthInv, find_key
    <2>3. QED
      BY <2>1, <2>2 DEF from_request_parts
  <1>3. PICK to \in {"find", "upsert"} :
            /\ req' = [req EXCEPT ![r] = [at |-> to, token |-> t]]
            /\ to = "upsert" => test_path(t) /\ verify_test_token(t)
    BY DEF from_request_parts
  <1> DEFINE q == [at |-> to, token |-> t]
  <1>4. q \in ReqState /\ q.at = to /\ q.token = t
    BY DEF ReqState
  <1>5. q.at = "upsert" => Accepted(q.token)
    BY <1>3, <1>4 DEF test_path, verify_test_token, decode, Accepted
  <1> HIDE DEF q
  <1>6. QED
    BY <1>1, <1>2, <1>3, <1>4, <1>5, MoveStep DEF q

(* A token that does not verify ends the request. *)
LEMMA DecodeStep ==
    ASSUME AuthInv, NEW r \in Reqs, decode_token(r)
    PROVE  AuthInv'
  <1>1. UNCHANGED <<config, users, version>> /\ UNCHANGED vars
    BY DEF decode_token, vars
  <1>2. CacheInv'
    BY <1>1, CacheStutter DEF AuthInv
  <1>3. req[r] \in ReqState /\ req[r].at = "find" /\ req[r].token \in Tokens
    BY DEF decode_token, AuthInv, AuthTypeOK, ReqState
  <1>4. CASE req' = [req EXCEPT ![r] = NoReq]
    BY <1>1, <1>2, <1>4, NoReqFacts, MoveStep
  <1>5. CASE verify_token(req[r].token) /\ To(r, "upsert")
    <2> DEFINE q == [req[r] EXCEPT !.at = "upsert"]
    <2>1. q \in ReqState /\ q.at = "upsert" /\ q.token = req[r].token
      BY <1>3 DEF ReqState
    <2>2. Accepted(req[r].token)
      BY <1>5, VerifiedIssued DEF AuthInv, Accepted
    <2>3. req' = [req EXCEPT ![r] = q]
      BY <1>5 DEF To
    <2> HIDE DEF q
    <2>4. QED
      BY <1>1, <1>2, <1>3, <2>1, <2>2, <2>3, MoveStep
  <1>6. QED
    BY <1>4, <1>5 DEF decode_token

(* Dropping a request gives its fetch up. *)
LEMMA DropStep ==
    ASSUME AuthInv, NEW r \in Reqs, Drop(r)
    PROVE  AuthInv'
  <1>1. lazy' \in 0..MaxRequests /\ due' \in BOOLEAN
    BY DEF Drop, AuthInv, CacheInv, TypeOK
  <1>2. CacheInv'
    BY <1>1, ResetFetch DEF Drop, Fetchers, AuthInv
  <1>3. QED
    BY <1>2, NoReqFacts, MoveStep DEF Drop

(* A step of the cache leaves every request where it is. *)
LEMMA CacheAuthStep ==
    ASSUME AuthInv, CacheInv', version' = version \/ version' = version + 1, UNCHANGED authVars
    PROVE  AuthInv'
  <1> USE DEF AuthInv
  <1>1. UNCHANGED <<config, req, users>>
    BY DEF authVars
  <1>2. AuthTypeOK' /\ RowsThere'
    BY <1>1 DEF AuthTypeOK, RowsThere
  <1>3. AcceptedWereIssued'
    <2>1. \A t : Accepted(t) => Accepted(t)'
      BY <1>1, AcceptedKept
    <2>2. QED
      BY <1>1, <2>1 DEF AcceptedWereIssued, Accepted, IssuedBy
  <1>4. QED
    BY <1>2, <1>3

(* The upsert writes the row of the token's user, and the handler may follow. *)
LEMMA UpsertStep ==
    ASSUME AuthInv, NEW r \in Reqs, upsert_user_from_claims(r)
    PROVE  AuthInv'
  <1> DEFINE t == req[r].token
             name == Coalesce(t.name, NameOf(t.sub))
             new == [email |-> t.email, name |-> name]
  <1>1. UNCHANGED vars /\ UNCHANGED <<config, version>>
    BY DEF upsert_user_from_claims, vars
  <1>2. CacheInv'
    BY <1>1, CacheStutter DEF AuthInv
  <1>3. req[r] \in ReqState /\ req[r].at = "upsert" /\ t \in Tokens
    BY DEF upsert_user_from_claims, AuthInv, AuthTypeOK, ReqState
  <1>4. t.sub \in Subs \cup {None} /\ t.name \in Names \cup {None}
    BY <1>3, AuthAssumption
  <1>5. CASE ~(t.sub # None /\ t.email # None)
    <2>1. UNCHANGED users /\ req' = [req EXCEPT ![r] = NoReq]
      BY <1>5 DEF upsert_user_from_claims
    <2>2. QED
      BY <1>1, <1>2, <2>1, NoReqFacts, MoveStep
  <1>6. CASE t.sub # None /\ t.email # None
    <2>1. t.sub \in Subs
      BY <1>4, <1>6
    <2>2. /\ users' = [users EXCEPT ![t.sub] = new]
          /\ To(r, "patch") \/ req' = [req EXCEPT ![r] = NoReq]
      BY <1>6 DEF upsert_user_from_claims
    <2>3. name \in Names \cup {None}
      <3>1. users[t.sub] # None => users[t.sub].name \in Names \cup {None}
        BY <2>1 DEF AuthInv, AuthTypeOK, UserRow
      <3>2. QED
        BY <1>4, <3>1 DEF Coalesce, NameOf
    <2>4. new \in UserRow /\ new # None
      BY <1>3, <1>6, <2>3, AuthAssumption DEF UserRow
    <2> HIDE DEF t, name, new
    <2>5. /\ users' \in [Subs -> UserRow \cup {None}] /\ users'[t.sub] # None
          /\ \A s \in Subs : users[s] # None => users'[s] # None
      BY <2>1, <2>2, <2>4 DEF AuthInv, AuthTypeOK
    <2>6. PICK q \in ReqState : /\ req' = [req EXCEPT ![r] = q]
                                /\ q.at \in {"idle", "patch"}
                                /\ q.at = "patch" => q.token = t
      <3>1. CASE req' = [req EXCEPT ![r] = NoReq]
        BY <3>1, NoReqFacts
      <3>2. CASE To(r, "patch")
        <4> DEFINE q == [req[r] EXCEPT !.at = "patch"]
        <4>1. q \in ReqState /\ q.at = "patch" /\ q.token = t
          BY <1>3 DEF ReqState, t
        <4>2. req' = [req EXCEPT ![r] = q]
          BY <3>2 DEF To
        <4> HIDE DEF q
        <4>3. QED
          BY <4>1, <4>2
      <3>3. QED
        BY <2>2, <3>1, <3>2
    <2>7. /\ req' \in [Reqs -> ReqState] /\ req'[r] = q
          /\ \A p \in Reqs \ {r} : req'[p] = req[p]
      BY <2>6 DEF AuthInv, AuthTypeOK, ReqState
    <2>8. AuthTypeOK'
      BY <1>3, <2>5, <2>6, <2>7 DEF AuthInv, AuthTypeOK, ReqState
    <2>9. RowsThere'
      BY <2>1, <2>5, <2>6, <2>7 DEF AuthInv, RowsThere
    <2>10. AcceptedWereIssued'
      BY <1>1, <2>6, <2>7 DEF AuthInv, AcceptedWereIssued, IssuedBy
    <2>11. QED
      BY <1>2, <2>8, <2>9, <2>10 DEF AuthInv
  <1>7. QED
    BY <1>5, <1>6

(* PATCH /v1/me writes the name of a row that is there. *)
LEMMA PatchStep ==
    ASSUME AuthInv, NEW r \in Reqs, patch_me(r)
    PROVE  AuthInv'
  <1> DEFINE sub == req[r].token.sub
  <1>1. UNCHANGED vars /\ UNCHANGED <<config, version>> /\ req' = [req EXCEPT ![r] = NoReq]
    BY DEF patch_me, vars
  <1>2. CacheInv'
    BY <1>1, CacheStutter DEF AuthInv
  <1>3. sub \in Subs /\ users[sub] # None /\ users[sub] \in UserRow
    BY DEF patch_me, AuthInv, RowsThere, AuthTypeOK
  <1>4. PICK name \in Names \cup {None} : users' = [users EXCEPT ![sub].name = Coalesce(name, @)]
    BY DEF patch_me
  <1> HIDE DEF sub
  <1>5. /\ users'[sub] \in UserRow
        /\ \A s \in Subs \ {sub} : users'[s] = users[s]
        /\ users' \in [Subs -> UserRow \cup {None}]
    BY <1>3, <1>4 DEF AuthInv, AuthTypeOK, UserRow, Coalesce
  <1>6. \A s \in Subs : users[s] # None => users'[s] # None
    BY <1>5, AuthAssumption
  <1>7. /\ req' \in [Reqs -> ReqState] /\ req'[r].at = "idle"
        /\ \A p \in Reqs \ {r} : req'[p] = req[p]
    BY <1>1, NoReqFacts DEF AuthInv, AuthTypeOK, ReqState
  <1>8. AuthTypeOK'
    BY <1>5, <1>7 DEF AuthInv, AuthTypeOK, ReqState
  <1>9. RowsThere'
    BY <1>6, <1>7 DEF AuthInv, RowsThere
  <1>10. AcceptedWereIssued'
    BY <1>1, <1>7 DEF AuthInv, AcceptedWereIssued, IssuedBy
  <1>11. QED
    BY <1>2, <1>8, <1>9, <1>10 DEF AuthInv

-----------------------------------------------------------------------------
(* The server starts without requests and rows. *)
LEMMA AuthInitInv == AuthInit => AuthInv
  <1> SUFFICES ASSUME AuthInit PROVE AuthInv
    OBVIOUS
  <1>1. CacheInv
    BY CacheInit DEF AuthInit
  <1>2. req \in [Reqs -> ReqState] /\ \A r \in Reqs : req[r].at = "idle"
    BY NoReqFacts DEF AuthInit
  <1>3. AuthTypeOK
    BY <1>2 DEF AuthInit, AuthTypeOK, ReqState
  <1>4. RowsThere /\ AcceptedWereIssued
    BY <1>2 DEF AuthInit, RowsThere, AcceptedWereIssued
  <1>5. QED
    BY <1>1, <1>3, <1>4 DEF AuthInv

(* Every step keeps the invariant. *)
LEMMA AuthNextInv == AuthInv /\ [AuthNext]_allVars => AuthInv'
  <1> SUFFICES ASSUME AuthInv, [AuthNext]_allVars PROVE AuthInv'
    OBVIOUS
  <1>1. CASE UNCHANGED allVars
    BY <1>1, CacheStutter, CacheAuthStep DEF allVars, vars, AuthInv
  <1>2. CASE CacheStep /\ UNCHANGED authVars
    <2>1. CacheInv'
      BY <1>2, CacheStepInv DEF AuthInv
    <2>2. version' = version \/ version' = version + 1
      BY <1>2 DEF CacheStep, spawn_refresher, Answer, refresh, refresh_failed, Rotate, Hour
    <2>3. QED
      BY <1>2, <2>1, <2>2, CacheAuthStep
  <1>3. QED
    BY <1>1, <1>2, RequestStep, DecodeStep, UpsertStep, PatchStep, DropStep DEF AuthNext

(* The inductive invariant holds of every reachable state of the server. *)
THEOREM Invariance == AuthSpec => []AuthInv
  BY AuthInitInv, AuthNextInv, PTL DEF AuthSpec

(* The cache holds what is usable of one published document, and an empty cache
   is never fresh. *)
THEOREM CacheTyping == AuthSpec => []TypeOK
  <1>1. AuthInv => TypeOK
    BY DEF AuthInv, CacheInv
  <1>2. QED
    BY Invariance, <1>1, PTL

(* An instance that reports ready uses keys the issuer served at most STALE_AFTER
   and the end of one interval ago, whatever fetches overlapped, failed or wrote late. *)
THEOREM ReadyMeansRecent == AuthSpec => []ReadyKeysAreRecent
  <1>1. AuthInv => ReadyKeysAreRecent
    BY CacheKeys DEF AuthInv
  <1>2. QED
    BY Invariance, <1>1, PTL

(* After the hourly refresh a key published throughout the interval and the one before
   is known, also when a lazy fetch that was sent before the tick writes after it. *)
THEOREM RefreshMakesKnown == AuthSpec => []PublishedKeysKnown
  <1>1. AuthInv => PublishedKeysKnown
    BY CacheKeys DEF AuthInv
  <1>2. QED
    BY Invariance, <1>1, PTL

(* Only a token that the issuer signed with a published key, or outside production
   one of the test secret, reaches the upsert. *)
THEOREM OnlyIssuedAccepted == AuthSpec => []AcceptedWereIssued
  <1>1. AuthInv => AcceptedWereIssued
    BY DEF AuthInv
  <1>2. QED
    BY Invariance, <1>1, PTL
=============================================================================

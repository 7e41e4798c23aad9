------------------------------ MODULE JwksCache ------------------------------
(***************************************************************************)
(* The signing-key cache of src/auth/jwks.rs: warm-up before the port is   *)
(* bound, the hourly refresher, lazy fetches of requests that find the     *)
(* cache empty, and the readiness probe of src/health.rs that reads it.    *)
(*                                                                         *)
(* A fetch is three steps (send, answer of the issuer, write under the     *)
(* lock), so fetches overlap and may write in another order than the       *)
(* issuer answered.  Time advances by REFRESH_INTERVAL.  A fetch may be    *)
(* under way when an interval ends, and write after the refresh that       *)
(* follows; FETCH_TIMEOUT is 10 s, so none is under way for two such ends. *)
(***************************************************************************)
EXTENDS Naturals, Sequences

CONSTANTS
    Kids,         \* key ids
    Documents,    \* Documents[v]: the keys of the issuer's v-th JWKS document, in order
    Versions,     \* 1..n, the documents the issuer publishes one after the other
    Reqs,         \* slots of concurrently running requests
    MaxRequests,  \* bound: requests that find the cache empty
    StaleAfter,   \* STALE_AFTER, in refresh intervals
    NoKid         \* the kid of a token that carries none

(* complete: the parameters that kty requires are there and decode, and alg, if
   any, is known. *)
RawJwk == [kid : Kids, kty : {"RSA", "EC", "oct", "OKP"}, complete : BOOLEAN]

ASSUME JwksAssumption ==
    /\ 1 \in Versions /\ Versions \subseteq Nat \ {0}
    /\ Documents \in [Versions -> Seq(RawJwk)]
    /\ StaleAfter \in Nat /\ MaxRequests \in Nat
    /\ NoKid \notin Kids

(* A key that cannot be turned into a decoding key is skipped. *)
jwk_to_entry(jwk) == jwk.kty \in {"RSA", "EC", "oct"} /\ jwk.complete

Published == [v \in Versions |-> SelectSeq(Documents[v], jwk_to_entry)]
KidsOf(ks) == {ks[i].kid : i \in DOMAIN ks}

(* What the cache may hold: nothing yet, or what is usable of one document. *)
Contents == {<<>>} \cup {Published[v] : v \in Versions}

VARIABLES
    keys,     \* CacheState.keys
    age,      \* ends of intervals since fetched_at, from StaleAfter + 1: stale, or never fetched
    fetch,    \* fetch[f]: the refresh() call of fetcher f; old: sent before the interval began
    due,      \* the refresher's ticker has fired
    version,  \* the document the issuer serves
    lazy,     \* lazy fetches so far (bounded)
    gone,     \* history: gone[v], ends of intervals since document v was replaced
    atHour,   \* history: the version served when the interval began
    before,   \* history: the version served when the interval before it began
    ticked    \* history: the hourly refresh of this interval succeeded

vars == <<keys, age, fetch, due, version, lazy, gone, atHour, before, ticked>>

Fetchers == Reqs \cup {"warm", "refresher"}
Idle == [at |-> "idle", doc |-> <<>>, old |-> FALSE]
Sent == [at |-> "sent", doc |-> <<>>, old |-> FALSE]
Oldest == StaleAfter + 2              \* where the counts of intervals stop
Serving == fetch["warm"].at = "idle"  \* main awaits warm() before it binds the port

TypeOK ==
    /\ keys \in Contents
    /\ age \in 0..Oldest
    /\ fetch \in [Fetchers -> [at : {"idle", "sent", "got"}, doc : Contents, old : BOOLEAN]]
    /\ due \in BOOLEAN /\ ticked \in BOOLEAN
    /\ version \in Versions /\ atHour \in Versions /\ before \in Versions
    /\ lazy \in 0..MaxRequests
    /\ gone \in [Versions -> 0..Oldest]
    /\ keys = <<>> => age > StaleAfter

Init ==
    /\ keys = <<>> /\ age = Oldest
    /\ fetch = [f \in Fetchers |-> IF f = "warm" THEN Sent ELSE Idle]
    /\ due = FALSE /\ ticked = FALSE
    /\ version = 1 /\ atHour = 1 /\ before = 1
    /\ lazy = 0
    /\ gone = [v \in Versions |-> 0]

-----------------------------------------------------------------------------
(* find_key on an empty cache starts a lazy refresh; on any other it only reads. *)
find_key(r) ==
    /\ Serving /\ keys = <<>>
    /\ fetch[r].at = "idle" /\ lazy < MaxRequests
    /\ lazy' = lazy + 1
    /\ fetch' = [fetch EXCEPT ![r] = Sent]
    /\ UNCHANGED <<keys, age, due, version, gone, atHour, before, ticked>>

(* The positions of the entries find_key may answer with for a token's kid, the
   first one counts; none is 401. *)
matching(kid) == {i \in DOMAIN keys : kid = NoKid \/ keys[i].kid = kid}
known(kid) == matching(kid) # {}

(* Faulty variant: only an empty cache is refreshed. *)
spawn_refresher_if_empty ==
    /\ Serving /\ due /\ fetch["refresher"].at = "idle"
    /\ due' = FALSE
    /\ fetch' = [fetch EXCEPT !["refresher"] = IF keys = <<>> THEN Sent ELSE Idle]
    /\ UNCHANGED <<keys, age, version, lazy, gone, atHour, before, ticked>>

spawn_refresher ==
    /\ Serving /\ due /\ fetch["refresher"].at = "idle"
    /\ due' = FALSE
    /\ fetch' = [fetch EXCEPT !["refresher"] = Sent]
    /\ UNCHANGED <<keys, age, version, lazy, gone, atHour, before, ticked>>

Answer(f) ==
    /\ fetch[f].at = "sent"
    /\ fetch' = [fetch EXCEPT ![f] = [@ EXCEPT !.at = "got", !.doc = Published[version]]]
    /\ UNCHANGED <<keys, age, due, version, lazy, gone, atHour, before, ticked>>

(* Faulty variant: the time of the attempt is recorded, not that of the success. *)
refresh_failed_stamps(f) ==
    /\ \/ fetch[f].at = "sent"
       \/ fetch[f].at = "got" /\ fetch[f].doc = <<>>
    /\ fetch' = [fetch EXCEPT ![f] = Idle]
    /\ age' = IF keys = <<>> THEN age ELSE 0
    /\ UNCHANGED <<keys, due, version, lazy, gone, atHour, before, ticked>>

(* Transport error, HTTP error, or no usable key: only last_error is written.  A
   request that is dropped while it waits leaves the cache alone as well. *)
refresh_failed(f) ==
    /\ \/ fetch[f].at = "sent"
       \/ fetch[f].at = "got" /\ fetch[f].doc = <<>>
    /\ fetch' = [fetch EXCEPT ![f] = Idle]
    /\ UNCHANGED <<keys, age, due, version, lazy, gone, atHour, before, ticked>>

(* Faulty variant: a document without usable keys is stored as well. *)
refresh_stores_empty(f) ==
    /\ fetch[f].at = "got"
    /\ keys' = fetch[f].doc /\ age' = 0
    /\ fetch' = [fetch EXCEPT ![f] = Idle]
    /\ ticked' = (ticked \/ f = "refresher")
    /\ UNCHANGED <<due, version, lazy, gone, atHour, before>>

(* Faulty variant: a cache that has keys is left as it is. *)
refresh_once(f) ==
    /\ fetch[f].at = "got" /\ fetch[f].doc # <<>>
    /\ keys' = IF keys = <<>> THEN fetch[f].doc ELSE keys
    /\ age' = 0
    /\ fetch' = [fetch EXCEPT ![f] = Idle]
    /\ ticked' = (ticked \/ f = "refresher")
    /\ UNCHANGED <<due, version, lazy, gone, atHour, before>>

refresh(f) ==
    /\ fetch[f].at = "got" /\ fetch[f].doc # <<>>
    /\ keys' = fetch[f].doc /\ age' = 0
    /\ fetch' = [fetch EXCEPT ![f] = Idle]
    /\ ticked' = (ticked \/ f = "refresher")
    /\ UNCHANGED <<due, version, lazy, gone, atHour, before>>

(* The issuer replaces its document. *)
Rotate ==
    /\ version + 1 \in Versions
    /\ version' = version + 1
    /\ UNCHANGED <<keys, age, fetch, due, lazy, gone, atHour, before, ticked>>

Older(n) == IF n = Oldest THEN n ELSE n + 1

(* An interval ends, whatever fetches were sent in it.  MissedTickBehavior::Delay:
   ticks do not pile up. *)
Hour ==
    /\ Serving /\ ~due /\ fetch["refresher"].at = "idle"
    /\ \A f \in Fetchers : ~fetch[f].old
    /\ age' = Older(age)
    /\ gone' = [v \in Versions |-> IF v < version THEN Older(gone[v]) ELSE gone[v]]
    /\ fetch' = [f \in Fetchers |-> [fetch[f] EXCEPT !.old = fetch[f].at # "idle"]]
    /\ due' = TRUE
    /\ atHour' = version /\ before' = atHour /\ ticked' = FALSE
    /\ UNCHANGED <<keys, version, lazy>>

Next ==
    \/ \E r \in Reqs : find_key(r)
    \/ spawn_refresher
    \/ \E f \in Fetchers : Answer(f) \/ refresh(f) \/ refresh_failed(f)
    \/ Rotate \/ Hour

Spec == Init /\ [][Next]_vars

(* Time passes and the refresher task is polled; every fetch ends (FETCH_TIMEOUT),
   and the refresher's fetches do not fail forever once the issuer has settled. *)
FairSpec ==
    /\ Spec
    /\ WF_vars(Hour) /\ WF_vars(spawn_refresher)
    /\ \A f \in Fetchers : /\ WF_vars(Answer(f) \/ refresh(f) \/ refresh_failed(f))
                           /\ SF_vars(Answer(f)) /\ SF_vars(refresh(f))

-----------------------------------------------------------------------------
(* Properties. *)

(* The jwks part of GET /ready. *)
ready == keys # <<>> /\ age <= StaleAfter

(* "/ready: DB + JWKS health": an instance that reports ready verifies tokens with
   a document that the issuer still served at most STALE_AFTER ago, give or take the
   end of an interval that an answer may cross before it is written. *)
ReadyKeysAreRecent ==
    ready => \E v \in Versions : Published[v] = keys /\ gone[v] <= StaleAfter + 1

(* Once the hourly refresh of an interval has succeeded, a key that has been published
   throughout this interval and the one before it is accepted, whatever a lazy fetch
   that was answered earlier has written over the refreshed keys.  Of this interval
   alone it would not hold: such a fetch may carry an answer from before its beginning. *)
PublishedKeysKnown ==
    ticked => \A k \in Kids :
        (\A v \in Versions : before <= v /\ v <= version => k \in KidsOf(Published[v])) => known(k)

(* "A background task refreshes the cache every hour": the cache ends up with the
   issuer's final document, also after failed refreshes and overtaken writes,
   unless that document has no usable key. *)
EventuallyCurrent == <>[](Published[version] \in {keys, <<>>})
=============================================================================

----------------------------- MODULE MCJwksCache -----------------------------
(* Small instances of Authentication for TLC. *)
EXTENDS Authentication

CONSTANTS k1, k2, alice, n1

Rsa(k) == [kid |-> k, kty |-> "RSA", complete |-> TRUE]
Ec(k)  == [kid |-> k, kty |-> "EC", complete |-> TRUE]
Okp(k) == [kid |-> k, kty |-> "OKP", complete |-> TRUE]
Cut(k) == [kid |-> k, kty |-> "RSA", complete |-> FALSE]

(* A rotation with an overlap, preceded by a document without usable keys. *)
MCDocuments == << <<Rsa(k1), Okp(k2)>>, <<Cut(k1)>>, <<Rsa(k1), Ec(k2)>>, <<Ec(k2)>> >>

Tok(alg, kid, signer, iss, aud, sub, name) ==
    [alg |-> alg, kid |-> kid, signer |-> signer, iss |-> iss, aud |-> aud, current |-> TRUE,
     sub |-> sub, email |-> sub, name |-> name]

(* A token of the last key, one of the key before it with a name and without a kid, one of the
   anonymous role, and a test token. *)
MCTokens == {Tok("ES256", k2, k2, Issuer, Audience, alice, None),
             Tok("RS256", NoKid, k1, Issuer, Audience, alice, n1),
             Tok("ES256", k2, k2, Issuer, "anon", None, None),
             Tok("HS256", NoKid, Secret, "mizan-test", Audience, alice, None)}
=============================================================================

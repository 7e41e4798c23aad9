------------------------ MODULE MCBrokerConnections ------------------------
(* Small instances of BrokerConnections for TLC. *)
EXTENDS BrokerConnections, TLC

(* Request slots, users, authorization ids and nonces are interchangeable: the
   specification never orders them or picks a particular one. *)
Symmetry == Permutations(Reqs) \cup Permutations(Users)
                \cup Permutations(Auths) \cup Permutations(Tokens)
=============================================================================

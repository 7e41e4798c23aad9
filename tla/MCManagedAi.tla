---------------------------- MODULE MCManagedAi ----------------------------
(* Small instances of ManagedAi for TLC. *)
EXTENDS ManagedAi

(* Replies of one and of three credits, next to the rounding boundary. *)
MCReplies == {[prompt |-> 1000, completion |-> 0], [prompt |-> 2, completion |-> 667]}
=============================================================================

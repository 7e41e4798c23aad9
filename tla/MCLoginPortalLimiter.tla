------------------------ MODULE MCLoginPortalLimiter ------------------------
(* One user: the limiter keeps users apart, and callers of one user race. *)
EXTENDS LoginPortalLimiter, TLC

Symmetry == Permutations(Callers)
=============================================================================

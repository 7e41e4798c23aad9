---------------------------- MODULE MCTeamInvites ----------------------------
(* Small instances of TeamInvites for TLC. *)
EXTENDS TeamInvites, TLC

(* Users, addresses, tokens and slots are interchangeable. *)
Symmetry == Permutations(Users) \cup Permutations(Emails)
                \cup Permutations(Tokens) \cup Permutations(Reqs)
=============================================================================

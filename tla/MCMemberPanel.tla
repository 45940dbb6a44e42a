---------------------------- MODULE MCMemberPanel ----------------------------
(* MemberPanel on small sets: requests are interchangeable.                  *)
EXTENDS MemberPanel, TLC

Symmetry == Permutations(Requests)
=============================================================================

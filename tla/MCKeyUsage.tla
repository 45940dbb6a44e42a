----------------------------- MODULE MCKeyUsage -----------------------------
(* KeyUsage on small sets: processes are interchangeable, a system key and    *)
(* another key are not.                                                       *)
EXTENDS KeyUsage, TLC

Symmetry == Permutations(Procs)
=============================================================================

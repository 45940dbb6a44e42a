---------------------------- MODULE MCTaskMonitor ----------------------------
(* TaskMonitor on small sets: tenants, tasks and loads are interchangeable.  *)
EXTENDS TaskMonitor, TLC

Symmetry == Permutations(Tenants) \union Permutations(Tasks)
                                  \union Permutations(Requests)
=============================================================================

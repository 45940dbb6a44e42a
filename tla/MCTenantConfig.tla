--------------------------- MODULE MCTenantConfig ---------------------------
(* TenantConfig on small sets, all of them interchangeable.                  *)
EXTENDS TenantConfig, TLC

Symmetry == Permutations(Names) \union Permutations(Fields)
            \union Permutations(Settings) \union Permutations(Requests)
=============================================================================

------------------------- MODULE MCTenantLifecycle -------------------------
(* TenantLifecycle on small sets: the identities of tenants, handlers and   *)
(* calls are interchangeable.                                               *)
EXTENDS TenantLifecycle, TLC

Symmetry == Permutations(Tenants) \union Permutations(Requests)
                                  \union Permutations(Calls)
=============================================================================

--------------------------- MODULE TenantPromise ---------------------------
(***************************************************************************)
(* What the manager and the data plane together promise about a tenant:    *)
(* its stage only moves from none to ACTIVE to DELETING and between        *)
(* DELETING and DELETED, its data comes into being only for somebody who   *)
(* was let in while it was ACTIVE, and its data goes only with a purge.    *)
(* TenantLifecycle implements this specification.                          *)
(***************************************************************************)
CONSTANT Tenants

VARIABLES
    stage,    \* the stage of each tenant
    data,     \* tenants that have data
    entitled  \* tenants somebody was let in to while they were ACTIVE

Init ==
    /\ stage = [t \in Tenants |-> "none"]
    /\ data = {}
    /\ entitled = {}

Open(t) ==
    /\ stage[t] = "none"
    /\ stage' = [stage EXCEPT ![t] = "ACTIVE"]
    /\ UNCHANGED <<data, entitled>>

\* A delete; that of a DELETED tenant makes it purgeable once more.
Condemn(t) ==
    /\ stage[t] \in {"ACTIVE", "DELETED"}
    /\ stage' = [stage EXCEPT ![t] = "DELETING"]
    /\ UNCHANGED <<data, entitled>>

\* The data goes, unless it was made while the purge was under way.
Purge(t) ==
    /\ stage[t] = "DELETING"
    /\ stage' = [stage EXCEPT ![t] = "DELETED"]
    /\ data' \in {data, data \ {t}}
    /\ UNCHANGED entitled

Enter(t) ==
    /\ stage[t] = "ACTIVE"
    /\ entitled' = entitled \union {t}
    /\ UNCHANGED <<stage, data>>

Leave ==
    /\ entitled' \in SUBSET entitled
    /\ UNCHANGED <<stage, data>>

Provision(t) ==
    /\ t \in entitled
    /\ data' = data \union {t}
    /\ entitled' \in {entitled, entitled \ {t}}
    /\ UNCHANGED stage

Next ==
    \/ \E t \in Tenants :
           Open(t) \/ Condemn(t) \/ Purge(t) \/ Enter(t) \/ Provision(t)
    \/ Leave

Spec == Init /\ [][Next]_<<stage, data, entitled>>

=============================================================================

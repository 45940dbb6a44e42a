----------------------- MODULE TenantLifecycleProofs -----------------------
(***************************************************************************)
(* Proofs about TenantLifecycle, for every set of tenants, of handlers and *)
(* of data-plane calls.  The inductive invariant is the conjunction of the *)
(* type invariant with the two invariants about purge; PurgeKeepsItsCheck  *)
(* is what makes PurgeAccounting inductive, since a purge that commits     *)
(* must find the DELETING it saw when it took the row.                     *)
(***************************************************************************)
EXTENDS TenantLifecycle, TLAPS

\* A row is never removed, so a delete writes to a tenant that exists.
DeletesFindTheirTenant ==
    \A r \in Requests :
        req[r] \in Loaded => status[req[r].tenant] # "none"

LifecycleInv ==
    /\ TypeOK
    /\ PurgeKeepsItsCheck
    /\ PurgeAccounting
    /\ DeletesFindTheirTenant

\* The three kinds of handler record are told apart by their pc.
LEMMA RequestKinds ==
    /\ Idle \notin Loaded /\ Idle \notin Purging /\ Idle \notin Admitted
    /\ \A x \in Loaded : x \notin Purging
  BY SMT DEF Idle, Loaded, Purging, Admitted

\* The initial state has no handler, no call and no count.
LEMMA InitInv == Init => LifecycleInv
<1> SUFFICES ASSUME Init PROVE LifecycleInv
  OBVIOUS
<1>1. TypeOK
  BY DEF Init, TypeOK, Statuses
<1>2. PurgeKeepsItsCheck
  BY RequestKinds DEF Init, PurgeKeepsItsCheck, HoldsRow
<1>3. PurgeAccounting
  BY DEF Init, PurgeAccounting
<1>4. DeletesFindTheirTenant
  BY RequestKinds DEF Init, DeletesFindTheirTenant
<1> QED BY <1>1, <1>2, <1>3, <1>4 DEF LifecycleInv

\* What both deletes do to the row keeps its types.
LEMMA WriteTypes ==
    ASSUME TypeOK, NEW t \in Tenants, NEW seen, WriteDeleting(t, seen)
    PROVE  status' \in [Tenants -> Statuses] /\ entered' \in [Tenants -> Nat]
  BY DEF TypeOK, Statuses, WriteDeleting

\* Each action keeps the shape of every variable.
LEMMA TypeStep == TypeOK /\ [Next]_vars => TypeOK'
<1> SUFFICES ASSUME TypeOK, [Next]_vars PROVE TypeOK'
  OBVIOUS
<1> USE DEF TypeOK, Statuses
<1>1. ASSUME NEW t \in Tenants, CreateTenant(t) PROVE TypeOK'
  BY <1>1 DEF CreateTenant
<1>2. ASSUME NEW r \in Requests, NEW t \in Tenants,
             NEW op \in {"owner", "admin"}, LoadTenant(r, t, op)
      PROVE  TypeOK'
  BY <1>2 DEF LoadTenant, Loaded
<1>3. ASSUME NEW r \in Requests, OwnerDelete(r) PROVE TypeOK'
  <2>1. req[r].tenant \in Tenants
    BY <1>3 DEF OwnerDelete, Loaded
  <2>2. status' \in [Tenants -> Statuses] /\ entered' \in [Tenants -> Nat]
    BY <1>3, <2>1, WriteTypes DEF OwnerDelete
  <2> QED BY <1>3, <2>2 DEF OwnerDelete
<1>4. ASSUME NEW r \in Requests, AdminDelete(r) PROVE TypeOK'
  <2>1. req[r].tenant \in Tenants
    BY <1>4 DEF AdminDelete, Loaded
  <2>2. status' \in [Tenants -> Statuses] /\ entered' \in [Tenants -> Nat]
    <3>1. WriteDeleting(req[r].tenant, req[r].seen)
      BY <1>4 DEF AdminDelete
    <3> QED BY <2>1, <3>1, WriteTypes
  <2>3. audit' \in [Tenants -> [delete : Nat, purge : Nat]]
    BY <1>4, <2>1 DEF AdminDelete
  <2> QED BY <1>4, <2>2, <2>3 DEF AdminDelete
<1>5. ASSUME NEW r \in Requests, NEW t \in Tenants, PurgeLock(r, t)
      PROVE  TypeOK'
  BY <1>5 DEF PurgeLock, Purging
<1>6. ASSUME NEW r \in Requests, PurgeDrop(r) PROVE TypeOK'
  <2>1. [req[r] EXCEPT !.pc = IF req[r].tenant \in schemas
                              THEN "dropped" ELSE "absent"] \in Purging
    BY <1>6 DEF PurgeDrop, Purging
  <2> QED BY <1>6, <2>1 DEF PurgeDrop
<1>7. ASSUME NEW r \in Requests, PurgeCommit(r) PROVE TypeOK'
  <2>1. req[r].tenant \in Tenants
    BY <1>7 DEF PurgeCommit, Purging
  <2>2. audit' \in [Tenants -> [delete : Nat, purge : Nat]]
    BY <1>7, <2>1 DEF PurgeCommit
  <2> QED BY <1>7, <2>1, <2>2 DEF PurgeCommit
<1>8. ASSUME NEW r \in Requests, Rollback(r) PROVE TypeOK'
  BY <1>8 DEF Rollback
<1>9. ASSUME NEW c \in Calls, NEW t \in Tenants, Admit(c, t) PROVE TypeOK'
  BY <1>9 DEF Admit, Admitted
<1>10. ASSUME NEW c \in Calls, Serve(c) PROVE TypeOK'
  BY <1>10 DEF Serve
<1>11. ASSUME NEW c \in Calls, Provision(c) PROVE TypeOK'
  BY <1>11 DEF Provision, Admitted
<1>12. ASSUME NEW c \in Calls, ProvisionFails(c) PROVE TypeOK'
  BY <1>12 DEF ProvisionFails
<1>13. ASSUME DataPlaneRestart PROVE TypeOK'
  BY <1>13 DEF DataPlaneRestart
<1>14. CASE UNCHANGED vars
  BY <1>14 DEF vars
<1> QED BY <1>1, <1>2, <1>3, <1>4, <1>5, <1>6, <1>7, <1>8, <1>9, <1>10,
           <1>11, <1>12, <1>13, <1>14 DEF Next

\* Handlers other than the one that moves keep the rows they hold.
LEMMA OthersHold ==
    ASSUME TypeOK, NEW r \in Requests, NEW new,
           req' = [req EXCEPT ![r] = new]
    PROVE  /\ \A s \in Requests, t \in Tenants :
                  s # r => (HoldsRow(s, t)' <=> HoldsRow(s, t))
           /\ \A t \in Tenants :
                  HoldsRow(r, t)' <=> new \in Purging /\ new.tenant = t
  BY DEF TypeOK, HoldsRow

\* A step that leaves the handlers and the statuses alone keeps every check.
LEMMA PurgeFrame ==
    ASSUME PurgeKeepsItsCheck, UNCHANGED req,
           \A t \in Tenants : status'[t] = status[t] \/ status'[t] = "DELETING"
                                               \/ status[t] = "none"
    PROVE  PurgeKeepsItsCheck'
<1> SUFFICES ASSUME NEW r \in Requests, NEW t \in Tenants, HoldsRow(r, t)'
             PROVE  /\ status'[t] = "DELETING"
                    /\ \A s \in Requests : HoldsRow(s, t)' => s = r
  BY DEF PurgeKeepsItsCheck
<1>1. \A s \in Requests : HoldsRow(s, t)' <=> HoldsRow(s, t)
  BY DEF HoldsRow
<1>2. HoldsRow(r, t)
  BY <1>1
<1>3. status[t] = "DELETING" /\ \A s \in Requests : HoldsRow(s, t) => s = r
  BY <1>2 DEF PurgeKeepsItsCheck
<1> QED BY <1>1, <1>3

\* So does a step whose handler ends up holding no row.
LEMMA PurgeFrameIdle ==
    ASSUME TypeOK, PurgeKeepsItsCheck, NEW r \in Requests, NEW new,
           new \notin Purging, req' = [req EXCEPT ![r] = new],
           \A t \in Tenants : \/ status'[t] = status[t]
                              \/ status'[t] = "DELETING"
                              \/ HoldsRow(r, t)
    PROVE  PurgeKeepsItsCheck'
<1> SUFFICES ASSUME NEW q \in Requests, NEW t \in Tenants, HoldsRow(q, t)'
             PROVE  /\ status'[t] = "DELETING"
                    /\ \A s \in Requests : HoldsRow(s, t)' => s = q
  BY DEF PurgeKeepsItsCheck
<1>1. q # r
  BY OthersHold
<1>2. HoldsRow(q, t)
  BY <1>1, OthersHold
<1>3. status[t] = "DELETING" /\ \A s \in Requests : HoldsRow(s, t) => s = q
  BY <1>2 DEF PurgeKeepsItsCheck
<1>4. ~HoldsRow(r, t)
  BY <1>1, <1>3
<1>5. status'[t] = "DELETING"
  BY <1>3, <1>4
<1>6. \A s \in Requests : HoldsRow(s, t)' => s = q
  BY <1>3, OthersHold
<1> QED BY <1>5, <1>6

\* Each action keeps what a purge in progress relies on.
LEMMA PurgeCheckStep ==
    TypeOK /\ PurgeKeepsItsCheck /\ [Next]_vars => PurgeKeepsItsCheck'
<1> SUFFICES ASSUME TypeOK, PurgeKeepsItsCheck, [Next]_vars
             PROVE  PurgeKeepsItsCheck'
  OBVIOUS
<1>1. ASSUME NEW t \in Tenants, CreateTenant(t) PROVE PurgeKeepsItsCheck'
  <2>1. \A u \in Tenants : status'[u] = status[u] \/ status[u] = "none"
    BY <1>1 DEF CreateTenant, TypeOK
  <2> QED BY <1>1, <2>1, PurgeFrame DEF CreateTenant
<1>2. ASSUME NEW r \in Requests, NEW t \in Tenants,
             NEW op \in {"owner", "admin"}, LoadTenant(r, t, op)
      PROVE  PurgeKeepsItsCheck'
  <2>1. [pc |-> "loaded", op |-> op, tenant |-> t, seen |-> status[t]]
            \notin Purging
    BY DEF Purging
  <2> QED BY <1>2, <2>1, PurgeFrameIdle DEF LoadTenant
<1>3. ASSUME NEW r \in Requests, OwnerDelete(r) \/ AdminDelete(r)
      PROVE  PurgeKeepsItsCheck'
  <2>1. \A t \in Tenants : status'[t] = status[t] \/ status'[t] = "DELETING"
    BY <1>3 DEF OwnerDelete, AdminDelete, WriteDeleting, TypeOK, Loaded
  <2>2. req' = [req EXCEPT ![r] = Idle]
    BY <1>3 DEF OwnerDelete, AdminDelete
  <2> QED BY <2>1, <2>2, RequestKinds, PurgeFrameIdle
<1>4. ASSUME NEW r \in Requests, NEW t \in Tenants, PurgeLock(r, t)
      PROVE  PurgeKeepsItsCheck'
  <2> DEFINE new == [pc |-> "locked", tenant |-> t]
  <2>1. req' = [req EXCEPT ![r] = new] /\ status' = status
    BY <1>4 DEF PurgeLock
  <2>2. new \in Purging /\ new.tenant = t
    BY DEF Purging
  <2>3. /\ \A s \in Requests, u \in Tenants :
               s # r => (HoldsRow(s, u)' <=> HoldsRow(s, u))
        /\ \A u \in Tenants : HoldsRow(r, u)' <=> t = u
    <3> HIDE DEF new
    <3> QED BY <2>1, <2>2, OthersHold
  <2>4. \A s \in Requests : ~HoldsRow(s, t)
    BY <1>4 DEF PurgeLock, RowFree
  <2>5. status[t] = "DELETING"
    BY <1>4 DEF PurgeLock
  <2> QED BY <2>1, <2>3, <2>4, <2>5 DEF PurgeKeepsItsCheck
<1>5. ASSUME NEW r \in Requests, PurgeDrop(r) PROVE PurgeKeepsItsCheck'
  <2>1. \A s \in Requests, t \in Tenants : HoldsRow(s, t)' <=> HoldsRow(s, t)
    BY <1>5 DEF PurgeDrop, HoldsRow, TypeOK, Purging
  <2>2. status' = status
    BY <1>5 DEF PurgeDrop
  <2> QED BY <2>1, <2>2 DEF PurgeKeepsItsCheck
<1>6. ASSUME NEW r \in Requests, PurgeCommit(r) PROVE PurgeKeepsItsCheck'
  <2>1. \A t \in Tenants : status'[t] = status[t] \/ HoldsRow(r, t)
    BY <1>6 DEF PurgeCommit, HoldsRow, TypeOK, Purging
  <2>2. req' = [req EXCEPT ![r] = Idle]
    BY <1>6 DEF PurgeCommit
  <2> QED BY <2>1, <2>2, RequestKinds, PurgeFrameIdle
<1>7. ASSUME NEW r \in Requests, Rollback(r) PROVE PurgeKeepsItsCheck'
  BY <1>7, RequestKinds, PurgeFrameIdle DEF Rollback
<1>8. CASE \/ \E c \in Calls, t \in Tenants : Admit(c, t)
           \/ \E c \in Calls : Serve(c) \/ Provision(c) \/ ProvisionFails(c)
           \/ DataPlaneRestart
           \/ UNCHANGED vars
  <2>1. UNCHANGED <<req, status>>
    BY <1>8 DEF Admit, Serve, Provision, ProvisionFails, DataPlaneRestart, vars
  <2> QED BY <2>1, PurgeFrame
<1> QED BY <1>1, <1>2, <1>3, <1>4, <1>5, <1>6, <1>7, <1>8 DEF Next
\* The one step that consumes a DELETING status consumes exactly one.
LEMMA AccountingStep ==
    LifecycleInv /\ [Next]_vars => PurgeAccounting'
<1> SUFFICES ASSUME LifecycleInv, [Next]_vars,
                    NEW t \in Tenants
             PROVE  entered'[t] = audit'[t].purge
                        + (IF status'[t] = "DELETING" THEN 1 ELSE 0)
  BY DEF PurgeAccounting
<1> USE DEF LifecycleInv
<1>0. entered[t] = audit[t].purge + (IF status[t] = "DELETING" THEN 1 ELSE 0)
  BY DEF PurgeAccounting
<1>a. audit[t].purge \in Nat /\ entered[t] \in Nat
  BY DEF TypeOK
<1>1. ASSUME NEW u \in Tenants, CreateTenant(u)
      PROVE  /\ audit' = audit /\ entered' = entered
             /\ status'[t] = "DELETING" <=> status[t] = "DELETING"
  BY <1>1 DEF CreateTenant, TypeOK
<1>2. ASSUME NEW r \in Requests, OwnerDelete(r) \/ AdminDelete(r)
      PROVE  entered'[t] = audit'[t].purge
                 + (IF status'[t] = "DELETING" THEN 1 ELSE 0)
  <2>1. req[r] \in Loaded /\ req[r].tenant \in Tenants
    BY <1>2 DEF OwnerDelete, AdminDelete, Loaded
  <2>2. audit'[t].purge = audit[t].purge
    BY <1>2, <2>1 DEF OwnerDelete, AdminDelete, TypeOK
  <2>3. CASE req[r].seen = "DELETING"
    <3>1. UNCHANGED <<status, entered>>
      BY <1>2, <2>3 DEF OwnerDelete, AdminDelete, WriteDeleting
    <3> QED BY <3>1, <2>2, <1>0
  <2>4. CASE req[r].seen # "DELETING" /\ req[r].tenant # t
    <3>1. entered'[t] = entered[t] /\ status'[t] = status[t]
      BY <1>2, <2>4 DEF OwnerDelete, AdminDelete, WriteDeleting, TypeOK
    <3> QED BY <3>1, <2>2, <1>0
  <2>5. CASE req[r].seen # "DELETING" /\ req[r].tenant = t
    <3>1. /\ status'[t] = "DELETING"
          /\ entered'[t] = IF status[t] = "DELETING"
                           THEN entered[t] ELSE entered[t] + 1
      BY <1>2, <2>5 DEF OwnerDelete, AdminDelete, WriteDeleting, TypeOK
    <3> QED BY <3>1, <2>2, <1>0, <1>a
  <2> QED BY <2>3, <2>4, <2>5
<1>3. ASSUME NEW r \in Requests, PurgeCommit(r)
      PROVE  entered'[t] = audit'[t].purge
                 + (IF status'[t] = "DELETING" THEN 1 ELSE 0)
  <2>1. req[r] \in Purging /\ req[r].tenant \in Tenants /\ entered' = entered
    BY <1>3 DEF PurgeCommit, Purging
  <2>2. CASE req[r].tenant = t
    <3>1. status[t] = "DELETING"
      BY <2>1, <2>2 DEF PurgeKeepsItsCheck, HoldsRow
    <3>2. audit'[t].purge = audit[t].purge + 1 /\ status'[t] = "DELETED"
      BY <1>3, <2>2 DEF PurgeCommit, TypeOK
    <3> QED BY <3>1, <3>2, <2>1, <1>0, <1>a
  <2>3. CASE req[r].tenant # t
    <3>1. audit'[t].purge = audit[t].purge /\ status'[t] = status[t]
      BY <1>3, <2>1, <2>3 DEF PurgeCommit, TypeOK
    <3> QED BY <3>1, <2>1, <1>0
  <2> QED BY <2>2, <2>3
<1>4. CASE UNCHANGED <<status, audit, entered>>
  BY <1>4, <1>0
<1>5. ([Next]_vars) =>
          \/ \E u \in Tenants : CreateTenant(u)
          \/ \E r \in Requests : OwnerDelete(r) \/ AdminDelete(r)
          \/ \E r \in Requests : PurgeCommit(r)
          \/ UNCHANGED <<status, audit, entered>>
  BY DEF Next, vars, LoadTenant, PurgeLock, PurgeDrop, Rollback, Admit, Serve,
         Provision, ProvisionFails, DataPlaneRestart
<1> QED BY <1>0, <1>1, <1>2, <1>3, <1>4, <1>5

\* The ways a status can change, from which the rest follows.
LEMMA StatusSteps ==
    ASSUME LifecycleInv, [Next]_vars, NEW t \in Tenants
    PROVE  \/ status'[t] = status[t]
           \/ (status[t] = "none" /\ status'[t] = "ACTIVE")
           \/ (status[t] \in {"ACTIVE", "DELETED"} /\ status'[t] = "DELETING")
           \/ (status[t] = "DELETING" /\ status'[t] = "DELETED")
<1> USE DEF LifecycleInv
<1>1. ASSUME NEW u \in Tenants, CreateTenant(u)
      PROVE  \/ status'[t] = status[t]
             \/ (status[t] = "none" /\ status'[t] = "ACTIVE")
  BY <1>1 DEF CreateTenant, TypeOK
<1>2. ASSUME NEW r \in Requests, OwnerDelete(r) \/ AdminDelete(r)
      PROVE  \/ status'[t] = status[t]
             \/ (status[t] \in {"ACTIVE", "DELETED"} /\ status'[t] = "DELETING")
  <2>1. req[r] \in Loaded
    BY <1>2 DEF OwnerDelete, AdminDelete
  <2>2. status'[t] = status[t] \/ (status'[t] = "DELETING" /\ req[r].tenant = t)
    BY <1>2 DEF OwnerDelete, AdminDelete, WriteDeleting, TypeOK
  <2>3. req[r].tenant = t => status[t] # "none"
    BY <2>1 DEF DeletesFindTheirTenant
  <2> QED BY <2>2, <2>3 DEF TypeOK, Statuses
<1>3. ASSUME NEW r \in Requests, PurgeCommit(r)
      PROVE  \/ status'[t] = status[t]
             \/ (status[t] = "DELETING" /\ status'[t] = "DELETED")
  <2>1. CASE HoldsRow(r, t)
    BY <1>3, <2>1 DEF PurgeCommit, TypeOK, PurgeKeepsItsCheck, HoldsRow
  <2>2. CASE ~HoldsRow(r, t)
    BY <1>3, <2>2 DEF PurgeCommit, TypeOK, HoldsRow, Purging
  <2> QED BY <2>1, <2>2
<1>4. \/ \E u \in Tenants : CreateTenant(u)
      \/ \E r \in Requests : OwnerDelete(r) \/ AdminDelete(r)
      \/ \E r \in Requests : PurgeCommit(r)
      \/ UNCHANGED status
  BY DEF Next, vars, LoadTenant, PurgeLock, PurgeDrop, Rollback, Admit, Serve,
         Provision, ProvisionFails, DataPlaneRestart
<1> QED BY <1>1, <1>2, <1>3, <1>4

\* Statuses never go back to "none", and a load needs one that is not.
LEMMA ExistenceStep ==
    LifecycleInv /\ [Next]_vars => DeletesFindTheirTenant'
<1> SUFFICES ASSUME LifecycleInv, [Next]_vars, NEW r \in Requests,
                    req'[r] \in Loaded
             PROVE  status'[req'[r].tenant] # "none"
  BY DEF DeletesFindTheirTenant
<1> DEFINE t == req'[r].tenant
<1>1. t \in Tenants
  BY DEF Loaded
<1>2. status[t] # "none"
  <2>1. CASE req'[r] = req[r]
    BY <2>1 DEF LifecycleInv, DeletesFindTheirTenant
  <2>2. CASE req'[r] # req[r]
    <3> USE DEF LifecycleInv, TypeOK
    <3>1. ~PurgeDrop(r)
      BY RequestKinds DEF PurgeDrop, Purging, Loaded
    <3>2. \A u \in Tenants : ~PurgeLock(r, u)
      BY DEF PurgeLock, Loaded
    <3>3. ~OwnerDelete(r) /\ ~AdminDelete(r) /\ ~PurgeCommit(r) /\ ~Rollback(r)
      BY RequestKinds DEF OwnerDelete, AdminDelete, PurgeCommit, Rollback
    <3>4. \A q \in Requests :
              q # r => /\ ~OwnerDelete(q) /\ ~AdminDelete(q) /\ ~PurgeCommit(q)
                       /\ ~Rollback(q) /\ ~PurgeDrop(q)
                       /\ \A u \in Tenants :
                              /\ ~PurgeLock(q, u)
                              /\ \A op \in {"owner", "admin"} :
                                     ~LoadTenant(q, u, op)
      BY <2>2 DEF OwnerDelete, AdminDelete, PurgeCommit, Rollback, PurgeDrop,
                  PurgeLock, LoadTenant
    <3>5. PICK u \in Tenants, op \in {"owner", "admin"} : LoadTenant(r, u, op)
      BY <2>2, <3>1, <3>2, <3>3, <3>4
         DEF Next, vars, CreateTenant, Admit, Serve, Provision, ProvisionFails,
             DataPlaneRestart
    <3> QED BY <3>5 DEF LoadTenant
  <2> QED BY <2>1, <2>2
<1>3. status'[t] # "none"
  <2> HIDE DEF t
  <2> QED BY <1>1, <1>2, StatusSteps
<1> QED BY <1>3

\* Every reachable state satisfies the inductive invariant.
THEOREM LifecycleSafety == Spec => []LifecycleInv
<1>1. LifecycleInv /\ [Next]_vars => LifecycleInv'
  BY TypeStep, PurgeCheckStep, AccountingStep, ExistenceStep DEF LifecycleInv
<1> QED BY InitInv, <1>1, PTL DEF Spec

\* Tenants, handlers, calls and audit rows keep their types.
THEOREM LifecycleTyped == Spec => []TypeOK
<1>1. LifecycleInv => TypeOK
  BY DEF LifecycleInv
<1> QED BY LifecycleSafety, <1>1, PTL

\* Every purge row of the audit stands for one deletion of its own.
THEOREM PurgesAreAccountedFor == Spec => []PurgeAccounting
<1>1. LifecycleInv => PurgeAccounting
  BY DEF LifecycleInv
<1> QED BY LifecycleSafety, <1>1, PTL

\* The check that purge made under the row lock holds until its commit.
THEOREM PurgeIsSerialised == Spec => []PurgeKeepsItsCheck
<1>1. LifecycleInv => PurgeKeepsItsCheck
  BY DEF LifecycleInv
<1> QED BY LifecycleSafety, <1>1, PTL

----------------------------------------------------------------------------

\* A schema disappears only in the commit of a purge of its own tenant.
LEMMA DropsArePurges ==
    ASSUME TypeOK, [Next]_vars, NEW t \in Tenants, t \in schemas,
           t \notin schemas'
    PROVE  \E r \in Requests : PurgeCommit(r) /\ HoldsRow(r, t)
<1>1. PICK r \in Requests : PurgeCommit(r)
  BY DEF Next, vars, CreateTenant, LoadTenant, OwnerDelete, AdminDelete,
         PurgeLock, PurgeDrop, Rollback, Admit, Serve, Provision,
         ProvisionFails, DataPlaneRestart
<1>2. HoldsRow(r, t)
  BY <1>1 DEF PurgeCommit, HoldsRow, Purging
<1> QED BY <1>1, <1>2

\* No interleaving drops the schema of a tenant that is ACTIVE.
THEOREM LiveDataIsSafe == Spec => LiveDataSafe
<1>1. LifecycleInv /\ [Next]_vars =>
          [\A t \in Tenants : status[t] = "ACTIVE" /\ t \in schemas
                                  => t \in schemas']_vars
  <2> SUFFICES ASSUME LifecycleInv, [Next]_vars, NEW t \in Tenants,
                      status[t] = "ACTIVE", t \in schemas, t \notin schemas'
               PROVE  FALSE
    OBVIOUS
  <2>1. PICK r \in Requests : HoldsRow(r, t)
    BY DropsArePurges DEF LifecycleInv
  <2>2. status[t] = "DELETING"
    BY <2>1 DEF LifecycleInv, PurgeKeepsItsCheck
  <2> QED BY <2>2
<1> QED BY <1>1, LifecycleSafety, PTL DEF Spec, LiveDataSafe

\* No handler brings a deleted tenant back, or deletes it in one stroke.
THEOREM DeletedIsNotRevived == Spec => NeverRevived
<1>1. LifecycleInv /\ [Next]_vars =>
          [\A t \in Tenants :
              /\ status[t] \in {"DELETING", "DELETED"} =>
                     status'[t] \in {"DELETING", "DELETED"}
              /\ status'[t] = "DELETED" =>
                     status[t] \in {"DELETING", "DELETED"}]_vars
  BY StatusSteps
<1> QED BY <1>1, LifecycleSafety, PTL DEF Spec, NeverRevived

\* A call becomes pending only by an admission, which needs an ACTIVE tenant.
LEMMA PendingSteps ==
    ASSUME LifecycleInv, [Next]_vars, NEW t \in Tenants, ~Pending(t), Pending(t)'
    PROVE  status[t] = "ACTIVE" /\ \E c \in Calls : Admit(c, t)
<1>1. PICK c \in Calls : /\ call'[c] = [pc |-> "admitted", tenant |-> t]
                         /\ call[c] # [pc |-> "admitted", tenant |-> t]
  BY DEF Pending
<1>2. call'[c] # Idle
  BY <1>1 DEF Idle
<1>3. PICK d \in Calls, u \in Tenants : Admit(d, u)
  BY <1>1, <1>2
     DEF Next, vars, LifecycleInv, TypeOK, CreateTenant, LoadTenant, OwnerDelete,
         AdminDelete, PurgeLock, PurgeDrop, PurgeCommit, Rollback, Serve,
         Provision, ProvisionFails, DataPlaneRestart
<1>4. u = t
  BY <1>1, <1>3 DEF Admit, LifecycleInv, TypeOK
<1> QED BY <1>3, <1>4 DEF Admit

\* A schema appears only by the provisioning of a pending call.
LEMMA CreationSteps ==
    ASSUME LifecycleInv, [Next]_vars, NEW t \in Tenants,
           t \notin schemas, t \in schemas'
    PROVE  Pending(t)
<1>1. PICK c \in Calls : Provision(c)
  BY DEF Next, vars, CreateTenant, LoadTenant, OwnerDelete, AdminDelete,
         PurgeLock, PurgeDrop, PurgeCommit, Rollback, Admit, Serve,
         ProvisionFails, DataPlaneRestart
<1>2. call[c] \in Admitted /\ call[c].tenant = t
  BY <1>1 DEF Provision
<1>3. call[c] = [pc |-> "admitted", tenant |-> t]
  BY <1>2 DEF Admitted
<1> QED BY <1>3 DEF Pending

\* After a delete, what is not in flight by then stays without effect.
THEOREM StragglersOnly == Spec => OnlyStragglersProvision
<1>1. LifecycleInv /\ [Next]_vars =>
          [\A t \in Tenants :
              status[t] \in {"DELETING", "DELETED"} /\ ~Pending(t)
              => ~Pending(t)' /\ (t \notin schemas => t \notin schemas')]_vars
  <2> SUFFICES ASSUME LifecycleInv, [Next]_vars, NEW t \in Tenants,
                      status[t] \in {"DELETING", "DELETED"}, ~Pending(t)
               PROVE  ~Pending(t)' /\ (t \notin schemas => t \notin schemas')
    OBVIOUS
  <2>1. ~Pending(t)'
    BY PendingSteps
  <2>2. t \notin schemas => t \notin schemas'
    BY CreationSteps
  <2> QED BY <2>1, <2>2
<1> QED BY <1>1, LifecycleSafety, PTL DEF Spec, OnlyStragglersProvision
----------------------------------------------------------------------------

\* One status changes at a time.
LEMMA OneStatus ==
    ASSUME LifecycleInv, [Next]_vars, NEW t \in Tenants, status'[t] # status[t]
    PROVE  /\ status' = [status EXCEPT ![t] = status'[t]]
           /\ UNCHANGED call
           /\ \A u \in Tenants : u # t => (u \in schemas' <=> u \in schemas)
<1> USE DEF LifecycleInv, TypeOK
<1>1. ASSUME NEW u \in Tenants, CreateTenant(u)
      PROVE  /\ u = t
             /\ status' = [status EXCEPT ![t] = status'[t]]
             /\ UNCHANGED <<call, schemas>>
  BY <1>1 DEF CreateTenant
<1>2. ASSUME NEW r \in Requests, OwnerDelete(r) \/ AdminDelete(r)
      PROVE  /\ status' = [status EXCEPT ![t] = status'[t]]
             /\ UNCHANGED <<call, schemas>>
  BY <1>2 DEF OwnerDelete, AdminDelete, WriteDeleting, Loaded
<1>3. ASSUME NEW r \in Requests, PurgeCommit(r)
      PROVE  /\ status' = [status EXCEPT ![t] = status'[t]]
             /\ UNCHANGED call
             /\ schemas' \in {schemas, schemas \ {t}}
  BY <1>3 DEF PurgeCommit, Purging
<1>4. \/ \E u \in Tenants : CreateTenant(u)
      \/ \E r \in Requests : OwnerDelete(r) \/ AdminDelete(r)
      \/ \E r \in Requests : PurgeCommit(r)
  BY DEF Next, vars, LoadTenant, PurgeLock, PurgeDrop, Rollback, Admit, Serve,
         Provision, ProvisionFails, DataPlaneRestart
<1> QED BY <1>1, <1>2, <1>3, <1>4

\* Which tenants have a call in flight depends on the calls alone.
LEMMA EntitledFrame == UNCHANGED call => UNCHANGED EntitledTenants
  BY DEF EntitledTenants, Pending

\* A call that ends, ends an entitlement or leaves it to another call.
LEMMA EntitledShrinks ==
    ASSUME TypeOK, \A c \in Calls : call'[c] = call[c] \/ call'[c] = Idle
    PROVE  EntitledTenants' \subseteq EntitledTenants
<1> SUFFICES ASSUME NEW t \in Tenants, Pending(t)' PROVE Pending(t)
  BY DEF EntitledTenants
<1>1. PICK c \in Calls : call'[c] = [pc |-> "admitted", tenant |-> t]
  BY DEF Pending
<1>2. call[c] = [pc |-> "admitted", tenant |-> t]
  BY <1>1 DEF Idle
<1> QED BY <1>2 DEF Pending

\* One call that ends takes away the entitlement to its own tenant at most.
LEMMA EntitledLoses ==
    ASSUME TypeOK, NEW c \in Calls, call[c] \in Admitted,
           call' = [call EXCEPT ![c] = Idle]
    PROVE  /\ call[c].tenant \in EntitledTenants
           /\ EntitledTenants' \in
                  {EntitledTenants, EntitledTenants \ {call[c].tenant}}
<1> DEFINE t == call[c].tenant
<1>1. call[c] = [pc |-> "admitted", tenant |-> t] /\ t \in Tenants
  BY DEF Admitted
<1>2. t \in EntitledTenants
  BY <1>1 DEF EntitledTenants, Pending
<1>3. EntitledTenants' \subseteq EntitledTenants
  BY EntitledShrinks DEF TypeOK
<1>4. ASSUME NEW u \in EntitledTenants, u # t PROVE u \in EntitledTenants'
  <2>1. PICK d \in Calls : call[d] = [pc |-> "admitted", tenant |-> u]
    BY <1>4 DEF EntitledTenants, Pending
  <2>2. d # c
    BY <1>1, <1>4, <2>1
  <2>3. call'[d] = [pc |-> "admitted", tenant |-> u]
    BY <2>1, <2>2 DEF TypeOK
  <2> QED BY <2>3 DEF EntitledTenants, Pending
<1> QED BY <1>2, <1>3, <1>4

\* An admission adds the tenant it admits to, and no other.
LEMMA EntitledGains ==
    ASSUME TypeOK, NEW c \in Calls, NEW t \in Tenants, Admit(c, t)
    PROVE  EntitledTenants' = EntitledTenants \union {t}
<1>1. ASSUME NEW u \in Tenants, Pending(u)' PROVE u = t \/ Pending(u)
  BY <1>1 DEF Pending, Admit, TypeOK
<1>2. Pending(t)'
  BY DEF Pending, Admit, TypeOK
<1>3. ASSUME NEW u \in Tenants, Pending(u) PROVE Pending(u)'
  <2>1. PICK d \in Calls : call[d] = [pc |-> "admitted", tenant |-> u]
    BY <1>3 DEF Pending
  <2>2. d # c
    BY <2>1 DEF Admit, Idle
  <2> QED BY <2>1, <2>2 DEF Pending, Admit, TypeOK
<1> QED BY <1>1, <1>2, <1>3 DEF EntitledTenants

\* A step that changes no status maps to Enter, Leave, Provision or a stutter.
LEMMA QuietStep ==
    ASSUME LifecycleInv, [Next]_vars, UNCHANGED status
    PROVE  [Promise!Next]_<<status, schemas, EntitledTenants>>
<1> USE DEF Promise!Next
<1>1. ASSUME NEW c \in Calls, NEW t \in Tenants, Admit(c, t)
      PROVE  Promise!Enter(t)
  <2>1. EntitledTenants' = EntitledTenants \union {t}
    BY <1>1, EntitledGains DEF LifecycleInv
  <2> QED BY <1>1, <2>1 DEF Admit, Promise!Enter
<1>2. ASSUME NEW c \in Calls, Serve(c) \/ ProvisionFails(c)
      PROVE  Promise!Leave
  <2>1. \A d \in Calls : call'[d] = call[d] \/ call'[d] = Idle
    BY <1>2 DEF Serve, ProvisionFails, LifecycleInv, TypeOK
  <2>2. EntitledTenants' \subseteq EntitledTenants
    BY <2>1, EntitledShrinks DEF LifecycleInv
  <2> QED BY <1>2, <2>2 DEF Serve, ProvisionFails, Promise!Leave
<1>3. ASSUME NEW c \in Calls, Provision(c)
      PROVE  \E t \in Tenants : Promise!Provision(t)
  <2> DEFINE t == call[c].tenant
  <2>1. t \in Tenants
    BY <1>3 DEF Provision, Admitted
  <2>2. /\ t \in EntitledTenants
        /\ EntitledTenants' \in {EntitledTenants, EntitledTenants \ {t}}
    BY <1>3, EntitledLoses DEF Provision, LifecycleInv
  <2>3. schemas' = schemas \union {t} /\ status' = status
    BY <1>3 DEF Provision
  <2>4. Promise!Provision(t)
    BY <2>2, <2>3 DEF Promise!Provision
  <2> QED BY <2>1, <2>4
<1>4. ASSUME DataPlaneRestart PROVE Promise!Leave
  <2>1. EntitledTenants' \subseteq EntitledTenants
    BY <1>4, EntitledShrinks DEF DataPlaneRestart, LifecycleInv
  <2> QED BY <1>4, <2>1 DEF DataPlaneRestart, Promise!Leave
<1>5. ASSUME NEW r \in Requests, PurgeCommit(r) PROVE FALSE
  <2>1. status[req[r].tenant] = "DELETING" /\ req[r].tenant \in Tenants
    BY <1>5 DEF PurgeCommit, LifecycleInv, PurgeKeepsItsCheck, HoldsRow, Purging
  <2>2. status'[req[r].tenant] = "DELETED"
    BY <1>5, <2>1 DEF PurgeCommit, LifecycleInv, TypeOK
  <2> QED BY <2>1, <2>2
<1>6. \/ \E c \in Calls, t \in Tenants : Admit(c, t)
      \/ \E c \in Calls : Serve(c) \/ ProvisionFails(c)
      \/ \E c \in Calls : Provision(c)
      \/ DataPlaneRestart
      \/ \E r \in Requests : PurgeCommit(r)
      \/ UNCHANGED <<schemas, call>>
  BY DEF Next, vars, CreateTenant, LoadTenant, OwnerDelete, AdminDelete,
         PurgeLock, PurgeDrop, Rollback
<1>7. CASE UNCHANGED <<schemas, call>>
  BY <1>7, EntitledFrame
<1> QED BY <1>1, <1>2, <1>3, <1>4, <1>5, <1>6, <1>7

\* A step that changes a status maps to Open, Condemn or Purge.
LEMMA LoudStep ==
    ASSUME LifecycleInv, [Next]_vars, NEW t \in Tenants, status'[t] # status[t]
    PROVE  Promise!Next
<1> USE DEF Promise!Next
<1>1. /\ status' = [status EXCEPT ![t] = status'[t]]
      /\ UNCHANGED EntitledTenants
      /\ \A u \in Tenants : u # t => (u \in schemas' <=> u \in schemas)
  BY OneStatus, EntitledFrame
<1>2. schemas \subseteq Tenants /\ schemas' \subseteq Tenants
  BY TypeStep DEF LifecycleInv, TypeOK
<1>3. t \in schemas' => t \in schemas
  <2>1. SUFFICES ASSUME t \in schemas', t \notin schemas PROVE FALSE
    OBVIOUS
  <2>2. \E c \in Calls : Provision(c)
    BY <2>1 DEF Next, vars, CreateTenant, LoadTenant, OwnerDelete, AdminDelete,
         PurgeLock, PurgeDrop, PurgeCommit, Rollback, Admit, Serve,
         ProvisionFails, DataPlaneRestart
  <2> QED BY <2>2 DEF Provision
<1>4. schemas' # schemas => status[t] = "DELETING"
  <2>1. SUFFICES ASSUME schemas' # schemas PROVE status[t] = "DELETING"
    OBVIOUS
  <2>2. t \in schemas /\ t \notin schemas'
    BY <1>1, <1>2, <1>3, <2>1
  <2> QED BY <2>2, DropsArePurges DEF LifecycleInv, PurgeKeepsItsCheck
<1>5. schemas' \in {schemas, schemas \ {t}}
  BY <1>1, <1>2, <1>3
<1>6. CASE status[t] = "none" /\ status'[t] = "ACTIVE"
  BY <1>1, <1>4, <1>6 DEF Promise!Open
<1>7. CASE status[t] \in {"ACTIVE", "DELETED"} /\ status'[t] = "DELETING"
  BY <1>1, <1>4, <1>7 DEF Promise!Condemn
<1>8. CASE status[t] = "DELETING" /\ status'[t] = "DELETED"
  BY <1>1, <1>5, <1>8 DEF Promise!Purge
<1> QED BY StatusSteps, <1>6, <1>7, <1>8

\* The handlers and the data plane together implement TenantPromise.
THEOREM LifecycleKeepsPromise == Spec => KeepsPromise
<1>1. Init => Promise!Init
  BY DEF Init, Promise!Init, EntitledTenants, Pending, Idle
<1>2. LifecycleInv /\ [Next]_vars =>
          [Promise!Next]_<<status, schemas, EntitledTenants>>
  <2>1. SUFFICES ASSUME LifecycleInv, [Next]_vars
                 PROVE  [Promise!Next]_<<status, schemas, EntitledTenants>>
    OBVIOUS
  <2>2. CASE \E t \in Tenants : status'[t] # status[t]
    BY <2>1, <2>2, LoudStep
  <2>3. CASE \A t \in Tenants : status'[t] = status[t]
    <3>1. status' = status
      BY <2>1, <2>3, TypeStep DEF LifecycleInv, TypeOK
    <3> QED BY <2>1, <3>1, QuietStep
  <2> QED BY <2>2, <2>3
<1> QED BY <1>1, <1>2, LifecycleSafety, PTL
        DEF Spec, KeepsPromise, Promise!Spec

=============================================================================

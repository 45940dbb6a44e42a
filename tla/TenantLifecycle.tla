-------------------------- MODULE TenantLifecycle --------------------------
(***************************************************************************)
(* The life of a tenant, as three groups of code see it:                   *)
(*                                                                         *)
(*   - the manager's HTTP handlers, each with a session and a READ         *)
(*     COMMITTED transaction of its own: create, delete by an owner,       *)
(*     delete by an administrator, purge by an administrator;              *)
(*   - the rows and schemas in PostgreSQL that all of them share;          *)
(*   - the extension inside the data plane, which admits a call while the  *)
(*     tenant is ACTIVE and provisions the tenant's schema on first use.   *)
(*                                                                         *)
(* A handler that reads a row and writes it later is two steps here,       *)
(* since any number of other handlers may commit in between.  Who the      *)
(* caller is (an owner, an administrator, the holder of a key) is left     *)
(* open: every tenant may have such a caller.                              *)
(***************************************************************************)
EXTENDS Naturals, FiniteSets

CONSTANTS
    Tenants,    \* rows of manager.tenants, those not yet created included
    Requests,   \* handler executions in the manager that may overlap
    Calls,      \* authenticate() executions in the data plane that may overlap
    MaxRows     \* bound: audit rows of one kind about one tenant

ASSUME MaxRowsAssumption == MaxRows \in Nat

VARIABLES
    status,      \* tenants.status, "none" before the row exists
    schemas,     \* tenants whose PostgreSQL schema exists
    audit,       \* audit_outbox rows about each tenant, by action
    req,         \* the handlers in progress
    call,        \* the authenticate() calls in progress
    initialized, \* _initialized_schemas of the data-plane process
    entered      \* history: how often the tenant's status became DELETING

vars == <<status, schemas, audit, req, call, initialized, entered>>

Statuses == {"none", "ACTIVE", "DELETING", "DELETED"}

Idle == [pc |-> "idle"]

\* A delete holds the status it loaded; a purge past its check holds the row.
Loaded == [pc : {"loaded"}, op : {"owner", "admin"}, tenant : Tenants,
           seen : Statuses \ {"none"}]
Purging == [pc : {"locked", "dropped", "absent"}, tenant : Tenants]
Admitted == [pc : {"admitted"}, tenant : Tenants]

HoldsRow(r, t) == req[r] \in Purging /\ req[r].tenant = t
\* Slip: no FOR UPDATE, so that nobody waits for a purge.
NoRowLock(t) == t \in Tenants

RowFree(t) == \A r \in Requests : ~HoldsRow(r, t)

\* An uncommitted DROP SCHEMA keeps every other session out of the schema.
DropPending(t) ==
    \E r \in Requests : HoldsRow(r, t) /\ req[r].pc = "dropped"

Pending(t) == \E c \in Calls : call[c] = [pc |-> "admitted", tenant |-> t]

----------------------------------------------------------------------------

Init ==
    /\ status = [t \in Tenants |-> "none"]
    /\ schemas = {}
    /\ audit = [t \in Tenants |-> [delete |-> 0, purge |-> 0]]
    /\ req = [r \in Requests |-> Idle]
    /\ call = [c \in Calls |-> Idle]
    /\ initialized = {}
    /\ entered = [t \in Tenants |-> 0]

\* POST /tenants: the row is inserted ACTIVE and no schema is made.  The owner's
\* membership and the system key are in the same commit.
CreateTenant(t) ==
    /\ status[t] = "none"
    /\ status' = [status EXCEPT ![t] = "ACTIVE"]
    /\ UNCHANGED <<schemas, audit, req, call, initialized, entered>>

\* Slip: a delete without its 404.
LoadAnyTenant(r, t, op) ==
    /\ req[r] = Idle
    /\ req' = [req EXCEPT ![r] = [pc |-> "loaded", op |-> op, tenant |-> t,
                                  seen |-> status[t]]]
    /\ UNCHANGED <<status, schemas, audit, call, initialized, entered>>

\* The first half of both deletes: the row is loaded, with no lock and with no
\* condition on its status.
LoadTenant(r, t, op) ==
    /\ req[r] = Idle
    /\ status[t] # "none"
    /\ req' = [req EXCEPT ![r] = [pc |-> "loaded", op |-> op, tenant |-> t,
                                  seen |-> status[t]]]
    /\ UNCHANGED <<status, schemas, audit, call, initialized, entered>>

\* tenant.status = DELETING, flushed: the ORM compares with the status it
\* loaded and emits an UPDATE only for a change; the UPDATE waits for the row.
WriteDeleting(t, seen) ==
    IF seen = "DELETING"
    THEN UNCHANGED <<status, entered>>
    ELSE /\ RowFree(t)
         /\ status' = [status EXCEPT ![t] = "DELETING"]
         /\ entered' = [entered EXCEPT ![t] =
                            IF status[t] = "DELETING" THEN @ ELSE @ + 1]

\* DELETE /tenants/{id}, second half.  It writes no audit row.
OwnerDelete(r) ==
    /\ req[r] \in Loaded
    /\ req[r].op = "owner"
    /\ entered[req[r].tenant] < MaxRows
    /\ WriteDeleting(req[r].tenant, req[r].seen)
    /\ req' = [req EXCEPT ![r] = Idle]
    /\ UNCHANGED <<schemas, audit, call, initialized>>

\* DELETE /admin/api/tenants/{id}, second half: an audit row in the same commit.
AdminDelete(r) ==
    /\ req[r] \in Loaded
    /\ req[r].op = "admin"
    /\ entered[req[r].tenant] < MaxRows
    /\ audit[req[r].tenant].delete < MaxRows
    /\ WriteDeleting(req[r].tenant, req[r].seen)
    /\ audit' = [audit EXCEPT ![req[r].tenant].delete = @ + 1]
    /\ req' = [req EXCEPT ![r] = Idle]
    /\ UNCHANGED <<schemas, call, initialized>>

\* Slip: a purge without its 409.
PurgeAnyTenant(r, t) ==
    /\ req[r] = Idle
    /\ RowFree(t)
    /\ status[t] # "none"
    /\ req' = [req EXCEPT ![r] = [pc |-> "locked", tenant |-> t]]
    /\ UNCHANGED <<status, schemas, audit, call, initialized, entered>>

\* POST /admin/api/tenants/{id}/purge: SELECT ... FOR UPDATE waits for the row
\* and reads the last committed status; any other status than DELETING is a 409.
PurgeLock(r, t) ==
    /\ req[r] = Idle
    /\ RowFree(t)
    /\ status[t] = "DELETING"
    /\ req' = [req EXCEPT ![r] = [pc |-> "locked", tenant |-> t]]
    /\ UNCHANGED <<status, schemas, audit, call, initialized, entered>>

\* The look in information_schema and, if the schema is there, its DROP.
PurgeDrop(r) ==
    /\ req[r] \in Purging
    /\ req[r].pc = "locked"
    /\ req' = [req EXCEPT ![r].pc =
                   IF req[r].tenant \in schemas THEN "dropped" ELSE "absent"]
    /\ UNCHANGED <<status, schemas, audit, call, initialized, entered>>

\* Status, DROP and audit row become visible together.
PurgeCommit(r) ==
    /\ req[r] \in Purging
    /\ req[r].pc \in {"dropped", "absent"}
    /\ status' = [status EXCEPT ![req[r].tenant] = "DELETED"]
    /\ schemas' = IF req[r].pc = "dropped"
                  THEN schemas \ {req[r].tenant} ELSE schemas
    /\ audit' = [audit EXCEPT ![req[r].tenant].purge = @ + 1]
    /\ req' = [req EXCEPT ![r] = Idle]
    /\ UNCHANGED <<call, initialized, entered>>

\* A handler that fails, or whose process dies, rolls back and frees the row.
Rollback(r) ==
    /\ req[r] # Idle
    /\ req' = [req EXCEPT ![r] = Idle]
    /\ UNCHANGED <<status, schemas, audit, call, initialized, entered>>

----------------------------------------------------------------------------

\* Slip: authenticate() without its filter on ACTIVE.
AdmitAny(c, t) ==
    /\ call[c] = Idle
    /\ status[t] # "none"
    /\ call' = [call EXCEPT ![c] = [pc |-> "admitted", tenant |-> t]]
    /\ UNCHANGED <<status, schemas, audit, req, initialized, entered>>

\* authenticate(): the key's tenant is looked up, filtered on ACTIVE, and the
\* connection is given back before anything is done with the answer.
Admit(c, t) ==
    /\ call[c] = Idle
    /\ status[t] = "ACTIVE"
    /\ call' = [call EXCEPT ![c] = [pc |-> "admitted", tenant |-> t]]
    /\ UNCHANGED <<status, schemas, audit, req, initialized, entered>>

\* The schema was provisioned by this process before: nothing else to do.
Serve(c) ==
    /\ call[c] \in Admitted
    /\ call[c].tenant \in initialized
    /\ call' = [call EXCEPT ![c] = Idle]
    /\ UNCHANGED <<status, schemas, audit, req, initialized, entered>>

\* First use: run_migration makes the schema, whatever became of the tenant.
Provision(c) ==
    /\ call[c] \in Admitted
    /\ call[c].tenant \notin initialized
    /\ ~DropPending(call[c].tenant)
    /\ schemas' = schemas \union {call[c].tenant}
    /\ initialized' = initialized \union {call[c].tenant}
    /\ call' = [call EXCEPT ![c] = Idle]
    /\ UNCHANGED <<status, audit, req, entered>>

\* run_migration raises, or the client of the data plane goes away.
ProvisionFails(c) ==
    /\ call[c] \in Admitted
    /\ call[c].tenant \notin initialized
    /\ call' = [call EXCEPT ![c] = Idle]
    /\ UNCHANGED <<status, schemas, audit, req, initialized, entered>>

\* The data-plane process restarts: its calls and its memory are gone.
DataPlaneRestart ==
    /\ initialized' = {}
    /\ call' = [c \in Calls |-> Idle]
    /\ UNCHANGED <<status, schemas, audit, req, entered>>

Next ==
    \/ \E t \in Tenants : CreateTenant(t)
    \/ \E r \in Requests, t \in Tenants, op \in {"owner", "admin"} :
           LoadTenant(r, t, op)
    \/ \E r \in Requests : OwnerDelete(r)
    \/ \E r \in Requests : AdminDelete(r)
    \/ \E r \in Requests, t \in Tenants : PurgeLock(r, t)
    \/ \E r \in Requests : PurgeDrop(r)
    \/ \E r \in Requests : PurgeCommit(r)
    \/ \E r \in Requests : Rollback(r)
    \/ \E c \in Calls, t \in Tenants : Admit(c, t)
    \/ \E c \in Calls : Serve(c)
    \/ \E c \in Calls : Provision(c)
    \/ \E c \in Calls : ProvisionFails(c)
    \/ DataPlaneRestart

Spec == Init /\ [][Next]_vars

----------------------------------------------------------------------------

\* Every variable keeps the shape its part of the code gives it.
TypeOK ==
    /\ status \in [Tenants -> Statuses]
    /\ schemas \subseteq Tenants
    /\ audit \in [Tenants -> [delete : Nat, purge : Nat]]
    /\ req \in [Requests -> {Idle} \union Loaded \union Purging]
    /\ call \in [Calls -> {Idle} \union Admitted]
    /\ initialized \subseteq Tenants
    /\ entered \in [Tenants -> Nat]

\* What purge checked once it had the row (status DELETING, and no second
\* purge of the same tenant) still holds at every later step up to its commit.
PurgeKeepsItsCheck ==
    \A r \in Requests, t \in Tenants :
        HoldsRow(r, t) =>
            /\ status[t] = "DELETING"
            /\ \A s \in Requests : HoldsRow(s, t) => s = r

\* Purge is exactly-once: each time a tenant became DELETING accounts for one
\* purge row in the audit, except the time that is still waiting for its purge.
PurgeAccounting ==
    \A t \in Tenants :
        entered[t] = audit[t].purge + (IF status[t] = "DELETING" THEN 1 ELSE 0)

\* A live tenant's schema is never dropped: only a purge drops it, and no
\* interleaving of deletes, purges and first uses lets a purge meet an ACTIVE row.
LiveDataSafe ==
    [][\A t \in Tenants :
           status[t] = "ACTIVE" /\ t \in schemas => t \in schemas']_vars

\* A deleted tenant is not brought back, and none becomes DELETED unless it was
\* DELETING; the step from DELETED to DELETING is all the code leaves open.
NeverRevived ==
    [][\A t \in Tenants :
           /\ status[t] \in {"DELETING", "DELETED"} =>
                  status'[t] \in {"DELETING", "DELETED"}
           /\ status'[t] = "DELETED" => status[t] \in {"DELETING", "DELETED"}]_vars

\* Once a tenant is no longer ACTIVE and its last admitted call is over, no call
\* is admitted to it again and its schema, if it has none, never comes back:
\* whatever outlives a delete is due to calls that were in flight at the time.
OnlyStragglersProvision ==
    [][\A t \in Tenants :
           status[t] \in {"DELETING", "DELETED"} /\ ~Pending(t)
           => ~Pending(t)' /\ (t \notin schemas => t \notin schemas')]_vars

\* The tenants somebody was let in to, for the promise below.
EntitledTenants == {t \in Tenants : Pending(t)}

Promise == INSTANCE TenantPromise
               WITH stage <- status, data <- schemas, entitled <- EntitledTenants

\* Every step of the handlers and of the data plane is a step of the promise.
KeepsPromise == Promise!Spec

=============================================================================

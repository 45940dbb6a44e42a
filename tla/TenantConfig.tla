---------------------------- MODULE TenantConfig ----------------------------
(***************************************************************************)
(* PATCH /tenants/{id}: the name and the configuration of one tenant.  The *)
(* handler loads the row, changes the object in memory, and commits; the   *)
(* ORM then writes the columns whose value differs from the one it loaded. *)
(* A configuration that has entries is changed in place, so the ORM        *)
(* compares the object with itself and writes nothing; only for a NULL or  *)
(* an empty one does "config or {}" make a new object.                     *)
(***************************************************************************)
EXTENDS Naturals, FiniteSets

CONSTANTS
    Names,    \* names of the tenant
    Fields,   \* the fields of a configuration: llm_provider, llm_model, ...
    Settings, \* the values of a field
    Requests, \* PATCH handlers that may overlap
    None      \* no name in a request; SQL NULL in the column

VARIABLES
    name,   \* tenants.name
    config, \* tenants.config
    req,    \* the handlers in progress
    older   \* history: for each field the handlers that have loaded the row and
            \* not committed, and loaded it before that entry last changed

vars == <<name, config, req, older>>

\* The fields a configuration or a patch has, with their values.
Configs == UNION {[fields -> Settings] : fields \in SUBSET Fields}
Empty == [f \in {} |-> f]

ASSUME NoneAssumption == None \notin Names /\ None \notin Configs

\* NULL and {} are not the same value, although both read as false.
Falsy(c) == c = None \/ c = Empty

Idle == [pc |-> "idle"]
Handlers == [pc : {"loaded", "done"}, newName : Names \union {None},
             patch : Configs, seenName : Names, seenConfig : Configs \union {None}]

Init ==
    /\ name \in Names
    /\ config = None
    /\ req = [r \in Requests |-> Idle]
    /\ older = [f \in Fields |-> {}]

\* The entry a configuration has for a field, if it has one.
Entry(c, f) == IF c # None /\ f \in DOMAIN c THEN {c[f]} ELSE {}

Waiting(r) == req[r] # Idle /\ req[r].pc = "loaded"

\* The last conjunct of every action: whose copy of which entry is out of date.
NoteOlder ==
    older' = [f \in Fields |->
                 {r \in Requests :
                     /\ Waiting(r)'
                     /\ r \in older[f] \/ Entry(config', f) # Entry(config, f)}]

\* require_membership loads the row; the request was parsed before.
Load(r, newName, patch) ==
    /\ req[r] = Idle
    /\ req' = [req EXCEPT ![r] = [pc |-> "loaded", newName |-> newName,
                                  patch |-> patch, seenName |-> name,
                                  seenConfig |-> config]]
    /\ UNCHANGED <<name, config>>
    /\ NoteOlder

\* Slip: an UPDATE of every column, with the values that were loaded.
WritesLoadedName(r) ==
    IF req[r].newName = None THEN req[r].seenName ELSE req[r].newName

\* Slip: the name is set although the request has none.
SetsAnyName(r) ==
    IF req[r].newName = req[r].seenName THEN name ELSE req[r].newName

\* Slip: the patch replaces the configuration instead of updating it.
ReplacesConfig(r) ==
    IF req[r].patch # req[r].seenConfig THEN req[r].patch ELSE config

\* What the UPDATE sets; a column without a change is left alone.
NewName(r) ==
    IF req[r].newName \in {None, req[r].seenName} THEN name ELSE req[r].newName

NewConfig(r) ==
    IF Falsy(req[r].seenConfig) /\ req[r].patch # req[r].seenConfig
    THEN req[r].patch ELSE config

UpdateTenantConfig(r) ==
    /\ Waiting(r)
    /\ name' = NewName(r)
    /\ config' = NewConfig(r)
    /\ req' = [req EXCEPT ![r].pc = "done"]
    /\ NoteOlder

\* The answer, with the row as it is by then; or an error: no such member, a
\* name that is too long, a process that dies.
Answer(r) ==
    /\ req[r] # Idle
    /\ req' = [req EXCEPT ![r] = Idle]
    /\ UNCHANGED <<name, config>>
    /\ NoteOlder

Next ==
    \/ \E r \in Requests, newName \in Names \union {None}, patch \in Configs :
           Load(r, newName, patch)
    \/ \E r \in Requests : UpdateTenantConfig(r)
    \/ \E r \in Requests : Answer(r)

Spec == Init /\ [][Next]_vars

----------------------------------------------------------------------------

\* Every variable keeps its shape.
TypeOK ==
    /\ name \in Names
    /\ config \in Configs \union {None}
    /\ req \in [Requests -> {Idle} \union Handlers]
    /\ older \in [Fields -> SUBSET Requests]

\* The step is the commit of r.
Committing(r) == Waiting(r) /\ req'[r] # Idle /\ req'[r].pc = "done"

\* A patch of the configuration never puts an old name back, whatever was
\* renamed since it loaded the row: a name comes only from a request for it.
ConfigPatchKeepsName ==
    [][name' # name =>
           \E r \in Requests : Committing(r) /\ req[r].newName = name']_vars

\* What one owner has set is lost only to a request for that field or to a lost
\* update: a patch of other fields takes an entry away only if it had loaded the
\* row before the entry got there, never after having seen it.
EntriesOutliveOthers ==
    [][\A f \in Fields :
           Entry(config, f) # {} /\ Entry(config', f) # Entry(config, f) =>
               \E r \in Requests :
                   Committing(r) /\ (f \in DOMAIN req[r].patch \/ r \in older[f])]_vars

\* The design of the rename: with a name and a field in one PATCH both are
\* updated.  The docstring: the patch is merged into the configuration.
PatchTakesEffect ==
    [][\A r \in Requests :
           Committing(r) =>
               \A f \in DOMAIN req[r].patch :
                   f \in DOMAIN config' /\ config'[f] = req[r].patch[f]]_vars

=============================================================================

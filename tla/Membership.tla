----------------------------- MODULE Membership -----------------------------
(***************************************************************************)
(* The members of one tenant, as the handlers of /tenants/{id}/members     *)
(* change them.  Each handler checks that its caller is an owner, asks the *)
(* platform for a user or the database for a row, and only then writes;    *)
(* no row is locked in between, so other handlers commit at any point.     *)
(***************************************************************************)
EXTENDS Naturals, FiniteSets

CONSTANTS
    Users,   \* platform users
    Requests \* handler executions that may overlap

VARIABLES
    role, \* tenant_members.role of each user, "none" without a row
    req,  \* the handlers in progress
    lost  \* history: those whose caller has been an owner since they were
          \* let in and has lost that role

vars == <<role, req, lost>>

MemberRole == {"owner", "member"}
Roles == MemberRole \union {"none"}

Idle == [pc |-> "idle"]

\* A handler past require_owner, and one that has also made its SELECT; an
\* update remembers the role it loaded, since the ORM compares with it.
Checked == [pc : {"checked"}, op : {"add", "remove", "update"}, by : Users,
            target : Users, new : Roles]
Loaded == [pc : {"loaded"}, op : {"remove", "update"}, by : Users,
           target : Users, new : Roles, seen : MemberRole]
          \union
          [pc : {"loaded"}, op : {"add"}, by : Users, target : Users,
           new : Roles, seen : {"none"}]

Owners == {u \in Users : role[u] = "owner"}

\* The last conjunct of every action: who has lost the owner's role meanwhile.
NoteLosses ==
    lost' = {r \in Requests :
                /\ req'[r] # Idle
                /\ \/ r \in lost
                   \/ role[req'[r].by] = "owner" /\ role'[req'[r].by] # "owner"}

\* create_tenant makes its caller the only owner.
Init ==
    /\ \E creator \in Users :
           role = [u \in Users |-> IF u = creator THEN "owner" ELSE "none"]
    /\ req = [r \in Requests |-> Idle]
    /\ lost = {}

\* The roles a request may ask for: a removal asks for none.
NewRoles(op) == IF op = "remove" THEN {"none"} ELSE MemberRole

\* Slip: require_membership without require_owner=True.
AnyMember(u) == role[u] # "none"

\* require_owner; the handlers of the others answer 403 or 404 and end.
MayManage(u) == role[u] = "owner"

RequireOwner(r, op, by, target, new) ==
    /\ req[r] = Idle
    /\ MayManage(by)
    /\ req' = [req EXCEPT ![r] = [pc |-> "checked", op |-> op, by |-> by,
                                  target |-> target, new |-> new]]
    /\ UNCHANGED role
    /\ NoteLosses

\* Slip: the 404 of a removal or an update is forgotten.
GoesOnWithoutRow(op, seen) == op = "add" => seen = "none"

\* The SELECT of the target's row.  An add goes on without a row (else 409), a
\* removal or an update with one (else 404).
GoesOn(op, seen) == (op = "add") <=> (seen = "none")

Load(r) ==
    /\ req[r] \in Checked
    /\ LET seen == role[req[r].target] IN
       req' = [req EXCEPT ![r] =
                   IF GoesOn(req[r].op, seen)
                   THEN [pc |-> "loaded", op |-> req[r].op, by |-> req[r].by,
                         target |-> req[r].target, new |-> req[r].new,
                         seen |-> seen]
                   ELSE Idle]
    /\ UNCHANGED role
    /\ NoteLosses

\* Slip: an upsert, or a table without its primary key.
UpsertMember(r) ==
    /\ req[r] \in Loaded
    /\ req[r].op = "add"
    /\ role' = [role EXCEPT ![req[r].target] = req[r].new]
    /\ req' = [req EXCEPT ![r] = Idle]
    /\ NoteLosses

\* INSERT: the primary key turns the second of two adds into an error.
AddMember(r) ==
    /\ req[r] \in Loaded
    /\ req[r].op = "add"
    /\ role' = IF role[req[r].target] = "none"
               THEN [role EXCEPT ![req[r].target] = req[r].new] ELSE role
    /\ req' = [req EXCEPT ![r] = Idle]
    /\ NoteLosses

\* DELETE by primary key: a row that is gone already only makes a warning.
RemoveMember(r) ==
    /\ req[r] \in Loaded
    /\ req[r].op = "remove"
    /\ role' = [role EXCEPT ![req[r].target] = "none"]
    /\ req' = [req EXCEPT ![r] = Idle]
    /\ NoteLosses

\* Slip: the caller's own row is updated.
UpdateCallerRole(r) ==
    /\ req[r] \in Loaded
    /\ req[r].op = "update"
    /\ role' = [role EXCEPT ![req[r].by] = req[r].new]
    /\ req' = [req EXCEPT ![r] = Idle]
    /\ NoteLosses

\* UPDATE by primary key, only if the role differs from the one loaded; a row
\* that is gone by now makes the ORM raise.
UpdateMemberRole(r) ==
    /\ req[r] \in Loaded
    /\ req[r].op = "update"
    /\ role' = IF req[r].new # req[r].seen /\ role[req[r].target] # "none"
               THEN [role EXCEPT ![req[r].target] = req[r].new] ELSE role
    /\ req' = [req EXCEPT ![r] = Idle]
    /\ NoteLosses

\* The platform does not answer or does not know the user, or a process dies.
Fail(r) ==
    /\ req[r] # Idle
    /\ req' = [req EXCEPT ![r] = Idle]
    /\ UNCHANGED role
    /\ NoteLosses

\* What the server does with a request once it has let it in.
Handle(r) ==
    Load(r) \/ AddMember(r) \/ RemoveMember(r) \/ UpdateMemberRole(r) \/ Fail(r)

Next ==
    \/ \E r \in Requests, op \in {"add", "remove", "update"}, by, target \in Users :
           \E new \in NewRoles(op) : RequireOwner(r, op, by, target, new)
    \/ \E r \in Requests : Handle(r)

Spec == Init /\ [][Next]_vars

----------------------------------------------------------------------------

\* The variables keep their shape: an update or a removal that writes has seen
\* a row, an add has seen none.
TypeOK ==
    /\ role \in [Users -> Roles]
    /\ req \in [Requests -> {Idle} \union Checked \union Loaded]
    /\ lost \subseteq Requests

\* Adding never changes the role of somebody who has one: what changes or takes
\* away a role is an update or a removal that saw the row.
AddNeverOverwrites ==
    [][\A u \in Users :
           role[u] # "none" /\ role'[u] # role[u] =>
               \E r \in Requests :
                   /\ req[r] \in Loaded
                   /\ req[r].target = u
                   /\ req[r].seen # "none"]_vars

\* The tenant loses its last owner only by that owner's own request, or by the
\* race of two owners: somebody lost the role while his request waited, and the
\* request still took it from the other.  A request of somebody who was no owner
\* while it was handled takes no last owner away.
LastOwnerGoesBySelfOrRace ==
    [][Owners # {} /\ Owners' = {} =>
           \E r \in Requests :
               /\ req[r] # Idle
               /\ Owners = {req[r].target}
               /\ req[r].by = req[r].target \/ r \in lost]_vars

=============================================================================

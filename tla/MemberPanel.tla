----------------------------- MODULE MemberPanel -----------------------------
(***************************************************************************)
(* The members panel of the dashboard over the handlers of Membership.     *)
(* The server lets an owner do anything; that a tenant keeps an owner is   *)
(* left to the panel, which disables some controls by what it shows: the   *)
(* role its page was rendered with and the members it last loaded.  Both   *)
(* may be out of date.  Every user has one page.  After an answer the      *)
(* panel loads the members again, which is LoadPanel: the answer may be    *)
(* late or lost, and until the new list is there the old panel is in use.  *)
(* Requests may also come from a client of the API that is no panel.       *)
(***************************************************************************)
EXTENDS Membership

CONSTANT Viewers \* users who open the dashboard

ASSUME ViewersAssumption == Viewers \subseteq Users

VARIABLES
    page, \* the dashboard page each user has open
    view  \* history: the owners shown to the caller of each request

panelVars == <<role, req, lost, page, view>>

NoPage == [role |-> "none"]

\* A page, the members its panel shows, and the user its add dialog has looked
\* up and found addable; "none" everywhere while there is no list.
Nobody == [u \in Users |-> "none"]
Open(u) == page[u] # NoPage
Page == [role : MemberRole, shown : [Users -> Roles], addable : SUBSET Users]

ShownOwners(u) == {v \in Users : page[u].shown[v] = "owner"}

PanelInit ==
    /\ Init
    /\ page = [u \in Users |-> NoPage]
    /\ view = [r \in Requests |-> {}]

\* Slip: the dashboard lists the tenants of others too.
OpenForAnybody(u) ==
    /\ page' = [page EXCEPT ![u] = [role |-> role[u], shown |-> Nobody,
                                    addable |-> {}]]
    /\ UNCHANGED <<role, req, lost, view>>

\* The dashboard is rendered with the user's role as it is now, if any.
OpenDashboard(u) ==
    /\ page' = [page EXCEPT ![u] =
                    IF role[u] = "none" THEN NoPage
                    ELSE [role |-> role[u], shown |-> Nobody, addable |-> {}]]
    /\ UNCHANGED <<role, req, lost, view>>

\* GET /members, open to every member; an error leaves no list.
LoadPanel(u) ==
    /\ Open(u)
    /\ page' = [page EXCEPT ![u].shown =
                    IF role[u] = "none" THEN Nobody ELSE role]
    /\ UNCHANGED <<role, req, lost, view>>

\* GET /members/lookup, from the dialog of somebody whose page says owner.
LookupMember(u, v) ==
    /\ Open(u)
    /\ page[u].role = "owner"
    /\ MayManage(u)
    /\ page' = [page EXCEPT ![u].addable = IF role[v] = "none" THEN {v} ELSE {}]
    /\ UNCHANGED <<role, req, lost, view>>

\* A request reaches its handler from what the panel shows.
Submit(r, op, u, target, new) ==
    /\ RequireOwner(r, op, u, target, new)
    /\ view' = [view EXCEPT ![r] = ShownOwners(u)]
    /\ UNCHANGED page

ConfirmAddMember(r, u, v, new) ==
    /\ Open(u)
    /\ page[u].role = "owner"
    /\ v \in page[u].addable
    /\ Submit(r, "add", u, v, new)

\* Slip: the select is disabled only where the list is empty.
DisabledWithoutOwner(u, v) ==
    v = u /\ page[u].shown[v] = "owner" /\ Cardinality(ShownOwners(u)) < 1

\* The select of the caller's own row is disabled when it is the only owner's.
SelfLastOwner(u, v) ==
    v = u /\ page[u].shown[v] = "owner" /\ Cardinality(ShownOwners(u)) <= 1

ChangeMemberRole(r, u, v, new) ==
    /\ Open(u)
    /\ page[u].role = "owner"
    /\ page[u].shown[v] \notin {"none", new}
    /\ ~SelfLastOwner(u, v)
    /\ Submit(r, "update", u, v, new)

\* The caller's own row has no button to remove it.
ClickRemove(r, u, v) ==
    /\ Open(u)
    /\ page[u].role = "owner"
    /\ page[u].shown[v] # "none"
    /\ v # u
    /\ Submit(r, "remove", u, v, "none")

\* A client of the API asks for what it likes and is shown nothing.
CallDirectly(r, op, by, target, new) ==
    /\ RequireOwner(r, op, by, target, new)
    /\ UNCHANGED <<page, view>>

\* The server goes on with a request; what it was shown ends with it.
HandleRequest(r) ==
    /\ Handle(r)
    /\ view' = [view EXCEPT ![r] = IF req'[r] = Idle THEN {} ELSE @]
    /\ UNCHANGED page

PanelNext ==
    \/ \E u \in Viewers : OpenDashboard(u)
    \/ \E u \in Users : LoadPanel(u)
    \/ \E u, v \in Users : LookupMember(u, v)
    \/ \E r \in Requests, u, v \in Users, new \in MemberRole :
           ConfirmAddMember(r, u, v, new)
    \/ \E r \in Requests, u, v \in Users, new \in MemberRole :
           ChangeMemberRole(r, u, v, new)
    \/ \E r \in Requests, u, v \in Users : ClickRemove(r, u, v)
    \/ \E r \in Requests, op \in {"add", "remove", "update"}, by, target \in Users :
           \E new \in NewRoles(op) : CallDirectly(r, op, by, target, new)
    \/ \E r \in Requests : HandleRequest(r)

PanelSpec == PanelInit /\ [][PanelNext]_panelVars

----------------------------------------------------------------------------

\* Every variable keeps its shape.
PanelTypeOK ==
    /\ page \in [Users -> {NoPage} \union Page]
    /\ view \in [Requests -> SUBSET Users]

\* The panel's guard does what it can: the last owner goes only if the request
\* came from no panel, from one that did not show the owners there are, or from
\* somebody who is no longer one of them.
OrphanNeedsStaleView ==
    [][Owners # {} /\ Owners' = {} =>
           \E r \in Requests :
               req[r] # Idle /\ (view[r] # Owners \/ req[r].by \notin Owners)]_panelVars

=============================================================================

-------------------------- MODULE MembershipProofs --------------------------
(***************************************************************************)
(* Proofs about Membership and MemberPanel, for any users and requests.    *)
(***************************************************************************)
EXTENDS MemberPanel, FiniteSetTheorems, TLAPS

\* No step of the server but the three commits touches a role.
LEMMA OnlyCommitsWrite ==
    ASSUME Next,
           \A r \in Requests :
               ~AddMember(r) /\ ~RemoveMember(r) /\ ~UpdateMemberRole(r)
    PROVE  UNCHANGED role
BY DEF Next, Handle, RequireOwner, Load, Fail

\* What each commit does to the roles: it writes at most the target's, and it
\* is the commit of a handler that had loaded.
LEMMA CommitWritesTarget ==
    ASSUME TypeOK, NEW r \in Requests,
           AddMember(r) \/ RemoveMember(r) \/ UpdateMemberRole(r)
    PROVE  /\ req[r] \in Loaded
           /\ \A u \in Users : u # req[r].target => role'[u] = role[u]
           /\ role' \in [Users -> Roles]
<1>1. req[r] \in Loaded
    BY DEF AddMember, RemoveMember, UpdateMemberRole
<1>2. req[r].target \in Users /\ req[r].new \in Roles
    BY <1>1 DEF Loaded
<1>3. role \in [Users -> Roles]
    BY DEF TypeOK
<1>4. CASE AddMember(r)
    BY <1>1, <1>2, <1>3, <1>4 DEF AddMember
<1>5. CASE RemoveMember(r)
    BY <1>1, <1>2, <1>3, <1>5 DEF RemoveMember, Roles
<1>6. CASE UpdateMemberRole(r)
    BY <1>1, <1>2, <1>3, <1>6 DEF UpdateMemberRole
<1> QED
    BY <1>4, <1>5, <1>6

\* A handler ends at its commit, and no other handler is touched.
LEMMA CommitEndsHandler ==
    ASSUME NEW r \in Requests,
           AddMember(r) \/ RemoveMember(r) \/ UpdateMemberRole(r)
    PROVE  req' = [req EXCEPT ![r] = Idle]
BY DEF AddMember, RemoveMember, UpdateMemberRole

\* Loading moves one handler on and remembers what its operation is allowed to
\* have seen.
LEMMA LoadKeepsType ==
    ASSUME TypeOK, NEW r \in Requests, Load(r)
    PROVE  TypeOK'
<1> DEFINE seen == role[req[r].target]
<1>1. /\ req[r] \in Checked
      /\ role' = role
    BY DEF Load
<1>2. /\ req[r].op \in {"add", "remove", "update"}
      /\ req[r].by \in Users /\ req[r].target \in Users /\ req[r].new \in Roles
    BY <1>1 DEF Checked
<1>3. seen \in Roles /\ lost' \subseteq Requests
    BY <1>2 DEF TypeOK, Load, NoteLosses
<1>4. CASE GoesOn(req[r].op, seen)
    <2> DEFINE next == [pc |-> "loaded", op |-> req[r].op, by |-> req[r].by,
                        target |-> req[r].target, new |-> req[r].new,
                        seen |-> seen]
    <2>1. next \in Loaded
        <3>1. CASE req[r].op = "add"
            <4>1. seen = "none"
                BY <1>4, <3>1 DEF GoesOn
            <4> QED
                BY <1>2, <3>1, <4>1 DEF Loaded
        <3>2. CASE req[r].op # "add"
            <4>1. seen \in MemberRole
                BY <1>3, <1>4, <3>2 DEF GoesOn, Roles
            <4>2. req[r].op \in {"remove", "update"}
                BY <1>2, <3>2
            <4> HIDE DEF seen
            <4> QED
                BY <1>2, <4>1, <4>2 DEF Loaded
        <3> QED
            BY <3>1, <3>2
    <2>2. req' = [req EXCEPT ![r] = next]
        BY <1>4 DEF Load
    <2> HIDE DEF next
    <2> QED
        BY <1>1, <1>3, <2>1, <2>2 DEF TypeOK
<1>5. CASE ~GoesOn(req[r].op, seen)
    <2>1. req' = [req EXCEPT ![r] = Idle]
        BY <1>5 DEF Load
    <2> QED
        BY <1>1, <1>3, <2>1 DEF TypeOK
<1> QED
    BY <1>4, <1>5

\* The type invariant is inductive: initially and in every step.
LEMMA TypeInit == Init => TypeOK
BY DEF Init, TypeOK, Roles, MemberRole

\* Every step brings the history of lost roles up to date.
LEMMA StepsNoteLosses ==
    ASSUME [Next]_vars
    PROVE  NoteLosses \/ UNCHANGED vars
BY DEF Next, Handle, RequireOwner, Load, AddMember, RemoveMember,
       UpdateMemberRole, Fail

\* Every step keeps the shape of the variables.
LEMMA TypeStep == TypeOK /\ [Next]_vars => TypeOK'
<1> SUFFICES ASSUME TypeOK, [Next]_vars
             PROVE  TypeOK'
    OBVIOUS
<1>0. NoteLosses => lost' \subseteq Requests
    BY DEF NoteLosses
<1>1. ASSUME NEW r \in Requests, NEW op \in {"add", "remove", "update"},
             NEW by \in Users, NEW target \in Users, NEW new \in NewRoles(op),
             RequireOwner(r, op, by, target, new)
      PROVE  TypeOK'
    <2>1. new \in Roles
        BY DEF NewRoles, Roles
    <2>2. [pc |-> "checked", op |-> op, by |-> by, target |-> target,
           new |-> new] \in Checked
        BY <2>1 DEF Checked
    <2> QED
        BY <1>0, <1>1, <2>2 DEF RequireOwner, TypeOK
<1>2. ASSUME NEW r \in Requests, Load(r)
      PROVE  TypeOK'
    BY <1>2, LoadKeepsType
<1>3. ASSUME NEW r \in Requests,
             AddMember(r) \/ RemoveMember(r) \/ UpdateMemberRole(r)
      PROVE  TypeOK'
    <2>1. lost' \subseteq Requests
        BY <1>0, <1>3 DEF AddMember, RemoveMember, UpdateMemberRole
    <2> QED
        BY <1>3, <2>1, CommitWritesTarget, CommitEndsHandler DEF TypeOK
<1>4. ASSUME NEW r \in Requests, Fail(r)
      PROVE  TypeOK'
    BY <1>0, <1>4 DEF Fail, TypeOK
<1>5. CASE UNCHANGED vars
    BY <1>5 DEF vars, TypeOK
<1> QED
    BY <1>1, <1>2, <1>3, <1>4, <1>5 DEF Next, Handle

\* Members and requests always have the shape the handlers give them: no
\* removal or update gets to its commit without having seen a row.
THEOREM MembershipTyped == Spec => []TypeOK
BY TypeInit, TypeStep, PTL DEF Spec

----------------------------------------------------------------------------

\* A step that changes a role is the commit of a handler in progress.
LEMMA WriterIsActing ==
    ASSUME TypeOK, [Next]_vars, role' # role
    PROVE  \E r \in Requests :
               /\ AddMember(r) \/ RemoveMember(r) \/ UpdateMemberRole(r)
               /\ req[r] \in Loaded
               /\ req[r] # Idle
               /\ req[r].by \in Users
<1>1. PICK r \in Requests : AddMember(r) \/ RemoveMember(r) \/ UpdateMemberRole(r)
    BY OnlyCommitsWrite DEF vars
<1>2. req[r] \in Loaded
    BY <1>1, CommitWritesTarget
<1>3. req[r] # Idle /\ req[r].by \in Users
    BY <1>2 DEF Loaded, Idle
<1> QED
    BY <1>1, <1>2, <1>3

\* An add never touches the role of somebody who has one.
THEOREM AddsOnlyAdd == Spec => AddNeverOverwrites
<1>1. ASSUME TypeOK, [Next]_vars, NEW u \in Users,
             role[u] # "none", role'[u] # role[u]
      PROVE  \E r \in Requests :
                 req[r] \in Loaded /\ req[r].target = u /\ req[r].seen # "none"
    <2>1. PICK r \in Requests :
              /\ AddMember(r) \/ RemoveMember(r) \/ UpdateMemberRole(r)
              /\ req[r] \in Loaded
        BY <1>1, WriterIsActing
    <2>2. req[r].target = u
        BY <1>1, <2>1, CommitWritesTarget
    <2>3. ~AddMember(r)
        BY <1>1, <2>2 DEF AddMember
    <2>4. req[r].op \in {"remove", "update"}
        BY <2>1, <2>3 DEF RemoveMember, UpdateMemberRole
    <2>5. req[r].seen # "none"
        BY <2>1, <2>4 DEF Loaded, MemberRole
    <2> QED
        BY <2>1, <2>2, <2>5
<1>2. TypeOK /\ [Next]_vars =>
          [\A u \in Users :
              role[u] # "none" /\ role'[u] # role[u] =>
                  \E r \in Requests :
                      /\ req[r] \in Loaded
                      /\ req[r].target = u
                      /\ req[r].seen # "none"]_vars
    BY <1>1 DEF vars
<1> QED
    BY <1>2, MembershipTyped, PTL DEF Spec, AddNeverOverwrites

\* The step that takes the last owner away takes away the only one there was.
LEMMA LastOwnerIsTarget ==
    ASSUME TypeOK, [Next]_vars, Owners # {}, Owners' = {}
    PROVE  \E r \in Requests :
               /\ req[r] # Idle
               /\ req[r].by \in Users
               /\ Owners = {req[r].target}
               /\ AddMember(r) \/ RemoveMember(r) \/ UpdateMemberRole(r)
<1>1. role' # role
    BY DEF Owners
<1>2. PICK r \in Requests :
          /\ AddMember(r) \/ RemoveMember(r) \/ UpdateMemberRole(r)
          /\ req[r] # Idle
          /\ req[r].by \in Users
    BY <1>1, WriterIsActing
<1>3. \A u \in Users : u # req[r].target => role'[u] = role[u]
    BY <1>2, CommitWritesTarget
<1>4. \A u \in Users : role'[u] # "owner"
    BY DEF Owners
<1>5. \A u \in Owners : u = req[r].target
    BY <1>3, <1>4 DEF Owners
<1> QED
    BY <1>2, <1>5

\* Whoever has a request in progress is an owner or has lost that role since:
\* require_owner let nobody else in.
EnteredAsOwner ==
    \A r \in Requests : req[r] # Idle => role[req[r].by] = "owner" \/ r \in lost

\* A handler that goes on keeps its caller; one that starts has an owner for it.
LEMMA CallerOfStep ==
    ASSUME TypeOK, Next, NEW s \in Requests, req'[s] # Idle
    PROVE  \/ req[s] # Idle /\ req'[s].by = req[s].by
           \/ req[s] = Idle /\ role[req'[s].by] = "owner" /\ role' = role
<1>0. req \in [Requests -> {Idle} \union Checked \union Loaded]
    BY DEF TypeOK
<1>1. ASSUME NEW r \in Requests, NEW op \in {"add", "remove", "update"},
             NEW by \in Users, NEW target \in Users, NEW new \in NewRoles(op),
             RequireOwner(r, op, by, target, new)
      PROVE  \/ req[s] # Idle /\ req'[s].by = req[s].by
             \/ req[s] = Idle /\ role[req'[s].by] = "owner" /\ role' = role
    <2>1. CASE s = r
        BY <1>0, <1>1, <2>1 DEF RequireOwner, MayManage
    <2>2. CASE s # r
        BY <1>0, <1>1, <2>2 DEF RequireOwner
    <2> QED
        BY <2>1, <2>2
<1>2. ASSUME NEW r \in Requests, Load(r)
      PROVE  req[s] # Idle /\ req'[s].by = req[s].by
    <2>1. req[r] # Idle
        BY <1>2 DEF Load, Checked, Idle
    <2>2. CASE s = r
        BY <1>0, <1>2, <2>1, <2>2 DEF Load
    <2>3. CASE s # r
        BY <1>0, <1>2, <2>3 DEF Load
    <2> QED
        BY <2>2, <2>3
<1>3. ASSUME NEW r \in Requests, req' = [req EXCEPT ![r] = Idle]
      PROVE  req[s] # Idle /\ req'[s].by = req[s].by
    BY <1>0, <1>3
<1> QED
    BY <1>1, <1>2, <1>3, CommitEndsHandler DEF Next, Handle, Fail

\* Hence every step keeps it.
LEMMA EnteredAsOwnerStep ==
    TypeOK /\ EnteredAsOwner /\ [Next]_vars => EnteredAsOwner'
<1> SUFFICES ASSUME TypeOK, EnteredAsOwner, [Next]_vars
             PROVE  EnteredAsOwner'
    OBVIOUS
<1>1. CASE UNCHANGED vars
    BY <1>1 DEF vars, EnteredAsOwner
<1>2. ASSUME Next, NoteLosses, NEW s \in Requests, req'[s] # Idle,
             role'[req'[s].by] # "owner"
      PROVE  s \in lost'
    <2>1. s \in lost \/ role[req'[s].by] = "owner"
        BY <1>2, CallerOfStep DEF EnteredAsOwner
    <2> QED
        BY <1>2, <2>1 DEF NoteLosses
<1> QED
    BY <1>1, <1>2, StepsNoteLosses DEF EnteredAsOwner

\* The last owner goes by its own request or by a race among owners.
THEOREM LastOwnerRule == Spec => LastOwnerGoesBySelfOrRace
<1>1. ASSUME TypeOK, EnteredAsOwner, [Next]_vars, Owners # {}, Owners' = {}
      PROVE  \E r \in Requests :
                 /\ req[r] # Idle
                 /\ Owners = {req[r].target}
                 /\ req[r].by = req[r].target \/ r \in lost
    <2>1. PICK r \in Requests :
              req[r] # Idle /\ req[r].by \in Users /\ Owners = {req[r].target}
        BY <1>1, LastOwnerIsTarget
    <2>2. role[req[r].by] = "owner" => req[r].by = req[r].target
        BY <2>1 DEF Owners
    <2> QED
        BY <1>1, <2>1, <2>2 DEF EnteredAsOwner
<1>2. TypeOK /\ EnteredAsOwner /\ [Next]_vars =>
          [Owners # {} /\ Owners' = {} =>
              \E r \in Requests :
                  /\ req[r] # Idle
                  /\ Owners = {req[r].target}
                  /\ req[r].by = req[r].target \/ r \in lost]_vars
    BY <1>1
<1>3. Init => EnteredAsOwner
    BY DEF Init, EnteredAsOwner
<1> QED
    BY <1>2, <1>3, EnteredAsOwnerStep, MembershipTyped, PTL
       DEF Spec, LastOwnerGoesBySelfOrRace

----------------------------------------------------------------------------

\* What the panel's controls leave of a request that comes from a panel with
\* owners: nobody removes himself, and nobody demotes himself from a panel that
\* shows him as the only owner.
ControlsHeld(r) ==
    req[r] # Idle /\ view[r] # {} =>
        /\ req[r].op = "remove" => req[r].by # req[r].target
        /\ req[r].op = "update" /\ req[r].by = req[r].target =>
               req[r].new = "owner" \/ view[r] # {req[r].by}

PanelInv ==
    /\ TypeOK
    /\ view \in [Requests -> SUBSET Users]
    /\ \A r \in Requests : req[r] = Idle => view[r] = {}
    /\ \A r \in Requests : ControlsHeld(r)

\* A step of the panel is a step of the server or leaves it alone.
LEMMA PanelStepIsServerStep ==
    ASSUME [PanelNext]_panelVars
    PROVE  [Next]_vars
<1>1. ASSUME NEW r \in Requests, NEW u \in Users, NEW v \in Users,
             NEW new \in MemberRole,
             ConfirmAddMember(r, u, v, new) \/ ChangeMemberRole(r, u, v, new)
      PROVE  Next
    <2>1. PICK op \in {"add", "update"} : RequireOwner(r, op, u, v, new)
        BY <1>1 DEF ConfirmAddMember, ChangeMemberRole, Submit
    <2>2. new \in NewRoles(op)
        BY DEF NewRoles
    <2> QED
        BY <2>1, <2>2 DEF Next
<1>2. ASSUME NEW r \in Requests, NEW u \in Users, NEW v \in Users,
             ClickRemove(r, u, v)
      PROVE  Next
    <2>1. RequireOwner(r, "remove", u, v, "none") /\ "none" \in NewRoles("remove")
        BY <1>2 DEF ClickRemove, Submit, NewRoles
    <2> QED
        BY <2>1 DEF Next
<1>3. ASSUME NEW r \in Requests, HandleRequest(r)
      PROVE  Next
    BY <1>3 DEF HandleRequest, Next
<1>4. ASSUME NEW u \in Users, NEW v \in Users,
             OpenDashboard(u) \/ LoadPanel(u) \/ LookupMember(u, v)
      PROVE  UNCHANGED vars
    BY <1>4 DEF OpenDashboard, LoadPanel, LookupMember, vars
<1>5. ASSUME NEW r \in Requests, NEW op \in {"add", "remove", "update"},
             NEW by \in Users, NEW target \in Users, NEW new \in NewRoles(op),
             CallDirectly(r, op, by, target, new)
      PROVE  Next
    BY <1>5 DEF CallDirectly, Next
<1>6. CASE UNCHANGED panelVars
    BY <1>6 DEF panelVars, vars
<1> QED
    BY <1>1, <1>2, <1>3, <1>4, <1>5, <1>6, ViewersAssumption DEF PanelNext

\* Under the panel the server does what it does for any client.
THEOREM PanelImplementsServer == PanelSpec => Spec
<1>1. PanelInit => Init
    BY DEF PanelInit
<1>2. [PanelNext]_panelVars => [Next]_vars
    BY PanelStepIsServerStep
<1> QED
    BY <1>1, <1>2, PTL DEF PanelSpec, Spec

\* The rules of the server hold under the panel, next to clients without one.
THEOREM PanelKeepsServerRules ==
    PanelSpec => AddNeverOverwrites /\ LastOwnerGoesBySelfOrRace
BY PanelImplementsServer, AddsOnlyAdd, LastOwnerRule

\* The self-demotion control is what keeps a panel of one owner from asking.
LEMMA DisabledForLastOwner ==
    ASSUME NEW r \in Requests, NEW u \in Users, NEW new \in MemberRole,
           ChangeMemberRole(r, u, u, new), new # "owner"
    PROVE  ShownOwners(u) # {u}
<1> SUFFICES ASSUME ShownOwners(u) = {u}
             PROVE  FALSE
    OBVIOUS
<1>1. page[u].shown[u] = "owner"
    BY DEF ShownOwners
<1>2. Cardinality(ShownOwners(u)) = 1
    BY FS_Singleton
<1> QED
    BY <1>1, <1>2 DEF ChangeMemberRole, SelfLastOwner

\* The handler carries its request through unchanged up to its end.
LEMMA HandlerKeepsRequest ==
    ASSUME TypeOK, NEW r \in Requests, Handle(r)
    PROVE  /\ \A s \in Requests : s # r => req'[s] = req[s]
           /\ req'[r] # Idle =>
                 /\ req[r] # Idle
                 /\ req'[r].op = req[r].op /\ req'[r].by = req[r].by
                 /\ req'[r].target = req[r].target /\ req'[r].new = req[r].new
<1>0. req \in [Requests -> {Idle} \union Checked \union Loaded]
    BY DEF TypeOK
<1>1. CASE Load(r)
    <2>1. req[r] # Idle
        BY <1>1 DEF Load, Checked, Idle
    <2> QED
        BY <1>0, <1>1, <2>1 DEF Load
<1>2. CASE req' = [req EXCEPT ![r] = Idle]
    BY <1>0, <1>2
<1> QED
    BY <1>1, <1>2, CommitEndsHandler DEF Handle, Fail

\* A request that is let in carries what the panel's control allowed.
LEMMA SubmitHoldsControls ==
    ASSUME PanelInv, NEW r \in Requests, NEW u \in Users, NEW v \in Users,
           NEW new \in Roles, NEW op \in {"add", "remove", "update"},
           Submit(r, op, u, v, new),
           op = "remove" => u # v,
           op = "update" /\ u = v => new = "owner" \/ ShownOwners(u) # {u}
    PROVE  /\ view' \in [Requests -> SUBSET Users]
           /\ \A s \in Requests : req'[s] = Idle => view'[s] = {}
           /\ \A s \in Requests : ControlsHeld(s)'
<1> DEFINE checked == [pc |-> "checked", op |-> op, by |-> u, target |-> v,
                       new |-> new]
<1>1. /\ req' = [req EXCEPT ![r] = checked]
      /\ view' = [view EXCEPT ![r] = ShownOwners(u)]
    BY DEF Submit, RequireOwner
<1>2. /\ req \in [Requests -> {Idle} \union Checked \union Loaded]
      /\ view \in [Requests -> SUBSET Users]
    BY DEF PanelInv, TypeOK
<1>3. view' \in [Requests -> SUBSET Users]
    BY <1>1, <1>2 DEF ShownOwners
<1>4. ASSUME NEW s \in Requests
      PROVE  ControlsHeld(s)'
    <2>1. CASE s # r
        <3>1. req'[s] = req[s] /\ view'[s] = view[s]
            BY <1>1, <1>2, <2>1
        <3> QED
            BY <3>1 DEF PanelInv, ControlsHeld
    <2>2. CASE s = r
        <3>1. req'[s] = checked /\ view'[s] = ShownOwners(u)
            BY <1>1, <1>2, <2>2
        <3> QED
            BY <3>1 DEF ControlsHeld
    <2> QED
        BY <2>1, <2>2
<1>5. ASSUME NEW s \in Requests, req'[s] = Idle
      PROVE  view'[s] = {}
    <2>1. s # r
        BY <1>1, <1>2, <1>5 DEF Idle
    <2> QED
        BY <1>1, <1>2, <1>5, <2>1 DEF PanelInv
<1> QED
    BY <1>3, <1>4, <1>5

\* A start without pages and requests satisfies the panel's invariant.
LEMMA PanelInvInit == PanelInit => PanelInv
<1> SUFFICES ASSUME PanelInit
             PROVE  PanelInv
    OBVIOUS
<1>1. TypeOK
    BY TypeInit DEF PanelInit
<1> QED
    BY <1>1 DEF PanelInit, Init, PanelInv, ControlsHeld

\* Every step of the panel and of the server keeps it.
LEMMA PanelInvStep == PanelInv /\ [PanelNext]_panelVars => PanelInv'
<1> SUFFICES ASSUME PanelInv, [PanelNext]_panelVars
             PROVE  PanelInv'
    OBVIOUS
<1>1. TypeOK'
    BY PanelStepIsServerStep, TypeStep DEF PanelInv
<1>2. ASSUME UNCHANGED <<req, view>>
      PROVE  PanelInv'
    BY <1>1, <1>2 DEF PanelInv, ControlsHeld
<1>3. ASSUME NEW r \in Requests, NEW u \in Users, NEW v \in Users,
             NEW new \in MemberRole, ConfirmAddMember(r, u, v, new)
      PROVE  PanelInv'
    BY <1>1, <1>3, SubmitHoldsControls DEF ConfirmAddMember, PanelInv, Roles
<1>4. ASSUME NEW r \in Requests, NEW u \in Users, NEW v \in Users,
             NEW new \in MemberRole, ChangeMemberRole(r, u, v, new)
      PROVE  PanelInv'
    <2>1. u = v => new = "owner" \/ ShownOwners(u) # {u}
        BY <1>4, DisabledForLastOwner
    <2>2. Submit(r, "update", u, v, new) /\ new \in Roles
        BY <1>4 DEF ChangeMemberRole, Roles
    <2> QED
        BY <1>1, <2>1, <2>2, SubmitHoldsControls DEF PanelInv
<1>5. ASSUME NEW r \in Requests, NEW u \in Users, NEW v \in Users,
             ClickRemove(r, u, v)
      PROVE  PanelInv'
    <2>1. Submit(r, "remove", u, v, "none") /\ u # v /\ "none" \in Roles
        BY <1>5 DEF ClickRemove, Roles
    <2> QED
        BY <1>1, <2>1, SubmitHoldsControls DEF PanelInv
<1>6. ASSUME NEW r \in Requests, HandleRequest(r)
      PROVE  PanelInv'
    <2>1. /\ Handle(r)
          /\ view' = [view EXCEPT ![r] = IF req'[r] = Idle THEN {} ELSE @]
          /\ view \in [Requests -> SUBSET Users]
        BY <1>6 DEF HandleRequest, PanelInv
    <2>2. view' \in [Requests -> SUBSET Users]
        BY <2>1
    <2>3. ASSUME NEW s \in Requests, req'[s] # Idle
          PROVE  view'[s] = view[s]
        BY <2>1, <2>3
    <2>4. ASSUME NEW s \in Requests
          PROVE  ControlsHeld(s)'
        BY <2>1, <2>3, HandlerKeepsRequest DEF PanelInv, ControlsHeld
    <2>5. ASSUME NEW s \in Requests, req'[s] = Idle
          PROVE  view'[s] = {}
        BY <2>1, <2>5, HandlerKeepsRequest DEF PanelInv
    <2> QED
        BY <1>1, <2>2, <2>4, <2>5 DEF PanelInv
<1>7. ASSUME NEW u \in Users, NEW v \in Users,
             OpenDashboard(u) \/ LoadPanel(u) \/ LookupMember(u, v)
      PROVE  UNCHANGED <<req, view>>
    BY <1>7 DEF OpenDashboard, LoadPanel, LookupMember
<1>8. ASSUME NEW r \in Requests, NEW op \in {"add", "remove", "update"},
             NEW by \in Users, NEW target \in Users, NEW new \in NewRoles(op),
             CallDirectly(r, op, by, target, new)
      PROVE  PanelInv'
    <2> DEFINE checked == [pc |-> "checked", op |-> op, by |-> by,
                           target |-> target, new |-> new]
    <2>1. req[r] = Idle /\ view' = view /\ req' = [req EXCEPT ![r] = checked]
        BY <1>8 DEF CallDirectly, RequireOwner
    <2>2. req \in [Requests -> {Idle} \union Checked \union Loaded]
        BY DEF PanelInv, TypeOK
    <2>3. ASSUME NEW s \in Requests
          PROVE  (req'[s] = Idle => view'[s] = {}) /\ ControlsHeld(s)'
        <3>1. CASE s = r
            BY <2>1, <3>1 DEF PanelInv, ControlsHeld
        <3>2. CASE s # r
            <4>1. req'[s] = req[s] /\ view'[s] = view[s]
                BY <2>1, <2>2, <3>2
            <4> QED
                BY <4>1 DEF PanelInv, ControlsHeld
        <3> QED
            BY <3>1, <3>2
    <2> QED
        BY <1>1, <2>1, <2>3 DEF PanelInv
<1>9. CASE UNCHANGED panelVars
    BY <1>2, <1>9 DEF panelVars
<1> QED
    BY <1>2, <1>3, <1>4, <1>5, <1>6, <1>7, <1>8, <1>9, ViewersAssumption
       DEF PanelNext

\* Pages and what they showed keep their shape.
THEOREM PanelTyped == PanelSpec => []PanelTypeOK
<1> DEFINE PageTypes == page \in [Users -> {NoPage} \union Page]
<1>1. PanelInit => PageTypes
    BY DEF PanelInit
<1>2. ASSUME PanelInv, PageTypes, [PanelNext]_panelVars
      PROVE  PageTypes'
    <2>1. role \in [Users -> Roles]
        BY <1>2 DEF PanelInv, TypeOK
    <2>2. ASSUME NEW u \in Users, OpenDashboard(u)
          PROVE  PageTypes'
        <3>1. role[u] # "none" =>
                  [role |-> role[u], shown |-> Nobody, addable |-> {}] \in Page
            BY <2>1 DEF Page, Nobody, Roles
        <3> QED
            BY <1>2, <2>2, <3>1 DEF OpenDashboard
    <2>3. ASSUME NEW u \in Users, LoadPanel(u)
          PROVE  PageTypes'
        <3>1. page[u] \in Page
            BY <1>2, <2>3 DEF LoadPanel, Open
        <3>2. /\ [page[u] EXCEPT !.shown = Nobody] \in Page
              /\ [page[u] EXCEPT !.shown = role] \in Page
            BY <2>1, <3>1 DEF Page, Nobody, Roles
        <3> QED
            BY <1>2, <2>3, <3>2 DEF LoadPanel
    <2>4. ASSUME NEW u \in Users, NEW v \in Users, LookupMember(u, v)
          PROVE  PageTypes'
        <3>1. page[u] \in Page
            BY <1>2, <2>4 DEF LookupMember, Open
        <3>2. /\ [page[u] EXCEPT !.addable = {v}] \in Page
              /\ [page[u] EXCEPT !.addable = {}] \in Page
            BY <3>1 DEF Page
        <3> QED
            BY <1>2, <2>4, <3>2 DEF LookupMember
    <2>5. \/ \E u \in Users : OpenDashboard(u) \/ LoadPanel(u)
          \/ \E u, v \in Users : LookupMember(u, v)
          \/ UNCHANGED page
        BY <1>2, ViewersAssumption
           DEF PanelNext, ConfirmAddMember, ChangeMemberRole, ClickRemove,
               Submit, CallDirectly, HandleRequest, panelVars
    <2> QED
        BY <1>2, <2>2, <2>3, <2>4, <2>5
<1>3. PanelInv /\ PageTypes => PanelTypeOK
    BY DEF PanelInv, PanelTypeOK
<1>4. PanelInv /\ PageTypes /\ [PanelNext]_panelVars => PageTypes'
    BY <1>2
<1> HIDE DEF PageTypes
<1> QED
    BY <1>1, <1>3, <1>4, PanelInvInit, PanelInvStep, PTL DEF PanelSpec

\* Through the panel the last owner goes only on a view of the members that was
\* out of date, or on a request of somebody who is no owner any more.
THEOREM PanelGuardsLastOwner == PanelSpec => OrphanNeedsStaleView
<1>1. ASSUME PanelInv, [PanelNext]_panelVars, Owners # {}, Owners' = {}
      PROVE  \E r \in Requests :
                 req[r] # Idle /\ (view[r] # Owners \/ req[r].by \notin Owners)
    <2>1. PICK r \in Requests :
              /\ req[r] # Idle
              /\ Owners = {req[r].target}
              /\ AddMember(r) \/ RemoveMember(r) \/ UpdateMemberRole(r)
        BY <1>1, PanelStepIsServerStep, LastOwnerIsTarget DEF PanelInv
    <2> SUFFICES ASSUME view[r] = Owners, req[r].by \in Owners
                 PROVE  FALSE
        BY <2>1
    <2>2. req[r].by = req[r].target
        BY <2>1
    <2>3. /\ role[req[r].target] = "owner"
          /\ role'[req[r].target] # "owner"
          /\ role \in [Users -> Roles]
          /\ req[r].target \in Users
        BY <1>1, <2>1 DEF Owners, PanelInv, TypeOK
    <2>4. CASE AddMember(r)
        BY <2>3, <2>4 DEF AddMember
    <2>5. CASE RemoveMember(r)
        BY <1>1, <2>1, <2>2, <2>5 DEF RemoveMember, PanelInv, ControlsHeld
    <2>6. CASE UpdateMemberRole(r)
        <3>1. req[r].op = "update" /\ req[r].new # "owner"
            BY <2>3, <2>6 DEF UpdateMemberRole
        <3>2. view[r] # {req[r].by}
            BY <1>1, <2>1, <2>2, <3>1 DEF PanelInv, ControlsHeld
        <3> QED
            BY <2>1, <2>2, <3>2
    <2> QED
        BY <2>1, <2>4, <2>5, <2>6
<1>2. PanelInv /\ [PanelNext]_panelVars =>
          [Owners # {} /\ Owners' = {} =>
              \E r \in Requests :
                  req[r] # Idle
                  /\ (view[r] # Owners \/ req[r].by \notin Owners)]_panelVars
    BY <1>1
<1> QED
    BY <1>2, PanelInvInit, PanelInvStep, PTL DEF PanelSpec, OrphanNeedsStaleView

=============================================================================

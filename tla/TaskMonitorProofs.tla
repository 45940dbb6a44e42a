-------------------------- MODULE TaskMonitorProofs --------------------------
(***************************************************************************)
(* Proofs about TaskMonitor for any number of tenants, tasks and loads and *)
(* for pages of any size.                                                  *)
(***************************************************************************)
EXTENDS TaskMonitor, SequenceTheorems, TLAPS

\* Who may make a step: the data plane, the page, the handlers.
DataPlaneMoves(t) ==
    \/ TenantArrives(t) \/ TenantLeaves(t)
    \/ \E k \in Tasks : \E j \in 1..(Len(tasks[t]) + 1) : TaskArrives(t, k, j)
    \/ \E i \in DOMAIN tasks[t] : TaskLeaves(t, i) \/ RowsSwap(t, i)
PageMoves(r) ==
    \/ \E kind \in {"stats", "details"} : OpenPage(r, kind)
    \/ \E ts \in SUBSET Tenants : ChangeFilter(r, ts)
    \/ NextPage(r) \/ PreviousPage(r)
HandlerMoves(r) ==
    \/ \E t \in Tenants : SkipTenant(r, t) \/ CountTasks(r, t)
    \/ ReadTasks(r) \/ Answer(r) \/ HandlerFails(r)
    \/ \E n \in 1..MaxPage : OldAnswer(r, n)

\* The number of pages is never 0.
LEMMA PagesArePositive ==
    ASSUME NEW total \in Nat
    PROVE  TotalPages(total) \in Nat \ {0}
<1>1. CASE total = 0
  BY <1>1 DEF TotalPages
<1>2. CASE total # 0
  <2>1. total + PageSize - 1 >= PageSize /\ PageSize > 0
    BY <1>2, MonitorAssumption
  <2> DEFINE n == total + PageSize - 1
  <2>2. n \in Nat /\ PageSize \in Nat
    BY <1>2, MonitorAssumption
  <2>3. n \div PageSize \in Nat /\ n \div PageSize >= 1
    BY <2>1, <2>2, SMTT(30)
  <2> QED BY <1>2, <2>3 DEF TotalPages
<1> QED BY <1>1, <1>2

\* Rows read are tasks.
LEMMA SliceOfTasks ==
    ASSUME NEW t \in Tenants, NEW n, tasks \in [Tenants -> Seq(Tasks)]
    PROVE  Slice(t, n) \subseteq Tasks /\ Len(tasks[t]) \in Nat
  BY DEF Slice

\* A load in flight is a record of all its fields.
LEMMA RunningIsLoad ==
    ASSUME TypeOK, NEW r \in Requests, Running(r)
    PROVE  /\ req[r] \in [kind : {"stats", "details"}, page : 1..MaxPage,
                          todo : SUBSET Tenants, at : SUBSET Tenants,
                          total : Nat, items : SUBSET Tasks]
           /\ req[r] # Idle
  BY DEF TypeOK, Loads, Running, Idle

LEMMA InitType == Init => TypeOK
  BY MonitorAssumption DEF Init, TypeOK, Stages, Nothing, Disturbed, Idle

LEMMA LoadIsLoad ==
    ASSUME NEW kind \in {"stats", "details"}, NEW n \in 1..MaxPage,
           NEW ts \in SUBSET Tenants
    PROVE  Load(kind, n, ts) \in Loads
  BY DEF Load, Loads

\* What the page does keeps the types.
LEMMA PageStep ==
    ASSUME TypeOK, NEW r \in Requests,
           PageMoves(r)
    PROVE  TypeOK'
<1> USE MonitorAssumption
<1>0. Listed \subseteq Tenants
  BY DEF Listed
<1>1. ASSUME NEW ts \in SUBSET Tenants PROVE TasksOf(ts) \subseteq Tasks
  BY DEF TasksOf, TypeOK
<1>2. ASSUME NEW kind \in {"stats", "details"}, OpenPage(r, kind)
      PROVE  TypeOK'
  <2>1. Load(kind, 1, Listed) \in Loads
    BY <1>0, LoadIsLoad
  <2>2. req' \in [Requests -> {Idle} \union Loads]
    BY <1>2, <2>1 DEF OpenPage
  <2>3. walk' \in [ok : BOOLEAN, left : SUBSET Tasks]
    BY <1>0, <1>1, <1>2 DEF OpenPage, NewWalk, Disturbed
  <2> QED BY <1>2, <2>2, <2>3 DEF OpenPage, TypeOK, Nothing, dataPlane
<1>3. ASSUME NEW ts \in SUBSET Tenants, ChangeFilter(r, ts)
      PROVE  TypeOK'
  <2> DEFINE asked == IF ts = Tenants THEN Listed ELSE ts
  <2>1. asked \subseteq Tenants
    BY <1>0
  <2>2. Load("details", 1, asked) \in Loads
    BY <2>1, LoadIsLoad
  <2>3. \A q \in Requests :
            req[q].kind \in {"details", "old"} => OldLoad(req[q].page) \in Loads
    BY DEF TypeOK, OldLoad, Loads, Idle
  <2>4. req' = [q \in Requests |->
                    CASE q = r -> Load("details", 1, asked)
                      [] q # r /\ req[q].kind \in {"details", "old"} ->
                             OldLoad(req[q].page)
                      [] OTHER -> Idle]
    BY <1>3 DEF ChangeFilter
  <2> HIDE DEF asked
  <2>5. req' \in [Requests -> {Idle} \union Loads]
    BY <2>2, <2>3, <2>4
  <2>6. walk' \in [ok : BOOLEAN, left : SUBSET Tasks]
    BY <1>1, <1>3, <2>1 DEF ChangeFilter, NewWalk, asked
  <2> QED BY <1>3, <2>5, <2>6 DEF ChangeFilter, TypeOK, dataPlane
<1>4. ASSUME NEW n \in 1..MaxPage, Turn(r, n) PROVE TypeOK'
  <2> DEFINE ts == IF filter = Tenants THEN Listed ELSE filter
  <2>1. ts \in SUBSET Tenants
    BY <1>0 DEF TypeOK
  <2>2. Load("details", n, ts) \in Loads
    BY <2>1, LoadIsLoad
  <2>3. req' \in [Requests -> {Idle} \union Loads]
    BY <1>4, <2>2 DEF Turn, TypeOK
  <2> QED BY <1>4, <2>3 DEF Turn, TypeOK, dataPlane
<1>5. NextPage(r) => page + 1 \in 1..MaxPage
  BY DEF NextPage, TypeOK
<1>6. PreviousPage(r) => page - 1 \in 1..MaxPage
  BY DEF PreviousPage, TypeOK
<1> QED BY <1>2, <1>3, <1>4, <1>5, <1>6 DEF PageMoves, NextPage, PreviousPage

\* The handlers keep the types.
LEMMA HandlerStep ==
    ASSUME TypeOK, NEW r \in Requests,
           HandlerMoves(r)
    PROVE  TypeOK'
<1> USE MonitorAssumption
<1>1. ASSUME NEW g \in {Idle} \union Loads, req' = [req EXCEPT ![r] = g]
      PROVE  req' \in [Requests -> {Idle} \union Loads]
  BY <1>1 DEF TypeOK
<1>2. ASSUME NEW t \in Tenants, SkipTenant(r, t) PROVE TypeOK'
  <2> DEFINE g == [req[r] EXCEPT !.todo = {}, !.at = {}]
  <2>1. Running(r) /\ req' = [req EXCEPT ![r] = g]
    BY <1>2 DEF SkipTenant
  <2>2. g \in Loads
    BY <2>1, RunningIsLoad DEF Loads
  <2> HIDE DEF g
  <2>3. walk' \in [ok : BOOLEAN, left : SUBSET Tasks]
    BY <1>2 DEF SkipTenant, TypeOK, Disturbed
  <2> QED BY <1>1, <1>2, <2>1, <2>2, <2>3 DEF SkipTenant, TypeOK, dataPlane
<1>3. ASSUME NEW t \in Tenants, CountTasks(r, t) PROVE TypeOK'
  <2> DEFINE more == IF req[r].kind = "details"
                     THEN req[r].total + Len(tasks[t]) ELSE 0
             at == IF req[r].kind = "details" THEN {t} ELSE {}
             g == [req[r] EXCEPT !.todo = @ \ {t}, !.at = at, !.total = more]
  <2>1. Running(r)
    BY <1>3 DEF CountTasks
  <2>2. more \in Nat /\ at \in SUBSET Tenants
    BY <2>1, RunningIsLoad, SliceOfTasks DEF TypeOK
  <2>3. Advance(r, g)
    BY <1>3 DEF CountTasks
  <2> HIDE DEF more, at
  <2>4. g \in Loads
    BY <2>1, <2>2, RunningIsLoad DEF Loads
  <2> HIDE DEF g
  <2> QED BY <1>1, <2>3, <2>4 DEF Advance, TypeOK, dataPlane
<1>4. ASSUME ReadTasks(r) PROVE TypeOK'
  <2>1. PICK t \in req[r].at :
            Advance(r, [req[r] EXCEPT !.at = {},
                                      !.items = @ \union
                            (Slice(t, req[r].page) \intersect walk.left)])
    BY <1>4 DEF ReadTasks
  <2> DEFINE rows == Slice(t, req[r].page) \intersect walk.left
             g == [req[r] EXCEPT !.at = {}, !.items = @ \union rows]
  <2>2. Running(r)
    BY <1>4 DEF ReadTasks
  <2>3. rows \subseteq Tasks
    BY DEF TypeOK
  <2> HIDE DEF rows
  <2>4. g \in Loads
    BY <2>2, <2>3, RunningIsLoad DEF Loads
  <2>5. Advance(r, g)
    BY <2>1 DEF rows
  <2> HIDE DEF g
  <2> QED BY <1>1, <2>4, <2>5 DEF Advance, TypeOK, dataPlane
<1>5. ASSUME Answer(r) PROVE TypeOK'
  <2>1. req[r].total \in Nat /\ req[r].page \in 1..MaxPage /\ req[r].items \subseteq Tasks
    BY <1>5, RunningIsLoad DEF Answer
  <2>2. shown' \in [page : 1..MaxPage, pages : Nat \ {0}, old : BOOLEAN]
    <3>1. CASE UNCHANGED shown
      BY <3>1 DEF TypeOK
    <3>2. CASE shown' = [page |-> req[r].page,
                         pages |-> TotalPages(req[r].total), old |-> FALSE]
      BY <2>1, <3>2, PagesArePositive
    <3> QED BY <1>5, <3>1, <3>2 DEF Answer
  <2>3. walk' \in [ok : BOOLEAN, left : SUBSET Tasks]
    BY <1>5 DEF Answer, TypeOK
  <2>4. UNCHANGED <<dataPlane, page, filter>> /\ req' = [req EXCEPT ![r] = Idle]
    BY <1>5 DEF Answer
  <2> QED BY <1>1, <2>2, <2>3, <2>4 DEF TypeOK, dataPlane
<1>6. ASSUME HandlerFails(r) PROVE TypeOK'
  <2>1. walk' \in [ok : BOOLEAN, left : SUBSET Tasks]
    BY <1>6 DEF HandlerFails, TypeOK, Disturbed
  <2> QED BY <1>1, <1>6, <2>1 DEF HandlerFails, TypeOK, dataPlane
<1>7. ASSUME NEW n \in 1..MaxPage, OldAnswer(r, n) PROVE TypeOK'
  <2>1. req[r].page \in 1..MaxPage
    BY <1>7 DEF OldAnswer, TypeOK, Loads, Idle
  <2>2. shown' \in [page : 1..MaxPage, pages : Nat \ {0}, old : BOOLEAN]
    BY <1>7, <2>1 DEF OldAnswer
  <2> QED BY <1>1, <1>7, <2>2 DEF OldAnswer, TypeOK, dataPlane
<1> QED BY <1>2, <1>3, <1>4, <1>5, <1>6, <1>7 DEF HandlerMoves

\* One row more, at any place: the rows before it stay, the others move down.
LEMMA Inserted ==
    ASSUME NEW list \in Seq(Tasks), NEW k \in Tasks, NEW j \in 1..(Len(list) + 1)
    PROVE  /\ Insert(list, j, k) \in Seq(Tasks)
           /\ Len(Insert(list, j, k)) = Len(list) + 1
           /\ \A i \in 1..Len(list) :
                  Insert(list, j, k)[IF i < j THEN i ELSE i + 1] = list[i]
<1> DEFINE a == SubSeq(list, 1, j - 1)
           b == SubSeq(list, j, Len(list))
<1>1. a \in Seq(Tasks) /\ Len(a) = j - 1 /\ \A i \in 1..(j - 1) : a[i] = list[i]
  OBVIOUS
<1>2. /\ b \in Seq(Tasks) /\ Len(b) = Len(list) - j + 1
      /\ \A i \in 1..(Len(list) - j + 1) : b[i] = list[j + i - 1]
  OBVIOUS
<1> HIDE DEF a, b
<1> DEFINE c == a \o <<k>>
<1>3. /\ c \in Seq(Tasks) /\ Len(c) = j
      /\ \A i \in 1..(j - 1) : c[i] = list[i]
  BY <1>1
<1> HIDE DEF c
<1>4. Insert(list, j, k) = c \o b
  BY DEF Insert, a, b, c
<1>5. c \o b \in Seq(Tasks) /\ Len(c \o b) = Len(list) + 1
  <2>1. c \o b \in Seq(Tasks) /\ Len(c \o b) = Len(c) + Len(b)
    <3>1. c \in Seq(Tasks) /\ b \in Seq(Tasks)
      BY <1>2, <1>3
    <3> QED BY <3>1, ConcatProperties, Zenon
  <2> QED BY <1>2, <1>3, <2>1
<1>6. ASSUME NEW i \in 1..Len(list), i < j PROVE (c \o b)[i] = list[i]
  BY <1>2, <1>3, <1>6
<1>7. ASSUME NEW i \in 1..Len(list), ~(i < j) PROVE (c \o b)[i + 1] = list[i]
  <2>1. i + 1 - j \in 1..(Len(list) - j + 1) /\ b[i + 1 - j] = list[i]
    BY <1>2, <1>7
  <2> QED BY <1>2, <1>3, <1>7, <2>1
<1> QED BY <1>4, <1>5, <1>6, <1>7

\* Two neighbours change places, and all other rows stay.
LEMMA Swapped ==
    ASSUME NEW list \in Seq(Tasks), NEW i \in 1..Len(list), i + 1 \in 1..Len(list),
           NEW new, new = [list EXCEPT ![i] = list[i + 1], ![i + 1] = list[i]]
    PROVE  /\ new \in Seq(Tasks) /\ Len(new) = Len(list)
           /\ new[i] = list[i + 1] /\ new[i + 1] = list[i]
           /\ \A j \in 1..Len(list) : j # i /\ j # i + 1 => new[j] = list[j]
<1> DEFINE mid == [list EXCEPT ![i] = list[i + 1]]
<1>1. list[i] \in Tasks /\ list[i + 1] \in Tasks
  OBVIOUS
<1>2. /\ mid \in Seq(Tasks) /\ Len(mid) = Len(list)
      /\ \A j \in 1..Len(list) : mid[j] = IF j = i THEN list[i + 1] ELSE list[j]
  BY <1>1, ExceptSeq
<1>3. new = [mid EXCEPT ![i + 1] = list[i]]
  OBVIOUS
<1> HIDE DEF mid
<1>4. /\ new \in Seq(Tasks) /\ Len(new) = Len(mid)
      /\ \A j \in 1..Len(mid) : new[j] = IF j = i + 1 THEN list[i] ELSE mid[j]
  BY <1>1, <1>2, <1>3, ExceptSeq
<1> QED BY <1>2, <1>4

\* The tenants and their tasks change beside the loads.
LEMMA DataPlaneStep ==
    ASSUME TypeOK, NEW t \in Tenants,
           DataPlaneMoves(t)
    PROVE  TypeOK'
<1>1. UNCHANGED <<page, filter, shown, req>>
  BY DEF DataPlaneMoves, TenantArrives, TenantLeaves, TaskArrives, TaskLeaves, RowsSwap
<1>2. tenant' \in [Tenants -> Stages]
  BY DEF DataPlaneMoves, TenantArrives, TenantLeaves, TaskArrives, TaskLeaves, RowsSwap, Moves,
         TypeOK, Stages
<1>3. tasks' \in [Tenants -> Seq(Tasks)]
  <2>1. tasks \in [Tenants -> Seq(Tasks)] /\ tasks[t] \in Seq(Tasks)
    BY DEF TypeOK
  <2>2. ASSUME NEW k \in Tasks, NEW j \in 1..(Len(tasks[t]) + 1), TaskArrives(t, k, j)
        PROVE  tasks' \in [Tenants -> Seq(Tasks)]
    BY <2>1, <2>2, Inserted DEF TaskArrives
  <2>3. ASSUME TenantArrives(t) \/ TenantLeaves(t)
        PROVE  tasks' \in [Tenants -> Seq(Tasks)]
    <3>1. <<>> \in Seq(Tasks)
      OBVIOUS
    <3> QED BY <2>1, <2>3, <3>1 DEF TenantArrives, TenantLeaves
  <2>4. ASSUME NEW i \in DOMAIN tasks[t], TaskLeaves(t, i)
        PROVE  tasks' \in [Tenants -> Seq(Tasks)]
    <3>1. SubSeq(tasks[t], 1, i - 1) \in Seq(Tasks)
      BY <2>1
    <3>2. SubSeq(tasks[t], i + 1, Len(tasks[t])) \in Seq(Tasks)
      BY <2>1
    <3>3. SubSeq(tasks[t], 1, i - 1) \o SubSeq(tasks[t], i + 1, Len(tasks[t]))
              \in Seq(Tasks)
      BY <3>1, <3>2
    <3> QED BY <2>1, <2>4, <3>3 DEF TaskLeaves
  <2>5. ASSUME NEW i \in DOMAIN tasks[t], RowsSwap(t, i)
        PROVE  tasks' \in [Tenants -> Seq(Tasks)]
    <3> DEFINE new == [tasks[t] EXCEPT ![i] = tasks[t][i + 1], ![i + 1] = tasks[t][i]]
    <3>1. i \in 1..Len(tasks[t]) /\ i + 1 \in 1..Len(tasks[t])
      BY <2>1, <2>5 DEF RowsSwap
    <3>2. tasks' = [tasks EXCEPT ![t] = new]
      BY <2>1, <2>5 DEF RowsSwap
    <3>3. new \in Seq(Tasks)
      BY <2>1, <3>1, Swapped
    <3> HIDE DEF new
    <3> QED BY <2>1, <3>2, <3>3
  <2> QED BY <2>2, <2>3, <2>4, <2>5 DEF DataPlaneMoves
<1>4. walk' \in [ok : BOOLEAN, left : SUBSET Tasks]
  <2>1. walk' = walk \/ walk' = Disturbed
    BY DEF DataPlaneMoves, TenantArrives, TenantLeaves, TaskArrives, TaskLeaves, RowsSwap
  <2>2. walk \in [ok : BOOLEAN, left : SUBSET Tasks]
    BY DEF TypeOK
  <2>3. Disturbed \in [ok : BOOLEAN, left : SUBSET Tasks]
    BY DEF Disturbed
  <2> QED BY <2>1, <2>2, <2>3
<1> QED BY <1>1, <1>2, <1>3, <1>4 DEF TypeOK

LEMMA StepsByActor ==
    ASSUME Next
    PROVE  \/ \E t \in Tenants : DataPlaneMoves(t)
           \/ \E r \in Requests : PageMoves(r) \/ HandlerMoves(r)
           \/ PageBelowFirst
  BY DEF Next, DataPlaneMoves, PageMoves, HandlerMoves

LEMMA TypeStep == TypeOK /\ [Next]_vars => TypeOK'
<1> SUFFICES ASSUME TypeOK, [Next]_vars PROVE TypeOK'
  OBVIOUS
<1>1. CASE UNCHANGED vars
  BY <1>1 DEF vars, TypeOK
<1>2. ASSUME NEW t \in Tenants, DataPlaneMoves(t) PROVE TypeOK'
  BY <1>2, DataPlaneStep
<1>3. ASSUME NEW r \in Requests, PageMoves(r) PROVE TypeOK'
  BY <1>3, PageStep
<1>4. ASSUME NEW r \in Requests, HandlerMoves(r) PROVE TypeOK'
  BY <1>4, HandlerStep
<1>5. ASSUME PageBelowFirst PROVE TypeOK'
  BY <1>5, MonitorAssumption DEF PageBelowFirst, TypeOK, dataPlane
<1> QED BY <1>1, <1>2, <1>3, <1>4, <1>5, StepsByActor

\* Every variable keeps its shape, whatever the size of a page: there is always
\* a page to show.
THEOREM MonitorTyped == Spec => []TypeOK
  BY InitType, TypeStep, PTL DEF Spec

----------------------------------------------------------------------------
\* The pager.

\* The last row on page n of a schema.
Upto(n) == n * PageSize

\* Tasks are in a table.
TasksHaveTables == \A t \in Tenants : tasks[t] # <<>> => tenant[t] # "none"

\* A handler counts a schema at a time.
OneAtATime(r) == \A t, u \in req[r].at : t = u

\* The count of a schema whose page is still to be read is in the total.
CountHolds(r) == \A t \in req[r].at : Len(tasks[t]) <= req[r].total

\* A load on the way has the task among its rows.
Carried(k) == \E r \in Loading : k \in req[r].items

\* A load on the way has still to read page p of a schema.
Awaits(r, t, p) ==
    /\ r \in Loading
    /\ req[r].page = p
    /\ t \in req[r].todo \union req[r].at

\* Row i of a schema is on a page that a load has still to read; if the counter
\* has been turned back to it or past it, a second load has, too.  So a task
\* that arrives while there is one load pushes rows off the last page only.
Awaited(t, i, M) ==
    \E p \in 1..MaxPage :
        /\ Upto(p - 1) < i /\ i <= Upto(p)
        /\ \E r \in Loading :
               /\ Awaits(r, t, p)
               /\ page <= p /\ p < M =>
                      \E s \in Loading : s # r /\ Awaits(s, t, p)

\* Row i is on no page that was asked for, and every load has still to read its
\* schema, or has counted more rows than its page reaches.
Beyond(t, i, M) ==
    /\ i > Upto(M)
    /\ \A r \in Loading :
           t \notin req[r].todo \union req[r].at => req[r].total > Upto(req[r].page)

\* The next load takes in this tenant.
InWalk(t) == t \in filter /\ (filter = Tenants => t \in Listed)

StillToCome(k, M) ==
    \E t \in Tenants :
        /\ InWalk(t)
        /\ \E i \in DOMAIN tasks[t] :
               tasks[t][i] = k /\ (Awaited(t, i, M) \/ Beyond(t, i, M))

\* M is the last page that was asked for since the walk began.
Walked(M) ==
    /\ page <= M
    /\ \A r \in Loading : req[r].page <= M
    /\ \A k \in walk.left : Carried(k) \/ StillToCome(k, M)

WalkInv ==
    /\ TypeOK
    /\ TasksHaveTables
    /\ \A r \in Loading : OneAtATime(r)
    /\ walk.ok => /\ \A r \in Loading : CountHolds(r)
                  /\ \E M \in 1..MaxPage : Walked(M)
    /\ WalkSeesEverything


\* Rows and pages are counted by naturals, and later pages reach further.
LEMMA PagesReachFurther ==
    ASSUME NEW m \in Nat, NEW n \in Nat, m <= n
    PROVE  Upto(m) \in Nat /\ Upto(n) \in Nat /\ Upto(m) <= Upto(n)
<1>1. PICK d \in Nat : n = m + d
  <2>1. n - m \in Nat /\ n = m + (n - m)
    OBVIOUS
  <2> QED BY <2>1
<1>2. PageSize \in Nat
  BY MonitorAssumption
<1>3. m * PageSize \in Nat /\ d * PageSize \in Nat
  BY <1>2
<1>4. n * PageSize = m * PageSize + d * PageSize
  BY <1>1, <1>2
<1> QED BY <1>3, <1>4 DEF Upto

\* Whoever has counted more rows than page n reaches announces a page after n.
LEMMA MorePages ==
    ASSUME NEW total \in Nat, NEW n \in Nat, total > Upto(n)
    PROVE  TotalPages(total) > n
<1> DEFINE rest == total + PageSize - 1
<1>1. PageSize \in Nat /\ PageSize > 0 /\ Upto(n) \in Nat
  BY MonitorAssumption, PagesReachFurther
<1>2. total # 0 /\ rest \in Nat
  BY <1>1
<1>3. rest >= (n + 1) * PageSize
  <2>1. (n + 1) * PageSize = Upto(n) + PageSize
    BY <1>1 DEF Upto
  <2> QED BY <1>1, <2>1
<1>4. rest \div PageSize >= n + 1
  <2> DEFINE q == rest \div PageSize
  <2>1. q \in Nat /\ rest < (q + 1) * PageSize
    BY <1>1, <1>2, SMTT(30)
  <2> HIDE DEF q, rest
  <2>2. SUFFICES ASSUME q < n + 1 PROVE FALSE
    BY <2>1 DEF q
  <2>3. Upto(q + 1) <= Upto(n + 1)
    BY <2>1, <2>2, PagesReachFurther
  <2> QED BY <1>1, <1>2, <1>3, <2>1, <2>3 DEF Upto
<1>5. rest \div PageSize \in Nat
  BY <1>1, <1>2, SMTT(30)
<1> QED BY <1>2, <1>4, <1>5 DEF TotalPages

\* A load that the walk counts on has all the fields of a load.
LEMMA LoadingIsLoad ==
    ASSUME TypeOK, NEW r \in Loading
    PROVE  /\ r \in Requests /\ Running(r) /\ req[r].kind = "details"
           /\ req[r] \in [kind : {"stats", "details"}, page : 1..MaxPage,
                          todo : SUBSET Tenants, at : SUBSET Tenants,
                          total : Nat, items : SUBSET Tasks]
<1>1. r \in Requests /\ Running(r) /\ req[r].kind = "details"
  BY DEF Loading, Running
<1> QED BY <1>1, RunningIsLoad

\* What the walk relies on is not touched by a step that leaves alone the loads
\* it counts on, the tables, and the tenants with tasks.
LEMMA WalkFrame ==
    ASSUME NEW M,
           UNCHANGED <<tasks, page, filter, walk>>,
           Loading' = Loading, \A r \in Loading : req'[r] = req[r],
           \A t \in Listed : tasks[t] # <<>> => t \in Listed',
           Walked(M)
    PROVE  Walked(M)'
<1>1. ASSUME NEW t \in Tenants, NEW i \in DOMAIN tasks[t], InWalk(t)
      PROVE  InWalk(t)'
  <2>1. tasks[t] # <<>>
    BY <1>1
  <2> QED BY <1>1, <2>1 DEF InWalk
<1>2. ASSUME NEW t, NEW i, Awaited(t, i, M)
      PROVE  Awaited(t, i, M)'
  <2>1. ASSUME NEW r, NEW p PROVE Awaits(r, t, p)' <=> Awaits(r, t, p)
    BY DEF Awaits
  <2> QED BY <1>2, <2>1 DEF Awaited
<1>3. ASSUME NEW t, NEW i, Beyond(t, i, M)
      PROVE  Beyond(t, i, M)'
  BY <1>3 DEF Beyond
<1>4. ASSUME NEW k, Carried(k) PROVE Carried(k)'
  BY <1>4 DEF Carried
<1>5. ASSUME NEW k, StillToCome(k, M) PROVE StillToCome(k, M)'
  BY <1>1, <1>2, <1>3, <1>5 DEF StillToCome
<1> QED BY <1>4, <1>5 DEF Walked

\* A task that arrives pushes the rows behind it down by one: off the last page
\* that was asked for, or to a place on the same page, or on a page that is still
\* to come.
LEMMA ArrivalKeepsWalk ==
    ASSUME TypeOK, NEW t \in Tenants, NEW k \in Tasks,
           NEW j \in 1..(Len(tasks[t]) + 1), TaskArrives(t, k, j), walk'.ok,
           NEW M \in 1..MaxPage, Walked(M),
           \A r \in Loading : CountHolds(r)
    PROVE  Walked(M)' /\ \A r \in Loading' : CountHolds(r)'
<1> USE MonitorAssumption
<1>1. /\ UNCHANGED <<tenant, page, filter, shown, req>>
      /\ tasks' = [tasks EXCEPT ![t] = Insert(@, j, k)]
      /\ tasks \in [Tenants -> Seq(Tasks)] /\ tasks[t] \in Seq(Tasks)
      /\ M \in Nat
  BY DEF TaskArrives, TypeOK
<1>2. /\ walk' = walk
      /\ \A r \in Loading : ~Overtaking(r) /\ t \notin req[r].at
  BY DEF TaskArrives, Disturbed
<1>3. Loading' = Loading /\ Listed' = Listed
  BY <1>1 DEF Loading, Listed
<1>4. \A u \in Tenants : u # t => tasks'[u] = tasks[u]
  BY <1>1
<1>5. ASSUME NEW i \in DOMAIN tasks[t]
      PROVE  /\ i \in Nat
             /\ \E n \in DOMAIN tasks'[t] : n \in {i, i + 1} /\ tasks'[t][n] = tasks[t][i]
  <2> DEFINE new == Insert(tasks[t], j, k)
             n == IF i < j THEN i ELSE i + 1
  <2>1. i \in 1..Len(tasks[t]) /\ i \in Nat
    BY <1>1
  <2>2. /\ new \in Seq(Tasks) /\ Len(new) = Len(tasks[t]) + 1
        /\ new[n] = tasks[t][i]
    BY <1>1, <2>1, Inserted
  <2>3. tasks'[t] = new
    BY <1>1
  <2> HIDE DEF new
  <2>4. n \in DOMAIN new /\ n \in {i, i + 1}
    BY <1>1, <2>1, <2>2
  <2> QED BY <2>1, <2>2, <2>3, <2>4
<1>6. \A r \in Loading' : CountHolds(r)'
  <2> SUFFICES ASSUME NEW r \in Loading, NEW u \in req[r].at
               PROVE  Len(tasks'[u]) <= req[r].total
    BY <1>1, <1>3 DEF CountHolds
  <2>1. u \in Tenants /\ u # t
    BY <1>2, LoadingIsLoad
  <2> QED BY <1>4, <2>1 DEF CountHolds
<1>7. ASSUME NEW u, NEW p PROVE \A r : Awaits(r, u, p)' <=> Awaits(r, u, p)
  BY <1>1, <1>3 DEF Awaits
<1>8. ASSUME NEW u, NEW i
      PROVE  /\ Awaited(u, i, M) => Awaited(u, i, M)'
             /\ Beyond(u, i, M) => Beyond(u, i, M)'
             /\ InWalk(u) => InWalk(u)'
  <2>1. Awaited(u, i, M) => Awaited(u, i, M)'
    BY <1>1, <1>3, <1>7 DEF Awaited
  <2>2. Beyond(u, i, M) => Beyond(u, i, M)'
    BY <1>1, <1>3 DEF Beyond
  <2> QED BY <1>1, <1>3, <2>1, <2>2 DEF InWalk
<1>9. ASSUME NEW i \in Nat, Beyond(t, i, M)
      PROVE  Beyond(t, i + 1, M)'
  <2>1. Upto(M) \in Nat
    BY <1>1, PagesReachFurther
  <2> QED BY <1>1, <1>3, <1>9, <2>1 DEF Beyond
<1>10. ASSUME NEW i \in Nat, Awaited(t, i, M)
       PROVE  Awaited(t, i + 1, M)' \/ Beyond(t, i + 1, M)'
  <2>1. PICK p \in 1..MaxPage :
            /\ Upto(p - 1) < i /\ i <= Upto(p)
            /\ \E r \in Loading :
                   /\ Awaits(r, t, p)
                   /\ page <= p /\ p < M =>
                          \E s \in Loading : s # r /\ Awaits(s, t, p)
    BY <1>10 DEF Awaited
  <2>2. PICK r \in Loading :
            /\ Awaits(r, t, p)
            /\ page <= p /\ p < M =>
                   \E s \in Loading : s # r /\ Awaits(s, t, p)
    BY <2>1
  <2>3. \A q \in Loading : q = r
    BY <1>2 DEF Overtaking
  <2>4. req[r].page = p /\ page <= p /\ p <= M
    <3>1. req[r].page = p
      BY <2>2 DEF Awaits
    <3>2. page \in Nat /\ p \in Nat /\ ~(req[r].page < page)
      BY <1>2 DEF Overtaking, TypeOK
    <3> QED BY <3>1, <3>2 DEF Walked
  <2>5. p = M
    BY <2>2, <2>3, <2>4
  <2>6. p - 1 \in Nat /\ Upto(p - 1) \in Nat /\ Upto(p) \in Nat
    <3>1. p \in Nat /\ p - 1 \in Nat
      OBVIOUS
    <3>2. p <= p /\ p - 1 <= p - 1
      BY <3>1
    <3> QED BY <3>1, <3>2, PagesReachFurther
  <2>7. CASE i + 1 <= Upto(p)
    <3>1. Awaits(r, t, p)' /\ Upto(p - 1) < i + 1
      BY <1>7, <2>1, <2>2, <2>6
    <3> QED BY <1>3, <2>5, <2>7, <3>1 DEF Awaited
  <2>8. CASE i + 1 > Upto(p)
    <3>1. t \in req[r].todo \union req[r].at
      BY <2>2 DEF Awaits
    <3> QED BY <1>1, <1>3, <2>3, <2>5, <2>8, <3>1 DEF Beyond
  <2> QED BY <2>6, <2>7, <2>8
<1>11. ASSUME NEW x, StillToCome(x, M)
       PROVE  StillToCome(x, M)'
  <2>0. PICK u \in Tenants :
            InWalk(u) /\ \E i \in DOMAIN tasks[u] :
                tasks[u][i] = x /\ (Awaited(u, i, M) \/ Beyond(u, i, M))
    BY <1>11 DEF StillToCome
  <2>1. PICK i \in DOMAIN tasks[u] :
            InWalk(u) /\ tasks[u][i] = x /\ (Awaited(u, i, M) \/ Beyond(u, i, M))
    BY <2>0
  <2>2. CASE u = t
    <3>1. PICK n \in DOMAIN tasks'[t] : n \in {i, i + 1} /\ tasks'[t][n] = x
      BY <1>5, <2>1, <2>2
    <3>2. i \in Nat /\ InWalk(t)'
      BY <1>5, <1>8, <2>1, <2>2
    <3>3. Awaited(t, n, M)' \/ Beyond(t, n, M)'
      BY <1>8, <1>9, <1>10, <2>1, <2>2, <3>1, <3>2
    <3> QED BY <3>1, <3>2, <3>3 DEF StillToCome
  <2>3. CASE u # t
    <3>1. tasks'[u] = tasks[u]
      BY <1>4, <2>3
    <3> QED BY <1>8, <2>1, <3>1 DEF StillToCome
  <2> QED BY <2>2, <2>3
<1>12. \A x : Carried(x) => Carried(x)'
  BY <1>1, <1>3 DEF Carried
<1>13. Walked(M)'
  BY <1>1, <1>2, <1>3, <1>11, <1>12 DEF Walked
<1> QED BY <1>6, <1>13

\* A row that ends no page is on the page of the row behind it.
LEMMA SamePage ==
    ASSUME NEW i \in Nat, i >= 1, ~\E n \in 1..i : i = n * PageSize, NEW p \in Nat
    PROVE  i < Upto(p) <=> i <= Upto(p)
<1>1. PageSize \in Nat /\ PageSize >= 1 /\ Upto(p) \in Nat
  BY MonitorAssumption, PagesReachFurther
<1>2. i # Upto(p)
  <2> SUFFICES ASSUME i = Upto(p) PROVE FALSE
    OBVIOUS
  <2>1. CASE p = 0
    BY <1>1, <2>1 DEF Upto
  <2>2. CASE p # 0
    <3>1. p <= Upto(p)
      <4>1. PICK d \in Nat : PageSize = 1 + d
        <5>1. PageSize - 1 \in Nat /\ PageSize = 1 + (PageSize - 1)
          BY <1>1
        <5> QED BY <5>1
      <4>2. p * PageSize = p + p * d /\ p * d \in Nat
        BY <4>1
      <4> QED BY <4>2 DEF Upto
    <3>2. p \in 1..i
      BY <2>2, <3>1
    <3> QED BY <3>2 DEF Upto
  <2> QED BY <2>1, <2>2
<1> QED BY <1>1, <1>2

\* Two rows that change places on one page are awaited, or beyond all pages, as
\* they were.
LEMMA SwapKeepsWalk ==
    ASSUME TypeOK, NEW t \in Tenants, NEW i \in DOMAIN tasks[t],
           RowsSwap(t, i), walk'.ok, NEW M \in 1..MaxPage, Walked(M),
           \A r \in Loading : CountHolds(r)
    PROVE  Walked(M)' /\ \A r \in Loading' : CountHolds(r)'
<1> USE MonitorAssumption
<1> DEFINE new == [tasks[t] EXCEPT ![i] = tasks[t][i + 1], ![i + 1] = tasks[t][i]]
<1>1. /\ UNCHANGED <<tenant, page, filter, shown, req>>
      /\ tasks' = [tasks EXCEPT ![t] = new]
      /\ tasks \in [Tenants -> Seq(Tasks)] /\ tasks[t] \in Seq(Tasks)
      /\ i \in 1..Len(tasks[t]) /\ i + 1 \in 1..Len(tasks[t])
      /\ M \in Nat
  <2>1. tasks \in [Tenants -> Seq(Tasks)] /\ tasks[t] \in Seq(Tasks)
    BY DEF TypeOK
  <2>2. i \in 1..Len(tasks[t]) /\ i + 1 \in 1..Len(tasks[t]) /\ M \in Nat
    BY <2>1 DEF RowsSwap
  <2>3. tasks' = [tasks EXCEPT ![t] = new]
    BY <2>1 DEF RowsSwap
  <2> HIDE DEF new
  <2> QED BY <2>1, <2>2, <2>3 DEF RowsSwap
<1>2. walk' = walk /\ ~\E n \in 1..i : i = n * PageSize
  BY DEF RowsSwap, Disturbed
<1>3. Loading' = Loading /\ Listed' = Listed
  BY <1>1 DEF Loading, Listed
<1>4. /\ tasks'[t] = new /\ Len(new) = Len(tasks[t]) /\ new \in Seq(Tasks)
      /\ new[i] = tasks[t][i + 1] /\ new[i + 1] = tasks[t][i]
      /\ \A j \in 1..Len(tasks[t]) : j # i /\ j # i + 1 => new[j] = tasks[t][j]
      /\ \A u \in Tenants : u # t => tasks'[u] = tasks[u]
  <2>1. /\ Len(new) = Len(tasks[t]) /\ new \in Seq(Tasks)
        /\ new[i] = tasks[t][i + 1] /\ new[i + 1] = tasks[t][i]
        /\ \A j \in 1..Len(tasks[t]) : j # i /\ j # i + 1 => new[j] = tasks[t][j]
    BY <1>1, Swapped
  <2> HIDE DEF new
  <2> QED BY <1>1, <2>1
<1> HIDE DEF new
<1>5. \A r \in Loading' : CountHolds(r)'
  <2> SUFFICES ASSUME NEW r \in Loading, NEW u \in req[r].at
               PROVE  Len(tasks'[u]) <= req[r].total
    BY <1>1, <1>3 DEF CountHolds
  <2>1. u \in Tenants
    BY LoadingIsLoad
  <2> QED BY <1>4, <2>1 DEF CountHolds
<1>6. ASSUME NEW u, NEW n
      PROVE  /\ Awaited(u, n, M) => Awaited(u, n, M)'
             /\ Beyond(u, n, M) => Beyond(u, n, M)'
             /\ InWalk(u) => InWalk(u)'
  <2>1. ASSUME NEW p PROVE \A r : Awaits(r, u, p)' <=> Awaits(r, u, p)
    BY <1>1, <1>3 DEF Awaits
  <2>2. Awaited(u, n, M) => Awaited(u, n, M)'
    BY <1>1, <1>3, <2>1 DEF Awaited
  <2>3. Beyond(u, n, M) => Beyond(u, n, M)'
    BY <1>1, <1>3 DEF Beyond
  <2> QED BY <1>1, <1>3, <2>2, <2>3 DEF InWalk
<1>7. ASSUME NEW p \in Nat
      PROVE  /\ Upto(p) < i <=> Upto(p) < i + 1
             /\ i <= Upto(p) <=> i + 1 <= Upto(p)
  <2>1. Upto(p) \in Nat
    BY PagesReachFurther
  <2>2. i \in Nat /\ i >= 1
    BY <1>1
  <2>3. i < Upto(p) <=> i <= Upto(p)
    BY <1>2, <2>2, SamePage
  <2> QED BY <2>1, <2>2, <2>3
<1>8. Awaited(t, i, M) <=> Awaited(t, i + 1, M)
  <2>1. \A p \in 1..MaxPage : p \in Nat /\ p - 1 \in Nat
    OBVIOUS
  <2> QED BY <1>7, <2>1 DEF Awaited
<1>9. Beyond(t, i, M) <=> Beyond(t, i + 1, M)
  <2>1. Upto(M) \in Nat /\ i \in Nat
    BY <1>1, PagesReachFurther
  <2>2. i > Upto(M) <=> i + 1 > Upto(M)
    BY <1>1, <1>7, <2>1
  <2> QED BY <2>2 DEF Beyond
<1>10. ASSUME NEW x, StillToCome(x, M)
       PROVE  StillToCome(x, M)'
  <2>0. PICK u \in Tenants :
            InWalk(u) /\ \E n \in DOMAIN tasks[u] :
                tasks[u][n] = x /\ (Awaited(u, n, M) \/ Beyond(u, n, M))
    BY <1>10 DEF StillToCome
  <2>1. PICK n \in DOMAIN tasks[u] :
            InWalk(u) /\ tasks[u][n] = x /\ (Awaited(u, n, M) \/ Beyond(u, n, M))
    BY <2>0
  <2>2. CASE u = t
    <3>1. n \in 1..Len(tasks[t]) /\ DOMAIN tasks'[t] = 1..Len(tasks[t])
      BY <1>1, <1>4, <2>1, <2>2
    <3>2. \E m \in DOMAIN tasks'[t] :
              tasks'[t][m] = x /\ (Awaited(t, m, M) \/ Beyond(t, m, M))
      <4>1. CASE n = i
        BY <1>1, <1>4, <1>8, <1>9, <2>1, <2>2, <3>1, <4>1
      <4>2. CASE n = i + 1
        BY <1>1, <1>4, <1>8, <1>9, <2>1, <2>2, <3>1, <4>2
      <4>3. CASE n # i /\ n # i + 1
        BY <1>4, <2>1, <2>2, <3>1, <4>3
      <4> QED BY <4>1, <4>2, <4>3
    <3> QED BY <1>6, <2>1, <2>2, <3>2 DEF StillToCome
  <2>3. CASE u # t
    <3>1. tasks'[u] = tasks[u]
      BY <1>4, <2>3
    <3> QED BY <1>6, <2>1, <3>1 DEF StillToCome
  <2> QED BY <2>2, <2>3
<1>11. \A x : Carried(x) => Carried(x)'
  BY <1>1, <1>3 DEF Carried
<1>12. Walked(M)'
  BY <1>1, <1>2, <1>3, <1>10, <1>11 DEF Walked
<1> QED BY <1>5, <1>12

\* A walk that starts over has all its tasks on the first page, which the load
\* awaits, or beyond it.
LEMMA NewWalkIsWhole ==
    ASSUME TypeOK, NEW r \in Requests, NEW ts \in SUBSET Tenants,
           req'[r] = Load("details", 1, ts), Loading' = {r},
           page' = 1, UNCHANGED dataPlane, walk' = NewWalk(ts),
           ts = (IF filter' = Tenants THEN Listed ELSE filter')
    PROVE  Walked(1)' /\ OneAtATime(r)' /\ CountHolds(r)'
<1> USE MonitorAssumption
<1>1. /\ tasks' = tasks /\ tenant' = tenant /\ Listed' = Listed
      /\ tasks \in [Tenants -> Seq(Tasks)]
  BY DEF dataPlane, Listed, TypeOK
<1>2. OneAtATime(r)' /\ CountHolds(r)'
  BY DEF Load, OneAtATime, CountHolds
<1>3. ASSUME NEW t \in ts PROVE InWalk(t)' /\ Awaits(r, t, 1)'
  BY <1>1, <1>3 DEF InWalk, Awaits, Load, Listed
<1>4. ASSUME NEW t \in ts, NEW i \in DOMAIN tasks[t]
      PROVE  Awaited(t, i, 1)' \/ Beyond(t, i, 1)'
  <2>1. i \in Nat /\ Upto(0) < i /\ Upto(1) \in Nat
    BY <1>1, <1>4 DEF Upto
  <2>2. CASE i <= Upto(1)
    <3>1. 1 \in 1..MaxPage /\ 1 - 1 = 0 /\ ~(1 < 1)
      OBVIOUS
    <3> QED BY <1>3, <2>1, <2>2, <3>1 DEF Awaited
  <2>3. CASE i > Upto(1)
    BY <1>4, <2>3 DEF Beyond, Load
  <2> QED BY <2>1, <2>2, <2>3
<1>5. ASSUME NEW k \in walk'.left PROVE StillToCome(k, 1)'
  <2>0. PICK t \in ts : \E i \in DOMAIN tasks[t] : tasks[t][i] = k
    BY <1>5 DEF NewWalk, TasksOf
  <2>1. PICK i \in DOMAIN tasks[t] : tasks[t][i] = k
    BY <2>0
  <2>2. InWalk(t)' /\ (Awaited(t, i, 1)' \/ Beyond(t, i, 1)')
    BY <1>3, <1>4, <2>1
  <2>3. t \in Tenants /\ i \in DOMAIN tasks'[t] /\ tasks'[t][i] = k
    BY <1>1, <2>1
  <2> QED BY <2>2, <2>3 DEF StillToCome
<1>6. \A q \in Loading' : req'[q].page <= 1
  BY DEF Load
<1> QED BY <1>2, <1>5, <1>6 DEF Walked

\* The pager asks for the next page or for the one before: a task on a new last
\* page is now awaited, and on a page before the last by a second load.
LEMMA TurnKeepsWalk ==
    ASSUME TypeOK, NEW r \in Requests, NEW n \in 1..MaxPage,
           n = page + 1 \/ n = page - 1, Turn(r, n),
           NEW M \in 1..MaxPage, Walked(M),
           \A q \in Loading : OneAtATime(q) /\ CountHolds(q)
    PROVE  /\ \E N \in 1..MaxPage : Walked(N)'
           /\ \A q \in Loading' : OneAtATime(q)' /\ CountHolds(q)'
<1> USE MonitorAssumption
<1> DEFINE ts == IF filter = Tenants THEN Listed ELSE filter
           N == IF n > M THEN n ELSE M
<1>1. /\ UNCHANGED <<tenant, tasks, filter, shown, walk>> /\ page' = n
      /\ req' = [req EXCEPT ![r] = Load("details", n, ts)]
      /\ req \in [Requests -> {Idle} \union Loads] /\ req[r] = Idle
      /\ Listed' = Listed /\ page \in Nat
  BY DEF Turn, dataPlane, TypeOK, Listed
<1>2. /\ Loading' = Loading \union {r} /\ r \notin Loading
      /\ \A q \in Loading : req'[q] = req[q]
      /\ req'[r] = Load("details", n, ts)
  BY <1>1 DEF Loading, Load, Idle
<1> HIDE DEF ts
<1>3. \A q \in Loading' : OneAtATime(q)' /\ CountHolds(q)'
  <2>1. OneAtATime(r)' /\ CountHolds(r)'
    BY <1>2 DEF OneAtATime, CountHolds, Load
  <2>2. ASSUME NEW q \in Loading PROVE OneAtATime(q)' /\ CountHolds(q)'
    BY <1>1, <1>2, <2>2 DEF OneAtATime, CountHolds
  <2> QED BY <1>2, <2>1, <2>2
<1>4. /\ N \in 1..MaxPage /\ M \in Nat /\ N >= M /\ n <= N
      /\ n > M => n = M + 1 /\ N = n
      /\ n <= M => N = M
  BY <1>1 DEF Walked
<1> HIDE DEF N
<1>5. ASSUME NEW t, InWalk(t) PROVE InWalk(t)' /\ Awaits(r, t, n)'
  <2>1. t \in ts
    BY <1>5 DEF InWalk, ts
  <2> QED BY <1>1, <1>2, <1>5, <2>1 DEF InWalk, Awaits, Load
<1>6. ASSUME NEW q, NEW t, NEW p, Awaits(q, t, p) PROVE Awaits(q, t, p)'
  BY <1>2, <1>6 DEF Awaits
<1>7. ASSUME NEW t, NEW i, InWalk(t), Awaited(t, i, M)
      PROVE  Awaited(t, i, N)'
  <2>1. PICK p \in 1..MaxPage :
            /\ Upto(p - 1) < i /\ i <= Upto(p)
            /\ \E q \in Loading :
                   /\ Awaits(q, t, p)
                   /\ page <= p /\ p < M =>
                          \E s \in Loading : s # q /\ Awaits(s, t, p)
    BY <1>7 DEF Awaited
  <2>2. PICK q \in Loading :
            /\ Awaits(q, t, p)
            /\ page <= p /\ p < M =>
                   \E s \in Loading : s # q /\ Awaits(s, t, p)
    BY <2>1
  <2>3. ASSUME n <= p, p < N
        PROVE  \E s \in Loading' : s # q /\ Awaits(s, t, p)'
    <3>1. p < M
      BY <1>4, <2>3
    <3>2. CASE page <= p
      BY <1>2, <1>6, <2>2, <3>1, <3>2
    <3>3. CASE p < page
      <4>1. p = n
        BY <1>1, <2>3, <3>3
      <4> QED BY <1>2, <1>5, <1>7, <4>1
    <3> QED BY <1>1, <3>2, <3>3
  <2> QED BY <1>1, <1>2, <1>6, <2>1, <2>2, <2>3 DEF Awaited
<1>8. ASSUME NEW t, NEW i \in Nat, InWalk(t), Beyond(t, i, M)
      PROVE  Awaited(t, i, N)' \/ Beyond(t, i, N)'
  <2>1. Upto(M) \in Nat /\ Upto(N) \in Nat
    BY <1>4, PagesReachFurther
  <2>2. CASE i > Upto(N)
    <3>1. t \in req'[r].todo \union req'[r].at
      BY <1>5, <1>8 DEF Awaits
    <3> QED BY <1>1, <1>2, <1>8, <2>2, <3>1 DEF Beyond
  <2>3. CASE i <= Upto(N)
    <3>1. N = n /\ n = M + 1 /\ n - 1 = M
      BY <1>4, <1>8, <2>1, <2>3 DEF Beyond
    <3>2. n \in 1..MaxPage /\ Upto(n - 1) < i /\ i <= Upto(n) /\ ~(n < N)
      BY <1>4, <1>8, <2>3, <3>1 DEF Beyond
    <3> QED BY <1>2, <1>5, <1>8, <3>2 DEF Awaited
  <2> QED BY <2>1, <2>2, <2>3
<1>9. ASSUME NEW k, StillToCome(k, M) PROVE StillToCome(k, N)'
  <2>1. PICK t \in Tenants :
            InWalk(t) /\ \E i \in DOMAIN tasks[t] :
                tasks[t][i] = k /\ (Awaited(t, i, M) \/ Beyond(t, i, M))
    BY <1>9 DEF StillToCome
  <2>2. PICK i \in DOMAIN tasks[t] :
            tasks[t][i] = k /\ (Awaited(t, i, M) \/ Beyond(t, i, M))
    BY <2>1
  <2>3. i \in Nat
    BY DEF TypeOK
  <2>4. InWalk(t)' /\ (Awaited(t, i, N)' \/ Beyond(t, i, N)')
    BY <1>5, <1>7, <1>8, <2>1, <2>2, <2>3
  <2> QED BY <1>1, <2>2, <2>4 DEF StillToCome
<1>10. \A k : Carried(k) => Carried(k)'
  BY <1>2 DEF Carried
<1>11. \A q \in Loading' : req'[q].page <= N
  <2>1. \A q \in Loading : req[q].page <= N
    <3> SUFFICES ASSUME NEW q \in Loading PROVE req[q].page <= N
      OBVIOUS
    <3>1. req[q].page \in Nat /\ req[q].page <= M
      BY LoadingIsLoad DEF Walked
    <3> QED BY <1>4, <3>1
  <2> QED BY <1>2, <1>4, <2>1 DEF Load
<1>12. Walked(N)'
  BY <1>1, <1>4, <1>9, <1>10, <1>11 DEF Walked
<1> QED BY <1>3, <1>4, <1>12

\* Skipping a schema without tasks, and counting one, change no page that is
\* awaited, as far as tasks are concerned, and lower no total.
LEMMA VisitKeepsWalk ==
    ASSUME TypeOK, NEW r \in Loading, NEW t \in Tenants,
           SkipTenant(r, t) \/ CountTasks(r, t), walk'.ok,
           \A q \in Loading : CountHolds(q),
           NEW M, Walked(M)
    PROVE  Walked(M)' /\ \A q \in Loading' : CountHolds(q)'
<1> USE MonitorAssumption
<1> DEFINE g == req'[r]
<1>1. /\ r \in Requests /\ req[r].kind = "details"
      /\ req[r].total \in Nat /\ req[r].page \in Nat
      /\ req \in [Requests -> {Idle} \union Loads]
      /\ tasks \in [Tenants -> Seq(Tasks)]
  BY LoadingIsLoad DEF TypeOK
<1>2. UNCHANGED <<tenant, tasks, page, filter, shown, walk>>
  BY <1>1 DEF SkipTenant, CountTasks, Advance, dataPlane, Disturbed
<1>3. /\ req' = [req EXCEPT ![r] = g]
      /\ g.kind = "details" /\ g.page = req[r].page /\ g.items = req[r].items
      /\ \/ /\ req[r].todo \union req[r].at = {t} /\ tasks[t] = <<>>
            /\ g.todo = {} /\ g.at = {} /\ g.total = req[r].total
         \/ /\ req[r].at = {} /\ t \in req[r].todo
            /\ g.todo = req[r].todo \ {t} /\ g.at = {t}
            /\ g.total = req[r].total + Len(tasks[t])
  <2>1. CASE SkipTenant(r, t)
    <3>1. req' = [req EXCEPT ![r] = [req[r] EXCEPT !.todo = {}, !.at = {}]]
      BY <2>1 DEF SkipTenant
    <3>2. g = [req[r] EXCEPT !.todo = {}, !.at = {}]
      BY <1>1, <3>1
    <3>3. tasks[t] = <<>>
      BY <1>1, <2>1 DEF SkipTenant, Disturbed
    <3>4. /\ g.kind = "details" /\ g.page = req[r].page /\ g.items = req[r].items
          /\ g.todo = {} /\ g.at = {} /\ g.total = req[r].total
      BY <1>1, <3>2, LoadingIsLoad
    <3>5. req[r].todo \union req[r].at = {t} /\ req' = [req EXCEPT ![r] = g]
      BY <2>1, <3>1, <3>2 DEF SkipTenant
    <3> HIDE DEF g
    <3> QED BY <3>3, <3>4, <3>5
  <2>2. CASE CountTasks(r, t)
    <3>1. req' = [req EXCEPT ![r] = [req[r] EXCEPT
                      !.todo = @ \ {t}, !.at = {t}, !.total = @ + Len(tasks[t])]]
      BY <1>1, <2>2 DEF CountTasks, Advance
    <3>2. g = [req[r] EXCEPT !.todo = @ \ {t}, !.at = {t},
                             !.total = @ + Len(tasks[t])]
      BY <1>1, <3>1
    <3> QED BY <1>1, <2>2, <3>1, <3>2, LoadingIsLoad DEF CountTasks
  <2> QED BY <2>1, <2>2
<1> HIDE DEF g
<1>4. /\ Loading' = Loading /\ req'[r] = g
      /\ \A q \in Loading : q # r => req'[q] = req[q]
  BY <1>1, <1>3 DEF Loading
<1>5. Listed' = Listed
  BY <1>2 DEF Listed
<1>6. g.total \in Nat /\ g.total >= req[r].total
  BY <1>1, <1>3
<1>7. \A q \in Loading' : CountHolds(q)'
  <2>1. CountHolds(r)'
    BY <1>1, <1>2, <1>3, <1>4 DEF CountHolds
  <2>2. ASSUME NEW q \in Loading, q # r PROVE CountHolds(q)'
    BY <1>2, <1>4, <2>2 DEF CountHolds
  <2> QED BY <1>4, <2>1, <2>2
<1>8. ASSUME NEW u \in Tenants, tasks[u] # <<>>
      PROVE  u \in g.todo \union g.at <=> u \in req[r].todo \union req[r].at
  BY <1>3, <1>8
<1>9. ASSUME NEW u \in Tenants, NEW i \in DOMAIN tasks[u]
      PROVE  /\ InWalk(u) => InWalk(u)'
             /\ Awaited(u, i, M) => Awaited(u, i, M)'
             /\ Beyond(u, i, M) => Beyond(u, i, M)'
  <2>1. tasks[u] # <<>>
    BY <1>1
  <2>2. InWalk(u) => InWalk(u)'
    BY <1>2, <1>5 DEF InWalk
  <2>3. ASSUME NEW q, NEW p PROVE Awaits(q, u, p)' <=> Awaits(q, u, p)
    BY <1>3, <1>4, <1>8, <2>1 DEF Awaits
  <2>4. Awaited(u, i, M) => Awaited(u, i, M)'
    BY <1>2, <1>4, <2>3 DEF Awaited
  <2>5. ASSUME Beyond(u, i, M) PROVE Beyond(u, i, M)'
    <3>1. ASSUME u \notin g.todo \union g.at PROVE g.total > Upto(g.page)
      <4>1. req[r].total > Upto(req[r].page)
        BY <1>8, <2>1, <2>5, <3>1 DEF Beyond
      <4>2. Upto(g.page) \in Nat
        BY <1>1, <1>3, PagesReachFurther
      <4> QED BY <1>1, <1>3, <1>6, <4>1, <4>2
    <3> QED BY <1>4, <2>5, <3>1 DEF Beyond
  <2> QED BY <2>2, <2>4, <2>5
<1>10. ASSUME NEW k, StillToCome(k, M) PROVE StillToCome(k, M)'
  BY <1>2, <1>9, <1>10 DEF StillToCome
<1>11. ASSUME NEW k, Carried(k) PROVE Carried(k)'
  BY <1>3, <1>4, <1>11 DEF Carried
<1>12. Walked(M)'
  BY <1>2, <1>3, <1>4, <1>10, <1>11 DEF Walked
<1> QED BY <1>7, <1>12

\* A row on the page that is read is carried from then on, and one behind all
\* pages has been counted by the load that reads its schema.
LEMMA ReadKeepsWalk ==
    ASSUME TypeOK, NEW r \in Loading, ReadTasks(r),
           \A q \in Loading : OneAtATime(q) /\ CountHolds(q),
           NEW M \in 1..MaxPage, Walked(M)
    PROVE  Walked(M)' /\ \A q \in Loading' : CountHolds(q)'
<1> USE MonitorAssumption
<1>1. PICK t \in req[r].at :
          Advance(r, [req[r] EXCEPT !.at = {},
                                    !.items = @ \union
                          (Slice(t, req[r].page) \intersect walk.left)])
  BY DEF ReadTasks
<1>2. UNCHANGED <<tenant, tasks, page, filter, shown, walk>> /\ Listed' = Listed
  BY <1>1 DEF Advance, dataPlane, Listed
<1>3. /\ r \in Requests /\ req[r].kind = "details"
      /\ req[r].at = {t} /\ t \in Tenants
      /\ req[r].total \in Nat /\ req[r].page \in 0..MaxPage /\ M \in Nat
      /\ req \in [Requests -> {Idle} \union Loads]
      /\ tasks \in [Tenants -> Seq(Tasks)]
  BY <1>1, LoadingIsLoad DEF TypeOK, OneAtATime
<1> DEFINE g == req'[r]
<1>4. /\ g.kind = "details" /\ g.page = req[r].page /\ g.total = req[r].total
      /\ g.todo = req[r].todo /\ g.at = {}
      /\ g.items = req[r].items \union (Slice(t, req[r].page) \intersect walk.left)
      /\ req' = [req EXCEPT ![r] = g]
  <2> DEFINE h == [req[r] EXCEPT !.at = {},
                                 !.items = @ \union
                       (Slice(t, req[r].page) \intersect walk.left)]
  <2>1. req' = [req EXCEPT ![r] = h]
    BY <1>1 DEF Advance
  <2>2. g = h
    BY <1>3, <2>1
  <2> QED BY <2>1, <2>2, LoadingIsLoad
<1> HIDE DEF g
<1>5. /\ Loading' = Loading /\ req'[r] = g
      /\ \A q \in Loading : q # r => req'[q] = req[q]
  BY <1>3, <1>4 DEF Loading
<1>6. \A q \in Loading' : CountHolds(q)'
  BY <1>2, <1>4, <1>5 DEF CountHolds
<1>7. ASSUME NEW u, NEW q \in Loading, NEW p, Awaits(q, u, p)
      PROVE  Awaits(q, u, p)' \/ (q = r /\ u = t)
  BY <1>3, <1>4, <1>5, <1>7 DEF Awaits
<1>8. ASSUME NEW u \in Tenants, NEW i \in DOMAIN tasks[u], NEW k \in walk.left,
             tasks[u][i] = k,
             Awaited(u, i, M)
      PROVE  Awaited(u, i, M)' \/ Carried(k)'
  <2>1. PICK p \in 1..MaxPage :
            /\ Upto(p - 1) < i /\ i <= Upto(p)
            /\ \E q \in Loading :
                   /\ Awaits(q, u, p)
                   /\ page <= p /\ p < M =>
                          \E s \in Loading : s # q /\ Awaits(s, u, p)
    BY <1>8 DEF Awaited
  <2>2. PICK q \in Loading :
            /\ Awaits(q, u, p)
            /\ page <= p /\ p < M =>
                   \E s \in Loading : s # q /\ Awaits(s, u, p)
    BY <2>1
  <2>3. CASE u = t /\ req[r].page = p
    <3>1. k \in Slice(t, req[r].page)
      BY <1>8, <2>1, <2>3 DEF Slice, Upto
    <3> QED BY <1>4, <1>5, <3>1 DEF Carried
  <2>4. CASE ~(u = t /\ req[r].page = p)
    <3>1. \A s \in Loading : Awaits(s, u, p) => Awaits(s, u, p)'
      BY <1>7, <2>4 DEF Awaits
    <3> QED BY <1>2, <1>5, <2>1, <2>2, <3>1 DEF Awaited
  <2> QED BY <2>3, <2>4
<1>9. ASSUME NEW u \in Tenants, NEW i \in DOMAIN tasks[u], Beyond(u, i, M)
      PROVE  Beyond(u, i, M)'
  <2>1. ASSUME u \notin g.todo \union g.at PROVE g.total > Upto(g.page)
    <3>1. CASE u = t
      <4>1. i <= Len(tasks[t]) /\ Len(tasks[t]) <= req[r].total /\ i \in Nat
            /\ Len(tasks[t]) \in Nat
        BY <1>3, <3>1 DEF CountHolds
      <4>2. req[r].page \in Nat /\ req[r].page <= M
        BY <1>3 DEF Walked
      <4>3. Upto(req[r].page) \in Nat /\ Upto(M) \in Nat
            /\ Upto(req[r].page) <= Upto(M)
        BY <1>3, <4>2, PagesReachFurther
      <4> QED BY <1>3, <1>4, <1>9, <4>1, <4>3 DEF Beyond
    <3>2. CASE u # t
      BY <1>3, <1>4, <1>9, <2>1, <3>2 DEF Beyond
    <3> QED BY <3>1, <3>2
  <2> QED BY <1>5, <1>9, <2>1 DEF Beyond
<1>10. ASSUME NEW u \in Tenants, InWalk(u) PROVE InWalk(u)'
  BY <1>2, <1>10 DEF InWalk
<1>11. ASSUME NEW k, Carried(k) PROVE Carried(k)'
  BY <1>4, <1>5, <1>11 DEF Carried
<1>12. ASSUME NEW k \in walk.left, StillToCome(k, M)
       PROVE  StillToCome(k, M)' \/ Carried(k)'
  <2>1. PICK u \in Tenants :
            InWalk(u) /\ \E i \in DOMAIN tasks[u] :
                tasks[u][i] = k /\ (Awaited(u, i, M) \/ Beyond(u, i, M))
    BY <1>12 DEF StillToCome
  <2>2. PICK i \in DOMAIN tasks[u] :
            tasks[u][i] = k /\ (Awaited(u, i, M) \/ Beyond(u, i, M))
    BY <2>1
  <2>3. Awaited(u, i, M)' \/ Beyond(u, i, M)' \/ Carried(k)'
    BY <1>8, <1>9, <2>2
  <2> QED BY <1>2, <1>10, <2>1, <2>2, <2>3 DEF StillToCome
<1>13. Walked(M)'
  BY <1>2, <1>4, <1>5, <1>11, <1>12 DEF Walked
<1> QED BY <1>6, <1>13

\* An answer takes what it carries off the list.  If it is the last one on the
\* way, what is left is beyond its page, and its total says so.
LEMMA AnswerKeepsWalk ==
    ASSUME TypeOK, NEW r \in Loading, Answer(r),
           NEW M \in 1..MaxPage, Walked(M)
    PROVE  Walked(M)' /\ WalkSeesEverything'
<1>1. /\ r \in Requests /\ req[r].kind = "details"
      /\ req[r].todo = {} /\ req[r].at = {}
      /\ req[r].total \in Nat /\ req[r].page \in Nat
  BY LoadingIsLoad DEF Answer
<1>2. /\ UNCHANGED <<tenant, tasks, page, filter>> /\ Listed' = Listed
      /\ walk' = [walk EXCEPT !.left = @ \ req[r].items]
      /\ shown' = [page |-> req[r].page, pages |-> TotalPages(req[r].total),
                   old |-> FALSE]
      /\ req' = [req EXCEPT ![r] = Idle]
      /\ req \in [Requests -> {Idle} \union Loads]
      /\ walk \in [ok : BOOLEAN, left : SUBSET Tasks]
  BY <1>1 DEF Answer, dataPlane, Listed, TypeOK
<1>3. Loading' = Loading \ {r} /\ \A q \in Loading' : req'[q] = req[q]
  BY <1>1, <1>2 DEF Loading, Idle
<1>4. walk'.left = walk.left \ req[r].items
  BY <1>2
<1>5. ASSUME NEW t, NEW q, NEW p, Awaits(q, t, p)
      PROVE  q \in Loading' /\ Awaits(q, t, p)'
  BY <1>1, <1>3, <1>5 DEF Awaits
<1>6. ASSUME NEW t, NEW i, Awaited(t, i, M) PROVE Awaited(t, i, M)'
  BY <1>2, <1>3, <1>5, <1>6 DEF Awaited
<1>7. ASSUME NEW t, NEW i, Beyond(t, i, M) PROVE Beyond(t, i, M)'
  BY <1>3, <1>7 DEF Beyond
<1>8. ASSUME NEW k, StillToCome(k, M) PROVE StillToCome(k, M)'
  <2>1. \A t : InWalk(t) => InWalk(t)'
    BY <1>2, <1>3 DEF InWalk
  <2> QED BY <1>2, <1>6, <1>7, <1>8, <2>1 DEF StillToCome
<1>9. ASSUME NEW k, Carried(k), k \notin req[r].items PROVE Carried(k)'
  BY <1>3, <1>9 DEF Carried
<1>10. Walked(M)'
  BY <1>2, <1>3, <1>4, <1>8, <1>9 DEF Walked
<1>11. WalkSeesEverything'
  <2> SUFFICES ASSUME Loading' = {}, NEW k \in walk'.left
               PROVE  ~(shown'.page >= shown'.pages)
    BY DEF WalkSeesEverything
  <2>1. Loading = {r}
    BY <1>3
  <2>2. StillToCome(k, M)
    BY <1>4, <2>1 DEF Walked, Carried
  <2>3. PICK t \in Tenants :
            InWalk(t) /\ \E i \in DOMAIN tasks[t] :
                tasks[t][i] = k /\ (Awaited(t, i, M) \/ Beyond(t, i, M))
    BY <2>2 DEF StillToCome
  <2>4. PICK i \in DOMAIN tasks[t] : Awaited(t, i, M) \/ Beyond(t, i, M)
    BY <2>3
  <2>5. Beyond(t, i, M)
    BY <1>5, <2>4 DEF Awaited
  <2>6. t \notin req[r].todo \union req[r].at
    BY <1>1
  <2>7. req[r].total > Upto(req[r].page)
    BY <2>5, <2>6 DEF Beyond
  <2>8. TotalPages(req[r].total) > req[r].page
    BY <1>1, <2>7, MorePages
  <2>9. TotalPages(req[r].total) \in Nat
    BY <1>1, PagesArePositive
  <2> QED BY <1>1, <1>2, <2>8, <2>9
<1> QED BY <1>10, <1>11

\* The walk survives the loads of the page: a new walk starts whole, and a turn
\* of the pager goes on with the old one.
LEMMA PageKeepsWalk ==
    ASSUME WalkInv, TypeOK', NEW r \in Requests,
           PageMoves(r)
    PROVE  WalkInv'
<1> USE MonitorAssumption
<1>0. TypeOK /\ TasksHaveTables
  BY DEF WalkInv
<1>1. UNCHANGED <<tenant, tasks>>
  BY DEF PageMoves, OpenPage, ChangeFilter, NextPage, PreviousPage, Turn, dataPlane
<1>2. TasksHaveTables'
  BY <1>0, <1>1 DEF TasksHaveTables
<1>3. ASSUME NEW ts \in SUBSET Tenants, req'[r] = Load("details", 1, ts),
             Loading' = {r}, page' = 1, walk' = NewWalk(ts),
             ts = (IF filter' = Tenants THEN Listed ELSE filter')
      PROVE  WalkInv'
  <2>1. Walked(1)' /\ OneAtATime(r)' /\ CountHolds(r)'
    BY <1>0, <1>1, <1>3, NewWalkIsWhole DEF dataPlane
  <2>2. WalkSeesEverything'
    BY <1>3 DEF WalkSeesEverything
  <2>3. 1 \in 1..MaxPage
    OBVIOUS
  <2> QED BY <1>2, <1>3, <2>1, <2>2, <2>3 DEF WalkInv
<1>4. ASSUME OpenPage(r, "details") PROVE WalkInv'
  <2>1. /\ req'[r] = Load("details", 1, Listed) /\ Loading' = {r}
        /\ page' = 1 /\ walk' = NewWalk(Listed) /\ filter' = Tenants
    BY <1>4 DEF OpenPage, Loading, Load, Idle
  <2>2. Listed \in SUBSET Tenants
    BY DEF Listed
  <2> QED BY <1>3, <2>1, <2>2
<1>5. ASSUME OpenPage(r, "stats") PROVE WalkInv'
  <2>1. Loading' = {} /\ walk' = Disturbed
    BY <1>5 DEF OpenPage, Loading, Load, Idle
  <2> QED BY <1>2, <2>1 DEF WalkInv, WalkSeesEverything, Disturbed
<1>6. ASSUME NEW ts \in SUBSET Tenants, ChangeFilter(r, ts) PROVE WalkInv'
  <2> DEFINE asked == IF ts = Tenants THEN Listed ELSE ts
  <2>1. /\ page' = 1 /\ filter' = ts /\ walk' = NewWalk(asked)
        /\ req' = [q \in Requests |->
                       CASE q = r -> Load("details", 1, asked)
                         [] q # r /\ req[q].kind \in {"details", "old"} ->
                                OldLoad(req[q].page)
                         [] OTHER -> Idle]
    BY <1>6 DEF ChangeFilter
  <2>2. asked \in SUBSET Tenants
    BY DEF Listed
  <2>3. asked = (IF filter' = Tenants THEN Listed ELSE filter')
    BY <2>1
  <2> HIDE DEF asked
  <2>4. req'[r] = Load("details", 1, asked)
    BY <2>1
  <2>5. Loading' = {r}
    BY <2>1 DEF Loading, Load, OldLoad, Idle
  <2> QED BY <1>3, <2>1, <2>2, <2>3, <2>4, <2>5
<1>7. ASSUME NEW n \in 1..MaxPage, n = page + 1 \/ n = page - 1, Turn(r, n)
      PROVE  WalkInv'
  <2>1. r \in Loading' /\ walk' = walk
    BY <1>0, <1>7 DEF Turn, Loading, Load, TypeOK
  <2>2. WalkSeesEverything'
    BY <2>1 DEF WalkSeesEverything
  <2>3. \A q \in Loading' : OneAtATime(q)'
    <3>1. \A q \in Loading' : q = r \/ (q \in Loading /\ req'[q] = req[q])
      BY <1>0, <1>7 DEF Turn, Loading, TypeOK
    <3>2. req'[r].at = {}
      BY <1>0, <1>7 DEF Turn, Load, TypeOK
    <3> QED BY <3>1, <3>2 DEF OneAtATime, WalkInv
  <2>4. ASSUME walk'.ok
        PROVE  /\ \A q \in Loading' : CountHolds(q)'
               /\ \E N \in 1..MaxPage : Walked(N)'
    <3>1. PICK M \in 1..MaxPage : Walked(M)
      BY <2>1, <2>4 DEF WalkInv
    <3>2. \A q \in Loading : OneAtATime(q) /\ CountHolds(q)
      BY <2>1, <2>4 DEF WalkInv
    <3> QED BY <1>0, <1>7, <3>1, <3>2, TurnKeepsWalk
  <2> QED BY <1>2, <2>2, <2>3, <2>4 DEF WalkInv
<1>8. NextPage(r) => page + 1 \in 1..MaxPage /\ Turn(r, page + 1)
  BY <1>0 DEF NextPage, TypeOK
<1>9. PreviousPage(r) => page - 1 \in 1..MaxPage /\ Turn(r, page - 1)
  BY <1>0 DEF PreviousPage, TypeOK
<1> QED BY <1>4, <1>5, <1>6, <1>7, <1>8, <1>9 DEF PageMoves

\* The counter that leaves the first page backwards changes what nobody awaits.
LEMMA BelowKeepsWalk ==
    ASSUME WalkInv, TypeOK', PageBelowFirst
    PROVE  WalkInv'
<1>1. UNCHANGED <<tenant, tasks, filter, shown, req, walk>> /\ page = 1 /\ page' = 0
  BY DEF PageBelowFirst, dataPlane
<1>2. Loading' = Loading /\ Listed' = Listed
  BY <1>1 DEF Loading, Listed
<1>3. /\ TasksHaveTables' /\ \A q \in Loading' : OneAtATime(q)'
      /\ walk'.ok => \A q \in Loading' : CountHolds(q)'
      /\ WalkSeesEverything'
  BY <1>1, <1>2 DEF WalkInv, TasksHaveTables, OneAtATime, CountHolds, WalkSeesEverything
<1>4. ASSUME NEW M \in 1..MaxPage, Walked(M) PROVE Walked(M)'
  <2>1. ASSUME NEW q, NEW t, NEW p PROVE Awaits(q, t, p)' <=> Awaits(q, t, p)
    BY <1>1, <1>2 DEF Awaits
  <2>2. ASSUME NEW t, NEW i, Awaited(t, i, M) PROVE Awaited(t, i, M)'
    <3>1. \A p \in 1..MaxPage : page <= p
      BY <1>1
    <3> QED BY <1>1, <1>2, <2>1, <2>2, <3>1 DEF Awaited
  <2>3. ASSUME NEW t, NEW i, Beyond(t, i, M) PROVE Beyond(t, i, M)'
    BY <1>1, <1>2, <2>3 DEF Beyond
  <2>4. ASSUME NEW k, StillToCome(k, M) PROVE StillToCome(k, M)'
    <3>1. \A t : InWalk(t) => InWalk(t)'
      BY <1>1, <1>2 DEF InWalk
    <3> QED BY <1>1, <2>2, <2>3, <2>4, <3>1 DEF StillToCome
  <2>5. \A k : Carried(k) => Carried(k)'
    BY <1>1, <1>2 DEF Carried
  <2>6. page' <= M
    BY <1>1, MonitorAssumption
  <2> QED BY <1>1, <1>2, <1>4, <2>4, <2>5, <2>6 DEF Walked
<1> QED BY <1>1, <1>3, <1>4 DEF WalkInv

\* A load that is none of the walk's goes its way beside it.
LEMMA OthersKeepWalk ==
    ASSUME WalkInv, TypeOK',
           UNCHANGED <<tasks, page, filter, walk>>,
           Loading' = Loading, \A q \in Loading : req'[q] = req[q],
           \A t \in Tenants : tasks[t] # <<>> => tenant'[t] = tenant[t],
           UNCHANGED shown \/ shown'.old
    PROVE  WalkInv'
<1>1. TasksHaveTables'
  BY DEF WalkInv, TasksHaveTables
<1>2. \A q \in Loading' : OneAtATime(q)'
  BY DEF WalkInv, OneAtATime
<1>3. ASSUME walk'.ok
      PROVE  (\A q \in Loading' : CountHolds(q)') /\ \E M \in 1..MaxPage : Walked(M)'
  <2>1. \A q \in Loading' : CountHolds(q)'
    BY <1>3 DEF WalkInv, CountHolds
  <2>2. PICK M \in 1..MaxPage : Walked(M)
    BY <1>3 DEF WalkInv
  <2>3. \A t \in Listed : tasks[t] # <<>> => t \in Listed'
    BY DEF Listed
  <2>4. Walked(M)'
    BY <2>2, <2>3, WalkFrame
  <2> QED BY <2>1, <2>4
<1>4. WalkSeesEverything'
  BY DEF WalkInv, WalkSeesEverything
<1> QED BY <1>1, <1>2, <1>3, <1>4 DEF WalkInv

\* Whichever way a visit ends, the load goes on with its question.
LEMMA VisitGoesOn ==
    ASSUME TypeOK, NEW r \in Requests, NEW t \in Tenants,
           SkipTenant(r, t) \/ CountTasks(r, t)
    PROVE  /\ req' = [req EXCEPT ![r] = req'[r]]
           /\ req'[r].kind = req[r].kind
           /\ \A u, v \in req'[r].at : u = v
           /\ UNCHANGED <<tenant, tasks, page, filter, shown>>
           /\ walk' = walk \/ (walk' = Disturbed /\ req[r].kind = "details")
<1>1. /\ UNCHANGED <<tenant, tasks, page, filter, shown>>
      /\ walk' = walk \/ (walk' = Disturbed /\ req[r].kind = "details")
      /\ req \in [Requests -> {Idle} \union Loads]
  BY DEF SkipTenant, CountTasks, Advance, dataPlane, TypeOK
<1>2. ASSUME NEW g, req' = [req EXCEPT ![r] = g], g.kind = req[r].kind,
             \A u, v \in g.at : u = v
      PROVE  /\ req' = [req EXCEPT ![r] = req'[r]] /\ req'[r].kind = req[r].kind
             /\ \A u, v \in req'[r].at : u = v
  BY <1>1, <1>2
<1>3. CASE SkipTenant(r, t)
  <2> DEFINE g == [req[r] EXCEPT !.todo = {}, !.at = {}]
  <2>1. req' = [req EXCEPT ![r] = g] /\ Running(r)
    BY <1>3 DEF SkipTenant
  <2>2. g.kind = req[r].kind /\ g.at = {}
    BY <2>1, RunningIsLoad
  <2> HIDE DEF g
  <2> QED BY <1>1, <1>2, <2>1, <2>2
<1>4. CASE CountTasks(r, t)
  <2> DEFINE more == IF req[r].kind = "details"
                     THEN req[r].total + Len(tasks[t]) ELSE 0
             at == IF req[r].kind = "details" THEN {t} ELSE {}
             g == [req[r] EXCEPT !.todo = @ \ {t}, !.at = at, !.total = more]
  <2>1. req' = [req EXCEPT ![r] = g] /\ Running(r)
    BY <1>4 DEF CountTasks, Advance
  <2>2. \A u, v \in at : u = v
    OBVIOUS
  <2> HIDE DEF more, at
  <2>3. g.kind = req[r].kind /\ g.at = at
    BY <2>1, RunningIsLoad
  <2> HIDE DEF g
  <2> QED BY <1>1, <1>2, <2>1, <2>2, <2>3
<1> QED BY <1>3, <1>4

\* The walk survives what the handlers do.
LEMMA HandlerKeepsWalk ==
    ASSUME WalkInv, TypeOK', NEW r \in Requests,
           HandlerMoves(r)
    PROVE  WalkInv'
<1> USE MonitorAssumption
<1>0. /\ TypeOK /\ TasksHaveTables /\ \A q \in Loading : OneAtATime(q)
      /\ req \in [Requests -> {Idle} \union Loads]
  BY DEF WalkInv, TypeOK
<1>1. ASSUME NEW g, req' = [req EXCEPT ![r] = g]
      PROVE  /\ req'[r] = g
             /\ \A q \in Loading : q # r => q \in Loading' /\ req'[q] = req[q]
             /\ \A q \in Loading' : q # r => q \in Loading
  BY <1>0, <1>1 DEF Loading
<1>2. ASSUME NEW g, Advance(r, g), r \notin Loading, g.kind # "details"
      PROVE  WalkInv'
  <2>1. Loading' = Loading /\ \A q \in Loading : req'[q] = req[q]
    BY <1>1, <1>2 DEF Advance, Loading
  <2> QED BY <1>2, <2>1, OthersKeepWalk DEF Advance, dataPlane
<1>3. ASSUME NEW t \in Tenants, SkipTenant(r, t) \/ CountTasks(r, t) PROVE WalkInv'
  <2>1. CASE r \in Loading
    <3>1. /\ UNCHANGED <<tenant, tasks, shown>> /\ r \in Loading'
          /\ req' = [req EXCEPT ![r] = req'[r]]
          /\ walk' = walk \/ walk' = Disturbed
      BY <1>0, <1>3, <2>1, VisitGoesOn DEF Loading
    <3>2. ASSUME NEW q \in Loading' PROVE OneAtATime(q)'
      <4>1. CASE q = r
        BY <1>0, <1>3, <4>1, VisitGoesOn DEF OneAtATime
      <4>2. CASE q # r
        <5>1. OneAtATime(q) /\ req'[q] = req[q]
          BY <1>0, <1>1, <3>1, <4>2
        <5> QED BY <5>1 DEF OneAtATime
      <4> QED BY <4>1, <4>2
    <3>3. ASSUME walk'.ok
          PROVE  /\ \A q \in Loading' : CountHolds(q)'
                 /\ \E M \in 1..MaxPage : Walked(M)'
      <4>1. walk.ok
        BY <3>1, <3>3 DEF Disturbed
      <4>2. PICK M \in 1..MaxPage : Walked(M)
        BY <4>1 DEF WalkInv
      <4>3. \A q \in Loading : CountHolds(q)
        BY <4>1 DEF WalkInv
      <4> QED BY <1>0, <1>3, <2>1, <3>3, <4>2, <4>3, VisitKeepsWalk
    <3> QED BY <3>1, <3>2, <3>3
            DEF WalkInv, TasksHaveTables, WalkSeesEverything
  <2>2. CASE r \notin Loading
    <3>1. Running(r) /\ req[r].kind = "stats"
      BY <1>3, <2>2 DEF SkipTenant, CountTasks, Running, Loading
    <3>2. Loading' = Loading /\ \A q \in Loading : req'[q] = req[q]
      BY <1>0, <1>1, <1>3, <3>1, VisitGoesOn DEF Loading
    <3>3. UNCHANGED <<tenant, tasks, page, filter, shown, walk>>
      BY <1>0, <1>3, <3>1, VisitGoesOn
    <3> QED BY <3>2, <3>3, OthersKeepWalk
  <2> QED BY <2>1, <2>2
<1>4. ASSUME ReadTasks(r) PROVE WalkInv'
  <2>1. PICK t \in req[r].at :
            Advance(r, [req[r] EXCEPT !.at = {},
                                      !.items = @ \union
                            (Slice(t, req[r].page) \intersect walk.left)])
    BY <1>4 DEF ReadTasks
  <2> DEFINE g == [req[r] EXCEPT !.at = {},
                                 !.items = @ \union
                       (Slice(t, req[r].page) \intersect walk.left)]
  <2>2. Advance(r, g) /\ Running(r)
    BY <1>4, <2>1 DEF ReadTasks
  <2>3. g.kind = req[r].kind /\ g.todo = req[r].todo /\ g.at = {}
    BY <1>0, <2>2, RunningIsLoad
  <2> HIDE DEF g
  <2>4. req' = [req EXCEPT ![r] = g] /\ UNCHANGED <<tenant, tasks, walk, shown>>
    BY <2>2 DEF Advance, dataPlane
  <2>5. CASE r \in Loading
    <3>1. ASSUME NEW q \in Loading' PROVE OneAtATime(q)'
      <4>1. CASE q = r
        <5>1. OneAtATime(r) /\ req'[r] = g
          BY <1>0, <1>1, <2>4, <2>5
        <5> QED BY <2>3, <4>1, <5>1 DEF OneAtATime
      <4>2. CASE q # r
        <5>1. OneAtATime(q) /\ req'[q] = req[q]
          BY <1>0, <1>1, <2>4, <4>2
        <5> QED BY <5>1 DEF OneAtATime
      <4> QED BY <4>1, <4>2
    <3>2. r \in Loading'
      BY <1>1, <2>3, <2>4, <2>5 DEF Loading
    <3>3. ASSUME walk'.ok
          PROVE  /\ \A q \in Loading' : CountHolds(q)'
                 /\ \E M \in 1..MaxPage : Walked(M)'
      <4>1. PICK M \in 1..MaxPage : Walked(M)
        BY <2>4, <3>3 DEF WalkInv
      <4>2. \A q \in Loading : CountHolds(q)
        BY <2>4, <3>3 DEF WalkInv
      <4> QED BY <1>0, <1>4, <2>5, <4>1, <4>2, ReadKeepsWalk
    <3> QED BY <2>4, <3>1, <3>2, <3>3
            DEF WalkInv, TasksHaveTables, WalkSeesEverything
  <2>6. CASE r \notin Loading
    <3>1. g.kind # "details"
      BY <2>3, <2>6 DEF Loading
    <3> QED BY <1>2, <2>2, <2>6, <3>1
  <2> QED BY <2>5, <2>6
<1>5. ASSUME req' = [req EXCEPT ![r] = Idle], UNCHANGED <<tenant, tasks>>
      PROVE  /\ TasksHaveTables'
             /\ \A q \in Loading' : q \in Loading /\ req'[q] = req[q]
             /\ \A q \in Loading' : OneAtATime(q)'
  <2>1. TasksHaveTables'
    BY <1>0, <1>5 DEF TasksHaveTables
  <2>2. \A q \in Loading' : q \in Loading /\ req'[q] = req[q]
    BY <1>0, <1>5 DEF Loading, Idle
  <2> QED BY <1>0, <2>1, <2>2 DEF OneAtATime
<1>6. ASSUME req' = [req EXCEPT ![r] = Idle], r \notin Loading
      PROVE  Loading' = Loading /\ \A q \in Loading : req'[q] = req[q]
  BY <1>0, <1>6 DEF Loading, Idle
<1>7. ASSUME Answer(r) PROVE WalkInv'
  <2>1. /\ req' = [req EXCEPT ![r] = Idle]
        /\ UNCHANGED <<tenant, tasks, page, filter>>
    BY <1>7 DEF Answer, dataPlane
  <2>2. CASE r \in Loading
    <3>1. /\ walk' = [walk EXCEPT !.left = @ \ req[r].items]
          /\ shown' = [page |-> req[r].page, pages |-> TotalPages(req[r].total),
                       old |-> FALSE]
      BY <1>7, <2>2 DEF Answer, Loading
    <3>2. walk'.ok = walk.ok
      BY <1>0, <3>1 DEF TypeOK
    <3>3. ASSUME walk'.ok
          PROVE  /\ \A q \in Loading' : CountHolds(q)'
                 /\ \E M \in 1..MaxPage : Walked(M)'
                 /\ WalkSeesEverything'
      <4>1. PICK M \in 1..MaxPage : Walked(M)
        BY <3>2, <3>3 DEF WalkInv
      <4>2. \A q \in Loading' : CountHolds(q)'
        BY <1>5, <2>1, <3>2, <3>3 DEF WalkInv, CountHolds
      <4>3. Walked(M)' /\ WalkSeesEverything'
        BY <1>0, <1>7, <2>2, <4>1, AnswerKeepsWalk
      <4> QED BY <4>2, <4>3
    <3> QED BY <1>5, <2>1, <3>3 DEF WalkInv, WalkSeesEverything
  <2>3. CASE r \notin Loading
    <3>1. UNCHANGED <<shown, walk>>
      BY <1>7, <2>3 DEF Answer, Loading
    <3> QED BY <1>6, <2>1, <2>3, <3>1, OthersKeepWalk
  <2> QED BY <2>2, <2>3
<1>8. ASSUME HandlerFails(r) PROVE WalkInv'
  <2>1. /\ req' = [req EXCEPT ![r] = Idle]
        /\ UNCHANGED <<tenant, tasks, page, filter, shown>>
    BY <1>8 DEF HandlerFails, dataPlane
  <2>2. CASE r \in Loading
    <3>1. walk' = Disturbed
      BY <1>8, <2>2 DEF HandlerFails, Loading
    <3> QED BY <1>5, <2>1, <3>1 DEF WalkInv, WalkSeesEverything, Disturbed
  <2>3. CASE r \notin Loading
    <3>1. walk' = walk
      BY <1>8, <2>3 DEF HandlerFails, Loading
    <3> QED BY <1>6, <2>1, <2>3, <3>1, OthersKeepWalk
  <2> QED BY <2>2, <2>3
<1>9. ASSUME NEW n \in 1..MaxPage, OldAnswer(r, n) PROVE WalkInv'
  <2>1. /\ req' = [req EXCEPT ![r] = Idle] /\ r \notin Loading
        /\ UNCHANGED <<tenant, tasks, page, filter, walk>> /\ shown'.old
    BY <1>9 DEF OldAnswer, Loading, dataPlane
  <2> QED BY <1>6, <2>1, OthersKeepWalk
<1> QED BY <1>3, <1>4, <1>7, <1>8, <1>9 DEF HandlerMoves

\* The walk survives the data plane: tasks that arrive push others down, some
\* change places, and who leaves with tasks ends the walk.
LEMMA DataPlaneKeepsWalk ==
    ASSUME WalkInv, TypeOK', NEW t \in Tenants, DataPlaneMoves(t)
    PROVE  WalkInv'
<1>0. /\ TypeOK /\ TasksHaveTables /\ \A r \in Loading : OneAtATime(r)
      /\ tenant \in [Tenants -> Stages] /\ tasks \in [Tenants -> Seq(Tasks)]
  BY DEF WalkInv, TypeOK
<1>1. UNCHANGED <<page, filter, shown, req>> /\ Loading' = Loading
  BY DEF DataPlaneMoves, TenantArrives, TenantLeaves, TaskArrives, TaskLeaves,
         RowsSwap, Loading
<1>2. \A r \in Loading' : OneAtATime(r)'
  BY <1>0, <1>1 DEF OneAtATime
<1>3. ASSUME walk' = Disturbed, TasksHaveTables' PROVE WalkInv'
  BY <1>2, <1>3 DEF WalkInv, WalkSeesEverything, Disturbed
<1>4. ASSUME TenantArrives(t) PROVE WalkInv'
  <2>1. UNCHANGED <<tasks, walk>>
    BY <1>4 DEF TenantArrives
  <2>2. \A u \in Tenants : tasks[u] # <<>> => tenant'[u] = tenant[u]
    BY <1>0, <1>4 DEF TenantArrives, Moves, TasksHaveTables
  <2> QED BY <1>1, <2>1, <2>2, OthersKeepWalk
<1>5. ASSUME TenantLeaves(t) PROVE WalkInv'
  <2>1. CASE tasks[t] # <<>>
    <3>1. TasksHaveTables'
      BY <1>0, <1>5 DEF TenantLeaves, Moves, TasksHaveTables
    <3> QED BY <1>3, <1>5, <2>1, <3>1 DEF TenantLeaves
  <2>2. CASE tasks[t] = <<>>
    <3>1. walk' = walk
      BY <1>5, <2>2 DEF TenantLeaves
    <3>2. tasks' = tasks
      BY <1>0, <1>5, <2>2 DEF TenantLeaves
    <3>3. \A u \in Tenants : tasks[u] # <<>> => tenant'[u] = tenant[u]
      BY <1>0, <1>5, <2>2 DEF TenantLeaves, Moves
    <3> QED BY <1>1, <3>1, <3>2, <3>3, OthersKeepWalk
  <2> QED BY <2>1, <2>2
<1>6. ASSUME NEW list, tasks' = [tasks EXCEPT ![t] = list], tenant' = tenant,
             tenant[t] # "none"
      PROVE  TasksHaveTables'
  BY <1>0, <1>6 DEF TasksHaveTables
<1>7. ASSUME walk' = walk \/ walk' = Disturbed, TasksHaveTables',
             ASSUME walk'.ok, NEW M \in 1..MaxPage, Walked(M),
                    \A r \in Loading : CountHolds(r)
             PROVE  Walked(M)' /\ \A r \in Loading' : CountHolds(r)'
      PROVE  WalkInv'
  <2>1. WalkSeesEverything'
    BY <1>1, <1>7 DEF WalkInv, WalkSeesEverything, Disturbed
  <2>2. ASSUME walk'.ok
        PROVE  /\ \A r \in Loading' : CountHolds(r)'
               /\ \E M \in 1..MaxPage : Walked(M)'
    <3>1. walk.ok
      BY <1>7, <2>2 DEF Disturbed
    <3>2. PICK M \in 1..MaxPage : Walked(M)
      BY <3>1 DEF WalkInv
    <3>3. \A r \in Loading : CountHolds(r)
      BY <3>1 DEF WalkInv
    <3> QED BY <1>7, <2>2, <3>2, <3>3
  <2> QED BY <1>2, <1>7, <2>1, <2>2 DEF WalkInv
<1>8. ASSUME NEW k \in Tasks, NEW j \in 1..(Len(tasks[t]) + 1), TaskArrives(t, k, j)
      PROVE  WalkInv'
  <2>1. TasksHaveTables' /\ (walk' = walk \/ walk' = Disturbed)
    BY <1>6, <1>8 DEF TaskArrives
  <2> QED BY <1>0, <1>7, <1>8, <2>1, ArrivalKeepsWalk
<1>9. ASSUME NEW i \in DOMAIN tasks[t] PROVE tenant[t] # "none"
  <2>1. tasks[t] # <<>>
    BY <1>0
  <2> QED BY <1>0, <2>1 DEF TasksHaveTables
<1>10. ASSUME NEW i \in DOMAIN tasks[t], TaskLeaves(t, i) PROVE WalkInv'
  <2>1. TasksHaveTables' /\ walk' = Disturbed
    BY <1>6, <1>9, <1>10 DEF TaskLeaves
  <2> QED BY <1>3, <2>1
<1>11. ASSUME NEW i \in DOMAIN tasks[t], RowsSwap(t, i) PROVE WalkInv'
  <2> DEFINE new == [tasks[t] EXCEPT ![i] = tasks[t][i + 1], ![i + 1] = tasks[t][i]]
  <2>1. /\ tasks' = [tasks EXCEPT ![t] = new] /\ tenant' = tenant
        /\ walk' = walk \/ walk' = Disturbed
    BY <1>0, <1>11 DEF RowsSwap
  <2> HIDE DEF new
  <2>2. TasksHaveTables'
    BY <1>6, <1>9, <2>1
  <2> QED BY <1>0, <1>7, <1>11, <2>1, <2>2, SwapKeepsWalk
<1> QED BY <1>4, <1>5, <1>8, <1>10, <1>11 DEF DataPlaneMoves

LEMMA WalkInit == Init => WalkInv
<1> SUFFICES ASSUME Init PROVE WalkInv
  OBVIOUS
<1>1. Loading = {} /\ walk.ok = FALSE
  BY DEF Init, Loading, Idle, Disturbed
<1>2. TasksHaveTables
  BY DEF Init, TasksHaveTables
<1> QED BY <1>1, <1>2, InitType DEF WalkInv, WalkSeesEverything

LEMMA WalkStep == WalkInv /\ [Next]_vars => WalkInv'
<1> SUFFICES ASSUME WalkInv, [Next]_vars PROVE WalkInv'
  OBVIOUS
<1>0. TypeOK'
  BY TypeStep DEF WalkInv
<1>1. CASE UNCHANGED vars
  <2>1. UNCHANGED <<tenant, tasks, page, filter, shown, req, walk>>
    BY <1>1 DEF vars
  <2>2. Loading' = Loading
    BY <2>1 DEF Loading
  <2> QED BY <1>0, <2>1, <2>2, OthersKeepWalk
<1>2. ASSUME NEW t \in Tenants, DataPlaneMoves(t) PROVE WalkInv'
  BY <1>0, <1>2, DataPlaneKeepsWalk
<1>3. ASSUME NEW r \in Requests, PageMoves(r) PROVE WalkInv'
  BY <1>0, <1>3, PageKeepsWalk
<1>4. ASSUME NEW r \in Requests, HandlerMoves(r) PROVE WalkInv'
  BY <1>0, <1>4, HandlerKeepsWalk
<1>5. ASSUME PageBelowFirst PROVE WalkInv'
  BY <1>0, <1>5, BelowKeepsWalk
<1> QED BY <1>1, <1>2, <1>3, <1>4, <1>5, StepsByActor

\* Whoever pages to the end has been shown every task that was there when the
\* walk began, unless something disturbed it: for any number of tenants, tasks and
\* loads, and pages of any size.
THEOREM WalksSeeEverything == Spec => []WalkSeesEverything
<1>1. WalkInv => WalkSeesEverything
  BY DEF WalkInv
<1> QED BY <1>1, WalkInit, WalkStep, PTL DEF Spec

=============================================================================

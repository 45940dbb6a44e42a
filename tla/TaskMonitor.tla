----------------------------- MODULE TaskMonitor -----------------------------
(***************************************************************************)
(* The administrator's task page: the handlers of /admin/api/task-stats    *)
(* and /task-details, which walk over the schemas of all ACTIVE tenants in *)
(* one session, and task_monitor.js, which asks them page by page.         *)
(*                                                                         *)
(* The tables async_operations belong to the data plane.  A tenant has     *)
(* none before its first use and none after its purge.  Every schema is    *)
(* paged for itself, while the number of pages is computed from the total. *)
(***************************************************************************)
EXTENDS Naturals, Sequences

CONSTANTS
    Tenants,
    Tasks,    \* operations of the data plane
    Requests, \* loads of the page that may be in flight
    PageSize, \* page_size, 20 in the page
    MaxPage   \* bound: the page counter

ASSUME MonitorAssumption == PageSize \in Nat \ {0} /\ MaxPage \in Nat \ {0}

VARIABLES
    tenant,  \* each tenant, as far as the handlers can tell
    tasks,   \* the rows of async_operations that match the filters of the page,
             \* in the order in which a SELECT would return them now
    page,    \* _taskCurrentPage
    filter,  \* the tenants that filter-tenant stands for
    shown,   \* the table and the pager
    req,     \* the loads in flight
    walk     \* history: the tasks of the time of the last opening or change of
             \* filter that were not shown since

vars == <<tenant, tasks, page, filter, shown, req, walk>>
dataPlane == <<tenant, tasks>>

\* "deleted" is DELETING with a schema that waits for its purge; "none" is no
\* tenant, one whose schema is gone, or the next one under this name.  An ACTIVE
\* tenant whose schema is not there yet is one without tasks: that its table is
\* not found is one of the errors for which a handler skips it.
Stages == {"none", "active", "deleted"}
Listed == {t \in Tenants : tenant[t] = "active"}

Idle == [kind |-> "idle"]

TasksOf(ts) == UNION {{tasks[t][i] : i \in DOMAIN tasks[t]} : t \in ts}

\* A load: the tenants its handler has still to visit, the one it has counted
\* and not yet read, the total, and those of its rows that the walk waits for.
\* Once the filter has changed only its place in the pager matters.
Load(kind, n, ts) ==
    [kind |-> kind, page |-> n, todo |-> ts, at |-> {}, total |-> 0, items |-> {}]
OldLoad(n) == [kind |-> "old", page |-> n]
Loads ==
    [kind : {"stats", "details"}, page : 1..MaxPage, todo : SUBSET Tenants,
     at : SUBSET Tenants, total : Nat, items : SUBSET Tasks]
    \union [kind : {"old"}, page : 1..MaxPage]

Nothing == [page |-> 1, pages |-> 1, old |-> FALSE]
Disturbed == [ok |-> FALSE, left |-> {}]

Loading == {r \in Requests : req[r].kind = "details"}
Running(r) == req[r].kind \in {"stats", "details"}

Init ==
    /\ tenant = [t \in Tenants |-> "none"]
    /\ tasks = [t \in Tenants |-> <<>>]
    /\ page = 1
    /\ filter = Tenants
    /\ shown = Nothing
    /\ req = [r \in Requests |-> Idle]
    /\ walk = Disturbed

----------------------------------------------------------------------------
\* The data plane and the other handlers of the manager.

\* Tenants are created, deleted and purged.  A transaction keeps the tables it
\* has read, so a purge waits; that matters between the count and the rows, for
\* once these are read the load depends on the table no more.
Moves(t, from, to) == tenant[t] = from /\ tenant' = [tenant EXCEPT ![t] = to]

TenantArrives(t) ==
    /\ Moves(t, "none", "active")
    /\ UNCHANGED <<tasks, page, filter, shown, req, walk>>

TenantLeaves(t) ==
    /\ \/ Moves(t, "active", "deleted") /\ UNCHANGED tasks
       \/ /\ Moves(t, "deleted", "none")
          /\ \A r \in Requests : ~(Running(r) /\ t \in req[r].at)
          /\ tasks' = [tasks EXCEPT ![t] = <<>>]
    /\ walk' = IF tasks[t] # <<>> THEN Disturbed ELSE walk
    /\ UNCHANGED <<page, filter, shown, req>>

\* Two loads on the way, or one for a page the counter has left already.
Overtaking(r) ==
    \/ \E q \in Loading : q # r
    \/ req[r].page < page

\* A task appears in a list of n: it is inserted, or its status comes to match
\* the filter, and not always at the front.
Insert(list, j, k) == SubSeq(list, 1, j - 1) \o <<k>> \o SubSeq(list, j, Len(list))

\* It pushes others down.  A walk survives that, unless it happens between the
\* count and the read of its table, or while loads overtake.
TaskArrives(t, k, j) ==
    /\ tenant[t] # "none"
    /\ \A u \in Tenants : \A i \in DOMAIN tasks[u] : tasks[u][i] # k
    /\ tasks' = [tasks EXCEPT ![t] = Insert(@, j, k)]
    /\ walk' = IF \E r \in Loading : Overtaking(r) \/ t \in req[r].at
               THEN Disturbed ELSE walk
    /\ UNCHANGED <<tenant, page, filter, shown, req>>

\* A task leaves a list, when its status no longer matches the filter; the
\* others move up, perhaps to a page that has been read.
TaskLeaves(t, i) ==
    /\ i \in DOMAIN tasks[t]
    /\ tasks' = [tasks EXCEPT ![t] = SubSeq(@, 1, i - 1) \o SubSeq(@, i + 1, Len(@))]
    /\ walk' = Disturbed
    /\ UNCHANGED <<tenant, page, filter, shown, req>>

\* ORDER BY created_at leaves the order of two tasks of one time open, and the
\* next SELECT may swap them: across the end of a page the walk may miss one.
RowsSwap(t, i) ==
    /\ i \in DOMAIN tasks[t] /\ i + 1 \in DOMAIN tasks[t]
    /\ tasks' = [tasks EXCEPT ![t][i] = tasks[t][i + 1], ![t][i + 1] = tasks[t][i]]
    /\ walk' = IF \E n \in 1..i : i = n * PageSize THEN Disturbed ELSE walk
    /\ UNCHANGED <<tenant, page, filter, shown, req>>

----------------------------------------------------------------------------
\* The page.

\* The walk starts over.
NewWalk(ts) == [ok |-> TRUE, left |-> TasksOf(ts)]

\* DOMContentLoaded asks for stats and details.  The two share nothing, so a
\* behaviour follows one of them and the other is never answered; answers to the
\* page that was open before go nowhere.
OpenPage(r, kind) ==
    /\ page' = 1
    /\ filter' = Tenants
    /\ shown' = Nothing
    /\ req' = [q \in Requests |-> IF q = r THEN Load(kind, 1, Listed) ELSE Idle]
    /\ walk' = IF kind = "details" THEN NewWalk(Listed) ELSE Disturbed
    /\ UNCHANGED dataPlane

\* filterByTenant and the change of a filter: loads on the way answer another
\* question by now, and are shown all the same.  The page may offer a tenant
\* that is deleted since; it is looked up by its identity, ACTIVE or not.
ChangeFilter(r, ts) ==
    /\ req[r] = Idle
    /\ ts = Tenants \/ \E t \in Tenants : ts = {t}
    /\ page' = 1
    /\ filter' = ts
    /\ LET asked == IF ts = Tenants THEN Listed ELSE ts IN
       /\ req' = [q \in Requests |->
                      CASE q = r -> Load("details", 1, asked)
                        [] q # r /\ req[q].kind \in {"details", "old"} ->
                               OldLoad(req[q].page)
                        [] OTHER -> Idle]
       /\ walk' = NewWalk(asked)
    /\ UNCHANGED <<dataPlane, shown>>

\* The pager: the counter moves, and its value is asked for.  The handler lists
\* the tenants when the request is made.
Turn(r, n) ==
    /\ req[r] = Idle
    /\ page' = n
    /\ req' = [req EXCEPT ![r] =
                   Load("details", n, IF filter = Tenants THEN Listed ELSE filter)]
    /\ UNCHANGED <<dataPlane, filter, shown, walk>>

\* Neither button waits for the load before; the counter may pass either end.
NextPage(r) == shown.page < shown.pages /\ page < MaxPage /\ Turn(r, page + 1)
PreviousPage(r) == shown.page > 1 /\ page > 1 /\ Turn(r, page - 1)

\* A page below 1 is answered by 422, and the page takes no notice.
PageBelowFirst ==
    /\ shown.page > 1 /\ page = 1
    /\ page' = 0
    /\ UNCHANGED <<dataPlane, filter, shown, req, walk>>

----------------------------------------------------------------------------
\* The handlers.

Advance(r, h) ==
    /\ req' = [req EXCEPT ![r] = h]
    /\ UNCHANGED <<dataPlane, page, filter, shown, walk>>

\* 500 after a tenant was skipped, or a process that dies: anything but a success
\* leaves the page as it is.
HandlerFails(r) ==
    /\ req[r] # Idle
    /\ req' = [req EXCEPT ![r] = Idle]
    /\ walk' = IF req[r].kind = "details" THEN Disturbed ELSE walk
    /\ UNCHANGED <<dataPlane, page, filter, shown>>

\* The table is not there; or any exception at all, at the count or at the rows,
\* which is logged and forgotten: rollback.  The rows are missing in an answer of
\* 200, although they may be counted in its total.  But the rollback expires every
\* loaded Tenant, whatever expire_on_commit says, and the next one that the loop
\* touches raises: only the last of the loop can be skipped, or HandlerFails.
SkipTenant(r, t) ==
    /\ Running(r)
    /\ req[r].todo \union req[r].at = {t}
    /\ req' = [req EXCEPT ![r].todo = {}, ![r].at = {}]
    /\ walk' = IF req[r].kind = "details" /\ tasks[t] # <<>> THEN Disturbed ELSE walk
    /\ UNCHANGED <<dataPlane, page, filter, shown>>

\* The count, which runs only where the schema has its table.
CountTasks(r, t) ==
    /\ Running(r) /\ req[r].at = {}
    /\ t \in req[r].todo /\ tenant[t] # "none"
    /\ Advance(r, [req[r] EXCEPT
                       !.todo = @ \ {t},
                       !.at = IF req[r].kind = "details" THEN {t} ELSE {},
                       !.total = IF req[r].kind = "details"
                                 THEN @ + Len(tasks[t]) ELSE 0])

\* Slip: the first page has the number 0.
SliceFromZero(t, n) ==
    {tasks[t][i] : i \in {j \in DOMAIN tasks[t] :
                              n * PageSize < j /\ j <= (n + 1) * PageSize}}

\* ORDER BY created_at DESC LIMIT page_size OFFSET (page - 1) * page_size.
Slice(t, n) ==
    {tasks[t][i] : i \in {j \in DOMAIN tasks[t] :
                              (n - 1) * PageSize < j /\ j <= n * PageSize}}

ReadTasks(r) ==
    /\ Running(r)
    /\ \E t \in req[r].at :
           Advance(r, [req[r] EXCEPT !.at = {},
                                     !.items = @ \union
                           (Slice(t, req[r].page) \intersect walk.left)])

\* Slip: no page where there is no task.
PagesOrNone(total) == (total + PageSize - 1) \div PageSize

\* Math.ceil(total / page_size) || 1.
TotalPages(total) ==
    IF total = 0 THEN 1 ELSE (total + PageSize - 1) \div PageSize

\* The answer reaches the page, which shows it without a look at its question.
Answer(r) ==
    /\ Running(r)
    /\ req[r].todo = {} /\ req[r].at = {}
    /\ req' = [req EXCEPT ![r] = Idle]
    /\ \/ req[r].kind = "stats" /\ UNCHANGED <<shown, walk>>
       \/ /\ req[r].kind = "details"
          /\ shown' = [page |-> req[r].page, pages |-> TotalPages(req[r].total),
                       old |-> FALSE]
          /\ walk' = [walk EXCEPT !.left = @ \ req[r].items]
    /\ UNCHANGED <<dataPlane, page, filter>>

OldAnswer(r, n) ==
    /\ req[r].kind = "old"
    /\ shown' = [page |-> req[r].page, pages |-> n, old |-> TRUE]
    /\ req' = [req EXCEPT ![r] = Idle]
    /\ UNCHANGED <<dataPlane, page, filter, walk>>

Next ==
    \/ \E t \in Tenants : TenantArrives(t) \/ TenantLeaves(t)
    \/ \E t \in Tenants, k \in Tasks :
           \E j \in 1..(Len(tasks[t]) + 1) : TaskArrives(t, k, j)
    \/ \E t \in Tenants : \E i \in DOMAIN tasks[t] : TaskLeaves(t, i) \/ RowsSwap(t, i)
    \/ \E r \in Requests, kind \in {"stats", "details"} : OpenPage(r, kind)
    \/ \E r \in Requests, ts \in SUBSET Tenants : ChangeFilter(r, ts)
    \/ \E r \in Requests : NextPage(r) \/ PreviousPage(r)
    \/ PageBelowFirst
    \/ \E r \in Requests, t \in Tenants : SkipTenant(r, t) \/ CountTasks(r, t)
    \/ \E r \in Requests : ReadTasks(r) \/ Answer(r) \/ HandlerFails(r)
    \/ \E r \in Requests, n \in 1..MaxPage : OldAnswer(r, n)

Spec == Init /\ [][Next]_vars

----------------------------------------------------------------------------

\* Every variable keeps its shape.
TypeOK ==
    /\ tenant \in [Tenants -> Stages]
    /\ tasks \in [Tenants -> Seq(Tasks)]
    /\ page \in 0..MaxPage
    /\ filter \in SUBSET Tenants
    /\ shown \in [page : 1..MaxPage, pages : Nat \ {0}, old : BOOLEAN]
    /\ req \in [Requests -> {Idle} \union Loads]
    /\ walk \in [ok : BOOLEAN, left : SUBSET Tasks]

\* Whoever pages to the end has been shown every task that was there at the
\* start, although each schema is cut into pages for itself, new tasks push the
\* old ones down, and nothing keeps the buttons from overtaking the answers.
\* It takes a walk in which no tenant with tasks was skipped or went away, no task
\* left the list, none of one time changed places across the end of a page, no
\* load failed, and no task came while loads overtook or between a count and its
\* rows (task_monitor.py:165-222, task_monitor.js:57-94).
WalkSeesEverything ==
    walk.ok /\ Loading = {} /\ ~shown.old /\ shown.page >= shown.pages
        => walk.left = {}

=============================================================================

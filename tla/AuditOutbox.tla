---------------------------- MODULE AuditOutbox ----------------------------
(***************************************************************************)
(* The audit outbox: handlers insert a row in their own transaction, and a *)
(* job that APScheduler starts every ten seconds selects up to Limit       *)
(* pending rows, posts each to the platform, and commits the verdict on    *)
(* all of them at its end.  The scheduler never starts a second job in the *)
(* same process; two jobs are two processes, as while a deployment         *)
(* replaces one by the other (scheduler.shutdown does not wait).           *)
(*                                                                         *)
(* audit_retry_once is written for a client that raises when the platform  *)
(* did not take the event; the client it is given in production swallows   *)
(* every failure instead.  Swallows says which of the two it is.           *)
(***************************************************************************)
EXTENDS Naturals, FiniteSets

CONSTANTS
    Events,       \* audit events, each the row of one handler
    Jobs,         \* audit retry jobs that may overlap
    Limit,        \* rows one job selects
    MAX_ATTEMPTS, \* errors after which a row is given up
    Swallows,     \* does the client return normally from a failed post?
    MaxCrashes    \* bound: jobs that die, or whose commit fails

ASSUME OutboxAssumption ==
    /\ Limit \in Nat \ {0}
    /\ MAX_ATTEMPTS \in Nat \ {0}
    /\ Swallows \in BOOLEAN
    /\ MaxCrashes \in Nat

VARIABLES
    status,   \* audit_outbox.status, "none" before the insert
    attempts, \* audit_outbox.attempts
    job,      \* the jobs under way
    platform, \* events the platform has stored, by idempotency key
    pushes,   \* history: how often each event was posted
    crashes,  \* history: crashes so far
    overlapped, \* history: has a job ever started while another ran?
    swallowed \* history: events with a post that failed and came back as a success

history == <<pushes, crashes, overlapped, swallowed>>
vars == <<status, attempts, job, platform, history>>

Idle == [pc |-> "idle"]

\* A job under way: the attempts it read for each row, and what became of the
\* post of that row; "none" for the rows that are not in its batch.
Running ==
    [pc : {"running"}, seen : [Events -> 0..MAX_ATTEMPTS],
     result : [Events -> {"none", "todo", "ok", "error"}]]

Eligible == {e \in Events : status[e] = "pending" /\ attempts[e] < MAX_ATTEMPTS}

\* Slip: the error of the client goes unnoticed.
IgnoresErrors(taken, answered) == taken \/ ~taken \/ answered

\* A post comes back as a success unless the client raises: the platform took
\* the event and its answer arrived, or the client swallowed the failure.
PushReturns(taken, answered) == (taken /\ answered) \/ Swallows

Init ==
    /\ status = [e \in Events |-> "none"]
    /\ attempts = [e \in Events |-> 0]
    /\ job = [j \in Jobs |-> Idle]
    /\ platform = {}
    /\ pushes = [e \in Events |-> 0]
    /\ crashes = 0
    /\ overlapped = FALSE
    /\ swallowed = {}

\* Slip: an upsert by the idempotency key.
EnqueueAgain(e) ==
    /\ status' = [status EXCEPT ![e] = "pending"]
    /\ UNCHANGED <<attempts, job, platform, history>>

\* record_audit in a handler that then commits.
Enqueue(e) ==
    /\ status[e] = "none"
    /\ status' = [status EXCEPT ![e] = "pending"]
    /\ UNCHANGED <<attempts, job, platform, history>>

\* The job's SELECT ... LIMIT, in no particular order and without a lock.
Select(j, batch) ==
    /\ job[j] = Idle
    /\ batch \subseteq Eligible
    /\ batch # {}
    /\ \/ Cardinality(batch) = Limit
       \/ Cardinality(batch) < Limit /\ batch = Eligible
    /\ job' = [job EXCEPT ![j] =
                   [pc |-> "running",
                    seen |-> attempts,
                    result |-> [e \in Events |->
                                    IF e \in batch THEN "todo" ELSE "none"]]]
    /\ overlapped' = (overlapped \/ \E i \in Jobs \ {j} : job[i] # Idle)
    /\ UNCHANGED <<status, attempts, platform, pushes, crashes, swallowed>>

\* One turn of the loop.  The verdict stays in the job's session.
Push(j, e, taken, answered) ==
    /\ job[j] # Idle
    /\ job[j].result[e] = "todo"
    /\ platform' = IF taken THEN platform \union {e} ELSE platform
    /\ pushes' = [pushes EXCEPT ![e] = @ + 1]
    /\ job' = [job EXCEPT ![j].result[e] =
                   IF PushReturns(taken, answered) THEN "ok" ELSE "error"]
    /\ swallowed' = IF PushReturns(taken, answered) /\ ~(taken /\ answered)
                    THEN swallowed \union {e} ELSE swallowed
    /\ UNCHANGED <<status, attempts, crashes, overlapped>>

\* Slips in the verdict: a row given up one error late, or one early, and one
\* that is posted and stays pending.
GivesUpLate(j, e) ==
    CASE job[j].result[e] = "ok" -> "delivered"
      [] job[j].result[e] = "error" /\ job[j].seen[e] >= MAX_ATTEMPTS -> "failed"
      [] OTHER -> status[e]

GivesUpEarly(j, e) ==
    CASE job[j].result[e] = "ok" -> "delivered"
      [] job[j].result[e] = "error" /\ job[j].seen[e] + 2 >= MAX_ATTEMPTS ->
             "failed"
      [] OTHER -> status[e]

StaysPending(j, e) ==
    IF job[j].result[e] = "error" /\ job[j].seen[e] + 1 >= MAX_ATTEMPTS
    THEN "failed" ELSE status[e]

\* Slip: the UPDATE counts the error itself, so the counts of jobs add up.
CountsInUpdate(j, e) ==
    IF job[j].result[e] = "error" THEN attempts[e] + 1 ELSE attempts[e]

\* What the UPDATE at the end writes for a row: the columns the job changed,
\* computed from what it had read.
VerdictStatus(j, e) ==
    CASE job[j].result[e] = "ok" -> "delivered"
      [] job[j].result[e] = "error" /\ job[j].seen[e] + 1 >= MAX_ATTEMPTS ->
             "failed"
      [] OTHER -> status[e]

VerdictAttempts(j, e) ==
    IF job[j].result[e] = "error" THEN job[j].seen[e] + 1 ELSE attempts[e]

Commit(j) ==
    /\ job[j] # Idle
    /\ \A e \in Events : job[j].result[e] # "todo"
    /\ status' = [e \in Events |-> VerdictStatus(j, e)]
    /\ attempts' = [e \in Events |-> VerdictAttempts(j, e)]
    /\ job' = [job EXCEPT ![j] = Idle]
    /\ UNCHANGED <<platform, history>>

\* The process dies or the commit fails: every verdict of the batch is lost.
Crash(j) ==
    /\ job[j] # Idle
    /\ crashes < MaxCrashes
    /\ crashes' = crashes + 1
    /\ job' = [job EXCEPT ![j] = Idle]
    /\ UNCHANGED <<status, attempts, platform, pushes, overlapped, swallowed>>

JobStep(j) ==
    \/ \E batch \in SUBSET Events : Select(j, batch)
    \/ \E e \in Events, taken, answered \in BOOLEAN : Push(j, e, taken, answered)
    \/ Commit(j)

Next ==
    \/ \E e \in Events : Enqueue(e)
    \/ \E j \in Jobs : JobStep(j)
    \/ \E j \in Jobs : Crash(j)

Spec == Init /\ [][Next]_vars

\* The scheduler keeps starting jobs, and a job that runs goes on: the client
\* has a timeout of ten seconds.  Nothing is assumed of the platform.
FairSpec == Spec /\ \A j \in Jobs : WF_vars(JobStep(j))

----------------------------------------------------------------------------

\* Every variable keeps its shape.
TypeOK ==
    /\ status \in [Events -> {"none", "pending", "delivered", "failed"}]
    /\ attempts \in [Events -> 0..MAX_ATTEMPTS]
    /\ job \in [Jobs -> {Idle} \union Running]
    /\ platform \subseteq Events
    /\ pushes \in [Events -> Nat]
    /\ crashes \in 0..MaxCrashes
    /\ overlapped \in BOOLEAN
    /\ swallowed \subseteq Events

\* A row marked failed was really posted MAX_ATTEMPTS times, however jobs
\* overlap, crash, and overwrite each other's counts.
FailedMeansTried ==
    \A e \in Events : status[e] = "failed" => pushes[e] >= MAX_ATTEMPTS

\* What delivered is documented to mean: the platform has the event.
DeliveredMeansStored ==
    \A e \in Events : status[e] = "delivered" => e \in platform

\* The swallowing client is the only way to lose an event that counts as
\* delivered: overlaps, crashes and overwritten verdicts are not.
LostMeansSwallowed ==
    \A e \in Events : status[e] = "delivered" => e \in platform \union swallowed

\* While jobs never overlapped, an event is posted once for each error counted
\* on its row, once for its verdict, and again only because a job died between
\* the post and its commit.
DuplicatesOnlyByCrash ==
    ~overlapped => \A e \in Events : pushes[e] <= crashes + attempts[e] + 1

\* While jobs never overlapped, a verdict is final: a row that is delivered or
\* failed is never touched again.
SettledIsFinal ==
    [][~overlapped =>
           \A e \in Events :
               status[e] \in {"delivered", "failed"} =>
                   status'[e] = status[e] /\ attempts'[e] = attempts[e]]_vars

\* No row waits for ever, whatever the platform does and although a job takes
\* only Limit rows in an order nobody fixes.
EventuallySettled ==
    \A e \in Events :
        status[e] = "pending" ~> status[e] \in {"delivered", "failed"}

=============================================================================

------------------------- MODULE AuditOutboxProofs -------------------------
(***************************************************************************)
(* Proofs about AuditOutbox for every set of events and jobs, every batch  *)
(* limit and every number of attempts and crashes.  The first part holds   *)
(* for jobs that overlap freely; the second is about behaviours in which   *)
(* no two jobs ever overlapped, as inside one process.                     *)
(***************************************************************************)
EXTENDS AuditOutbox, TLAPS

\* What the verdicts in the session of a job rest on.
Grounded(j, e) ==
    /\ job[j].result[e] # "none" =>
           job[j].seen[e] < MAX_ATTEMPTS /\ job[j].seen[e] <= pushes[e]
    /\ job[j].result[e] = "error" => job[j].seen[e] + 1 <= pushes[e]
    /\ job[j].result[e] = "ok" => e \in platform \union swallowed

OutboxInv ==
    /\ TypeOK
    /\ FailedMeansTried
    /\ LostMeansSwallowed
    /\ swallowed # {} => Swallows
    /\ \A e \in Events : attempts[e] <= pushes[e]
    /\ \A j \in Jobs, e \in Events : job[j] # Idle => Grounded(j, e)

\* A job that runs is not idle.
LEMMA RunningIsNotIdle == Idle \notin Running
  BY DEF Idle, Running

\* At the start there is no row, no job and no post.
LEMMA InitInv == Init => OutboxInv
<1> SUFFICES ASSUME Init PROVE OutboxInv
  OBVIOUS
<1>1. overlapped \in BOOLEAN
  BY DEF Init
<1>2. TypeOK
  <2>1. status \in [Events -> {"none", "pending", "delivered", "failed"}]
    BY DEF Init
  <2>2. attempts \in [Events -> 0..MAX_ATTEMPTS] /\ crashes \in 0..MaxCrashes
    BY OutboxAssumption DEF Init
  <2>3. job \in [Jobs -> {Idle} \union Running] /\ platform \subseteq Events
    BY DEF Init
  <2>4. pushes \in [Events -> Nat]
    BY DEF Init
  <2>5. swallowed \subseteq Events
    BY DEF Init
  <2> QED BY <1>1, <2>1, <2>2, <2>3, <2>4, <2>5 DEF TypeOK
<1> QED
  BY <1>2 DEF Init, OutboxInv, FailedMeansTried, LostMeansSwallowed

\* Each action keeps the shape of every variable.
LEMMA TypeStep == OutboxInv /\ [Next]_vars => TypeOK'
<1> SUFFICES ASSUME OutboxInv, [Next]_vars PROVE TypeOK'
  OBVIOUS
<1> USE OutboxAssumption DEF OutboxInv, TypeOK
<1>1. ASSUME NEW e \in Events, Enqueue(e) PROVE TypeOK'
  BY <1>1 DEF Enqueue, history
<1>2. ASSUME NEW j \in Jobs, NEW batch \in SUBSET Events, Select(j, batch)
      PROVE  TypeOK'
  BY <1>2 DEF Select, Running
<1>3. ASSUME NEW j \in Jobs, NEW e \in Events, NEW taken \in BOOLEAN,
             NEW answered \in BOOLEAN, Push(j, e, taken, answered)
      PROVE  TypeOK'
  <2>1. job' \in [Jobs -> {Idle} \union Running]
    <3> DEFINE v == IF PushReturns(taken, answered) THEN "ok" ELSE "error"
    <3>1. v \in {"ok", "error"}
      OBVIOUS
    <3>2. job' = [job EXCEPT ![j].result[e] = v]
      BY <1>3 DEF Push
    <3>3. job[j] \in Running
      BY <1>3 DEF Push
    <3> HIDE DEF v
    <3>4. [job[j] EXCEPT !.result[e] = v] \in Running
      BY <3>1, <3>3 DEF Running
    <3> QED BY <3>2, <3>4
  <2> QED BY <1>3, <2>1 DEF Push
<1>4. ASSUME NEW j \in Jobs, Commit(j) PROVE TypeOK'
  <2>1. job[j] \in Running
    BY <1>4 DEF Commit
  <2>2. \A e \in Events :
            /\ VerdictStatus(j, e) \in {"none", "pending", "delivered", "failed"}
            /\ VerdictAttempts(j, e) \in 0..MAX_ATTEMPTS
    BY <1>4, <2>1 DEF Commit, VerdictStatus, VerdictAttempts, Grounded, Running
  <2> QED BY <1>4, <2>2 DEF Commit, history
<1>5. ASSUME NEW j \in Jobs, Crash(j) PROVE TypeOK'
  BY <1>5 DEF Crash
<1>6. CASE UNCHANGED vars
  BY <1>6 DEF vars, history
<1> QED BY <1>1, <1>2, <1>3, <1>4, <1>5, <1>6 DEF Next, JobStep

\* Posts are only added and stored events stay stored.
LEMMA PushesGrow ==
    ASSUME OutboxInv, [Next]_vars
    PROVE  /\ \A e \in Events : pushes'[e] >= pushes[e]
           /\ platform \subseteq platform'
           /\ swallowed \subseteq swallowed'
  BY DEF OutboxInv, TypeOK, Next, JobStep, Enqueue, Select, Push, Commit, Crash,
         vars, history

\* A verdict in a job's session stays grounded while other jobs work.
LEMMA GroundedStep ==
    ASSUME OutboxInv, [Next]_vars, NEW i \in Jobs, NEW d \in Events,
           job'[i] # Idle
    PROVE  Grounded(i, d)'
<1> USE OutboxAssumption DEF OutboxInv, TypeOK
<1>1. ASSUME job'[i] = job[i] PROVE Grounded(i, d)'
  <2>1. pushes[d] \in Nat /\ pushes'[d] \in Nat
    BY TypeStep
  <2>2. job[i].seen[d] \in Nat
    BY <1>1, RunningIsNotIdle DEF Running
  <2> QED BY <1>1, <2>1, <2>2, PushesGrow DEF Grounded
<1>2. ASSUME NEW batch \in SUBSET Events, Select(i, batch)
      PROVE  Grounded(i, d)'
  BY <1>2 DEF Select, Grounded, Eligible
<1>3. ASSUME NEW e \in Events, NEW taken \in BOOLEAN, NEW answered \in BOOLEAN,
             Push(i, e, taken, answered)
      PROVE  Grounded(i, d)'
  <2>1. job[i] \in Running /\ Grounded(i, d)
    BY <1>3 DEF Push
  <2>2. job'[i].seen = job[i].seen
    BY <1>3, <2>1 DEF Push, Running
  <2>3. job[i].seen[d] \in Nat /\ pushes[d] \in Nat
    BY <2>1 DEF Running
  <2>4. CASE d # e
    <3>1. job'[i].result[d] = job[i].result[d] /\ pushes'[d] = pushes[d]
      BY <1>3, <2>1, <2>4 DEF Push, Running
    <3>2. d \in platform \union swallowed => d \in platform' \union swallowed'
      BY PushesGrow
    <3> QED BY <2>1, <2>2, <3>1, <3>2 DEF Grounded
  <2>5. CASE d = e
    <3>1. /\ job'[i].result[d] = IF PushReturns(taken, answered)
                                 THEN "ok" ELSE "error"
          /\ pushes'[d] = pushes[d] + 1
          /\ job[i].result[d] = "todo"
          /\ PushReturns(taken, answered) => d \in platform' \union swallowed'
      BY <1>3, <2>1, <2>5 DEF Push, Running
    <3>2. job[i].seen[d] < MAX_ATTEMPTS /\ job[i].seen[d] <= pushes[d]
      BY <2>1, <3>1 DEF Grounded
    <3> QED BY <2>2, <2>3, <3>1, <3>2 DEF Grounded
  <2> QED BY <2>4, <2>5
<1>4. ASSUME NEW j \in Jobs, j # i,
             \/ \E batch \in SUBSET Events : Select(j, batch)
             \/ \E e \in Events, taken, answered \in BOOLEAN :
                    Push(j, e, taken, answered)
             \/ Commit(j)
             \/ Crash(j)
      PROVE  job'[i] = job[i]
  BY <1>4 DEF Select, Push, Commit, Crash
<1>5. ~Commit(i) /\ ~Crash(i)
  BY DEF Commit, Crash
<1>6. ASSUME (\E e \in Events : Enqueue(e)) \/ UNCHANGED vars
      PROVE  job'[i] = job[i]
  BY <1>6 DEF Enqueue, vars, history
<1> QED BY <1>1, <1>2, <1>3, <1>4, <1>5, <1>6 DEF Next, JobStep

\* What the rows say stays true: only a commit changes a verdict.
LEMMA RowStep ==
    ASSUME OutboxInv, [Next]_vars, NEW e \in Events
    PROVE  /\ status'[e] = "failed" => pushes'[e] >= MAX_ATTEMPTS
           /\ status'[e] = "delivered" => e \in platform' \union swallowed'
           /\ attempts'[e] <= pushes'[e]
<1> USE OutboxAssumption DEF OutboxInv, TypeOK
<1>1. /\ status[e] = "failed" => pushes[e] >= MAX_ATTEMPTS
      /\ status[e] = "delivered" => e \in platform \union swallowed
      /\ attempts[e] <= pushes[e]
      /\ attempts[e] \in Nat /\ pushes[e] \in Nat /\ pushes'[e] \in Nat
  BY TypeStep DEF FailedMeansTried, LostMeansSwallowed
<1>2. ASSUME NEW j \in Jobs, Commit(j)
      PROVE  /\ status'[e] = "failed" => pushes[e] >= MAX_ATTEMPTS
             /\ status'[e] = "delivered" => e \in platform \union swallowed
             /\ attempts'[e] <= pushes[e]
  <2>1. job[j] # Idle /\ job[j].seen[e] \in Nat
    BY <1>2 DEF Commit, Running
  <2>2. Grounded(j, e)
    BY <2>1
  <2>3. status'[e] = VerdictStatus(j, e) /\ attempts'[e] = VerdictAttempts(j, e)
    BY <1>2 DEF Commit
  <2> QED BY <1>1, <2>1, <2>2, <2>3
          DEF Grounded, VerdictStatus, VerdictAttempts
<1>3. ASSUME NEW d \in Events, Enqueue(d)
      PROVE  /\ status'[e] \in {status[e], "pending"}
             /\ attempts'[e] = attempts[e]
  BY <1>3 DEF Enqueue
<1>4. \/ \E j \in Jobs : Commit(j)
      \/ \E d \in Events : Enqueue(d)
      \/ UNCHANGED <<status, attempts>>
  BY DEF Next, JobStep, Select, Push, Crash, vars
<1>5. /\ pushes'[e] >= pushes[e]
      /\ e \in platform \union swallowed => e \in platform' \union swallowed'
  BY PushesGrow
<1>6. MAX_ATTEMPTS \in Nat /\ attempts'[e] \in Nat
  BY TypeStep
<1> HIDE DEF OutboxInv, TypeOK
<1> HIDE OutboxAssumption
<1>7. CASE \E j \in Jobs : Commit(j)
  BY <1>1, <1>2, <1>5, <1>6, <1>7
<1>8. CASE \E d \in Events : Enqueue(d)
  BY <1>1, <1>3, <1>5, <1>6, <1>8
<1>9. CASE UNCHANGED <<status, attempts>>
  BY <1>1, <1>5, <1>6, <1>9
<1> QED BY <1>4, <1>7, <1>8, <1>9

\* Only a swallowing client swallows.
LEMMA SwallowedStep ==
    ASSUME OutboxInv, [Next]_vars
    PROVE  swallowed' # {} => Swallows
<1>1. ASSUME NEW j \in Jobs, NEW e \in Events, NEW taken \in BOOLEAN,
             NEW answered \in BOOLEAN, Push(j, e, taken, answered)
      PROVE  swallowed' = swallowed \/ Swallows
  BY <1>1 DEF Push, PushReturns
<1>2. (\E j \in Jobs, e \in Events, taken, answered \in BOOLEAN :
           Push(j, e, taken, answered)) \/ swallowed' = swallowed
  BY DEF Next, JobStep, Enqueue, Select, Commit, Crash, vars, history
<1> QED BY <1>1, <1>2 DEF OutboxInv

\* Every reachable state satisfies the inductive invariant.
THEOREM OutboxSafety == Spec => []OutboxInv
<1>1. OutboxInv /\ [Next]_vars => OutboxInv'
  <2> SUFFICES ASSUME OutboxInv, [Next]_vars PROVE OutboxInv'
    OBVIOUS
  <2>1. TypeOK'
    BY TypeStep
  <2>2. /\ FailedMeansTried'
        /\ LostMeansSwallowed'
        /\ \A e \in Events : attempts'[e] <= pushes'[e]
    BY RowStep DEF FailedMeansTried, LostMeansSwallowed
  <2>4. swallowed' # {} => Swallows
    BY SwallowedStep
  <2>3. \A j \in Jobs, e \in Events : job'[j] # Idle => Grounded(j, e)'
    BY GroundedStep
  <2> QED BY <2>1, <2>2, <2>3, <2>4 DEF OutboxInv
<1> QED BY InitInv, <1>1, PTL DEF Spec

\* Rows, jobs and counts keep their types; counts stay within MAX_ATTEMPTS.
THEOREM OutboxTyped == Spec => []TypeOK
<1>1. OutboxInv => TypeOK
  BY DEF OutboxInv
<1> QED BY OutboxSafety, <1>1, PTL

\* Given up means tried MAX_ATTEMPTS times, however many jobs overlap and crash.
THEOREM VerdictsAreEarned == Spec => []FailedMeansTried
<1>1. OutboxInv => FailedMeansTried
  BY DEF OutboxInv
<1> QED BY OutboxSafety, <1>1, PTL

\* With either client, an event that counts as delivered is with the platform, or
\* one of its posts failed and the client swallowed that (audit_outbox_service.py:42-79,
\* client.py:67-72): no overlap and no crash of jobs loses one.
THEOREM OnlySwallowingLoses == Spec => []LostMeansSwallowed
<1>1. OutboxInv => LostMeansSwallowed
  BY DEF OutboxInv
<1> QED BY OutboxSafety, <1>1, PTL

\* So a client that raises loses none, which the run of overlapping jobs checks.
THEOREM DeliveredIsStored == Spec => [](~Swallows => DeliveredMeansStored)
<1>1. OutboxInv => (~Swallows => DeliveredMeansStored)
  BY DEF OutboxInv, LostMeansSwallowed, DeliveredMeansStored
<1> QED BY OutboxSafety, <1>1, PTL
----------------------------------------------------------------------------

\* While jobs never overlapped there is at most one of them.
OneJob ==
    \A i, j \in Jobs : job[i] # Idle /\ job[j] # Idle => i = j

\* The rows of its batch stay as it selected them until it commits.
BatchIsFresh ==
    \A j \in Jobs, e \in Events :
        job[j] # Idle /\ job[j].result[e] # "none" =>
            status[e] = "pending" /\ job[j].seen[e] = attempts[e]

\* The post that a verdict, in the row or still in a session, stands for.
Earned(e) ==
    \/ status[e] = "delivered"
    \/ \E j \in Jobs : job[j] # Idle /\ job[j].result[e] \in {"ok", "error"}

\* Every post is an error counted, a verdict, or lost in a crash.
PostsAccountedFor ==
    \A e \in Events :
        pushes[e] <= crashes + attempts[e] + (IF Earned(e) THEN 1 ELSE 0)

SerialInv == ~overlapped => OneJob /\ BatchIsFresh /\ PostsAccountedFor

\* A job selects its batch alone, or the jobs have overlapped.
LEMMA OneJobStep ==
    ASSUME OutboxInv, OneJob, [Next]_vars, ~overlapped'
    PROVE  OneJob'
<1> SUFFICES ASSUME NEW i \in Jobs, NEW k \in Jobs, job'[i] # Idle, job'[k] # Idle
             PROVE  i = k
  BY DEF OneJob
<1> USE DEF OutboxInv, TypeOK
<1>1. ASSUME NEW j \in Jobs, NEW batch \in SUBSET Events, Select(j, batch)
      PROVE  i = k
  BY <1>1 DEF Select
<1>2. ASSUME NEW j \in Jobs, NEW e \in Events, NEW taken \in BOOLEAN,
             NEW answered \in BOOLEAN, Push(j, e, taken, answered)
      PROVE  i = k
  <2>1. job[i] # Idle /\ job[k] # Idle
    BY <1>2 DEF Push
  <2> QED BY <2>1 DEF OneJob
<1>3. ASSUME NEW j \in Jobs, Commit(j) \/ Crash(j) PROVE i = k
  BY <1>3 DEF Commit, Crash, OneJob
<1>4. ASSUME (\E e \in Events : Enqueue(e)) \/ UNCHANGED vars PROVE i = k
  BY <1>4 DEF Enqueue, vars, history, OneJob
<1> QED BY <1>1, <1>2, <1>3, <1>4 DEF Next, JobStep

\* The overlap is remembered.
LEMMA OverlapStays == [Next]_vars /\ overlapped => overlapped'
  BY DEF Next, JobStep, Enqueue, Select, Push, Commit, Crash, vars, history

\* One job finds its batch as it selected it.
LEMMA BatchStep ==
    ASSUME OneJob, OutboxInv, BatchIsFresh, [Next]_vars
    PROVE  BatchIsFresh'
<1> SUFFICES ASSUME NEW i \in Jobs, NEW d \in Events,
                    job'[i] # Idle, job'[i].result[d] # "none"
             PROVE  status'[d] = "pending" /\ job'[i].seen[d] = attempts'[d]
  BY DEF BatchIsFresh
<1> USE DEF OutboxInv, TypeOK
<1>1. ASSUME NEW e \in Events, Enqueue(e)
      PROVE  status'[d] = "pending" /\ job'[i].seen[d] = attempts'[d]
  BY <1>1 DEF Enqueue, BatchIsFresh
<1>2. ASSUME NEW batch \in SUBSET Events, Select(i, batch)
      PROVE  status'[d] = "pending" /\ job'[i].seen[d] = attempts'[d]
  BY <1>2 DEF Select, Eligible
<1>3. ASSUME NEW j \in Jobs, NEW e \in Events, NEW taken \in BOOLEAN,
             NEW answered \in BOOLEAN, Push(j, e, taken, answered)
      PROVE  status'[d] = "pending" /\ job'[i].seen[d] = attempts'[d]
  <2>1. /\ job[i] # Idle /\ status' = status /\ attempts' = attempts
        /\ job[j] \in Running
    BY <1>3 DEF Push
  <2>2. job'[i].seen = job[i].seen /\ job[i].result[d] # "none"
    BY <1>3, <2>1 DEF Push, Running
  <2> QED BY <2>1, <2>2 DEF BatchIsFresh
<1>4. ASSUME NEW j \in Jobs, j # i,
             \/ \E batch \in SUBSET Events : Select(j, batch)
             \/ Commit(j)
             \/ Crash(j)
      PROVE  status'[d] = "pending" /\ job'[i].seen[d] = attempts'[d]
  <2>1. job'[i] = job[i]
    BY <1>4 DEF Select, Commit, Crash
  <2>2. ~Commit(j)
    BY <1>4, <2>1 DEF Commit, OneJob
  <2>3. status' = status /\ attempts' = attempts
    BY <1>4, <2>2 DEF Select, Crash
  <2> QED BY <2>1, <2>3 DEF BatchIsFresh
<1>5. ~Commit(i) /\ ~Crash(i)
  BY DEF Commit, Crash
<1>6. CASE UNCHANGED vars
  BY <1>6 DEF vars, BatchIsFresh
<1> QED BY <1>1, <1>2, <1>3, <1>4, <1>5, <1>6 DEF Next, JobStep

\* A post is paid for by the verdict it earns, by the error that is counted,
\* and by a crash once that verdict is lost.
LEMMA PostsStep ==
    ASSUME OneJob, OutboxInv, BatchIsFresh, PostsAccountedFor, [Next]_vars
    PROVE  PostsAccountedFor'
<1> SUFFICES ASSUME NEW d \in Events
             PROVE  pushes'[d] <= crashes' + attempts'[d]
                                      + (IF Earned(d)' THEN 1 ELSE 0)
  BY DEF PostsAccountedFor
<1>1. /\ pushes[d] \in Nat /\ crashes \in Nat /\ attempts[d] \in Nat
      /\ pushes[d] <= crashes + attempts[d] + (IF Earned(d) THEN 1 ELSE 0)
      /\ status \in [Events -> {"none", "pending", "delivered", "failed"}]
      /\ job \in [Jobs -> {Idle} \union Running]
      /\ pushes \in [Events -> Nat]
  BY OutboxAssumption DEF OutboxInv, TypeOK, PostsAccountedFor
<1> DEFINE Same == /\ UNCHANGED <<pushes, crashes, attempts>>
                   /\ Earned(d) => Earned(d)'
<1>2. ASSUME NEW e \in Events, Enqueue(e) PROVE Same
  BY <1>1, <1>2 DEF Enqueue, Earned, history
<1>3. ASSUME NEW j \in Jobs, NEW batch \in SUBSET Events, Select(j, batch)
      PROVE  Same
  <2>1. \A i \in Jobs : job[i] # Idle => job'[i] = job[i]
    BY <1>1, <1>3 DEF Select
  <2> QED BY <1>3, <2>1 DEF Select, Earned
<1>4. ASSUME NEW j \in Jobs, NEW e \in Events, NEW taken \in BOOLEAN,
             NEW answered \in BOOLEAN, Push(j, e, taken, answered)
      PROVE  pushes'[d] <= crashes' + attempts'[d]
                               + (IF Earned(d)' THEN 1 ELSE 0)
  <2>1. /\ job[j] \in Running /\ job[j] # Idle
        /\ job[j].result[e] = "todo" /\ status' = status /\ crashes' = crashes
        /\ attempts' = attempts
    BY <1>1, <1>4 DEF Push
  <2>2. job'[j].result[d] \in IF d = e THEN {"ok", "error"}
                                        ELSE {job[j].result[d]}
    BY <1>1, <1>4, <2>1 DEF Push, PushReturns, Running
  <2>3. job'[j] # Idle
    BY <1>1, <1>4, <2>1 DEF Push, Idle, Running
  <2>4. CASE d = e
    <3>1. status[d] # "delivered"
      BY <2>1, <2>4 DEF BatchIsFresh
    <3>2. ~Earned(d)
      BY <2>1, <2>4, <3>1 DEF Earned, OneJob
    <3>3. Earned(d)'
      BY <2>2, <2>3, <2>4 DEF Earned
    <3>4. pushes'[d] = pushes[d] + 1
      BY <1>1, <1>4, <2>4 DEF Push
    <3> QED BY <1>1, <2>1, <3>2, <3>3, <3>4
  <2>5. CASE d # e
    <3>1. pushes'[d] = pushes[d]
      BY <1>1, <1>4, <2>5 DEF Push
    <3>2. Earned(d) => Earned(d)'
      BY <2>1, <2>2, <2>3, <2>5 DEF Earned, OneJob
    <3> QED BY <1>1, <2>1, <3>1, <3>2
  <2> QED BY <2>4, <2>5
<1>5. ASSUME NEW j \in Jobs, Commit(j)
      PROVE  pushes'[d] <= crashes' + attempts'[d]
                               + (IF Earned(d)' THEN 1 ELSE 0)
  <2>1. /\ job[j] # Idle /\ job[j].seen[d] \in Nat
        /\ status'[d] = VerdictStatus(j, d)
        /\ attempts'[d] = VerdictAttempts(j, d)
        /\ UNCHANGED <<pushes, crashes>>
    BY <1>1, <1>5 DEF Commit, Running, history
  <2>2. CASE job[j].result[d] = "error"
    <3>1. attempts'[d] = attempts[d] + 1
      BY <2>1, <2>2 DEF VerdictAttempts, BatchIsFresh
    <3> QED BY <1>1, <2>1, <3>1
  <2>3. CASE job[j].result[d] # "error"
    <3>1. Earned(d) => status[d] = "delivered" \/ job[j].result[d] = "ok"
      BY <2>1, <2>3 DEF Earned, OneJob
    <3>2. Earned(d) => status'[d] = "delivered"
      BY <2>1, <2>3, <3>1 DEF VerdictStatus
    <3>3. Earned(d) => Earned(d)'
      BY <3>2 DEF Earned
    <3>4. attempts'[d] = attempts[d]
      BY <2>1, <2>3 DEF VerdictAttempts
    <3> QED BY <1>1, <2>1, <3>3, <3>4
  <2> QED BY <2>2, <2>3
<1>6. ASSUME NEW j \in Jobs, Crash(j)
      PROVE  pushes'[d] <= crashes' + attempts'[d]
                               + (IF Earned(d)' THEN 1 ELSE 0)
  <2>1. pushes' = pushes /\ crashes' = crashes + 1 /\ attempts' = attempts
    BY <1>6 DEF Crash
  <2> QED BY <1>1, <2>1
<1>7. ASSUME UNCHANGED vars PROVE Same
  BY <1>7 DEF vars, history, Earned
<1>8. Same => pushes'[d] <= crashes' + attempts'[d]
                                + (IF Earned(d)' THEN 1 ELSE 0)
  BY <1>1
<1> HIDE DEF Same
<1> QED BY <1>2, <1>3, <1>4, <1>5, <1>6, <1>7, <1>8 DEF Next, JobStep

\* What is known of jobs that never overlapped is inductive.
LEMMA SerialStep == OutboxInv /\ SerialInv /\ [Next]_vars => SerialInv'
  BY OverlapStays, OneJobStep, BatchStep, PostsStep DEF SerialInv

LEMMA SerialInit == Init => SerialInv
  BY DEF Init, SerialInv, OneJob, BatchIsFresh, PostsAccountedFor

\* While jobs never overlapped, a verdict is never reconsidered.
THEOREM VerdictsAreFinal == Spec => SettledIsFinal
<1>1. OutboxInv /\ SerialInv /\ [Next]_vars =>
          [~overlapped =>
               \A e \in Events :
                   status[e] \in {"delivered", "failed"} =>
                       status'[e] = status[e] /\ attempts'[e] = attempts[e]]_vars
  <2> SUFFICES ASSUME OutboxInv, SerialInv, [Next]_vars, ~overlapped,
                      NEW e \in Events, status[e] \in {"delivered", "failed"}
               PROVE  status'[e] = status[e] /\ attempts'[e] = attempts[e]
    OBVIOUS
  <2>1. ASSUME NEW j \in Jobs, Commit(j)
        PROVE  status'[e] = status[e] /\ attempts'[e] = attempts[e]
    <3>1. job[j].result[e] = "none"
      BY <2>1 DEF Commit, SerialInv, BatchIsFresh
    <3> QED BY <2>1, <3>1 DEF Commit, VerdictStatus, VerdictAttempts
  <2>2. ASSUME NEW d \in Events, Enqueue(d)
        PROVE  status'[e] = status[e] /\ attempts'[e] = attempts[e]
    BY <2>2 DEF Enqueue, OutboxInv, TypeOK
  <2>3. \/ \E j \in Jobs : Commit(j)
        \/ \E d \in Events : Enqueue(d)
        \/ UNCHANGED <<status, attempts>>
    BY DEF Next, JobStep, Select, Push, Crash, vars
  <2> QED BY <2>1, <2>2, <2>3
<1> QED BY <1>1, SerialInit, SerialStep, OutboxSafety, PTL DEF Spec, SettledIsFinal

\* While jobs never overlapped, every post beyond the errors counted and the
\* verdict was lost in a crash.
THEOREM DuplicatesNeedCrashes == Spec => []DuplicatesOnlyByCrash
<1>1. OutboxInv /\ SerialInv => DuplicatesOnlyByCrash
  <2> SUFFICES ASSUME OutboxInv, PostsAccountedFor, NEW e \in Events
               PROVE  pushes[e] <= crashes + attempts[e] + 1
    BY DEF DuplicatesOnlyByCrash, SerialInv
  <2>1. pushes[e] \in Nat /\ crashes \in Nat /\ attempts[e] \in Nat
    BY OutboxAssumption DEF OutboxInv, TypeOK
  <2>2. pushes[e] <= crashes + attempts[e] + (IF Earned(e) THEN 1 ELSE 0)
    BY DEF PostsAccountedFor
  <2> QED BY <2>1, <2>2
<1> QED BY <1>1, SerialInit, SerialStep, OutboxSafety, PTL DEF Spec

=============================================================================

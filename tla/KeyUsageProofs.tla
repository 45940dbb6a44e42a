-------------------------- MODULE KeyUsageProofs ---------------------------
(***************************************************************************)
(* Proofs about KeyUsage for every set of keys and processes.  The clause  *)
(* of the UPDATE that compares timestamps is only evaluated when the row   *)
(* is reached; that what it found still holds at the commit, and that the  *)
(* rows it passed over need no update, is the inductive part.              *)
(***************************************************************************)
EXTENDS KeyUsage, TLAPS

\* Only a flush has notes taken over, keys to come to, and rows locked.
OnlyFlushesHold ==
    \A p \in Procs :
        ~Flushing(p) => /\ batch[p] = NoNotes
                        /\ todo[p] = {}
                        /\ wrote[p] = {}

\* A row that a flush has updated is still older than its note, and locked by
\* this flush alone.
LockedRowsAreOlder ==
    \A p \in Procs, k \in Keys :
        k \in wrote[p] =>
            /\ db[k] < batch[p][k]
            /\ \A q \in Procs : k \in wrote[q] => q = p

\* A row that a flush has passed over needs no update.
PassedRowsAreRecorded ==
    \A p \in Procs, k \in Keys :
        k \notin todo[p] /\ k \notin wrote[p] =>
            db[k] >= batch[p][k] \/ k \notin rows

\* Of a key that is not made yet nobody has noted a use.
UnmadeKeysAreUnused ==
    \A k \in unmade :
        /\ k \notin rows
        /\ \A p \in Procs : /\ pending[p][k] = 0
                             /\ batch[p][k] = 0
                             /\ noted[p][k] = 0

UsageInv ==
    /\ TypeOK
    /\ UnmadeKeysAreUnused
    /\ OnlyFlushesHold
    /\ LockedRowsAreOlder
    /\ PassedRowsAreRecorded
    /\ NoUseForgotten

\* The empty notes are notes, and the later of two times is a time.
LEMMA Notes ==
    /\ NoNotes \in [Keys -> Time]
    /\ \A s, t \in Time : /\ Later(s, t) \in Time
                          /\ Later(s, t) >= s
                          /\ Later(s, t) >= t
  BY UsageAssumption DEF NoNotes, Time, Later

\* The empty memory of every process is a start of the invariant.
LEMMA InitInv == Init => UsageInv
  BY Notes, UsageAssumption
     DEF Init, UsageInv, TypeOK, OnlyFlushesHold, LockedRowsAreOlder,
         UnmadeKeysAreUnused, PassedRowsAreRecorded, NoUseForgotten, Flushing,
         NoNotes, Time

\* Taking the notes over keeps the types.
LEMMA TakeTypes ==
    ASSUME TypeOK, NEW p \in Procs, NEW state \in {"flush", "final", "down"},
           TakeNotes(p, state)
    PROVE  /\ pending' \in [Procs -> [Keys -> Time]]
           /\ pc' \in [Procs -> {"up", "flush", "final", "down"}]
           /\ batch' \in [Procs -> [Keys -> Time]]
           /\ todo' \in [Procs -> SUBSET Keys]
           /\ wrote' \in [Procs -> SUBSET Keys]
  BY Notes DEF TypeOK, TakeNotes, NotedIn

\* So does the end of a flush.
LEMMA EndTypes ==
    ASSUME TypeOK, NEW p \in Procs, EndFlush(p)
    PROVE  /\ pc' \in [Procs -> {"up", "flush", "final", "down"}]
           /\ batch' \in [Procs -> [Keys -> Time]]
           /\ todo' \in [Procs -> SUBSET Keys]
           /\ wrote' \in [Procs -> SUBSET Keys]
  BY Notes DEF TypeOK, EndFlush

\* And putting the notes back.
LEMMA PutBackTypes ==
    ASSUME TypeOK, NEW p \in Procs, PutBack(p)
    PROVE  /\ pending' \in [Procs -> [Keys -> Time]]
           /\ noted' \in [Procs -> [Keys -> Time]]
  BY Notes DEF TypeOK, PutBack

\* Each action keeps the shape of every variable.
LEMMA TypeStep == TypeOK /\ [Next]_vars => TypeOK'
<1> SUFFICES ASSUME TypeOK, [Next]_vars PROVE TypeOK'
  OBVIOUS
<1> USE UsageAssumption DEF TypeOK
<1>1. CASE Tick
  BY <1>1 DEF Tick, Time
<1>2. ASSUME NEW p \in Procs, NEW k \in Keys, Authenticate(p, k) PROVE TypeOK'
  BY <1>2 DEF Authenticate
<1>3. ASSUME NEW k \in Keys, Revoke(k) PROVE TypeOK'
  BY <1>3 DEF Revoke
<1>4. ASSUME NEW p \in Procs, FlushStart(p) PROVE TypeOK'
  BY <1>4, TakeTypes DEF FlushStart
<1>5. ASSUME NEW p \in Procs, NEW k \in Keys, FlushRow(p, k) PROVE TypeOK'
  <2>1. todo' \in [Procs -> SUBSET Keys]
    BY <1>5 DEF FlushRow
  <2>2. wrote' = wrote \/ wrote' = [wrote EXCEPT ![p] = @ \union {k}]
    BY <1>5 DEF FlushRow
  <2>3. wrote' \in [Procs -> SUBSET Keys]
    <3>1. wrote \in [Procs -> SUBSET Keys] /\ wrote[p] \union {k} \in SUBSET Keys
      OBVIOUS
    <3> HIDE DEF TypeOK
    <3> QED BY <2>2, <3>1
  <2>4. UNCHANGED <<unmade, rows, db, renames, pending, pc, batch, now, noted,
                    failures>>
    BY <1>5 DEF FlushRow
  <2> QED BY <2>1, <2>3, <2>4
<1>6. ASSUME NEW p \in Procs, FlushCommit(p) PROVE TypeOK'
  <2>1. db' \in [Keys -> Time]
    BY <1>6 DEF FlushCommit
  <2> QED BY <1>6, <2>1, EndTypes DEF FlushCommit
<1>7. ASSUME NEW p \in Procs, FlushFail(p) PROVE TypeOK'
  <2>1. failures' \in 0..MaxFailures
    BY <1>7 DEF FlushFail
  <2> QED BY <1>7, <2>1, EndTypes, PutBackTypes DEF FlushFail, PutBack
<1>8. ASSUME NEW p \in Procs, DeadlockAbort(p) PROVE TypeOK'
  BY <1>8, EndTypes, PutBackTypes DEF DeadlockAbort, PutBack
<1>9. ASSUME NEW p \in Procs, Shutdown(p) PROVE TypeOK'
  BY <1>9, TakeTypes DEF Shutdown
<1>10. ASSUME NEW p \in Procs, Kill(p) PROVE TypeOK'
  <2>1. failures' \in 0..MaxFailures
    BY <1>10 DEF Kill
  <2> QED BY <1>10, <2>1, Notes DEF Kill
<1>11. ASSUME NEW p \in Procs, Startup(p) PROVE TypeOK'
  BY <1>11, Notes DEF Startup
<1>12. ASSUME NEW k \in Keys, LoadKey(k) PROVE TypeOK'
  <2>1. rows' = rows /\ db' = db /\ k \in Keys \ SystemKeys
    BY <1>12 DEF LoadKey
  <2>2. renames' \subseteq [key : Keys \ SystemKeys, seen : Time]
    BY <1>12, <2>1 DEF LoadKey
  <2> QED BY <1>12, <2>1, <2>2 DEF LoadKey
<1>13. ASSUME NEW r \in renames, UpdateName(r) \/ AbandonRename(r)
       PROVE  TypeOK'
  BY <1>13 DEF UpdateName, AbandonRename
<1>14. ASSUME NEW k \in Keys, CreateKey(k) PROVE TypeOK'
  BY <1>14 DEF CreateKey
<1>15. CASE UNCHANGED vars
  BY <1>15 DEF vars
<1> QED BY <1>1, <1>2, <1>3, <1>4, <1>5, <1>6, <1>7, <1>8, <1>9, <1>10, <1>11,
           <1>12, <1>13, <1>14, <1>15 DEF Next, FlushStep

\* The database changes only in the commit of the flush that locked the row.
LEMMA DbStep ==
    ASSUME UsageInv, [Next]_vars, NEW k \in Keys
    PROVE  /\ db'[k] = db[k]
                \/ \E p \in Procs : FlushCommit(p) /\ k \in wrote[p]
           /\ db'[k] >= db[k]
<1> USE DEF UsageInv, TypeOK
<1>1. db[k] \in Nat
  BY UsageAssumption DEF Time
<1>2. ASSUME NEW p \in Procs, FlushCommit(p)
      PROVE  db'[k] = IF k \in wrote[p] THEN batch[p][k] ELSE db[k]
  BY <1>2 DEF FlushCommit
<1>3. ASSUME NEW p \in Procs, k \in wrote[p]
      PROVE  db[k] < batch[p][k] /\ batch[p][k] \in Nat
  BY <1>3, UsageAssumption DEF LockedRowsAreOlder, Time
<1>4. (\E p \in Procs : FlushCommit(p)) \/ UNCHANGED db
  BY DEF Next, FlushStep, Tick, Authenticate, CreateKey, Revoke, LoadKey,
         UpdateName, AbandonRename, FlushStart, FlushRow, FlushFail,
         DeadlockAbort, Shutdown, Kill, Startup, vars
<1> QED BY <1>1, <1>2, <1>3, <1>4

\* What a step does to the flush of one process: nothing, one row, or all.
LEMMA FlushSteps ==
    ASSUME UsageInv, [Next]_vars, NEW p \in Procs
    PROVE  \/ UNCHANGED <<batch[p], todo[p], wrote[p]>>
                  /\ (Flushing(p) => Flushing(p)')
           \/ \E k \in Keys : FlushRow(p, k)
           \/ /\ batch'[p] = pending[p]
              /\ todo'[p] = NotedIn(pending[p])
              /\ wrote'[p] = {}
              /\ Flushing(p)' \/ pending[p] = NoNotes
           \/ batch'[p] = NoNotes /\ todo'[p] = {} /\ wrote'[p] = {}
<1> USE DEF UsageInv, TypeOK
<1>1. ASSUME NEW q \in Procs, q # p,
             \/ FlushStep(q) \/ FlushFail(q) \/ Shutdown(q) \/ Kill(q)
             \/ Startup(q)
             \/ \E k \in Keys : Authenticate(q, k) \/ FlushRow(q, k)
      PROVE  UNCHANGED <<batch[p], todo[p], wrote[p], pc[p]>>
  BY <1>1 DEF FlushStep, FlushStart, FlushRow, FlushCommit, FlushFail, Kill,
              DeadlockAbort, PutBack, EndFlush, TakeNotes, Shutdown, Startup,
              Authenticate
<1>2. ASSUME \/ Tick \/ \E k \in Keys : Revoke(k) \/ Authenticate(p, k)
             \/ \E k \in Keys : CreateKey(k) \/ LoadKey(k)
             \/ \E r \in renames : UpdateName(r) \/ AbandonRename(r)
             \/ UNCHANGED vars
      PROVE  UNCHANGED <<batch[p], todo[p], wrote[p], pc[p]>>
  BY <1>2 DEF Tick, Revoke, Authenticate, CreateKey, LoadKey, UpdateName,
              AbandonRename, vars
<1>3. ASSUME Startup(p)
      PROVE  UNCHANGED <<batch[p], todo[p], wrote[p]>> /\ ~Flushing(p)
  BY <1>3 DEF Startup, Flushing
<1>4. ASSUME FlushStart(p) \/ Shutdown(p)
      PROVE  /\ batch'[p] = pending[p]
             /\ todo'[p] = NotedIn(pending[p])
             /\ wrote'[p] = {}
             /\ Flushing(p)' \/ pending[p] = NoNotes
  BY <1>4 DEF FlushStart, Shutdown, TakeNotes, Flushing
<1>5. ASSUME FlushCommit(p) \/ FlushFail(p) \/ DeadlockAbort(p) \/ Kill(p)
      PROVE  batch'[p] = NoNotes /\ todo'[p] = {} /\ wrote'[p] = {}
  BY <1>5 DEF FlushCommit, FlushFail, DeadlockAbort, PutBack, EndFlush, Kill
<1>6. UNCHANGED pc[p] => (Flushing(p) => Flushing(p)')
  BY DEF Flushing
<1> QED BY <1>1, <1>2, <1>3, <1>4, <1>5, <1>6 DEF Next, FlushStep

\* Processes that do not flush hold nothing.
LEMMA HoldStep == UsageInv /\ [Next]_vars => OnlyFlushesHold'
<1> SUFFICES ASSUME UsageInv, [Next]_vars, NEW p \in Procs, ~Flushing(p)'
             PROVE  batch'[p] = NoNotes /\ todo'[p] = {} /\ wrote'[p] = {}
  BY DEF OnlyFlushesHold
<1>1. \A k \in Keys : ~FlushRow(p, k)
  BY DEF FlushRow, Flushing
<1>2. NotedIn(NoNotes) = {}
  BY DEF NotedIn, NoNotes
<1>3. ~Flushing(p) => batch[p] = NoNotes /\ todo[p] = {} /\ wrote[p] = {}
  BY DEF UsageInv, OnlyFlushesHold
<1> QED BY <1>1, <1>2, <1>3, FlushSteps
\* A lock that is there after a step was there before, or was free and is taken
\* for a note that is newer than the row.
LEMMA LockStep ==
    ASSUME UsageInv, [Next]_vars, NEW p \in Procs, NEW k \in Keys,
           k \in wrote'[p]
    PROVE  /\ batch'[p] = batch[p]
           /\ ~FlushCommit(p)
           /\ \/ k \in wrote[p]
              \/ /\ FlushRow(p, k)
                 /\ db[k] < batch[p][k]
                 /\ ~Locked(k)
<1> USE DEF UsageInv, TypeOK
<1>1. ~FlushCommit(p)
  BY DEF FlushCommit, EndFlush
<1>2. ASSUME NEW j \in Keys, FlushRow(p, j)
      PROVE  /\ batch'[p] = batch[p]
             /\ k \in wrote[p] \/ (j = k /\ db[k] < batch[p][k] /\ ~Locked(k))
  BY <1>2 DEF FlushRow, Stale
<1> QED BY <1>1, <1>2, FlushSteps

\* A row that is locked stays as old as it was found.
LEMMA LockedStep == UsageInv /\ [Next]_vars => LockedRowsAreOlder'
<1> SUFFICES ASSUME UsageInv, [Next]_vars, NEW p \in Procs, NEW k \in Keys,
                    k \in wrote'[p]
             PROVE  /\ db'[k] < batch'[p][k]
                    /\ \A q \in Procs : k \in wrote'[q] => q = p
  BY DEF LockedRowsAreOlder
<1>1. \A q, r \in Procs : k \in wrote[q] /\ k \in wrote[r] => q = r
  BY DEF UsageInv, LockedRowsAreOlder
<1>2. db[k] < batch[p][k] /\ batch'[p] = batch[p]
  BY LockStep DEF UsageInv, LockedRowsAreOlder
<1>3. db'[k] = db[k]
  <2>1. SUFFICES ASSUME NEW q \in Procs, FlushCommit(q), k \in wrote[q]
                 PROVE  FALSE
    BY DbStep
  <2>2. k \in wrote[p]
    BY <2>1, LockStep DEF Locked
  <2>3. q = p
    BY <1>1, <2>1, <2>2
  <2> QED BY <2>1, <2>3, LockStep
<1>4. ASSUME NEW q \in Procs, k \in wrote'[q] PROVE q = p
  <2>1. CASE k \in wrote[p] /\ k \in wrote[q]
    BY <1>1, <2>1
  <2>2. CASE k \notin wrote[p]
    <3>1. FlushRow(p, k) /\ ~Locked(k)
      BY <2>2, LockStep
    <3>2. ~(k \in wrote[q])
      BY <3>1 DEF Locked
    <3>3. FlushRow(q, k)
      BY <1>4, <3>2, LockStep
    <3> QED BY <3>1, <3>3 DEF FlushRow, UsageInv, TypeOK
  <2>3. CASE k \notin wrote[q]
    <3>1. FlushRow(q, k) /\ ~Locked(k)
      BY <1>4, <2>3, LockStep
    <3>2. ~(k \in wrote[p])
      BY <3>1 DEF Locked
    <3>3. FlushRow(p, k)
      BY <3>2, LockStep
    <3> QED BY <3>1, <3>3 DEF FlushRow, UsageInv, TypeOK
  <2> QED BY <2>1, <2>2, <2>3
<1> QED BY <1>2, <1>3, <1>4

\* A row that is there after a step was there before, or its key was just made.
LEMMA RowsStep ==
    ASSUME UsageInv, [Next]_vars, NEW p \in Procs, NEW k \in Keys, k \in rows'
    PROVE  \/ k \in rows
           \/ /\ UNCHANGED <<pending, batch, noted>>
              /\ batch[p][k] = 0
              /\ noted[p][k] = 0
<1>1. ASSUME NEW j \in Keys, CreateKey(j), j = k
      PROVE  /\ UNCHANGED <<pending, batch, noted>>
             /\ batch[p][k] = 0
             /\ noted[p][k] = 0
  BY <1>1 DEF CreateKey, UsageInv, UnmadeKeysAreUnused
<1>2. ASSUME NEW j \in Keys, CreateKey(j), j # k PROVE k \in rows
  BY <1>2 DEF CreateKey
<1>3. (\E j \in Keys : CreateKey(j)) \/ rows' \subseteq rows
  BY DEF Next, FlushStep, Tick, Authenticate, Revoke, LoadKey, UpdateName,
         AbandonRename, FlushStart, FlushRow, FlushCommit, FlushFail,
         DeadlockAbort, Shutdown, Kill, Startup, vars
<1> QED BY <1>1, <1>2, <1>3

\* Nobody notes a use of a key before it is made.
LEMMA UnmadeStep == UsageInv /\ [Next]_vars => UnmadeKeysAreUnused'
<1> SUFFICES ASSUME UsageInv, [Next]_vars, NEW k \in unmade'
             PROVE  /\ k \notin rows'
                    /\ \A p \in Procs : /\ pending'[p][k] = 0
                                         /\ batch'[p][k] = 0
                                         /\ noted'[p][k] = 0
  BY DEF UnmadeKeysAreUnused
<1> DEFINE Unused == /\ k \notin rows'
                     /\ \A p \in Procs : /\ pending'[p][k] = 0
                                          /\ batch'[p][k] = 0
                                          /\ noted'[p][k] = 0
<1>1. unmade' \subseteq unmade
  BY DEF Next, FlushStep, Tick, Authenticate, CreateKey, Revoke, LoadKey,
         UpdateName, AbandonRename, FlushStart, FlushRow, FlushCommit,
         FlushFail, DeadlockAbort, Shutdown, Kill, Startup, vars
<1>2. /\ k \in Keys
      /\ k \notin rows
      /\ \A p \in Procs : /\ pending[p][k] = 0
                           /\ batch[p][k] = 0
                           /\ noted[p][k] = 0
  BY <1>1 DEF UsageInv, UnmadeKeysAreUnused, TypeOK
<1> USE <1>2 DEF UsageInv, TypeOK
<1>3. ASSUME \/ Tick \/ \E j \in Keys : Revoke(j) \/ LoadKey(j)
             \/ \E r \in renames : UpdateName(r) \/ AbandonRename(r)
             \/ \E p \in Procs, j \in Keys : FlushRow(p, j)
             \/ UNCHANGED vars
      PROVE  Unused
  BY <1>3 DEF Tick, Revoke, LoadKey, UpdateName, AbandonRename, FlushRow, vars
<1>4. ASSUME NEW j \in Keys, CreateKey(j) PROVE Unused
  BY <1>4 DEF CreateKey
<1>5. ASSUME NEW p \in Procs, NEW j \in Keys, Authenticate(p, j) PROVE Unused
  BY <1>5 DEF Authenticate
<1>6. ASSUME NEW p \in Procs, FlushStart(p) \/ Shutdown(p) PROVE Unused
  <2>1. /\ rows' = rows /\ noted' = noted
        /\ pending' = [pending EXCEPT ![p] = NoNotes]
        /\ batch' = [batch EXCEPT ![p] = pending[p]]
    BY <1>6 DEF FlushStart, Shutdown, TakeNotes
  <2>2. \A q \in Procs : pending'[q] = pending[q] \/ pending'[q] = NoNotes
    BY <2>1
  <2>3. \A q \in Procs : batch'[q] = batch[q] \/ batch'[q] = pending[q]
    BY <2>1
  <2> QED BY <2>1, <2>2, <2>3 DEF NoNotes
<1>7. ASSUME NEW p \in Procs, FlushCommit(p) \/ Kill(p) \/ Startup(p)
      PROVE  Unused
  <2>1. /\ rows' = rows
        /\ pending' = pending \/ pending' = [pending EXCEPT ![p] = NoNotes]
        /\ batch' = batch \/ batch' = [batch EXCEPT ![p] = NoNotes]
        /\ noted' = noted \/ noted' = [noted EXCEPT ![p] = NoNotes]
    BY <1>7 DEF FlushCommit, EndFlush, Kill, Startup
  <2>2. \A q \in Procs : pending'[q] = pending[q] \/ pending'[q] = NoNotes
    BY <2>1
  <2>3. \A q \in Procs : batch'[q] = batch[q] \/ batch'[q] = NoNotes
    BY <2>1
  <2>4. \A q \in Procs : noted'[q] = noted[q] \/ noted'[q] = NoNotes
    BY <2>1
  <2> QED BY <2>1, <2>2, <2>3, <2>4 DEF NoNotes
<1>8. ASSUME NEW p \in Procs, FlushFail(p) \/ DeadlockAbort(p) PROVE Unused
  <2>1. /\ rows' = rows
        /\ pending' = [pending EXCEPT ![p] =
                          [j \in Keys |-> Later(pending[p][j], batch[p][j])]]
        /\ batch' = [batch EXCEPT ![p] = NoNotes]
        /\ noted' = noted \/ noted' = [noted EXCEPT ![p] = NoNotes]
    BY <1>8 DEF FlushFail, DeadlockAbort, PutBack, EndFlush
  <2>2. \A q \in Procs :
            pending'[q][k] \in {pending[q][k], Later(pending[p][k], batch[p][k])}
    BY <2>1
  <2>3. \A q \in Procs : batch'[q] = batch[q] \/ batch'[q] = NoNotes
    BY <2>1
  <2>4. \A q \in Procs : noted'[q] = noted[q] \/ noted'[q] = NoNotes
    BY <2>1
  <2> QED BY <2>1, <2>2, <2>3, <2>4 DEF NoNotes, Later
<1>9. Unused
  <2> HIDE DEF Unused
  <2> QED BY <1>3, <1>4, <1>5, <1>6, <1>7, <1>8 DEF Next, FlushStep
<1> QED BY <1>9

\* A row that was passed over stays recorded, since times only advance.
LEMMA PassedStep == UsageInv /\ [Next]_vars => PassedRowsAreRecorded'
<1> SUFFICES ASSUME UsageInv, [Next]_vars, NEW p \in Procs, NEW k \in Keys,
                    k \notin todo'[p], k \notin wrote'[p]
             PROVE  db'[k] >= batch'[p][k] \/ k \notin rows'
  BY DEF PassedRowsAreRecorded
<1> SUFFICES ASSUME k \in rows' => k \in rows
             PROVE  db'[k] >= batch'[p][k] \/ k \notin rows'
  <2>1. CASE k \in rows' /\ k \notin rows
    <3>1. batch'[p][k] = 0 /\ db'[k] \in Nat
      BY <2>1, RowsStep, TypeStep, UsageAssumption DEF UsageInv, TypeOK, Time
    <3> QED BY <3>1
  <2> QED BY <2>1
<1>1. /\ db[k] \in Nat /\ db'[k] \in Nat /\ batch[p][k] \in Nat
      /\ pending[p][k] \in Nat
  BY TypeStep, UsageAssumption DEF UsageInv, TypeOK, Time
<1>2. db'[k] >= db[k] /\ (k \in rows' => k \in rows)
  BY DbStep
<1>3. CASE UNCHANGED <<batch[p], todo[p], wrote[p]>>
  <2>1. db[k] >= batch[p][k] \/ k \notin rows
    BY <1>3 DEF UsageInv, PassedRowsAreRecorded
  <2> QED BY <1>1, <1>2, <1>3, <2>1
<1>4. ASSUME NEW j \in Keys, FlushRow(p, j)
      PROVE  db'[k] >= batch'[p][k] \/ k \notin rows'
  <2>1. /\ todo'[p] = todo[p] \ {j}
        /\ batch' = batch /\ db' = db /\ rows' = rows
        /\ wrote'[p] = IF Stale(p, j) THEN wrote[p] \union {j} ELSE wrote[p]
    BY <1>4 DEF FlushRow, UsageInv, TypeOK
  <2>2. CASE k = j
    BY <1>1, <2>1, <2>2 DEF Stale
  <2>3. CASE k # j
    BY <2>1, <2>3 DEF UsageInv, PassedRowsAreRecorded
  <2> QED BY <2>2, <2>3
<1>5. CASE batch'[p] = pending[p] /\ todo'[p] = NotedIn(pending[p])
  BY <1>1, <1>5 DEF NotedIn
<1>6. CASE batch'[p] = NoNotes
  BY <1>1, <1>6 DEF NoNotes
<1> QED BY <1>3, <1>4, <1>5, <1>6, FlushSteps
\* A use that was noted moves from memory to a flush to the database, and back
\* into memory when the flush fails, but is never dropped on the way.
LEMMA ForgottenStep == UsageInv /\ [Next]_vars => NoUseForgotten'
<1> SUFFICES ASSUME UsageInv, [Next]_vars, NEW p \in Procs, NEW k \in Keys,
                    pc'[p] \in {"up", "flush"}
             PROVE  \/ db'[k] >= noted'[p][k]
                    \/ pending'[p][k] >= noted'[p][k]
                    \/ batch'[p][k] >= noted'[p][k]
                    \/ k \notin rows'
  BY DEF NoUseForgotten
<1> DEFINE Goal == \/ db'[k] >= noted'[p][k]
                   \/ pending'[p][k] >= noted'[p][k]
                   \/ batch'[p][k] >= noted'[p][k]
                   \/ k \notin rows'
           Held == \/ db[k] >= noted[p][k]
                   \/ pending[p][k] >= noted[p][k]
                   \/ batch[p][k] >= noted[p][k]
                   \/ k \notin rows
<1> SUFFICES ASSUME k \in rows' => k \in rows PROVE Goal
  <2>1. CASE k \in rows' /\ k \notin rows
    <3>1. noted'[p][k] = 0 /\ db'[k] \in Nat
      BY <2>1, RowsStep, TypeStep, UsageAssumption DEF UsageInv, TypeOK, Time
    <3> QED BY <3>1
  <2> QED BY <2>1
<1>1. /\ db[k] \in Nat /\ db'[k] \in Nat /\ batch[p][k] \in Nat
      /\ pending[p][k] \in Nat /\ noted[p][k] \in Nat /\ noted'[p][k] \in Nat
  BY TypeStep, UsageAssumption DEF UsageInv, TypeOK, Time
<1>2. db'[k] >= db[k] /\ (k \in rows' => k \in rows)
  BY DbStep
<1>3. pc[p] \in {"up", "flush"} => Held
  BY DEF UsageInv, NoUseForgotten
<1>4. ASSUME UNCHANGED <<pc[p], pending[p], batch[p], noted[p]>> PROVE Goal
  BY <1>1, <1>2, <1>3, <1>4
<1>5. ASSUME NEW q \in Procs, q # p,
             \/ FlushStep(q) \/ FlushFail(q) \/ Shutdown(q) \/ Kill(q)
             \/ Startup(q)
             \/ \E j \in Keys : Authenticate(q, j) \/ FlushRow(q, j)
      PROVE  UNCHANGED <<pc[p], pending[p], batch[p], noted[p]>>
  BY <1>5 DEF FlushStep, FlushStart, FlushRow, FlushCommit, FlushFail, Kill,
              DeadlockAbort, PutBack, EndFlush, TakeNotes, Shutdown, Startup,
              Authenticate, UsageInv, TypeOK
<1>6. ASSUME NEW j \in Keys, Authenticate(p, j) PROVE Goal
  <2>1. CASE j = k
    <3>1. pending'[p][k] = now /\ noted'[p][k] = now
      BY <1>6, <2>1 DEF Authenticate, UsageInv, TypeOK
    <3> QED BY <1>1, <3>1
  <2>2. CASE j # k
    <3>1. /\ pending'[p][k] = pending[p][k] /\ noted'[p][k] = noted[p][k]
          /\ UNCHANGED <<db, batch, rows, pc>>
      BY <1>6, <2>2 DEF Authenticate, UsageInv, TypeOK
    <3> QED BY <1>3, <3>1
  <2> QED BY <2>1, <2>2
<1>7. ASSUME FlushStart(p) PROVE Goal
  <2>1. /\ pc[p] = "up" /\ batch'[p] = pending[p]
        /\ noted' = noted /\ db' = db /\ rows' = rows
    BY <1>7 DEF FlushStart, TakeNotes, UsageInv, TypeOK
  <2>2. batch[p][k] = 0
    BY <2>1 DEF UsageInv, OnlyFlushesHold, Flushing, NoNotes
  <2> QED BY <1>1, <1>3, <2>1, <2>2
<1>8. ASSUME FlushCommit(p) PROVE Goal
  <2>1. /\ pc[p] = "flush" /\ noted' = noted /\ rows' = rows
        /\ pending' = pending /\ k \notin todo[p]
        /\ db'[k] = IF k \in wrote[p] THEN batch[p][k] ELSE db[k]
    BY <1>8 DEF FlushCommit, EndFlush, Flushing, UsageInv, TypeOK
  <2>2. k \notin wrote[p] => db[k] >= batch[p][k] \/ k \notin rows
    BY <2>1 DEF UsageInv, PassedRowsAreRecorded
  <2> QED BY <1>1, <1>2, <1>3, <2>1, <2>2
<1>9. ASSUME FlushFail(p) \/ DeadlockAbort(p) PROVE Goal
  <2>1. /\ pc[p] = "flush" /\ noted' = noted /\ rows' = rows /\ db' = db
        /\ pending'[p][k] = Later(pending[p][k], batch[p][k])
    BY <1>9 DEF FlushFail, DeadlockAbort, PutBack, EndFlush, Flushing,
                UsageInv, TypeOK
  <2> QED BY <1>1, <1>3, <2>1 DEF Later
<1>10. ~Shutdown(p) /\ ~Kill(p)
  BY DEF Shutdown, TakeNotes, Kill, UsageInv, TypeOK
<1>11. ASSUME Startup(p) PROVE Goal
  <2>1. noted'[p][k] = 0
    BY <1>11 DEF Startup, NoNotes, UsageInv, TypeOK
  <2> QED BY <1>1, <2>1
<1>12. ASSUME NEW j \in Keys, FlushRow(p, j)
       PROVE  UNCHANGED <<pc[p], pending[p], batch[p], noted[p]>>
  BY <1>12 DEF FlushRow
<1>13. ASSUME \/ Tick
              \/ \E j \in Keys : CreateKey(j) \/ Revoke(j) \/ LoadKey(j)
              \/ \E r \in renames : UpdateName(r) \/ AbandonRename(r)
              \/ UNCHANGED vars
       PROVE  UNCHANGED <<pc[p], pending[p], batch[p], noted[p]>>
  BY <1>13 DEF Tick, CreateKey, Revoke, LoadKey, UpdateName, AbandonRename,
               vars
<1>14. Goal
  <2> HIDE DEF Goal
  <2> QED BY <1>4, <1>5, <1>6, <1>7, <1>8, <1>9, <1>10, <1>11, <1>12, <1>13
          DEF Next, FlushStep
<1> QED BY <1>14

\* Every reachable state satisfies the inductive invariant.
THEOREM UsageSafety == Spec => []UsageInv
<1>1. UsageInv /\ [Next]_vars => UsageInv'
  BY TypeStep, UnmadeStep, HoldStep, LockedStep, PassedStep, ForgottenStep
     DEF UsageInv
<1> QED BY InitInv, <1>1, PTL DEF Spec

\* Rows, notes and flushes keep their types.
THEOREM UsageTyped == Spec => []TypeOK
<1>1. UsageInv => TypeOK
  BY DEF UsageInv
<1> QED BY UsageSafety, <1>1, PTL

\* As long as a process runs, no use it noted is forgotten.
THEOREM UsesAreKept == Spec => []NoUseForgotten
<1>1. UsageInv => NoUseForgotten
  BY DEF UsageInv
<1> QED BY UsageSafety, <1>1, PTL

\* However flushes and renames overlap, the recorded last use of a key only
\* advances.
THEOREM LastUsedAdvances == Spec => LastUsedOnlyAdvances
<1>1. UsageInv /\ [Next]_vars => [\A k \in Keys : db'[k] >= db[k]]_vars
  BY DbStep
<1> QED BY <1>1, UsageSafety, PTL DEF Spec, LastUsedOnlyAdvances

\* What is in memory is a note of a process or of its flush.
LEMMA MemoryHolds ==
    ASSUME NEW k \in Keys
    PROVE  /\ \A t : t \in UsesInMemory[k] <=>
                  t # 0 /\ \E p \in Procs : t \in {pending[p][k], batch[p][k]}
           /\ \A t : t \in UsesInMemory'[k] <=>
                  t # 0 /\ \E p \in Procs : t \in {pending'[p][k], batch'[p][k]}
  BY DEF UsesInMemory

\* Memory that nobody touches is the same memory.
LEMMA MemoryFrame ==
    ASSUME UNCHANGED <<pending, batch>>
    PROVE  UNCHANGED UsesInMemory
  BY DEF UsesInMemory

\* A step of one process that moves its notes about and drops none that is not
\* recorded or overtaken, unless the process stops or starts, is allowed.
LEMMA MovesAreLetGo ==
    ASSUME UsageInv, TypeOK', NEW p \in Procs,
           UNCHANGED <<unmade, rows, now>>,
           \A q \in Procs \ {p} : UNCHANGED <<pending[q], batch[q]>>,
           \A k \in Keys :
               {pending'[p][k], batch'[p][k]}
                   \subseteq {pending[p][k], batch[p][k], 0},
           \/ Life' # Life
           \/ \A k \in rows : \A t \in {pending[p][k], batch[p][k]} :
                  db'[k] >= t \/ \E later \in {pending'[p][k], batch'[p][k]} :
                                     later >= t
    PROVE  Promise!LetGo
<1> USE DEF UsageInv
<1>1. UsesInMemory' \in [Keys -> SUBSET Nat]
  BY UsageAssumption DEF UsesInMemory, TypeOK, Time
<1>2. ASSUME NEW k \in Keys PROVE UsesInMemory'[k] \subseteq UsesInMemory[k]
  BY MemoryHolds
<1>3. ASSUME Life' = Life, NEW k \in rows,
             NEW t \in UsesInMemory[k] \ UsesInMemory'[k]
      PROVE  db'[k] >= t \/ \E later \in UsesInMemory'[k] : later >= t
  <2>1. k \in Keys
    BY DEF TypeOK
  <2>2. t # 0 /\ t \in {pending[p][k], batch[p][k]}
    BY <2>1, MemoryHolds
  <2>3. t \in Nat
    BY <2>1, <2>2, UsageAssumption DEF TypeOK, Time
  <2>4. CASE db'[k] >= t
    BY <2>4
  <2>5. ASSUME NEW later \in {pending'[p][k], batch'[p][k]}, later >= t
        PROVE  later \in UsesInMemory'[k]
    <3>1. later # 0
      BY <2>2, <2>3, <2>5
    <3> QED BY <2>1, <3>1, MemoryHolds
  <2> QED BY <1>3, <2>2, <2>4, <2>5
<1> QED BY <1>1, <1>2, <1>3 DEF Promise!LetGo

\* A commit writes the times of uses that it remembers, each over an older one.
LEMMA CommitAdvances ==
    ASSUME UsageInv, TypeOK', NEW p \in Procs, FlushCommit(p)
    PROVE  Promise!Advance
<1>1. ASSUME NEW k \in Keys, db'[k] # db[k]
      PROVE  db'[k] > db[k] /\ db'[k] \in UsesInMemory[k]
  <2>1. k \in wrote[p] /\ db'[k] = batch[p][k]
    BY <1>1 DEF FlushCommit
  <2>2. db[k] < batch[p][k] /\ db[k] \in Nat /\ batch[p][k] \in Nat
    BY <2>1, UsageAssumption DEF UsageInv, LockedRowsAreOlder, TypeOK, Time
  <2> QED BY <2>1, <2>2, MemoryHolds
<1>2. db' \in [Keys -> Nat]
  BY UsageAssumption DEF TypeOK, Time
<1> QED BY <1>1, <1>2 DEF Promise!Advance

\* The steps of a flush and the ends of a process record, or let go what they
\* may let go.
LEMMA FlushesRecord ==
    ASSUME UsageInv, TypeOK', NEW p \in Procs,
           \/ FlushStep(p) \/ FlushFail(p) \/ Shutdown(p) \/ Kill(p)
           \/ Startup(p)
    PROVE  Promise!Record
<1> USE DEF UsageInv
<1>1. \A k \in Keys : /\ pending[p][k] \in Nat
                      /\ batch[p][k] \in Nat
                      /\ db[k] \in Nat
  BY UsageAssumption DEF TypeOK, Time
<1>2. /\ UNCHANGED <<unmade, rows, now>>
      /\ \A q \in Procs \ {p} : UNCHANGED <<pending[q], batch[q]>>
  BY DEF TypeOK, FlushStep, FlushStart, FlushCommit, DeadlockAbort, FlushFail,
         PutBack, EndFlush, Shutdown, TakeNotes, Kill, Startup
<1>3. \/ Promise!Advance
      \/ UNCHANGED db
  BY CommitAdvances DEF FlushStep, FlushStart, DeadlockAbort, FlushFail,
         Shutdown, Kill, Startup
<1>4. \A k \in Keys : {pending'[p][k], batch'[p][k]}
                          \subseteq {pending[p][k], batch[p][k], 0}
  BY DEF TypeOK, FlushStep, FlushStart, FlushCommit, DeadlockAbort, FlushFail,
         PutBack, EndFlush, Shutdown, TakeNotes, Kill, Startup, NoNotes, Later
<1>5. ASSUME Life' = Life, NEW k \in rows, NEW t \in {pending[p][k], batch[p][k]}
      PROVE  db'[k] >= t \/ \E later \in {pending'[p][k], batch'[p][k]} :
                                later >= t
  <2>1. k \in Keys
    BY DEF TypeOK
  <2>2. ~Shutdown(p) /\ ~Kill(p) /\ ~Startup(p)
    BY <1>5 DEF Life, Shutdown, TakeNotes, Kill, Startup, TypeOK
  <2>3. CASE FlushStart(p)
    <3>1. batch'[p] = pending[p] /\ ~Flushing(p)
      BY <2>3 DEF FlushStart, TakeNotes, Flushing, TypeOK
    <3>2. batch[p][k] = 0
      BY <2>1, <3>1 DEF OnlyFlushesHold, NoNotes
    <3> QED BY <1>1, <2>1, <3>1, <3>2
  <2>4. CASE FlushCommit(p)
    <3>1. /\ pending'[p] = pending[p]
          /\ k \notin todo[p]
          /\ db'[k] = IF k \in wrote[p] THEN batch[p][k] ELSE db[k]
      BY <2>1, <2>4 DEF FlushCommit
    <3>2. k \notin wrote[p] => db[k] >= batch[p][k]
      BY <2>1, <3>1 DEF PassedRowsAreRecorded
    <3> QED BY <1>1, <2>1, <3>1, <3>2
  <2>5. CASE FlushFail(p) \/ DeadlockAbort(p)
    <3>1. pending'[p][k] = Later(pending[p][k], batch[p][k])
      BY <2>1, <2>5 DEF FlushFail, DeadlockAbort, PutBack, TypeOK
    <3> QED BY <1>1, <2>1, <3>1 DEF Later
  <2> QED BY <2>2, <2>3, <2>4, <2>5 DEF FlushStep
<1>6. Promise!LetGo
  BY <1>2, <1>4, <1>5, MovesAreLetGo
<1> QED BY <1>2, <1>3, <1>6 DEF Promise!Record

\* A use that is noted is remembered, and replaces the note of an earlier one.
LEMMA NotesAreUses ==
    ASSUME UsageInv, NEW p \in Procs, NEW k \in Keys, Authenticate(p, k)
    PROVE  Promise!Use(k)
<1>1. /\ pending' = [pending EXCEPT ![p][k] = now]
      /\ UNCHANGED <<unmade, rows, db, pc, batch, now>>
      /\ k \in rows
  BY DEF Authenticate
<1>2. /\ pending'[p][k] = now
      /\ \A q \in Procs, j \in Keys :
             q # p \/ j # k => pending'[q][j] = pending[q][j]
  BY <1>1 DEF UsageInv, TypeOK
<1>3. now # 0
  BY DEF UsageInv, TypeOK
<1>4. now \in UsesInMemory'[k]
  BY <1>2, <1>3, MemoryHolds
<1>5. UsesInMemory'[k] \subseteq UsesInMemory[k] \union {now}
  BY <1>1, <1>2, MemoryHolds
<1>6. ASSUME NEW j \in Keys, j # k PROVE UsesInMemory'[j] = UsesInMemory[j]
  <2>1. \A t : t \in UsesInMemory'[j] <=> t \in UsesInMemory[j]
    BY <1>1, <1>2, <1>6, MemoryHolds
  <2> QED BY <2>1 DEF UsesInMemory
<1>7. UsesInMemory' = [UsesInMemory EXCEPT ![k] = UsesInMemory'[k]]
  <2>1. /\ UsesInMemory = [j \in Keys |-> UsesInMemory[j]]
        /\ UsesInMemory' = [j \in Keys |-> UsesInMemory'[j]]
    BY DEF UsesInMemory
  <2> QED BY <1>6, <2>1
<1>8. k \notin unmade
  BY <1>1 DEF UsageInv, UnmadeKeysAreUnused
<1>9. UNCHANGED Life
  BY <1>1 DEF Life
<1> QED BY <1>1, <1>4, <1>5, <1>7, <1>8, <1>9 DEF Promise!Use

\* Every step is one the promise allows, or none of its business.
LEMMA PromiseStep ==
    ASSUME UsageInv, TypeOK', [Next]_vars
    PROVE  [Promise!Next]_<<unmade, rows, db, UsesInMemory, Life, now>>
<1> USE DEF Promise!Next
<1>1. CASE Tick
  BY <1>1, MemoryFrame DEF Tick, Promise!Pass, Life
<1>2. ASSUME NEW k \in Keys, CreateKey(k) PROVE Promise!Make(k)
  BY <1>2, MemoryFrame DEF CreateKey, Promise!Make, Life
<1>3. ASSUME NEW k \in Keys, Revoke(k) PROVE Promise!Revoke(k)
  BY <1>3, MemoryFrame DEF Revoke, Promise!Revoke, Life
<1>4. ASSUME \/ \E k \in Keys : LoadKey(k)
             \/ \E r \in renames : UpdateName(r) \/ AbandonRename(r)
             \/ \E p \in Procs, k \in Keys : FlushRow(p, k)
             \/ UNCHANGED vars
      PROVE  UNCHANGED <<unmade, rows, db, UsesInMemory, Life, now>>
  BY <1>4, MemoryFrame DEF LoadKey, UpdateName, AbandonRename, FlushRow, vars,
                           Life
<1> QED BY <1>1, <1>2, <1>3, <1>4, NotesAreUses, FlushesRecord DEF Next

\* A recorded time is that of a real use made after the key was, and no use is
\* let go of before it is recorded or overtaken, for all keys and processes.
THEOREM UsageKeepsPromise == Spec => KeepsPromise
<1>1. Init => Promise!Init
  BY DEF Init, Promise!Init, UsesInMemory, Life, NoNotes
<1>2. UsageInv /\ UsageInv' /\ [Next]_vars =>
          [Promise!Next]_<<unmade, rows, db, UsesInMemory, Life, now>>
  BY PromiseStep DEF UsageInv
<1> QED BY <1>1, <1>2, UsageSafety, PTL
        DEF Spec, KeepsPromise, Promise!Spec, Promise!vars

=============================================================================

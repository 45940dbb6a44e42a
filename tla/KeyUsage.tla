------------------------------ MODULE KeyUsage ------------------------------
(***************************************************************************)
(* How the data plane records api_keys.last_used_at: authenticate() notes  *)
(* the time of each use in memory, and a task moves the notes to the       *)
(* database every thirty seconds, in one transaction that updates row by   *)
(* row.  A flush that fails puts its notes back; on_shutdown cancels the   *)
(* task and flushes once more.  Several data-plane processes share the     *)
(* table, so their transactions meet on its rows, and meet the manager,    *)
(* which renames keys it has loaded and deletes keys that are revoked.     *)
(*                                                                         *)
(* Time 0 stands for NULL in the database and for "no note" in memory.     *)
(***************************************************************************)
EXTENDS Naturals, FiniteSets

CONSTANTS
    Keys,       \* API keys
    SystemKeys, \* those the manager made for a tenant, which keep their name
    Procs,      \* data-plane processes
    MaxTime,    \* bound: the clock
    MaxRenames, \* bound: renames in progress
    MaxFailures \* bound: flushes that fail, and processes that are killed

ASSUME UsageAssumption == /\ SystemKeys \subseteq Keys
                          /\ MaxTime \in Nat \ {0}
                          /\ MaxRenames \in Nat
                          /\ MaxFailures \in Nat

VARIABLES
    unmade,   \* keys that are not made yet
    rows,     \* keys that are in the table
    db,       \* committed last_used_at
    renames,  \* rows that renames in progress have loaded
    pending,  \* _pending_key_updates of each process
    pc,       \* what each process is doing
    batch,    \* the notes its flush took over
    todo,     \* keys its flush has not come to yet
    wrote,    \* rows its open transaction has updated, and so locked
    now,      \* the clock
    noted,    \* history: the last use of each key the process has noted
    failures  \* history: failures so far

vars == <<unmade, rows, db, renames, pending, pc, batch, todo, wrote, now,
          noted, failures>>

Time == 0..MaxTime
NoNotes == [k \in Keys |-> 0]
Later(s, t) == IF s > t THEN s ELSE t

Flushing(p) == pc[p] \in {"flush", "final"}
NotedIn(notes) == {k \in Keys : notes[k] # 0}
Locked(k) == \E p \in Procs : k \in wrote[p]

Init ==
    /\ unmade = Keys
    /\ rows = {}
    /\ db = NoNotes
    /\ renames = {}
    /\ pending = [p \in Procs |-> NoNotes]
    /\ pc = [p \in Procs |-> "up"]
    /\ batch = [p \in Procs |-> NoNotes]
    /\ todo = [p \in Procs |-> {}]
    /\ wrote = [p \in Procs |-> {}]
    /\ now = 1
    /\ noted = [p \in Procs |-> NoNotes]
    /\ failures = 0

Tick ==
    /\ now < MaxTime
    /\ now' = now + 1
    /\ UNCHANGED <<unmade, rows, db, renames, pending, pc, batch, todo, wrote,
                   noted, failures>>

\* create_api_key, or the creation of a tenant for its system key.
CreateKey(k) ==
    /\ k \in unmade
    /\ unmade' = unmade \ {k}
    /\ rows' = rows \union {k}
    /\ UNCHANGED <<db, renames, pending, pc, batch, todo, wrote, now,
                   noted, failures>>

\* Slip: a use is noted with a time that has not come yet.
NotesTheFuture(p, k) ==
    /\ pc[p] \in {"up", "flush"}
    /\ k \in rows
    /\ pending' = [pending EXCEPT ![p][k] = now + 1]
    /\ noted' = [noted EXCEPT ![p][k] = now]
    /\ UNCHANGED <<unmade, rows, db, renames, pc, batch, todo, wrote, now,
                   failures>>

\* The key is found in the table, and the use is noted over any earlier note.  A
\* request that is still served during the last flush does so too; nobody reads
\* that note, which goes with the process, and the step is left out.
Authenticate(p, k) ==
    /\ pc[p] \in {"up", "flush"}
    /\ k \in rows
    /\ pending' = [pending EXCEPT ![p][k] = now]
    /\ noted' = [noted EXCEPT ![p][k] = now]
    /\ UNCHANGED <<unmade, rows, db, renames, pc, batch, todo, wrote, now,
                   failures>>

\* The manager deletes the row of a revoked key.
Revoke(k) ==
    /\ k \in rows
    /\ ~Locked(k)
    /\ rows' = rows \ {k}
    /\ UNCHANGED <<unmade, db, renames, pending, pc, batch, todo, wrote, now,
                   noted, failures>>

\* update_api_key_name loads the row of the key, the time of its last use
\* included; a system key is refused.
LoadKey(k) ==
    /\ k \in rows \ SystemKeys
    /\ Cardinality(renames) < MaxRenames
    /\ renames' = renames \union {[key |-> k, seen |-> db[k]]}
    /\ UNCHANGED <<unmade, rows, db, pending, pc, batch, todo, wrote, now,
                   noted, failures>>

\* Slip: the commit writes every column of the loaded row.
WritesLoadedRow(r) ==
    /\ r.key \in rows
    /\ ~Locked(r.key)
    /\ db' = [db EXCEPT ![r.key] = r.seen]
    /\ renames' = renames \ {r}
    /\ UNCHANGED <<unmade, rows, pending, pc, batch, todo, wrote, now,
                   noted, failures>>

\* The commit writes the name, the one column that changed, once no flush
\* holds the row.
UpdateName(r) ==
    /\ r.key \in rows
    /\ ~Locked(r.key)
    /\ UNCHANGED db
    /\ renames' = renames \ {r}
    /\ UNCHANGED <<unmade, rows, pending, pc, batch, todo, wrote, now,
                   noted, failures>>

\* The new name is refused or the old one, or the row is gone, which fails the
\* UPDATE.
AbandonRename(r) ==
    /\ renames' = renames \ {r}
    /\ UNCHANGED <<unmade, rows, db, pending, pc, batch, todo, wrote, now,
                   noted, failures>>

\* The start of _flush_pending: the notes are copied and cleared.
TakeNotes(p, state) ==
    /\ pc' = [pc EXCEPT ![p] = state]
    /\ batch' = [batch EXCEPT ![p] = pending[p]]
    /\ todo' = [todo EXCEPT ![p] = NotedIn(pending[p])]
    /\ wrote' = [wrote EXCEPT ![p] = {}]
    /\ pending' = [pending EXCEPT ![p] = NoNotes]

\* The task wakes up; without notes it goes back to sleep.
FlushStart(p) ==
    /\ pc[p] = "up"
    /\ pending[p] # NoNotes
    /\ TakeNotes(p, "flush")
    /\ UNCHANGED <<unmade, rows, db, renames, now, noted, failures>>

\* Slip: the UPDATE without its condition on last_used_at.
AnyRow(p, k) == p \in Procs /\ k \in rows

\* UPDATE ... WHERE key_hash = :key_hash AND last_used_at < :ts: a row that is
\* gone or newer is passed over, any other is updated once nobody locks it.
Stale(p, k) == k \in rows /\ db[k] < batch[p][k]

FlushRow(p, k) ==
    /\ Flushing(p)
    /\ k \in todo[p]
    /\ todo' = [todo EXCEPT ![p] = @ \ {k}]
    /\ IF Stale(p, k)
       THEN ~Locked(k) /\ wrote' = [wrote EXCEPT ![p] = @ \union {k}]
       ELSE UNCHANGED wrote
    /\ UNCHANGED <<unmade, rows, db, renames, pending, pc, batch, now, noted,
                   failures>>

\* A flush that ends gives its locks back; the last one ends the process.
EndFlush(p) ==
    /\ pc' = [pc EXCEPT ![p] = IF @ = "final" THEN "down" ELSE "up"]
    /\ batch' = [batch EXCEPT ![p] = NoNotes]
    /\ todo' = [todo EXCEPT ![p] = {}]
    /\ wrote' = [wrote EXCEPT ![p] = {}]

\* Slip: a connection that is closed without a commit.
CommitsNothing(p) ==
    /\ Flushing(p)
    /\ todo[p] = {}
    /\ EndFlush(p)
    /\ UNCHANGED <<unmade, rows, db, renames, pending, now, noted, failures>>

\* Slip: last_used_at = NOW() in the UPDATE.
WritesTheTimeOfTheFlush(p) ==
    /\ Flushing(p)
    /\ todo[p] = {}
    /\ db' = [k \in Keys |-> IF k \in wrote[p] THEN now ELSE db[k]]
    /\ EndFlush(p)
    /\ UNCHANGED <<unmade, rows, renames, pending, now, noted, failures>>

FlushCommit(p) ==
    /\ Flushing(p)
    /\ todo[p] = {}
    /\ db' = [k \in Keys |-> IF k \in wrote[p] THEN batch[p][k] ELSE db[k]]
    /\ EndFlush(p)
    /\ UNCHANGED <<unmade, rows, renames, pending, now, noted, failures>>

\* Slip: the old notes are put back over newer ones.
PutsBackOver(p) ==
    /\ pending' = [pending EXCEPT ![p] =
                       [k \in Keys |-> IF batch[p][k] # 0 THEN batch[p][k]
                                       ELSE pending[p][k]]]
    /\ noted' = IF pc[p] = "final" THEN [noted EXCEPT ![p] = NoNotes] ELSE noted
    /\ EndFlush(p)

\* The transaction is rolled back and a note comes back unless a newer one was
\* made in the meantime; after the last flush nobody is left to use it.
PutBack(p) ==
    /\ pending' = [pending EXCEPT ![p] =
                       [k \in Keys |-> Later(pending[p][k], batch[p][k])]]
    /\ noted' = IF pc[p] = "final" THEN [noted EXCEPT ![p] = NoNotes] ELSE noted
    /\ EndFlush(p)

\* A statement or the commit fails.
FlushFail(p) ==
    /\ Flushing(p)
    /\ failures < MaxFailures
    /\ failures' = failures + 1
    /\ PutBack(p)
    /\ UNCHANGED <<unmade, rows, db, renames, now>>

\* Dictionaries are ordered by insertion, so two processes may update the same
\* rows in opposite orders: each then waits for a row the other has locked.
WaitsFor(p, q) == \E k \in todo[p] \intersect wrote[q] : Stale(p, k)

\* PostgreSQL notices and makes the UPDATE of one of them fail.
DeadlockAbort(p) ==
    /\ Flushing(p)
    /\ \E q \in Procs \ {p} : WaitsFor(p, q) /\ WaitsFor(q, p)
    /\ PutBack(p)
    /\ UNCHANGED <<unmade, rows, db, renames, now, failures>>

\* on_shutdown: the task is cancelled wherever it is, which is no Exception and
\* puts nothing back; then the notes in memory are flushed a last time.
Shutdown(p) ==
    /\ pc[p] \in {"up", "flush"}
    /\ TakeNotes(p, IF pending[p] = NoNotes THEN "down" ELSE "final")
    /\ UNCHANGED <<unmade, rows, db, renames, now, noted, failures>>

\* The process is killed: what was only in memory is gone.
Kill(p) ==
    /\ pc[p] # "down"
    /\ failures < MaxFailures
    /\ failures' = failures + 1
    /\ pc' = [pc EXCEPT ![p] = "down"]
    /\ pending' = [pending EXCEPT ![p] = NoNotes]
    /\ batch' = [batch EXCEPT ![p] = NoNotes]
    /\ todo' = [todo EXCEPT ![p] = {}]
    /\ wrote' = [wrote EXCEPT ![p] = {}]
    /\ noted' = [noted EXCEPT ![p] = NoNotes]
    /\ UNCHANGED <<unmade, rows, db, renames, now>>

Startup(p) ==
    /\ pc[p] = "down"
    /\ pc' = [pc EXCEPT ![p] = "up"]
    /\ pending' = [pending EXCEPT ![p] = NoNotes]
    /\ noted' = [noted EXCEPT ![p] = NoNotes]
    /\ UNCHANGED <<unmade, rows, db, renames, batch, todo, wrote, now,
                   failures>>

FlushStep(p) == FlushStart(p) \/ FlushCommit(p) \/ DeadlockAbort(p)

Next ==
    \/ Tick
    \/ \E p \in Procs, k \in Keys : Authenticate(p, k)
    \/ \E k \in Keys : CreateKey(k) \/ Revoke(k) \/ LoadKey(k)
    \/ \E r \in renames : UpdateName(r) \/ AbandonRename(r)
    \/ \E p \in Procs : FlushStep(p)
    \/ \E p \in Procs, k \in Keys : FlushRow(p, k)
    \/ \E p \in Procs : FlushFail(p)
    \/ \E p \in Procs : Shutdown(p)
    \/ \E p \in Procs : Kill(p)
    \/ \E p \in Procs : Startup(p)

Spec == Init /\ [][Next]_vars

\* The task wakes up again and again, a statement that is sent is answered, and
\* the row lock goes to those who wait for it in turn; and processes are not
\* restarted for ever.
FairSpec ==
    /\ Spec
    /\ \A p \in Procs : WF_vars(FlushStep(p))
    /\ \A p \in Procs, k \in Keys : SF_vars(FlushRow(p, k))
    /\ \A p \in Procs : <>[][~Shutdown(p)]_vars

----------------------------------------------------------------------------

\* Every variable keeps its shape.
TypeOK ==
    /\ unmade \subseteq Keys
    /\ rows \subseteq Keys
    /\ db \in [Keys -> Time]
    /\ renames \subseteq [key : Keys \ SystemKeys, seen : Time]
    /\ pending \in [Procs -> [Keys -> Time]]
    /\ pc \in [Procs -> {"up", "flush", "final", "down"}]
    /\ batch \in [Procs -> [Keys -> Time]]
    /\ todo \in [Procs -> SUBSET Keys]
    /\ wrote \in [Procs -> SUBSET Keys]
    /\ now \in Time \ {0}
    /\ noted \in [Procs -> [Keys -> Time]]
    /\ failures \in 0..MaxFailures

\* Flushes of several processes, late and out of order, never move the recorded
\* last use of a key back, and neither does a rename of a row it loaded before.
LastUsedOnlyAdvances == [][\A k \in Keys : db'[k] >= db[k]]_vars

\* While a process runs, the last use it noted is in the database, in its
\* memory or in its flush, whatever flushes failed and whatever was noted
\* in between.
NoUseForgotten ==
    \A p \in Procs, k \in Keys :
        pc[p] \in {"up", "flush"} =>
            \/ db[k] >= noted[p][k]
            \/ pending[p][k] >= noted[p][k]
            \/ batch[p][k] >= noted[p][k]
            \/ k \notin rows

\* A use is recorded in the end, unless its key is revoked or its process
\* stops: neither other flushes nor uses that keep coming hold it back.
UsesGetRecorded ==
    \A p \in Procs, k \in Keys, t \in Time \ {0} :
        noted[p][k] = t ~>
            db[k] >= t \/ k \notin rows \/ pc[p] \notin {"up", "flush"}

\* What on_shutdown is documented to do: it flushes what is pending.  A process
\* that shut down without an error has recorded every use it noted.
ShutdownFlushes ==
    \A p \in Procs, k \in Keys :
        pc[p] = "down" => db[k] >= noted[p][k] \/ k \notin rows

\* The uses of each key that a process has in its notes or in its flush.
UsesInMemory ==
    [k \in Keys |-> ({pending[p][k] : p \in Procs}
                         \union {batch[p][k] : p \in Procs}) \ {0}]

Life == [p \in Procs |-> IF pc[p] = "flush" THEN "up" ELSE pc[p]]

Promise == INSTANCE UsagePromise
               WITH recorded <- db, uses <- UsesInMemory, life <- Life,
                    clock <- now

\* Whatever flushes fail, deadlock, overlap or are put back: a recorded time is
\* that of a real use, and no use is let go before it is recorded or overtaken.
KeepsPromise == Promise!Spec

=============================================================================

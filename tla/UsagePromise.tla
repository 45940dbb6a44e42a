---------------------------- MODULE UsagePromise ----------------------------
(***************************************************************************)
(* What is promised about the recorded last use of a key, without flushes, *)
(* locks and failures: it is the time of a use that was made after the key *)
(* was, it only advances, and a use somebody remembers is recorded or      *)
(* overtaken by a later one before it is let go, unless the key is gone or *)
(* a process stops or starts.  KeyUsage implements this specification.     *)
(***************************************************************************)
EXTENDS Naturals

CONSTANTS Keys, Procs

VARIABLES
    unmade,   \* keys that are not made yet
    rows,     \* keys there are
    recorded, \* the recorded last use of each key, 0 if there is none
    uses,     \* the times of the uses of each key that are remembered
    life,     \* whether a process runs, stops, or is down
    clock

vars == <<unmade, rows, recorded, uses, life, clock>>

Init ==
    /\ unmade = Keys
    /\ rows = {}
    /\ recorded = [k \in Keys |-> 0]
    /\ uses = [k \in Keys |-> {}]
    /\ life = [p \in Procs |-> "up"]
    /\ clock = 1

Pass ==
    /\ clock' = clock + 1
    /\ UNCHANGED <<unmade, rows, recorded, uses, life>>

Make(k) ==
    /\ k \in unmade
    /\ unmade' = unmade \ {k}
    /\ rows' = rows \union {k}
    /\ UNCHANGED <<recorded, uses, life, clock>>

Revoke(k) ==
    /\ k \in rows
    /\ rows' = rows \ {k}
    /\ UNCHANGED <<unmade, recorded, uses, life, clock>>

\* A use overtakes those before it, which may be let go.
Use(k) ==
    /\ k \notin unmade
    /\ clock \in uses'[k] /\ uses'[k] \subseteq uses[k] \union {clock}
    /\ uses' = [uses EXCEPT ![k] = uses'[k]]
    /\ UNCHANGED <<unmade, rows, recorded, life, clock>>

\* Keys get a later time, that of a use that is remembered.
Advance ==
    /\ recorded' \in [Keys -> Nat]
    /\ \A k \in Keys : recorded'[k] # recorded[k] =>
           recorded'[k] > recorded[k] /\ recorded'[k] \in uses[k]

\* What is let go is recorded or overtaken, or its key is gone, or a process
\* stops or starts.
LetGo ==
    /\ uses' \in [Keys -> SUBSET Nat]
    /\ \A k \in Keys :
           /\ uses'[k] \subseteq uses[k]
           /\ \/ life' # life
              \/ k \notin rows
              \/ \A t \in uses[k] \ uses'[k] :
                     recorded'[k] >= t \/ \E later \in uses'[k] : later >= t

Record ==
    /\ UNCHANGED <<unmade, rows, clock>>
    /\ UNCHANGED recorded \/ Advance
    /\ UNCHANGED uses \/ LetGo

Next ==
    \/ Record
    \/ \E k \in Keys : Make(k) \/ Revoke(k) \/ Use(k)
    \/ Pass

Spec == Init /\ [][Next]_vars

=============================================================================

------------------------ MODULE TenantConfigProofs ------------------------
(***************************************************************************)
(* Proofs about TenantConfig for any names, fields and settings and any    *)
(* number of overlapping requests.                                         *)
(***************************************************************************)
EXTENDS TenantConfig, TLAPS

\* What the commit of a request writes, and of which request it is the commit.
LEMMA CommitWrites ==
    ASSUME TypeOK, NEW r \in Requests, UpdateTenantConfig(r)
    PROVE  /\ Committing(r)
           /\ name' \in {name, req[r].newName} /\ name' \in Names
           /\ config' \in {config, req[r].patch} /\ req[r].patch \in Configs
           /\ config' # config => Falsy(req[r].seenConfig)
           /\ req' \in [Requests -> {Idle} \union Handlers]
<1>1. /\ req[r] \in Handlers /\ req[r].pc = "loaded"
      /\ req \in [Requests -> {Idle} \union Handlers]
  BY DEF UpdateTenantConfig, Waiting, TypeOK
<1>2. [req[r] EXCEPT !.pc = "done"] \in Handlers
  BY <1>1 DEF Handlers
<1>3. req'[r] = [req[r] EXCEPT !.pc = "done"]
  BY <1>1 DEF UpdateTenantConfig
<1>4. req[r].pc # Idle.pc /\ req'[r].pc = "done" /\ req'[r].pc # Idle.pc
  BY <1>1, <1>3 DEF Idle, Handlers
<1>5. Committing(r)
  BY <1>1, <1>4 DEF Committing, Waiting
<1>6. /\ req[r].newName \in Names \union {None}
      /\ req[r].patch \in Configs
  BY <1>1 DEF Handlers
<1>7. name' \in {name, req[r].newName} /\ name' \in Names
  BY <1>6 DEF UpdateTenantConfig, NewName, TypeOK
<1>8. /\ config' \in {config, req[r].patch}
      /\ config' # config => Falsy(req[r].seenConfig)
  BY DEF UpdateTenantConfig, NewConfig
<1>9. req' \in [Requests -> {Idle} \union Handlers]
  BY <1>1, <1>2 DEF UpdateTenantConfig
<1> QED BY <1>5, <1>6, <1>7, <1>8, <1>9

\* Every step brings the history of the entries up to date, and it keeps its type.
LEMMA StepsNoteOlder ==
    ASSUME [Next]_vars
    PROVE  \/ NoteOlder /\ older' \in [Fields -> SUBSET Requests]
           \/ UNCHANGED vars
<1>1. NoteOlder \/ UNCHANGED vars
  BY DEF Next, Load, UpdateTenantConfig, Answer
<1> QED BY <1>1 DEF NoteOlder

\* A handler that has loaded the row is a handler.
LEMMA LoadTypes ==
    ASSUME TypeOK, NEW r \in Requests, NEW newName \in Names \union {None},
           NEW patch \in Configs, Load(r, newName, patch)
    PROVE  /\ name' \in Names /\ config' \in Configs \union {None}
           /\ req' \in [Requests -> {Idle} \union Handlers]
<1> DEFINE handler == [pc |-> "loaded", newName |-> newName, patch |-> patch,
                       seenName |-> name, seenConfig |-> config]
<1>1. handler \in Handlers
  BY DEF Handlers, TypeOK
<1>2. req' = [req EXCEPT ![r] = handler] /\ UNCHANGED <<name, config>>
  BY DEF Load
<1> QED BY <1>1, <1>2 DEF TypeOK

\* Each action keeps the shape of every variable.
LEMMA TypeStep == TypeOK /\ [Next]_vars => TypeOK'
<1> SUFFICES ASSUME TypeOK, [Next]_vars PROVE TypeOK'
  OBVIOUS
<1> DEFINE RowTyped == /\ name' \in Names /\ config' \in Configs \union {None}
                       /\ req' \in [Requests -> {Idle} \union Handlers]
<1>1. ASSUME NEW r \in Requests, UpdateTenantConfig(r) PROVE RowTyped
  BY <1>1, CommitWrites DEF TypeOK
<1>2. ASSUME NEW r \in Requests, Answer(r) PROVE RowTyped
  BY <1>2 DEF Answer, TypeOK
<1>3. CASE UNCHANGED vars
  BY <1>3 DEF vars, TypeOK
<1>4. Next => RowTyped
  BY <1>1, <1>2, LoadTypes DEF Next
<1> QED BY <1>3, <1>4, StepsNoteOlder DEF TypeOK

\* Name, configuration and handlers keep their types.
THEOREM ConfigTyped == Spec => []TypeOK
<1>1. Init => TypeOK
  BY DEF Init, TypeOK
<1> QED BY <1>1, TypeStep, PTL DEF Spec

\* Only a commit changes the row.
LEMMA ChangesAreCommits ==
    ASSUME [Next]_vars, ~UNCHANGED <<name, config>>
    PROVE  \E r \in Requests : UpdateTenantConfig(r)
  BY DEF Next, Load, Answer, vars

\* However requests overlap, a name comes from a request for it: no patch of the
\* configuration takes a rename back.
THEOREM RenamesStay == Spec => ConfigPatchKeepsName
<1>1. TypeOK /\ [Next]_vars =>
          [name' # name =>
              \E r \in Requests : Committing(r) /\ req[r].newName = name']_vars
  <2> SUFFICES ASSUME TypeOK, [Next]_vars, name' # name
               PROVE  \E r \in Requests : Committing(r) /\ req[r].newName = name'
    OBVIOUS
  <2>1. PICK r \in Requests : UpdateTenantConfig(r)
    BY ChangesAreCommits
  <2> QED BY <2>1, CommitWrites
<1> QED BY <1>1, ConfigTyped, PTL DEF Spec, ConfigPatchKeepsName

\* A handler that has loaded the row and is in no history of a field has a
\* fresh copy of that entry.
FreshCopies ==
    \A r \in Requests, f \in Fields :
        Waiting(r) /\ r \notin older[f] =>
            Entry(req[r].seenConfig, f) = Entry(config, f)

\* A handler that waits after a step did before it, with the same copy, or has
\* loaded the row in it.
LEMMA WaitingCopies ==
    ASSUME TypeOK, Next, NEW r \in Requests, Waiting(r)'
    PROVE  \/ Waiting(r) /\ req'[r].seenConfig = req[r].seenConfig
           \/ req'[r].seenConfig = config /\ config' = config
<1>0. req \in [Requests -> {Idle} \union Handlers]
  BY DEF TypeOK
<1>1. ASSUME NEW q \in Requests, NEW newName \in Names \union {None},
             NEW patch \in Configs, Load(q, newName, patch)
      PROVE  \/ Waiting(r) /\ req'[r].seenConfig = req[r].seenConfig
             \/ req'[r].seenConfig = config /\ config' = config
  <2>1. CASE q = r
    BY <1>0, <1>1, <2>1 DEF Load
  <2>2. CASE q # r
    BY <1>0, <1>1, <2>2 DEF Load, Waiting
  <2> QED BY <2>1, <2>2
<1>2. ASSUME NEW q \in Requests, UpdateTenantConfig(q)
      PROVE  Waiting(r) /\ req'[r].seenConfig = req[r].seenConfig
  <2>1. q # r
    BY <1>0, <1>2 DEF UpdateTenantConfig, Waiting, Handlers
  <2> QED BY <1>0, <1>2, <2>1 DEF UpdateTenantConfig, Waiting
<1>3. ASSUME NEW q \in Requests, Answer(q)
      PROVE  Waiting(r) /\ req'[r].seenConfig = req[r].seenConfig
  <2>1. q # r
    BY <1>0, <1>3 DEF Answer, Waiting
  <2> QED BY <1>0, <1>3, <2>1 DEF Answer, Waiting
<1> QED BY <1>1, <1>2, <1>3 DEF Next

\* Copies stay fresh until the entry changes, and then the history knows.
LEMMA FreshStep == TypeOK /\ FreshCopies /\ [Next]_vars => FreshCopies'
<1> SUFFICES ASSUME TypeOK, FreshCopies, [Next]_vars PROVE FreshCopies'
  OBVIOUS
<1>1. CASE UNCHANGED vars
  BY <1>1 DEF vars, FreshCopies, Waiting
<1>2. ASSUME Next, NoteOlder, NEW r \in Requests, NEW f \in Fields,
             Waiting(r)', r \notin older'[f]
      PROVE  Entry(req'[r].seenConfig, f) = Entry(config', f)
  <2>1. r \notin older[f] /\ Entry(config', f) = Entry(config, f)
    BY <1>2 DEF NoteOlder
  <2> QED BY <1>2, <2>1, WaitingCopies DEF FreshCopies
<1>3. CASE Next /\ NoteOlder
  <2>1. \A r \in Requests, f \in Fields :
            Waiting(r)' /\ r \notin older'[f] =>
                Entry(req'[r].seenConfig, f) = Entry(config', f)
    BY <1>2, <1>3
  <2> QED BY <2>1 DEF FreshCopies
<1> QED BY <1>1, <1>3, StepsNoteOlder

\* No PATCH takes away an entry it has seen and does not name.
THEOREM EntriesAreKept == Spec => EntriesOutliveOthers
<1>1. TypeOK /\ FreshCopies /\ [Next]_vars =>
          [\A f \in Fields :
              Entry(config, f) # {} /\ Entry(config', f) # Entry(config, f) =>
                  \E r \in Requests :
                      Committing(r) /\ (f \in DOMAIN req[r].patch \/ r \in older[f])]_vars
  <2> SUFFICES ASSUME TypeOK, FreshCopies, [Next]_vars, NEW f \in Fields,
                      Entry(config, f) # {}, Entry(config', f) # Entry(config, f)
               PROVE  \E r \in Requests :
                          /\ Committing(r)
                          /\ f \in DOMAIN req[r].patch \/ r \in older[f]
    OBVIOUS
  <2>1. PICK r \in Requests : UpdateTenantConfig(r)
    BY ChangesAreCommits
  <2>2. Committing(r) /\ Falsy(req[r].seenConfig)
    BY <2>1, CommitWrites
  <2>3. Entry(req[r].seenConfig, f) = {}
    BY <2>2 DEF Falsy, Entry, Empty
  <2>4. Waiting(r)
    BY <2>2 DEF Committing
  <2> QED BY <2>2, <2>3, <2>4 DEF FreshCopies
<1>2. Init => FreshCopies
  BY DEF Init, FreshCopies, Waiting
<1> QED BY <1>1, <1>2, FreshStep, ConfigTyped, PTL DEF Spec, EntriesOutliveOthers

=============================================================================

---------------------------- MODULE StateManager ----------------------------
(***************************************************************************)
(* The state manager (runtime/state_manager.go): the path/value store with *)
(* its logical clock, the path locks, and snapshots.  Every call runs      *)
(* under s.mu and is one action.                                           *)
(*                                                                         *)
(* An event is [writes, mutator, sets]: the declared WritePaths, the       *)
(* StateMutator closure (a name of Mutators, or NoMutator for nil) and the *)
(* declarative StateMutations as a function on the paths they assign.  A   *)
(* mutator maps a whole state to a whole state or to Refuses (it returned  *)
(* an error).  Policies registered with RegisterInvariant are the set      *)
(* Legal of the states they all accept.                                    *)
(*                                                                         *)
(* The list given to Lock is a set: the loop takes it in the caller's      *)
(* order and gives up at the first path another owner holds, so a failed   *)
(* call keeps any part of the paths it could take.                         *)
(***************************************************************************)
EXTENDS Integers, FiniteSets

CONSTANTS
  Paths, Values, Absent,
  Mutators, NoMutator, Refuses, Run,
  Legal,         \* states every registered invariant accepts
  Events,        \* events given to ApplyEvent
  Owners,        \* lock owners, all of them non-empty strings
  NoOwner,       \* the empty string: not locked
  MaxSnapshots,  \* bound on the number of snapshots
  MaxRefs,       \* bound on the reference count of one lock
  MaxClock       \* bound on the logical clock

Data == [Paths -> Values]

ASSUME StateAssumption ==
  /\ Absent \in Values
  /\ NoMutator \notin Mutators
  /\ Run \in [Mutators -> [Data -> Data \cup {Refuses}]]
  /\ Refuses \notin Data
  /\ Legal \subseteq Data
  /\ \A e \in Events : /\ e.writes \subseteq Paths
                       /\ e.mutator \in Mutators \cup {NoMutator}
                       /\ e.sets \in UNION {[P -> Values] : P \in SUBSET Paths}
  /\ NoOwner \notin Owners
  /\ MaxSnapshots \in Nat /\ MaxRefs \in Nat \ {0} /\ MaxClock \in Nat

VARIABLES
  data,       \* the store
  clock,      \* its logical clock
  owner,      \* owner of each path's lock
  refs,       \* reference count of each path's lock
  snapshots,  \* every snapshot handed out; the map is never cleaned
  granted     \* history: acquisitions each owner was told about and has not returned

lockVars == <<owner, refs, granted>>
vars == <<data, clock, owner, refs, snapshots, granted>>

\* What a declarative list of assignments leaves of a state.
Assign(d, sets) == [p \in Paths |-> IF p \in DOMAIN sets THEN sets[p] ELSE d[p]]

\* The mutator of an event on a copy of the state.
Mutate(d, e) == IF e.mutator = NoMutator THEN d ELSE Run[e.mutator][d]

\* Mutant: locks are not asked.
LockedNever(e) == FALSE

Locked(e) == \E p \in e.writes : owner[p] # NoOwner

\* Why ApplyEvent returns an error: policies are asked about the mutator's
\* result only.
Rejects(d, e) ==
  \/ Locked(e)
  \/ e.mutator # NoMutator /\ (Mutate(d, e) = Refuses \/ Mutate(d, e) \notin Legal)

\* ApplyEvent: the mutator first, then the declarative assignments.
Applied(d, e) == Assign(Mutate(d, e), e.sets)

\* One round of Reconstruct: the declarative assignments first, then the
\* mutator; neither locks nor policies are asked, a mutator's error is skipped.
Replayed(d, e) ==
  LET assigned == Assign(d, e.sets)
  IN  IF Mutate(assigned, e) = Refuses THEN assigned ELSE Mutate(assigned, e)

-----------------------------------------------------------------------------
Set(p, v) ==
  /\ data' = [data EXCEPT ![p] = v]
  /\ UNCHANGED <<clock, lockVars, snapshots>>

ApplyEvent(e) ==
  /\ ~Rejects(data, e)
  /\ clock < MaxClock
  /\ data' = Applied(data, e)
  /\ clock' = clock + 1
  /\ UNCHANGED <<lockVars, snapshots>>

\* The error returns: the mutator ran on a copy, nothing else was touched.
RefuseEvent(e) == Rejects(data, e) /\ UNCHANGED vars

Snapshot ==
  /\ Cardinality(snapshots) < MaxSnapshots
  /\ snapshots' = snapshots \cup {[data |-> data, clock |-> clock]}
  /\ UNCHANGED <<data, clock, lockVars>>

\* Apply: back to a snapshot, locks untouched.
Apply(snap) ==
  /\ data' = snap.data
  /\ clock' = snap.clock
  /\ UNCHANGED <<lockVars, snapshots>>

AdvanceClock ==
  /\ clock < MaxClock
  /\ clock' = clock + 1
  /\ UNCHANGED <<data, lockVars, snapshots>>

-----------------------------------------------------------------------------
\* Paths the owner can take: free, or its own already.
Grabbable(o, ps) == {p \in ps : owner[p] \in {NoOwner, o}}

Take(o, ps) ==
  /\ owner' = [p \in Paths |-> IF p \in ps THEN o ELSE owner[p]]
  /\ refs' = [p \in Paths |-> IF p \in ps THEN refs[p] + 1 ELSE refs[p]]

Lock(o, ps) ==
  /\ Grabbable(o, ps) = ps
  /\ \A p \in ps : refs[p] < MaxRefs
  /\ Take(o, ps)
  /\ granted' = [granted EXCEPT ![o] = [p \in Paths |-> IF p \in ps THEN @[p] + 1 ELSE @[p]]]
  /\ UNCHANGED <<data, clock, snapshots>>

\* ErrPathLocked at some path: those taken before it stay taken.
LockFails(o, ps) ==
  /\ Grabbable(o, ps) # ps
  /\ \E got \in SUBSET Grabbable(o, ps) :
       /\ \A p \in got : refs[p] < MaxRefs
       /\ Take(o, got)
  /\ UNCHANGED <<data, clock, snapshots, granted>>

\* Mutant: the first release frees a path that was taken twice.
UnlockFreesAtOnce(o, ps) ==
  LET mine == {p \in ps : owner[p] = o}
  IN  /\ refs' = [p \in Paths |-> IF p \in mine THEN refs[p] - 1 ELSE refs[p]]
      /\ owner' = [p \in Paths |-> IF p \in mine THEN NoOwner ELSE owner[p]]
      /\ granted' = [granted EXCEPT ![o] = [p \in Paths |-> IF p \in ps /\ @[p] > 0 THEN @[p] - 1 ELSE @[p]]]
      /\ UNCHANGED <<data, clock, snapshots>>

\* Paths of another owner, or of nobody, are skipped.
Unlock(o, ps) ==
  LET mine == {p \in ps : owner[p] = o}
  IN  /\ refs' = [p \in Paths |-> IF p \in mine THEN refs[p] - 1 ELSE refs[p]]
      /\ owner' = [p \in Paths |-> IF p \in mine /\ refs[p] = 1 THEN NoOwner ELSE owner[p]]
      /\ granted' = [granted EXCEPT ![o] = [p \in Paths |-> IF p \in ps /\ @[p] > 0 THEN @[p] - 1 ELSE @[p]]]
          /\ UNCHANGED <<data, clock, snapshots>>

\* How callers use Unlock: for paths they were granted. After a failed Lock no
\* use is right, since the caller cannot know which paths stayed taken.
Return(o, ps) ==
  /\ \A p \in ps : granted[o][p] > 0
  /\ Unlock(o, ps)

-----------------------------------------------------------------------------
Empty == [p \in Paths |-> Absent]

Init ==
  /\ data = Empty /\ clock = 0
  /\ owner = [p \in Paths |-> NoOwner]
  /\ refs = [p \in Paths |-> 0]
  /\ snapshots = {}
  /\ granted = [o \in Owners |-> [p \in Paths |-> 0]]

Next ==
  \/ \E p \in Paths, v \in Values \ {Absent} : Set(p, v)
  \/ \E e \in Events : ApplyEvent(e) \/ RefuseEvent(e)
  \/ Snapshot \/ AdvanceClock
  \/ \E snap \in snapshots : Apply(snap)
  \/ \E o \in Owners, ps \in (SUBSET Paths) \ {{}} : Lock(o, ps) \/ LockFails(o, ps) \/ Return(o, ps)

Spec == Init /\ [][Next]_vars

-----------------------------------------------------------------------------
\* Shape of the state.
TypeOK ==
  /\ data \in Data /\ clock \in Nat
  /\ owner \in [Paths -> Owners \cup {NoOwner}]
  /\ refs \in [Paths -> Nat]
  /\ snapshots \subseteq [data : Data, clock : Nat]
  /\ granted \in [Owners -> [Paths -> Nat]]

\* A lock is owned exactly while it is referenced, so no release is forgotten
\* and none frees a lock that was taken twice.
OwnedIffReferenced == \A p \in Paths : owner[p] # NoOwner <=> refs[p] > 0

\* An owner whose Lock returned nil holds each path until it returns it as
\* often as it was granted, whatever other owners and failed calls do.
GrantsHold ==
  \A o \in Owners, p \in Paths :
    granted[o][p] > 0 => owner[p] = o /\ granted[o][p] <= refs[p]

\* Two owners are never granted the same path.
MutualExclusion ==
  \A o1, o2 \in Owners, p \in Paths :
    granted[o1][p] > 0 /\ granted[o2][p] > 0 => o1 = o2

\* Together: the lock table keeps its promise to every owner and gives no path
\* to two of them.
LocksSound == GrantsHold /\ MutualExclusion

\* The events whose WritePaths tell the truth.
Declared ==
  {e \in Events : \A d \in Data :
     Mutate(d, e) \in Data => \A p \in Paths \ e.writes : Applied(d, e)[p] = d[p]}

\* An event that declares what it writes respects the locks: a path someone was
\* granted does not change under it.
LockedPathsStable ==
  [][\A e \in Declared : ApplyEvent(e) =>
       \A o \in Owners, p \in Paths : granted[o][p] > 0 => data'[p] = data[p]]_vars
=============================================================================

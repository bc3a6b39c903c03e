------------------------- MODULE StateManager_proofs ------------------------
(***************************************************************************)
(* The path locks exclude, for every set of paths and owners and whatever  *)
(* part of its paths a failed Lock leaves taken; and events that declare   *)
(* what they write respect them.  GrantsHold is inductive only together    *)
(* with OwnedIffReferenced: an unlock that frees a path must find the last *)
(* reference there.                                                        *)
(***************************************************************************)
EXTENDS StateManager, TLAPS

IInv == TypeOK /\ OwnedIffReferenced /\ GrantsHold

\* Assignments and mutators stay inside the state space.
LEMMA StatesStayStates ==
  ASSUME NEW d \in Data, NEW e \in Events
  PROVE  /\ Assign(d, e.sets) \in Data
         /\ Mutate(d, e) \in Data \cup {Refuses}
         /\ ~Rejects(d, e) => Mutate(d, e) \in Data /\ Applied(d, e) \in Data
         /\ Replayed(d, e) \in Data
<1>1. PICK P \in SUBSET Paths : e.sets \in [P -> Values]
  BY StateAssumption
<1>2. \A s \in Data : Assign(s, e.sets) \in Data
  BY <1>1 DEF Assign, Data
<1>3. \A s \in Data : Mutate(s, e) \in Data \cup {Refuses}
  BY StateAssumption DEF Mutate
<1>4. ~Rejects(d, e) => Mutate(d, e) \in Data
  BY <1>3 DEF Rejects, Mutate
<1>5. Replayed(d, e) \in Data
  BY <1>2, <1>3 DEF Replayed
<1> QED BY <1>2, <1>3, <1>4, <1>5 DEF Applied

LEMMA InitInv == Init => IInv
  BY StateAssumption DEF Init, Empty, IInv, TypeOK, OwnedIffReferenced, GrantsHold, Data

\* Calls that leave the locks alone.
LEMMA StateCallsInv ==
  ASSUME IInv, UNCHANGED lockVars,
         data' \in Data, clock' \in Nat, snapshots' \subseteq [data : Data, clock : Nat]
  PROVE  IInv'
  BY DEF lockVars, IInv, TypeOK, OwnedIffReferenced, GrantsHold

LEMMA TakeInv ==
  ASSUME IInv, NEW o \in Owners, NEW ps \in SUBSET Paths, NEW told \in SUBSET ps,
         ps \subseteq Grabbable(o, Paths), Take(o, ps),
         granted' = [granted EXCEPT ![o] = [p \in Paths |-> IF p \in told THEN @[p] + 1 ELSE @[p]]],
         UNCHANGED <<data, clock, snapshots>>
  PROVE  IInv'
<1>1. /\ owner' \in [Paths -> Owners \cup {NoOwner}] /\ refs' \in [Paths -> Nat]
      /\ \A p \in Paths : /\ p \in ps => owner'[p] = o /\ refs'[p] = refs[p] + 1
                          /\ p \notin ps => owner'[p] = owner[p] /\ refs'[p] = refs[p]
  BY DEF Take, IInv, TypeOK
<1>2. /\ granted' \in [Owners -> [Paths -> Nat]]
      /\ \A p \in Paths : granted'[o][p] = IF p \in told THEN granted[o][p] + 1 ELSE granted[o][p]
      /\ \A x \in Owners \ {o} : granted'[x] = granted[x]
  BY DEF IInv, TypeOK
<1>3. TypeOK'
  BY <1>1, <1>2 DEF IInv, TypeOK
<1>4. OwnedIffReferenced'
  BY <1>1, StateAssumption DEF IInv, TypeOK, OwnedIffReferenced
<1>5. GrantsHold'
  <2> SUFFICES ASSUME NEW x \in Owners, NEW p \in Paths, granted'[x][p] > 0
               PROVE  owner'[p] = x /\ granted'[x][p] <= refs'[p]
    BY DEF GrantsHold
  <2>1. /\ granted[x][p] \in Nat /\ refs[p] \in Nat
        /\ granted[x][p] > 0 => owner[p] = x /\ granted[x][p] <= refs[p]
    BY DEF IInv, TypeOK, GrantsHold
  <2>2. CASE x = o
    BY <1>1, <1>2, <2>1, <2>2
  <2>3. CASE x # o
    <3>1. granted[x][p] > 0 /\ p \notin ps
      BY <1>2, <2>1, <2>3, StateAssumption DEF Grabbable
    <3> QED BY <1>1, <1>2, <2>1, <2>3, <3>1
  <2> QED BY <2>2, <2>3
<1> QED BY <1>3, <1>4, <1>5 DEF IInv

LEMMA LockInv ==
  ASSUME IInv, NEW o \in Owners, NEW ps \in SUBSET Paths, Lock(o, ps) \/ LockFails(o, ps)
  PROVE  IInv'
<1>1. CASE Lock(o, ps)
  <2>1. ps \subseteq Grabbable(o, Paths)
    BY <1>1 DEF Lock, Grabbable
  <2> QED BY <1>1, <2>1, TakeInv DEF Lock
<1>2. CASE LockFails(o, ps)
  <2>1. PICK got \in SUBSET Grabbable(o, ps) : Take(o, got)
    BY <1>2 DEF LockFails
  <2>2. /\ got \in SUBSET Paths /\ got \subseteq Grabbable(o, Paths)
    BY <1>2 DEF LockFails, Grabbable
  <2>3. granted' = granted /\ UNCHANGED <<data, clock, snapshots>>
    BY <1>2 DEF LockFails
  <2>4. granted' = [granted EXCEPT ![o] = [p \in Paths |-> IF p \in {} THEN @[p] + 1 ELSE @[p]]]
    BY <2>3 DEF IInv, TypeOK
  <2> DEFINE none == {}
  <2>5. none \in SUBSET got
    OBVIOUS
  <2>6. granted' = [granted EXCEPT ![o] = [p \in Paths |-> IF p \in none THEN @[p] + 1 ELSE @[p]]]
    BY <2>4
  <2> HIDE DEF none
  <2> QED BY <2>1, <2>2, <2>3, <2>5, <2>6, TakeInv
<1> QED BY <1>1, <1>2

LEMMA ReturnInv ==
  ASSUME IInv, NEW o \in Owners, NEW ps \in SUBSET Paths, Return(o, ps)
  PROVE  IInv'
<1>1. \A p \in ps : owner[p] = o /\ granted[o][p] > 0 /\ granted[o][p] <= refs[p]
  BY DEF Return, IInv, GrantsHold
<1>2. \A p \in Paths : /\ p \in ps => /\ refs'[p] = refs[p] - 1
                                      /\ owner'[p] = IF refs[p] = 1 THEN NoOwner ELSE o
                       /\ p \notin ps => refs'[p] = refs[p] /\ owner'[p] = owner[p]
  BY <1>1 DEF Return, Unlock
<1>3. /\ granted' \in [Owners -> [Paths -> Nat]]
      /\ \A p \in Paths : granted'[o][p] = IF p \in ps THEN granted[o][p] - 1 ELSE granted[o][p]
      /\ \A x \in Owners \ {o} : granted'[x] = granted[x]
  BY <1>1 DEF Return, Unlock, IInv, TypeOK
<1>4. owner' \in [Paths -> Owners \cup {NoOwner}] /\ refs' \in [Paths -> Nat]
  <2>1. \A p \in Paths : refs[p] \in Nat /\ (p \in ps => refs[p] > 0)
    BY <1>1 DEF IInv, TypeOK
  <2>2. \A p \in Paths : refs'[p] \in Nat /\ owner'[p] \in Owners \cup {NoOwner}
    BY <1>2, <2>1 DEF IInv, TypeOK
  <2> QED BY <2>2 DEF Return, Unlock
<1>5. TypeOK'
  BY <1>3, <1>4 DEF Return, Unlock, IInv, TypeOK
<1>6. OwnedIffReferenced'
  <2> SUFFICES ASSUME NEW p \in Paths PROVE owner'[p] # NoOwner <=> refs'[p] > 0
    BY DEF OwnedIffReferenced
  <2>1. refs[p] \in Nat /\ (owner[p] # NoOwner <=> refs[p] > 0)
    BY DEF IInv, TypeOK, OwnedIffReferenced
  <2>2. CASE p \in ps
    <3>1. refs[p] > 0 /\ refs'[p] = refs[p] - 1 /\ o # NoOwner
      BY <1>1, <1>2, <2>1, <2>2, StateAssumption
    <3>2. owner'[p] # NoOwner <=> refs[p] # 1
      BY <1>2, <2>2, <3>1
    <3> QED BY <2>1, <3>1, <3>2
  <2>3. CASE p \notin ps
    BY <1>2, <2>1, <2>3
  <2> QED BY <2>2, <2>3
<1>7. GrantsHold'
  <2> SUFFICES ASSUME NEW x \in Owners, NEW p \in Paths, granted'[x][p] > 0
               PROVE  owner'[p] = x /\ granted'[x][p] <= refs'[p]
    BY DEF GrantsHold
  <2>1. /\ granted[x][p] \in Nat /\ refs[p] \in Nat
        /\ granted[x][p] > 0 => owner[p] = x /\ granted[x][p] <= refs[p]
    BY DEF IInv, TypeOK, GrantsHold
  <2>2. CASE x = o
    BY <1>1, <1>2, <1>3, <2>1, <2>2
  <2>3. CASE x # o
    BY <1>1, <1>2, <1>3, <2>1, <2>3
  <2> QED BY <2>2, <2>3
<1> QED BY <1>5, <1>6, <1>7 DEF IInv

-----------------------------------------------------------------------------
LEMMA NextInv == IInv /\ [Next]_vars => IInv'
<1> SUFFICES ASSUME IInv, [Next]_vars PROVE IInv'
  OBVIOUS
<1>0. data \in Data /\ clock \in Nat /\ snapshots \subseteq [data : Data, clock : Nat]
  BY DEF IInv, TypeOK
<1>1. ASSUME NEW p \in Paths, NEW v \in Values, Set(p, v) PROVE IInv'
  BY <1>0, <1>1, StateCallsInv DEF Set, Data
<1>2. ASSUME NEW e \in Events, ApplyEvent(e) PROVE IInv'
  BY <1>0, <1>2, StatesStayStates, StateCallsInv DEF ApplyEvent
<1>3. ASSUME NEW e \in Events, RefuseEvent(e) PROVE IInv'
  BY <1>3 DEF RefuseEvent, vars, lockVars, IInv, TypeOK, OwnedIffReferenced, GrantsHold
<1>4. CASE Snapshot
  BY <1>0, <1>4, StateCallsInv DEF Snapshot
<1>5. ASSUME NEW snap \in snapshots, Apply(snap) PROVE IInv'
  BY <1>0, <1>5, StateCallsInv DEF Apply
<1>6. CASE AdvanceClock
  BY <1>0, <1>6, StateCallsInv DEF AdvanceClock
<1>7. ASSUME NEW o \in Owners, NEW ps \in SUBSET Paths,
             Lock(o, ps) \/ LockFails(o, ps) \/ Return(o, ps)
      PROVE IInv'
  BY <1>7, LockInv, ReturnInv
<1>8. CASE UNCHANGED vars
  BY <1>8 DEF vars, IInv, TypeOK, OwnedIffReferenced, GrantsHold
<1> QED BY <1>1, <1>2, <1>3, <1>4, <1>5, <1>6, <1>7, <1>8 DEF Next

LEMMA InvHolds == Spec => []IInv
<1>1. Init => IInv
  BY InitInv
<1>2. IInv /\ [Next]_vars => IInv'
  BY NextInv
<1> QED BY <1>1, <1>2, PTL DEF Spec

\* The store, the lock table and what callers were told keep their shape.
THEOREM TypeCorrect == Spec => []TypeOK
<1>1. IInv => TypeOK
  BY DEF IInv
<1> QED BY <1>1, InvHolds, PTL

\* StateManagerImpl.Lock and Unlock: what an owner was granted it keeps until it
\* returns it.
THEOREM GrantsCorrect == Spec => []GrantsHold
<1>1. IInv => GrantsHold
  BY DEF IInv
<1> QED BY <1>1, InvHolds, PTL

\* StateManagerImpl.Lock: no path is granted to two owners at once.
THEOREM ExclusionCorrect == Spec => []MutualExclusion
<1>1. IInv => MutualExclusion
  BY DEF IInv, GrantsHold, MutualExclusion
<1> QED BY <1>1, InvHolds, PTL

\* StateManagerImpl.Lock and Unlock: both promises together, which is what the
\* run state_manager checks.
THEOREM LocksCorrect == Spec => []LocksSound
<1>1. GrantsHold /\ MutualExclusion => LocksSound
  BY DEF LocksSound
<1> QED BY <1>1, GrantsCorrect, ExclusionCorrect, PTL

\* StateManagerImpl.ApplyEvent: an event that declares what it writes leaves the
\* paths alone that someone was granted.
THEOREM LockedPathsStableCorrect == Spec => LockedPathsStable
<1> DEFINE Stable == \A e \in Declared : ApplyEvent(e) =>
                       \A o \in Owners, p \in Paths : granted[o][p] > 0 => data'[p] = data[p]
<1>1. ASSUME IInv PROVE Stable
  <2> SUFFICES ASSUME NEW e \in Declared, ApplyEvent(e), NEW o \in Owners, NEW p \in Paths,
                      granted[o][p] > 0
               PROVE  data'[p] = data[p]
    OBVIOUS
  <2>1. owner[p] = o /\ o # NoOwner
    BY <1>1, StateAssumption DEF IInv, GrantsHold
  <2>2. p \notin e.writes /\ e \in Events /\ data \in Data
    BY <1>1, <2>1 DEF ApplyEvent, Rejects, Locked, Declared, IInv, TypeOK
  <2>3. Mutate(data, e) \in Data
    BY <2>2, StatesStayStates DEF ApplyEvent
  <2> QED BY <2>2, <2>3 DEF Declared, ApplyEvent
<1>2. [Next]_vars /\ IInv => [Stable]_vars
  BY <1>1
<1> QED BY <1>2, InvHolds, PTL DEF Spec, LockedPathsStable
=============================================================================

-------------------------- MODULE GoalEngine_proofs -------------------------
(***************************************************************************)
(* The goal engine's index is sound for every set of goals, definitions    *)
(* and paths and every order of API calls: the three index invariants and  *)
(* the type invariant are inductive together, and none of the index        *)
(* invariants is inductive alone.                                          *)
(***************************************************************************)
EXTENDS GoalEngine, TLAPS

IInv == TypeOK /\ ActiveIndexSound /\ PendingIndexSound /\ WalkSound

\* What the single removal and the append do to the count of every name.
LEMMA SliceCounts ==
  ASSUME NEW slice \in [Goals -> Nat], NEW S
  PROVE  /\ Without(slice, S) \in [Goals -> Nat]
         /\ With(slice, S) \in [Goals -> Nat]
         /\ \A g \in Goals :
              /\ g \notin S => Without(slice, S)[g] = slice[g] /\ With(slice, S)[g] = slice[g]
              /\ g \in S => With(slice, S)[g] = slice[g] + 1
              /\ g \in S /\ slice[g] <= 1 => Without(slice, S)[g] = 0
              /\ g \in S /\ slice[g] > 1 => Without(slice, S)[g] = slice[g] - 1
  BY DEF Without, With

\* No name is on the active list twice, and one that is neither active nor
\* pending is not on it at all.
LEMMA Listed ==
  ASSUME IInv, NEW g \in Goals
  PROVE  /\ activeGoals[g] \in Nat /\ activeGoals[g] <= 1
         /\ goals[g].state \notin {"active", "pending"} => activeGoals[g] = 0
<1>1. activeGoals[g] \in Nat
  BY DEF IInv, TypeOK
<1>2. activeGoals[g] <= 1 /\ (activeGoals[g] = 1 => goals[g].state \in {"active", "pending"})
  BY DEF IInv, ActiveIndexSound
<1> QED BY <1>1, <1>2

\* The engine starts with nothing in the map and nothing in the slices.
LEMMA InitInv == Init => IInv
  BY DefsAssumption
  DEF Init, IInv, TypeOK, ActiveIndexSound, PendingIndexSound, WalkSound, Missing, Exists, Status

\* A name is added once: AddGoal finds it neither in the map nor on the list.
LEMMA AddGoalInv ==
  ASSUME IInv, NEW d \in Defs, AddGoal(d), UNCHANGED store
  PROVE  IInv'
<1> DEFINE n == IdOf[d]
<1>1. n \in Goals /\ goals[n].state = "absent"
  BY DefsAssumption DEF AddGoal, Exists
<1>2. activeGoals[n] = 0
  BY <1>1, Listed
<1>3. /\ activeGoals' \in [Goals -> Nat]
      /\ activeGoals'[n] = 1
      /\ \A g \in Goals \ {n} : activeGoals'[g] = activeGoals[g]
  <2>1. activeGoals \in [Goals -> Nat] /\ activeGoals' = With(activeGoals, {n})
    BY DEF AddGoal, IInv, TypeOK
  <2> HIDE DEF n
  <2> QED BY <1>1, <1>2, <2>1, SliceCounts
<1>4. \A g \in Goals : goals'[g] = IF g = n THEN [def |-> d, state |-> "active", started |-> TRUE]
                                            ELSE goals[g]
  BY <1>1 DEF AddGoal, IInv, TypeOK
<1>5. TypeOK'
  <2>1. NoDef \notin Defs
    BY DefsAssumption
  <2>2. goals' \in [Goals -> [def : Defs \cup {NoDef}, state : Status, started : BOOLEAN]]
    BY DEF AddGoal, IInv, TypeOK, Status
  <2>3. \A g \in Goals : /\ goals'[g].state # "absent" <=> goals'[g].def # NoDef
                         /\ goals'[g].state # "absent" => IdOf[goals'[g].def] = g
    BY <1>4, <2>1 DEF IInv, TypeOK, Exists
  <2>4. /\ pendingGoals' \in [Goals -> Nat] /\ deps' \in [Goals -> SUBSET Paths]
        /\ compensating' \in SUBSET Goals /\ store' \in [Paths -> Values]
    BY DEF AddGoal, IInv, TypeOK
  <2> QED BY <1>3, <2>2, <2>3, <2>4 DEF TypeOK, Exists
<1>6. ActiveIndexSound' /\ PendingIndexSound'
  <2>1. goals'[n].state = "active" /\ \A g \in Goals \ {n} : goals'[g] = goals[g]
    BY <1>1, <1>4
  <2>2. pendingGoals' = pendingGoals
    BY DEF AddGoal
  <2> HIDE DEF n
  <2> QED BY <1>3, <2>1, <2>2 DEF IInv, ActiveIndexSound, PendingIndexSound
<1>7. WalkSound'
  BY DEF AddGoal, Unlocked, WalkSound
<1> QED BY <1>5, <1>6, <1>7 DEF IInv

\* Whatever takes one goal to a state in Over, or out of the map, takes its only
\* entry out of activeGoals.
LEMMA LeaveInv ==
  ASSUME IInv, NEW g \in Goals, Unlocked, RemoveFromSlices({g}),
         UNCHANGED <<deps, compensating, store>>,
         goals' \in [Goals -> [def : Defs \cup {NoDef}, state : Status, started : BOOLEAN]],
         \A h \in Goals \ {g} : goals'[h] = goals[h],
         \/ goals'[g] = Missing
         \/ Exists(g) /\ goals'[g].def = goals[g].def /\ goals'[g].state \in Over
  PROVE  IInv'
<1>1. /\ activeGoals' \in [Goals -> Nat] /\ pendingGoals' \in [Goals -> Nat]
      /\ activeGoals'[g] = 0
      /\ \A h \in Goals \ {g} : activeGoals'[h] = activeGoals[h] /\ pendingGoals'[h] = pendingGoals[h]
  <2>1. activeGoals \in [Goals -> Nat] /\ pendingGoals \in [Goals -> Nat] /\ activeGoals[g] <= 1
    BY Listed DEF IInv, TypeOK
  <2>2. activeGoals' = Without(activeGoals, {g}) /\ pendingGoals' = Without(pendingGoals, {g})
    BY DEF RemoveFromSlices
  <2>3. activeGoals' \in [Goals -> Nat] /\ pendingGoals' \in [Goals -> Nat]
    BY <2>1, <2>2, SliceCounts
  <2>4. activeGoals'[g] = 0
    BY <2>1, <2>2, SliceCounts
  <2>5. ASSUME NEW h \in Goals \ {g}
        PROVE  activeGoals'[h] = activeGoals[h] /\ pendingGoals'[h] = pendingGoals[h]
    BY <2>1, <2>2, SliceCounts
  <2> QED BY <2>3, <2>4, <2>5
<1>2. goals'[g].state \notin {"active", "pending"}
  BY DEF Missing, Over
<1>3. TypeOK'
  <2>1. NoDef \notin Defs
    BY DefsAssumption
  <2>2. ASSUME NEW h \in Goals
        PROVE  /\ goals'[h].state # "absent" <=> goals'[h].def # NoDef
               /\ goals'[h].state # "absent" => IdOf[goals'[h].def] = h
    <3>1. /\ goals[h].state # "absent" <=> goals[h].def # NoDef
          /\ goals[h].state # "absent" => IdOf[goals[h].def] = h
      BY DEF IInv, TypeOK, Exists
    <3>2. CASE h # g
      BY <3>1, <3>2
    <3>3. CASE h = g
      BY <2>1, <3>1, <3>3 DEF Missing, Over, Exists
    <3> QED BY <3>2, <3>3
  <2>3. /\ deps' \in [Goals -> SUBSET Paths] /\ compensating' \in SUBSET Goals
        /\ store' \in [Paths -> Values]
    BY DEF IInv, TypeOK
  <2> QED BY <1>1, <2>2, <2>3 DEF TypeOK, Exists
<1>4. ActiveIndexSound' /\ PendingIndexSound'
  BY <1>1, <1>2 DEF IInv, ActiveIndexSound, PendingIndexSound
<1>5. WalkSound'
  BY DEF Unlocked, WalkSound
<1> QED BY <1>3, <1>4, <1>5 DEF IInv

LEMMA RemoveGoalInv ==
  ASSUME IInv, NEW g \in Goals, RemoveGoal(g), UNCHANGED store
  PROVE  IInv'
<1>1. /\ goals' \in [Goals -> [def : Defs \cup {NoDef}, state : Status, started : BOOLEAN]]
      /\ goals'[g] = Missing
      /\ \A h \in Goals \ {g} : goals'[h] = goals[h]
  BY DEF RemoveGoal, IInv, TypeOK, Missing, Status
<1> QED BY <1>1, LeaveInv DEF RemoveGoal

\* CompleteGoal, FailGoal and CancelGoal, whatever the goal's state was.
LEMMA FinishInv ==
  ASSUME IInv, NEW g \in Goals, NEW outcome \in Over, Finish(g, outcome), UNCHANGED store
  PROVE  IInv'
<1>1. /\ goals' \in [Goals -> [def : Defs \cup {NoDef}, state : Status, started : BOOLEAN]]
      /\ goals'[g].def = goals[g].def
      /\ goals'[g].state = outcome
      /\ \A h \in Goals \ {g} : goals'[h] = goals[h]
  BY DEF Finish, IInv, TypeOK, Over, Status
<1> QED BY <1>1, LeaveInv DEF Finish

LEMMA RecordDependenciesInv ==
  ASSUME IInv, NEW g \in Goals, NEW read \in SUBSET Paths, RecordDependencies(g, read),
         UNCHANGED store
  PROVE  IInv'
  BY DEF RecordDependencies, IInv, TypeOK, ActiveIndexSound, PendingIndexSound, WalkSound, Exists

\* Goals put into the map as pending under names the map may already hold. An
\* active goal that is replaced keeps its entry in activeGoals.
LEMMA BirthInv ==
  ASSUME IInv, NEW born \in SUBSET Goals, NEW rest \in SUBSET Goals,
         goals' \in [Goals -> [def : Defs \cup {NoDef}, state : Status, started : BOOLEAN]],
         \A g \in born : goals'[g].def \in Defs /\ IdOf[goals'[g].def] = g
                         /\ goals'[g].state = "pending",
         \A g \in Goals \ born : \/ goals'[g] = goals[g]
                                 \/ /\ Exists(g) /\ goals'[g].def = goals[g].def
                                    /\ goals'[g].state = "compensating" /\ activeGoals[g] = 0,
         pendingGoals' = With(pendingGoals, born),
         compensating' = rest, \A g \in rest : Exists(g) /\ activeGoals[g] = 0,
         UNCHANGED <<activeGoals, deps, store>>
  PROVE  IInv'
<1>1. /\ pendingGoals' \in [Goals -> Nat]
      /\ \A g \in born : pendingGoals'[g] > 0
      /\ \A g \in Goals \ born : pendingGoals'[g] = pendingGoals[g]
  BY SliceCounts DEF IInv, TypeOK
<1>2. TypeOK'
  <2>1. NoDef \notin Defs
    BY DefsAssumption
  <2>2. ASSUME NEW g \in Goals
        PROVE  /\ goals'[g].state # "absent" <=> goals'[g].def # NoDef
               /\ goals'[g].state # "absent" => IdOf[goals'[g].def] = g
    <3>1. /\ goals[g].state # "absent" <=> goals[g].def # NoDef
          /\ goals[g].state # "absent" => IdOf[goals[g].def] = g
      BY DEF IInv, TypeOK, Exists
    <3>2. CASE g \in born
      BY <2>1, <3>2
    <3>3. CASE g \notin born
      BY <3>1, <3>3 DEF Exists
    <3> QED BY <3>2, <3>3
  <2>3. /\ activeGoals' \in [Goals -> Nat] /\ deps' \in [Goals -> SUBSET Paths]
        /\ compensating' \in SUBSET Goals /\ store' \in [Paths -> Values]
    BY DEF IInv, TypeOK
  <2> QED BY <1>1, <2>2, <2>3 DEF TypeOK, Exists
<1>3. ActiveIndexSound' /\ PendingIndexSound'
  BY <1>1 DEF IInv, TypeOK, ActiveIndexSound, PendingIndexSound
<1>4. WalkSound'
  <2> SUFFICES ASSUME NEW g \in rest PROVE Exists(g)' /\ activeGoals[g] = 0
    BY DEF WalkSound
  <2> QED BY DEF Exists
<1> QED BY <1>2, <1>3, <1>4 DEF IInv

LEMMA SpawnChildrenInv ==
  ASSUME IInv, NEW d \in Defs, SpawnChildren(d), UNCHANGED store
  PROVE  IInv'
<1> DEFINE born == {IdOf[c] : c \in Children[d]}
           child(g) == CHOOSE c \in Children[d] : IdOf[c] = g
<1>1. born \in SUBSET Goals
  BY DefsAssumption
<1>2. \A g \in born : child(g) \in Defs /\ IdOf[child(g)] = g
  BY DefsAssumption
<1>3. \A g \in Goals : goals'[g] = IF g \in born
                                   THEN [def |-> child(g), state |-> "pending", started |-> FALSE]
                                   ELSE goals[g]
  BY DEF SpawnChildren
<1>4. goals' \in [Goals -> [def : Defs \cup {NoDef}, state : Status, started : BOOLEAN]]
  BY <1>2, <1>3 DEF SpawnChildren, IInv, TypeOK, Status
<1>5. compensating' = {} /\ pendingGoals' = With(pendingGoals, born)
  BY DEF SpawnChildren, Unlocked
<1> QED
  <2>1. UNCHANGED <<activeGoals, deps, store>>
    BY DEF SpawnChildren
  <2>2. \A g \in born : /\ goals'[g].def \in Defs /\ IdOf[goals'[g].def] = g
                        /\ goals'[g].state = "pending"
    <3> HIDE DEF born
    <3> TAKE g \in born
    <3>1. goals'[g] = [def |-> child(g), state |-> "pending", started |-> FALSE]
      BY <1>1, <1>3
    <3>2. child(g) \in Defs /\ IdOf[child(g)] = g
      BY <1>2
    <3> HIDE DEF child
    <3> QED BY <3>1, <3>2
  <2>3. \A g \in Goals \ born : goals'[g] = goals[g]
    <3> HIDE DEF born, child
    <3> QED BY <1>3
  <2> HIDE DEF born, child
  <2> QED BY <1>1, <1>4, <1>5, <2>1, <2>2, <2>3, BirthInv

\* HandleEvent's second walk, where the condition no longer holds.
LEMMA CompensateInv ==
  ASSUME IInv, NEW g \in Goals, Compensate(g), UNCHANGED store
  PROVE  IInv'
<1> DEFINE comp == Compensation[goals[g].def]
           born == {IdOf[c] : c \in comp}
           chosen(b) == CHOOSE c \in comp : IdOf[c] = b
<1>1. Exists(g) /\ activeGoals[g] = 0 /\ goals[g].def \in Defs
  BY DEF Compensate, IInv, WalkSound, TypeOK
<1>2. born \in SUBSET Goals /\ \A b \in born : chosen(b) \in Defs /\ IdOf[chosen(b)] = b
  BY <1>1, DefsAssumption
<1>3. \A b \in Goals : goals'[b] = IF b \in born
                                   THEN [def |-> chosen(b), state |-> "pending", started |-> FALSE]
                                   ELSE IF b = g THEN [goals[g] EXCEPT !.state = "compensating"]
                                   ELSE goals[b]
  BY DEF Compensate
<1>4. goals[g] \in [def : Defs \cup {NoDef}, state : Status, started : BOOLEAN]
  BY DEF IInv, TypeOK
<1>5. goals' \in [Goals -> [def : Defs \cup {NoDef}, state : Status, started : BOOLEAN]]
  BY <1>2, <1>3, <1>4 DEF Compensate, IInv, TypeOK, Status
<1>6. /\ compensating' = compensating \ {g} /\ compensating \ {g} \in SUBSET Goals
      /\ \A b \in compensating \ {g} : Exists(b) /\ activeGoals[b] = 0
      /\ pendingGoals' = With(pendingGoals, born)
  BY DEF Compensate, IInv, TypeOK, WalkSound
<1> QED
  <2>1. UNCHANGED <<activeGoals, deps, store>>
    BY DEF Compensate
  <2>2. \A b \in born : /\ goals'[b].def \in Defs /\ IdOf[goals'[b].def] = b
                        /\ goals'[b].state = "pending"
    <3> HIDE DEF comp, born
    <3> TAKE b \in born
    <3>1. goals'[b] = [def |-> chosen(b), state |-> "pending", started |-> FALSE]
      BY <1>2, <1>3
    <3>2. chosen(b) \in Defs /\ IdOf[chosen(b)] = b
      BY <1>2
    <3> HIDE DEF chosen
    <3> QED BY <3>1, <3>2
  <2>3. \A b \in Goals \ born :
          \/ goals'[b] = goals[b]
          \/ /\ Exists(b) /\ goals'[b].def = goals[b].def
             /\ goals'[b].state = "compensating" /\ activeGoals[b] = 0
    <3> HIDE DEF comp, born, chosen
    <3> QED BY <1>1, <1>3, <1>4
  <2> HIDE DEF comp, born, chosen
  <2> QED BY <1>2, <1>5, <1>6, <2>1, <2>2, <2>3, BirthInv

LEMMA StillSatisfiedInv ==
  ASSUME IInv, NEW g \in Goals, StillSatisfied(g), UNCHANGED store
  PROVE  IInv'
  BY DEF StillSatisfied, IInv, TypeOK, ActiveIndexSound, PendingIndexSound, WalkSound, Exists

\* Goals woken by their removal from both slices and one append to activeGoals.
LEMMA WakeInv ==
  ASSUME IInv, NEW woken \in SUBSET Goals, NEW walk \in SUBSET Goals,
         \A g \in woken : Exists(g),
         goals' = [g \in Goals |-> IF g \in woken THEN [goals[g] EXCEPT !.state = "active"]
                                                  ELSE goals[g]],
         activeGoals' = With(Without(activeGoals, woken), woken),
         pendingGoals' = Without(pendingGoals, woken),
         compensating' = walk, walk \cap woken = {},
         \A g \in walk : Exists(g) /\ activeGoals[g] = 0,
         UNCHANGED <<deps, store>>
  PROVE  IInv'
<1>1. /\ Without(activeGoals, woken) \in [Goals -> Nat]
      /\ \A g \in woken : Without(activeGoals, woken)[g] = 0
      /\ \A g \in Goals \ woken : Without(activeGoals, woken)[g] = activeGoals[g]
  <2>1. activeGoals \in [Goals -> Nat] /\ \A g \in Goals : activeGoals[g] <= 1
    BY Listed DEF IInv, TypeOK
  <2> QED BY <2>1, SliceCounts
<1>2. /\ activeGoals' \in [Goals -> Nat]
      /\ \A g \in woken : activeGoals'[g] = 1
      /\ \A g \in Goals \ woken : activeGoals'[g] = activeGoals[g]
  BY <1>1, SliceCounts
<1>3. /\ pendingGoals' \in [Goals -> Nat]
      /\ \A g \in Goals \ woken : pendingGoals'[g] = pendingGoals[g]
  BY SliceCounts DEF IInv, TypeOK
<1>4. \A g \in Goals : /\ goals[g] \in [def : Defs \cup {NoDef}, state : Status, started : BOOLEAN]
                       /\ g \in woken => /\ goals'[g].state = "active"
                                         /\ goals'[g].def = goals[g].def
                       /\ g \notin woken => goals'[g] = goals[g]
  BY DEF IInv, TypeOK
<1>5. goals' \in [Goals -> [def : Defs \cup {NoDef}, state : Status, started : BOOLEAN]]
  BY <1>4 DEF Status
<1>6. TypeOK'
  BY <1>2, <1>3, <1>4, <1>5 DEF IInv, TypeOK, Exists
<1>7. ActiveIndexSound' /\ PendingIndexSound'
  BY <1>2, <1>3, <1>4 DEF IInv, TypeOK, ActiveIndexSound, PendingIndexSound
<1>8. WalkSound'
  BY <1>2, <1>4 DEF WalkSound, Exists
<1> QED BY <1>6, <1>7, <1>8 DEF IInv

LEMMA HandleEventInv ==
  ASSUME IInv, NEW writes \in SUBSET Paths, HandleEvent(writes), UNCHANGED store
  PROVE  IInv'
<1> DEFINE woken == Triggered(writes)
           walk  == Affected(writes)
<1>1. woken \in SUBSET Goals /\ \A g \in woken : Exists(g)
  BY DEF Triggered, Exists
<1>2. /\ walk \in SUBSET Goals /\ walk \cap woken = {}
      /\ \A g \in walk : Exists(g) /\ activeGoals[g] = 0
  BY Listed DEF Affected, Triggered, Exists
<1> QED
  <2> HIDE DEF woken, walk
  <2>1. /\ goals' = [g \in Goals |-> IF g \in woken THEN [goals[g] EXCEPT !.state = "active"]
                                                    ELSE goals[g]]
        /\ activeGoals' = With(Without(activeGoals, woken), woken)
        /\ pendingGoals' = Without(pendingGoals, woken)
        /\ compensating' = walk /\ UNCHANGED deps
    BY DEF HandleEvent, woken, walk
  <2> QED BY <1>1, <1>2, <2>1, WakeInv

LEMMA ActivateGoalInv ==
  ASSUME IInv, NEW g \in Goals, ActivateGoal(g), UNCHANGED store
  PROVE  IInv'
<1>1. goals' = [h \in Goals |-> IF h \in {g} THEN [goals[h] EXCEPT !.state = "active"]
                                             ELSE goals[h]]
  BY DEF ActivateGoal, IInv, TypeOK
<1>2. compensating' = {}
  BY DEF ActivateGoal, Unlocked
<1> QED BY <1>1, <1>2, WakeInv DEF ActivateGoal

-----------------------------------------------------------------------------
\* The state the conditions read does not enter the index.
LEMMA StoreChangesInv == IInv /\ StoreChanges => IInv'
  BY DEF StoreChanges, engineVars, IInv, TypeOK, ActiveIndexSound, PendingIndexSound, WalkSound, Exists

\* IInv is inductive: one step per operation of the engine.
LEMMA NextInv == IInv /\ [Next]_vars => IInv'
<1> SUFFICES ASSUME IInv, [Next]_vars PROVE IInv'
  OBVIOUS
<1>1. ASSUME UNCHANGED store, NEW d \in Defs, AddGoal(d) \/ SpawnChildren(d) PROVE IInv'
  BY <1>1, AddGoalInv, SpawnChildrenInv
<1>2. ASSUME UNCHANGED store, NEW g \in Goals, RemoveGoal(g) \/ ActivateGoal(g) PROVE IInv'
  BY <1>2, RemoveGoalInv, ActivateGoalInv
<1>3. ASSUME UNCHANGED store, NEW g \in Goals, CompleteGoal(g) \/ FailGoal(g) \/ CancelGoal(g)
      PROVE IInv'
  BY <1>3, FinishInv DEF CompleteGoal, FailGoal, CancelGoal, Over
<1>4. ASSUME UNCHANGED store, NEW g \in Goals, NEW d \in Defs,
             NEW read \in (SUBSET CondPaths(d)) \ {{}}, RecordDependencies(g, read)
      PROVE IInv'
  <2>1. CondPaths(d) \subseteq Paths
    BY DefsAssumption DEF CondPaths
  <2> QED BY <1>4, <2>1, RecordDependenciesInv
<1>5. ASSUME UNCHANGED store, NEW writes \in SUBSET Paths, HandleEvent(writes) PROVE IInv'
  BY <1>5, HandleEventInv
<1>6. ASSUME UNCHANGED store, NEW g \in Goals, StillSatisfied(g) \/ Compensate(g) PROVE IInv'
  BY <1>6, StillSatisfiedInv, CompensateInv
<1>7. CASE StoreChanges
  BY <1>7, StoreChangesInv
<1>8. CASE UNCHANGED vars
  BY <1>8 DEF vars, IInv, TypeOK, ActiveIndexSound, PendingIndexSound, WalkSound, Exists
<1> QED BY <1>1, <1>2, <1>3, <1>4, <1>5, <1>6, <1>7, <1>8 DEF Next, EngineStep

LEMMA InvHolds == Spec => []IInv
<1>1. Init => IInv
  BY InitInv
<1>2. IInv /\ [Next]_vars => IInv'
  BY NextInv
<1> QED BY <1>1, <1>2, PTL DEF Spec

\* Every call of the engine keeps the shape of the map, the slices and the
\* dependency table.
THEOREM TypeCorrect == Spec => []TypeOK
<1>1. IInv => TypeOK
  BY DEF IInv
<1> QED BY <1>1, InvHolds, PTL

\* goal_engine.go's activeGoals: active goals are listed once, goals that are
\* over are not, in whatever order the API, the loop and HandleEvent call.
THEOREM ActiveIndexCorrect == Spec => []ActiveIndexSound
<1>1. IInv => ActiveIndexSound
  BY DEF IInv
<1> QED BY <1>1, InvHolds, PTL

\* goal_engine.go's pendingGoals: a pending goal is never lost from it, however
\* often its name was spawned and removed.
THEOREM PendingIndexCorrect == Spec => []PendingIndexSound
<1>1. IInv => PendingIndexSound
  BY DEF IInv
<1> QED BY <1>1, InvHolds, PTL

\* goal_engine.go's two slices of names and the walk of HandleEvent are sound
\* together, which is what the run goal_engine checks.
THEOREM IndexesCorrect == Spec => []IndexesSound
<1>1. IInv => IndexesSound
  BY DEF IInv, IndexesSound
<1> QED BY <1>1, InvHolds, PTL
=============================================================================

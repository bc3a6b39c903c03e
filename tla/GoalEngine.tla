----------------------------- MODULE GoalEngine -----------------------------
(***************************************************************************)
(* The goal engine (runtime/goal_engine.go): the goals map, the two index  *)
(* slices activeGoals and pendingGoals that the execution loop and the API *)
(* list, and the paths each goal's condition was seen to read.  Every      *)
(* operation of the engine runs under its own mutex g.mu and is one action *)
(* here, except HandleEvent: it keeps g.mu while it walks the goals it     *)
(* must compensate in map order, so that walk is a step per goal and       *)
(* "compensating", the goals still to walk, is what excludes the others.   *)
(*                                                                         *)
(* A goal's Go closures are data: definition d is submitted or spawned     *)
(* under the name IdOf[d]; it is triggered by the path in Trigger[d] (a    *)
(* set, empty for a nil trigger); its Condition asks every path of         *)
(* DOMAIN Want[d] for the value Want[d] gives it (an empty domain is a nil *)
(* Condition, which is never satisfied); Spawn returns Children[d] and     *)
(* Compensate the one definition in Compensation[d], if any.  One name may *)
(* have several definitions: a goal spawned under the name of a goal that  *)
(* exists replaces it.  The order of the slices only decides ties of the   *)
(* listing's sort, so a slice is the number of times it holds each name.   *)
(***************************************************************************)
EXTENDS Integers

CONSTANTS
  Goals,          \* goal names (Goal.ID)
  Defs,           \* goal definitions
  NoDef,          \* "the goals map has no such entry"
  Paths,          \* state paths
  Values,         \* values of the paths, Absent among them
  Absent,         \* the path is not in the state
  IdOf, Trigger, Want, Children, Compensation,
  MaxPending      \* bound on how often pendingGoals holds one name

ASSUME DefsAssumption ==
  /\ NoDef \notin Defs
  /\ Absent \in Values
  /\ IdOf \in [Defs -> Goals]
  /\ Trigger \in [Defs -> SUBSET Paths]
  /\ Want \in [Defs -> UNION {[P -> Values] : P \in SUBSET Paths}]
  /\ Children \in [Defs -> SUBSET Defs]
  /\ \A d \in Defs : \A c1, c2 \in Children[d] : IdOf[c1] = IdOf[c2] => c1 = c2
  /\ Compensation \in [Defs -> SUBSET Defs]
  /\ \A d \in Defs : \A c1, c2 \in Compensation[d] : c1 = c2
  /\ MaxPending \in Nat

VARIABLES
  goals,         \* the goals map
  activeGoals,   \* how often the slice activeGoals holds each name
  pendingGoals,  \* how often the slice pendingGoals holds each name
  deps,          \* goalDependencies: the paths the last Evaluate of a name read
  compensating,  \* completed goals the running HandleEvent has yet to re-check
  store          \* the state the conditions read (state manager's data)

engineVars == <<goals, activeGoals, pendingGoals, deps, compensating>>
vars == <<goals, activeGoals, pendingGoals, deps, compensating, store>>

Status == {"absent", "pending", "active", "complete", "failed", "cancelled", "compensating"}
Over   == {"complete", "failed", "cancelled"}

Missing   == [def |-> NoDef, state |-> "absent", started |-> FALSE]
Exists(g) == goals[g].state # "absent"

CondPaths(d) == DOMAIN Want[d]
CondHolds(d) == CondPaths(d) # {} /\ \A p \in CondPaths(d) : store[p] = Want[d][p]

-----------------------------------------------------------------------------
\* removeFromSlices: the first occurrence in each slice, if there is one.
Without(slice, S) == [g \in Goals |-> IF g \in S /\ slice[g] > 0 THEN slice[g] - 1 ELSE slice[g]]
With(slice, S)    == [g \in Goals |-> IF g \in S THEN slice[g] + 1 ELSE slice[g]]

RemoveFromSlices(S) ==
  /\ activeGoals' = Without(activeGoals, S)
  /\ pendingGoals' = Without(pendingGoals, S)

\* g.mu is free.
Unlocked == compensating = {}

AddGoal(d) ==
  /\ Unlocked
  /\ ~Exists(IdOf[d])
  /\ goals' = [goals EXCEPT ![IdOf[d]] = [def |-> d, state |-> "active", started |-> TRUE]]
  /\ activeGoals' = With(activeGoals, {IdOf[d]})
  /\ UNCHANGED <<pendingGoals, deps, compensating>>

RemoveGoal(g) ==
  /\ Unlocked
  /\ Exists(g)
  /\ goals' = [goals EXCEPT ![g] = Missing]
  /\ RemoveFromSlices({g})
  /\ UNCHANGED <<deps, compensating>>

\* Evaluate, after the condition has run: the paths it read replace the old ones.
RecordDependencies(g, paths) ==
  /\ Unlocked
  /\ deps' = [deps EXCEPT ![g] = paths]
  /\ UNCHANGED <<goals, activeGoals, pendingGoals, compensating>>

\* The children replace whatever the map holds under their names, and are
\* never started; activeGoals keeps a name it already held.
SpawnChildren(d) ==
  LET born == {IdOf[c] : c \in Children[d]}
  IN  /\ Unlocked
      /\ \A g \in born : pendingGoals[g] < MaxPending
      /\ goals' = [g \in Goals |->
                     IF g \in born
                     THEN [def |-> CHOOSE c \in Children[d] : IdOf[c] = g,
                           state |-> "pending", started |-> FALSE]
                     ELSE goals[g]]
      /\ pendingGoals' = With(pendingGoals, born)
      /\ UNCHANGED <<activeGoals, deps, compensating>>

ActivateGoal(g) ==
  /\ Unlocked
  /\ Exists(g)
  /\ goals' = [goals EXCEPT ![g].state = "active"]
  /\ activeGoals' = With(Without(activeGoals, {g}), {g})
  /\ pendingGoals' = Without(pendingGoals, {g})
  /\ UNCHANGED <<deps, compensating>>

\* CompleteGoal, FailGoal and CancelGoal only ask that the goal exists.
Finish(g, outcome) ==
  /\ Unlocked
  /\ Exists(g)
  /\ goals' = [goals EXCEPT ![g].state = outcome]
  /\ RemoveFromSlices({g})
  /\ UNCHANGED <<deps, compensating>>

CompleteGoal(g) == Finish(g, "complete")
FailGoal(g)     == Finish(g, "failed")
CancelGoal(g)   == Finish(g, "cancelled")

-----------------------------------------------------------------------------
\* A pending goal with a trigger listens to its trigger only, one without
\* listens to the paths an earlier evaluation of its name read.
Triggered(writes) ==
  {g \in Goals : /\ goals[g].state = "pending"
                 /\ IF Trigger[goals[g].def] # {}
                    THEN Trigger[goals[g].def] \cap writes # {}
                    ELSE deps[g] \cap writes # {}}

Affected(writes) ==
  {g \in Goals : goals[g].state = "complete" /\ deps[g] \cap writes # {}}

\* Mutant: a woken goal is appended to activeGoals without removing it first.
HandleEventAppends(writes) ==
  LET woken == Triggered(writes)
  IN  /\ Unlocked
      /\ goals' = [g \in Goals |->
                     IF g \in woken THEN [goals[g] EXCEPT !.state = "active"] ELSE goals[g]]
      /\ activeGoals' = With(activeGoals, woken)
      /\ pendingGoals' = Without(pendingGoals, woken)
      /\ compensating' = Affected(writes)
      /\ UNCHANGED deps

HandleEvent(writes) ==
  LET woken == Triggered(writes)
  IN  /\ Unlocked
      /\ goals' = [g \in Goals |->
                     IF g \in woken THEN [goals[g] EXCEPT !.state = "active"] ELSE goals[g]]
      /\ activeGoals' = With(Without(activeGoals, woken), woken)
      /\ pendingGoals' = Without(pendingGoals, woken)
      /\ compensating' = Affected(writes)
      /\ UNCHANGED deps

\* HandleEvent, one goal of the second walk: a goal whose condition still
\* holds is left alone, another starts compensating and its compensation
\* goal (compGoal) is put into the map as a pending goal.
StillSatisfied(g) ==
  /\ g \in compensating
  /\ CondHolds(goals[g].def)
  /\ compensating' = compensating \ {g}
  /\ UNCHANGED <<goals, activeGoals, pendingGoals, deps>>

Compensate(g) ==
  LET comp == Compensation[goals[g].def]
      born == {IdOf[c] : c \in comp}
  IN  /\ g \in compensating
      /\ ~CondHolds(goals[g].def)
      /\ \A b \in born : pendingGoals[b] < MaxPending
      /\ goals' = [b \in Goals |->
                     IF b \in born
                     THEN [def |-> CHOOSE c \in comp : IdOf[c] = b,
                           state |-> "pending", started |-> FALSE]
                     ELSE IF b = g THEN [goals[g] EXCEPT !.state = "compensating"]
                     ELSE goals[b]]
      /\ pendingGoals' = With(pendingGoals, born)
      /\ compensating' = compensating \ {g}
      /\ UNCHANGED <<activeGoals, deps>>

-----------------------------------------------------------------------------
Init ==
  /\ goals = [g \in Goals |-> Missing]
  /\ activeGoals = [g \in Goals |-> 0]
  /\ pendingGoals = [g \in Goals |-> 0]
  /\ deps = [g \in Goals |-> {}]
  /\ compensating = {}
  /\ store = [p \in Paths |-> Absent]

\* The state manager's side: any paths may take any values at any time.
StoreChanges ==
  /\ store' \in [Paths -> Values]
  /\ UNCHANGED engineVars

EngineStep ==
  \/ \E d \in Defs : AddGoal(d) \/ SpawnChildren(d)
  \/ \E g \in Goals : RemoveGoal(g) \/ ActivateGoal(g)
  \/ \E g \in Goals : CompleteGoal(g) \/ FailGoal(g) \/ CancelGoal(g)
  \/ \E g \in Goals, d \in Defs : \E read \in (SUBSET CondPaths(d)) \ {{}} : RecordDependencies(g, read)
  \/ \E writes \in SUBSET Paths : HandleEvent(writes)
  \/ \E g \in Goals : StillSatisfied(g) \/ Compensate(g)

Next == (EngineStep /\ UNCHANGED store) \/ StoreChanges

Spec == Init /\ [][Next]_vars

-----------------------------------------------------------------------------
\* Shape of the engine's state; a name is in the map iff it has a definition.
TypeOK ==
  /\ goals \in [Goals -> [def : Defs \cup {NoDef}, state : Status, started : BOOLEAN]]
  /\ \A g \in Goals : /\ Exists(g) <=> goals[g].def # NoDef
                      /\ Exists(g) => IdOf[goals[g].def] = g
  /\ activeGoals \in [Goals -> Nat]
  /\ pendingGoals \in [Goals -> Nat]
  /\ deps \in [Goals -> SUBSET Paths]
  /\ compensating \in SUBSET Goals
  /\ store \in [Paths -> Values]

\* The index the execution loop lists is exact where it matters: an active goal
\* is in activeGoals, no name is in it twice (the loop would handle a goal twice
\* in one tick), and a goal that is over, compensating or removed has left it.
\* removeFromSlices drops one occurrence only, so each of these needs the others.
ActiveIndexSound ==
  \A g \in Goals :
    /\ goals[g].state = "active" => activeGoals[g] = 1
    /\ activeGoals[g] <= 1
    /\ activeGoals[g] = 1 => goals[g].state \in {"active", "pending"}

\* A pending goal can be found: pendingGoals holds it, however often spawning
\* put its name there and the single removals took it out again.
PendingIndexSound ==
  \A g \in Goals : goals[g].state = "pending" => pendingGoals[g] > 0

\* What HandleEvent walks under g.mu is in the map, and not on the active list.
WalkSound ==
  \A g \in compensating : Exists(g) /\ activeGoals[g] = 0

\* Together: the two slices of names the kernel looks goals up in never lose a
\* goal that is still to run and never hold one it would run twice, and the walk
\* over completed goals meets no goal that left the map or runs again.
IndexesSound == ActiveIndexSound /\ PendingIndexSound /\ WalkSound

=============================================================================

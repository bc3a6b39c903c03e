-------------------------- MODULE DependencyGraph --------------------------
(***************************************************************************)
(* The dependency graph of planning/planner.go and its two owners, Planner *)
(* and WhatIfAnalyzer.  A node lists the goals it depends on (Dependees)   *)
(* and the goals that depend on it (Dependents); each list is here the     *)
(* number of times a goal occurs in it, and the lists of a goal that is no *)
(* node are empty.  Every operation holds g.mu from beginning to end.      *)
(***************************************************************************)
EXTENDS Integers, FiniteSets

CONSTANTS
  GoalIDs,
  MaxCopies   \* bound on how often one goal occurs in a list

ASSUME GraphAssumption == MaxCopies \in Nat

VARIABLES
  nodes,       \* the goals that are nodes
  dependees,   \* dependees[a][b]: how often a lists b as a goal it depends on
  dependents   \* dependents[b][a]: how often b lists a as a goal that depends on it

vars == <<nodes, dependees, dependents>>

Lists   == [GoalIDs -> 0..MaxCopies]
NoGoals == [g \in GoalIDs |-> 0]

Init ==
  /\ nodes = {}
  /\ dependees  = [g \in GoalIDs |-> NoGoals]
  /\ dependents = [g \in GoalIDs |-> NoGoals]

-----------------------------------------------------------------------------

\* Only the dependees that are nodes by now learn of the new node.
AddNode(id, deps) ==
  /\ id \notin nodes
  /\ nodes' = nodes \cup {id}
  /\ dependees' = [dependees EXCEPT ![id] = deps]
  /\ dependents' = [b \in GoalIDs |->
                     IF b \in nodes
                     THEN [dependents[b] EXCEPT ![id] = @ + deps[b]]
                     ELSE dependents[b]]

\* Makes the nodes it does not find.
AddDependency(from, to) ==
  /\ dependees[from][to] < MaxCopies /\ dependents[to][from] < MaxCopies
  /\ nodes' = nodes \cup {from, to}
  /\ dependees'  = [dependees EXCEPT ![from][to] = @ + 1]
  /\ dependents' = [dependents EXCEPT ![to][from] = @ + 1]

\* What is left of a list after one occurrence of id has gone for each of count.
Fewer(list, id, count) == [list EXCEPT ![id] = IF @ > count THEN @ - count ELSE 0]

\* Mutant: the goals it depends on keep it.
RemoveNodeKept(id) ==
  /\ id \in nodes
  /\ nodes' = nodes \ {id}
  /\ dependees' = [a \in GoalIDs |->
                    IF a = id THEN NoGoals
                    ELSE IF a \in nodes THEN Fewer(dependees[a], id, dependents[id][a])
                    ELSE dependees[a]]
  /\ dependents' = [dependents EXCEPT ![id] = NoGoals]

\* Its dependents and its dependees forget it, as often as it lists them.
RemoveNode(id) ==
  /\ id \in nodes
  /\ nodes' = nodes \ {id}
  /\ dependees' = [a \in GoalIDs |->
                    IF a = id THEN NoGoals
                    ELSE IF a \in nodes THEN Fewer(dependees[a], id, dependents[id][a])
                    ELSE dependees[a]]
  /\ dependents' = [b \in GoalIDs |->
                     IF b = id THEN NoGoals
                     ELSE IF b \in nodes THEN Fewer(dependents[b], id, dependees[id][b])
                     ELSE dependents[b]]

\* Planner.AddGoal and NewWhatIfAnalyzer add their goals without dependees.
AddGoal(id) == AddNode(id, NoGoals)

Next ==
  \E id \in GoalIDs :
    \/ \E deps \in Lists : AddNode(id, deps)
    \/ AddGoal(id)
    \/ \E to \in GoalIDs : AddDependency(id, to)
    \/ RemoveNode(id)

Spec == Init /\ [][Next]_vars

-----------------------------------------------------------------------------
(* Properties. *)

TypeOK ==
  /\ nodes \subseteq GoalIDs
  /\ dependees \in [GoalIDs -> Lists]
  /\ dependents \in [GoalIDs -> Lists]

\* planner.go:34-119: the two sides of an edge never drift apart the wrong way: a goal is
\* listed as a dependent by nodes only, it is a node itself, and it lists the other goal
\* at least as often.  The converse fails: a dependee that becomes a node after its
\* dependents never learns of them.
EdgesMirrored ==
  \A a, b \in GoalIDs :
    /\ dependents[b][a] > 0 => a \in nodes /\ b \in nodes
    /\ dependees[a][b] > 0 => a \in nodes
    /\ dependents[b][a] <= dependees[a][b]
=============================================================================

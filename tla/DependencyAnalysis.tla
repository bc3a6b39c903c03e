------------------------- MODULE DependencyAnalysis -------------------------
(***************************************************************************)
(* What planning/planner.go computes from a dependency graph, translated   *)
(* step by step and compared with reference definitions on graphs.  Go     *)
(* walks a map in any order, and the lists of a node may be in any order:  *)
(* order is the sequence of goals that stands for both.                    *)
(***************************************************************************)
EXTENDS DependencyGraph, Sequences

LOCAL INSTANCE SequencesExt
G == INSTANCE Graphs

Orders == {o \in [1..Cardinality(GoalIDs) -> GoalIDs] :
             \A i, j \in DOMAIN o : o[i] = o[j] => i = j}

\* A list of a node, and the nodes, in the given order.
Listed(list, order) ==
  FlattenSeq([i \in DOMAIN order |-> [n \in 1..list[order[i]] |-> order[i]]])
NodesIn(order) == SelectSeq(order, LAMBDA id : id \in nodes)

\* Dependencies between nodes; a dependency on a goal that is no node dangles.
DependsOn == [node |-> nodes, edge |-> {e \in nodes \X nodes : dependees[e[1]][e[2]] > 0}]
Notifies  == [node |-> nodes, edge |-> {e \in nodes \X nodes : dependents[e[1]][e[2]] > 0}]
Closed    == \A a \in nodes, b \in GoalIDs : dependees[a][b] > 0 => b \in nodes

IsPath(p) == \A i \in 1..(Len(p) - 1) : <<p[i], p[i + 1]>> \in DependsOn.edge

-----------------------------------------------------------------------------
(* HasCycle.  A goal that is no node stays on recStack: the search returns *)
(* before it takes it off again.                                           *)

RECURSIVE Dfs(_, _, _)
Dfs(node, search, order) ==
  LET entered == [search EXCEPT !.visited = @ \cup {node}, !.recStack = @ \cup {node}]
      Visit(s, neighbor) ==
        IF s.cycle THEN s
        ELSE IF neighbor \notin s.visited THEN Dfs(neighbor, s, order)
        ELSE [s EXCEPT !.cycle = neighbor \in s.recStack]
      explored == FoldLeft(Visit, entered, Listed(dependees[node], order))
  IN  IF node \notin nodes THEN entered
      ELSE IF explored.cycle THEN explored
      ELSE [explored EXCEPT !.recStack = @ \ {node}]

\* Mutant: the search starts from one node only.
HasCycleFromFirst(order) ==
  nodes # {} /\ Dfs(Head(NodesIn(order)),
                   [visited |-> {}, recStack |-> {}, cycle |-> FALSE], order).cycle

HasCycle(order) ==
  FoldLeft(LAMBDA s, id : IF s.cycle \/ id \in s.visited THEN s ELSE Dfs(id, s, order),
           [visited |-> {}, recStack |-> {}, cycle |-> FALSE], NodesIn(order)).cycle

-----------------------------------------------------------------------------
(* TopologicalSort.  The degrees count dependents, and the dependents of a *)
(* sorted goal are taken off: the two directions do not match.             *)

InDegree(b) == FoldFunctionOnSet(+, 0, [a \in GoalIDs |-> dependees[a][b]], nodes)

RECURSIVE Kahn(_, _, _, _)
Kahn(queue, degree, result, order) ==
  IF queue = <<>> THEN result
  ELSE LET current == Head(queue)
           Lower(s, dep) ==
             LET d == s.degree[dep] - 1
             IN  [degree |-> [s.degree EXCEPT ![dep] = d],
                  queue  |-> IF d = 0 THEN Append(s.queue, dep) ELSE s.queue]
           next == FoldLeft(Lower, [degree |-> degree, queue |-> Tail(queue)],
                            Listed(dependents[current], order))
       IN  Kahn(next.queue, next.degree, Append(result, current), order)

\* The result, and whether it is one: len(result) = len(g.nodes).
TopologicalSort(order) ==
  LET degree == [id \in GoalIDs |-> InDegree(id)]
      result == Kahn(SelectSeq(NodesIn(order), LAMBDA id : degree[id] = 0), degree,
                     <<>>, order)
  IN  [ok |-> Len(result) = Cardinality(nodes), result |-> result]

\* FindParallelizable: the level of each sorted goal.
Levels(sorted) ==
  FoldLeft(LAMBDA level, id :
             LET deps  == {b \in GoalIDs : dependees[id][b] > 0}
                 known == {level[b] : b \in deps \cap DOMAIN level} \cup {0}
                 own   == IF deps = {} THEN 0
                          ELSE 1 + CHOOSE m \in known : \A k \in known : k <= m
             IN  [b \in (DOMAIN level) \cup {id} |-> IF b = id THEN own ELSE level[b]],
           [b \in {} |-> 0], sorted)

-----------------------------------------------------------------------------
(* GetCriticalPath.  The search does not end on a cycle and reads a nil    *)
(* node on a dangling dependency: it is for closed graphs without cycles.  *)

RECURSIVE Longest(_)
Longest(id) ==
  LET deps == {b \in GoalIDs : dependees[id][b] > 0}
  IN  IF deps = {} THEN 1
      ELSE LET lengths == {Longest(b) : b \in deps}
           IN  1 + CHOOSE m \in lengths : \A k \in lengths : k <= m

\* The first of the longest, in the given order.
FirstLongest(ids, order) ==
  Head(SelectSeq(order, LAMBDA id :
         id \in ids /\ \A other \in ids : Longest(other) <= Longest(id)))

\* From the end node along the longest dependees, then reversed.
RECURSIVE Follow(_, _)
Follow(id, order) ==
  LET deps == {b \in GoalIDs : dependees[id][b] > 0}
  IN  IF deps = {} THEN <<id>> ELSE Append(Follow(FirstLongest(deps, order), order), id)

GetCriticalPath(order) == Follow(FirstLongest(nodes, order), order)

-----------------------------------------------------------------------------
(* WhatIfAnalyzer.getAffectedGoals: a goal is listed once for each goal    *)
(* that leads to it.                                                       *)

RECURSIVE Affect(_, _, _)
Affect(id, found, order) ==
  IF id \in found.visited THEN found
  ELSE LET entered == [found EXCEPT !.visited = @ \cup {id}]
           Add(f, dependent) ==
             Affect(dependent, [f EXCEPT !.affected = Append(@, dependent)], order)
       IN  IF id \notin nodes THEN entered
           ELSE FoldLeft(Add, entered, Listed(dependents[id], order))

AffectedGoals(id, order) == Affect(id, [visited |-> {}, affected |-> <<>>], order).affected

-----------------------------------------------------------------------------
(* Properties. *)

\* planner.go:121-161,400-424: HasCycle finds every cycle, and reports one that is not
\* there exactly when two dependencies dangle on the same missing goal.  The goals affected
\* by a goal are all those that were told, directly or over others, that they depend on it.
SearchesExact ==
  \A order \in Orders :
    /\ HasCycle(order) <=> \/ ~G!IsDag(DependsOn)
                           \/ \E b \in GoalIDs \ nodes : InDegree(b) > 1
    /\ \A id \in nodes :
         LET affected == AffectedGoals(id, order)
         IN  {affected[i] : i \in DOMAIN affected} = G!Descendants(Notifies, id)

\* planner.go:163-205,524-566: a sort that succeeds has every node once; it succeeds
\* exactly when no node depends on another, or itself, for any other graph it says
\* "graph has cycles".  So FindParallelizable has two levels at most, and a node is on the
\* second only for goals that are missing.
SortKnown ==
  \A order \in Orders :
    LET sort   == TopologicalSort(order)
        levels == Levels(sort.result)
    IN  /\ sort.ok <=> DependsOn.edge = {}
        /\ sort.ok => /\ {sort.result[i] : i \in DOMAIN sort.result} = nodes
                      /\ \A id \in nodes :
                           levels[id] = IF dependees[id] = NoGoals THEN 0 ELSE 1

\* planner.go:220-288: on a closed graph without cycles, the critical path is a path of
\* the graph, dependees first, and no path is longer.
CriticalPathLongest ==
  nodes # {} /\ Closed /\ G!IsDag(DependsOn) =>
    \A order \in Orders :
      LET path == GetCriticalPath(order)
      IN  /\ IsPath(Reverse(path))
          /\ \A longer \in [1..(Len(path) + 1) -> nodes] : ~IsPath(longer)

\* planner.go:121-288,400-424,524-566: whatever the order in which Go walks the maps, the
\* analyses answer as above.
AnalysisExact == SearchesExact /\ SortKnown /\ CriticalPathLongest
=============================================================================

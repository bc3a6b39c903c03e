------------------------ MODULE Surroundings_proofs ------------------------
(***************************************************************************)
(* The safety of what stands around the kernel, part by part.  Each part   *)
(* has an inductive invariant of its own; as the others stand still while  *)
(* one moves, together they are an invariant of the whole.                 *)
(***************************************************************************)
EXTENDS Surroundings, FiniteSetTheorems, WellFoundedInduction, TLAPS

\* A step of the whole is a step of each part, or leaves it as it is.
LEMMA StepsOfParts ==
  ASSUME [SurroundingsNext /\ UNCHANGED part]_<<part, surroundings>>
  PROVE  /\ Next \/ UNCHANGED vars
         /\ S!Next \/ UNCHANGED schedulerVars
         /\ C!Next \/ UNCHANGED clusterVars
         /\ P!Next \/ UNCHANGED processVars
         /\ O!Next \/ UNCHANGED objectVars
         /\ F!Next \/ UNCHANGED snapshotVars
         /\ RP!Next \/ UNCHANGED plannerVars
         /\ W!Next \/ UNCHANGED workspaceVars
  BY DEF SurroundingsNext, surroundings

-----------------------------------------------------------------------------
(* The dependency graph.  EdgesMirrored needs the types only to know that  *)
(* counts are numbers; the types need EdgesMirrored, for a new node must   *)
(* be listed by nobody yet when its dependees add it, or a list would      *)
(* overflow.                                                               *)

GraphInv == TypeOK /\ EdgesMirrored

LEMMA GraphInit == Init => GraphInv
  BY GraphAssumption DEF Init, GraphInv, TypeOK, EdgesMirrored, Lists, NoGoals

LEMMA NoGoalsList == NoGoals \in Lists
  BY GraphAssumption DEF NoGoals, Lists

LEMMA AddNodeInv ==
  ASSUME GraphInv, NEW id \in GoalIDs, NEW deps \in Lists, AddNode(id, deps)
  PROVE  GraphInv'
<1> USE GraphAssumption
<1>1. /\ id \notin nodes /\ nodes' = nodes \cup {id}
      /\ dependees' \in [GoalIDs -> Lists]
      /\ \A a, b \in GoalIDs : dependees'[a][b] = IF a = id THEN deps[b] ELSE dependees[a][b]
  BY DEF GraphInv, TypeOK, AddNode, Lists
<1>2. \A b \in GoalIDs : dependents[b][id] = 0
  BY <1>1 DEF GraphInv, TypeOK, EdgesMirrored, Lists
<1>3. \A b \in GoalIDs : dependents'[b] = IF b \in nodes
                                          THEN [dependents[b] EXCEPT ![id] = dependents[b][id] + deps[b]]
                                          ELSE dependents[b]
  BY DEF AddNode
<1>4. \A b \in GoalIDs : dependents[b] \in Lists
  BY DEF GraphInv, TypeOK
<1>5. ASSUME NEW b \in GoalIDs
      PROVE  /\ dependents'[b] \in Lists
             /\ \A a \in GoalIDs : dependents'[b][a] = IF a = id /\ b \in nodes THEN deps[b]
                                                       ELSE dependents[b][a]
  <2>1. CASE b \notin nodes
    BY <2>1, <1>3, <1>4
  <2>2. CASE b \in nodes
    <3>1. dependents[b][id] = 0 /\ deps[b] \in 0..MaxCopies
      BY <1>2 DEF Lists
    <3>2. dependents[b][id] + deps[b] = deps[b]
      BY <3>1
    <3>3. dependents'[b] = [dependents[b] EXCEPT ![id] = deps[b]]
      BY <2>2, <1>3, <3>2
    <3> QED
      BY <3>1, <3>3, <2>2, <1>4 DEF Lists
  <2> QED
    BY <2>1, <2>2
<1>6. dependents' = [b \in GoalIDs |-> dependents'[b]]
  BY DEF AddNode
<1>7. TypeOK'
  BY <1>1, <1>5, <1>6 DEF GraphInv, TypeOK
<1>8. EdgesMirrored'
  <2> SUFFICES ASSUME NEW a \in GoalIDs, NEW b \in GoalIDs
               PROVE  /\ dependents'[b][a] > 0 => a \in nodes' /\ b \in nodes'
                      /\ dependees'[a][b] > 0 => a \in nodes'
                      /\ dependents'[b][a] <= dependees'[a][b]
    BY DEF EdgesMirrored
  <2>1. /\ dependents[b][a] > 0 => a \in nodes /\ b \in nodes
        /\ dependees[a][b] > 0 => a \in nodes
        /\ dependents[b][a] <= dependees[a][b]
    BY DEF GraphInv, EdgesMirrored
  <2>2. deps[b] \in Nat /\ dependents[b][a] \in Nat /\ dependees[a][b] \in Nat
    BY DEF GraphInv, TypeOK, Lists
  <2>3. CASE a = id
    BY <2>1, <2>2, <2>3, <1>1, <1>2, <1>5
  <2>4. CASE a # id
    BY <2>1, <2>2, <2>4, <1>1, <1>5
  <2> QED
    BY <2>3, <2>4
<1> QED
  BY <1>7, <1>8 DEF GraphInv

LEMMA AddDependencyInv ==
  ASSUME GraphInv, NEW from \in GoalIDs, NEW to \in GoalIDs, AddDependency(from, to)
  PROVE  GraphInv'
<1> USE GraphAssumption
<1>1. /\ nodes' = nodes \cup {from, to}
      /\ dependees[from] \in Lists /\ dependents[to] \in Lists
      /\ dependees[from][to] < MaxCopies /\ dependents[to][from] < MaxCopies
      /\ dependees'  = [dependees EXCEPT ![from] = [dependees[from] EXCEPT ![to] = dependees[from][to] + 1]]
      /\ dependents' = [dependents EXCEPT ![to] = [dependents[to] EXCEPT ![from] = dependents[to][from] + 1]]
  BY DEF GraphInv, TypeOK, AddDependency
<1>2. /\ [dependees[from] EXCEPT ![to] = dependees[from][to] + 1] \in Lists
      /\ [dependents[to] EXCEPT ![from] = dependents[to][from] + 1] \in Lists
  BY <1>1 DEF Lists
<1>3. TypeOK'
  BY <1>1, <1>2 DEF GraphInv, TypeOK
<1>4. EdgesMirrored'
  <2> SUFFICES ASSUME NEW a \in GoalIDs, NEW b \in GoalIDs
               PROVE  /\ dependents'[b][a] > 0 => a \in nodes' /\ b \in nodes'
                      /\ dependees'[a][b] > 0 => a \in nodes'
                      /\ dependents'[b][a] <= dependees'[a][b]
    BY DEF EdgesMirrored
  <2>1. /\ dependents[b][a] > 0 => a \in nodes /\ b \in nodes
        /\ dependees[a][b] > 0 => a \in nodes
        /\ dependents[b][a] <= dependees[a][b]
        /\ dependents[b][a] \in Nat /\ dependees[a][b] \in Nat
    BY DEF GraphInv, EdgesMirrored, TypeOK, Lists
  <2>2. /\ dependees'[a][b] = IF a = from /\ b = to THEN dependees[a][b] + 1
                                                    ELSE dependees[a][b]
        /\ dependents'[b][a] = IF a = from /\ b = to THEN dependents[b][a] + 1
                                                     ELSE dependents[b][a]
    BY <1>1 DEF GraphInv, TypeOK, Lists
  <2> QED
    BY <2>1, <2>2, <1>1
<1> QED
  BY <1>3, <1>4 DEF GraphInv

\* What a removal leaves of a list.
LEMMA FewerList ==
  ASSUME NEW list \in Lists, NEW id \in GoalIDs, NEW count \in Nat
  PROVE  /\ Fewer(list, id, count) \in Lists
         /\ \A g \in GoalIDs :
              Fewer(list, id, count)[g] =
                IF g = id THEN (IF list[g] > count THEN list[g] - count ELSE 0) ELSE list[g]
  BY GraphAssumption DEF Fewer, Lists

LEMMA RemoveNodeInv ==
  ASSUME GraphInv, NEW id \in GoalIDs, RemoveNode(id)
  PROVE  GraphInv'
<1> USE GraphAssumption
<1>1. /\ nodes' = nodes \ {id}
      /\ \A a \in GoalIDs : dependees[a] \in Lists /\ dependents[a] \in Lists
      /\ \A a, b \in GoalIDs : dependees[a][b] \in Nat /\ dependents[a][b] \in Nat
  BY DEF GraphInv, TypeOK, Lists, RemoveNode
<1>2. /\ dependees' = [a \in GoalIDs |-> dependees'[a]]
      /\ dependents' = [b \in GoalIDs |-> dependents'[b]]
  BY DEF RemoveNode
<1>3. ASSUME NEW a \in GoalIDs
      PROVE  /\ dependees'[a] \in Lists
             /\ a = id => \A b \in GoalIDs : dependees'[a][b] = 0
             /\ a # id => \A b \in GoalIDs :
                  dependees'[a][b] =
                    IF b = id /\ a \in nodes
                    THEN (IF dependees[a][id] > dependents[id][a]
                          THEN dependees[a][id] - dependents[id][a] ELSE 0)
                    ELSE dependees[a][b]
  <2>1. dependees'[a] = IF a = id THEN NoGoals
                        ELSE IF a \in nodes THEN Fewer(dependees[a], id, dependents[id][a])
                        ELSE dependees[a]
    BY DEF RemoveNode
  <2>2. CASE a = id
    BY <2>1, <2>2, NoGoalsList DEF NoGoals
  <2>3. CASE a # id /\ a \in nodes
    <3>1. dependees'[a] = Fewer(dependees[a], id, dependents[id][a])
      BY <2>1, <2>3
    <3>2. dependees[a] \in Lists /\ dependents[id][a] \in Nat
      BY <1>1
    <3> DEFINE list == dependees[a]
               count == dependents[id][a]
    <3>3. list \in Lists /\ count \in Nat
      BY <3>2
    <3> HIDE DEF list, count
    <3>4. /\ Fewer(list, id, count) \in Lists
          /\ \A g \in GoalIDs :
               Fewer(list, id, count)[g] =
                 IF g = id THEN (IF list[g] > count THEN list[g] - count ELSE 0) ELSE list[g]
      BY <3>3, FewerList
    <3> QED
      BY <3>1, <3>4, <2>3 DEF list, count
  <2>4. CASE a # id /\ a \notin nodes
    BY <2>1, <2>4, <1>1
  <2> QED
    BY <2>2, <2>3, <2>4
<1>4. ASSUME NEW b \in GoalIDs
      PROVE  /\ dependents'[b] \in Lists
             /\ b = id => \A a \in GoalIDs : dependents'[b][a] = 0
             /\ b # id => \A a \in GoalIDs :
                  dependents'[b][a] =
                    IF a = id /\ b \in nodes
                    THEN (IF dependents[b][id] > dependees[id][b]
                          THEN dependents[b][id] - dependees[id][b] ELSE 0)
                    ELSE dependents[b][a]
  <2>1. dependents'[b] = IF b = id THEN NoGoals
                         ELSE IF b \in nodes THEN Fewer(dependents[b], id, dependees[id][b])
                         ELSE dependents[b]
    BY DEF RemoveNode
  <2>2. CASE b = id
    BY <2>1, <2>2, NoGoalsList DEF NoGoals
  <2>3. CASE b # id /\ b \in nodes
    <3>1. dependents'[b] = Fewer(dependents[b], id, dependees[id][b])
      BY <2>1, <2>3
    <3>2. dependents[b] \in Lists /\ dependees[id][b] \in Nat
      BY <1>1
    <3> DEFINE list == dependents[b]
               count == dependees[id][b]
    <3>3. list \in Lists /\ count \in Nat
      BY <3>2
    <3> HIDE DEF list, count
    <3>4. /\ Fewer(list, id, count) \in Lists
          /\ \A g \in GoalIDs :
               Fewer(list, id, count)[g] =
                 IF g = id THEN (IF list[g] > count THEN list[g] - count ELSE 0) ELSE list[g]
      BY <3>3, FewerList
    <3> QED
      BY <3>1, <3>4, <2>3 DEF list, count
  <2>4. CASE b # id /\ b \notin nodes
    BY <2>1, <2>4, <1>1
  <2> QED
    BY <2>2, <2>3, <2>4
<1>5. TypeOK'
  BY <1>1, <1>2, <1>3, <1>4 DEF GraphInv, TypeOK
<1>6. EdgesMirrored'
  <2> SUFFICES ASSUME NEW a \in GoalIDs, NEW b \in GoalIDs
               PROVE  /\ dependents'[b][a] > 0 => a \in nodes' /\ b \in nodes'
                      /\ dependees'[a][b] > 0 => a \in nodes'
                      /\ dependents'[b][a] <= dependees'[a][b]
    BY DEF EdgesMirrored
  <2>1. /\ dependents[b][a] > 0 => a \in nodes /\ b \in nodes
        /\ dependees[a][b] > 0 => a \in nodes
        /\ dependents[b][a] <= dependees[a][b]
    BY DEF GraphInv, EdgesMirrored
  <2>2. dependents[b][id] <= dependees[id][b]
    BY DEF GraphInv, EdgesMirrored
  <2>3. CASE a = id
    <3>1. dependents'[b][a] = 0
      BY <2>1, <2>2, <2>3, <1>1, <1>4
    <3>2. dependees'[a][b] = 0
      BY <2>3, <1>3
    <3> QED
      BY <3>1, <3>2
  <2>4. CASE a # id /\ b = id
    <3>1. dependents'[b][a] = 0 /\ dependees'[a][b] \in Nat
      BY <2>4, <1>3, <1>4 DEF Lists
    <3>2. dependees'[a][b] > 0 => a \in nodes'
      BY <2>1, <2>4, <1>1, <1>3
    <3> QED
      BY <3>1, <3>2
  <2>5. CASE a # id /\ b # id
    BY <2>1, <2>5, <1>1, <1>3, <1>4
  <2> QED
    BY <2>3, <2>4, <2>5
<1> QED
  BY <1>5, <1>6 DEF GraphInv

LEMMA GraphNext == GraphInv /\ (Next \/ UNCHANGED vars) => GraphInv'
<1> SUFFICES ASSUME GraphInv, Next \/ UNCHANGED vars PROVE GraphInv'
  OBVIOUS
<1>1. CASE UNCHANGED vars
  BY <1>1 DEF vars, GraphInv, TypeOK, EdgesMirrored
<1>2. ASSUME NEW id \in GoalIDs, NEW deps \in Lists, AddNode(id, deps) PROVE GraphInv'
  BY <1>2, AddNodeInv
<1>3. ASSUME NEW id \in GoalIDs, AddGoal(id) PROVE GraphInv'
  BY <1>3, AddNodeInv, NoGoalsList DEF AddGoal
<1>4. ASSUME NEW id \in GoalIDs, NEW to \in GoalIDs, AddDependency(id, to) PROVE GraphInv'
  BY <1>4, AddDependencyInv
<1>5. ASSUME NEW id \in GoalIDs, RemoveNode(id) PROVE GraphInv'
  BY <1>5, RemoveNodeInv
<1> QED
  BY <1>1, <1>2, <1>3, <1>4, <1>5 DEF Next

\* planner.go:34-119: an edge is listed by both ends or by the dependent end only, after
\* any sequence of additions and removals, and no list outgrows what was put in.
THEOREM GraphCorrect == SurroundingsSpec => [](TypeOK /\ EdgesMirrored)
<1>1. SurroundingsInit => GraphInv
  BY GraphInit DEF SurroundingsInit
<1>2. GraphInv /\ [SurroundingsNext /\ UNCHANGED part]_<<part, surroundings>> => GraphInv'
  BY StepsOfParts, GraphNext
<1>3. GraphInv => TypeOK /\ EdgesMirrored
  BY DEF GraphInv
<1> QED
  BY <1>1, <1>2, <1>3, PTL DEF SurroundingsSpec

-----------------------------------------------------------------------------
(* The cluster. *)

\* Until something was exposed the local node, which has its map, is the only member, and
\* every placing and replication under way is on its way to it.
ClusterInv ==
  /\ Local \in hasMap
  /\ placing \in [Goals -> Nodes \cup {C!Nowhere}]
  /\ replicating \in [Goals -> SUBSET Nodes]
  /\ members \subseteq Nodes /\ leaderID \in Nodes
  /\ holds \in [Nodes -> SUBSET Goals]
  /\ exposed = {} => /\ members = {Local} /\ ~crashed
                     /\ \A g \in Goals : /\ placing[g] \in {Local, C!Nowhere}
                                         /\ replicating[g] \subseteq {Local}

\* NewCluster establishes the invariant.
LEMMA ClusterInit == C!Init => ClusterInv
  BY SurroundingsAssumption DEF C!Init, ClusterInv

\* Putting a goal on the local node does not panic.
LEMMA PutInv ==
  ASSUME ClusterInv, NEW g \in Goals, NEW n \in Nodes, C!Put(g, n)
  PROVE  /\ holds' \in [Nodes -> SUBSET Goals]
         /\ n = Local => crashed' = crashed
  BY DEF C!Put, ClusterInv

\* Cardinality is the same in every module.
LEMMA SameCardinality ==
  \A s : /\ C!Cardinality(s) = Cardinality(s) /\ S!Cardinality(s) = Cardinality(s)
        /\ RP!Cardinality(s) = Cardinality(s)
  BY DEF C!Cardinality, S!Cardinality, RP!Cardinality, RP!IsFiniteSet, Cardinality, IsFiniteSet

\* Alone, the local node is what every hash leads to.
LEMMA AloneRoutes ==
  ASSUME members = {Local}, NEW g \in Goals
  PROVE  ~C!MayMiss(g) /\ C!RoutedByHash(g) = {Local}
<1> USE SurroundingsAssumption
<1>1. C!Cardinality({Local}) = 1
  BY FS_Singleton, SameCardinality
<1>2. ~C!MayMiss(g)
  BY <1>1 DEF C!MayMiss
<1> QED BY <1>2 DEF C!RoutedByHash

\* Every operation keeps the invariant.
LEMMA ClusterNext ==
  ASSUME ClusterInv, C!Next
  PROVE  ClusterInv'
<1> USE SurroundingsAssumption
<1>1. ASSUME NEW id \in Nodes \ {Local}, C!AddNode(id) PROVE ClusterInv'
  BY <1>1 DEF C!AddNode, ClusterInv
<1>2. ASSUME NEW id \in Nodes, C!RemoveNode(id) PROVE ClusterInv'
  BY <1>2 DEF C!RemoveNode, ClusterInv
<1>3. CASE C!ElectLeader
  <2>1. leaderID' \in Nodes
    BY <1>3 DEF C!ElectLeader, C!Fullest, ClusterInv
  <2> QED BY <1>3, <2>1 DEF C!ElectLeader, ClusterInv
<1>4. ASSUME NEW g \in Goals, C!Route(g) PROVE ClusterInv'
  <2>1. PICK n \in C!RoutedByHash(g) :
          IF n = C!Nowhere THEN crashed' = TRUE /\ UNCHANGED placing
          ELSE placing' = [placing EXCEPT ![g] = n] /\ UNCHANGED crashed
    BY <1>4 DEF C!Route
  <2>2. n \in Nodes \cup {C!Nowhere}
    BY DEF C!RoutedByHash, C!GetLeader, ClusterInv
  <2>3. placing' \in [Goals -> Nodes \cup {C!Nowhere}]
    BY <2>1, <2>2 DEF ClusterInv
  <2>4. ASSUME exposed = {} PROVE ~crashed' /\ \A h \in Goals : placing'[h] \in {Local, C!Nowhere}
    <3>1. n = Local
      BY <2>4, AloneRoutes DEF ClusterInv
    <3> QED BY <2>1, <2>4, <3>1 DEF ClusterInv
  <2> QED BY <1>4, <2>3, <2>4 DEF C!Route, ClusterInv
<1>5. ASSUME NEW g \in Goals, C!Place(g) PROVE ClusterInv'
  <2>1. placing[g] \in Nodes /\ C!Put(g, placing[g])
    BY <1>5 DEF C!Place, ClusterInv
  <2>2. holds' \in [Nodes -> SUBSET Goals] /\ (exposed = {} => crashed' = crashed)
    BY <1>5, <2>1, PutInv DEF C!Place, ClusterInv
  <2> QED BY <1>5, <2>2 DEF C!Place, ClusterInv
<1>6. ASSUME NEW g \in Goals, C!RouteByGoal(g) PROVE ClusterInv'
  BY <1>6 DEF C!RouteByGoal, ClusterInv
<1>7. ASSUME NEW g \in Goals, NEW factor \in 1..2, C!ReplicateGoal(g, factor) PROVE ClusterInv'
  <2>1. CASE (members = {} \/ C!MayMiss(g)) /\ crashed' = TRUE /\ UNCHANGED replicating
    <3>1. exposed # {}
      BY <2>1, AloneRoutes DEF ClusterInv
    <3> QED BY <1>7, <2>1, <3>1 DEF C!ReplicateGoal, ClusterInv
  <2>2. ASSUME NEW ns \in SUBSET members, UNCHANGED crashed,
               replicating' = [replicating EXCEPT ![g] = ns]
        PROVE  ClusterInv'
    BY <1>7, <2>2 DEF C!ReplicateGoal, ClusterInv
  <2> QED BY <1>7, <2>1, <2>2 DEF C!ReplicateGoal
<1>8. ASSUME NEW g \in Goals, NEW n \in Nodes, C!Replicate(g, n) PROVE ClusterInv'
  <2>1. holds' \in [Nodes -> SUBSET Goals] /\ (exposed = {} => crashed' = crashed)
    BY <1>8, PutInv DEF C!Replicate, ClusterInv
  <2> QED BY <1>8, <2>1 DEF C!Replicate, ClusterInv
<1>9. CASE C!Shutdown
  BY <1>9 DEF C!Shutdown, ClusterInv
<1> QED BY <1>1, <1>2, <1>3, <1>4, <1>5, <1>6, <1>7, <1>8, <1>9 DEF C!Next

LEMMA ClusterHolds == SurroundingsSpec => []ClusterInv
<1>1. SurroundingsInit => ClusterInv
  BY ClusterInit DEF SurroundingsInit
<1>2. ClusterInv /\ UNCHANGED clusterVars => ClusterInv'
  BY DEF clusterVars, ClusterInv
<1>3. ClusterInv /\ [SurroundingsNext /\ UNCHANGED part]_<<part, surroundings>> => ClusterInv'
  BY <1>2, StepsOfParts, ClusterNext
<1> QED BY <1>1, <1>3, PTL DEF SurroundingsSpec

\* cluster.go:183-188,192,233-275: the cluster the program builds, the local node alone,
\* panics on no goal, whatever its hash, unless a routing by type or priority meets a write.
THEOREM PanicExplainedCorrect == SurroundingsSpec => []PanicExplained
<1>1. ClusterInv => PanicExplained
  BY DEF ClusterInv, PanicExplained, C!PanicExplained
<1> QED BY <1>1, ClusterHolds, PTL

-----------------------------------------------------------------------------
(* The scheduler's loops.  That at most one runs needs to be known of each *)
(* stage of a Run or Stop: who is starting has a loop that is made and not *)
(* counted yet, a loop selects on the channel in the field, and that is    *)
(* closed only while a Stop waits.                                         *)

LoopStates == [at : {"made", "top", "select", "gone"}, on : Nat]

Calling(what) == \E c \in Callers : caller[c] = what

LoopsTyped ==
  /\ loops \in Seq(LoopStates)
  /\ stopCh \in 0..Len(loops) /\ closed \subseteq 1..Len(loops)
  /\ caller \in [Callers -> {"idle", "starting", "stopping"}]
  /\ running \in BOOLEAN /\ overlapped \in BOOLEAN /\ panicked \in BOOLEAN

OneCallAtATime ==
  /\ ~panicked
  /\ \A c, d \in Callers : caller[c] # "idle" /\ caller[d] # "idle" => c = d

LoopOfStage ==
  /\ \A n \in DOMAIN loops : n # Len(loops) => loops[n].at = "gone"
  /\ \A n \in DOMAIN loops : loops[n].at = "made" => Calling("starting")
  /\ Calling("starting") =>
       running /\ \E n \in DOMAIN loops : loops[n].at = "made"
  /\ Calling("stopping") => ~running
  /\ (\A c \in Callers : caller[c] = "idle") =>
       (running <=> \E n \in DOMAIN loops : loops[n].at # "gone")

ChannelOfStage ==
  /\ \A n \in DOMAIN loops : loops[n].at = "select" => loops[n].on = stopCh
  /\ stopCh \in closed => Calling("stopping")

LoopsInv == LoopsTyped /\ (~overlapped => OneCallAtATime /\ LoopOfStage /\ ChannelOfStage)

LEMMA LoopsInit == S!Init => LoopsInv
<1> SUFFICES ASSUME S!Init PROVE LoopsInv
  OBVIOUS
<1>1. /\ loops = << >> /\ stopCh = 0 /\ closed = {} /\ running = FALSE /\ overlapped = FALSE
      /\ panicked = FALSE /\ caller = [c \in Callers |-> "idle"]
  BY DEF S!Init
<1>2. LoopsTyped
  <2>1. loops \in Seq(LoopStates) /\ Len(loops) = 0
    BY <1>1
  <2>2. stopCh \in 0..Len(loops) /\ closed \subseteq 1..Len(loops)
    BY <1>1, <2>1
  <2>3. caller \in [Callers -> {"idle", "starting", "stopping"}]
    BY <1>1
  <2>4. running \in BOOLEAN /\ overlapped \in BOOLEAN /\ panicked \in BOOLEAN
    BY <1>1, Zenon
  <2> QED BY <2>1, <2>2, <2>3, <2>4, Zenon DEF LoopsTyped
<1>3. OneCallAtATime /\ ChannelOfStage
  BY <1>1 DEF OneCallAtATime, ChannelOfStage
<1>4. LoopOfStage
  BY <1>1 DEF LoopOfStage, Calling
<1> QED BY <1>2, <1>3, <1>4 DEF LoopsInv

LEMMA LoopsUnchanged ==
  ASSUME LoopsInv, UNCHANGED S!control
  PROVE  LoopsInv'
  BY DEF LoopsInv, LoopsTyped, OneCallAtATime, LoopOfStage, ChannelOfStage, LoopStates, Calling,
         S!control

\* Who begins a call while nobody else calls is alone.
LEMMA BeginAlone ==
  ASSUME LoopsInv, NEW c \in Callers, NEW to \in {"starting", "stopping"}, S!Begin(c, to)
  PROVE  /\ caller' \in [Callers -> {"idle", "starting", "stopping"}]
         /\ overlapped' \in BOOLEAN
         /\ ~overlapped' => /\ ~overlapped /\ \A d \in Callers : caller[d] = "idle"
                            /\ \A d \in Callers : caller'[d] = IF d = c THEN to ELSE "idle"
<1>1. overlapped' = (overlapped \/ \E d \in Callers : caller[d] # "idle")
  BY DEF S!Begin
<1>2. overlapped' \in BOOLEAN
  BY <1>1, Zenon
<1>3. ~overlapped' => ~overlapped /\ \A d \in Callers : caller[d] = "idle"
  BY <1>1, Zenon
<1>4. caller' = [caller EXCEPT ![c] = to]
  BY DEF S!Begin
<1> QED BY <1>2, <1>3, <1>4 DEF LoopsInv, LoopsTyped

LEMMA RunBeginInv ==
  ASSUME LoopsInv, NEW c \in Callers, S!RunBegin(c)
  PROVE  LoopsInv'
<1>1. /\ S!Begin(c, "starting") /\ ~running /\ running' = TRUE /\ stopCh' = Len(loops) + 1
      /\ loops' = Append(loops, [at |-> "made", on |-> 0])
      /\ closed' = closed /\ panicked' = panicked
  BY DEF S!RunBegin
<1>2. [at |-> "made", on |-> 0] \in LoopStates
  BY DEF LoopStates
<1>3. /\ loops' \in Seq(LoopStates) /\ Len(loops') = Len(loops) + 1
      /\ \A n \in 1..Len(loops) : loops'[n] = loops[n]
      /\ loops'[Len(loops) + 1] = [at |-> "made", on |-> 0]
  BY <1>1, <1>2 DEF LoopsInv, LoopsTyped
<1>4. LoopsTyped'
  BY <1>1, <1>3, BeginAlone DEF LoopsInv, LoopsTyped
<1>5. ASSUME ~overlapped' PROVE OneCallAtATime' /\ LoopOfStage' /\ ChannelOfStage'
  <2>1. /\ ~overlapped /\ \A d \in Callers : caller[d] = "idle"
        /\ \A d \in Callers : caller'[d] = IF d = c THEN "starting" ELSE "idle"
    BY <1>1, <1>5, BeginAlone
  <2>2. \A n \in 1..Len(loops) : loops[n].at = "gone"
    BY <1>1, <2>1 DEF LoopsInv, LoopsTyped, LoopOfStage
  <2>3. \A n \in DOMAIN loops' : n \in 1..Len(loops) \/ n = Len(loops) + 1
    BY <1>3 DEF LoopsInv, LoopsTyped
  <2>4. Calling("starting")' /\ ~Calling("stopping")'
    BY <2>1 DEF Calling
  <2>5. OneCallAtATime'
    BY <1>1, <2>1 DEF LoopsInv, OneCallAtATime
  <2>6. LoopOfStage'
    <3>1. Len(loops) + 1 \in DOMAIN loops'
      BY <1>3 DEF LoopsInv, LoopsTyped
    <3> QED BY <1>1, <1>3, <2>1, <2>2, <2>3, <2>4, <3>1 DEF LoopOfStage
  <2>7. stopCh' \notin closed'
    BY <1>1 DEF LoopsInv, LoopsTyped
  <2> QED BY <1>3, <2>2, <2>3, <2>5, <2>6, <2>7 DEF ChannelOfStage
<1> QED BY <1>4, <1>5 DEF LoopsInv

\* A loop that moves on within a stage, or ends.
LEMMA LoopMoves ==
  ASSUME LoopsInv, NEW n \in DOMAIN loops, NEW l \in LoopStates,
         loops' = [loops EXCEPT ![n] = l]
  PROVE  /\ loops' \in Seq(LoopStates) /\ Len(loops') = Len(loops)
         /\ DOMAIN loops' = DOMAIN loops
         /\ \A m \in DOMAIN loops : loops'[m] = IF m = n THEN l ELSE loops[m]
  BY DEF LoopsInv, LoopsTyped

LEMMA RunEndInv ==
  ASSUME LoopsInv, NEW c \in Callers, S!RunEnd(c)
  PROVE  LoopsInv'
<1>1. PICK n \in DOMAIN loops : loops[n].at = "made" /\ loops' = [loops EXCEPT ![n].at = "top"]
  BY DEF S!RunEnd
<1>2. /\ caller[c] = "starting" /\ caller' = [caller EXCEPT ![c] = "idle"]
      /\ running' = running /\ stopCh' = stopCh /\ closed' = closed
      /\ overlapped' = overlapped /\ panicked' = panicked
  BY DEF S!RunEnd
<1> DEFINE l == [loops[n] EXCEPT !.at = "top"]
<1>3. l \in LoopStates /\ l.at = "top"
  <2>1. loops[n] \in LoopStates
    BY DEF LoopsInv, LoopsTyped
  <2> QED BY <2>1 DEF LoopStates
<1>4. loops' = [loops EXCEPT ![n] = l]
  BY <1>1
<1> HIDE DEF l
<1>5. /\ loops' \in Seq(LoopStates) /\ Len(loops') = Len(loops) /\ DOMAIN loops' = DOMAIN loops
      /\ \A m \in DOMAIN loops : loops'[m] = IF m = n THEN l ELSE loops[m]
  BY <1>3, <1>4, LoopMoves
<1>6. /\ caller' \in [Callers -> {"idle", "starting", "stopping"}]
      /\ \A d \in Callers : caller'[d] = IF d = c THEN "idle" ELSE caller[d]
  BY <1>2 DEF LoopsInv, LoopsTyped
<1>7. LoopsTyped'
  BY <1>2, <1>5, <1>6 DEF LoopsInv, LoopsTyped
<1>8. ASSUME ~overlapped' PROVE OneCallAtATime' /\ LoopOfStage' /\ ChannelOfStage'
  <2>1. OneCallAtATime /\ LoopOfStage /\ ChannelOfStage
    BY <1>2, <1>8 DEF LoopsInv
  <2>2. \A d \in Callers : d # c => caller[d] = "idle"
    BY <1>2, <2>1 DEF OneCallAtATime
  <2>3. \A d \in Callers : caller'[d] = "idle"
    BY <1>6, <2>2
  <2>4. /\ n = Len(loops) /\ running
        /\ \A m \in DOMAIN loops : m # n => loops[m].at = "gone"
    BY <1>1, <1>2, <2>1 DEF LoopOfStage, Calling
  <2>5. ~Calling("starting")' /\ ~Calling("stopping")' /\ ~Calling("stopping")
    BY <1>2, <2>2, <2>3 DEF Calling
  <2>6. OneCallAtATime'
    BY <1>2, <2>1, <2>3 DEF OneCallAtATime
  <2>7. LoopOfStage'
    <3>1. \A m \in DOMAIN loops' : loops'[m].at = IF m = n THEN "top" ELSE "gone"
      BY <1>3, <1>5, <2>4
    <3> QED BY <1>2, <1>5, <2>3, <2>4, <2>5, <3>1 DEF LoopOfStage
  <2>8. ChannelOfStage'
    BY <1>2, <1>3, <1>5, <2>1, <2>5 DEF ChannelOfStage
  <2> QED BY <2>6, <2>7, <2>8
<1> QED BY <1>7, <1>8 DEF LoopsInv

\* A loop that is counted comes back to its select, ticks, or ends on a closed channel.
LEMMA LoopStepInv ==
  ASSUME LoopsInv, NEW n \in DOMAIN loops, S!LoopSelect(n) \/ S!LoopTick(n) \/ S!LoopExit(n)
  PROVE  LoopsInv'
<1>1. /\ caller' = caller /\ running' = running /\ stopCh' = stopCh /\ closed' = closed
      /\ overlapped' = overlapped /\ panicked' = panicked
  BY DEF S!LoopSelect, S!LoopTick, S!LoopExit
<1>2. PICK l \in LoopStates :
        /\ loops' = [loops EXCEPT ![n] = l]
        /\ loops[n].at \in {"top", "select"} /\ l.at \in {"top", "select", "gone"}
        /\ l.at = "select" => l.on = stopCh
        /\ l.at = "gone" => loops[n].at = "select" /\ loops[n].on \in closed
  <2>1. /\ [at |-> "select", on |-> stopCh] \in LoopStates
        /\ [at |-> "top", on |-> 0] \in LoopStates /\ [at |-> "gone", on |-> 0] \in LoopStates
    BY DEF LoopStates, LoopsInv, LoopsTyped
  <2> QED BY <2>1 DEF S!LoopSelect, S!LoopTick, S!LoopExit
<1>3. /\ loops' \in Seq(LoopStates) /\ Len(loops') = Len(loops) /\ DOMAIN loops' = DOMAIN loops
      /\ \A m \in DOMAIN loops : loops'[m] = IF m = n THEN l ELSE loops[m]
  BY <1>2, LoopMoves
<1>4. LoopsTyped'
  BY <1>1, <1>3 DEF LoopsInv, LoopsTyped
<1>5. ASSUME ~overlapped' PROVE OneCallAtATime' /\ LoopOfStage' /\ ChannelOfStage'
  <2>1. OneCallAtATime /\ LoopOfStage /\ ChannelOfStage
    BY <1>1, <1>5 DEF LoopsInv
  <2>2. Calling("starting")' = Calling("starting") /\ Calling("stopping")' = Calling("stopping")
    BY <1>1 DEF Calling
  <2>3. n = Len(loops) /\ \A m \in DOMAIN loops : m # n => loops[m].at = "gone"
    BY <1>2, <2>1 DEF LoopOfStage
  <2>4. ~Calling("starting")
    BY <1>2, <2>1, <2>3 DEF LoopOfStage
  <2>5. l.at = "gone" => Calling("stopping")
    BY <1>2, <2>1 DEF ChannelOfStage
  <2>6. OneCallAtATime'
    BY <1>1, <2>1 DEF OneCallAtATime
  <2>7. LoopOfStage'
    <3>1. \A m \in DOMAIN loops' : loops'[m].at = IF m = n THEN l.at ELSE "gone"
      BY <1>3, <2>3
    <3>2. (\A c \in Callers : caller'[c] = "idle") =>
            (running' <=> \E m \in DOMAIN loops' : loops'[m].at # "gone")
      <4> SUFFICES ASSUME \A c \in Callers : caller[c] = "idle" PROVE running /\ l.at # "gone"
        BY <1>1, <1>3, <3>1
      <4>1. l.at # "gone"
        BY <2>5 DEF Calling
      <4>2. running
        BY <1>2, <2>1 DEF LoopOfStage
      <4> QED BY <4>1, <4>2
    <3> QED BY <1>1, <1>2, <1>3, <2>1, <2>2, <2>3, <2>4, <3>1, <3>2 DEF LoopOfStage
  <2>8. ChannelOfStage'
    BY <1>1, <1>2, <1>3, <2>1, <2>2 DEF ChannelOfStage
  <2> QED BY <2>6, <2>7, <2>8
<1> QED BY <1>4, <1>5 DEF LoopsInv

LEMMA StopBeginInv ==
  ASSUME LoopsInv, NEW c \in Callers, S!StopBegin(c)
  PROVE  LoopsInv'
<1>1. /\ S!Begin(c, "stopping") /\ running' = FALSE /\ panicked' = (stopCh \in closed)
      /\ closed' = closed \cup ({stopCh} \ {0}) /\ stopCh' = stopCh /\ loops' = loops
  BY DEF S!StopBegin
<1>2. LoopsTyped'
  <2>1. closed' \subseteq 1..Len(loops')
    BY <1>1 DEF LoopsInv, LoopsTyped
  <2>2. running' \in BOOLEAN
    BY <1>1
  <2>3. panicked' \in BOOLEAN
    BY <1>1
  <2> QED BY <1>1, <2>1, <2>2, <2>3, BeginAlone DEF LoopsInv, LoopsTyped
<1>3. ASSUME ~overlapped' PROVE OneCallAtATime' /\ LoopOfStage' /\ ChannelOfStage'
  <2>1. /\ ~overlapped /\ \A d \in Callers : caller[d] = "idle"
        /\ \A d \in Callers : caller'[d] = IF d = c THEN "stopping" ELSE "idle"
    BY <1>1, <1>3, BeginAlone
  <2>2. OneCallAtATime /\ LoopOfStage /\ ChannelOfStage
    BY <2>1 DEF LoopsInv
  <2>3. ~Calling("starting") /\ ~Calling("stopping")
    BY <2>1 DEF Calling
  <2>4. ~Calling("starting")' /\ Calling("stopping")'
    BY <2>1 DEF Calling
  <2>5. ~panicked'
    BY <1>1, <2>2, <2>3 DEF ChannelOfStage
  <2>6. OneCallAtATime'
    BY <2>1, <2>5 DEF OneCallAtATime
  <2>7. LoopOfStage'
    <3>1. ~(\A d \in Callers : caller'[d] = "idle")
      BY <2>1
    <3> QED BY <1>1, <2>2, <2>3, <2>4, <3>1 DEF LoopOfStage
  <2>8. ChannelOfStage'
    BY <1>1, <2>2, <2>4 DEF ChannelOfStage
  <2> QED BY <2>6, <2>7, <2>8
<1> QED BY <1>2, <1>3 DEF LoopsInv

LEMMA StopEndInv ==
  ASSUME LoopsInv, NEW c \in Callers, S!StopEnd(c)
  PROVE  LoopsInv'
<1>1. /\ caller[c] = "stopping" /\ S!Counted = {} /\ caller' = [caller EXCEPT ![c] = "idle"]
      /\ running' = FALSE /\ stopCh' = 0 /\ closed' = closed /\ loops' = loops
      /\ overlapped' = overlapped /\ panicked' = panicked
  BY DEF S!StopEnd
<1>2. /\ caller' \in [Callers -> {"idle", "starting", "stopping"}]
      /\ \A d \in Callers : caller'[d] = IF d = c THEN "idle" ELSE caller[d]
  BY <1>1 DEF LoopsInv, LoopsTyped
<1>3. LoopsTyped'
  <2>1. /\ loops' \in Seq(LoopStates) /\ stopCh' \in 0..Len(loops')
        /\ closed' \subseteq 1..Len(loops')
    BY <1>1 DEF LoopsInv, LoopsTyped
  <2>2. running' \in BOOLEAN /\ overlapped' \in BOOLEAN /\ panicked' \in BOOLEAN
    BY <1>1, Zenon DEF LoopsInv, LoopsTyped
  <2> QED BY <1>2, <2>1, <2>2 DEF LoopsTyped
<1>4. ASSUME ~overlapped' PROVE OneCallAtATime' /\ LoopOfStage' /\ ChannelOfStage'
  <2>1. OneCallAtATime /\ LoopOfStage /\ ChannelOfStage
    BY <1>1, <1>4 DEF LoopsInv
  <2>2. \A d \in Callers : d # c => caller[d] = "idle"
    BY <1>1, <2>1 DEF OneCallAtATime
  <2>3. \A d \in Callers : caller'[d] = "idle"
    BY <1>2, <2>2
  <2>4. ~Calling("starting") /\ ~Calling("starting")' /\ ~Calling("stopping")'
    BY <1>1, <2>2, <2>3 DEF Calling
  <2>5. \A n \in DOMAIN loops : loops[n].at = "gone"
    BY <1>1, <2>1, <2>4 DEF S!Counted, LoopOfStage
  <2>6. OneCallAtATime'
    BY <1>1, <2>1, <2>3 DEF OneCallAtATime
  <2>7. LoopOfStage'
    BY <1>1, <2>4, <2>5 DEF LoopOfStage
  <2>8. ChannelOfStage'
    BY <1>1, <2>5 DEF ChannelOfStage, LoopsInv, LoopsTyped
  <2> QED BY <2>6, <2>7, <2>8
<1> QED BY <1>3, <1>4 DEF LoopsInv

LEMMA LoopsNext == LoopsInv /\ (S!Next \/ UNCHANGED schedulerVars) => LoopsInv'
<1> SUFFICES ASSUME LoopsInv, S!Next \/ UNCHANGED schedulerVars PROVE LoopsInv'
  OBVIOUS
<1>1. CASE UNCHANGED S!control
  BY <1>1, LoopsUnchanged
<1>2. ASSUME NEW c \in Callers, S!RunBegin(c) \/ S!RunEnd(c) \/ S!StopBegin(c) \/ S!StopEnd(c)
      PROVE  LoopsInv'
  BY <1>2, RunBeginInv, RunEndInv, StopBeginInv, StopEndInv
<1>3. ASSUME NEW n \in DOMAIN loops, S!LoopSelect(n) \/ S!LoopTick(n) \/ S!LoopExit(n)
      PROVE  LoopsInv'
  BY <1>3, LoopStepInv
<1>4. UNCHANGED schedulerVars => UNCHANGED S!control
  BY DEF schedulerVars, S!control
<1>5. ASSUME NEW gs, NEW es, NEW ts, S!Schedule(gs, es, ts) PROVE UNCHANGED S!control
  BY <1>5 DEF S!Schedule
<1>6. ASSUME NEW g, S!Enqueue(g) PROVE UNCHANGED S!control
  BY <1>6 DEF S!Enqueue
<1>7. ASSUME NEW id, S!Dequeue(id) PROVE UNCHANGED S!control
  BY <1>7 DEF S!Dequeue
<1>8. S!DequeueReady \/ S!ClockTick => UNCHANGED S!control
  BY DEF S!DequeueReady, S!ClockTick
<1> QED BY <1>1, <1>2, <1>3, <1>4, <1>5, <1>6, <1>7, <1>8 DEF S!Next

\* scheduler.go:260-290,346-363: while no Run or Stop begins before another has ended, no
\* channel is closed twice, at most one loop runs, and none once Stop has returned.
THEOREM OneLoopCorrect == SurroundingsSpec => []OneLoop
<1>1. SurroundingsInit => LoopsInv
  BY LoopsInit DEF SurroundingsInit
<1>2. LoopsInv /\ [SurroundingsNext /\ UNCHANGED part]_<<part, surroundings>> => LoopsInv'
  BY StepsOfParts, LoopsNext
<1>3. LoopsInv => OneLoop
  <2> SUFFICES ASSUME LoopsInv, ~overlapped
               PROVE  /\ ~panicked /\ \A m, n \in S!Counted : m = n
                      /\ (\A c \in Callers : caller[c] = "idle") => (running <=> S!Counted # {})
    BY DEF OneLoop, S!OneLoop
  <2>1. OneCallAtATime /\ LoopOfStage
    BY DEF LoopsInv
  <2>2. S!Counted \subseteq {Len(loops)}
    BY <2>1 DEF S!Counted, LoopOfStage
  <2>3. ASSUME \A c \in Callers : caller[c] = "idle" PROVE running <=> S!Counted # {}
    <3>1. ~Calling("starting")
      BY <2>3 DEF Calling
    <3> QED BY <2>1, <2>3, <3>1 DEF LoopOfStage, S!Counted
  <2> QED BY <2>1, <2>2, <2>3 DEF OneCallAtATime
<1> QED BY <1>1, <1>2, <1>3, PTL DEF SurroundingsSpec

-----------------------------------------------------------------------------
(* The scheduler's queue.  What is kept of a queue keeps its order; what   *)
(* is inserted is sorted, as the five fields compared order any items.     *)

QueueItems == [id : Int, priority : Int, clock : Int, deadline : Nat, at : Int]

\* The sets of positions in a queue of length N; the place a position has in such a set.
PartsOf(N)  == SUBSET (1..N)
UpTo(K, i)  == {j \in K : j <= i}
Place(K, i) == Cardinality(UpTo(K, i))

LEMMA PlaceIncreases ==
  ASSUME NEW N \in Nat, NEW K \in PartsOf(N)
  PROVE  /\ IsFiniteSet(K) /\ Cardinality(K) \in Nat
         /\ \A i \in K : Place(K, i) \in 1..Cardinality(K)
         /\ \A i, j \in K : i < j => Place(K, i) < Place(K, j)
<1>1. IsFiniteSet(K) /\ Cardinality(K) \in Nat
  <2>1. IsFiniteSet(1..N)
    BY FS_Interval
  <2>2. IsFiniteSet(K)
    BY <2>1, FS_Subset DEF PartsOf
  <2> QED BY <2>2, FS_CardinalityType
<1>2. \A i \in K : i \in Nat
  BY DEF PartsOf
<1>3. ASSUME NEW i \in K
      PROVE  /\ IsFiniteSet(UpTo(K, i)) /\ Place(K, i) \in Nat
             /\ Place(K, i) \in 1..Cardinality(K)
  <2>1. UpTo(K, i) \in SUBSET K /\ i \in UpTo(K, i)
    BY <1>2 DEF UpTo
  <2>2. IsFiniteSet(UpTo(K, i)) /\ Cardinality(UpTo(K, i)) <= Cardinality(K)
    BY <1>1, <2>1, FS_Subset
  <2>3. Cardinality(UpTo(K, i)) \in Nat /\ Cardinality(UpTo(K, i)) # 0
    BY <2>1, <2>2, FS_EmptySet, FS_CardinalityType
  <2> QED BY <1>1, <2>2, <2>3 DEF Place
<1>4. ASSUME NEW i \in K, NEW j \in K, i < j PROVE Place(K, i) < Place(K, j)
  <2>0. i \in Nat /\ j \in Nat
    BY <1>2
  <2>1. j \notin UpTo(K, i) /\ UpTo(K, i) \cup {j} \in SUBSET UpTo(K, j)
    <3>1. j \notin UpTo(K, i) /\ j \in UpTo(K, j)
      BY <1>4, <2>0 DEF UpTo
    <3>2. ASSUME NEW k \in UpTo(K, i) PROVE k \in UpTo(K, j)
      <4>1. k \in K /\ k \in Nat /\ k <= i
        BY <1>2, <3>2 DEF UpTo
      <4>2. k <= j
        BY <1>4, <2>0, <4>1
      <4> QED BY <4>1, <4>2 DEF UpTo
    <3> QED BY <3>1, <3>2
  <2>2. Cardinality(UpTo(K, i) \cup {j}) = Cardinality(UpTo(K, i)) + 1
    BY <1>3, <2>1, FS_AddElement
  <2>3. Cardinality(UpTo(K, i) \cup {j}) <= Cardinality(UpTo(K, j))
    BY <1>3, <2>1, FS_Subset
  <2>4. Cardinality(UpTo(K, i)) \in Nat /\ Cardinality(UpTo(K, j)) \in Nat
    BY <1>3 DEF Place
  <2> QED BY <2>2, <2>3, <2>4 DEF Place
<1> QED BY <1>1, <1>3, <1>4

\* Position enumerates the places that are kept, in their order.
LEMMA PositionEnumerates ==
  ASSUME NEW N \in Nat, NEW K \in PartsOf(N)
  PROVE  /\ \A n \in 1..Cardinality(K) : S!Position(K, n) \in K
         /\ \A m, n \in 1..Cardinality(K) : m < n => S!Position(K, m) < S!Position(K, n)
         /\ \A k \in K : \E n \in 1..Cardinality(K) : S!Position(K, n) = k
<1> DEFINE size == Cardinality(K)
           rank == [i \in K |-> Place(K, i)]
<1>0. \A i \in K : i \in Nat
  BY DEF PartsOf
<1>1. \A i, j \in K : Place(K, i) = Place(K, j) => i = j
  <2> SUFFICES ASSUME NEW i \in K, NEW j \in K, Place(K, i) = Place(K, j) PROVE i = j
    OBVIOUS
  <2>1. Place(K, i) \in Int /\ ~(i < j) /\ ~(j < i)
    BY PlaceIncreases
  <2> QED BY <1>0, <2>1
<1>2. rank \in Injection(K, 1..size)
  BY <1>1, PlaceIncreases DEF Injection, IsInjective
<1>3. size \in Nat /\ IsFiniteSet(1..size) /\ Cardinality(1..size) = size
  BY PlaceIncreases, FS_Interval
<1>4. rank \in Surjection(K, 1..size)
  BY <1>2, <1>3, FS_Injection
<1>5. \A n \in 1..size : \E i \in K : Place(K, i) = n
  BY <1>4 DEF Surjection
<1>6. \A n \in 1..size : S!Position(K, n) \in K /\ Place(K, S!Position(K, n)) = n
  BY <1>5, SameCardinality DEF S!Position, Place, UpTo
<1>7. ASSUME NEW m \in 1..size, NEW n \in 1..size, m < n
      PROVE  S!Position(K, m) < S!Position(K, n)
  <2>1. S!Position(K, m) \in Nat /\ S!Position(K, n) \in Nat /\ m \in Nat /\ n \in Nat
    BY <1>0, <1>3, <1>6
  <2>2. ~(S!Position(K, n) < S!Position(K, m)) /\ S!Position(K, m) # S!Position(K, n)
    BY <1>6, <1>7, <2>1, PlaceIncreases
  <2> QED BY <2>1, <2>2
<1>8. \A k \in K : S!Position(K, Place(K, k)) = k /\ Place(K, k) \in 1..size
  BY <1>1, <1>6, PlaceIncreases
<1> QED BY <1>6, <1>7, <1>8

\* r is q without some of its items: h says where each of r stands in q.
Places(h, r, q) ==
  /\ h \in [1..Len(r) -> 1..Len(q)]
  /\ \A i, j \in 1..Len(r) : i < j => h[i] < h[j]
  /\ \A i \in 1..Len(r) : r[i] = q[h[i]]

LEMMA PlacesOfKept ==
  ASSUME NEW q \in Seq(QueueItems), NEW K \in PartsOf(Len(q))
  PROVE  /\ S!Keep(q, K) \in Seq(QueueItems)
         /\ \E h : /\ Places(h, S!Keep(q, K), q)
                   /\ \A i \in 1..Len(S!Keep(q, K)) : h[i] \in K
                   /\ \A k \in K : \E i \in 1..Len(S!Keep(q, K)) : h[i] = k
<1> DEFINE size == Cardinality(K)
           r    == S!Keep(q, K)
           h    == [n \in 1..size |-> S!Position(K, n)]
<1>0. Len(q) \in Nat
  OBVIOUS
<1>1. size \in Nat /\ Len(q) \in Nat
  BY <1>0, PlaceIncreases
<1>2. r = [n \in 1..size |-> q[S!Position(K, n)]]
  BY SameCardinality DEF S!Keep
<1>3. \A n \in 1..size : S!Position(K, n) \in K /\ S!Position(K, n) \in 1..Len(q)
  BY <1>1, PositionEnumerates DEF PartsOf
<1>4. \A n \in 1..size : q[S!Position(K, n)] \in QueueItems
  BY <1>3
<1>5. r \in Seq(QueueItems) /\ Len(r) = size
  BY <1>1, <1>2, <1>4
<1> HIDE DEF size
<1>6. \A i, j \in 1..size : i < j => h[i] < h[j]
  BY <1>1, PositionEnumerates DEF size
<1>7. Places(h, r, q)
  BY <1>2, <1>3, <1>5, <1>6 DEF Places
<1>8. \A i \in 1..Len(r) : h[i] \in K
  BY <1>3, <1>5
<1>9. \A k \in K : \E i \in 1..Len(r) : h[i] = k
  <2> TAKE k \in K
  <2>1. PICK n \in 1..size : S!Position(K, n) = k
    BY <1>1, PositionEnumerates DEF size
  <2> QED BY <1>5, <2>1
<1> QED BY <1>5, <1>7, <1>8, <1>9

\* a may stand before b.
Fits(a, b) == S!Before(a, b) \/ a = b

LEMMA FitsTotal ==
  ASSUME NEW a \in QueueItems, NEW b \in QueueItems
  PROVE  Fits(a, b) \/ Fits(b, a)
<1>1. /\ a.deadline \in Nat /\ a.at \in Int /\ a.priority \in Int /\ a.clock \in Int /\ a.id \in Int
      /\ b.deadline \in Nat /\ b.at \in Int /\ b.priority \in Int /\ b.clock \in Int /\ b.id \in Int
  BY DEF QueueItems
<1>2. CASE /\ a.deadline = b.deadline /\ a.at = b.at /\ a.priority = b.priority
           /\ a.clock = b.clock /\ a.id = b.id
  BY <1>2 DEF QueueItems, Fits
<1>3. CASE ~(/\ a.deadline = b.deadline /\ a.at = b.at /\ a.priority = b.priority
             /\ a.clock = b.clock /\ a.id = b.id)
  BY <1>1, <1>3 DEF Fits, S!Before
<1> QED BY <1>2, <1>3

LEMMA FitsTransitive ==
  ASSUME NEW a \in QueueItems, NEW b \in QueueItems, NEW c \in QueueItems, Fits(a, b), Fits(b, c)
  PROVE  Fits(a, c)
<1>1. /\ a.deadline \in Nat /\ a.at \in Int /\ a.priority \in Int /\ a.clock \in Int /\ a.id \in Int
      /\ b.deadline \in Nat /\ b.at \in Int /\ b.priority \in Int /\ b.clock \in Int /\ b.id \in Int
      /\ c.deadline \in Nat /\ c.at \in Int /\ c.priority \in Int /\ c.clock \in Int /\ c.id \in Int
  BY DEF QueueItems
<1>2. CASE a = b \/ b = c
  BY <1>2
<1>3. CASE S!Before(a, b) /\ S!Before(b, c)
  BY <1>1, <1>3 DEF Fits, S!Before
<1> QED BY <1>2, <1>3 DEF Fits

LEMMA InOrderFits ==
  ASSUME NEW q
  PROVE  S!InOrder(q) <=> \A i, j \in DOMAIN q : i < j => Fits(q[i], q[j])
  BY DEF S!InOrder, Fits

\* This stands for induction over the length of a queue.
LEMMA LeastNumber ==
  ASSUME NEW T \in SUBSET Nat, T # {}
  PROVE  \E m \in T : \A n \in T : m <= n
<1> DEFINE R == OpToRel(<, Nat)
<1>1. IsWellFoundedOn(R, Nat)
  BY NatLessThanWellFounded
<1>2. \A m, n \in Nat : n < m => <<n, m>> \in R
  BY DEF OpToRel
<1> HIDE DEF R
<1>3. PICK m \in T : \A n \in T : ~ (<<n, m>> \in R)
  BY <1>1, WFMin
<1>4. \A n \in T : m <= n
  <2> TAKE n \in T
  <2>1. m \in Nat /\ n \in Nat /\ ~(n < m)
    BY <1>2, <1>3
  <2> QED BY <2>1
<1> QED BY <1>3, <1>4

\* R puts the elements of X in order, some of them at one place.
Linear(R, X) ==
  /\ \A a, b \in X : <<a, b>> \in R \/ <<b, a>> \in R
  /\ \A a, b, c \in X : <<a, b>> \in R /\ <<b, c>> \in R => <<a, c>> \in R

\* An order of q in which each element stands in R to those after it.
OrderedBy(R, q, p) ==
  /\ p \in [1..Len(q) -> 1..Len(q)]
  /\ \A k \in 1..Len(q) : \E i \in 1..Len(q) : p[i] = k
  /\ \A i, j \in 1..Len(q) : i < j => <<q[p[i]], q[p[j]]>> \in R

\* One item more goes before the first that it must stand before.
LEMMA OneMore ==
  ASSUME NEW X, NEW R, Linear(R, X),
         NEW m \in Nat \ {0}, NEW q \in Seq(X), Len(q) = m,
         NEW r \in Seq(X), Len(r) = m - 1, \A i \in 1..(m - 1) : r[i] = q[i],
         NEW p, OrderedBy(R, r, p)
  PROVE  \E next : OrderedBy(R, q, next)
<1> DEFINE x    == q[m]
           fits == {i \in 1..m : i = m \/ <<r[p[i]], x>> \notin R}
<1>1. /\ \A i \in 1..(m - 1) : p[i] \in 1..(m - 1) /\ p[i] \in 1..m /\ r[p[i]] = q[p[i]]
      /\ \A i \in 1..(m - 1) : r[p[i]] \in X
      /\ x \in X /\ m \in 1..m
  <2>1. p \in [1..(m - 1) -> 1..(m - 1)]
    BY DEF OrderedBy
  <2>2. \A i \in 1..(m - 1) : p[i] \in 1..(m - 1) /\ p[i] \in 1..m /\ r[p[i]] = q[p[i]]
    <3>1. \A i \in 1..(m - 1) : p[i] \in 1..(m - 1)
      BY <2>1
    <3>2. \A k \in 1..(m - 1) : k \in 1..m /\ r[k] = q[k]
      OBVIOUS
    <3> QED BY <3>1, <3>2
  <2>3. \A k \in 1..(m - 1) : r[k] \in X
    OBVIOUS
  <2>4. m \in 1..m /\ q[m] \in X
    OBVIOUS
  <2> QED BY <2>2, <2>3, <2>4
<1>2. PICK s \in fits : \A i \in fits : s <= i
  <2>1. fits \in SUBSET Nat /\ m \in fits
    OBVIOUS
  <2> HIDE DEF fits
  <2> QED BY <2>1, LeastNumber
<1>3. s \in 1..m
  OBVIOUS
<1>4. ASSUME NEW i \in 1..(m - 1), i < s PROVE <<r[p[i]], x>> \in R
  <2>1. i \notin fits
    BY <1>2, <1>3, <1>4
  <2> QED BY <2>1
<1>5. ASSUME NEW i \in 1..(m - 1), s <= i PROVE <<x, r[p[i]]>> \in R
  <2>1. s \in 1..(m - 1) /\ <<r[p[s]], x>> \notin R
    BY <1>3, <1>5
  <2>2. <<x, r[p[s]]>> \in R
    BY <1>1, <2>1 DEF Linear
  <2>3. <<r[p[s]], r[p[i]]>> \in R
    <3>1. CASE s = i
      BY <1>1, <2>1, <3>1 DEF Linear
    <3>2. CASE s # i
      <4>1. s < i
        BY <1>5, <2>1, <3>2
      <4> QED BY <2>1, <4>1 DEF OrderedBy
    <3> QED BY <3>1, <3>2
  <2> QED BY <1>1, <2>1, <2>2, <2>3 DEF Linear
<1> DEFINE next == [i \in 1..m |-> IF i < s THEN p[i] ELSE IF i = s THEN m ELSE p[i - 1]]
<1> HIDE DEF fits, x
<1>6. ASSUME NEW i \in 1..m
      PROVE  \/ i < s /\ i \in 1..(m - 1) /\ next[i] = p[i]
             \/ i = s /\ next[i] = m
             \/ s < i /\ i - 1 \in 1..(m - 1) /\ s <= i - 1 /\ next[i] = p[i - 1]
  BY <1>3
<1>7. next \in [1..m -> 1..m]
  <2>1. \A i \in 1..m : next[i] \in 1..m
    BY <1>1, <1>6
  <2> QED BY <2>1
<1>8. ASSUME NEW k \in 1..m PROVE \E i \in 1..m : next[i] = k
  <2>1. CASE k = m
    BY <1>3, <2>1
  <2>2. CASE k # m
    <3>1. k \in 1..(m - 1)
      BY <2>2
    <3>2. PICK i \in 1..(m - 1) : p[i] = k
      BY <3>1 DEF OrderedBy
    <3>3. CASE i < s
      BY <3>2, <3>3
    <3>4. CASE ~(i < s)
      <4>1. i + 1 \in 1..m /\ ~(i + 1 < s) /\ i + 1 # s /\ (i + 1) - 1 = i
        BY <1>3, <3>4
      <4> QED BY <3>2, <4>1
    <3> QED BY <3>3, <3>4
  <2> QED BY <2>1, <2>2
<1>9. ASSUME NEW i \in 1..m, NEW j \in 1..m, i < j PROVE <<q[next[i]], q[next[j]]>> \in R
  <2>1. \A k \in 1..(m - 1) : q[p[k]] = r[p[k]]
    BY <1>1
  <2>2. \A a, b \in 1..(m - 1) : a < b => <<r[p[a]], r[p[b]]>> \in R
    BY DEF OrderedBy
  <2>3. CASE j < s
    <3>1. i < s /\ i \in 1..(m - 1) /\ j \in 1..(m - 1) /\ next[i] = p[i] /\ next[j] = p[j]
      BY <1>3, <1>9, <2>3
    <3> QED BY <1>9, <2>1, <2>2, <3>1
  <2>4. CASE j = s
    <3>1. i < s /\ i \in 1..(m - 1) /\ next[i] = p[i] /\ next[j] = m
      BY <1>3, <1>9, <2>4
    <3> QED BY <1>4, <2>1, <3>1 DEF x
  <2>5. CASE s < j
    <3>1. j - 1 \in 1..(m - 1) /\ s <= j - 1 /\ next[j] = p[j - 1]
      BY <1>3, <2>5
    <3>2. CASE i < s
      <4>1. i \in 1..(m - 1) /\ i < j - 1 /\ next[i] = p[i]
        BY <1>3, <3>1, <3>2
      <4> QED BY <2>1, <2>2, <3>1, <4>1
    <3>3. CASE i = s
      <4>1. next[i] = m
        BY <3>3
      <4> QED BY <1>5, <2>1, <3>1, <4>1 DEF x
    <3>4. CASE s < i
      <4>1. i - 1 \in 1..(m - 1) /\ i - 1 < j - 1 /\ next[i] = p[i - 1]
        BY <1>3, <1>9, <3>4
      <4> QED BY <2>1, <2>2, <3>1, <4>1
    <3>5. i < s \/ i = s \/ s < i
      BY <1>3
    <3> QED BY <3>2, <3>3, <3>4, <3>5
  <2>6. j < s \/ j = s \/ s < j
    BY <1>3
  <2> QED BY <2>3, <2>4, <2>5, <2>6
<1>10. OrderedBy(R, q, next)
  BY <1>7, <1>8, <1>9 DEF OrderedBy
<1> QED BY <1>10

LEMMA SomeOrderBy ==
  ASSUME NEW X, NEW R, Linear(R, X),
         NEW q \in Seq(X)
  PROVE  \E p : OrderedBy(R, q, p)
<1> DEFINE Unordered(r) == r \in Seq(X) /\ ~\E p : OrderedBy(R, r, p)
           T == {n \in Nat : \E r : Unordered(r) /\ Len(r) = n}
<1>1. SUFFICES ASSUME Unordered(q) PROVE FALSE
  OBVIOUS
<1>2. PICK m \in T : \A n \in T : m <= n
  <2>1. T \in SUBSET Nat /\ Len(q) \in T
    BY <1>1
  <2> HIDE DEF T
  <2> QED BY <2>1, LeastNumber
<1>3. PICK r : Unordered(r) /\ Len(r) = m
  OBVIOUS
<1>4. m # 0
  <2>1. ASSUME m = 0 PROVE OrderedBy(R, r, [i \in 1..Len(r) |-> i])
    <3>1. 1..Len(r) = {}
      BY <1>3, <2>1
    <3> QED BY <3>1 DEF OrderedBy
  <2> QED BY <1>3, <2>1
<1> DEFINE less == [i \in 1..(m - 1) |-> r[i]]
<1>5. less \in Seq(X) /\ Len(less) = m - 1 /\ \A i \in 1..(m - 1) : less[i] = r[i]
  <2>1. m - 1 \in Nat /\ \A i \in 1..(m - 1) : r[i] \in X
    BY <1>3, <1>4
  <2> QED BY <2>1
<1>6. PICK p : OrderedBy(R, less, p)
  <2>1. m - 1 \in Nat /\ ~(m <= m - 1)
    BY <1>4
  <2>2. m - 1 \notin T
    BY <1>2, <2>1
  <2> HIDE DEF less
  <2> QED BY <1>5, <2>1, <2>2
<1>7. \E next : OrderedBy(R, r, next)
  <2> HIDE DEF less
  <2>1. m \in Nat \ {0}
    BY <1>4
  <2> QED BY <1>3, <1>5, <1>6, <2>1, OneMore
<1> QED BY <1>3, <1>7

\* An order of the items of q, in terms of its length.
Orders(q, p) ==
  /\ p \in [1..Len(q) -> 1..Len(q)]
  /\ \A k \in 1..Len(q) : \E i \in 1..Len(q) : p[i] = k
  /\ \A i, j \in 1..Len(q) : i < j => Fits(q[p[i]], q[p[j]])

LEMMA OrdersOf ==
  ASSUME NEW q \in Seq(QueueItems), NEW p
  PROVE  p \in S!Orders(q) <=> Orders(q, p)
<1>1. DOMAIN q = 1..Len(q)
  OBVIOUS
<1>2. ASSUME p \in [1..Len(q) -> 1..Len(q)]
      PROVE  S!InOrder([i \in DOMAIN q |-> q[p[i]]]) <=>
               \A i, j \in 1..Len(q) : i < j => Fits(q[p[i]], q[p[j]])
  BY <1>1, <1>2, InOrderFits
<1> QED BY <1>1, <1>2 DEF S!Orders, Orders

LEMMA SomeOrder ==
  ASSUME NEW q \in Seq(QueueItems)
  PROVE  \E p : Orders(q, p)
<1> DEFINE R == {e \in QueueItems \X QueueItems : Fits(e[1], e[2])}
<1>1. \A a, b \in QueueItems : <<a, b>> \in R <=> Fits(a, b)
  OBVIOUS
<1> HIDE DEF R
<1>2. \A a, b \in QueueItems : <<a, b>> \in R \/ <<b, a>> \in R
  BY <1>1, FitsTotal
<1>3. ASSUME NEW a \in QueueItems, NEW b \in QueueItems, NEW c \in QueueItems,
             <<a, b>> \in R, <<b, c>> \in R
      PROVE  <<a, c>> \in R
  BY <1>1, <1>3, FitsTransitive
<1>4. PICK p : OrderedBy(R, q, p)
  <2>1. Linear(R, QueueItems)
    BY <1>2, <1>3 DEF Linear
  <2> QED BY <2>1, SomeOrderBy
<1>5. \A i, j \in 1..Len(q) : i < j => Fits(q[p[i]], q[p[j]])
  <2>1. \A i \in 1..Len(q) : q[p[i]] \in QueueItems
    <3>1. \A i \in 1..Len(q) : p[i] \in 1..Len(q)
      BY <1>4 DEF OrderedBy
    <3> QED BY <3>1
  <2>2. \A i, j \in 1..Len(q) : i < j => <<q[p[i]], q[p[j]]>> \in R
    BY <1>4 DEF OrderedBy
  <2> QED BY <1>1, <2>1, <2>2
<1>6. Orders(q, p)
  BY <1>4, <1>5 DEF OrderedBy, Orders
<1> QED BY <1>6

\* Sorting keeps every item and puts them in order.
LEMMA SortedFacts ==
  ASSUME NEW q \in Seq(QueueItems)
  PROVE  /\ S!Sorted(q) \in Seq(QueueItems) /\ Len(S!Sorted(q)) = Len(q)
         /\ \A i, j \in 1..Len(q) : i < j => Fits(S!Sorted(q)[i], S!Sorted(q)[j])
         /\ \E p : Orders(q, p) /\ \A i \in 1..Len(q) : S!Sorted(q)[i] = q[p[i]]
<1> DEFINE p == CHOOSE o \in S!Orders(q) : TRUE
<1>1. Orders(q, p)
  <2>1. PICK o : Orders(q, o)
    BY SomeOrder
  <2>2. o \in S!Orders(q)
    BY <2>1, OrdersOf
  <2>3. p \in S!Orders(q)
    BY <2>2
  <2> QED BY <2>3, OrdersOf
<1> HIDE DEF p
<1>2. S!Sorted(q) = [i \in 1..Len(q) |-> q[p[i]]]
  <2>1. S!Sorted(q) = [i \in DOMAIN q |-> q[p[i]]]
    BY DEF S!Sorted, p
  <2> QED BY <2>1
<1>3. Len(q) \in Nat /\ \A i \in 1..Len(q) : q[p[i]] \in QueueItems
  <2>1. \A i \in 1..Len(q) : p[i] \in 1..Len(q)
    BY <1>1 DEF Orders
  <2> QED BY <2>1
<1>4. S!Sorted(q) \in Seq(QueueItems) /\ Len(S!Sorted(q)) = Len(q)
  BY <1>2, <1>3
<1>5. \A i, j \in 1..Len(q) : i < j => Fits(S!Sorted(q)[i], S!Sorted(q)[j])
  BY <1>1, <1>2 DEF Orders
<1> QED BY <1>1, <1>2, <1>4, <1>5

-----------------------------------------------------------------------------
Ordered(q) == \A i, j \in 1..Len(q) : i < j => Fits(q[i], q[j])

\* An identifier that has no twin stands in q once, and the map has that item.
Mapped(q, m, twins) ==
  \A i \in 1..Len(q) : q[i].id \notin twins =>
    /\ q[i].id \in DOMAIN m /\ m[q[i].id] = q[i]
    /\ \A j \in 1..Len(q) : q[j].id = q[i].id => i = j

QueueInv ==
  /\ now \in Int /\ clock \in Int
  /\ queue \in Seq(QueueItems) /\ \A i \in 1..Len(queue) : queue[i].id \in S!IDs
  /\ Ordered(queue) /\ Mapped(queue, items, twinned)

LEMMA KeptInv ==
  ASSUME QueueInv, NEW h, Places(h, queue', queue), queue' \in Seq(QueueItems),
         now' \in Int, clock' \in Int, twinned' = twinned,
         \A i \in 1..Len(queue') : queue'[i].id \notin twinned =>
           /\ queue'[i].id \in DOMAIN items => queue'[i].id \in DOMAIN items'
           /\ items'[queue'[i].id] = items[queue'[i].id]
  PROVE  QueueInv'
<1>1. /\ \A i \in 1..Len(queue') : h[i] \in 1..Len(queue) /\ queue'[i] = queue[h[i]]
      /\ \A i, j \in 1..Len(queue') : i < j => h[i] < h[j]
      /\ Len(queue') \in Nat
  BY DEF Places
<1>2. \A i \in 1..Len(queue') : queue'[i].id \in S!IDs
  BY <1>1 DEF QueueInv
<1>3. Ordered(queue')
  BY <1>1 DEF QueueInv, Ordered
<1>4. \A i, j \in 1..Len(queue') : h[i] = h[j] => i = j
  <2> SUFFICES ASSUME NEW i \in 1..Len(queue'), NEW j \in 1..Len(queue'), h[i] = h[j]
               PROVE  i = j
    OBVIOUS
  <2>1. h[i] \in Int /\ ~(i < j) /\ ~(j < i)
    BY <1>1
  <2> QED BY <1>1, <2>1
<1>5. Mapped(queue', items', twinned)
  <2> SUFFICES ASSUME NEW i \in 1..Len(queue'), queue'[i].id \notin twinned
               PROVE  /\ queue'[i].id \in DOMAIN items' /\ items'[queue'[i].id] = queue'[i]
                      /\ \A j \in 1..Len(queue') : queue'[j].id = queue'[i].id => i = j
    BY DEF Mapped
  <2>1. h[i] \in 1..Len(queue) /\ queue'[i] = queue[h[i]]
    BY <1>1
  <2>2. /\ queue'[i].id \in DOMAIN items /\ items[queue'[i].id] = queue'[i]
        /\ \A j \in 1..Len(queue) : queue[j].id = queue'[i].id => h[i] = j
    BY <2>1 DEF QueueInv, Mapped
  <2>3. \A j \in 1..Len(queue') : queue'[j].id = queue'[i].id => h[i] = h[j]
    BY <1>1, <2>2
  <2> QED BY <1>4, <2>2, <2>3
<1>6. S!IDs' = S!IDs
  BY DEF S!IDs
<1> QED BY <1>2, <1>3, <1>5, <1>6 DEF QueueInv

LEMMA StoredFacts ==
  ASSUME NEW m, NEW new \in Seq(QueueItems), NEW i \in 1..Len(new),
         \A j \in 1..Len(new) : new[j].id = new[i].id => j = i
  PROVE  new[i].id \in DOMAIN S!Stored(m, new) /\ S!Stored(m, new)[new[i].id] = new[i]
<1> DEFINE named == {new[j].id : j \in DOMAIN new}
           last(id) == CHOOSE j \in DOMAIN new :
                         new[j].id = id /\ \A k \in DOMAIN new : new[k].id = id => k <= j
<1>1. DOMAIN new = 1..Len(new) /\ Len(new) \in Nat
  OBVIOUS
<1>2. new[i].id \in named /\ i <= i
  BY <1>1
<1>3. last(new[i].id) = i
  BY <1>1, <1>2
<1>4. S!Stored(m, new) = [id \in (DOMAIN m) \cup named |->
                            IF id \in named THEN new[last(id)] ELSE m[id]]
  BY DEF S!Stored
<1> HIDE DEF named, last
<1> QED BY <1>2, <1>3, <1>4

LEMMA StoredOthers ==
  ASSUME NEW m, NEW new \in Seq(QueueItems), NEW id \in DOMAIN m,
         \A j \in 1..Len(new) : new[j].id # id
  PROVE  id \in DOMAIN S!Stored(m, new) /\ S!Stored(m, new)[id] = m[id]
<1> DEFINE named == {new[j].id : j \in DOMAIN new}
           last(x) == CHOOSE j \in DOMAIN new :
                         new[j].id = x /\ \A k \in DOMAIN new : new[k].id = x => k <= j
<1>1. id \notin named
  OBVIOUS
<1>2. S!Stored(m, new) = [x \in (DOMAIN m) \cup named |->
                            IF x \in named THEN new[last(x)] ELSE m[x]]
  BY DEF S!Stored
<1> HIDE DEF named, last
<1> QED BY <1>1, <1>2

LEMMA AtMostOne ==
  ASSUME NEW N \in Nat, NEW K \in PartsOf(N), ~(Cardinality(K) > 1), NEW i \in K, NEW j \in K
  PROVE  i = j
<1> SUFFICES ASSUME i # j PROVE FALSE
  OBVIOUS
<1>1. IsFiniteSet(K) /\ Cardinality(K) \in Nat
  BY PlaceIncreases
<1>2. IsFiniteSet(K \ {i}) /\ Cardinality(K \ {i}) = Cardinality(K) - 1
  BY <1>1, FS_RemoveElement
<1>3. Cardinality(K \ {i}) \in Nat /\ Cardinality(K \ {i}) # 0
  <2>1. j \in K \ {i}
    OBVIOUS
  <2> QED BY <1>2, <2>1, FS_EmptySet, FS_CardinalityType
<1> QED BY <1>1, <1>2, <1>3

\* What is inserted is sorted into the queue, and the map has it unless it has a twin.
LEMMA InsertInv ==
  ASSUME QueueInv, NEW new \in Seq(QueueItems), \A i \in 1..Len(new) : new[i].id \in S!IDs,
         S!Insert(new), now' \in Int, clock' \in Int
  PROVE  QueueInv'
<1> DEFINE q == queue \o new
           L == Len(queue)
           at(id) == {i \in 1..Len(queue') : queue'[i].id = id}
<1>1. /\ q \in Seq(QueueItems) /\ Len(q) = L + Len(new) /\ L \in Nat /\ Len(new) \in Nat
      /\ \A i \in 1..L : q[i] = queue[i] /\ i \in 1..Len(q)
      /\ \A i \in 1..Len(new) : q[L + i] = new[i] /\ L + i \in 1..Len(q)
      /\ \A k \in 1..Len(q) :
           k \in 1..L \/ (k - L \in 1..Len(new) /\ q[k] = new[k - L])
  <2>1. queue \in Seq(QueueItems)
    BY DEF QueueInv
  <2>2. q \in Seq(QueueItems) /\ Len(q) = L + Len(new) /\ L \in Nat /\ Len(new) \in Nat
    BY <2>1
  <2>3. \A i \in 1..L : q[i] = queue[i] /\ i \in 1..Len(q)
    BY <2>1
  <2>4. \A i \in 1..Len(new) : q[L + i] = new[i] /\ L + i \in 1..Len(q)
    BY <2>1
  <2>5. \A k \in 1..Len(q) : k \in 1..L \/ (k - L \in 1..Len(new) /\ q[k] = new[k - L])
    BY <2>1
  <2> QED BY <2>2, <2>3, <2>4, <2>5
<1> HIDE DEF q, L
<1>2. queue' = S!Sorted(q) /\ items' = S!Stored(items, new)
  BY DEF S!Insert, q
<1>3. queue' \in Seq(QueueItems) /\ Len(queue') = Len(q) /\ Ordered(queue') /\ Len(q) \in Nat
  BY <1>1, <1>2, SortedFacts DEF Ordered
<1>4. PICK p : Orders(q, p) /\ \A i \in 1..Len(q) : queue'[i] = q[p[i]]
  BY <1>1, <1>2, SortedFacts
<1>5. \A k \in 1..Len(q) : q[k].id \in S!IDs
  <2> TAKE k \in 1..Len(q)
  <2>1. CASE k \in 1..L
    BY <1>1, <2>1 DEF QueueInv, L
  <2>2. CASE k - L \in 1..Len(new) /\ q[k] = new[k - L]
    BY <2>2
  <2> QED BY <1>1, <2>1, <2>2
<1>6. \A i \in 1..Len(queue') : queue'[i].id \in S!IDs'
  <2>1. S!IDs' = S!IDs
    BY DEF S!IDs
  <2> QED BY <1>3, <1>4, <1>5, <2>1 DEF Orders
<1>7. ASSUME NEW i \in 1..Len(queue'), queue'[i].id \notin twinned'
      PROVE  /\ queue'[i].id \in DOMAIN items' /\ items'[queue'[i].id] = queue'[i]
             /\ \A j \in 1..Len(queue') : queue'[j].id = queue'[i].id => i = j
  <2> DEFINE id == queue'[i].id
  <2>1. /\ id \in S!IDs
        /\ ~(id \in twinned /\ Cardinality({k \in DOMAIN queue : queue[k].id = id}) > 0)
        /\ ~(Cardinality({k \in DOMAIN queue' : queue'[k].id = id}) > 1)
    <3>1. id \in S!IDs
      BY <1>3, <1>4, <1>5 DEF Orders
    <3> QED BY <1>7, <3>1, SameCardinality DEF S!Insert, S!Queued
  <2>2. \A j \in 1..Len(queue') : queue'[j].id = id => i = j
    <3>1. DOMAIN queue' = 1..Len(queue')
      BY <1>3
    <3>2. at(id) = {k \in DOMAIN queue' : queue'[k].id = id}
      BY <3>1
    <3>3. at(id) \in PartsOf(Len(queue')) /\ Len(queue') \in Nat /\ ~(Cardinality(at(id)) > 1)
      BY <1>3, <2>1, <3>2 DEF PartsOf
    <3>4. ASSUME NEW j \in 1..Len(queue'), queue'[j].id = id PROVE i = j
      <4>1. i \in at(id) /\ j \in at(id)
        BY <3>4
      <4> HIDE DEF at, id
      <4> QED BY <3>3, <4>1, AtMostOne
    <3> QED BY <3>4
  <2>3. \A k \in 1..Len(q) : q[k].id = id => k = p[i]
    <3> TAKE k \in 1..Len(q)
    <3>1. PICK j \in 1..Len(q) : p[j] = k
      BY <1>4 DEF Orders
    <3> QED BY <1>3, <1>4, <2>2, <3>1
  <2>4. p[i] \in 1..Len(q) /\ q[p[i]] = queue'[i]
    BY <1>3, <1>4 DEF Orders
  <2>5. CASE p[i] \in 1..L
    <3>1. queue[p[i]] = queue'[i]
      BY <1>1, <2>4, <2>5
    <3>2. \A j \in 1..Len(new) : new[j].id # id
      <4> TAKE j \in 1..Len(new)
      <4>1. q[L + j] = new[j] /\ L + j \in 1..Len(q) /\ L + j # p[i]
        BY <1>1, <2>5
      <4> QED BY <2>3, <4>1
    <3>3. id \notin twinned
      <4> DEFINE before == {k \in DOMAIN queue : queue[k].id = id}
      <4>1. DOMAIN queue = 1..L /\ before \in PartsOf(L)
        BY <1>1 DEF L, PartsOf, QueueInv
      <4>2. p[i] \in before
        BY <2>5, <3>1, <4>1
      <4>3. IsFiniteSet(before) /\ Cardinality(before) \in Nat
        BY <1>1, <4>1, PlaceIncreases
      <4>4. Cardinality(before) # 0
        BY <4>2, <4>3, FS_EmptySet
      <4>5. Cardinality(before) > 0
        BY <4>3, <4>4
      <4> QED BY <2>1, <4>5
    <3>4. id \in DOMAIN items /\ items[id] = queue'[i]
      BY <2>5, <3>1, <3>3 DEF QueueInv, Mapped, L
    <3>5. id \in DOMAIN items' /\ items'[id] = items[id]
      BY <1>2, <3>2, <3>4, StoredOthers
    <3> QED BY <2>2, <3>4, <3>5
  <2>6. CASE p[i] \notin 1..L
    <3> DEFINE n == p[i] - L
    <3>1. n \in 1..Len(new) /\ new[n] = queue'[i]
      BY <1>1, <2>4, <2>6
    <3>2. \A j \in 1..Len(new) : new[j].id = id => j = n
      <4> TAKE j \in 1..Len(new)
      <4>1. q[L + j] = new[j] /\ L + j \in 1..Len(q)
        BY <1>1
      <4>2. new[j].id = id => L + j = p[i]
        BY <2>3, <4>1
      <4> QED BY <1>1, <2>4, <4>2
    <3>3. id \in DOMAIN items' /\ items'[id] = queue'[i]
      <4> HIDE DEF n
      <4>1. \A j \in 1..Len(new) : new[j].id = new[n].id => j = n
        BY <3>1, <3>2
      <4> QED BY <1>2, <3>1, <4>1, StoredFacts
    <3> QED BY <2>2, <3>3
  <2> QED BY <2>5, <2>6
<1>8. Mapped(queue', items', twinned')
  BY <1>7 DEF Mapped
<1> QED BY <1>3, <1>6, <1>8 DEF QueueInv

LEMMA ItemsOffered ==
  ASSUME now \in Int, clock \in Int
  PROVE  /\ \A g \in [id : Int, priority : Int, deadline : Nat, timeout : Nat] :
              S!GoalItem(g) \in QueueItems /\ S!GoalItem(g).id = g.id
         /\ \A e \in [id : Int, clock : Int] :
              S!EventItem(e) \in QueueItems /\ S!EventItem(e).id = e.id
         /\ \A t \in [id : Int, at : Int] :
              S!TimerItem(t) \in QueueItems /\ S!TimerItem(t).id = t.id
<1>1. ASSUME NEW g \in [id : Int, priority : Int, deadline : Nat, timeout : Nat]
      PROVE  S!GoalItem(g) \in QueueItems /\ S!GoalItem(g).id = g.id
  <2>1. /\ g.id \in Int /\ g.priority \in Int /\ g.deadline \in Nat /\ g.timeout \in Nat
        /\ g.deadline - g.timeout \in Int
    OBVIOUS
  <2>2. S!Later(now, g.deadline - g.timeout) \in Int
    BY <2>1 DEF S!Later
  <2>3. CASE strict
    BY <2>1, <2>3 DEF S!GoalItem, QueueItems
  <2>4. CASE ~strict
    BY <2>1, <2>2, <2>4 DEF S!GoalItem, QueueItems
  <2> QED BY <2>3, <2>4
<1>2. ASSUME NEW e \in [id : Int, clock : Int]
      PROVE  S!EventItem(e) \in QueueItems /\ S!EventItem(e).id = e.id
  <2>1. CASE strict
    BY <2>1 DEF S!EventItem, QueueItems
  <2>2. CASE ~strict
    BY <2>2 DEF S!EventItem, QueueItems
  <2> QED BY <2>1, <2>2
<1>3. ASSUME NEW t \in [id : Int, at : Int]
      PROVE  S!TimerItem(t) \in QueueItems /\ S!TimerItem(t).id = t.id
  BY DEF S!TimerItem, QueueItems
<1> QED BY <1>1, <1>2, <1>3

\* Up to three items, one of each kind.
LEMMA ScheduleInv ==
  ASSUME QueueInv, NEW gs \in S!OneOrNone(QueueGoals), NEW es \in S!OneOrNone(QueueEvents),
         NEW ts \in S!OneOrNone(QueueTimers), S!Schedule(gs, es, ts)
  PROVE  QueueInv'
<1> DEFINE a == [i \in DOMAIN gs |-> S!GoalItem(gs[i])]
           b == [i \in DOMAIN es |-> S!EventItem(es[i])]
           c == [i \in DOMAIN ts |-> S!TimerItem(ts[i])]
           Known(q) == q \in Seq(QueueItems) /\ \A i \in 1..Len(q) : q[i].id \in S!IDs
<1>0. now \in Int /\ clock \in Int
  BY DEF QueueInv
<1>1. Known(a)
  <2>1. CASE gs = << >>
    BY <2>1
  <2>2. CASE \E x \in QueueGoals : gs = <<x>>
    <3>1. PICK x \in QueueGoals : gs = <<x>>
      BY <2>2
    <3>2. S!GoalItem(x) \in QueueItems /\ S!GoalItem(x).id \in S!IDs
      BY <1>0, ItemsOffered, SurroundingsAssumption DEF S!IDs
    <3>3. a = <<S!GoalItem(x)>>
      BY <3>1
    <3> QED BY <3>2, <3>3
  <2> QED BY <2>1, <2>2 DEF S!OneOrNone
<1>2. Known(b)
  <2>1. CASE es = << >>
    BY <2>1
  <2>2. CASE \E x \in QueueEvents : es = <<x>>
    <3>1. PICK x \in QueueEvents : es = <<x>>
      BY <2>2
    <3>2. S!EventItem(x) \in QueueItems /\ S!EventItem(x).id \in S!IDs
      BY <1>0, ItemsOffered, SurroundingsAssumption DEF S!IDs
    <3>3. b = <<S!EventItem(x)>>
      BY <3>1
    <3> QED BY <3>2, <3>3
  <2> QED BY <2>1, <2>2 DEF S!OneOrNone
<1>3. Known(c)
  <2>1. CASE ts = << >>
    BY <2>1
  <2>2. CASE \E x \in QueueTimers : ts = <<x>>
    <3>1. PICK x \in QueueTimers : ts = <<x>>
      BY <2>2
    <3>2. S!TimerItem(x) \in QueueItems /\ S!TimerItem(x).id \in S!IDs
      BY <1>0, ItemsOffered, SurroundingsAssumption DEF S!IDs
    <3>3. c = <<S!TimerItem(x)>>
      BY <3>1
    <3> QED BY <3>2, <3>3
  <2> QED BY <2>1, <2>2 DEF S!OneOrNone
<1>4. S!Insert(a \o b \o c) /\ now' \in Int /\ clock' \in Int
  BY <1>0 DEF S!Schedule
<1> HIDE DEF a, b, c
<1>5. ASSUME NEW x, NEW y, Known(x), Known(y) PROVE Known(x \o y)
  <2>1. x \o y \in Seq(QueueItems)
    BY <1>5
  <2>2. ASSUME NEW i \in 1..Len(x \o y) PROVE (x \o y)[i].id \in S!IDs
    <3>1. CASE i \in 1..Len(x)
      BY <1>5, <3>1
    <3>2. CASE i \notin 1..Len(x)
      <4>1. i - Len(x) \in 1..Len(y) /\ (x \o y)[i] = y[i - Len(x)]
        BY <1>5, <3>2
      <4> QED BY <1>5, <4>1
    <3> QED BY <3>1, <3>2
  <2> QED BY <2>1, <2>2
<1>6. Known(a \o b \o c)
  <2> HIDE DEF Known
  <2>1. Known(a \o b)
    BY <1>1, <1>2, <1>5
  <2> QED BY <1>3, <1>5, <2>1
<1> QED BY <1>4, <1>6, InsertInv

LEMMA EnqueueInv ==
  ASSUME QueueInv, NEW g \in QueueGoals, S!Enqueue(g)
  PROVE  QueueInv'
<1> DEFINE item == S!GoalItem([g EXCEPT !.deadline = 0])
<1>1. now \in Int /\ clock \in Int /\ now' \in Int /\ clock' \in Int
  BY DEF QueueInv, S!Enqueue
<1>2. g \in [id : Int, priority : Int, deadline : Nat, timeout : Nat]
  BY SurroundingsAssumption
<1>3. /\ [g EXCEPT !.deadline = 0] \in [id : Int, priority : Int, deadline : Nat, timeout : Nat]
      /\ [g EXCEPT !.deadline = 0].id = g.id
  BY <1>2
<1>4. item \in QueueItems /\ item.id \in S!IDs
  BY <1>1, <1>3, ItemsOffered DEF S!IDs
<1>5. S!Insert(<<item>>)
  BY DEF S!Enqueue
<1> HIDE DEF item
<1>6. <<item>> \in Seq(QueueItems) /\ \A i \in 1..Len(<<item>>) : <<item>>[i].id \in S!IDs
  BY <1>4
<1> QED BY <1>1, <1>5, <1>6, InsertInv

LEMMA DequeueInv ==
  ASSUME QueueInv, NEW id \in S!IDs, S!Dequeue(id)
  PROVE  QueueInv'
<1> DEFINE K == DOMAIN queue \ S!First(queue, id)
<1>1. queue \in Seq(QueueItems) /\ K \in PartsOf(Len(queue)) /\ queue' = S!Keep(queue, K)
  BY DEF QueueInv, PartsOf, S!Dequeue, S!TakeFirst
<1> HIDE DEF K
<1>2. PICK h : /\ Places(h, queue', queue)
               /\ \A i \in 1..Len(queue') : h[i] \in K
  BY <1>1, PlacesOfKept
<1>3. queue' \in Seq(QueueItems)
  BY <1>1, PlacesOfKept
<1>4. ASSUME NEW i \in 1..Len(queue'), queue'[i].id \notin twinned PROVE queue'[i].id # id
  <2>1. /\ h[i] \in K /\ h[i] \in 1..Len(queue) /\ queue[h[i]] = queue'[i]
        /\ h[i] \notin S!First(queue, id) /\ DOMAIN queue = 1..Len(queue) /\ Len(queue) \in Nat
    <3>1. h[i] \in K /\ h[i] \in 1..Len(queue) /\ queue[h[i]] = queue'[i]
      BY <1>2 DEF Places
    <3>2. h[i] \notin S!First(queue, id)
      BY <3>1 DEF K
    <3>3. DOMAIN queue = 1..Len(queue) /\ Len(queue) \in Nat
      BY <1>1
    <3> QED BY <3>1, <3>2, <3>3
  <2>2. \A j \in 1..(h[i] - 1) : j \in 1..Len(queue) /\ j # h[i]
    BY <2>1
  <2>3. \A j \in 1..Len(queue) : queue[j].id = queue'[i].id => h[i] = j
    BY <1>4, <2>1 DEF QueueInv, Mapped
  <2>4. queue'[i].id = id => h[i] \in S!First(queue, id)
    BY <2>1, <2>2, <2>3 DEF S!First
  <2> QED BY <2>1, <2>4
<1>5. /\ items' = [x \in (DOMAIN items) \ {id} |-> items[x]]
      /\ now' \in Int /\ clock' \in Int /\ twinned' = twinned
  BY DEF S!Dequeue, S!Without, QueueInv
<1>6. ASSUME NEW i \in 1..Len(queue'), queue'[i].id \notin twinned
      PROVE  /\ queue'[i].id \in DOMAIN items => queue'[i].id \in DOMAIN items'
             /\ items'[queue'[i].id] = items[queue'[i].id]
  <2>1. queue'[i].id \in DOMAIN items
    BY <1>2, <1>6 DEF Places, QueueInv, Mapped
  <2> QED BY <1>4, <1>5, <1>6, <2>1
<1> QED BY <1>2, <1>3, <1>5, <1>6, KeptInv

LEMMA DequeueReadyInv ==
  ASSUME QueueInv, S!DequeueReady
  PROVE  QueueInv'
<1> DEFINE K    == {i \in DOMAIN queue : ~S!Due(queue[i])}
           gone == {queue[i].id : i \in {j \in DOMAIN queue : S!Due(queue[j])}}
<1>1. queue \in Seq(QueueItems) /\ K \in PartsOf(Len(queue)) /\ queue' = S!Keep(queue, K)
  BY DEF QueueInv, PartsOf, S!DequeueReady
<1> HIDE DEF K
<1>2. PICK h : /\ Places(h, queue', queue)
               /\ \A i \in 1..Len(queue') : h[i] \in K
  BY <1>1, PlacesOfKept
<1>3. queue' \in Seq(QueueItems)
  BY <1>1, PlacesOfKept
<1>4. ASSUME NEW i \in 1..Len(queue'), queue'[i].id \notin twinned PROVE queue'[i].id \notin gone
  <2>1. h[i] \in 1..Len(queue) /\ queue[h[i]] = queue'[i] /\ DOMAIN queue = 1..Len(queue)
    BY <1>1, <1>2 DEF Places
  <2>2. ~S!Due(queue[h[i]])
    BY <1>2 DEF K
  <2>3. \A j \in 1..Len(queue) : queue[j].id = queue'[i].id => h[i] = j
    BY <1>4, <2>1 DEF QueueInv, Mapped
  <2> QED BY <2>1, <2>2, <2>3
<1>5. /\ items' = [x \in (DOMAIN items) \ gone |-> items[x]]
      /\ now' \in Int /\ clock' \in Int /\ twinned' = twinned
  BY DEF S!DequeueReady, S!Without, QueueInv
<1> HIDE DEF gone
<1>6. ASSUME NEW i \in 1..Len(queue'), queue'[i].id \notin twinned
      PROVE  /\ queue'[i].id \in DOMAIN items => queue'[i].id \in DOMAIN items'
             /\ items'[queue'[i].id] = items[queue'[i].id]
  <2>1. queue'[i].id \in DOMAIN items
    BY <1>2, <1>6 DEF Places, QueueInv, Mapped
  <2> QED BY <1>4, <1>5, <1>6, <2>1
<1> QED BY <1>2, <1>3, <1>5, <1>6, KeptInv

-----------------------------------------------------------------------------
(* A tick: for each due item, the first of its identifier goes.  What has  *)
(* gone after n of them is counted, identifier by identifier.              *)

At(q, id)    == {i \in 1..Len(q) : q[i].id = id}
Count(q, id) == Cardinality(At(q, id))
DueUpTo(n, id) == {m \in 1..n : S!Due(queue[m]) /\ queue[m].id = id}

LEMMA AtFinite ==
  ASSUME NEW q \in Seq(QueueItems), NEW id
  PROVE  IsFiniteSet(At(q, id)) /\ Count(q, id) \in Nat
<1>1. Len(q) \in Nat /\ At(q, id) \in PartsOf(Len(q))
  BY DEF At, PartsOf
<1> QED BY <1>1, PlaceIncreases DEF Count

LEMMA FirstIs ==
  ASSUME NEW q \in Seq(QueueItems), NEW id
  PROVE  IF At(q, id) = {} THEN S!First(q, id) = {}
                           ELSE \E f \in At(q, id) : S!First(q, id) = {f}
<1>1. DOMAIN q = 1..Len(q) /\ Len(q) \in Nat
  OBVIOUS
<1>2. CASE At(q, id) = {}
  BY <1>1, <1>2 DEF At, S!First
<1>3. CASE At(q, id) # {}
  <2>1. At(q, id) \in SUBSET Nat
    BY <1>1 DEF At
  <2>2. PICK f \in At(q, id) : \A i \in At(q, id) : f <= i
    BY <1>3, <2>1, LeastNumber
  <2>3. f \in 1..Len(q) /\ q[f].id = id
    BY <2>2 DEF At
  <2>4. \A j \in 1..(f - 1) : q[j].id # id
    <3> TAKE j \in 1..(f - 1)
    <3>1. j \in 1..Len(q) /\ ~(f <= j)
      BY <1>1, <2>3
    <3> QED BY <2>2, <3>1 DEF At
  <2>5. f \in S!First(q, id)
    BY <1>1, <2>3, <2>4 DEF S!First
  <2>6. \A i \in S!First(q, id) : i = f
    <3> TAKE i \in S!First(q, id)
    <3>1. i \in 1..Len(q) /\ q[i].id = id /\ \A j \in 1..(i - 1) : q[j].id # id
      BY <1>1 DEF S!First
    <3>2. f <= i
      BY <2>2, <3>1 DEF At
    <3>3. ~(f \in 1..(i - 1))
      BY <2>3, <3>1
    <3> QED BY <1>1, <2>3, <3>1, <3>2, <3>3
  <2>7. S!First(q, id) = {f}
    BY <2>5, <2>6
  <2> QED BY <1>3, <2>7
<1> QED BY <1>2, <1>3

LEMMA CountOfKept ==
  ASSUME NEW q \in Seq(QueueItems), NEW K \in PartsOf(Len(q)), NEW id
  PROVE  Count(S!Keep(q, K), id) = Cardinality(At(q, id) \cap K)
<1> DEFINE r == S!Keep(q, K)
<1>1. r \in Seq(QueueItems)
  BY PlacesOfKept
<1>2. PICK h : /\ Places(h, r, q)
               /\ \A i \in 1..Len(r) : h[i] \in K
               /\ \A k \in K : \E i \in 1..Len(r) : h[i] = k
  BY PlacesOfKept
<1> HIDE DEF r
<1>3. /\ \A i \in 1..Len(r) : h[i] \in 1..Len(q) /\ r[i] = q[h[i]]
      /\ \A i, j \in 1..Len(r) : i < j => h[i] < h[j]
      /\ Len(r) \in Nat
  <2>1. /\ \A i \in 1..Len(r) : h[i] \in 1..Len(q) /\ r[i] = q[h[i]]
        /\ \A i, j \in 1..Len(r) : i < j => h[i] < h[j]
    BY <1>2 DEF Places
  <2>2. Len(r) \in Nat
    BY <1>1
  <2> QED BY <2>1, <2>2
<1>4. \A i, j \in 1..Len(r) : h[i] = h[j] => i = j
  <2> SUFFICES ASSUME NEW i \in 1..Len(r), NEW j \in 1..Len(r), h[i] = h[j]
               PROVE  i = j
    OBVIOUS
  <2>1. h[i] \in Int /\ ~(i < j) /\ ~(j < i)
    BY <1>3
  <2> QED BY <1>3, <2>1
<1> DEFINE g == [i \in At(r, id) |-> h[i]]
<1>5. \A i \in At(r, id) : i \in 1..Len(r) /\ h[i] \in At(q, id) \cap K
  BY <1>2, <1>3 DEF At
<1>6. g \in Injection(At(r, id), At(q, id) \cap K)
  BY <1>4, <1>5 DEF Injection, IsInjective
<1>7. \A k \in At(q, id) \cap K : \E i \in At(r, id) : g[i] = k
  <2> TAKE k \in At(q, id) \cap K
  <2>1. PICK i \in 1..Len(r) : h[i] = k
    BY <1>2
  <2>2. i \in At(r, id)
    BY <1>3, <2>1 DEF At
  <2> QED BY <2>1, <2>2
<1>8. g \in Bijection(At(r, id), At(q, id) \cap K)
  BY <1>6, <1>7 DEF Bijection, Surjection, Injection
<1>9. IsFiniteSet(At(r, id))
  BY <1>1, AtFinite
<1> QED BY <1>8, <1>9, FS_Bijection DEF ExistsBijection, Count, r

LEMMA TakeFirstFacts ==
  ASSUME NEW q \in Seq(QueueItems), NEW x, NEW id
  PROVE  Count(S!TakeFirst(q, x), id) =
           IF id = x /\ Count(q, x) # 0 THEN Count(q, x) - 1 ELSE Count(q, id)
<1> DEFINE K == DOMAIN q \ S!First(q, x)
<1>1. DOMAIN q = 1..Len(q) /\ K \in PartsOf(Len(q))
  BY DEF PartsOf
<1>2. Count(S!TakeFirst(q, x), id) = Cardinality(At(q, id) \cap K)
  <2> HIDE DEF K
  <2>1. S!TakeFirst(q, x) = S!Keep(q, K)
    BY DEF S!TakeFirst, K
  <2> QED BY <1>1, <2>1, CountOfKept
<1>3. At(q, id) \cap K = At(q, id) \ S!First(q, x)
  BY <1>1 DEF At
<1>4. Count(q, x) = 0 <=> At(q, x) = {}
  BY AtFinite, FS_EmptySet DEF Count
<1>5. CASE At(q, x) = {}
  <2>1. At(q, id) \ S!First(q, x) = At(q, id)
    BY <1>5, FirstIs
  <2> QED BY <1>2, <1>3, <1>4, <1>5, <2>1 DEF Count
<1>6. CASE At(q, x) # {}
  <2>1. PICK f \in At(q, x) : S!First(q, x) = {f}
    BY <1>6, FirstIs
  <2>2. IsFiniteSet(At(q, id))
    BY AtFinite
  <2>3. Cardinality(At(q, id) \ {f}) = IF f \in At(q, id) THEN Cardinality(At(q, id)) - 1
                                                        ELSE Cardinality(At(q, id))
    BY <2>2, FS_RemoveElement
  <2>4. f \in At(q, id) <=> id = x
    BY <2>1 DEF At
  <2> QED BY <1>2, <1>3, <1>4, <1>6, <2>1, <2>3, <2>4 DEF Count
<1> QED BY <1>5, <1>6

\* left is the sequence of queues a tick goes through in its first k rounds.
Round(q, n) == IF S!Due(queue[n]) THEN S!TakeFirst(q, queue[n].id) ELSE q
IsTick(left, k) == left[0] = queue /\ \A n \in 1..k : left[n] = Round(left[n - 1], n)

LEMMA TickExists ==
  ASSUME NEW k \in Nat
  PROVE  \E left : IsTick(left, k)
<1> DEFINE T == {n \in Nat : ~\E left : IsTick(left, n)}
<1> SUFFICES ASSUME T # {} PROVE FALSE
  OBVIOUS
<1>1. PICK m \in T : \A n \in T : m <= n
  <2> HIDE DEF T
  <2>1. T \in SUBSET Nat
    BY DEF T
  <2> QED BY <2>1, LeastNumber
<1>2. m # 0
  <2>1. IsTick([n \in {0} |-> queue], 0)
    BY DEF IsTick
  <2> QED BY <2>1
<1>3. PICK left : IsTick(left, m - 1)
  <2>1. m - 1 \in Nat /\ ~(m <= m - 1)
    BY <1>2
  <2> QED BY <1>1, <2>1
<1> DEFINE next == [n \in 0..m |-> IF n = m THEN Round(left[m - 1], m) ELSE left[n]]
<1>4. IsTick(next, m)
  <2>1. next[0] = queue
    BY <1>2, <1>3 DEF IsTick
  <2>2. ASSUME NEW n \in 1..m PROVE next[n] = Round(next[n - 1], n)
    <3>1. next[n - 1] = left[n - 1]
      OBVIOUS
    <3>2. CASE n = m
      BY <3>1, <3>2
    <3>3. CASE n # m
      <4>1. n \in 1..(m - 1) /\ next[n] = left[n]
        BY <3>3
      <4> QED BY <1>3, <3>1, <4>1 DEF IsTick
    <3> QED BY <3>2, <3>3
  <2> QED BY <2>1, <2>2 DEF IsTick
<1> QED BY <1>4

LEMMA DroppedIs ==
  ASSUME Len(queue) \in Nat
  PROVE  \E left : IsTick(left, Len(queue)) /\ S!Dropped = left[Len(queue)]
<1> DEFINE Rounds(f) == f = [n \in 0..Len(queue) |->
                               IF n = 0 THEN queue
                               ELSE IF S!Due(queue[n]) THEN S!TakeFirst(f[n - 1], queue[n].id)
                               ELSE f[n - 1]]
           left == CHOOSE f : Rounds(f)
<1>1. PICK f : IsTick(f, Len(queue))
  BY TickExists
<1>2. Rounds([n \in 0..Len(queue) |-> f[n]])
  <2> DEFINE g == [n \in 0..Len(queue) |-> f[n]]
  <2>1. \A n \in 0..Len(queue) : g[n] = IF n = 0 THEN queue
                                        ELSE IF S!Due(queue[n])
                                          THEN S!TakeFirst(g[n - 1], queue[n].id)
                                        ELSE g[n - 1]
    <3> TAKE n \in 0..Len(queue)
    <3>1. CASE n = 0
      BY <1>1, <3>1 DEF IsTick
    <3>2. CASE n # 0
      <4>1. n \in 1..Len(queue) /\ n - 1 \in 0..Len(queue)
        BY <3>2
      <4> QED BY <1>1, <3>2, <4>1 DEF IsTick, Round
    <3> QED BY <3>1, <3>2
  <2> QED BY <2>1
<1>3. Rounds(left)
  BY <1>2
<1>4. S!Dropped = left[Len(queue)]
  BY DEF S!Dropped
<1> HIDE DEF left
<1>5. IsTick(left, Len(queue))
  BY <1>3 DEF IsTick, Round
<1> QED BY <1>4, <1>5

\* After n rounds a queue is what is left of the one before, and has lost under each
\* identifier as many items as the first n had due under it.
Left(q, n) ==
  /\ q \in Seq(QueueItems)
  /\ \E h : Places(h, q, queue)
  /\ \A id : Count(q, id) + Cardinality(DueUpTo(n, id)) = Count(queue, id)

LEMMA DueFinite ==
  ASSUME queue \in Seq(QueueItems), NEW n \in 0..Len(queue), NEW id
  PROVE  /\ DueUpTo(n, id) \subseteq At(queue, id) /\ IsFiniteSet(DueUpTo(n, id))
         /\ Cardinality(DueUpTo(n, id)) \in Nat
         /\ Cardinality(DueUpTo(n, id)) <= Count(queue, id)
<1>1. DueUpTo(n, id) \in SUBSET At(queue, id)
  <2>1. \A m \in 1..n : m \in 1..Len(queue)
    OBVIOUS
  <2> QED BY <2>1 DEF DueUpTo, At
<1>2. IsFiniteSet(At(queue, id))
  BY AtFinite
<1>3. IsFiniteSet(DueUpTo(n, id)) /\ Cardinality(DueUpTo(n, id)) <= Cardinality(At(queue, id))
  BY <1>1, <1>2, FS_Subset
<1> QED BY <1>1, <1>3, FS_CardinalityType DEF Count

LEMMA DueNext ==
  ASSUME queue \in Seq(QueueItems), NEW n \in 1..Len(queue), NEW id
  PROVE  Cardinality(DueUpTo(n, id)) =
           IF S!Due(queue[n]) /\ queue[n].id = id THEN Cardinality(DueUpTo(n - 1, id)) + 1
                                                  ELSE Cardinality(DueUpTo(n - 1, id))
<1>1. n - 1 \in 0..Len(queue) /\ n \notin 1..(n - 1) /\ 1..n = (1..(n - 1)) \cup {n}
  OBVIOUS
<1>2. IsFiniteSet(DueUpTo(n - 1, id)) /\ n \notin DueUpTo(n - 1, id)
  BY <1>1, DueFinite DEF DueUpTo
<1>3. CASE S!Due(queue[n]) /\ queue[n].id = id
  <2>1. DueUpTo(n, id) = DueUpTo(n - 1, id) \cup {n}
    BY <1>1, <1>3 DEF DueUpTo
  <2>2. Cardinality(DueUpTo(n - 1, id) \cup {n}) = Cardinality(DueUpTo(n - 1, id)) + 1
    BY <1>2, FS_AddElement
  <2> QED BY <1>3, <2>1, <2>2
<1>4. CASE ~(S!Due(queue[n]) /\ queue[n].id = id)
  <2>1. DueUpTo(n, id) = DueUpTo(n - 1, id)
    BY <1>1, <1>4 DEF DueUpTo
  <2> QED BY <1>4, <2>1
<1> QED BY <1>3, <1>4

LEMMA RoundLeft ==
  ASSUME queue \in Seq(QueueItems), NEW n \in 1..Len(queue), NEW q, Left(q, n - 1)
  PROVE  Left(Round(q, n), n)
<1> DEFINE x == queue[n].id
           r == Round(q, n)
<1>0. n - 1 \in 0..Len(queue) /\ n \in 0..Len(queue) /\ q \in Seq(QueueItems)
  BY DEF Left
<1>1. CASE ~S!Due(queue[n])
  <2>1. r = q
    BY <1>1 DEF Round
  <2>2. \A id : Cardinality(DueUpTo(n, id)) = Cardinality(DueUpTo(n - 1, id))
    BY <1>1, DueNext
  <2> QED BY <2>1, <2>2 DEF Left
<1>2. CASE S!Due(queue[n])
  <2> DEFINE K == DOMAIN q \ S!First(q, x)
  <2>1. r = S!TakeFirst(q, x) /\ r = S!Keep(q, K) /\ K \in PartsOf(Len(q))
    BY <1>0, <1>2 DEF Round, S!TakeFirst, PartsOf
  <2> HIDE DEF K, r, x
  <2>2. r \in Seq(QueueItems) /\ \E g : Places(g, r, q)
    BY <1>0, <2>1, PlacesOfKept
  <2>3. PICK g, h : Places(g, r, q) /\ Places(h, q, queue)
    BY <2>2 DEF Left
  <2>4. Places([i \in 1..Len(r) |-> h[g[i]]], r, queue)
    BY <2>3 DEF Places
  <2>5. Count(q, x) # 0
    <3>1. Cardinality(DueUpTo(n, x)) = Cardinality(DueUpTo(n - 1, x)) + 1
      BY <1>2, DueNext DEF x
    <3>2. Cardinality(DueUpTo(n, x)) <= Count(queue, x)
      BY <1>0, DueFinite
    <3>3. Count(q, x) + Cardinality(DueUpTo(n - 1, x)) = Count(queue, x)
      BY DEF Left
    <3>4. Cardinality(DueUpTo(n - 1, x)) \in Nat /\ Count(q, x) \in Nat /\ Count(queue, x) \in Nat
      BY <1>0, DueFinite, AtFinite
    <3> QED BY <3>1, <3>2, <3>3, <3>4
  <2>6. ASSUME NEW id
        PROVE  Count(r, id) + Cardinality(DueUpTo(n, id)) = Count(queue, id)
    <3>1. Count(r, id) = IF id = x THEN Count(q, x) - 1 ELSE Count(q, id)
      <4>1. Count(S!TakeFirst(q, x), id) =
              IF id = x /\ Count(q, x) # 0 THEN Count(q, x) - 1 ELSE Count(q, id)
        BY <1>0, TakeFirstFacts
      <4> QED BY <2>1, <2>5, <4>1
    <3>2. Cardinality(DueUpTo(n, id)) = IF id = x THEN Cardinality(DueUpTo(n - 1, id)) + 1
                                                  ELSE Cardinality(DueUpTo(n - 1, id))
      BY <1>2, DueNext DEF x
    <3>3. Count(q, id) + Cardinality(DueUpTo(n - 1, id)) = Count(queue, id)
      BY DEF Left
    <3>4. Cardinality(DueUpTo(n - 1, id)) \in Nat /\ Count(q, id) \in Nat /\ Count(queue, id) \in Nat
      BY <1>0, DueFinite, AtFinite
    <3> QED BY <3>1, <3>2, <3>3, <3>4
  <2>7. Left(r, n)
    BY <2>2, <2>4, <2>6 DEF Left
  <2> QED BY <2>7 DEF r
<1> QED BY <1>1, <1>2

LEMMA DroppedLeft ==
  ASSUME queue \in Seq(QueueItems)
  PROVE  Left(S!Dropped, Len(queue))
<1>1. Len(queue) \in Nat
  OBVIOUS
<1>2. PICK left : IsTick(left, Len(queue)) /\ S!Dropped = left[Len(queue)]
  BY <1>1, DroppedIs
<1> DEFINE T == {n \in 0..Len(queue) : ~Left(left[n], n)}
<1>3. ASSUME T # {} PROVE FALSE
  <2>1. PICK m \in T : \A n \in T : m <= n
    <3>1. T \in SUBSET Nat
      OBVIOUS
    <3> HIDE DEF T
    <3> QED BY <1>3, <3>1, LeastNumber
  <2>2. ASSUME m = 0 PROVE Left(left[m], m)
    <3>1. left[m] = queue
      BY <1>2, <2>2 DEF IsTick
    <3>2. Places([i \in 1..Len(queue) |-> i], queue, queue)
      BY DEF Places
    <3>3. \A id : Cardinality(DueUpTo(m, id)) = 0
      <4>1. \A id : DueUpTo(m, id) = {}
        BY <2>2 DEF DueUpTo
      <4> QED BY <4>1, FS_EmptySet
    <3>4. \A id : Count(queue, id) + 0 = Count(queue, id)
      BY AtFinite
    <3> QED BY <3>1, <3>2, <3>3, <3>4 DEF Left
  <2>3. m # 0
    BY <2>2
  <2>4. m \in 1..Len(queue) /\ m - 1 \in 0..Len(queue) /\ ~(m <= m - 1)
    BY <1>1, <2>3
  <2>5. Left(left[m - 1], m - 1)
    BY <2>1, <2>4
  <2>6. left[m] = Round(left[m - 1], m)
    BY <1>2, <2>4 DEF IsTick
  <2> QED BY <2>4, <2>5, <2>6, RoundLeft
<1>4. Left(left[Len(queue)], Len(queue))
  BY <1>1, <1>3
<1> QED BY <1>2, <1>4

LEMMA LoopTickInv ==
  ASSUME QueueInv, NEW n \in DOMAIN loops, S!LoopTick(n)
  PROVE  QueueInv'
<1>1. /\ queue' = S!Dropped /\ now' = now /\ clock' = clock
      /\ items' = items /\ twinned' = twinned
  BY DEF S!LoopTick
<1>2. Left(queue', Len(queue))
  BY <1>1, DroppedLeft DEF QueueInv
<1>3. PICK h : Places(h, queue', queue)
  BY <1>2 DEF Left
<1>4. queue' \in Seq(QueueItems) /\ now' \in Int /\ clock' \in Int
  BY <1>1, <1>2 DEF Left, QueueInv
<1> QED BY <1>1, <1>3, <1>4, KeptInv

LEMMA QueueNext == QueueInv /\ (S!Next \/ UNCHANGED schedulerVars) => QueueInv'
<1> SUFFICES ASSUME QueueInv, S!Next \/ UNCHANGED schedulerVars PROVE QueueInv'
  OBVIOUS
<1>1. ASSUME UNCHANGED <<now, clock, items, queue, twinned>> PROVE QueueInv'
  BY <1>1 DEF QueueInv, Ordered, Mapped, S!IDs
<1>2. CASE UNCHANGED schedulerVars
  BY <1>1, <1>2 DEF schedulerVars
<1>3. CASE S!Next
  <2>1. CASE \E gs \in S!OneOrNone(QueueGoals), es \in S!OneOrNone(QueueEvents),
                ts \in S!OneOrNone(QueueTimers) : S!Schedule(gs, es, ts)
    BY <2>1, ScheduleInv
  <2>2. CASE \E g \in QueueGoals : S!Enqueue(g)
    BY <2>2, EnqueueInv
  <2>3. CASE \E id \in S!IDs : S!Dequeue(id)
    BY <2>3, DequeueInv
  <2>4. CASE S!DequeueReady
    BY <2>4, DequeueReadyInv
  <2>5. CASE \E c \in Callers : S!RunBegin(c) \/ S!RunEnd(c) \/ S!StopBegin(c) \/ S!StopEnd(c)
    BY <1>1, <2>5 DEF S!RunBegin, S!RunEnd, S!StopBegin, S!StopEnd, S!data
  <2>6. CASE \E n \in DOMAIN loops : S!LoopSelect(n) \/ S!LoopExit(n)
    BY <1>1, <2>6 DEF S!LoopSelect, S!LoopExit, S!data
  <2>7. CASE \E n \in DOMAIN loops : S!LoopTick(n)
    BY <2>7, LoopTickInv
  <2>8. CASE S!ClockTick
    <3>1. now' \in Int /\ UNCHANGED <<clock, items, queue, twinned>>
      BY <2>8 DEF S!ClockTick, S!data, QueueInv
    <3> QED BY <3>1 DEF QueueInv, Ordered, Mapped, S!IDs
  <2> QED BY <1>3, <2>1, <2>2, <2>3, <2>4, <2>5, <2>6, <2>7, <2>8 DEF S!Next
<1> QED BY <1>2, <1>3

LEMMA QueueHolds == SurroundingsSpec => []QueueInv
<1>1. SurroundingsInit => QueueInv
  <2> SUFFICES ASSUME SurroundingsInit PROVE QueueInv
    OBVIOUS
  <2>1. now = 1 /\ clock = 0 /\ queue = << >>
    BY DEF SurroundingsInit, S!Init
  <2>2. queue \in Seq(QueueItems) /\ 1..Len(queue) = {}
    BY <2>1
  <2> QED BY <2>1, <2>2 DEF QueueInv, Ordered, Mapped
<1>2. QueueInv /\ [SurroundingsNext /\ UNCHANGED part]_<<part, surroundings>> => QueueInv'
  BY StepsOfParts, QueueNext
<1> QED BY <1>1, <1>2, PTL DEF SurroundingsSpec

\* scheduler.go:74-254: the queue is in order of urgency, and the map has its items.
THEOREM QueueSoundCorrect == SurroundingsSpec => []QueueSound
<1>1. QueueInv => QueueSound
  <2> SUFFICES ASSUME QueueInv PROVE S!QueueSound
    BY DEF QueueSound
  <2>0. DOMAIN queue = 1..Len(queue) /\ Len(queue) \in Nat
    BY DEF QueueInv
  <2>1. ASSUME NEW i \in DOMAIN queue, NEW j \in DOMAIN queue, i < j
        PROVE  /\ queue[j].deadline # 0 => queue[i].deadline \in 1..queue[j].deadline
               /\ queue[i].deadline = queue[j].deadline =>
                    \/ queue[i].at < queue[j].at
                    \/ queue[i].at = queue[j].at /\ queue[i].priority >= queue[j].priority
    <3> DEFINE a == queue[i]
               b == queue[j]
    <3>1. Fits(a, b) /\ a \in QueueItems /\ b \in QueueItems
      BY <2>0, <2>1 DEF QueueInv, Ordered
    <3> HIDE DEF a, b
    <3>2. /\ a.deadline \in Nat /\ a.at \in Int /\ a.priority \in Int /\ a.clock \in Int
          /\ b.deadline \in Nat /\ b.at \in Int /\ b.priority \in Int /\ b.clock \in Int
      BY <3>1 DEF QueueItems
    <3>3. CASE a = b
      BY <3>2, <3>3 DEF a, b
    <3>4. CASE S!Before(a, b)
      <4>1. /\ b.deadline # 0 => a.deadline \in 1..b.deadline
            /\ a.deadline = b.deadline =>
                 a.at < b.at \/ (a.at = b.at /\ a.priority >= b.priority)
        BY <3>2, <3>4 DEF S!Before
      <4> QED BY <4>1 DEF a, b
    <3> QED BY <3>1, <3>3, <3>4 DEF Fits
  <2>2. \A i \in DOMAIN queue : queue[i].id \notin twinned =>
          queue[i].id \in DOMAIN items /\ items[queue[i].id] = queue[i]
    BY <2>0 DEF QueueInv, Mapped
  <2> QED BY <2>1, <2>2 DEF S!QueueSound
<1> QED BY <1>1, QueueHolds, PTL

LEMMA TickTakes ==
  ASSUME QueueInv, NEW n \in DOMAIN loops, S!LoopTick(n), NEW id
  PROVE  S!Queued(id)' =
           S!Cardinality({i \in DOMAIN queue : queue[i].id = id /\ ~S!Due(queue[i])})
<1> DEFINE due == DueUpTo(Len(queue), id)
<1>1. queue \in Seq(QueueItems) /\ DOMAIN queue = 1..Len(queue) /\ Len(queue) \in Nat
  BY DEF QueueInv
<1>2. Left(queue', Len(queue))
  BY <1>1, DroppedLeft DEF S!LoopTick
<1>3. Count(queue', id) + Cardinality(due) = Count(queue, id) /\ queue' \in Seq(QueueItems)
  BY <1>2 DEF Left
<1>4. S!Queued(id)' = Count(queue', id)
  <2>1. DOMAIN queue' = 1..Len(queue')
    BY <1>3
  <2> QED BY <2>1, SameCardinality DEF S!Queued, Count, At
<1>5. {i \in DOMAIN queue : queue[i].id = id /\ ~S!Due(queue[i])} = At(queue, id) \ due
  BY <1>1 DEF At, DueUpTo
<1>6. /\ due \subseteq At(queue, id) /\ IsFiniteSet(At(queue, id))
      /\ Cardinality(due) \in Nat /\ Count(queue, id) \in Nat /\ Count(queue', id) \in Nat
  <2>1. Len(queue) \in 0..Len(queue)
    BY <1>1
  <2> QED BY <1>1, <1>3, <2>1, DueFinite, AtFinite
<1> HIDE DEF due
<1>7. Cardinality(At(queue, id) \ due) = Count(queue, id) - Cardinality(due)
  <2>1. At(queue, id) \cap due = due
    BY <1>6
  <2> QED BY <1>6, <2>1, FS_Difference DEF Count
<1>8. Count(queue', id) = Count(queue, id) - Cardinality(due)
  BY <1>3, <1>6
<1>9. S!Cardinality({i \in DOMAIN queue : queue[i].id = id /\ ~S!Due(queue[i])})
        = Cardinality(At(queue, id) \ due)
  BY <1>5, SameCardinality
<1> QED BY <1>4, <1>7, <1>8, <1>9

\* scheduler.go:311-318: a tick takes under each identifier as many as are due under it.
THEOREM TickTakesWhatIsDueCorrect == SurroundingsSpec => TickTakesWhatIsDue
<1> DEFINE Takes == (\E n \in DOMAIN loops : S!LoopTick(n)) =>
                      \A id \in S!IDs : S!Queued(id)' =
                        S!Cardinality({i \in DOMAIN queue : queue[i].id = id /\ ~S!Due(queue[i])})
<1>1. QueueInv => [Takes]_S!vars
  BY TickTakes
<1> QED BY <1>1, QueueHolds, PTL DEF TickTakesWhatIsDue, S!TickTakesWhatIsDue

-----------------------------------------------------------------------------
(* The server process.  While no identifier is lost the events lie at      *)
(* their identifiers; then each batch of an HTTP stream begins with the    *)
(* event the batch before it ended with, which was there once.             *)

StreamStates ==
  [at : {"off", "wait", "read", "send"}, last : Nat, length : Nat, sent : Seq(Nat)]

ProcessTyped ==
  /\ ids \in Seq(Nat) /\ nextID \in Nat \ {0} /\ Len(ids) <= P!Length
  /\ streams \in [P!Streams -> StreamStates]

Whole == Len(ids) = P!Length

\* sent holds the events up to last, in order, none three times and the last once.
Sent(sent, last) ==
  /\ \A i \in DOMAIN sent : sent[i] \in 1..last /\ (i < Len(sent) => sent[i] < last)
  /\ \A e \in 1..last : \E i \in DOMAIN sent : sent[i] = e
  /\ \A i, j \in DOMAIN sent : i < j => sent[i] <= sent[j]
  /\ \A i, j, k \in DOMAIN sent : i < j /\ j < k => sent[i] < sent[k]

StreamsSound ==
  Whole => /\ \A i \in DOMAIN ids : ids[i] = i
           /\ \A s \in HTTPStreams :
                /\ Sent(streams[s].sent, streams[s].last)
                /\ streams[s].at = "read" => /\ streams[s].last < streams[s].length
                                             /\ streams[s].length <= P!Length

ClosedFromStopOn == phase \in {"drainGRPC", "stopHTTP", "drainHTTP", "stopRuntime"} => told

ProcessInv == ProcessTyped /\ StreamsSound /\ ClosedFromStopOn /\ P!DeathExplained

LEMMA ProcessInit == ASSUME P!Init \/ ProcessOver PROVE ProcessInv
<1>1. /\ ids = << >> /\ nextID = 1 /\ phase \in {"startGRPC", "ended"}
      /\ streams = [s \in P!Streams |-> P!Idle]
  BY DEF P!Init, ProcessOver
<1>2. P!Idle \in StreamStates /\ P!Idle.sent = << >> /\ P!Idle.last = 0 /\ P!Idle.at = "off"
  BY DEF P!Idle, StreamStates
<1>3. ProcessTyped
  BY <1>1, <1>2 DEF ProcessTyped, P!Length
<1>4. Sent(<< >>, 0)
  BY DEF Sent
<1>5. StreamsSound
  BY <1>1, <1>2, <1>4 DEF StreamsSound, P!Streams
<1> QED BY <1>1, <1>3, <1>5 DEF ProcessInv, ClosedFromStopOn, P!DeathExplained

\* A batch of a log without holes is a run of identifiers.
LEMMA WholeBatch ==
  ASSUME ProcessTyped, Whole, \A i \in DOMAIN ids : ids[i] = i,
         NEW start \in Nat, NEW end \in Nat, start < end, end <= P!Length,
         NEW batch \in P!RangeRead(start, end)
  PROVE  LET from == IF start = 0 THEN 1 ELSE start
         IN  batch = [i \in 1..(end - from + 1) |-> from + i - 1]
<1> DEFINE from == IF start = 0 THEN 1 ELSE start
           read == [i \in 1..(end - from + 1) |->
                      IF from + i - 1 \in DOMAIN ids THEN ids[from + i - 1] ELSE 0]
<1>1. P!Length \in Nat /\ Len(ids) = P!Length
  BY DEF ProcessTyped, P!Length, Whole
<1>2. ~(end > P!Length)
  BY <1>1
<1>3. batch = read
  BY <1>1, <1>2 DEF P!RangeRead
<1>4. from \in Nat /\ from >= 1
  OBVIOUS
<1>5. \A i \in 1..(end - from + 1) : from + i - 1 \in DOMAIN ids
  BY <1>1, <1>4 DEF ProcessTyped
<1> QED BY <1>3, <1>5

\* Joined to what was sent up to its first event, it is what was sent up to its last.
LEMMA BatchJoined ==
  ASSUME NEW sent \in Seq(Nat), NEW last \in Nat, NEW end \in Nat, last < end, Sent(sent, last)
  PROVE  LET from == IF last = 0 THEN 1 ELSE last
         IN  Sent(sent \o [i \in 1..(end - from + 1) |-> from + i - 1], end)
<1> DEFINE from == IF last = 0 THEN 1 ELSE last
           read == [i \in 1..(end - from + 1) |-> from + i - 1]
           all  == sent \o read
           n    == Len(sent)
<1>1. from \in Nat /\ from >= 1 /\ last <= from /\ from <= end
  OBVIOUS
<1>2. read \in Seq(Nat) /\ Len(read) = end - from + 1
  BY <1>1
<1> DEFINE m == n + (end - from + 1)
<1>3. /\ n \in Nat /\ m \in Nat /\ n < m /\ Len(all) = m /\ DOMAIN all = 1..m
      /\ \A i \in 1..n : all[i] = sent[i]
      /\ \A i \in (n + 1)..m : all[i] = from + (i - n) - 1
  BY <1>1, <1>2
<1>4. /\ \A i \in 1..n : sent[i] \in 1..last /\ (i < n => sent[i] < last)
      /\ \A e \in 1..last : \E i \in 1..n : sent[i] = e
      /\ \A i, j \in 1..n : i < j => sent[i] <= sent[j]
      /\ \A i, j, k \in 1..n : i < j /\ j < k => sent[i] < sent[k]
  <2>1. DOMAIN sent = 1..n /\ Len(sent) = n
    OBVIOUS
  <2> HIDE DEF from, read, all, n, m
  <2> QED BY <2>1 DEF Sent
<1> HIDE DEF from, read, all, n, m
<1>5. \A i \in (n + 1)..m : all[i] \in from..end /\ (i < m => all[i] < end)
  BY <1>1, <1>3 DEF m
<1>6. \A i \in 1..m : all[i] \in 1..end /\ (i < m => all[i] < end)
  <2> SUFFICES ASSUME NEW i \in 1..m PROVE all[i] \in 1..end /\ (i < m => all[i] < end)
    OBVIOUS
  <2>1. CASE i \in 1..n
    <3>1. all[i] = sent[i] /\ sent[i] \in 1..last
      BY <1>3, <1>4, <2>1
    <3> QED BY <3>1
  <2>2. CASE i \in (n + 1)..m
    BY <1>1, <1>5, <2>2
  <2> QED BY <1>3, <2>1, <2>2
<1>7. ASSUME NEW e \in 1..end PROVE \E i \in 1..m : all[i] = e
  <2>1. CASE e < from
    <3>1. e \in 1..last
      BY <1>1, <2>1 DEF from
    <3>2. PICK i \in 1..n : sent[i] = e
      BY <1>4, <3>1
    <3> QED BY <1>3, <3>2
  <2>2. CASE e >= from
    <3>1. n + (e - from + 1) \in (n + 1)..m
      BY <1>1, <1>3, <2>2 DEF m
    <3>2. all[n + (e - from + 1)] = from + ((n + (e - from + 1)) - n) - 1
      BY <1>3, <3>1
    <3> QED BY <1>1, <1>3, <3>1, <3>2
  <2> QED BY <1>1, <2>1, <2>2
<1>8. ASSUME NEW i \in 1..m, NEW j \in 1..m, i < j
      PROVE  all[i] <= all[j] /\ (n < i \/ i + 1 < j => all[i] < all[j])
  <2>1. CASE j <= n
    <3>1. all[i] = sent[i] /\ all[j] = sent[j] /\ i \in 1..n /\ j \in 1..n /\ i + 1 \in 1..n
      BY <1>3, <1>8, <2>1
    <3>2. i + 1 < j => sent[i] < sent[j]
      BY <1>4, <3>1
    <3> QED BY <1>3, <1>4, <1>8, <2>1, <3>1, <3>2
  <2>2. CASE i <= n /\ n < j
    <3>1. all[i] = sent[i] /\ all[j] = from + (j - n) - 1 /\ i \in 1..n
      BY <1>3, <2>2
    <3>2. sent[i] \in 1..last /\ (i < n => sent[i] < last)
      BY <1>4, <3>1
    <3> QED BY <1>1, <1>3, <2>2, <3>1, <3>2
  <2>3. CASE n < i
    <3>1. all[i] = from + (i - n) - 1 /\ all[j] = from + (j - n) - 1
      BY <1>3, <1>8, <2>3
    <3> QED BY <1>1, <1>3, <1>8, <3>1
  <2> QED BY <1>3, <2>1, <2>2, <2>3
<1>9. Sent(all, end)
  <2>1. \A i, j, k \in 1..m : i < j /\ j < k => all[i] < all[k]
    BY <1>3, <1>8
  <2> QED BY <1>3, <1>6, <1>7, <1>8, <2>1 DEF Sent
<1> QED BY <1>9 DEF all, read, from

\* Any batch is a sequence of identifiers or a panic, and that needs a log with a hole.
LEMMA AnyBatch ==
  ASSUME ProcessTyped, NEW start \in Nat, NEW end \in Nat, NEW batch \in P!RangeRead(start, end)
  PROVE  /\ batch # P!Panics => batch \in Seq(Nat)
         /\ batch = P!Panics => Len(ids) < P!Length
<1> DEFINE from == IF start = 0 THEN 1 ELSE start
           to   == IF end > P!Length THEN P!Length ELSE end
           read == [i \in 1..(to - from + 1) |->
                      IF from + i - 1 \in DOMAIN ids THEN ids[from + i - 1] ELSE 0]
<1>1. P!Length \in Nat /\ from \in Nat /\ to \in Nat /\ Len(ids) \in Nat /\ to <= P!Length
  BY DEF ProcessTyped, P!Length
<1>2. batch = read \/ (batch = P!Panics /\ ~(to <= Len(ids)))
  BY DEF P!RangeRead
<1>3. read \in Seq(Nat)
  <2>0. \A k \in DOMAIN ids : ids[k] \in Nat
    BY DEF ProcessTyped
  <2>1. \A i \in 1..(to - from + 1) : read[i] \in Nat
    BY <2>0
  <2>2. CASE to - from + 1 \in Nat
    BY <2>1, <2>2, <1>1
  <2>3. CASE to - from + 1 < 0
    <3>1. 1..(to - from + 1) = 1..0
      BY <1>1, <2>3
    <3>2. read = << >>
      BY <3>1
    <3> HIDE DEF read
    <3> QED BY <3>2
  <2> QED BY <1>1, <2>2, <2>3
<1>4. <<-1>> \notin Seq(Nat)
  <2>1. <<-1>> \in Seq(Nat) => <<-1>>[1] \in Nat
    OBVIOUS
  <2> QED BY <2>1
<1>5. read # P!Panics
  BY <1>3, <1>4 DEF P!Panics
<1> HIDE DEF read, to, from
<1> QED BY <1>1, <1>2, <1>3, <1>5

\* What one stream does is sound if its new state is.
LEMMA OneStream ==
  ASSUME ProcessInv, phase # "died", UNCHANGED <<phase, grpc, http, told, ids, nextID>>,
         NEW s \in P!Streams, NEW st \in StreamStates, streams' = [streams EXCEPT ![s] = st],
         Whole /\ s \in HTTPStreams =>
           /\ Sent(st.sent, st.last)
           /\ st.at = "read" => st.last < st.length /\ st.length <= P!Length
  PROVE  ProcessInv'
<1>1. ProcessTyped'
  BY DEF ProcessInv, ProcessTyped, P!Length
<1>2. Whole' = Whole /\ P!Length' = P!Length
  BY DEF Whole, P!Length
<1>3. StreamsSound'
  <2> SUFFICES ASSUME Whole
               PROVE  /\ \A i \in DOMAIN ids : ids[i] = i
                      /\ \A t \in HTTPStreams :
                           /\ Sent(streams'[t].sent, streams'[t].last)
                           /\ streams'[t].at = "read" => /\ streams'[t].last < streams'[t].length
                                                         /\ streams'[t].length <= P!Length
    BY <1>2 DEF StreamsSound
  <2>1. \A t \in HTTPStreams : t \in P!Streams
    BY DEF P!Streams
  <2>2. \A t \in HTTPStreams : streams'[t] = IF t = s THEN st ELSE streams[t]
    BY <2>1 DEF ProcessInv, ProcessTyped
  <2> QED BY <2>2 DEF ProcessInv, StreamsSound
<1>4. ClosedFromStopOn' /\ P!DeathExplained'
  BY DEF ProcessInv, ClosedFromStopOn, P!DeathExplained
<1> QED BY <1>1, <1>3, <1>4 DEF ProcessInv

LEMMA ConnectInv ==
  ASSUME ProcessInv, phase # "died", NEW s \in P!Streams, P!Connect(s)
  PROVE  ProcessInv'
<1> DEFINE st == [P!Idle EXCEPT !.at = "wait"]
<1>1. st \in StreamStates /\ st.at = "wait" /\ st.sent = << >> /\ st.last = 0
  <2>1. st = [at |-> "wait", last |-> 0, length |-> 0, sent |-> << >>]
    BY DEF P!Idle
  <2> HIDE DEF st
  <2> QED BY <2>1 DEF StreamStates
<1>2. Sent(<< >>, 0)
  BY DEF Sent
<1>3. streams' = [streams EXCEPT ![s] = st] /\ UNCHANGED <<phase, grpc, http, told, ids, nextID>>
  BY DEF P!Connect
<1> HIDE DEF st
<1> QED BY <1>1, <1>2, <1>3, OneStream

\* A stream that changes its place and nothing it has sent.
LEMMA PlaceInv ==
  ASSUME ProcessInv, phase # "died", UNCHANGED <<phase, grpc, http, told, ids, nextID>>,
         NEW s \in P!Streams, NEW at \in {"off", "wait", "read", "send"}, NEW length \in Nat,
         streams' = [streams EXCEPT ![s].at = at, ![s].length = length],
         at = "read" /\ s \in HTTPStreams => streams[s].last < length /\ length <= P!Length
  PROVE  ProcessInv'
<1> DEFINE st == [streams[s] EXCEPT !.at = at, !.length = length]
<1>1. streams[s] \in StreamStates
  BY DEF ProcessInv, ProcessTyped
<1>2. /\ st \in StreamStates /\ st.at = at /\ st.length = length
      /\ st.sent = streams[s].sent /\ st.last = streams[s].last
  BY <1>1 DEF StreamStates
<1>3. streams' = [streams EXCEPT ![s] = st]
  OBVIOUS
<1>4. Whole /\ s \in HTTPStreams => Sent(streams[s].sent, streams[s].last)
  BY DEF ProcessInv, StreamsSound
<1> HIDE DEF st
<1> QED BY <1>2, <1>3, <1>4, OneStream

LEMMA LookInv ==
  ASSUME ProcessInv, phase # "died", NEW s \in P!Streams,
         \/ s \in HTTPStreams /\ P!HTTPLook(s)
         \/ s \in GRPCStreams /\ P!GRPCLook(s)
  PROVE  ProcessInv'
<1>1. P!Length \in Nat
  BY DEF ProcessInv, ProcessTyped, P!Length
<1>2. /\ UNCHANGED <<phase, grpc, http, told, ids, nextID>>
      /\ streams' = [streams EXCEPT ![s].at = "read", ![s].length = P!Length]
  BY DEF P!HTTPLook, P!GRPCLook
<1>3. s \in HTTPStreams => streams[s].last < P!Length
  <2>1. s \in HTTPStreams => P!Length > streams[s].last
    BY SurroundingsAssumption DEF P!HTTPLook
  <2>2. streams[s].last \in Nat
    BY DEF ProcessInv, ProcessTyped, StreamStates
  <2> QED BY <1>1, <2>1, <2>2
<1>4. P!Length <= P!Length /\ "read" \in {"off", "wait", "read", "send"}
  BY <1>1
<1> QED BY <1>1, <1>2, <1>3, <1>4, PlaceInv

\* Disconnect, GRPCSent, GRPCExit.
LEMMA LeaveInv ==
  ASSUME ProcessInv, phase # "died", NEW s \in P!Streams, NEW at \in {"off", "wait"},
         UNCHANGED <<phase, grpc, http, told, ids, nextID>>,
         streams' = [streams EXCEPT ![s].at = at]
  PROVE  ProcessInv'
<1>1. streams[s] \in StreamStates /\ streams[s].length \in Nat
  BY DEF ProcessInv, ProcessTyped, StreamStates
<1>2. streams' = [streams EXCEPT ![s].at = at, ![s].length = streams[s].length]
  BY <1>1 DEF StreamStates
<1> QED BY <1>1, <1>2, PlaceInv

LEMMA HTTPReadInv ==
  ASSUME ProcessInv, phase # "died", NEW s \in HTTPStreams, P!HTTPRead(s)
  PROVE  ProcessInv'
<1>1. s \in P!Streams
  BY DEF P!Streams
<1>2. PICK batch \in P!RangeRead(streams[s].last, streams[s].length) :
        streams' = [streams EXCEPT
          ![s].at = IF batch = P!Panics THEN "off" ELSE "wait",
          ![s].last = streams[s].length,
          ![s].sent = IF batch = P!Panics THEN @ ELSE @ \o batch]
  BY DEF P!HTTPRead
<1>3. /\ streams[s].at = "read" /\ UNCHANGED <<phase, grpc, http, told, ids, nextID>>
  BY DEF P!HTTPRead
<1>4. /\ streams[s] \in StreamStates /\ streams[s].last \in Nat /\ streams[s].length \in Nat
      /\ streams[s].sent \in Seq(Nat) /\ ProcessTyped
  BY <1>1 DEF ProcessInv, ProcessTyped, StreamStates
<1>5. /\ batch # P!Panics => batch \in Seq(Nat)
      /\ batch = P!Panics => Len(ids) < P!Length
  BY <1>4, AnyBatch
<1> DEFINE st == [streams[s] EXCEPT
                    !.at = IF batch = P!Panics THEN "off" ELSE "wait",
                    !.last = streams[s].length,
                    !.sent = IF batch = P!Panics THEN @ ELSE @ \o batch]
<1>6. /\ st \in StreamStates /\ st.last = streams[s].length /\ st.at # "read"
      /\ st.sent = IF batch = P!Panics THEN streams[s].sent ELSE streams[s].sent \o batch
  <2> DEFINE sent == IF batch = P!Panics THEN streams[s].sent ELSE streams[s].sent \o batch
             at   == IF batch = P!Panics THEN "off" ELSE "wait"
  <2>1. sent \in Seq(Nat)
    BY <1>4, <1>5
  <2>2. at \in {"off", "wait"}
    OBVIOUS
  <2>3. st = [streams[s] EXCEPT !.at = at, !.last = streams[s].length, !.sent = sent]
    OBVIOUS
  <2> HIDE DEF st, sent, at
  <2>4. /\ st \in StreamStates /\ st.last = streams[s].length /\ st.at # "read"
        /\ st.sent = sent
    BY <1>4, <2>1, <2>2, <2>3 DEF StreamStates
  <2> QED BY <2>4 DEF sent
<1>7. streams' = [streams EXCEPT ![s] = st]
  BY <1>2
<1> HIDE DEF st
<1>8. ASSUME Whole PROVE Sent(st.sent, st.last)
  <2>1. batch # P!Panics
    BY <1>4, <1>5, <1>8 DEF Whole, ProcessTyped, P!Length
  <2>2. /\ \A i \in DOMAIN ids : ids[i] = i /\ Sent(streams[s].sent, streams[s].last)
        /\ streams[s].last < streams[s].length /\ streams[s].length <= P!Length
    BY <1>3, <1>8 DEF ProcessInv, StreamsSound
  <2>3. Sent(streams[s].sent, streams[s].last)
    BY <1>8 DEF ProcessInv, StreamsSound
  <2> DEFINE from == IF streams[s].last = 0 THEN 1 ELSE streams[s].last
  <2>4. batch = [i \in 1..(streams[s].length - from + 1) |-> from + i - 1]
    BY <1>4, <1>8, <2>2, WholeBatch
  <2>5. Sent(streams[s].sent \o batch, streams[s].length)
    BY <1>4, <2>2, <2>3, <2>4, BatchJoined
  <2> QED BY <1>6, <2>1, <2>5
<1> QED BY <1>1, <1>3, <1>6, <1>7, <1>8, OneStream

LEMMA GRPCReadInv ==
  ASSUME ProcessInv, phase # "died", NEW s \in GRPCStreams, P!GRPCRead(s)
  PROVE  ProcessInv'
<1>1. s \in P!Streams /\ s \notin HTTPStreams
  BY SurroundingsAssumption DEF P!Streams
<1>2. PICK batch \in P!RangeRead(0, streams[s].length) :
        IF batch = P!Panics THEN phase' = "died" /\ UNCHANGED streams
        ELSE /\ streams' = [streams EXCEPT ![s].at = "send", ![s].sent = batch]
             /\ UNCHANGED phase
  BY DEF P!GRPCRead
<1>3. streams[s].at = "read" /\ UNCHANGED <<grpc, http, told, ids, nextID>>
  BY DEF P!GRPCRead
<1>4. streams[s] \in StreamStates /\ streams[s].length \in Nat /\ ProcessTyped
  BY <1>1 DEF ProcessInv, ProcessTyped, StreamStates
<1>5. /\ batch # P!Panics => batch \in Seq(Nat)
      /\ batch = P!Panics => Len(ids) < P!Length
  BY <1>4, AnyBatch
<1>6. CASE batch = P!Panics
  <2>1. phase' = "died" /\ UNCHANGED <<streams, grpc, http, told, ids, nextID>>
    BY <1>2, <1>3, <1>6
  <2>2. Len(ids') < P!Length'
    BY <1>5, <1>6, <2>1 DEF P!Length
  <2>3. P!DeathExplained'
    BY <1>3, <2>1, <2>2 DEF P!DeathExplained
  <2>4. ProcessTyped' /\ StreamsSound' /\ ClosedFromStopOn'
    BY <2>1 DEF ProcessInv, ProcessTyped, StreamsSound, Whole, P!Length, ClosedFromStopOn
  <2> QED BY <2>3, <2>4 DEF ProcessInv
<1>7. CASE batch # P!Panics
  <2> DEFINE st == [streams[s] EXCEPT !.at = "send", !.sent = batch]
  <2>1. st \in StreamStates
    BY <1>4, <1>5, <1>7 DEF StreamStates
  <2>2. streams' = [streams EXCEPT ![s] = st]
    BY <1>2, <1>7
  <2>3. UNCHANGED <<phase, grpc, http, told, ids, nextID>>
    BY <1>2, <1>3, <1>7
  <2> HIDE DEF st
  <2> QED BY <1>1, <2>1, <2>2, <2>3, OneStream
<1> QED BY <1>6, <1>7

LEMMA AppendEventInv ==
  ASSUME ProcessInv, phase # "died", NEW failed \in 0..1, P!AppendEvent(failed)
  PROVE  ProcessInv'
<1>1. /\ ids' = Append(ids, nextID + failed) /\ nextID' = nextID + failed + 1
      /\ UNCHANGED <<phase, grpc, http, told, streams>>
  BY DEF P!AppendEvent
<1>2. ids \in Seq(Nat) /\ nextID \in Nat \ {0} /\ Len(ids) <= nextID - 1
  BY DEF ProcessInv, ProcessTyped, P!Length
<1>3. /\ ids' \in Seq(Nat) /\ Len(ids') = Len(ids) + 1
      /\ \A i \in 1..Len(ids) : ids'[i] = ids[i]
      /\ ids'[Len(ids) + 1] = nextID + failed
  BY <1>1, <1>2
<1>4. P!Length' = nextID + failed /\ P!Length = nextID - 1
  BY <1>1, <1>2 DEF P!Length
<1>5. ProcessTyped'
  BY <1>1, <1>2, <1>3, <1>4 DEF ProcessInv, ProcessTyped
<1>6. StreamsSound'
  <2> SUFFICES ASSUME Whole'
               PROVE  /\ \A i \in DOMAIN ids' : ids'[i] = i
                      /\ \A s \in HTTPStreams :
                           /\ Sent(streams[s].sent, streams[s].last)
                           /\ streams[s].at = "read" => /\ streams[s].last < streams[s].length
                                                        /\ streams[s].length <= P!Length'
    BY <1>1 DEF StreamsSound
  <2>1. failed = 0 /\ Whole
    <3>1. Len(ids') = P!Length'
      BY DEF Whole
    <3>2. Len(ids) + 1 = nextID + failed
      BY <1>3, <1>4, <3>1
    <3> QED BY <1>2, <1>4, <3>2 DEF Whole
  <2>2. \A i \in DOMAIN ids' : ids'[i] = i
    <3>1. DOMAIN ids' = 1..(Len(ids) + 1) /\ Len(ids) + 1 = nextID
      BY <1>2, <1>3, <1>4, <2>1 DEF Whole
    <3>2. \A i \in 1..Len(ids) : ids[i] = i
      BY <1>2, <2>1 DEF ProcessInv, StreamsSound
    <3> QED BY <1>2, <1>3, <2>1, <3>1, <3>2
  <2>3. \A s \in HTTPStreams : streams[s].length \in Nat
    BY DEF ProcessInv, ProcessTyped, StreamStates, P!Streams
  <2> QED BY <1>2, <1>4, <2>1, <2>2, <2>3 DEF ProcessInv, StreamsSound
<1>7. ClosedFromStopOn' /\ P!DeathExplained'
  BY <1>1 DEF ProcessInv, ClosedFromStopOn, P!DeathExplained
<1> QED BY <1>5, <1>6, <1>7 DEF ProcessInv

\* main moves on; streams and log stand still.
LEMMA MainInv ==
  ASSUME ProcessInv, phase # "died", P!Main \/ P!Signal
  PROVE  ProcessInv'
<1>1. UNCHANGED <<ids, nextID, streams>>
  BY DEF P!Main, P!Signal, P!StartGRPC, P!StartHTTP, P!StopGRPC, P!GRPCDrained, P!StopHTTP,
         P!HTTPDrained, P!StopRuntime
<1>2. ProcessTyped' /\ StreamsSound'
  BY <1>1 DEF ProcessInv, ProcessTyped, StreamsSound, Whole, P!Length
<1>3. ClosedFromStopOn' /\ (phase' = "died" => told' /\ (grpc' = "nil" \/ http' = "nil"))
  <2>1. CASE P!StartGRPC \/ P!StartHTTP \/ P!Signal
    BY <2>1 DEF P!StartGRPC, P!StartHTTP, P!Signal, ClosedFromStopOn
  <2>2. CASE P!StopGRPC
    BY <2>2 DEF P!StopGRPC, ClosedFromStopOn
  <2>3. CASE P!GRPCDrained \/ P!HTTPDrained \/ P!StopRuntime
    BY <2>3 DEF P!GRPCDrained, P!HTTPDrained, P!StopRuntime, ClosedFromStopOn, ProcessInv
  <2>4. CASE P!StopHTTP
    BY <2>4 DEF P!StopHTTP, ClosedFromStopOn, ProcessInv
  <2> QED BY <2>1, <2>2, <2>3, <2>4 DEF P!Main
<1> QED BY <1>2, <1>3 DEF ProcessInv, P!DeathExplained

LEMMA ProcessNext == ProcessInv /\ (P!Next \/ UNCHANGED processVars) => ProcessInv'
<1> SUFFICES ASSUME ProcessInv, P!Next \/ UNCHANGED processVars PROVE ProcessInv'
  OBVIOUS
<1>1. CASE UNCHANGED processVars
  BY <1>1 DEF processVars, ProcessInv, ProcessTyped, StreamsSound, Whole, P!Length,
              ClosedFromStopOn, P!DeathExplained
<1>2. CASE P!Next
  <2>1. phase # "died"
    BY <1>2 DEF P!Next, P!Over
  <2>2. CASE P!Main \/ P!Signal
    BY <2>1, <2>2, MainInv
  <2>3. ASSUME NEW failed \in 0..1, P!AppendEvent(failed) PROVE ProcessInv'
    BY <2>1, <2>3, AppendEventInv
  <2>4. ASSUME NEW s \in P!Streams, P!Connect(s) \/ P!Disconnect(s) PROVE ProcessInv'
    BY <2>1, <2>4, ConnectInv, LeaveInv DEF P!Disconnect
  <2>5. ASSUME NEW s \in HTTPStreams, P!HTTPLook(s) \/ P!HTTPRead(s) PROVE ProcessInv'
    BY <2>1, <2>5, LookInv, HTTPReadInv DEF P!Streams
  <2>6. ASSUME NEW s \in GRPCStreams,
               P!GRPCLook(s) \/ P!GRPCRead(s) \/ P!GRPCSent(s) \/ P!GRPCExit(s)
        PROVE  ProcessInv'
    <3>1. s \in P!Streams
      BY DEF P!Streams
    <3>2. CASE P!GRPCLook(s) \/ P!GRPCRead(s)
      BY <2>1, <3>1, <3>2, LookInv, GRPCReadInv
    <3>3. CASE P!GRPCSent(s)
      BY <2>1, <3>1, <3>3, LeaveInv DEF P!GRPCSent
    <3>4. CASE P!GRPCExit(s)
      BY <2>1, <3>1, <3>4, LeaveInv DEF P!GRPCExit
    <3> QED BY <2>6, <3>2, <3>3, <3>4
  <2> QED BY <1>2, <2>2, <2>3, <2>4, <2>5, <2>6 DEF P!Next
<1> QED BY <1>1, <1>2

LEMMA ProcessHolds == SurroundingsSpec => []ProcessInv
<1>1. SurroundingsInit => ProcessInv
  BY ProcessInit DEF SurroundingsInit
<1>2. ProcessInv /\ [SurroundingsNext /\ UNCHANGED part]_<<part, surroundings>> => ProcessInv'
  BY StepsOfParts, ProcessNext
<1> QED BY <1>1, <1>2, PTL DEF SurroundingsSpec

\* http/server.go:343-373: while no identifier is lost an HTTP stream has sent every event
\* up to lastID, in order and none three times, however appends and reads interleave.
THEOREM StreamsMissNothingCorrect == SurroundingsSpec => []StreamsMissNothing
<1>1. ProcessInv => StreamsMissNothing
  <2> SUFFICES ASSUME ProcessInv, P!Length = Len(ids), NEW s \in HTTPStreams
               PROVE  LET sent == streams[s].sent
                      IN  /\ {sent[i] : i \in DOMAIN sent} = 1..streams[s].last
                          /\ \A i, j \in DOMAIN sent : i < j => sent[i] <= sent[j]
                          /\ \A i, j, k \in DOMAIN sent : i < j /\ j < k => sent[i] < sent[k]
    BY DEF StreamsMissNothing, P!StreamsMissNothing
  <2>1. Sent(streams[s].sent, streams[s].last)
    BY DEF ProcessInv, StreamsSound, Whole
  <2> QED BY <2>1 DEF Sent
<1> QED BY <1>1, ProcessHolds, PTL

\* main.go:157,162,627-629, event_log.go:168: only the stop of a server that never listened,
\* or a gRPC stream that reads a log with a hole, ends the process before rt.Stop.
THEOREM DeathExplainedCorrect == SurroundingsSpec => []DeathExplained
<1>1. ProcessInv => DeathExplained
  BY DEF ProcessInv, DeathExplained
<1> QED BY <1>1, ProcessHolds, PTL

-----------------------------------------------------------------------------
(* The snapshot store.  What memory and files share is inductive with the  *)
(* types, once a restart is known to find the largest identifier left.     *)

SnapshotInv == F!TypeOK /\ F!SnapshotsMatchFiles

LEMMA LargestOf ==
  ASSUME NEW s \in SUBSET F!IDs, s # {}
  PROVE  F!Largest(s) \in s /\ \A n \in s : n <= F!Largest(s)
<1> DEFINE left == {MaxSaves - n : n \in s}
<1>1. \A n \in s : n \in Nat /\ n < MaxSaves /\ MaxSaves - n \in Nat
  BY SurroundingsAssumption DEF F!IDs
<1>2. left \in SUBSET Nat /\ left # {}
  BY <1>1
<1>3. \E k \in left : \A n \in left : k <= n
  <2> HIDE DEF left
  <2> QED BY <1>2, LeastNumber
<1>4. PICK m \in s : \A n \in s : MaxSaves - m <= MaxSaves - n
  BY <1>3
<1>5. \A n \in s : n <= m
  BY <1>1, <1>4, SurroundingsAssumption
<1> QED BY <1>5 DEF F!Largest

LEMMA RestartInv ==
  ASSUME SnapshotInv, NEW lost \in SUBSET F!IDs, F!Restart(lost)
  PROVE  SnapshotInv'
<1> DEFINE readable == {i \in DOMAIN files : files'[i] # F!Garbage}
<1>1. /\ DOMAIN files' = DOMAIN files
      /\ \A i \in DOMAIN files : files'[i] \in States \cup {F!Garbage}
      /\ DOMAIN files \subseteq F!IDs /\ readable \subseteq F!IDs
  BY DEF SnapshotInv, F!TypeOK, F!Restart
<1>2. /\ DOMAIN snapshots' = readable /\ \A i \in readable : snapshots'[i] = files'[i]
      /\ nextSave' = IF readable = {} THEN 0 ELSE F!Largest(readable) + 1
      /\ touched' = {}
  BY DEF F!Restart, F!RecoverSnapshots
<1>3. nextSave' \in 0..MaxSaves /\ \A i \in readable : i < nextSave'
  <2> HIDE DEF readable
  <2>1. CASE readable = {}
    BY <1>2, <2>1, SurroundingsAssumption
  <2>2. CASE readable # {}
    <3>1. F!Largest(readable) \in readable /\ \A n \in readable : n <= F!Largest(readable)
      BY <1>1, <2>2, LargestOf
    <3>2. \A n \in readable : n \in Nat /\ n + 1 \in 0..MaxSaves
      <4>1. \A n \in F!IDs : n \in Nat /\ n + 1 \in 0..MaxSaves
        BY SurroundingsAssumption DEF F!IDs
      <4> QED BY <1>1, <4>1
    <3> QED BY <1>2, <2>2, <3>1, <3>2, SurroundingsAssumption
  <2> QED BY <2>1, <2>2
<1>4. F!TypeOK'
  <2>1. DOMAIN snapshots' \subseteq F!IDs /\ \A i \in DOMAIN snapshots' : snapshots'[i] \in States
    BY <1>1, <1>2
  <2>2. DOMAIN files' \subseteq F!IDs
    BY <1>1
  <2> QED BY <1>1, <1>2, <1>3, <2>1, <2>2 DEF F!TypeOK
<1>5. F!SnapshotsMatchFiles'
  BY <1>1, <1>2, <1>3 DEF F!SnapshotsMatchFiles
<1> QED BY <1>4, <1>5 DEF SnapshotInv

LEMMA SnapshotNext == SnapshotInv /\ (F!Next \/ UNCHANGED snapshotVars) => SnapshotInv'
<1> SUFFICES ASSUME SnapshotInv, F!Next \/ UNCHANGED snapshotVars PROVE SnapshotInv'
  OBVIOUS
<1> USE SurroundingsAssumption DEF SnapshotInv, F!TypeOK, F!SnapshotsMatchFiles, F!IDs
<1>1. ASSUME NEW s \in States, F!Save(s) PROVE SnapshotInv'
  <2>1. nextSave \in F!IDs /\ nextSave \notin DOMAIN snapshots
    BY <1>1 DEF F!Save
  <2> QED BY <1>1, <2>1 DEF F!Save, F!With
<1>2. ASSUME NEW s \in States, NEW id \in F!IDs, F!CallerWrites(id, s) PROVE SnapshotInv'
  BY <1>2 DEF F!CallerWrites
<1>3. ASSUME F!SaveFails PROVE SnapshotInv'
  <2>1. nextSave \notin DOMAIN snapshots
    OBVIOUS
  <2>2. /\ DOMAIN files' = DOMAIN files \ {nextSave}
        /\ \A i \in DOMAIN files' : files'[i] = files[i]
        /\ UNCHANGED <<snapshots, nextSave, touched>>
    BY <1>3 DEF F!SaveFails, F!Without
  <2>3. F!TypeOK'
    BY <2>2
  <2>4. F!SnapshotsMatchFiles'
    BY <2>1, <2>2
  <2> QED BY <2>3, <2>4
<1>4. ASSUME NEW id \in F!IDs, F!Delete(id) PROVE SnapshotInv'
  BY <1>4 DEF F!Delete, F!Without
<1>5. ASSUME NEW lost \in SUBSET F!IDs, F!Restart(lost) PROVE SnapshotInv'
  BY <1>5, RestartInv
<1>6. ASSUME UNCHANGED snapshotVars PROVE SnapshotInv'
  BY <1>6 DEF snapshotVars
<1> QED BY <1>1, <1>2, <1>3, <1>4, <1>5, <1>6 DEF F!Next

\* storage/store.go:273-367: memory and directory hold the same snapshots through any saves,
\* deletions, lost files and restarts, and an identifier never stands for two.
THEOREM SnapshotsMatchFilesCorrect == SurroundingsSpec => []SnapshotsMatchFiles
<1>1. SurroundingsInit => SnapshotInv
  BY SurroundingsAssumption
     DEF SurroundingsInit, F!Init, SnapshotInv, F!TypeOK, F!SnapshotsMatchFiles
<1>2. SnapshotInv /\ [SurroundingsNext /\ UNCHANGED part]_<<part, surroundings>> => SnapshotInv'
  BY StepsOfParts, SnapshotNext
<1>3. SnapshotInv => SnapshotsMatchFiles
  BY DEF SnapshotInv, SnapshotsMatchFiles
<1> QED BY <1>1, <1>2, <1>3, PTL DEF SurroundingsSpec

-----------------------------------------------------------------------------
(* The persistent objects.  That a query misses nothing and an object is   *)
(* the state's is decided when the last pointer of the object is written;  *)
(* until then the file and the pointers so far are described with the      *)
(* object that is being written, whose fields the state still has.         *)

\* What SetObject has done of the object it is at.
WritingSound ==
  writing # O!Idle =>
    /\ writing.id \in ObjectIDs
    /\ writing.fields \subseteq O!FieldsOf(data[writing.id])
    /\ ~writing.encoded => writing.fields = O!FieldsOf(data[writing.id])
    /\ writing.encoded => writing.id \in whole /\ objects[writing.id] = data[writing.id]
    /\ writing.encoded /\ writing.id \notin damaged =>
         \A f \in O!FieldsOf(data[writing.id]) \ writing.fields :
           <<f, data[writing.id][f], writing.id>> \in index

\* The values an object has on disk are pointed at.
Pointed(id) ==
  id \in whole => \A f \in O!FieldsOf(objects[id]) : <<f, objects[id][f], id>> \in index

FollowsState(id) ==
  /\ objects[id] # O!Blank => id \in whole
  /\ \A f \in Fields : objects[id][f] = data[id][f] \/ <<id, f>> \in unsaved

SettledSound == \A id \in ObjectIDs : O!Settled(id) => Pointed(id) /\ FollowsState(id)

\* A pointer is to what the state had, and while objects are written it has it still.
HeldSound ==
  /\ index \subseteq held
  /\ ~O!Quiet => \A id \in ObjectIDs, f \in Fields : <<f, data[id][f], id>> \in held

ObjectsInv == O!TypeOK /\ WritingSound /\ SettledSound /\ HeldSound

LEMMA IdleFacts ==
  /\ O!Idle.id = Absent /\ O!Idle.fields = {} /\ O!Idle.encoded = FALSE
  /\ O!Idle \in [id : ObjectIDs \cup {Absent}, encoded : BOOLEAN, fields : SUBSET Fields]
BY DEF O!Idle

\* A changed state is of its kind, and so are the folds with one more event.
LEMMA ChangedCell ==
  ASSUME NEW c \in O!Contents, NEW id \in ObjectIDs, NEW f \in Fields, NEW v \in Values
  PROVE  LET d == [c EXCEPT ![id][f] = v]
         IN  /\ d \in O!Contents /\ d[id][f] = v /\ \A o \in ObjectIDs \ {id} : d[o] = c[o]
             /\ \A g \in Fields \ {f} : d[id][g] = c[id][g]
BY DEF O!Contents

LEMMA LoggedTyped ==
  ASSUME O!TypeOK, NEW id \in ObjectIDs, NEW f \in Fields, NEW v \in Values,
         NEW declarative \in BOOLEAN, O!Log(id, f, v, declarative)
  PROVE  /\ folds' \in Seq(O!Contents) /\ declared' \in Seq(O!Contents)
         /\ folds' # << >> /\ Len(declared') = Len(folds')
<1>1. O!Last(folds) \in O!Contents /\ O!Last(declared) \in O!Contents
  BY DEF O!TypeOK, O!Last
<1>2. /\ O!Set(O!Last(folds), id, f, v) \in O!Contents
      /\ O!Set(O!Last(declared), id, f, v) \in O!Contents
  BY <1>1, ChangedCell DEF O!Set
<1> QED BY <1>1, <1>2 DEF O!TypeOK, O!Log

LEMMA MutateInv ==
  ASSUME ObjectsInv, NEW id \in ObjectIDs, NEW f \in Fields, NEW v \in Values,
         O!Mutate(id, f, v)
  PROVE  ObjectsInv'
<1>1. /\ data' \in O!Contents /\ data'[id][f] = v
      /\ \A o \in ObjectIDs \ {id} : data'[o] = data[o]
  BY ChangedCell DEF ObjectsInv, O!TypeOK, O!Mutate, O!Set, O!Contents
<1>2. /\ unwritten = {} /\ writing = O!Idle /\ writing' = O!Idle
      /\ UNCHANGED <<objects, whole, index, damaged>>
      /\ unwritten' = {o \in ObjectIDs : O!FieldsOf(data'[o]) # {}}
      /\ unsaved' = {c \in unsaved : O!FieldsOf(data'[c[1]]) = {}}
      /\ held \subseteq held'
      /\ \A o \in ObjectIDs, g \in Fields : <<g, data'[o][g], o>> \in held'
  BY DEF O!Mutate, O!Event, O!Quiet, O!Present, O!disk
<1>3. id \in unwritten'
  BY <1>1, <1>2, SurroundingsAssumption DEF O!FieldsOf
<1>4. O!TypeOK'
  BY <1>1, <1>2, LoggedTyped DEF ObjectsInv, O!TypeOK, O!Contents, O!Mutate
<1>5. ASSUME NEW o \in ObjectIDs, O!Settled(o)' PROVE (Pointed(o) /\ FollowsState(o))'
  <2>1. o # id /\ o \notin unwritten' /\ O!Settled(o)
    BY <1>2, <1>3, <1>5, IdleFacts DEF O!Settled
  <2>2. O!FieldsOf(data'[o]) = {} /\ data'[o] = data[o]
    BY <1>1, <1>2, <2>1
  <2>3. Pointed(o) /\ FollowsState(o)
    BY <2>1 DEF ObjectsInv, SettledSound
  <2>4. ASSUME NEW g \in Fields, <<o, g>> \in unsaved PROVE <<o, g>> \in unsaved'
    BY <1>2, <2>2, <2>4
  <2>5. Pointed(o)'
    BY <1>2, <2>3 DEF Pointed, O!FieldsOf
  <2>6. FollowsState(o)'
    BY <1>2, <2>2, <2>3, <2>4 DEF FollowsState, O!Blank
  <2> QED BY <2>5, <2>6
<1> QED BY <1>2, <1>4, <1>5 DEF ObjectsInv, WritingSound, SettledSound, HeldSound

LEMMA DeclareInv ==
  ASSUME ObjectsInv, NEW id \in ObjectIDs, NEW f \in Fields, NEW v \in Values,
         O!Declare(id, f, v)
  PROVE  ObjectsInv'
<1>1. /\ data' \in O!Contents
      /\ \A o \in ObjectIDs \ {id} : data'[o] = data[o]
      /\ \A g \in Fields \ {f} : data'[id][g] = data[id][g]
  BY ChangedCell DEF ObjectsInv, O!TypeOK, O!Declare, O!Set, O!Contents
<1>2. /\ unwritten = {} /\ writing = O!Idle /\ O!Quiet'
      /\ UNCHANGED <<objects, whole, index, unwritten, writing, held, damaged>>
      /\ unsaved' = unsaved \cup {<<id, f>>}
  BY DEF O!Declare, O!Event, O!Quiet, O!disk
<1>3. O!TypeOK'
  <2>1. O!Log(id, f, v, TRUE)
    BY DEF O!Declare
  <2>2. /\ folds' \in Seq(O!Contents) /\ declared' \in Seq(O!Contents)
        /\ folds' # << >> /\ Len(declared') = Len(folds')
    BY <2>1, LoggedTyped DEF ObjectsInv
  <2> QED BY <1>1, <1>2, <2>2 DEF ObjectsInv, O!TypeOK, O!Cells
<1>4. ASSUME NEW o \in ObjectIDs, O!Settled(o)' PROVE (Pointed(o) /\ FollowsState(o))'
  <2>1. Pointed(o) /\ FollowsState(o)
    BY <1>2, <1>4 DEF ObjectsInv, SettledSound, O!Settled
  <2>2. ASSUME NEW g \in Fields PROVE objects'[o][g] = data'[o][g] \/ <<o, g>> \in unsaved'
    BY <1>1, <1>2, <2>1 DEF FollowsState
  <2> QED BY <1>2, <2>1, <2>2 DEF Pointed, FollowsState, O!FieldsOf, O!Blank
<1> QED BY <1>2, <1>3, <1>4 DEF ObjectsInv, WritingSound, SettledSound, HeldSound

\* Where the state becomes another one, what changes is unsaved.
LEMMA BecomeFollows ==
  ASSUME NEW o \in ObjectIDs, NEW state, O!Become(state), FollowsState(o),
         objects'[o] = objects[o], o \in whole' <=> o \in whole
  PROVE  FollowsState(o)'
<1>1. ASSUME NEW f \in Fields PROVE objects'[o][f] = data'[o][f] \/ <<o, f>> \in unsaved'
  <2>1. <<o, f>> \in O!Cells
    BY DEF O!Cells
  <2>2. data[o][f] # data'[o][f] => <<o, f>> \in unsaved'
    BY <2>1 DEF O!Become
  <2> QED BY <2>2 DEF FollowsState, O!Become
<1> QED BY <1>1 DEF FollowsState, O!Blank

LEMMA ObjectsRewindInv ==
  ASSUME ObjectsInv, NEW n \in DOMAIN folds, O!Rewind(n)
  PROVE  ObjectsInv'
<1>1. /\ O!Become(folds[n]) /\ O!Quiet /\ O!Quiet'
      /\ UNCHANGED <<folds, declared, objects, whole, index, unwritten, writing, held, damaged>>
  BY DEF O!Rewind, O!Quiet, O!disk
<1>2. data' \in O!Contents /\ unsaved' \subseteq O!Cells
  BY <1>1 DEF ObjectsInv, O!TypeOK, O!Become
<1>3. O!TypeOK'
  BY <1>1, <1>2 DEF ObjectsInv, O!TypeOK
<1>4. ASSUME NEW o \in ObjectIDs, O!Settled(o)' PROVE (Pointed(o) /\ FollowsState(o))'
  <2>1. Pointed(o) /\ FollowsState(o)
    BY <1>1, <1>4 DEF ObjectsInv, SettledSound, O!Settled
  <2>2. FollowsState(o)'
    BY <1>1, <2>1, BecomeFollows
  <2> QED BY <1>1, <2>1, <2>2 DEF Pointed, O!FieldsOf
<1> QED BY <1>1, <1>3, <1>4 DEF ObjectsInv, WritingSound, SettledSound, HeldSound, O!Quiet

\* The steps of SetObject leave the state as it is.
LEMMA CreateFileInv ==
  ASSUME ObjectsInv, NEW id \in ObjectIDs, O!CreateFile(id)
  PROVE  ObjectsInv'
<1>1. /\ writing = O!Idle /\ id \in unwritten /\ unwritten' = unwritten \ {id}
      /\ writing' = [id |-> id, encoded |-> FALSE, fields |-> O!FieldsOf(data[id])]
      /\ whole' = whole \ {id} /\ damaged' = damaged \ {id}
      /\ UNCHANGED <<data, folds, declared, objects, index, held, unsaved>>
  BY DEF O!CreateFile
<1>2. O!TypeOK'
  BY <1>1 DEF ObjectsInv, O!TypeOK, O!FieldsOf
<1>3. WritingSound'
  BY <1>1 DEF WritingSound, O!FieldsOf
<1>4. ASSUME NEW o \in ObjectIDs, O!Settled(o)' PROVE (Pointed(o) /\ FollowsState(o))'
  <2>1. o # id /\ O!Settled(o)
    BY <1>1, <1>4, IdleFacts, SurroundingsAssumption DEF O!Settled
  <2>2. Pointed(o) /\ FollowsState(o)
    BY <2>1 DEF ObjectsInv, SettledSound
  <2> QED BY <1>1, <2>1, <2>2 DEF Pointed, FollowsState, O!FieldsOf, O!Blank
<1>5. HeldSound'
  BY <1>1 DEF ObjectsInv, HeldSound, O!Quiet
<1> QED BY <1>2, <1>3, <1>4, <1>5 DEF ObjectsInv, SettledSound

LEMMA EncodeInv == ASSUME ObjectsInv, O!Encode PROVE ObjectsInv'
<1> DEFINE w == writing.id
<1>1. /\ writing # O!Idle /\ ~writing.encoded /\ w \in ObjectIDs
      /\ writing.fields = O!FieldsOf(data[w])
  BY DEF ObjectsInv, WritingSound, O!Encode
<1>2. /\ objects' \in O!Contents /\ objects'[w] = data[w]
      /\ \A o \in ObjectIDs \ {w} : objects'[o] = objects[o]
  BY <1>1 DEF ObjectsInv, O!TypeOK, O!Encode, O!Contents
<1>3. /\ whole' = whole \cup {w}
      /\ writing'.id = w /\ writing'.encoded /\ writing'.fields = O!FieldsOf(data[w])
      /\ writing' \in [id : ObjectIDs \cup {Absent}, encoded : BOOLEAN, fields : SUBSET Fields]
      /\ UNCHANGED <<data, folds, declared, index, unwritten, held, unsaved, damaged>>
  BY <1>1 DEF ObjectsInv, O!TypeOK, O!Encode
<1> HIDE DEF w
<1>4. O!TypeOK'
  BY <1>1, <1>2, <1>3 DEF ObjectsInv, O!TypeOK, O!Contents
<1>5. WritingSound'
  BY <1>1, <1>2, <1>3 DEF WritingSound, O!FieldsOf
<1>6. ASSUME NEW o \in ObjectIDs, O!Settled(o)' PROVE (Pointed(o) /\ FollowsState(o))'
  <2>1. o # w /\ O!Settled(o)
    BY <1>3, <1>6 DEF O!Settled, w
  <2>2. Pointed(o) /\ FollowsState(o)
    BY <2>1 DEF ObjectsInv, SettledSound
  <2> QED BY <1>2, <1>3, <2>1, <2>2 DEF Pointed, FollowsState, O!FieldsOf, O!Blank
<1>7. HeldSound'
  BY <1>1, <1>3 DEF ObjectsInv, HeldSound, O!Quiet
<1> QED BY <1>4, <1>5, <1>6, <1>7 DEF ObjectsInv, SettledSound

\* WriteIndex, WriteIndexFails: the step from field f to the next, with what it adds.
LEMMA FieldInv ==
  ASSUME ObjectsInv, NEW f \in Fields, O!WriteIndex(f) \/ O!WriteIndexFails(f)
  PROVE  ObjectsInv'
<1> DEFINE w == writing.id
           pointer == <<f, data[w][f], w>>
<1>1. /\ writing # O!Idle /\ writing.encoded /\ f \in writing.fields /\ w \in ObjectIDs
      /\ f \in O!FieldsOf(data[w]) /\ writing.fields \subseteq O!FieldsOf(data[w])
      /\ w \in whole /\ objects[w] = data[w] /\ ~O!Quiet
  BY DEF ObjectsInv, WritingSound, O!WriteIndex, O!WriteIndexFails, O!Quiet
<1>2. /\ writing'.id = w /\ writing'.encoded /\ writing'.fields = writing.fields \ {f}
      /\ writing' \in [id : ObjectIDs \cup {Absent}, encoded : BOOLEAN, fields : SUBSET Fields]
      /\ UNCHANGED <<data, folds, declared, objects, whole, unwritten, held, unsaved>>
  BY <1>1 DEF ObjectsInv, O!TypeOK, O!WriteIndex, O!WriteIndexFails, O!disk
<1>3. \/ index' = index \cup {pointer} /\ damaged' = damaged
      \/ index' = index /\ damaged' = damaged \cup {w}
  BY DEF O!WriteIndex, O!WriteIndexFails, O!disk
<1>4. pointer \in Fields \X Values \X ObjectIDs /\ pointer \in held
  BY <1>1 DEF ObjectsInv, O!TypeOK, HeldSound, O!FieldsOf, O!Contents
<1>5. \A g \in O!FieldsOf(data[w]) \ writing.fields :
         w \notin damaged => <<g, data[w][g], w>> \in index
  BY <1>1 DEF ObjectsInv, WritingSound
<1> HIDE DEF w
<1>6. O!TypeOK'
  BY <1>1, <1>2, <1>3, <1>4 DEF ObjectsInv, O!TypeOK
<1>7. WritingSound'
  <2>1. ASSUME w \notin damaged', NEW g \in O!FieldsOf(data[w]) \ writing'.fields
        PROVE  <<g, data[w][g], w>> \in index'
    BY <1>2, <1>3, <1>5, <2>1
  <2> QED BY <1>1, <1>2, <2>1 DEF WritingSound, O!FieldsOf
<1>8. ASSUME NEW o \in ObjectIDs, O!Settled(o)' PROVE (Pointed(o) /\ FollowsState(o))'
  <2>1. O!Settled(o)
    BY <1>2, <1>3, <1>8 DEF O!Settled, w
  <2>2. Pointed(o) /\ FollowsState(o)
    BY <2>1 DEF ObjectsInv, SettledSound
  <2> QED BY <1>2, <1>3, <2>2 DEF Pointed, FollowsState, O!FieldsOf, O!Blank
<1>9. HeldSound'
  BY <1>1, <1>2, <1>3, <1>4 DEF ObjectsInv, HeldSound, O!Quiet
<1> QED BY <1>6, <1>7, <1>8, <1>9 DEF ObjectsInv, SettledSound

\* The object is settled now, unless a pointer could not be written.
LEMMA WrittenInv == ASSUME ObjectsInv, O!Written PROVE ObjectsInv'
<1> DEFINE w == writing.id
<1>1. /\ writing # O!Idle /\ w \in ObjectIDs /\ w \in whole /\ objects[w] = data[w]
      /\ w \notin damaged => \A f \in O!FieldsOf(data[w]) : <<f, data[w][f], w>> \in index
  BY DEF ObjectsInv, WritingSound, O!Written
<1>2. /\ writing' = O!Idle
      /\ UNCHANGED <<data, folds, declared, objects, whole, index, unwritten, held, unsaved, damaged>>
  BY DEF O!Written, O!disk
<1>3. O!TypeOK'
  BY <1>2, IdleFacts DEF ObjectsInv, O!TypeOK
<1>4. ASSUME NEW o \in ObjectIDs, O!Settled(o)' PROVE (Pointed(o) /\ FollowsState(o))'
  <2>1. CASE o = w
    BY <1>1, <1>2, <1>4, <2>1 DEF Pointed, FollowsState, O!Settled, O!FieldsOf
  <2>2. CASE o # w
    <3>1. Pointed(o) /\ FollowsState(o)
      BY <1>2, <1>4, <2>2 DEF ObjectsInv, SettledSound, O!Settled
    <3> QED BY <1>2, <3>1 DEF Pointed, FollowsState, O!FieldsOf, O!Blank
  <2> QED BY <2>1, <2>2
<1>5. HeldSound'
  BY <1>1, <1>2 DEF ObjectsInv, HeldSound, O!Quiet
<1> QED BY <1>2, <1>3, <1>4, <1>5 DEF ObjectsInv, WritingSound, SettledSound

LEMMA SetObjectFailsInv == ASSUME ObjectsInv, O!SetObjectFails PROVE ObjectsInv'
<1>1. PICK id \in ObjectIDs :
        /\ damaged' = damaged \cup {id} /\ unwritten \ {id} \subseteq unwritten'
        /\ unwritten' \subseteq unwritten
        /\ writing # O!Idle => id = writing.id
  <2>1. CASE writing = O!Idle
    BY <2>1 DEF ObjectsInv, O!TypeOK, O!SetObjectFails
  <2>2. CASE writing # O!Idle
    BY <2>2 DEF ObjectsInv, O!TypeOK, WritingSound, O!SetObjectFails
  <2> QED BY <2>1, <2>2
<1>2. /\ writing' = O!Idle /\ ~O!Quiet
      /\ UNCHANGED <<data, folds, declared, objects, whole, index, held, unsaved>>
  BY DEF O!SetObjectFails, O!disk, O!Quiet
<1>3. O!TypeOK'
  BY <1>1, <1>2, IdleFacts DEF ObjectsInv, O!TypeOK
<1>4. ASSUME NEW o \in ObjectIDs, O!Settled(o)' PROVE (Pointed(o) /\ FollowsState(o))'
  <2>1. O!Settled(o)
    BY <1>1, <1>2, <1>4, IdleFacts, SurroundingsAssumption DEF O!Settled
  <2>2. Pointed(o) /\ FollowsState(o)
    BY <2>1 DEF ObjectsInv, SettledSound
  <2> QED BY <1>2, <2>2 DEF Pointed, FollowsState, O!FieldsOf, O!Blank
<1> QED BY <1>2, <1>3, <1>4 DEF ObjectsInv, WritingSound, SettledSound, HeldSound

LEMMA CrashInv ==
  ASSUME ObjectsInv, NEW lost \in SUBSET ObjectIDs, O!Crash(lost)
  PROVE  ObjectsInv'
<1>1. /\ objects' = [id \in ObjectIDs |-> IF id \in lost THEN O!Blank ELSE objects[id]]
      /\ whole' = whole \ lost /\ index' \subseteq index
      /\ \A e \in index : e[3] \notin lost => e \in index'
      /\ damaged' = damaged \cup lost \cup unwritten \cup ({writing.id} \ {Absent})
      /\ O!Become(O!Last(declared)) /\ O!Quiet' /\ unwritten' = {} /\ writing' = O!Idle
      /\ folds' = declared /\ UNCHANGED <<declared, held>>
  BY DEF O!Crash, O!Quiet
<1>2. O!TypeOK'
  <2>1. objects' \in [ObjectIDs -> [Fields -> Values \cup {Absent}]]
    BY <1>1 DEF ObjectsInv, O!TypeOK, O!Blank, O!Contents
  <2>2. damaged' \subseteq ObjectIDs /\ unsaved' \subseteq O!Cells
    BY <1>1 DEF ObjectsInv, O!TypeOK, O!Become
  <2>3. data' \in O!Contents /\ declared # << >>
    BY <1>1 DEF ObjectsInv, O!TypeOK, O!Become, O!Last
  <2> QED BY <1>1, <2>1, <2>2, <2>3, IdleFacts DEF ObjectsInv, O!TypeOK, O!Contents
<1>3. ASSUME NEW o \in ObjectIDs, O!Settled(o)' PROVE (Pointed(o) /\ FollowsState(o))'
  <2>1. o \notin lost /\ O!Settled(o)
    BY <1>1, <1>3, SurroundingsAssumption DEF O!Settled
  <2>2. Pointed(o) /\ FollowsState(o)
    BY <2>1 DEF ObjectsInv, SettledSound
  <2>3. objects'[o] = objects[o] /\ (o \in whole' <=> o \in whole)
    BY <1>1, <2>1
  <2>4. Pointed(o)'
    BY <1>1, <2>1, <2>2, <2>3 DEF Pointed, O!FieldsOf
  <2>5. FollowsState(o)'
    BY <1>1, <2>2, <2>3, BecomeFollows
  <2> QED BY <2>4, <2>5
<1>4. HeldSound'
  BY <1>1 DEF ObjectsInv, HeldSound
<1> QED BY <1>1, <1>2, <1>3, <1>4 DEF ObjectsInv, WritingSound, SettledSound

LEMMA ObjectsNext == ObjectsInv /\ (O!Next \/ UNCHANGED objectVars) => ObjectsInv'
<1> SUFFICES ASSUME ObjectsInv, O!Next \/ UNCHANGED objectVars PROVE ObjectsInv'
  OBVIOUS
<1>1. ASSUME UNCHANGED objectVars PROVE ObjectsInv'
  BY <1>1 DEF objectVars, ObjectsInv, O!TypeOK, WritingSound, SettledSound, HeldSound,
              Pointed, FollowsState, O!Settled, O!FieldsOf, O!Blank, O!Quiet
<1> QED BY <1>1, MutateInv, DeclareInv, ObjectsRewindInv, CreateFileInv, EncodeInv,
           FieldInv, WrittenInv, SetObjectFailsInv, CrashInv DEF O!Next

LEMMA ObjectsHold == SurroundingsSpec => []ObjectsInv
<1>1. SurroundingsInit => ObjectsInv
  <2> SUFFICES ASSUME O!Init PROVE ObjectsInv
    BY DEF SurroundingsInit
  <2>1. O!TypeOK
    BY IdleFacts DEF O!Init, O!TypeOK, O!Blank, O!Contents
  <2>2. SettledSound
    BY DEF O!Init, SettledSound, Pointed, FollowsState
  <2> QED BY <2>1, <2>2 DEF O!Init, ObjectsInv, WritingSound, HeldSound, O!Quiet
<1>2. ObjectsInv /\ [SurroundingsNext /\ UNCHANGED part]_<<part, surroundings>> => ObjectsInv'
  BY StepsOfParts, ObjectsNext
<1> QED BY <1>1, <1>2, PTL DEF SurroundingsSpec

\* store.go:434-464, uql.go:84-124: a query finds every settled object that has the value on
\* disk, up to its limit, and no object that never had it, for any objects, fields and values.
THEOREM QueriesFindTheirObjectsCorrect == SurroundingsSpec => []QueriesFindTheirObjects
<1>1. ASSUME ObjectsInv PROVE QueriesFindTheirObjects
  <2> SUFFICES ASSUME NEW f \in Fields, NEW v \in Values, NEW limit \in 0..1,
                      NEW result \in O!Limited(O!Search(f, v), limit)
               PROVE  /\ limit = 0 => \A id \in ObjectIDs :
                           O!Settled(id) /\ id \in whole /\ objects[id][f] = v => id \in result
                      /\ limit # 0 => O!Cardinality(result) <= limit
                      /\ \A id \in result : <<f, v, id>> \in held
    BY DEF QueriesFindTheirObjects, O!QueriesFindTheirObjects, O!Execute
  <2>1. result \subseteq O!Search(f, v) /\ (limit = 0 => result = O!Search(f, v))
    BY DEF O!Limited
  <2>2. limit # 0 => O!Cardinality(result) <= limit
    BY DEF O!Limited
  <2>3. ASSUME NEW id \in ObjectIDs, O!Settled(id), id \in whole, objects[id][f] = v
        PROVE  id \in O!Search(f, v)
    <3>1. f \in O!FieldsOf(objects[id]) /\ Pointed(id)
      BY <1>1, <2>3, SurroundingsAssumption DEF ObjectsInv, SettledSound, O!FieldsOf
    <3> QED BY <2>3, <3>1 DEF Pointed, O!Search
  <2>4. \A id \in O!Search(f, v) : <<f, v, id>> \in held
    BY <1>1 DEF ObjectsInv, HeldSound, O!Search
  <2> QED BY <2>1, <2>2, <2>3, <2>4
<1> QED BY <1>1, ObjectsHold, PTL

\* state_manager.go:322-323,420-454: an object whose last write went through is the state's,
\* but for what declarative events changed since, or a restart forgot.
THEOREM ObjectsFollowStateCorrect == SurroundingsSpec => []ObjectsFollowState
<1>1. ObjectsInv => ObjectsFollowState
  BY DEF ObjectsInv, SettledSound, FollowsState, ObjectsFollowState, O!ObjectsFollowState
<1> QED BY <1>1, ObjectsHold, PTL

-----------------------------------------------------------------------------
(* The GDL projects.  Parser and merge are folds over sequences, and those *)
(* are given by their equations: a value from the first one on, each made  *)
(* of the one before it by a step.  What the parser has found of a kind,   *)
(* put away or open, changes with a line only as Follows says; from there  *)
(* on nothing but the lines read so far is needed.                         *)

\* s has the values of a fold over k elements.
Steps(s, first, step, k) == s[0] = first /\ \A n \in 1..k : s[n] = step[<<s[n - 1], n>>]

\* There are such values.
LEMMA StepsExist ==
  ASSUME NEW X, NEW first \in X, NEW k \in Nat, NEW step \in [X \X (1..k) -> X]
  PROVE  \E s \in [0..k -> X] : Steps(s, first, step, k)
<1> DEFINE Stepped(n) == \E s \in [0..n -> X] : Steps(s, first, step, n)
           T == {n \in 0..k : ~Stepped(n)}
<1> SUFFICES ASSUME T # {} PROVE FALSE
  OBVIOUS
<1>1. PICK m \in T : \A n \in T : m <= n
  <2> HIDE DEF T
  <2>1. T \in SUBSET Nat
    BY DEF T
  <2> QED BY <2>1, LeastNumber
<1>2. m # 0
  <2> DEFINE s == [n \in 0..0 |-> first]
  <2>1. s \in [0..0 -> X] /\ s[0] = first /\ 1..0 = {}
    OBVIOUS
  <2> HIDE DEF s
  <2>2. Stepped(0)
    BY <2>1 DEF Steps
  <2> QED BY <2>2
<1>3. m \in 0..k /\ m - 1 \in 0..k /\ ~(m <= m - 1) /\ m \in 1..k
  BY <1>2
<1>4. PICK s \in [0..(m - 1) -> X] : Steps(s, first, step, m - 1)
  <2>1. Stepped(m - 1)
    BY <1>1, <1>3
  <2> QED BY <2>1
<1> DEFINE next == [n \in 0..m |-> IF n = m THEN step[<<s[m - 1], m>>] ELSE s[n]]
<1>5. s[m - 1] \in X /\ step[<<s[m - 1], m>>] \in X /\ \A n \in 0..m : n # m => s[n] \in X
  BY <1>3
<1>6. next \in [0..m -> X]
  BY <1>5
<1>7. next[0] = first
  BY <1>2, <1>3, <1>4 DEF Steps
<1>8. ASSUME NEW n \in 1..m PROVE next[n] = step[<<next[n - 1], n>>]
  <2>1. n \in 0..m /\ n - 1 \in 0..m /\ n - 1 # m
    BY <1>3
  <2>2. next[n - 1] = s[n - 1]
    BY <2>1
  <2>3. CASE n = m
    BY <2>1, <2>2, <2>3
  <2>4. CASE n # m
    <3>1. n \in 1..(m - 1) /\ next[n] = s[n]
      BY <1>3, <2>1, <2>4
    <3> QED BY <1>4, <2>2, <3>1 DEF Steps
  <2> QED BY <2>3, <2>4
<1> HIDE DEF next
<1>9. Stepped(m)
  BY <1>6, <1>7, <1>8 DEF Steps
<1> QED BY <1>9

\* A property of the first value that each step keeps is one of all: this stands for induction
\* along a fold, with the set of the numbers of the values that have it.
LEMMA AlongSteps ==
  ASSUME NEW k \in Nat, NEW H \in SUBSET (0..k), 0 \in H,
         \A n \in 1..k : n - 1 \in H => n \in H
  PROVE  k \in H
<1> DEFINE T == (0..k) \ H
<1> SUFFICES ASSUME T # {} PROVE FALSE
  OBVIOUS
<1>1. PICK m \in T : \A n \in T : m <= n
  <2> HIDE DEF T
  <2>1. T \in SUBSET Nat
    BY DEF T
  <2> QED BY <2>1, LeastNumber
<1>2. m \in 1..k /\ m - 1 \in 0..k /\ ~(m <= m - 1)
  OBVIOUS
<1>3. m - 1 \in H
  BY <1>1, <1>2
<1> QED BY <1>2, <1>3

\* Joining sequences: each element stands in one of them, at a place of its own, and each place
\* is that of one.
Joins(q, seqs, n, at) ==
  /\ at \in [1..Len(q) -> (1..n) \X Nat]
  /\ \A m \in 1..Len(q) : /\ at[m][2] \in 1..Len(seqs[at[m][1]])
                          /\ q[m] = seqs[at[m][1]][at[m][2]]
  /\ \A l, m \in 1..Len(q) : at[l] = at[m] => l = m
  /\ \A i \in 1..n : \A j \in 1..Len(seqs[i]) : \E m \in 1..Len(q) : at[m] = <<i, j>>

LEMMA JoinsNext ==
  ASSUME NEW X, NEW seqs \in Seq(Seq(X)), NEW n \in 1..Len(seqs), NEW q \in Seq(X),
         NEW at, Joins(q, seqs, n - 1, at)
  PROVE  \E next : Joins(q \o seqs[n], seqs, n, next)
<1> DEFINE r == q \o seqs[n]
           L == Len(q)
           next == [m \in 1..Len(r) |-> IF m <= L THEN at[m] ELSE <<n, m - L>>]
<1>1. /\ seqs[n] \in Seq(X) /\ r \in Seq(X) /\ Len(r) = L + Len(seqs[n]) /\ L \in Nat
      /\ Len(seqs[n]) \in Nat /\ n \in Nat
      /\ \A m \in 1..L : r[m] = q[m]
      /\ \A j \in 1..Len(seqs[n]) : r[L + j] = seqs[n][j]
  OBVIOUS
<1>0. \A e \in (1..(n - 1)) \X Nat : e = <<e[1], e[2]>> /\ e[1] \in 1..(n - 1) /\ e[2] \in Nat
  OBVIOUS
<1>2. ASSUME NEW m \in 1..L
      PROVE  m \in 1..Len(r) /\ next[m] = at[m] /\ at[m][1] \in 1..(n - 1)
  <2>1. m \in 1..Len(r) /\ m <= L
    BY <1>1
  <2>2. at[m] \in (1..(n - 1)) \X Nat
    BY DEF Joins
  <2> QED BY <1>0, <2>1, <2>2
<1>3. ASSUME NEW m \in 1..Len(r), ~(m <= L)
      PROVE  /\ m - L \in 1..Len(seqs[n]) /\ next[m] = <<n, m - L>> /\ r[m] = seqs[n][m - L]
  <2>1. m - L \in 1..Len(seqs[n]) /\ L + (m - L) = m
    BY <1>1, <1>3
  <2>2. r[m] = seqs[n][m - L]
    BY <1>1, <2>1
  <2> QED BY <1>3, <2>1, <2>2
<1>4. \A m \in 1..Len(r) : m <= L => m \in 1..L
  BY <1>1
<1> HIDE DEF r, L
<1>5. next \in [1..Len(r) -> (1..n) \X Nat]
  <2>1. \A m \in 1..L : at[m] \in (1..(n - 1)) \X Nat
    BY <1>1 DEF Joins, L
  <2>2. \A m \in 1..L : at[m] \in (1..n) \X Nat
    <3> TAKE m \in 1..L
    <3>1. at[m] = <<at[m][1], at[m][2]>> /\ at[m][1] \in 1..(n - 1) /\ at[m][2] \in Nat
      BY <1>0, <2>1
    <3>2. at[m][1] \in 1..n
      BY <1>1, <3>1
    <3> QED BY <3>1, <3>2
  <2>3. \A j \in 1..Len(seqs[n]) : <<n, j>> \in (1..n) \X Nat
    BY <1>1
  <2>4. ASSUME NEW m \in 1..Len(r) PROVE next[m] \in (1..n) \X Nat
    <3>1. CASE m <= L
      <4>1. m \in 1..L /\ next[m] = at[m]
        BY <1>2, <1>4, <3>1
      <4> QED BY <2>2, <4>1
    <3>2. CASE ~(m <= L)
      <4>1. m - L \in 1..Len(seqs[n]) /\ next[m] = <<n, m - L>>
        BY <1>3, <3>2
      <4> QED BY <2>3, <4>1
    <3> QED BY <3>1, <3>2
  <2> QED BY <2>4
<1> HIDE DEF next
<1>6. ASSUME NEW m \in 1..Len(r)
      PROVE  next[m][2] \in 1..Len(seqs[next[m][1]]) /\ r[m] = seqs[next[m][1]][next[m][2]]
  <2>1. CASE m <= L
    <3>1. m \in 1..L /\ next[m] = at[m] /\ r[m] = q[m]
      BY <1>1, <1>2, <1>4, <2>1
    <3> QED BY <3>1 DEF Joins, L
  <2>2. CASE ~(m <= L)
    <3>1. m - L \in 1..Len(seqs[n]) /\ next[m] = <<n, m - L>> /\ r[m] = seqs[n][m - L]
      BY <1>3, <2>2
    <3> QED BY <3>1
  <2> QED BY <2>1, <2>2
<1>7. ASSUME NEW l \in 1..Len(r), NEW m \in 1..Len(r), next[l] = next[m] PROVE l = m
  <2>1. \A h \in 1..Len(r) : h <= L => next[h][1] # n
    <3>1. n \notin 1..(n - 1)
      BY <1>1
    <3> QED BY <1>2, <1>4, <3>1
  <2>2. \A h \in 1..Len(r) : ~(h <= L) => next[h][1] = n /\ next[h][2] = h - L
    BY <1>3
  <2>3. CASE l <= L /\ m <= L
    BY <1>2, <1>4, <1>7, <2>3 DEF Joins, L
  <2>4. CASE ~(l <= L) /\ ~(m <= L)
    <3>1. l - L = m - L
      BY <1>7, <2>2, <2>4
    <3> QED BY <1>1, <3>1
  <2> QED BY <1>7, <2>1, <2>2, <2>3, <2>4
<1>8. ASSUME NEW i \in 1..n, NEW j \in 1..Len(seqs[i]) PROVE \E m \in 1..Len(r) : next[m] = <<i, j>>
  <2>1. CASE i = n
    <3>1. L + j \in 1..Len(r) /\ ~(L + j <= L) /\ (L + j) - L = j
      BY <1>1, <2>1
    <3>2. next[L + j] = <<n, j>>
      BY <1>3, <3>1
    <3> QED BY <2>1, <3>1, <3>2
  <2>2. CASE i # n
    <3>1. i \in 1..(n - 1)
      BY <1>1, <2>2
    <3>2. PICK m \in 1..L : at[m] = <<i, j>>
      BY <3>1 DEF Joins, L
    <3> QED BY <1>2, <3>2
  <2> QED BY <2>1, <2>2
<1>9. Joins(r, seqs, n, next)
  BY <1>5, <1>6, <1>7, <1>8 DEF Joins
<1> QED BY <1>9 DEF r

LEMMA JoinedIs ==
  ASSUME NEW X, NEW seqs \in Seq(Seq(X))
  PROVE  W!Joined(seqs) \in Seq(X) /\ \E at : Joins(W!Joined(seqs), seqs, Len(seqs), at)
<1> DEFINE K == Len(seqs)
           step == [e \in Seq(X) \X (1..K) |-> e[1] \o seqs[e[2]]]
           Rounds(f) == f = [n \in 0..K |-> IF n = 0 THEN << >> ELSE f[n - 1] \o seqs[n]]
           s == CHOOSE f : Rounds(f)
<1>1. K \in Nat /\ << >> \in Seq(X) /\ step \in [Seq(X) \X (1..K) -> Seq(X)]
  <2>1. ASSUME NEW e \in Seq(X) \X (1..K) PROVE e[1] \o seqs[e[2]] \in Seq(X)
    <3>1. e[1] \in Seq(X) /\ seqs[e[2]] \in Seq(X)
      OBVIOUS
    <3> QED BY <3>1
  <2>2. step \in [Seq(X) \X (1..K) -> Seq(X)]
    BY <2>1
  <2> QED BY <2>2
<1>2. \A q \in Seq(X), n \in 1..K : step[<<q, n>>] = q \o seqs[n]
  OBVIOUS
<1> HIDE DEF step, K
<1>3. PICK f \in [0..K -> Seq(X)] : Steps(f, << >>, step, K)
  BY <1>1, StepsExist
<1>4. ASSUME NEW n \in 0..K, n # 0 PROVE n \in 1..K /\ n - 1 \in 0..K
  BY <1>1, <1>4
<1>5. Rounds(f)
  <2>1. ASSUME NEW n \in 0..K PROVE f[n] = IF n = 0 THEN << >> ELSE f[n - 1] \o seqs[n]
    <3>1. CASE n = 0
      BY <1>3, <3>1 DEF Steps
    <3>2. CASE n # 0
      <4>1. n \in 1..K /\ f[n - 1] \in Seq(X)
        BY <1>4, <3>2
      <4>2. f[n] = step[<<f[n - 1], n>>]
        BY <1>3, <4>1 DEF Steps
      <4> QED BY <1>2, <3>2, <4>1, <4>2
    <3> QED BY <3>1, <3>2
  <2> QED BY <1>3, <2>1
<1>6. Rounds(s)
  BY <1>5
<1>7. W!Joined(seqs) = s[K]
  BY DEF W!Joined, K
<1> HIDE DEF s
<1>8. s[0] = << >> /\ \A n \in 1..K : s[n] = s[n - 1] \o seqs[n]
  <2>1. 0 \in 0..K /\ \A n \in 1..K : n \in 0..K /\ n # 0
    BY <1>1
  <2>2. \A n \in 0..K : s[n] = IF n = 0 THEN << >> ELSE s[n - 1] \o seqs[n]
    BY <1>6
  <2> QED BY <2>1, <2>2
<1> DEFINE H == {n \in 0..K : s[n] \in Seq(X) /\ \E at : Joins(s[n], seqs, n, at)}
<1>9. 0 \in H
  <2>1. Len(s[0]) = 0 /\ 1..0 = {} /\ 0 \in 0..K
    BY <1>1, <1>8
  <2>2. Joins(s[0], seqs, 0, [m \in 1..0 |-> <<0, 0>>])
    BY <2>1 DEF Joins
  <2> QED BY <1>1, <1>8, <2>1, <2>2
<1>10. ASSUME NEW n \in 1..K, n - 1 \in H PROVE n \in H
  <2>1. PICK at : s[n - 1] \in Seq(X) /\ Joins(s[n - 1], seqs, n - 1, at)
    BY <1>10
  <2>2. n \in 0..K /\ seqs[n] \in Seq(X)
    BY <1>1 DEF K
  <2>4. s[n] = s[n - 1] \o seqs[n]
    BY <1>8
  <2>3. \E next : Joins(s[n], seqs, n, next)
    BY <2>1, <2>2, <2>4, JoinsNext DEF K
  <2>5. s[n] \in Seq(X)
    BY <2>1, <2>2, <2>4
  <2> QED BY <2>2, <2>3, <2>5
<1>11. K \in H
  <2> HIDE DEF H
  <2>1. H \in SUBSET (0..K)
    BY DEF H
  <2> QED BY <1>1, <1>9, <1>10, <2>1, AlongSteps
<1> QED BY <1>7, <1>11 DEF K

\* What a reading has found of a kind: what it put away and then what is open.
Definitions == [name : STRING \cup {W!NoName}, body : Seq(W!Lines)]
Readings == [current : [W!Kinds -> Definitions], program : [W!Kinds -> Seq(Definitions)]]

Found(acc, k) ==
  IF W!IsOpen(acc.current, k) THEN Append(acc.program[k], acc.current[k]) ELSE acc.program[k]
ReadLine(acc, line) == IF line.kw \in W!Kinds THEN W!Opened(acc, line) ELSE W!Taken(acc, line)

\* Nothing is put away of a kind of which nothing is open.
OpenOnce(acc) == \A k \in W!Kinds : ~W!IsOpen(acc.current, k) => acc.program[k] = << >>

\* What has been found of a kind, before and after a line.
Follows(defs, next, k, line) ==
  /\ line.kw = k => next = Append(defs, [name |-> line.name, body |-> << >>])
  /\ line.kw # k /\ (line.kw \in W!Kinds \/ k \notin W!Takers(line.kw) \/ defs = << >>) =>
       next = defs
  /\ line.kw \notin W!Kinds /\ k \in W!Takers(line.kw) /\ defs # << >> =>
       /\ Len(next) = Len(defs) /\ \A i \in 1..(Len(defs) - 1) : next[i] = defs[i]
       /\ next[Len(defs)].name = defs[Len(defs)].name
       /\ next[Len(defs)].body = Append(defs[Len(defs)].body, line)

LEMMA OpenedFollows ==
  ASSUME NEW acc \in Readings, OpenOnce(acc), NEW line \in W!Lines, line.kw \in W!Kinds,
         line.name # W!NoName
  PROVE  /\ W!Opened(acc, line) \in Readings /\ OpenOnce(W!Opened(acc, line))
         /\ \A k \in W!Kinds : Follows(Found(acc, k), Found(W!Opened(acc, line), k), k, line)
<1> DEFINE new == W!Opened(acc, line)
           def == [name |-> line.name, body |-> << >>]
<1>1. def \in Definitions /\ def.name = line.name
  <2>1. line.name \in STRING
    BY DEF W!Lines
  <2>2. << >> \in Seq(W!Lines)
    OBVIOUS
  <2> QED BY <2>1, <2>2 DEF Definitions
<1>2. /\ new.current = [acc.current EXCEPT ![line.kw] = def]
      /\ new.program = IF W!IsOpen(acc.current, line.kw)
                       THEN [acc.program EXCEPT ![line.kw] =
                               Append(acc.program[line.kw], acc.current[line.kw])]
                       ELSE acc.program
      /\ new = [current |-> new.current, program |-> new.program]
  BY DEF W!Opened
<1>3. /\ acc.current \in [W!Kinds -> Definitions] /\ acc.program \in [W!Kinds -> Seq(Definitions)]
  BY DEF Readings
<1> HIDE DEF new, def
<1>4. ASSUME NEW k \in W!Kinds
      PROVE  /\ new.current[k] \in Definitions /\ new.program[k] \in Seq(Definitions)
             /\ k = line.kw => new.current[k] = def /\ new.program[k] = Found(acc, k)
             /\ k # line.kw => new.current[k] = acc.current[k] /\ new.program[k] = acc.program[k]
  <2>1. acc.program[k] \in Seq(Definitions) /\ acc.current[k] \in Definitions
    BY <1>3
  <2>2. CASE k = line.kw
    <3>1. new.current[k] = def
      BY <1>2, <1>3, <2>2
    <3>2. new.program[k] = Found(acc, k)
      BY <1>2, <1>3, <2>2 DEF Found
    <3>3. Found(acc, k) \in Seq(Definitions)
      BY <2>1 DEF Found
    <3> QED BY <1>1, <2>2, <3>1, <3>2, <3>3
  <2>3. CASE k # line.kw
    BY <1>2, <1>3, <2>1, <2>3
  <2> QED BY <2>2, <2>3
<1>5. new \in Readings
  <2>1. new.current \in [W!Kinds -> Definitions]
    BY <1>2, <1>3, <1>4
  <2>2. new.program \in [W!Kinds -> Seq(Definitions)]
    BY <1>2, <1>3, <1>4
  <2> QED BY <1>2, <2>1, <2>2 DEF Readings
<1>6. OpenOnce(new)
  BY <1>1, <1>4 DEF OpenOnce, W!IsOpen
<1>7. ASSUME NEW k \in W!Kinds PROVE Follows(Found(acc, k), Found(new, k), k, line)
  <2>1. CASE k = line.kw
    <3>1. Found(new, k) = Append(Found(acc, k), def)
      BY <1>1, <1>4, <2>1 DEF Found, W!IsOpen
    <3> QED BY <2>1, <3>1 DEF Follows, def
  <2>2. CASE k # line.kw
    <3>1. Found(new, k) = Found(acc, k)
      BY <1>4, <2>2 DEF Found, W!IsOpen
    <3> QED BY <2>2, <3>1 DEF Follows
  <2> QED BY <2>1, <2>2
<1> QED BY <1>5, <1>6, <1>7 DEF new

LEMMA TakenFollows ==
  ASSUME NEW acc \in Readings, OpenOnce(acc), NEW line \in W!Lines, line.kw \notin W!Kinds
  PROVE  /\ W!Taken(acc, line) \in Readings /\ OpenOnce(W!Taken(acc, line))
         /\ \A k \in W!Kinds : Follows(Found(acc, k), Found(W!Taken(acc, line), k), k, line)
<1> DEFINE new == W!Taken(acc, line)
           takes(k) == k \in W!Takers(line.kw) /\ W!IsOpen(acc.current, k)
<1>1. /\ new.program = acc.program
      /\ new.current = [k \in W!Kinds |->
                          IF takes(k) THEN [name |-> acc.current[k].name,
                                            body |-> Append(acc.current[k].body, line)]
                                      ELSE acc.current[k]]
      /\ new = [current |-> new.current, program |-> new.program]
  BY DEF W!Taken
<1>2. acc.current \in [W!Kinds -> Definitions] /\ acc.program \in [W!Kinds -> Seq(Definitions)]
  BY DEF Readings
<1> HIDE DEF new
<1>3. ASSUME NEW k \in W!Kinds
      PROVE  /\ new.current[k] \in Definitions /\ new.current[k].name = acc.current[k].name
             /\ takes(k) => new.current[k].body = Append(acc.current[k].body, line)
             /\ ~takes(k) => new.current[k] = acc.current[k]
  <2> HIDE DEF takes
  <2>1. acc.current[k] \in Definitions
    BY <1>2
  <2>2. acc.current[k].name \in STRING \cup {W!NoName} /\ acc.current[k].body \in Seq(W!Lines)
    BY <2>1 DEF Definitions
  <2>3. Append(acc.current[k].body, line) \in Seq(W!Lines)
    BY <2>2
  <2>4. [name |-> acc.current[k].name, body |-> Append(acc.current[k].body, line)] \in Definitions
    BY <2>2, <2>3 DEF Definitions
  <2> QED BY <1>1, <2>1, <2>4
<1>4. new \in Readings
  BY <1>1, <1>2, <1>3 DEF Readings
<1>5. \A k \in W!Kinds : W!IsOpen(new.current, k) <=> W!IsOpen(acc.current, k)
  BY <1>3 DEF W!IsOpen
<1>6. OpenOnce(new)
  BY <1>1, <1>5 DEF OpenOnce
<1>7. ASSUME NEW k \in W!Kinds PROVE Follows(Found(acc, k), Found(new, k), k, line)
  <2> DEFINE put == acc.program[k]
  <2>0. put \in Seq(Definitions) /\ new.program[k] = put /\ k # line.kw
    BY <1>1, <1>2
  <2> HIDE DEF put
  <2>1. CASE ~W!IsOpen(acc.current, k)
    <3>1. Found(acc, k) = << >> /\ Found(new, k) = << >>
      BY <1>1, <1>5, <2>1 DEF Found, OpenOnce
    <3> QED BY <2>0, <3>1 DEF Follows
  <2>2. CASE W!IsOpen(acc.current, k)
    <3> DEFINE defs == Found(acc, k)
               next == Found(new, k)
    <3>1. defs = Append(put, acc.current[k]) /\ next = Append(put, new.current[k])
      BY <1>1, <1>5, <2>2 DEF Found, put
    <3>2. acc.current[k] \in Definitions /\ new.current[k] \in Definitions
      BY <1>2, <1>3
    <3> HIDE DEF defs, next
    <3>3. /\ Len(defs) = Len(put) + 1 /\ Len(next) = Len(put) + 1 /\ Len(put) \in Nat
          /\ defs[Len(put) + 1] = acc.current[k] /\ next[Len(put) + 1] = new.current[k]
          /\ \A i \in 1..Len(put) : defs[i] = put[i] /\ next[i] = put[i]
      BY <2>0, <3>1, <3>2
    <3>4. (Len(put) + 1) - 1 = Len(put)
      BY <3>3
    <3>5. defs # << >>
      BY <3>3
    <3>6. CASE takes(k)
      <4>1. /\ new.current[k].name = acc.current[k].name
            /\ new.current[k].body = Append(acc.current[k].body, line)
        BY <1>3, <3>6
      <4>2. Len(next) = Len(defs) /\ \A i \in 1..(Len(defs) - 1) : next[i] = defs[i]
        BY <3>3, <3>4
      <4>3. /\ next[Len(defs)].name = defs[Len(defs)].name
            /\ next[Len(defs)].body = Append(defs[Len(defs)].body, line)
        BY <3>3, <4>1
      <4>4. k \in W!Takers(line.kw)
        BY <3>6
      <4> HIDE DEF takes
      <4> QED BY <2>0, <3>5, <4>2, <4>3, <4>4 DEF Follows, defs, next
    <3>7. CASE ~takes(k)
      <4>1. k \notin W!Takers(line.kw)
        BY <2>2, <3>7
      <4>2. next = defs
        BY <1>3, <3>1, <3>7
      <4> QED BY <2>0, <4>1, <4>2 DEF Follows, defs, next
    <3> QED BY <3>6, <3>7
  <2> QED BY <2>1, <2>2
<1> QED BY <1>4, <1>6, <1>7 DEF new

\* The definitions found in a file, line after line.
Findings(found, file) ==
  /\ found \in [0..Len(file) -> [W!Kinds -> Seq(Definitions)]]
  /\ \A k \in W!Kinds : found[0][k] = << >>
  /\ \A n \in 1..Len(file), k \in W!Kinds : Follows(found[n - 1][k], found[n][k], k, file[n])

LEMMA ParsedIs ==
  ASSUME NEW file \in W!Files
  PROVE  \E found : /\ Findings(found, file)
                   /\ \A k \in W!Kinds : W!Parsed(file)[k] = found[Len(file)][k]
<1> DEFINE K == Len(file)
           X == {acc \in Readings : OpenOnce(acc)}
           first == [current |-> [k \in W!Kinds |-> W!NoDef], program |-> [k \in W!Kinds |-> << >>]]
           step == [e \in X \X (1..K) |-> ReadLine(e[1], file[e[2]])]
           Rounds(f) == f = [n \in 0..K |-> IF n = 0 THEN first
                                            ELSE IF file[n].kw \in W!Kinds
                                              THEN W!Opened(f[n - 1], file[n])
                                            ELSE W!Taken(f[n - 1], file[n])]
           s == CHOOSE f : Rounds(f)
<1>1. /\ file \in Seq(W!Lines) /\ K \in Nat
      /\ \A n \in 1..K : file[n] \in W!Lines /\ (file[n].kw \in W!Kinds => file[n].name # W!NoName)
  BY DEF W!Files
<1>2. first \in X /\ \A k \in W!Kinds : Found(first, k) = << >>
  <2>1. W!NoDef \in Definitions /\ W!NoDef.name = W!NoName
    <3>1. << >> \in Seq(W!Lines)
      OBVIOUS
    <3> QED BY <3>1 DEF W!NoDef, Definitions
  <2>2. << >> \in Seq(Definitions)
    OBVIOUS
  <2>3. first \in Readings
    BY <2>1, <2>2 DEF Readings
  <2> QED BY <2>1, <2>3 DEF OpenOnce, Found, W!IsOpen
<1>3. ASSUME NEW acc \in X, NEW n \in 1..K
      PROVE  /\ ReadLine(acc, file[n]) \in X
             /\ \A k \in W!Kinds :
                  Follows(Found(acc, k), Found(ReadLine(acc, file[n]), k), k, file[n])
  <2>1. acc \in Readings /\ OpenOnce(acc) /\ file[n] \in W!Lines
    BY <1>1
  <2>2. CASE file[n].kw \in W!Kinds
    BY <1>1, <2>1, <2>2, OpenedFollows DEF ReadLine
  <2>3. CASE file[n].kw \notin W!Kinds
    BY <2>1, <2>3, TakenFollows DEF ReadLine
  <2> QED BY <2>2, <2>3
<1> HIDE DEF X, first
<1>4. /\ step \in [X \X (1..K) -> X]
      /\ \A acc \in X, n \in 1..K : step[<<acc, n>>] = ReadLine(acc, file[n])
  BY <1>3
<1> HIDE DEF step, K
<1>5. PICK f \in [0..K -> X] : Steps(f, first, step, K)
  BY <1>1, <1>2, <1>4, StepsExist
<1>6. ASSUME NEW n \in 0..K, n # 0 PROVE n \in 1..K /\ n - 1 \in 0..K
  BY <1>1, <1>6
<1>7. Rounds(f)
  <2>1. ASSUME NEW n \in 0..K
        PROVE  f[n] = IF n = 0 THEN first
                      ELSE IF file[n].kw \in W!Kinds THEN W!Opened(f[n - 1], file[n])
                      ELSE W!Taken(f[n - 1], file[n])
    <3>1. CASE n = 0
      BY <1>5, <3>1 DEF Steps
    <3>2. CASE n # 0
      <4>1. n \in 1..K /\ f[n - 1] \in X
        BY <1>6, <3>2
      <4>2. f[n] = step[<<f[n - 1], n>>]
        BY <1>5, <4>1 DEF Steps
      <4> QED BY <1>4, <3>2, <4>1, <4>2 DEF ReadLine
    <3> QED BY <3>1, <3>2
  <2> QED BY <1>5, <2>1
<1>8. Rounds(s)
  BY <1>7
<1>9. W!Reading(file) = s[K]
  BY DEF W!Reading, K, first
<1> HIDE DEF s
<1>10. Steps(s, first, step, K) /\ \A n \in 0..K : s[n] \in X
  <2> DEFINE H == {n \in 0..K : s[n] \in X}
  <2>1. 0 \in 0..K /\ \A n \in 1..K : n \in 0..K /\ n # 0
    BY <1>1
  <2>2. \A n \in 0..K : s[n] = IF n = 0 THEN first
                              ELSE IF file[n].kw \in W!Kinds THEN W!Opened(s[n - 1], file[n])
                              ELSE W!Taken(s[n - 1], file[n])
    BY <1>8
  <2>3. s[0] = first /\ \A n \in 1..K : s[n] = ReadLine(s[n - 1], file[n])
    BY <2>1, <2>2 DEF ReadLine
  <2>4. \A m \in 0..K : s[m] \in X
    <3> SUFFICES ASSUME NEW m \in 0..K PROVE s[m] \in X
      OBVIOUS
    <3> DEFINE G == {n \in 0..m : s[n] \in X}
    <3>1. 0 \in G
      BY <1>1, <1>2, <2>3
    <3>2. ASSUME NEW n \in 1..m, n - 1 \in G PROVE n \in G
      <4>1. n \in 1..K /\ n \in 0..m /\ s[n - 1] \in X
        BY <1>1, <3>2
      <4> QED BY <1>3, <2>3, <4>1
    <3>3. m \in Nat /\ G \in SUBSET (0..m)
      OBVIOUS
    <3> HIDE DEF G
    <3>4. m \in G
      BY <3>1, <3>2, <3>3, AlongSteps
    <3> QED BY <3>4 DEF G
  <2>5. \A n \in 1..K : s[n - 1] \in X
    BY <1>6, <2>1, <2>4
  <2> QED BY <1>4, <2>3, <2>4, <2>5 DEF Steps
<1> DEFINE found == [n \in 0..K |-> [k \in W!Kinds |-> Found(s[n], k)]]
<1>11. ASSUME NEW n \in 0..K, NEW k \in W!Kinds PROVE Found(s[n], k) \in Seq(Definitions)
  <2>1. s[n] \in Readings
    BY <1>10 DEF X
  <2>2. s[n].program[k] \in Seq(Definitions) /\ s[n].current[k] \in Definitions
    BY <2>1 DEF Readings
  <2> QED BY <2>2 DEF Found
<1>12. found \in [0..K -> [W!Kinds -> Seq(Definitions)]]
  BY <1>11
<1>13. \A n \in 0..K, k \in W!Kinds : found[n][k] = Found(s[n], k)
  OBVIOUS
<1>14. 0 \in 0..K /\ K \in 0..K
  BY <1>1
<1> HIDE DEF found
<1>15. \A k \in W!Kinds : found[0][k] = << >>
  BY <1>2, <1>10, <1>13, <1>14 DEF Steps
<1>16. ASSUME NEW n \in 1..K, NEW k \in W!Kinds
       PROVE  Follows(found[n - 1][k], found[n][k], k, file[n])
  <2>1. n \in 0..K /\ n - 1 \in 0..K
    BY <1>1
  <2>2. s[n - 1] \in X /\ s[n] = ReadLine(s[n - 1], file[n])
    BY <1>4, <1>10, <2>1 DEF Steps
  <2>3. found[n - 1][k] = Found(s[n - 1], k) /\ found[n][k] = Found(s[n], k)
    BY <1>13, <2>1
  <2> QED BY <1>3, <2>2, <2>3
<1>17. \A k \in W!Kinds : W!Parsed(file)[k] = found[K][k]
  BY <1>9, <1>13, <1>14 DEF W!Parsed, Found
<1> QED BY <1>12, <1>15, <1>16, <1>17 DEF Findings, K

\* The definitions of a kind are its openings among the first n lines, in order; the lines of
\* their bodies are among them.
Opens(at, defs, file, k, n) ==
  /\ at \in [1..Len(defs) -> 1..n]
  /\ \A i \in 1..Len(defs) : file[at[i]].kw = k /\ defs[i].name = file[at[i]].name
  /\ \A j \in 1..n : file[j].kw = k => \E i \in 1..Len(defs) : at[i] = j
  /\ \A i, j \in 1..Len(defs) : i < j => at[i] < at[j]
  /\ \A i \in 1..Len(defs) : \A m \in 1..Len(defs[i].body) :
       \E j \in 1..n : defs[i].body[m] = file[j]

\* With line n.
Extended(at, defs, file, k, n) ==
  IF file[n].kw = k
  THEN [i \in 1..(Len(defs) + 1) |-> IF i = Len(defs) + 1 THEN n ELSE at[i]] ELSE at

LEMMA OpensNext ==
  ASSUME NEW file \in W!Files, NEW k \in W!Kinds, NEW n \in 1..Len(file),
         NEW defs \in Seq(Definitions), NEW next \in Seq(Definitions),
         Follows(defs, next, k, file[n]), NEW at, Opens(at, defs, file, k, n - 1)
  PROVE  Opens(Extended(at, defs, file, k, n), next, file, k, n)
<1> DEFINE a == Extended(at, defs, file, k, n)
           L == Len(defs)
<1>1. /\ L \in Nat /\ n \in Nat /\ n \in 1..n /\ \A j \in 1..(n - 1) : j \in 1..n /\ j < n
      /\ \A j \in 1..n : j = n \/ j \in 1..(n - 1)
      /\ \A i \in 1..(L + 1) : i = L + 1 \/ i \in 1..L
      /\ \A i \in 1..L : defs[i].body \in Seq(W!Lines)
  <2>1. \A i \in 1..L : defs[i] \in Definitions
    OBVIOUS
  <2>2. Len(file) \in Nat
    BY DEF W!Files
  <2> QED BY <2>1, <2>2 DEF Definitions
<1>2. /\ \A i \in 1..L : /\ at[i] \in 1..(n - 1) /\ file[at[i]].kw = k
                         /\ defs[i].name = file[at[i]].name
      /\ \A j \in 1..(n - 1) : file[j].kw = k => \E i \in 1..L : at[i] = j
      /\ \A i, j \in 1..L : i < j => at[i] < at[j]
      /\ \A i \in 1..L : \A m \in 1..Len(defs[i].body) :
           \E j \in 1..(n - 1) : defs[i].body[m] = file[j]
      /\ at \in [1..L -> 1..(n - 1)]
  BY DEF Opens
<1>3. CASE file[n].kw = k
  <2>1. next = Append(defs, [name |-> file[n].name, body |-> << >>])
    BY <1>3 DEF Follows
  <2>2. /\ Len(next) = L + 1 /\ next[L + 1].name = file[n].name /\ next[L + 1].body = << >>
        /\ \A i \in 1..L : next[i] = defs[i] /\ i \in 1..(L + 1)
    BY <1>1, <2>1
  <2>3. a = [i \in 1..(L + 1) |-> IF i = L + 1 THEN n ELSE at[i]]
    BY <1>3 DEF Extended
  <2> HIDE DEF L, a
  <2>4. /\ a[L + 1] = n /\ \A i \in 1..L : a[i] = at[i] /\ a[i] < n
    <3>1. \A i \in 1..L : i # L + 1 /\ i \in 1..(L + 1)
      BY <1>1
    <3>2. L + 1 \in 1..(L + 1)
      BY <1>1
    <3>3. a[L + 1] = n
      BY <2>3, <3>2
    <3> QED BY <1>1, <1>2, <2>3, <3>1, <3>3
  <2>5. a \in [1..(L + 1) -> 1..n]
    <3>1. \A i \in 1..(L + 1) : a[i] \in 1..n
      BY <1>1, <1>2, <2>4
    <3> QED BY <2>3, <3>1
  <2>6. ASSUME NEW i \in 1..(L + 1)
        PROVE  file[a[i]].kw = k /\ next[i].name = file[a[i]].name
    <3>1. CASE i = L + 1
      BY <1>3, <2>2, <2>4, <3>1
    <3>2. CASE i \in 1..L
      <4>1. a[i] = at[i] /\ next[i] = defs[i]
        BY <2>2, <2>4, <3>2
      <4>2. file[at[i]].kw = k /\ defs[i].name = file[at[i]].name
        BY <1>2, <3>2
      <4> QED BY <4>1, <4>2
    <3> QED BY <1>1, <3>1, <3>2
  <2>7. ASSUME NEW j \in 1..n, file[j].kw = k PROVE \E i \in 1..(L + 1) : a[i] = j
    <3>1. CASE j = n
      <4>1. L + 1 \in 1..(L + 1)
        BY <1>1
      <4> QED BY <2>4, <3>1, <4>1
    <3>2. CASE j # n
      <4>1. PICK i \in 1..L : at[i] = j
        BY <1>1, <1>2, <2>7, <3>2
      <4> QED BY <2>2, <2>4, <4>1
    <3> QED BY <3>1, <3>2
  <2>8. ASSUME NEW i \in 1..(L + 1), NEW j \in 1..(L + 1), i < j PROVE a[i] < a[j]
    <3>1. i \in 1..L
      BY <1>1, <2>8
    <3>2. CASE j = L + 1
      BY <2>4, <3>1, <3>2
    <3>3. CASE j \in 1..L
      BY <1>2, <2>4, <2>8, <3>1, <3>3
    <3> QED BY <1>1, <3>2, <3>3
  <2>9. ASSUME NEW i \in 1..(L + 1), NEW m \in 1..Len(next[i].body)
        PROVE  \E j \in 1..n : next[i].body[m] = file[j]
    <3>1. CASE i = L + 1
      <4>1. Len(next[i].body) = 0
        BY <2>2, <3>1
      <4> QED BY <4>1
    <3>2. CASE i \in 1..L
      <4>1. next[i] = defs[i]
        BY <2>2, <3>2
      <4>2. m \in 1..Len(defs[i].body)
        BY <2>9, <4>1
      <4>3. \E j \in 1..(n - 1) : defs[i].body[m] = file[j]
        BY <1>2, <3>2, <4>2
      <4> QED BY <1>1, <4>1, <4>3
    <3> QED BY <1>1, <3>1, <3>2
  <2> QED BY <2>2, <2>5, <2>6, <2>7, <2>8, <2>9 DEF Opens, a
<1>4. CASE file[n].kw # k
  <2>1. a = at
    BY <1>4 DEF Extended
  <2>2. /\ Len(next) = L /\ \A i \in 1..L : next[i].name = defs[i].name
        /\ \A i \in 1..L : \A m \in 1..Len(next[i].body) :
             \E j \in 1..n : next[i].body[m] = file[j]
    <3>1. CASE next = defs
      BY <1>1, <1>2, <3>1
    <3>2. CASE next # defs
      <4>1. /\ Len(next) = L /\ \A i \in 1..(L - 1) : next[i] = defs[i]
            /\ next[L].name = defs[L].name /\ next[L].body = Append(defs[L].body, file[n])
        BY <1>4, <3>2 DEF Follows
      <4>2. \A i \in 1..L : i = L \/ i \in 1..(L - 1)
        BY <1>1
      <4> HIDE DEF L
      <4>3. ASSUME NEW i \in 1..L, NEW m \in 1..Len(next[i].body)
            PROVE  \E j \in 1..n : next[i].body[m] = file[j]
        <5>1. CASE i = L
          <6>1. defs[L].body \in Seq(W!Lines)
            BY <1>1, <5>1
          <6>2. m \in 1..Len(defs[L].body) \/ m = Len(defs[L].body) + 1
            BY <4>1, <4>3, <5>1, <6>1
          <6>3. CASE m \in 1..Len(defs[L].body)
            <7>1. next[i].body[m] = defs[L].body[m]
              BY <4>1, <5>1, <6>1, <6>3
            <7> QED BY <1>1, <1>2, <5>1, <6>3, <7>1
          <6>4. CASE m = Len(defs[L].body) + 1
            <7>1. next[i].body[m] = file[n]
              BY <4>1, <5>1, <6>1, <6>4
            <7> QED BY <1>1, <7>1
          <6> QED BY <6>2, <6>3, <6>4
        <5>2. CASE i \in 1..(L - 1)
          <6>1. next[i] = defs[i]
            BY <4>1, <5>2
          <6>2. m \in 1..Len(defs[i].body)
            BY <4>3, <6>1
          <6>3. \E j \in 1..(n - 1) : defs[i].body[m] = file[j]
            BY <1>2, <6>2
          <6> QED BY <1>1, <6>1, <6>3
        <5> QED BY <4>2, <5>1, <5>2
      <4>4. \A i \in 1..L : next[i].name = defs[i].name
        BY <4>1, <4>2
      <4> QED BY <4>1, <4>3, <4>4
    <3> QED BY <3>1, <3>2
  <2>3. \A j \in 1..n : file[j].kw = k => j \in 1..(n - 1)
    BY <1>1, <1>4
  <2> HIDE DEF L, a
  <2>4. at \in [1..L -> 1..n]
    BY <1>1, <1>2
  <2> QED BY <1>2, <2>1, <2>2, <2>3, <2>4 DEF Opens, a
<1> QED BY <1>3, <1>4

\* Each definition found among the first n lines has the lines from its opening to the next
\* opening of any kind.
Blocks(at, defs, file, n) ==
  \A i \in 1..Len(defs) :
    LET e == at[i] + Len(defs[i].body)
    IN  /\ e <= n /\ \A j \in (at[i] + 1)..e : file[j].kw \notin W!Kinds
        /\ e # n => file[e + 1].kw \in W!Kinds
        /\ \A m \in 1..Len(defs[i].body) : defs[i].body[m] = file[at[i] + m]

\* Of goals, policies and tests, those of the kind a clause belongs to take it.
LEMMA HomeFacts ==
  ASSUME NEW line \in W!Lines, line.kw \notin W!Kinds, NEW h \in W!Home(line.kw),
         NEW k \in {"goal", "policy", "test"}
  PROVE  h \in W!Kinds /\ k \in W!Kinds /\ (k \in W!Takers(line.kw) <=> h = k)
<1>1. line.kw \in W!GoalWords \cup {"field", "require", "step"}
  BY DEF W!Lines
<1>2. k \in W!Kinds
  BY DEF W!Kinds
<1>3. CASE line.kw \in W!GoalWords
  <2>1. h = "goal"
    BY <1>3 DEF W!Home
  <2>2. W!Takers(line.kw) = {"type", "goal"}
    BY <1>3 DEF W!Takers, W!GoalWords
  <2> QED BY <1>2, <2>1, <2>2 DEF W!Kinds
<1>4. CASE line.kw = "field"
  <2>1. h \in {"type", "event"} /\ W!Takers(line.kw) = {"type"}
    BY <1>4 DEF W!Home, W!Takers, W!GoalWords
  <2> QED BY <1>2, <2>1 DEF W!Kinds
<1>5. CASE line.kw = "require"
  <2>1. h = "policy" /\ W!Takers(line.kw) = {"policy"}
    BY <1>5 DEF W!Home, W!Takers, W!GoalWords
  <2> QED BY <1>2, <2>1 DEF W!Kinds
<1>6. CASE line.kw = "step"
  <2>1. h = "test" /\ W!Takers(line.kw) = {"test"}
    BY <1>6 DEF W!Home, W!Takers, W!GoalWords
  <2> QED BY <1>2, <2>1 DEF W!Kinds
<1> QED BY <1>1, <1>3, <1>4, <1>5, <1>6

LEMMA BlocksNext ==
  ASSUME NEW file \in W!Files, W!WellFormed(file), NEW k \in {"goal", "policy", "test"},
         NEW n \in 1..Len(file), NEW defs \in Seq(Definitions), NEW next \in Seq(Definitions),
         Follows(defs, next, k, file[n]), NEW at,
         Opens(at, defs, file, k, n - 1), Blocks(at, defs, file, n - 1)
  PROVE  Blocks(Extended(at, defs, file, k, n), next, file, n)
<1> DEFINE a == Extended(at, defs, file, k, n)
           L == Len(defs)
           B(i) == Len(defs[i].body)
<1>1. /\ L \in Nat /\ n \in Nat /\ k \in W!Kinds /\ n \in DOMAIN file /\ file[n] \in W!Lines
      /\ \A j \in 1..n : j \in DOMAIN file
  <2>1. file \in Seq(W!Lines)
    BY DEF W!Files
  <2> QED BY <2>1 DEF W!Kinds
<1>2. ASSUME NEW i \in 1..L
      PROVE  /\ B(i) \in Nat /\ at[i] \in 1..(n - 1) /\ at[i] \in Nat /\ file[at[i]].kw = k
             /\ defs[i].body \in Seq(W!Lines)
  <2>1. defs[i] \in Definitions
    OBVIOUS
  <2>2. defs[i].body \in Seq(W!Lines)
    BY <2>1 DEF Definitions
  <2>3. at \in [1..L -> 1..(n - 1)] /\ file[at[i]].kw = k
    BY DEF Opens
  <2>4. at[i] \in 1..(n - 1)
    BY <2>3
  <2>5. at[i] \in Nat
    BY <1>1, <2>4
  <2>6. B(i) \in Nat
    BY <2>2
  <2> QED BY <2>2, <2>3, <2>4, <2>5, <2>6
<1>3. ASSUME NEW i \in 1..L
      PROVE  /\ at[i] + B(i) <= n - 1
             /\ \A j \in (at[i] + 1)..(at[i] + B(i)) : file[j].kw \notin W!Kinds
             /\ at[i] + B(i) # n - 1 => file[at[i] + B(i) + 1].kw \in W!Kinds
             /\ \A m \in 1..B(i) : defs[i].body[m] = file[at[i] + m]
  BY DEF Blocks
<1>4. /\ \A j \in 1..(n - 1) : file[j].kw = k => \E i \in 1..L : at[i] = j
      /\ \A i, j \in 1..L : i < j => at[i] < at[j]
  BY DEF Opens
<1> HIDE DEF L, B
\* A definition that gains nothing from line n is one that ended before or ends there.
<1>5. ASSUME NEW i \in 1..L, file[n].kw \in W!Kinds \/ at[i] + B(i) # n - 1
      PROVE  at[i] + B(i) <= n /\ at[i] + B(i) # n /\ file[at[i] + B(i) + 1].kw \in W!Kinds
  <2>1. at[i] \in Nat /\ B(i) \in Nat /\ at[i] + B(i) \in Nat
    BY <1>2
  <2>2. at[i] + B(i) <= n - 1
    BY <1>3
  <2>3. at[i] + B(i) <= n /\ at[i] + B(i) # n
    BY <1>1, <2>1, <2>2
  <2>4. CASE at[i] + B(i) = n - 1
    <3>1. at[i] + B(i) + 1 = n
      BY <1>1, <2>1, <2>4
    <3> QED BY <1>5, <2>3, <2>4, <3>1
  <2>5. CASE at[i] + B(i) # n - 1
    BY <1>3, <2>3, <2>5
  <2> QED BY <2>4, <2>5
<1>6. CASE file[n].kw = k
  <2>1. next = Append(defs, [name |-> file[n].name, body |-> << >>])
    BY <1>6 DEF Follows
  <2>2. /\ Len(next) = L + 1 /\ next[L + 1].body = << >> /\ \A i \in 1..L : next[i] = defs[i]
    BY <1>1, <2>1 DEF L
  <2>3. a = [i \in 1..(L + 1) |-> IF i = L + 1 THEN n ELSE at[i]]
    BY <1>6 DEF Extended, L
  <2>4. /\ \A i \in 1..(L + 1) : i = L + 1 \/ i \in 1..L
        /\ \A i \in 1..L : i # L + 1 /\ i \in 1..(L + 1)
        /\ L + 1 \in 1..(L + 1)
    BY <1>1
  <2> HIDE DEF a
  <2>5. a[L + 1] = n /\ \A i \in 1..L : a[i] = at[i]
    BY <2>3, <2>4
  <2>6. ASSUME NEW i \in 1..(L + 1)
        PROVE  LET e == a[i] + Len(next[i].body)
               IN  /\ e <= n /\ \A j \in (a[i] + 1)..e : file[j].kw \notin W!Kinds
                   /\ e # n => file[e + 1].kw \in W!Kinds
                   /\ \A m \in 1..Len(next[i].body) : next[i].body[m] = file[a[i] + m]
    <3>1. CASE i = L + 1
      <4>1. Len(next[i].body) = 0 /\ a[i] = n
        BY <2>2, <2>5, <3>1
      <4>2. n + 0 = n /\ n <= n /\ (n + 1)..n = {} /\ 1..0 = {}
        BY <1>1
      <4> QED BY <4>1, <4>2
    <3>2. CASE i \in 1..L
      <4>1. next[i] = defs[i] /\ a[i] = at[i]
        BY <2>2, <2>5, <3>2
      <4>2. at[i] + B(i) <= n /\ at[i] + B(i) # n /\ file[at[i] + B(i) + 1].kw \in W!Kinds
        BY <1>1, <1>5, <1>6, <3>2
      <4>3. /\ \A j \in (at[i] + 1)..(at[i] + B(i)) : file[j].kw \notin W!Kinds
            /\ \A m \in 1..B(i) : defs[i].body[m] = file[at[i] + m]
        BY <1>3, <3>2
      <4> QED BY <4>1, <4>2, <4>3 DEF B
    <3> QED BY <2>4, <3>1, <3>2
  <2> QED BY <2>2, <2>6 DEF Blocks, a
<1>7. CASE /\ file[n].kw # k /\ next = defs
           /\ \A i \in 1..L : file[n].kw \in W!Kinds \/ at[i] + B(i) # n - 1
  <2>1. a = at
    BY <1>7 DEF Extended
  <2>2. \A i \in 1..L :
          /\ at[i] + B(i) <= n /\ \A j \in (at[i] + 1)..(at[i] + B(i)) : file[j].kw \notin W!Kinds
          /\ at[i] + B(i) # n => file[at[i] + B(i) + 1].kw \in W!Kinds
          /\ \A m \in 1..B(i) : defs[i].body[m] = file[at[i] + m]
    BY <1>3, <1>5, <1>7
  <2> QED BY <1>7, <2>1, <2>2 DEF Blocks, a, L, B
<1>8. CASE file[n].kw \notin W!Kinds
  <2>1. PICK h \in 1..(n - 1) : /\ file[h].kw \in W!Home(file[n].kw)
                                /\ \A m \in (h + 1)..n : file[m].kw \notin W!Kinds
    BY <1>1, <1>8 DEF W!WellFormed
  <2>2. file[h].kw \in W!Kinds /\ (k \in W!Takers(file[n].kw) <=> file[h].kw = k)
    BY <1>1, <1>8, <2>1, HomeFacts
  <2>3. h \in Nat /\ h < n /\ h \in 1..n
    BY <1>1, <2>1
  <2>4. \A j \in 1..(n - 1) : file[j].kw \in W!Kinds => j <= h
    <3>1. \A j \in 1..(n - 1) : j <= h \/ j \in (h + 1)..n
      BY <1>1, <2>3
    <3> QED BY <2>1, <3>1
  <2>5. CASE file[h].kw = k
    <3>1. PICK i0 \in 1..L : at[i0] = h
      BY <1>4, <2>1, <2>5
    <3>2. i0 = L /\ L \in 1..L
      <4>1. L \in 1..L /\ (i0 # L => i0 < L)
        BY <1>1, <3>1
      <4>2. at[L] <= h /\ at[L] \in Nat
        BY <1>1, <1>2, <2>4, <4>1
      <4>3. i0 < L => h < at[L]
        BY <1>4, <3>1, <4>1
      <4> QED BY <2>3, <4>1, <4>2, <4>3
    <3>3. at[L] = h /\ B(L) \in Nat
      BY <1>2, <3>1, <3>2
    <3>4. at[L] + B(L) = n - 1
      <4>1. h + B(L) <= n - 1 /\ (h + B(L) # n - 1 => file[h + B(L) + 1].kw \in W!Kinds)
        BY <1>3, <3>2, <3>3
      <4>2. h + B(L) # n - 1 => h + B(L) + 1 \in (h + 1)..n
        <5>1. \A x, y, z \in Nat : x < z /\ x + y <= z - 1 /\ x + y # z - 1 =>
                                   x + y + 1 \in (x + 1)..z
          OBVIOUS
        <5>2. h \in Nat /\ B(L) \in Nat /\ n \in Nat /\ h < n
          BY <1>1, <2>3, <3>3
        <5> QED BY <4>1, <5>1, <5>2
      <4> QED BY <2>1, <3>3, <4>1, <4>2
    <3>5. /\ Len(next) = L /\ \A i \in 1..(L - 1) : next[i] = defs[i]
          /\ next[L].body = Append(defs[L].body, file[n])
      <4>1. defs # << >>
        BY <3>2 DEF L
      <4> QED BY <1>8, <2>2, <2>5, <4>1 DEF Follows, L
    <3>6. /\ Len(next[L].body) = B(L) + 1 /\ next[L].body[B(L) + 1] = file[n]
          /\ \A m \in 1..B(L) : next[L].body[m] = defs[L].body[m]
      <4>1. defs[L].body \in Seq(W!Lines)
        BY <1>2, <3>2
      <4> QED BY <3>5, <4>1 DEF B
    <3>7. a = at
      BY <1>1, <1>8 DEF Extended
    <3>8. at[L] + (B(L) + 1) = n
      <4>1. \A x, y, z \in Nat : x + y = z - 1 => x + (y + 1) = z
        OBVIOUS
      <4>2. at[L] \in Nat /\ B(L) \in Nat /\ n \in Nat
        BY <1>1, <2>3, <3>3
      <4> QED BY <3>4, <4>1, <4>2
    <3> HIDE DEF a
    <3>9. ASSUME NEW i \in 1..L
          PROVE  LET e == a[i] + Len(next[i].body)
                 IN  /\ e <= n /\ \A j \in (a[i] + 1)..e : file[j].kw \notin W!Kinds
                     /\ e # n => file[e + 1].kw \in W!Kinds
                     /\ \A m \in 1..Len(next[i].body) : next[i].body[m] = file[a[i] + m]
      <4>1. CASE i = L
        <5>1. a[i] = h /\ Len(next[i].body) = B(L) + 1 /\ h + (B(L) + 1) = n /\ n <= n
          BY <1>1, <3>3, <3>6, <3>7, <3>8, <4>1
        <5>2. \A j \in (h + 1)..n : file[j].kw \notin W!Kinds
          BY <2>1
        <5>3. ASSUME NEW m \in 1..(B(L) + 1) PROVE next[L].body[m] = file[h + m]
          <6>1. m = B(L) + 1 \/ m \in 1..B(L)
            BY <3>3
          <6>2. CASE m = B(L) + 1
            BY <3>6, <5>1, <6>2
          <6>3. CASE m \in 1..B(L)
            <7>1. defs[L].body[m] = file[at[L] + m]
              BY <1>3, <3>2, <6>3
            <7> QED BY <3>3, <3>6, <6>3, <7>1
          <6> QED BY <6>1, <6>2, <6>3
        <5> QED BY <4>1, <5>1, <5>2, <5>3
      <4>2. CASE i # L
        <5>1. i \in 1..(L - 1) /\ i < L
          BY <1>1, <4>2
        <5>2. next[i] = defs[i] /\ a[i] = at[i] /\ Len(next[i].body) = B(i)
          BY <3>5, <3>7, <5>1 DEF B
        <5>3. at[i] + B(i) # n - 1
          <6>1. at[i] < h /\ at[i] \in Nat /\ B(i) \in Nat
            BY <1>2, <1>4, <3>2, <3>3, <5>1
          <6>2. h \notin (at[i] + 1)..(at[i] + B(i))
            BY <1>3, <2>2
          <6> QED BY <1>1, <2>3, <6>1, <6>2
        <5>4. at[i] + B(i) <= n /\ at[i] + B(i) # n /\ file[at[i] + B(i) + 1].kw \in W!Kinds
          BY <1>5, <5>3
        <5>5. /\ \A j \in (at[i] + 1)..(at[i] + B(i)) : file[j].kw \notin W!Kinds
              /\ \A m \in 1..B(i) : defs[i].body[m] = file[at[i] + m]
          BY <1>3
        <5> QED BY <5>2, <5>4, <5>5
      <4> QED BY <4>1, <4>2
    <3> QED BY <3>5, <3>9 DEF Blocks, a
  <2>6. CASE file[h].kw # k
    <3>1. next = defs
      BY <1>1, <1>8, <2>2, <2>6 DEF Follows
    <3>2. ASSUME NEW i \in 1..L PROVE at[i] + B(i) # n - 1
      <4>1. at[i] <= h /\ at[i] # h /\ at[i] \in Nat /\ B(i) \in Nat
        BY <1>1, <1>2, <2>4, <2>6
      <4>2. h \notin (at[i] + 1)..(at[i] + B(i))
        BY <1>3, <2>2
      <4> QED BY <1>1, <2>3, <4>1, <4>2
    <3> QED BY <1>1, <1>7, <1>8, <3>1, <3>2
  <2> QED BY <2>5, <2>6
<1>9. CASE file[n].kw \in W!Kinds /\ file[n].kw # k
  <2>1. next = defs
    BY <1>9 DEF Follows
  <2> QED BY <1>7, <1>9, <2>1
<1> QED BY <1>6, <1>8, <1>9

LEMMA ParsedOpens ==
  ASSUME NEW file \in W!Files, NEW k \in W!Kinds
  PROVE  /\ W!Parsed(file)[k] \in Seq(Definitions)
         /\ \E at : /\ Opens(at, W!Parsed(file)[k], file, k, Len(file))
                    /\ W!WellFormed(file) /\ k \in {"goal", "policy", "test"} =>
                         Blocks(at, W!Parsed(file)[k], file, Len(file))
<1> DEFINE K == Len(file)
           Blocked == W!WellFormed(file) /\ k \in {"goal", "policy", "test"}
           Good(at, defs, n) ==
             Opens(at, defs, file, k, n) /\ (Blocked => Blocks(at, defs, file, n))
<1>1. PICK found : /\ Findings(found, file)
                   /\ \A h \in W!Kinds : W!Parsed(file)[h] = found[Len(file)][h]
  BY ParsedIs
<1>2. K \in Nat
  BY DEF W!Files
<1>3. /\ \A n \in 0..K : found[n][k] \in Seq(Definitions)
      /\ found[0][k] = << >>
      /\ \A n \in 1..K : Follows(found[n - 1][k], found[n][k], k, file[n])
  BY <1>1 DEF Findings
<1> DEFINE H == {n \in 0..K : \E at : Good(at, found[n][k], n)}
<1> HIDE DEF Good, K
<1>4. 0 \in H
  <2>1. 1..0 = {} /\ Len(found[0][k]) = 0 /\ 0 \in 0..K
    BY <1>2, <1>3
  <2>2. Opens([i \in 1..0 |-> 0], found[0][k], file, k, 0)
    BY <2>1 DEF Opens
  <2>3. Blocks([i \in 1..0 |-> 0], found[0][k], file, 0)
    BY <2>1 DEF Blocks
  <2> QED BY <2>1, <2>2, <2>3 DEF Good
<1>5. ASSUME NEW n \in 1..K, n - 1 \in H PROVE n \in H
  <2>1. PICK at : Good(at, found[n - 1][k], n - 1)
    BY <1>5
  <2>2. n \in 0..K /\ n - 1 \in 0..K /\ n \in 1..Len(file)
    BY <1>2 DEF K
  <2> DEFINE next == Extended(at, found[n - 1][k], file, k, n)
  <2>3. found[n - 1][k] \in Seq(Definitions) /\ found[n][k] \in Seq(Definitions)
    BY <1>3, <2>2
  <2>4. Follows(found[n - 1][k], found[n][k], k, file[n])
    BY <1>3
  <2>5. Opens(at, found[n - 1][k], file, k, n - 1)
    BY <2>1 DEF Good
  <2>6. Opens(next, found[n][k], file, k, n)
    BY <2>2, <2>3, <2>4, <2>5, OpensNext
  <2>7. ASSUME Blocked PROVE Blocks(next, found[n][k], file, n)
    <3>1. Blocks(at, found[n - 1][k], file, n - 1)
      BY <2>1, <2>7 DEF Good
    <3> QED BY <2>2, <2>3, <2>4, <2>5, <2>7, <3>1, BlocksNext
  <2>8. Good(next, found[n][k], n)
    BY <2>6, <2>7 DEF Good
  <2> QED BY <2>2, <2>8
<1>6. K \in H
  <2> HIDE DEF H
  <2>1. H \in SUBSET (0..K)
    BY DEF H
  <2> QED BY <1>2, <1>4, <1>5, <2>1, AlongSteps
<1>7. PICK at : Good(at, found[K][k], K)
  BY <1>6
<1>8. W!Parsed(file)[k] = found[K][k] /\ K \in 0..K
  BY <1>1, <1>2 DEF K
<1> QED BY <1>3, <1>7, <1>8 DEF Good, K

\* Every goal, policy and test of a file with its clauses in place has its own.
LEMMA ParsedBlocks ==
  ASSUME NEW file \in W!Files, W!WellFormed(file), NEW k \in {"goal", "policy", "test"}
  PROVE  W!AreBlocks(W!Parsed(file)[k], file, k)
<1> DEFINE defs == W!Parsed(file)[k]
           opens == {j \in DOMAIN file : file[j].kw = k}
<1>1. k \in W!Kinds
  BY DEF W!Kinds
<1>2. defs \in Seq(Definitions)
  BY <1>1, ParsedOpens
<1>3. PICK at : Opens(at, defs, file, k, Len(file)) /\ Blocks(at, defs, file, Len(file))
  BY <1>1, ParsedOpens
<1>4. DOMAIN defs = 1..Len(defs) /\ DOMAIN file = 1..Len(file) /\ Len(file) \in Nat
  <2>1. file \in Seq(W!Lines)
    BY DEF W!Files
  <2> QED BY <1>2, <2>1
<1>5. \A i \in 1..Len(defs) : defs[i] \in Definitions
  BY <1>2
<1> HIDE DEF defs
<1>6. at \in [DOMAIN defs -> opens]
  BY <1>3, <1>4 DEF Opens
<1>7. \A j \in opens : \E i \in DOMAIN defs : at[i] = j
  BY <1>3, <1>4 DEF Opens
<1>8. \A i, j \in DOMAIN defs : i < j => at[i] < at[j]
  BY <1>3, <1>4 DEF Opens
<1>9. ASSUME NEW i \in DOMAIN defs
      PROVE  /\ defs[i].name = file[at[i]].name
             /\ W!Block(file, at[i], at[i] + Len(defs[i].body))
             /\ \A n \in DOMAIN defs[i].body : defs[i].body[n] = file[at[i] + n]
  <2>1. defs[i].body \in Seq(W!Lines) /\ i \in 1..Len(defs)
    BY <1>4, <1>5 DEF Definitions
  <2>2. /\ DOMAIN defs[i].body = 1..Len(defs[i].body) /\ Len(defs[i].body) \in Nat
        /\ at[i] \in 1..Len(file)
    BY <1>4, <1>6, <2>1
  <2> DEFINE B == Len(defs[i].body)
             e == at[i] + B
  <2>3. /\ e <= Len(file) /\ \A j \in (at[i] + 1)..e : file[j].kw \notin W!Kinds
        /\ e # Len(file) => file[e + 1].kw \in W!Kinds
        /\ \A m \in 1..B : defs[i].body[m] = file[at[i] + m]
    BY <1>3, <2>1 DEF Blocks
  <2> HIDE DEF B
  <2>4. e \in at[i]..Len(file)
    BY <1>4, <2>2, <2>3 DEF B
  <2>5. W!Block(file, at[i], e)
    BY <2>3, <2>4 DEF W!Block
  <2>6. defs[i].name = file[at[i]].name
    BY <1>3, <2>1 DEF Opens
  <2> QED BY <2>2, <2>3, <2>5, <2>6 DEF B
<1> QED BY <1>6, <1>7, <1>8, <1>9 DEF W!AreBlocks, defs

LEMMA FilesReadTyped ==
  ASSUME NEW p \in W!Trees
  PROVE  W!FilesRead(p) \in Seq(W!Files)
<1> DEFINE apps == [i \in DOMAIN p.apps |-> p.apps[i].files]
<1>1. /\ p.shared.files \in Seq(W!Files) /\ p.tests.files \in Seq(W!Files)
      /\ p.apps \in Seq(W!Dirs)
  BY DEF W!Trees, W!Dirs
<1>2. apps \in Seq(Seq(W!Files))
  <2>5. \A app \in W!Dirs : app.files \in Seq(W!Files)
    BY DEF W!Dirs
  <2>3. DOMAIN p.apps = 1..Len(p.apps) /\ Len(p.apps) \in Nat
    BY <1>1
  <2>2. \A i \in 1..Len(p.apps) : p.apps[i].files \in Seq(W!Files)
    BY <1>1, <2>5
  <2>4. apps = [i \in 1..Len(p.apps) |-> p.apps[i].files]
    BY <2>3
  <2> QED BY <2>2, <2>3, <2>4
<1> HIDE DEF apps
<1>3. W!Joined(apps) \in Seq(W!Files)
  BY <1>2, JoinedIs
<1>4. << >> \in Seq(W!Files)
  OBVIOUS
<1> QED BY <1>1, <1>3, <1>4 DEF W!FilesRead, apps

\* Where a line is written: the number of its file and its own.
LEMMA WrittenIs ==
  ASSUME NEW p, NEW kw, NEW n
  PROVE  /\ \A i \in DOMAIN W!FilesRead(p) : \A j \in DOMAIN W!FilesRead(p)[i] :
              <<i, j>> \in W!Written(p, kw, n) <=>
                W!FilesRead(p)[i][j] = [kw |-> kw, name |-> n]
         /\ \A at \in W!Written(p, kw, n) :
              \E i \in DOMAIN W!FilesRead(p) : \E j \in DOMAIN W!FilesRead(p)[i] :
                at = <<i, j>> /\ W!FilesRead(p)[i][j] = [kw |-> kw, name |-> n]
<1> DEFINE fs == W!FilesRead(p)
           All == UNION {{i} \X DOMAIN fs[i] : i \in DOMAIN fs}
<1>1. W!Written(p, kw, n) = {at \in All : fs[at[1]][at[2]] = [kw |-> kw, name |-> n]}
  BY DEF W!Written
<1> HIDE DEF fs
<1>2. ASSUME NEW i \in DOMAIN fs, NEW j \in DOMAIN fs[i]
      PROVE  <<i, j>> \in W!Written(p, kw, n) <=> fs[i][j] = [kw |-> kw, name |-> n]
  <2>1. <<i, j>> \in All
    OBVIOUS
  <2> HIDE DEF All
  <2>2. <<i, j>>[1] = i /\ <<i, j>>[2] = j
    OBVIOUS
  <2> QED BY <1>1, <2>1, <2>2
<1>3. ASSUME NEW at \in W!Written(p, kw, n)
      PROVE  \E i \in DOMAIN fs : \E j \in DOMAIN fs[i] :
               at = <<i, j>> /\ fs[i][j] = [kw |-> kw, name |-> n]
  <2> HIDE DEF All
  <2>1. at \in All /\ fs[at[1]][at[2]] = [kw |-> kw, name |-> n]
    BY <1>1
  <2>2. PICK i \in DOMAIN fs : at \in {i} \X DOMAIN fs[i]
    BY <2>1 DEF All
  <2>3. at = <<at[1], at[2]>> /\ at[1] = i /\ at[2] \in DOMAIN fs[i]
    BY <2>2
  <2> QED BY <2>1, <2>3
<1> QED BY <1>2, <1>3 DEF fs

\* The definitions of a kind over all files: each has a place of its own where it is written,
\* each place is that of one, and the lines of the bodies are written.
WrittenAt(pl, defs, p, k) ==
  /\ \A m \in 1..Len(defs) : pl[m] \in W!Written(p, k, defs[m].name)
  /\ \A l, m \in 1..Len(defs) : pl[l] = pl[m] => l = m
  /\ \A n : \A at \in W!Written(p, k, n) : \E m \in 1..Len(defs) : defs[m].name = n
  /\ \A m \in 1..Len(defs) : \A b \in 1..Len(defs[m].body) :
       W!Written(p, defs[m].body[b].kw, defs[m].body[b].name) # {}

LEMMA MergedPlaces ==
  ASSUME NEW p \in W!Trees, NEW k \in W!Kinds
  PROVE  W!Merged(p, k) \in Seq(Definitions) /\ \E pl : WrittenAt(pl, W!Merged(p, k), p, k)
<1> DEFINE fs == W!FilesRead(p)
           K == Len(fs)
           seqs == [i \in 1..K |-> W!Parsed(fs[i])[k]]
           q == W!Merged(p, k)
           opener(i) == CHOOSE o : Opens(o, seqs[i], fs[i], k, Len(fs[i]))
<1>1. fs \in Seq(W!Files) /\ K \in Nat /\ DOMAIN fs = 1..K /\ \A i \in 1..K : fs[i] \in W!Files
  <2>1. fs \in Seq(W!Files)
    BY FilesReadTyped
  <2> HIDE DEF fs
  <2> QED BY <2>1
<1>2. q = W!Joined(seqs)
  BY <1>1 DEF W!Merged
<1> HIDE DEF fs, K, q
<1>3. ASSUME NEW i \in 1..K
      PROVE  /\ seqs[i] \in Seq(Definitions) /\ Opens(opener(i), seqs[i], fs[i], k, Len(fs[i]))
             /\ DOMAIN fs[i] = 1..Len(fs[i]) /\ \A j \in 1..Len(fs[i]) : fs[i][j] \in W!Lines
             /\ Len(fs[i]) \in Nat /\ i \in DOMAIN fs
  <2>1. seqs[i] = W!Parsed(fs[i])[k] /\ fs[i] \in W!Files /\ i \in DOMAIN fs
    BY <1>1
  <2>2. seqs[i] \in Seq(Definitions) /\ \E o : Opens(o, seqs[i], fs[i], k, Len(fs[i]))
    BY <2>1, ParsedOpens
  <2>3. fs[i] \in Seq(W!Lines)
    BY <2>1 DEF W!Files
  <2> QED BY <2>1, <2>2, <2>3
<1>4. seqs \in Seq(Seq(Definitions)) /\ Len(seqs) = K
  <2> DEFINE T == Seq(Definitions)
  <2>1. \A i \in 1..K : W!Parsed(fs[i])[k] \in T
    BY <1>3
  <2> HIDE DEF T
  <2>2. seqs \in Seq(T) /\ Len(seqs) = K
    BY <1>1, <2>1
  <2> QED BY <2>2 DEF T
<1> HIDE DEF seqs, opener
<1>5. q \in Seq(Definitions) /\ \E at : Joins(q, seqs, K, at)
  BY <1>2, <1>4, JoinedIs
<1>6. PICK at : Joins(q, seqs, K, at)
  BY <1>5
<1> DEFINE pl == [m \in 1..Len(q) |-> <<at[m][1], opener(at[m][1])[at[m][2]]>>]
\* The place of a definition: opening o of file i.
<1>7. ASSUME NEW m \in 1..Len(q)
      PROVE  /\ at[m][1] \in 1..K /\ at[m][2] \in 1..Len(seqs[at[m][1]])
             /\ q[m] = seqs[at[m][1]][at[m][2]] /\ at[m] = <<at[m][1], at[m][2]>>
             /\ pl[m] = <<at[m][1], opener(at[m][1])[at[m][2]]>>
  <2>1. at[m] \in (1..K) \X Nat
    BY <1>6 DEF Joins
  <2>2. at[m] = <<at[m][1], at[m][2]>> /\ at[m][1] \in 1..K
    BY <2>1
  <2> QED BY <1>6, <2>2 DEF Joins
<1> HIDE DEF pl
<1>8. ASSUME NEW i \in 1..K, NEW j \in 1..Len(seqs[i])
      PROVE  /\ opener(i)[j] \in 1..Len(fs[i]) /\ fs[i][opener(i)[j]] \in W!Lines
             /\ fs[i][opener(i)[j]].kw = k /\ fs[i][opener(i)[j]].name = seqs[i][j].name
  BY <1>3 DEF Opens
<1>9. \A line \in W!Lines : line = [kw |-> line.kw, name |-> line.name]
  BY DEF W!Lines
<1>10. ASSUME NEW i \in 1..K, NEW j \in 1..Len(fs[i])
       PROVE  <<i, j>> \in W!Written(p, fs[i][j].kw, fs[i][j].name)
  <2>1. i \in DOMAIN fs /\ j \in DOMAIN fs[i] /\ fs[i][j] \in W!Lines
    BY <1>3
  <2>2. fs[i][j] = [kw |-> fs[i][j].kw, name |-> fs[i][j].name]
    BY <1>9, <2>1
  <2> QED BY <2>1, <2>2, WrittenIs DEF fs
<1>11. ASSUME NEW m \in 1..Len(q) PROVE pl[m] \in W!Written(p, k, q[m].name)
  <2> DEFINE i == at[m][1]
             j == opener(i)[at[m][2]]
  <2>1. i \in 1..K /\ at[m][2] \in 1..Len(seqs[i]) /\ pl[m] = <<i, j>>
    BY <1>7
  <2>2. q[m] = seqs[i][at[m][2]]
    BY <1>7
  <2>3. j \in 1..Len(fs[i]) /\ fs[i][j].kw = k /\ fs[i][j].name = seqs[i][at[m][2]].name
    BY <1>8, <2>1
  <2> HIDE DEF i, j
  <2>4. <<i, j>> \in W!Written(p, fs[i][j].kw, fs[i][j].name)
    BY <1>10, <2>1, <2>3
  <2> QED BY <2>1, <2>2, <2>3, <2>4
<1>12. ASSUME NEW l \in 1..Len(q), NEW m \in 1..Len(q), pl[l] = pl[m] PROVE l = m
  <2>1. at[l][1] = at[m][1] /\ opener(at[l][1])[at[l][2]] = opener(at[l][1])[at[m][2]]
    BY <1>7, <1>12
  <2> DEFINE i == at[l][1]
  <2>2. i \in 1..K /\ at[l][2] \in 1..Len(seqs[i]) /\ at[m][2] \in 1..Len(seqs[i])
    BY <1>7, <2>1
  <2>9. opener(i)[at[l][2]] \in 1..Len(fs[i]) /\ opener(i)[at[m][2]] \in 1..Len(fs[i])
    BY <1>8, <2>2
  <2>3. /\ opener(i)[at[l][2]] \in Nat /\ opener(i)[at[m][2]] \in Nat
        /\ at[l][2] \in Nat /\ at[m][2] \in Nat
    <3>1. \A x : \A y \in 1..x : y \in Nat
      OBVIOUS
    <3> QED BY <2>2, <2>9, <3>1
  <2>4. \A a, b \in 1..Len(seqs[i]) : a < b => opener(i)[a] < opener(i)[b]
    BY <1>3, <2>2 DEF Opens
  <2>5. opener(i)[at[l][2]] = opener(i)[at[m][2]]
    BY <2>1
  <2> HIDE DEF i
  <2>10. \A a, b \in Nat : a = b => ~(a < b)
    OBVIOUS
  <2>11. ~(at[l][2] < at[m][2])
    <3>1. at[l][2] < at[m][2] => opener(i)[at[l][2]] < opener(i)[at[m][2]]
      BY <2>2, <2>4
    <3> QED BY <2>3, <2>5, <2>10, <3>1
  <2>12. ~(at[m][2] < at[l][2])
    <3>1. at[m][2] < at[l][2] => opener(i)[at[m][2]] < opener(i)[at[l][2]]
      BY <2>2, <2>4
    <3> QED BY <2>3, <2>5, <2>10, <3>1
  <2>7. at[l][2] = at[m][2]
    <3>1. \A a, b \in Nat : ~(a < b) /\ ~(b < a) => a = b
      OBVIOUS
    <3> QED BY <2>3, <2>11, <2>12, <3>1
  <2>8. at[l] = at[m]
    BY <1>7, <2>1, <2>7
  <2> QED BY <1>6, <2>8 DEF Joins
<1>13. ASSUME NEW n, NEW pt \in W!Written(p, k, n)
       PROVE  \E m \in 1..Len(q) : q[m].name = n
  <2>1. PICK i \in DOMAIN fs : \E j \in DOMAIN fs[i] : fs[i][j] = [kw |-> k, name |-> n]
    BY <1>13, WrittenIs DEF fs
  <2>2. PICK j \in 1..Len(fs[i]) : fs[i][j] = [kw |-> k, name |-> n]
    BY <1>1, <1>3, <2>1
  <2>3. i \in 1..K /\ fs[i][j].kw = k /\ fs[i][j].name = n
    BY <1>1, <2>2
  <2>4. PICK d \in 1..Len(seqs[i]) : opener(i)[d] = j
    BY <1>3, <2>3 DEF Opens
  <2>5. PICK m \in 1..Len(q) : at[m] = <<i, d>>
    BY <1>6, <2>3 DEF Joins
  <2>6. q[m] = seqs[i][d]
    BY <1>6, <2>5 DEF Joins
  <2> QED BY <1>8, <2>3, <2>4, <2>6
<1>14. ASSUME NEW m \in 1..Len(q), NEW b \in 1..Len(q[m].body)
       PROVE  W!Written(p, q[m].body[b].kw, q[m].body[b].name) # {}
  <2> DEFINE i == at[m][1]
  <2>1. i \in 1..K /\ at[m][2] \in 1..Len(seqs[i]) /\ q[m] = seqs[i][at[m][2]]
    BY <1>7
  <2> HIDE DEF i
  <2>3. /\ Opens(opener(i), seqs[i], fs[i], k, Len(fs[i]))
        /\ b \in 1..Len(seqs[i][at[m][2]].body)
    BY <1>3, <1>14, <2>1
  <2>2. PICK j \in 1..Len(fs[i]) : seqs[i][at[m][2]].body[b] = fs[i][j]
    BY <2>1, <2>3 DEF Opens
  <2> QED BY <1>10, <2>1, <2>2
<1> HIDE DEF q
<1>15. WrittenAt(pl, q, p, k)
  BY <1>11, <1>12, <1>13, <1>14 DEF WrittenAt
<1> QED BY <1>5, <1>15 DEF q

\* What a load takes from a project.
LEMMA ProjectFacts ==
  ASSUME NEW p \in Projects
  PROVE  LET M == W!Merged(p, "goal")
         IN  /\ p \in W!Trees /\ M \in Seq(Definitions)
             /\ \A m \in 1..Len(M) : M[m].name \in W!GoalNamesOf(p)
             /\ \A n \in W!GoalNamesOf(p) : \E m \in 1..Len(M) : M[m].name = n
             /\ \A l, m \in 1..Len(M) : l # m /\ M[l].name = M[m].name =>
                  \E a, b \in W!Written(p, "goal", M[m].name) : a # b
             /\ \A m \in 1..Len(M) : \A line \in W!Compiled(M[m].body) :
                  line \in W!Lines /\ W!Written(p, line.kw, line.name) # {}
             /\ W!Stubs(p) \subseteq STRING \cup {W!NoName}
             /\ \A t : t \in W!Stubs(p) <=> W!Written(p, "action", t) # {}
<1> DEFINE M == W!Merged(p, "goal")
           A == W!Merged(p, "action")
<1>1. p \in W!Trees /\ "goal" \in W!Kinds /\ "action" \in W!Kinds
  BY SurroundingsAssumption DEF W!Kinds
<1>2. M \in Seq(Definitions) /\ \E pl : WrittenAt(pl, M, p, "goal")
  BY <1>1, MergedPlaces
<1>3. A \in Seq(Definitions) /\ \E pl : WrittenAt(pl, A, p, "action")
  BY <1>1, MergedPlaces
<1>4. PICK pl : WrittenAt(pl, M, p, "goal")
  BY <1>2
<1>5. PICK pa : WrittenAt(pa, A, p, "action")
  BY <1>3
<1>6. W!Stubs(p) = {A[i].name : i \in 1..Len(A)}
  BY <1>3 DEF W!Stubs
<1> HIDE DEF M, A
<1>7. \A m \in 1..Len(M) : M[m].body \in Seq(W!Lines)
  <2>1. \A m \in 1..Len(M) : M[m] \in Definitions
    BY <1>2
  <2> QED BY <2>1 DEF Definitions
<1>8. ASSUME NEW m \in 1..Len(M) PROVE M[m].name \in W!GoalNamesOf(p)
  <2>1. pl[m] \in W!Written(p, "goal", M[m].name)
    BY <1>4 DEF WrittenAt
  <2>5. PICK i \in DOMAIN W!FilesRead(p) : \E j \in DOMAIN W!FilesRead(p)[i] :
          W!FilesRead(p)[i][j] = [kw |-> "goal", name |-> M[m].name]
    BY <2>1, WrittenIs
  <2>2. PICK j \in DOMAIN W!FilesRead(p)[i] :
          W!FilesRead(p)[i][j] = [kw |-> "goal", name |-> M[m].name]
    BY <2>5
  <2>3. W!FilesRead(p)[i][j].kw = "goal" /\ W!FilesRead(p)[i][j].name = M[m].name
    BY <2>2
  <2>4. M[m].name \in Names
    BY <2>2, <2>3, SurroundingsAssumption
  <2> QED BY <2>1, <2>4 DEF W!GoalNamesOf
<1>9. ASSUME NEW n \in W!GoalNamesOf(p) PROVE \E m \in 1..Len(M) : M[m].name = n
  BY <1>4 DEF WrittenAt, W!GoalNamesOf
<1>10. ASSUME NEW l \in 1..Len(M), NEW m \in 1..Len(M), l # m, M[l].name = M[m].name
       PROVE  \E a, b \in W!Written(p, "goal", M[m].name) : a # b
  <2>1. pl[l] \in W!Written(p, "goal", M[l].name) /\ pl[m] \in W!Written(p, "goal", M[m].name)
    BY <1>4 DEF WrittenAt
  <2>2. pl[l] # pl[m]
    BY <1>4, <1>10 DEF WrittenAt
  <2> QED BY <1>10, <2>1, <2>2
<1>11. ASSUME NEW m \in 1..Len(M), NEW line \in W!Compiled(M[m].body)
       PROVE  line \in W!Lines /\ W!Written(p, line.kw, line.name) # {}
  <2>1. PICK b \in DOMAIN M[m].body : line = M[m].body[b]
    BY <1>11 DEF W!Compiled
  <2>2. b \in 1..Len(M[m].body) /\ M[m].body \in Seq(W!Lines)
    BY <1>7, <2>1
  <2>3. M[m].body[b] \in W!Lines
    BY <2>2
  <2> QED BY <1>4, <2>1, <2>2, <2>3 DEF WrittenAt
<1>12. W!Stubs(p) \subseteq STRING \cup {W!NoName}
  <2>1. \A i \in 1..Len(A) : A[i] \in Definitions
    BY <1>3
  <2>2. \A i \in 1..Len(A) : A[i].name \in STRING \cup {W!NoName}
    BY <2>1 DEF Definitions
  <2> QED BY <1>6, <2>2
<1>13. ASSUME NEW t PROVE t \in W!Stubs(p) <=> W!Written(p, "action", t) # {}
  <2>1. ASSUME t \in W!Stubs(p) PROVE W!Written(p, "action", t) # {}
    <3>1. PICK i \in 1..Len(A) : t = A[i].name
      BY <1>6, <2>1
    <3>2. pa[i] \in W!Written(p, "action", A[i].name)
      BY <1>5 DEF WrittenAt
    <3> QED BY <3>1, <3>2
  <2>2. ASSUME W!Written(p, "action", t) # {} PROVE t \in W!Stubs(p)
    <3>1. PICK i \in 1..Len(A) : A[i].name = t
      BY <1>5, <2>2 DEF WrittenAt
    <3> QED BY <1>6, <3>1
  <2> QED BY <2>1, <2>2
<1> QED BY <1>1, <1>2, <1>8, <1>9, <1>10, <1>11, <1>12, <1>13 DEF M

-----------------------------------------------------------------------------
(* The program at the prompt.  The invariant follows the first load goal   *)
(* by goal, as only then it is known what else the engine can have: what   *)
(* the load has behind it, and what goals of the project have spawned.     *)

\* Shapes.
ProjectTyped ==
  /\ disk \in Projects /\ loads \in Nat /\ (loads > 0 => loaded \in Projects)
  /\ goals \in [Names -> {"none", "active", "pending", "complete"}]
  /\ bodies \in [Names -> SUBSET W!Lines]
  /\ handler \in [Types -> {"none", "plugin", "builtin", "stub"}]
  /\ todo \in [stubs : SUBSET (STRING \cup {W!NoName}), goals : Seq(Definitions)]
  /\ \A i \in 1..Len(todo.goals) : todo.goals[i].name \in Names

\* What there is before the first load.
NotLoaded ==
  loads = 0 =>
    /\ todo.stubs = {} /\ todo.goals = << >>
    /\ \A n \in Names : goals[n] = "none" /\ bodies[n] = {}
    /\ \A t \in Types : handler[t] = IF t \in Plugin THEN "plugin" ELSE "none"

\* Every goal of the project is registered or still in the load under way.
GoalsFollow ==
  alive /\ loads > 0 /\ loaded.found =>
    \A n \in W!GoalNamesOf(loaded) :
      goals[n] # "none" \/ \E i \in 1..Len(todo.goals) : todo.goals[i].name = n

\* The first load has k goals behind it: no other is registered but by a spawn.
Behind(k) ==
  LET M == W!Merged(loaded, "goal")
  IN  /\ k + Len(todo.goals) = Len(M) /\ \A j \in 1..Len(todo.goals) : todo.goals[j] = M[k + j]
      /\ \A n \in Names : goals[n] \in {"active", "complete"} => \E i \in 1..k : M[i].name = n

FromLoaded ==
  \A n \in Names : /\ \A line \in bodies[n] : W!Written(loaded, line.kw, line.name) # {}
                   /\ goals[n] = "pending" => W!Written(loaded, "spawn", n) # {}

FirstLoad == loads = 1 => FromLoaded /\ (todo.goals # << >> => \E k \in Nat : Behind(k))

\* Why the process may have ended in the first load.
Excused ==
  \/ ~W!Loadable(loaded)
  \/ \E n \in Names : \E a, b \in W!Written(loaded, "goal", n) : a # b
  \/ \E n \in W!GoalNamesOf(loaded) : goals[n] = "pending" /\ W!Written(loaded, "spawn", n) # {}

EndExcused == ~alive /\ loads = 1 => Excused

\* Who has registered each resolver, but for the stubs of the load under way.
StubOf(t) == loaded.found /\ W!Written(loaded, "action", t) # {}
HandlerFollows(t) ==
  /\ t \in todo.stubs => StubOf(t) /\ ~rewound
  /\ rewound /\ t \in Plugin => handler[t] = "plugin"
  /\ ~(rewound /\ t \in Plugin) /\ StubOf(t) => handler[t] = "stub" \/ t \in todo.stubs
  /\ ~(rewound /\ t \in Plugin) /\ ~StubOf(t) =>
       /\ t \in Builtin => handler[t] = "builtin"
       /\ t \notin Builtin /\ loads = 1 => handler[t] = IF t \in Plugin THEN "plugin" ELSE "none"

HandlersSound == alive /\ loads > 0 => \A t \in Types : HandlerFollows(t)

WorkspaceInv ==
  ProjectTyped /\ NotLoaded /\ GoalsFollow /\ FirstLoad /\ EndExcused /\ HandlersSound

LEMMA WorkspaceInit == W!Init => WorkspaceInv
<1> SUFFICES ASSUME W!Init PROVE WorkspaceInv
  OBVIOUS
<1> USE DEF W!Init
<1>1. todo.stubs = {} /\ todo.goals = << >> /\ todo = [stubs |-> {}, goals |-> << >>]
  BY DEF W!Done
<1>2. ProjectTyped
  <2>1. << >> \in Seq(Definitions) /\ Len(<< >>) = 0
    OBVIOUS
  <2>2. todo \in [stubs : SUBSET (STRING \cup {W!NoName}), goals : Seq(Definitions)]
    BY <1>1, <2>1
  <2> QED BY <1>1, <2>1, <2>2 DEF ProjectTyped
<1>3. NotLoaded
  BY <1>1 DEF NotLoaded
<1> QED BY <1>2, <1>3 DEF WorkspaceInv, GoalsFollow, FirstLoad, EndExcused, HandlersSound

LEMMA WorkspaceUnchanged ==
  ASSUME WorkspaceInv, UNCHANGED workspaceVars
  PROVE  WorkspaceInv'
<1> USE DEF workspaceVars
<1>1. ProjectTyped' /\ NotLoaded'
  BY DEF WorkspaceInv, ProjectTyped, NotLoaded
<1>2. GoalsFollow'
  BY DEF WorkspaceInv, GoalsFollow, W!GoalNamesOf
<1>3. FirstLoad'
  <2>1. FromLoaded => FromLoaded'
    BY DEF FromLoaded
  <2>2. \A k \in Nat : Behind(k) => Behind(k)'
    BY DEF Behind
  <2> QED BY <2>1, <2>2 DEF WorkspaceInv, FirstLoad
<1>4. EndExcused'
  <2>1. Excused => Excused'
    BY DEF Excused, W!GoalNamesOf
  <2> QED BY <2>1 DEF WorkspaceInv, EndExcused
<1>5. HandlersSound'
  <2>1. ASSUME NEW t \in Types, HandlerFollows(t) PROVE HandlerFollows(t)'
    BY <2>1 DEF HandlerFollows, StubOf
  <2> QED BY <2>1 DEF WorkspaceInv, HandlersSound
<1> QED BY <1>1, <1>2, <1>3, <1>4, <1>5 DEF WorkspaceInv

LEMMA LoadInv ==
  ASSUME WorkspaceInv, W!Load
  PROVE  WorkspaceInv'
<1> DEFINE M == W!Merged(disk, "goal")
<1>1. /\ disk \in Projects /\ loads \in Nat /\ loads' = loads + 1 /\ loaded' = disk
      /\ loads' \in Nat /\ loads' > 0 /\ (loads' = 1 => loads = 0)
  BY DEF WorkspaceInv, ProjectTyped, W!Load
<1>2. UNCHANGED <<disk, goals, bodies>> /\ todo.stubs = {} /\ todo.goals = << >>
  BY DEF W!Load, W!AtPrompt, W!Done
<1>3. rewound' = FALSE /\ alive
  BY DEF W!Load, W!AtPrompt
<1>4. M \in Seq(Definitions) /\ \A m \in 1..Len(M) : M[m].name \in Names
  BY <1>1, ProjectFacts DEF W!GoalNamesOf
<1>5. CASE disk.found /\ ~W!Loadable(disk)
  <2>1. alive' = FALSE /\ UNCHANGED <<handler, todo>>
    BY <1>5 DEF W!Load
  <2>2. ProjectTyped'
    BY <1>1, <1>2, <2>1 DEF WorkspaceInv, ProjectTyped
  <2>3. FirstLoad'
    BY <1>1, <1>2, <2>1 DEF WorkspaceInv, NotLoaded, FirstLoad, FromLoaded
  <2>4. EndExcused'
    BY <1>1, <1>5 DEF EndExcused, Excused
  <2>5. NotLoaded'
    BY <1>1 DEF NotLoaded
  <2>6. GoalsFollow' /\ HandlersSound'
    BY <2>1 DEF GoalsFollow, HandlersSound
  <2> QED BY <2>2, <2>3, <2>4, <2>5, <2>6 DEF WorkspaceInv
<1>6. CASE ~(disk.found /\ ~W!Loadable(disk))
  <2>1. /\ handler' = [t \in Types |-> IF t \in Builtin THEN "builtin" ELSE handler[t]]
        /\ todo' = IF disk.found THEN [stubs |-> W!Stubs(disk), goals |-> M] ELSE W!Done
    BY <1>6 DEF W!Load
  <2>2. alive'
    BY <1>3, <1>6 DEF W!Load
  <2>3. disk.found => todo'.stubs = W!Stubs(disk) /\ todo'.goals = M
    BY <2>1
  <2>4. ~disk.found => todo'.stubs = {} /\ todo'.goals = << >>
    BY <2>1 DEF W!Done
  <2> HIDE DEF M
  <2>5. /\ todo' \in [stubs : SUBSET (STRING \cup {W!NoName}), goals : Seq(Definitions)]
        /\ \A i \in 1..Len(todo'.goals) : todo'.goals[i].name \in Names
    <3>1. W!Stubs(disk) \subseteq STRING \cup {W!NoName}
      BY <1>1, ProjectFacts
    <3>2. CASE disk.found
      BY <1>4, <2>1, <2>3, <3>1, <3>2
    <3>3. CASE ~disk.found
      <4>1. << >> \in Seq(Definitions) /\ Len(<< >>) = 0
        OBVIOUS
      <4>2. todo' \in [stubs : SUBSET (STRING \cup {W!NoName}), goals : Seq(Definitions)]
        BY <2>1, <3>3, <4>1 DEF W!Done
      <4> QED BY <2>4, <3>3, <4>1, <4>2
    <3> QED BY <3>2, <3>3
  <2>6. handler' \in [Types -> {"none", "plugin", "builtin", "stub"}]
    BY <2>1 DEF WorkspaceInv, ProjectTyped
  <2>7. ProjectTyped'
    BY <1>1, <1>2, <2>5, <2>6 DEF WorkspaceInv, ProjectTyped
  <2>8. GoalsFollow'
    <3> SUFFICES ASSUME loaded'.found, NEW n \in W!GoalNamesOf(loaded')
                 PROVE  \E i \in 1..Len(todo'.goals) : todo'.goals[i].name = n
      BY DEF GoalsFollow, W!GoalNamesOf
    <3> QED BY <1>1, <2>3, ProjectFacts DEF M
  <2>9. FirstLoad'
    <3> SUFFICES ASSUME loads' = 1 PROVE FromLoaded' /\ (todo'.goals # << >> => Behind(0)')
      BY DEF FirstLoad
    <3>1. \A n \in Names : goals'[n] = "none" /\ bodies'[n] = {}
      BY <1>1, <1>2 DEF WorkspaceInv, NotLoaded
    <3>2. FromLoaded'
      BY <3>1 DEF FromLoaded
    <3>3. ASSUME todo'.goals # << >> PROVE Behind(0)'
      <4>1. todo'.goals = M
        BY <2>3, <2>4, <3>3
      <4>2. /\ 0 + Len(M) = Len(M) /\ \A j \in 1..Len(M) : M[j] = M[0 + j]
        BY <1>4
      <4> QED BY <1>1, <3>1, <4>1, <4>2 DEF Behind, M
    <3> QED BY <3>2, <3>3
  <2>10. EndExcused'
    BY <2>2 DEF EndExcused
  <2>11. NotLoaded'
    BY <1>1 DEF NotLoaded
  <2>12. ASSUME NEW t \in Types PROVE HandlerFollows(t)'
    <3>1. StubOf(t)' <=> disk.found /\ t \in W!Stubs(disk)
      BY <1>1, ProjectFacts DEF StubOf
    <3>2. t \in todo'.stubs <=> disk.found /\ t \in W!Stubs(disk)
      BY <2>3, <2>4
    <3>3. ~rewound'
      BY <1>3
    <3>4. t \in Builtin => handler'[t] = "builtin"
      BY <2>1
    <3>5. t \notin Builtin /\ loads' = 1 => handler'[t] = IF t \in Plugin THEN "plugin" ELSE "none"
      BY <1>1, <2>1 DEF WorkspaceInv, NotLoaded
    <3> QED BY <3>1, <3>2, <3>3, <3>4, <3>5 DEF HandlerFollows
  <2>13. HandlersSound'
    BY <2>12 DEF HandlersSound
  <2> QED BY <2>7, <2>8, <2>9, <2>10, <2>11, <2>13 DEF WorkspaceInv
<1> QED BY <1>5, <1>6

LEMMA RegisterStubsInv ==
  ASSUME WorkspaceInv, W!RegisterStubs
  PROVE  WorkspaceInv'
<1>1. /\ handler' = [t \in Types |-> IF t \in todo.stubs THEN "stub" ELSE handler[t]]
      /\ todo' = [todo EXCEPT !.stubs = {}]
      /\ UNCHANGED <<disk, goals, bodies, alive, loaded, loads, again, rewound>>
      /\ todo.stubs # {}
  BY DEF W!RegisterStubs
<1>2. alive
  BY DEF W!RegisterStubs
<1>3. /\ todo \in [stubs : SUBSET (STRING \cup {W!NoName}), goals : Seq(Definitions)]
      /\ handler \in [Types -> {"none", "plugin", "builtin", "stub"}]
  BY DEF WorkspaceInv, ProjectTyped
<1>4. todo'.stubs = {} /\ todo'.goals = todo.goals
  BY <1>1, <1>3
<1>5. ProjectTyped'
  <2>1. todo' \in [stubs : SUBSET (STRING \cup {W!NoName}), goals : Seq(Definitions)]
    BY <1>1, <1>3
  <2>2. handler' \in [Types -> {"none", "plugin", "builtin", "stub"}]
    BY <1>1, <1>3
  <2> QED BY <1>1, <1>4, <2>1, <2>2 DEF WorkspaceInv, ProjectTyped
<1>6. GoalsFollow'
  BY <1>1, <1>4 DEF WorkspaceInv, GoalsFollow, W!GoalNamesOf
<1>7. FirstLoad'
  <2>1. FromLoaded => FromLoaded'
    BY <1>1 DEF FromLoaded
  <2>2. \A k \in Nat : Behind(k) => Behind(k)'
    BY <1>1, <1>4 DEF Behind
  <2> QED BY <1>1, <1>4, <2>1, <2>2 DEF WorkspaceInv, FirstLoad
<1>8. EndExcused'
  BY <1>1, <1>2 DEF EndExcused
<1>9. loads > 0
  <2>1. loads # 0
    BY <1>1 DEF WorkspaceInv, NotLoaded
  <2> QED BY <2>1 DEF WorkspaceInv, ProjectTyped
<1>10. NotLoaded'
  BY <1>1, <1>9 DEF NotLoaded, WorkspaceInv, ProjectTyped
<1>11. ASSUME NEW t \in Types PROVE HandlerFollows(t)'
  <2>1. HandlerFollows(t)
    BY <1>2, <1>9 DEF WorkspaceInv, HandlersSound
  <2>2. StubOf(t)' <=> StubOf(t)
    BY <1>1 DEF StubOf
  <2>3. t \notin todo'.stubs
    BY <1>4
  <2>4. CASE t \in todo.stubs
    <3>1. StubOf(t) /\ ~rewound
      BY <2>1, <2>4 DEF HandlerFollows
    <3>2. handler'[t] = "stub"
      BY <1>1, <2>4
    <3> QED BY <1>1, <2>2, <2>3, <3>1, <3>2 DEF HandlerFollows
  <2>5. CASE t \notin todo.stubs
    <3>1. handler'[t] = handler[t]
      BY <1>1, <2>5
    <3> QED BY <1>1, <2>1, <2>2, <2>3, <2>5, <3>1 DEF HandlerFollows
  <2> QED BY <2>4, <2>5
<1>12. HandlersSound'
  BY <1>11 DEF HandlersSound
<1> QED BY <1>5, <1>6, <1>7, <1>8, <1>10, <1>12 DEF WorkspaceInv

LEMMA SubmitNextInv ==
  ASSUME WorkspaceInv, W!SubmitNext
  PROVE  WorkspaceInv'
<1> DEFINE d == Head(todo.goals)
           M == W!Merged(loaded, "goal")
<1>1. /\ todo.stubs = {} /\ todo.goals # << >>
      /\ UNCHANGED <<disk, handler, loaded, loads, again, rewound>>
  BY DEF W!SubmitNext
<1>2. alive
  BY DEF W!SubmitNext
<1>3. /\ todo \in [stubs : SUBSET (STRING \cup {W!NoName}), goals : Seq(Definitions)]
      /\ goals \in [Names -> {"none", "active", "pending", "complete"}]
      /\ bodies \in [Names -> SUBSET W!Lines] /\ loads \in Nat
      /\ \A i \in 1..Len(todo.goals) : todo.goals[i].name \in Names
  BY DEF WorkspaceInv, ProjectTyped
<1>4. loads > 0 /\ loaded \in Projects
  <2>1. loads # 0
    BY <1>1 DEF WorkspaceInv, NotLoaded
  <2>2. loads > 0
    BY <1>3, <2>1
  <2> QED BY <2>2 DEF WorkspaceInv, ProjectTyped
<1>5. /\ todo.goals \in Seq(Definitions) /\ Len(todo.goals) \in Nat /\ Len(todo.goals) > 0
      /\ 1 \in 1..Len(todo.goals) /\ d = todo.goals[1] /\ d.name \in Names
  <2>1. todo.goals \in Seq(Definitions)
    BY <1>3
  <2>2. /\ Len(todo.goals) \in Nat /\ Len(todo.goals) > 0 /\ 1 \in 1..Len(todo.goals)
        /\ d = todo.goals[1]
    BY <1>1, <2>1
  <2> QED BY <1>3, <2>1, <2>2
<1>6. M \in Seq(Definitions) /\ Len(M) \in Nat
  BY <1>4, ProjectFacts
<1> HIDE DEF d, M
<1>7. NotLoaded'
  BY <1>1, <1>4 DEF NotLoaded, WorkspaceInv, ProjectTyped
\* In the first load the goal is number k + 1 of the project.
<1>8. ASSUME loads = 1
      PROVE  /\ FromLoaded
             /\ \E k \in Nat : Behind(k) /\ k + 1 \in 1..Len(M) /\ d = M[k + 1]
  <2>1. FromLoaded /\ \E k \in Nat : Behind(k)
    BY <1>1, <1>8 DEF WorkspaceInv, FirstLoad
  <2>2. PICK k \in Nat : Behind(k)
    BY <2>1
  <2>3. /\ k + Len(todo.goals) = Len(M)
        /\ \A j \in 1..Len(todo.goals) : todo.goals[j] = M[k + j]
    BY <2>2 DEF Behind, M
  <2>4. k + 1 \in 1..Len(M)
    BY <1>5, <1>6, <2>3
  <2>5. d = M[k + 1]
    BY <1>5, <2>3
  <2> QED BY <2>1, <2>2, <2>4, <2>5
<1>9. CASE goals[d.name] # "none"
  <2>1. UNCHANGED <<goals, bodies, todo>> /\ ~alive'
    BY <1>9 DEF W!SubmitNext, d
  <2>2. ProjectTyped'
    BY <1>1, <2>1 DEF WorkspaceInv, ProjectTyped
  <2>3. FirstLoad'
    <3>1. FromLoaded => FromLoaded'
      BY <1>1, <2>1 DEF FromLoaded
    <3>2. \A k \in Nat : Behind(k) => Behind(k)'
      BY <1>1, <2>1 DEF Behind
    <3> QED BY <1>1, <2>1, <3>1, <3>2 DEF WorkspaceInv, FirstLoad
  <2>4. GoalsFollow' /\ HandlersSound'
    BY <2>1 DEF GoalsFollow, HandlersSound
  <2>5. ASSUME loads = 1 PROVE Excused
    <3>1. PICK k \in Nat : Behind(k) /\ k + 1 \in 1..Len(M) /\ d = M[k + 1]
      BY <1>8, <2>5
    <3>2. CASE goals[d.name] = "pending"
      <4>1. d.name \in W!GoalNamesOf(loaded)
        BY <1>4, <3>1, ProjectFacts DEF M
      <4>2. W!Written(loaded, "spawn", d.name) # {}
        BY <1>5, <1>8, <2>5, <3>2 DEF FromLoaded
      <4> QED BY <3>2, <4>1, <4>2 DEF Excused
    <3>3. CASE goals[d.name] \in {"active", "complete"}
      <4>1. PICK i \in 1..k : M[i].name = d.name
        BY <1>5, <3>1, <3>3 DEF Behind, M
      <4>2. i \in 1..Len(M) /\ i # k + 1
        BY <1>6, <3>1
      <4>3. \E a, b \in W!Written(loaded, "goal", d.name) : a # b
        BY <1>4, <3>1, <4>1, <4>2, ProjectFacts DEF M
      <4> QED BY <1>5, <4>3 DEF Excused
    <3> QED BY <1>3, <1>5, <1>9, <3>2, <3>3
  <2>6. EndExcused'
    <3>1. Excused => Excused'
      BY <1>1, <2>1 DEF Excused, W!GoalNamesOf
    <3> QED BY <1>1, <2>5, <3>1 DEF EndExcused
  <2> QED BY <1>7, <2>2, <2>3, <2>4, <2>6 DEF WorkspaceInv
<1>10. CASE goals[d.name] = "none"
  <2>1. /\ goals' = [goals EXCEPT ![d.name] = "active"]
        /\ bodies' = [bodies EXCEPT ![d.name] = W!Compiled(d.body)]
        /\ todo' = [todo EXCEPT !.goals = Tail(todo.goals)]
    BY <1>10 DEF W!SubmitNext, d
  <2>2. alive'
    BY <1>2, <1>10 DEF W!SubmitNext, d
  <2>3. /\ todo'.stubs = {} /\ todo'.goals = Tail(todo.goals)
        /\ todo' = [stubs |-> {}, goals |-> Tail(todo.goals)]
    BY <1>1, <1>3, <2>1
  <2>4. /\ Tail(todo.goals) \in Seq(Definitions) /\ Len(todo'.goals) = Len(todo.goals) - 1
        /\ \A j \in 1..Len(todo'.goals) : todo'.goals[j] = todo.goals[j + 1]
                                          /\ j + 1 \in 1..Len(todo.goals)
    <3>1. /\ Tail(todo.goals) \in Seq(Definitions) /\ Len(Tail(todo.goals)) = Len(todo.goals) - 1
          /\ \A j \in 1..(Len(todo.goals) - 1) : Tail(todo.goals)[j] = todo.goals[j + 1]
      BY <1>1, <1>5
    <3>2. \A j \in 1..(Len(todo.goals) - 1) : j + 1 \in 1..Len(todo.goals)
      BY <1>5
    <3> QED BY <2>3, <3>1, <3>2
  <2>5. /\ \A n \in Names : n # d.name => goals'[n] = goals[n] /\ bodies'[n] = bodies[n]
        /\ goals'[d.name] = "active" /\ bodies'[d.name] = W!Compiled(d.body)
    BY <1>3, <1>5, <2>1
  <2>6. ProjectTyped'
    <3>1. d \in Definitions
      BY <1>5
    <3>2. d.body \in Seq(W!Lines)
      BY <3>1 DEF Definitions
    <3>3. W!Compiled(d.body) \subseteq W!Lines
      BY <3>2 DEF W!Compiled
    <3>4. bodies' \in [Names -> SUBSET W!Lines]
      BY <1>3, <2>1, <3>3
    <3>5. goals' \in [Names -> {"none", "active", "pending", "complete"}]
      BY <1>3, <2>1
    <3>6. /\ todo' \in [stubs : SUBSET (STRING \cup {W!NoName}), goals : Seq(Definitions)]
          /\ \A i \in 1..Len(todo'.goals) : todo'.goals[i].name \in Names
      BY <1>3, <2>3, <2>4
    <3> QED BY <1>1, <3>4, <3>5, <3>6 DEF WorkspaceInv, ProjectTyped
  <2>7. GoalsFollow'
    <3> SUFFICES ASSUME loaded'.found, NEW n \in W!GoalNamesOf(loaded'), goals'[n] = "none"
                 PROVE  \E i \in 1..Len(todo'.goals) : todo'.goals[i].name = n
      BY DEF GoalsFollow, W!GoalNamesOf
    <3>1. n \in W!GoalNamesOf(loaded) /\ loaded.found /\ n \in Names
      BY <1>1 DEF W!GoalNamesOf
    <3>2. n # d.name /\ goals[n] = "none"
      BY <2>5, <3>1
    <3>3. \E i \in 1..Len(todo.goals) : todo.goals[i].name = n
      BY <1>2, <1>4, <3>1, <3>2 DEF WorkspaceInv, GoalsFollow
    <3>4. PICK i \in 1..Len(todo.goals) : todo.goals[i].name = n
      BY <3>3
    <3>5. i # 1
      BY <1>5, <3>2, <3>4
    <3>6. i - 1 \in 1..Len(todo'.goals) /\ (i - 1) + 1 = i
      BY <1>5, <2>4, <3>5
    <3>7. todo'.goals[i - 1] = todo.goals[i]
      BY <2>4, <3>6
    <3> QED BY <3>4, <3>6, <3>7
  <2>8. FirstLoad'
    <3> SUFFICES ASSUME loads = 1 PROVE FromLoaded' /\ \E k \in Nat : Behind(k)'
      BY <1>1 DEF FirstLoad
    <3>1. PICK k \in Nat : Behind(k) /\ k + 1 \in 1..Len(M) /\ d = M[k + 1]
      BY <1>8
    <3>2. FromLoaded'
      <4>1. ASSUME NEW line \in W!Compiled(d.body)
            PROVE  W!Written(loaded, line.kw, line.name) # {}
        BY <1>4, <3>1, <4>1, ProjectFacts DEF M
      <4> QED BY <1>1, <1>8, <2>5, <4>1 DEF FromLoaded
    <3>3. Behind(k + 1)'
      <4>1. /\ k + Len(todo.goals) = Len(M)
            /\ \A j \in 1..Len(todo.goals) : todo.goals[j] = M[k + j]
            /\ \A n \in Names : goals[n] \in {"active", "complete"} => \E i \in 1..k : M[i].name = n
        BY <3>1 DEF Behind, M
      <4>2. (k + 1) + Len(todo'.goals) = Len(M)
        <5>1. Len(todo'.goals) = Len(todo.goals) - 1
          BY <2>4
        <5>2. \A x \in Nat, y \in Nat : (x + 1) + (y - 1) = x + y
          OBVIOUS
        <5> QED BY <1>5, <4>1, <5>1, <5>2
      <4>3. ASSUME NEW j \in 1..Len(todo'.goals) PROVE todo'.goals[j] = M[(k + 1) + j]
        <5>1. todo'.goals[j] = todo.goals[j + 1] /\ j + 1 \in 1..Len(todo.goals)
          BY <2>4
        <5>2. todo.goals[j + 1] = M[k + (j + 1)]
          BY <4>1, <5>1
        <5>3. k + (j + 1) = (k + 1) + j
          OBVIOUS
        <5> QED BY <5>1, <5>2, <5>3
      <4>4. ASSUME NEW n \in Names, goals'[n] \in {"active", "complete"}
            PROVE  \E i \in 1..(k + 1) : M[i].name = n
        <5>1. k + 1 \in 1..(k + 1) /\ \A i \in 1..k : i \in 1..(k + 1)
          OBVIOUS
        <5>2. CASE n = d.name
          BY <3>1, <5>1, <5>2
        <5>3. CASE n # d.name
          BY <2>5, <4>1, <4>4, <5>1, <5>3
        <5> QED BY <5>2, <5>3
      <4> QED BY <1>1, <4>2, <4>3, <4>4 DEF Behind, M
    <3>4. k + 1 \in Nat
      OBVIOUS
    <3> QED BY <3>2, <3>3, <3>4
  <2>9. EndExcused'
    BY <2>2 DEF EndExcused
  <2>10. HandlersSound'
    <3>1. ASSUME NEW t \in Types PROVE HandlerFollows(t)'
      <4>1. HandlerFollows(t)
        BY <1>2, <1>4 DEF WorkspaceInv, HandlersSound
      <4> QED BY <1>1, <2>3, <4>1 DEF HandlerFollows, StubOf
    <3> QED BY <3>1 DEF HandlersSound
  <2> QED BY <1>7, <2>6, <2>7, <2>8, <2>9, <2>10 DEF WorkspaceInv
<1> QED BY <1>9, <1>10

LEMMA SubmitInv ==
  ASSUME WorkspaceInv, NEW n \in Names, W!Submit(n)
  PROVE  WorkspaceInv'
<1>1. /\ todo.goals = << >> /\ todo.stubs = {} /\ loads > 0 /\ goals[n] = "none"
      /\ goals' = [goals EXCEPT ![n] = "active"]
      /\ UNCHANGED <<disk, bodies, handler, todo, alive, loaded, loads, again, rewound>>
  BY DEF W!Submit, W!AtPrompt, W!Done
<1>2. alive
  BY DEF W!Submit, W!AtPrompt
<1>3. goals \in [Names -> {"none", "active", "pending", "complete"}]
  BY DEF WorkspaceInv, ProjectTyped
<1>4. goals'[n] = "active" /\ \A m \in Names : m # n => goals'[m] = goals[m]
  BY <1>1, <1>3
<1>5. ProjectTyped' /\ NotLoaded'
  <2>1. goals' \in [Names -> {"none", "active", "pending", "complete"}]
    BY <1>1, <1>3
  <2> QED BY <1>1, <2>1 DEF WorkspaceInv, ProjectTyped, NotLoaded
<1>6. GoalsFollow'
  <2> SUFFICES ASSUME loaded'.found, NEW m \in W!GoalNamesOf(loaded')
               PROVE  goals'[m] # "none" \/ \E i \in 1..Len(todo'.goals) : todo'.goals[i].name = m
    BY DEF GoalsFollow, W!GoalNamesOf
  <2>1. m \in W!GoalNamesOf(loaded) /\ loaded.found /\ m \in Names
    BY <1>1 DEF W!GoalNamesOf
  <2>2. goals[m] # "none" \/ \E i \in 1..Len(todo.goals) : todo.goals[i].name = m
    BY <1>1, <1>2, <2>1 DEF WorkspaceInv, GoalsFollow
  <2> QED BY <1>1, <1>4, <2>1, <2>2
<1>7. FirstLoad'
  <2>1. FromLoaded => FromLoaded'
    BY <1>1, <1>4 DEF FromLoaded
  <2> QED BY <1>1, <2>1 DEF WorkspaceInv, FirstLoad
<1>8. EndExcused'
  BY <1>1, <1>2 DEF EndExcused
<1>9. HandlersSound'
  <2>1. ASSUME NEW t \in Types, HandlerFollows(t) PROVE HandlerFollows(t)'
    BY <1>1, <2>1 DEF HandlerFollows, StubOf
  <2> QED BY <1>1, <1>2, <2>1 DEF WorkspaceInv, HandlersSound
<1> QED BY <1>5, <1>6, <1>7, <1>8, <1>9 DEF WorkspaceInv

LEMMA CompleteInv ==
  ASSUME WorkspaceInv, NEW n \in Names, W!Complete(n)
  PROVE  WorkspaceInv'
<1> DEFINE children == W!Spawned(bodies[n])
<1>1. /\ goals[n] = "active"
      /\ goals' = [m \in Names |-> IF m \in children THEN "pending"
                                   ELSE IF m = n THEN "complete" ELSE goals[m]]
      /\ bodies' = [m \in Names |-> IF m \in children THEN {} ELSE bodies[m]]
      /\ UNCHANGED <<disk, handler, todo, alive, loaded, loads, again, rewound>>
  BY DEF W!Complete
<1>2. alive
  BY DEF W!Complete
<1>3. /\ goals \in [Names -> {"none", "active", "pending", "complete"}]
      /\ bodies \in [Names -> SUBSET W!Lines] /\ loads \in Nat
  BY DEF WorkspaceInv, ProjectTyped
<1>4. \A m \in children : \E line \in bodies[n] : line.kw = "spawn" /\ line.name = m
  BY DEF W!Spawned
<1> HIDE DEF children
<1>5. ASSUME NEW m \in Names
      PROVE  /\ m \in children => goals'[m] = "pending" /\ bodies'[m] = {}
             /\ m \notin children => bodies'[m] = bodies[m]
             /\ m \notin children /\ m # n => goals'[m] = goals[m]
             /\ m \notin children /\ m = n => goals'[m] = "complete"
  BY <1>1
<1>6. ProjectTyped'
  <2>1. goals' \in [Names -> {"none", "active", "pending", "complete"}]
    BY <1>1, <1>3
  <2>2. bodies' \in [Names -> SUBSET W!Lines]
    BY <1>1, <1>3
  <2> QED BY <1>1, <2>1, <2>2 DEF WorkspaceInv, ProjectTyped
<1>7. loads # 0
  BY <1>1 DEF WorkspaceInv, NotLoaded
<1>8. NotLoaded'
  BY <1>1, <1>7 DEF NotLoaded
<1>9. GoalsFollow'
  <2> SUFFICES ASSUME loaded'.found, NEW m \in W!GoalNamesOf(loaded')
               PROVE  goals'[m] # "none" \/ \E i \in 1..Len(todo'.goals) : todo'.goals[i].name = m
    BY DEF GoalsFollow, W!GoalNamesOf
  <2>1. m \in W!GoalNamesOf(loaded) /\ loaded.found /\ m \in Names /\ loads > 0
    BY <1>1, <1>3, <1>7 DEF W!GoalNamesOf
  <2>2. goals[m] # "none" \/ \E i \in 1..Len(todo.goals) : todo.goals[i].name = m
    BY <1>2, <2>1 DEF WorkspaceInv, GoalsFollow
  <2>3. goals[m] # "none" => goals'[m] # "none"
    BY <1>5, <2>1
  <2> QED BY <1>1, <2>2, <2>3
<1>10. FirstLoad'
  <2> SUFFICES ASSUME loads = 1
               PROVE  FromLoaded' /\ (todo.goals # << >> => \E k \in Nat : Behind(k)')
    BY <1>1 DEF FirstLoad
  <2>1. FromLoaded /\ (todo.goals # << >> => \E k \in Nat : Behind(k))
    BY DEF WorkspaceInv, FirstLoad
  <2>2. \A m \in children : W!Written(loaded, "spawn", m) # {}
    BY <1>4, <2>1 DEF FromLoaded
  <2>3. FromLoaded'
    <3>1. ASSUME NEW m \in Names
          PROVE  /\ \A line \in bodies'[m] : W!Written(loaded, line.kw, line.name) # {}
                 /\ goals'[m] = "pending" => W!Written(loaded, "spawn", m) # {}
      <4>1. CASE m \in children
        BY <1>5, <2>2, <4>1
      <4>2. CASE m \notin children
        BY <1>5, <2>1, <4>2 DEF FromLoaded
      <4> QED BY <4>1, <4>2
    <3> QED BY <1>1, <3>1 DEF FromLoaded
  <2>4. ASSUME NEW k \in Nat, Behind(k) PROVE Behind(k)'
    <3>1. \A m \in Names : goals'[m] \in {"active", "complete"} =>
                            goals[m] \in {"active", "complete"}
      BY <1>1, <1>5
    <3> QED BY <1>1, <2>4, <3>1 DEF Behind
  <2> QED BY <2>1, <2>3, <2>4
<1>11. EndExcused'
  BY <1>1, <1>2 DEF EndExcused
<1>12. HandlersSound'
  <2>1. ASSUME NEW t \in Types, HandlerFollows(t) PROVE HandlerFollows(t)'
    BY <1>1, <2>1 DEF HandlerFollows, StubOf
  <2> QED BY <1>1, <1>2, <2>1 DEF WorkspaceInv, HandlersSound
<1> QED BY <1>6, <1>8, <1>9, <1>10, <1>11, <1>12 DEF WorkspaceInv

LEMMA RewindInv ==
  ASSUME WorkspaceInv, W!Rewind
  PROVE  WorkspaceInv'
<1>1. /\ handler' = [t \in Types |-> IF t \in Plugin THEN "plugin" ELSE handler[t]]
      /\ todo.stubs = {} /\ loads > 0
      /\ UNCHANGED <<disk, goals, bodies, todo, alive, loaded, loads, again>>
  BY DEF W!Rewind, W!AtPrompt, W!Done
<1>2. rewound'
  BY DEF W!Rewind
<1>3. alive
  BY DEF W!Rewind, W!AtPrompt
<1>4. ProjectTyped' /\ NotLoaded'
  <2>1. handler' \in [Types -> {"none", "plugin", "builtin", "stub"}]
    BY <1>1 DEF WorkspaceInv, ProjectTyped
  <2>2. ProjectTyped'
    BY <1>1, <2>1 DEF WorkspaceInv, ProjectTyped
  <2>3. loads' > 0 /\ loads \in Nat
    BY <1>1 DEF WorkspaceInv, ProjectTyped
  <2> QED BY <1>1, <2>2, <2>3 DEF NotLoaded
<1>5. GoalsFollow'
  BY <1>1 DEF WorkspaceInv, GoalsFollow, W!GoalNamesOf
<1>6. FirstLoad'
  <2>1. FromLoaded => FromLoaded'
    BY <1>1 DEF FromLoaded
  <2>2. \A k \in Nat : Behind(k) => Behind(k)'
    BY <1>1 DEF Behind
  <2> QED BY <1>1, <2>1, <2>2 DEF WorkspaceInv, FirstLoad
<1>7. EndExcused'
  BY <1>1, <1>3 DEF EndExcused
<1>8. ASSUME NEW t \in Types PROVE HandlerFollows(t)'
  <2>1. HandlerFollows(t)
    BY <1>1, <1>3 DEF WorkspaceInv, HandlersSound
  <2>2. (StubOf(t)' <=> StubOf(t)) /\ t \notin todo.stubs /\ t \notin todo'.stubs
    BY <1>1 DEF StubOf
  <2>3. CASE t \in Plugin
    <3>1. handler'[t] = "plugin"
      BY <1>1, <2>3
    <3> QED BY <1>2, <2>2, <2>3, <3>1 DEF HandlerFollows
  <2>4. CASE t \notin Plugin
    <3>1. handler'[t] = handler[t]
      BY <1>1, <2>4
    <3> QED BY <1>1, <2>1, <2>2, <2>4, <3>1 DEF HandlerFollows
  <2> QED BY <2>3, <2>4
<1>9. HandlersSound'
  BY <1>8 DEF HandlersSound
<1> QED BY <1>4, <1>5, <1>6, <1>7, <1>9 DEF WorkspaceInv

LEMMA EditInv ==
  ASSUME WorkspaceInv, W!Edit
  PROVE  WorkspaceInv'
<1>1. /\ disk' \in Projects
      /\ UNCHANGED <<goals, bodies, handler, todo, alive, loaded, loads, again, rewound>>
  BY DEF W!Edit
<1>2. ProjectTyped' /\ NotLoaded'
  BY <1>1 DEF WorkspaceInv, ProjectTyped, NotLoaded
<1>3. GoalsFollow'
  BY <1>1 DEF WorkspaceInv, GoalsFollow, W!GoalNamesOf
<1>4. FirstLoad'
  <2>1. FromLoaded => FromLoaded'
    BY <1>1 DEF FromLoaded
  <2>2. \A k \in Nat : Behind(k) => Behind(k)'
    BY <1>1 DEF Behind
  <2> QED BY <1>1, <2>1, <2>2 DEF WorkspaceInv, FirstLoad
<1>5. EndExcused'
  <2>1. Excused => Excused'
    BY <1>1 DEF Excused, W!GoalNamesOf
  <2> QED BY <1>1, <2>1 DEF WorkspaceInv, EndExcused
<1>6. HandlersSound'
  <2>1. ASSUME NEW t \in Types, HandlerFollows(t) PROVE HandlerFollows(t)'
    BY <1>1, <2>1 DEF HandlerFollows, StubOf
  <2> QED BY <1>1, <2>1 DEF WorkspaceInv, HandlersSound
<1> QED BY <1>2, <1>3, <1>4, <1>5, <1>6 DEF WorkspaceInv

LEMMA WorkspaceNext == WorkspaceInv /\ (W!Next \/ UNCHANGED workspaceVars) => WorkspaceInv'
  BY WorkspaceUnchanged, LoadInv, RegisterStubsInv, SubmitNextInv, SubmitInv, CompleteInv,
     RewindInv, EditInv DEF W!Next

LEMMA WorkspaceHolds == SurroundingsSpec => []WorkspaceInv
<1>1. SurroundingsInit => WorkspaceInv
  BY WorkspaceInit DEF SurroundingsInit
<1>2. WorkspaceInv /\ [SurroundingsNext /\ UNCHANGED part]_<<part, surroundings>> => WorkspaceInv'
  BY StepsOfParts, WorkspaceNext
<1> QED BY <1>1, <1>2, PTL DEF SurroundingsSpec

\* parser.go:145-392: goals, policies and tests of any file whose clauses stand where they
\* belong have their own clauses and no other, in their order, though every definition stays
\* open for what comes after the next one.
THEOREM ClausesKeptCorrect == SurroundingsSpec => []ClausesKept
<1>1. ASSUME WorkspaceInv PROVE ClausesKept
  <2> DEFINE fs == W!FilesRead(disk)
  <2>1. disk \in W!Trees
    BY <1>1, SurroundingsAssumption DEF WorkspaceInv, ProjectTyped
  <2>2. fs \in Seq(W!Files)
    BY <2>1, FilesReadTyped
  <2> HIDE DEF fs
  <2>3. \A i \in DOMAIN fs : fs[i] \in W!Files
    BY <2>2
  <2>4. \A i \in DOMAIN fs : W!WellFormed(fs[i]) =>
          \A k \in {"goal", "policy", "test"} : W!AreBlocks(W!Parsed(fs[i])[k], fs[i], k)
    BY <2>3, ParsedBlocks
  <2> QED BY <2>4 DEF ClausesKept, W!ClausesKept, fs
<1> QED BY <1>1, WorkspaceHolds, PTL

\* compiler.go:196-210, main.go:108-124: a load of any project registers every goal of it or
\* ends the process; the first one does so only for a configuration, a directory or a file that
\* cannot be read, a missing app, a goal declared twice, or a goal that one of the project
\* spawns and that the loop has spawned meanwhile.
THEOREM LoadsWholeCorrect == SurroundingsSpec => []LoadsWhole
<1>1. ASSUME WorkspaceInv PROVE LoadsWhole
  <2>1. ASSUME W!AtPrompt, loads > 0, loaded.found, NEW n \in W!GoalNamesOf(loaded)
        PROVE  goals[n] # "none"
    <3>1. alive
      BY <2>1 DEF W!AtPrompt
    <3>2. Len(todo.goals) = 0
      BY <2>1 DEF W!AtPrompt, W!Done
    <3>3. goals[n] # "none" \/ \E i \in 1..Len(todo.goals) : todo.goals[i].name = n
      BY <1>1, <2>1, <3>1 DEF WorkspaceInv, GoalsFollow
    <3> QED BY <3>2, <3>3
  <2>2. ASSUME ~alive, loads = 1 PROVE Excused
    BY <1>1, <2>2 DEF WorkspaceInv, EndExcused
  <2> QED BY <2>1, <2>2 DEF LoadsWhole, W!LoadsWhole, Excused
<1> QED BY <1>1, WorkspaceHolds, PTL

\* actions.go:128, compiler.go:197-201, kernel.go:128-130: after a load the action types that
\* any project defines outside its contracts have a stub, other built-in types what is built in, and the rest of the first load
\* what the plugins registered; a rewind brings all of the plugins' back.
THEOREM HandlersFollowCorrect == SurroundingsSpec => []HandlersFollow
<1>1. ASSUME WorkspaceInv PROVE HandlersFollow
  <2> SUFFICES ASSUME W!AtPrompt, loads > 0, NEW t \in Types
               PROVE  handler[t] = IF rewound /\ t \in Plugin THEN "plugin"
                                   ELSE IF StubOf(t) THEN "stub"
                                   ELSE IF t \in Builtin THEN "builtin"
                                   ELSE IF loads > 1 THEN handler[t]
                                   ELSE IF t \in Plugin THEN "plugin" ELSE "none"
    BY DEF HandlersFollow, W!HandlersFollow, StubOf
  <2>1. alive
    BY DEF W!AtPrompt
  <2>2. t \notin todo.stubs
    BY DEF W!AtPrompt, W!Done
  <2>3. HandlerFollows(t)
    BY <1>1, <2>1 DEF WorkspaceInv, HandlersSound
  <2>4. loads > 1 \/ loads = 1
    BY <1>1 DEF WorkspaceInv, ProjectTyped
  <2>5. CASE rewound /\ t \in Plugin
    BY <2>3, <2>5 DEF HandlerFollows
  <2>6. CASE ~(rewound /\ t \in Plugin) /\ StubOf(t)
    BY <2>2, <2>3, <2>6 DEF HandlerFollows
  <2>7. CASE ~(rewound /\ t \in Plugin) /\ ~StubOf(t)
    <3>1. /\ t \in Builtin => handler[t] = "builtin"
          /\ t \notin Builtin /\ loads = 1 => handler[t] = IF t \in Plugin THEN "plugin" ELSE "none"
      BY <2>3, <2>7 DEF HandlerFollows
    <3> QED BY <2>4, <2>7, <3>1
  <2> QED BY <2>5, <2>6, <2>7
<1> QED BY <1>1, WorkspaceHolds, PTL

-----------------------------------------------------------------------------
(* The runtime planner.  At each step of Resolve the plan has an action    *)
(* for each dependency met, then for each missing path it is through with, *)
(* and none twice, since a path is only added if it is not there.  The     *)
(* search for cycles is right because the names it has left lead only to   *)
(* such names and hold no cycle, while each name on its stack leads to     *)
(* another there or to the one that is entered.  The folds and dfs, by the *)
(* depth of its calls, are given by equations.                             *)

PathsOf(s) == {s[i].path : i \in DOMAIN s}
FirstType  == CHOOSE type \in resolvers : \A u \in resolvers : type <= u
AskedUpTo(n)   == {asked[i] : i \in 1..n}
DependedOn(n)  == UNION {RP!Members(dependencyGraph[asked[i]]) : i \in 1..n}

NoneTwice(s) == \A i, j \in DOMAIN s : s[i].path = s[j].path => i = j
OfFirstType(s) == \A i \in DOMAIN s : s[i].type = FirstType

Begun ==
  /\ resolving = "idle" => planned = << >>
  /\ owed # << >> => resolving = "dependencies"
  /\ ready => resolvers # {}
Descending ==
  resolving = "dependencies" =>
    /\ RP!Planned \subseteq met /\ (ready => RP!Planned = met)
    /\ relinked = 0 => met \cup RP!Members(owed) = DependedOn(reached)
Adding ==
  resolving \in {"missing", "planned"} =>
    /\ ready => AskedUpTo(reached) \subseteq RP!Planned
    /\ relinked = 0 =>
         /\ RP!Planned \subseteq DependedOn(Len(asked)) \cup AskedUpTo(reached)
         /\ ready => RP!Planned = DependedOn(Len(asked)) \cup AskedUpTo(reached)
Sorted ==
  resolving = "planned" =>
    /\ reached = Len(asked)
    /\ \A i, j \in DOMAIN planned : i < j => Rank[planned[i].path] < Rank[planned[j].path]

PlannerInv ==
  /\ RP!TypeOK /\ NoneTwice(planned) /\ (registered = 0 => OfFirstType(planned))
  /\ Begun /\ Descending /\ Adding /\ Sorted

LEMMA PlannerTypes ==
  ASSUME RP!TypeOK
  PROVE  /\ resolvers \subseteq Paths /\ IsFiniteSet(resolvers)
         /\ dependencyGraph \in [Paths -> Seq(Paths)]
         /\ alternatives \in Seq(Seq(Nat))
         /\ asked \in Seq(Paths) /\ Len(asked) \in Nat /\ reached \in Nat /\ reached <= Len(asked)
         /\ owed \in Seq(Paths) /\ met \subseteq Paths /\ planned \in Seq(RP!Actions)
         /\ registered \in Nat /\ relinked \in Nat
<1>1. << >> \in Seq(Paths)
  OBVIOUS
<1>2. resolvers \subseteq Paths /\ IsFiniteSet(resolvers)
  BY SurroundingsAssumption, FS_Subset DEF RP!TypeOK
<1>3. asked \in Seq(Paths)
  BY <1>1, SurroundingsAssumption DEF RP!TypeOK
<1>4. Len(asked) \in Nat /\ reached \in 0..Len(asked)
  BY <1>3 DEF RP!TypeOK
<1>5. dependencyGraph \in [Paths -> Seq(Paths)]
  BY <1>1, SurroundingsAssumption DEF RP!TypeOK
<1> QED BY <1>2, <1>3, <1>4, <1>5 DEF RP!TypeOK

LEMMA PlannerFacts ==
  ASSUME PlannerInv
  PROVE  /\ resolvers \subseteq Paths /\ dependencyGraph \in [Paths -> Seq(Paths)]
         /\ alternatives \in Seq(Seq(Nat))
  BY PlannerTypes DEF PlannerInv

LEMMA PlannerInit == RP!Init => PlannerInv
<1> SUFFICES ASSUME RP!Init PROVE PlannerInv
  OBVIOUS
<1>1. /\ resolvers \subseteq Paths /\ dependencyGraph \in [Paths -> DependencyLists \cup {<< >>}]
      /\ alternatives = << >> /\ resolving = "idle" /\ asked = << >> /\ reached = 0
      /\ owed = << >> /\ met = {} /\ planned = << >>
      /\ ready = FALSE /\ registered = 0 /\ relinked = 0 /\ fatal = FALSE
  BY DEF RP!Init
<1>2. << >> \in Seq(Seq(Nat)) /\ Len(<< >>) = 0 /\ 0 <= MaxAlternatives /\ 0 \in 0..0
  BY SurroundingsAssumption
<1>3. << >> \in Seq(RP!Actions) /\ << >> \in Seq(Paths) /\ DOMAIN << >> = {}
  OBVIOUS
<1>4. RP!TypeOK
  BY <1>1, <1>2, <1>3 DEF RP!TypeOK
<1>5. NoneTwice(planned) /\ OfFirstType(planned)
  BY <1>1, <1>3 DEF NoneTwice, OfFirstType
<1>6. Begun /\ Descending /\ Adding /\ Sorted
  BY <1>1 DEF Begun, Descending, Adding, Sorted
<1> QED BY <1>4, <1>5, <1>6 DEF PlannerInv

\* Some resolver is the first.
LEMMA FirstIsOne ==
  ASSUME RP!TypeOK, resolvers # {}
  PROVE  FirstType \in Paths
<1>1. resolvers \in SUBSET Nat /\ resolvers \subseteq Paths
  BY PlannerTypes, SurroundingsAssumption
<1>2. \E type \in resolvers : \A u \in resolvers : type <= u
  BY <1>1, LeastNumber
<1> QED BY <1>1, <1>2 DEF FirstType

\* What is appended is the path's action, if anything resolves it.
LEMMA WithIs ==
  ASSUME RP!TypeOK, NEW path \in Paths
  PROVE  /\ RP!With(path) \in Seq(RP!Actions)
         /\ PathsOf(planned) \subseteq PathsOf(RP!With(path))
         /\ PathsOf(RP!With(path)) \subseteq PathsOf(planned) \cup {path}
         /\ resolvers # {} => PathsOf(RP!With(path)) = PathsOf(planned) \cup {path}
         /\ NoneTwice(planned) /\ path \notin PathsOf(planned) => NoneTwice(RP!With(path))
         /\ OfFirstType(planned) => OfFirstType(RP!With(path))
<1> DEFINE a == RP!CreateActionForPath(path)
           r == Append(planned, a)
           L == Len(planned)
<1>1. planned \in Seq(RP!Actions) /\ L \in Nat /\ DOMAIN planned = 1..L
  BY PlannerTypes
<1>2. CASE resolvers = {}
  BY <1>1, <1>2 DEF RP!With, PathsOf
<1>3. CASE resolvers # {}
  <2>1. a \in RP!Actions /\ a.path = path /\ a.type = FirstType
    BY <1>3, FirstIsOne DEF RP!CreateActionForPath, RP!Actions, FirstType
  <2>2. RP!With(path) = r
    BY <1>3 DEF RP!With
  <2> HIDE DEF a
  <2>3. /\ r \in Seq(RP!Actions) /\ DOMAIN r = 1..(L + 1) /\ r[L + 1] = a
        /\ \A i \in 1..L : r[i] = planned[i]
    BY <1>1, <2>1
  <2> HIDE DEF r, L
  <2>4. /\ \A i \in 1..(L + 1) : i \in 1..L \/ i = L + 1
        /\ L + 1 \in 1..(L + 1) /\ \A i \in 1..L : i \in 1..(L + 1)
    BY <1>1
  <2>5. ASSUME NEW x \in PathsOf(planned) PROVE x \in PathsOf(r)
    <3>1. PICK i \in 1..L : x = planned[i].path
      BY <1>1 DEF PathsOf
    <3>2. i \in DOMAIN r /\ r[i].path = x
      BY <2>3, <2>4, <3>1
    <3> QED BY <3>2 DEF PathsOf
  <2>6. path \in PathsOf(r)
    BY <2>1, <2>3, <2>4 DEF PathsOf
  <2>7. ASSUME NEW x \in PathsOf(r) PROVE x \in PathsOf(planned) \cup {path}
    <3>1. PICK i \in 1..(L + 1) : x = r[i].path
      BY <2>3 DEF PathsOf
    <3>2. CASE i \in 1..L
      <4>1. i \in DOMAIN planned /\ planned[i].path = x
        BY <1>1, <2>3, <3>1, <3>2
      <4> QED BY <4>1 DEF PathsOf
    <3> QED BY <2>1, <2>3, <2>4, <3>1, <3>2
  <2>8. ASSUME NoneTwice(planned), path \notin PathsOf(planned) PROVE NoneTwice(r)
    <3>1. \A i \in 1..L : r[i].path = planned[i].path /\ planned[i].path # path
      BY <1>1, <2>3, <2>8 DEF PathsOf
    <3>2. ASSUME NEW i \in 1..(L + 1), NEW j \in 1..(L + 1), r[i].path = r[j].path PROVE i = j
      BY <1>1, <2>1, <2>3, <2>4, <2>8, <3>1, <3>2 DEF NoneTwice
    <3> QED BY <2>3, <3>2 DEF NoneTwice
  <2>9. ASSUME OfFirstType(planned) PROVE OfFirstType(r)
    BY <1>1, <2>1, <2>3, <2>4, <2>9 DEF OfFirstType
  <2> QED BY <2>2, <2>3, <2>5, <2>6, <2>7, <2>8, <2>9
<1> QED BY <1>2, <1>3

\* An order of a plan has the same actions.
LEMMA OrderKeeps ==
  ASSUME RP!TypeOK, NEW order \in RP!Orders(planned), NEW r,
         r = [i \in DOMAIN planned |-> planned[order[i]]]
  PROVE  /\ r \in Seq(RP!Actions)
         /\ PathsOf(r) = PathsOf(planned)
         /\ NoneTwice(planned) => NoneTwice(r)
         /\ OfFirstType(planned) => OfFirstType(r)
         /\ NoneTwice(planned) =>
              \A i, j \in DOMAIN r : i < j => Rank[r[i].path] < Rank[r[j].path]
<1> DEFINE D == DOMAIN planned
<1>1. /\ planned \in Seq(RP!Actions) /\ Len(planned) \in Nat /\ D = 1..Len(planned)
      /\ \A i \in D : planned[i] \in RP!Actions
  BY PlannerTypes
<1>2. /\ order \in [D -> D] /\ \A k \in D : \E i \in D : order[i] = k
      /\ \A i, j \in D : i < j => Rank[planned[order[i]].path] <= Rank[planned[order[j]].path]
  BY DEF RP!Orders
<1> HIDE DEF D
<1>3. DOMAIN r = D /\ \A i \in D : order[i] \in D /\ r[i] = planned[order[i]]
  BY <1>2 DEF D
<1>4. r \in Seq(RP!Actions)
  <2>1. r = [i \in 1..Len(planned) |-> planned[order[i]]]
    BY <1>1 DEF D
  <2> QED BY <1>1, <1>3, <2>1
<1>5. PathsOf(r) = PathsOf(planned)
  <2>1. ASSUME NEW x \in PathsOf(r) PROVE x \in PathsOf(planned)
    <3>1. PICK i \in D : x = r[i].path
      BY <1>3 DEF PathsOf
    <3> QED BY <1>3, <3>1 DEF PathsOf, D
  <2>2. ASSUME NEW x \in PathsOf(planned) PROVE x \in PathsOf(r)
    <3>1. PICK k \in D : x = planned[k].path
      BY DEF PathsOf, D
    <3>2. PICK i \in D : order[i] = k
      BY <1>2
    <3>3. i \in DOMAIN r /\ r[i].path = x
      BY <1>3, <3>1, <3>2
    <3> QED BY <3>3 DEF PathsOf
  <2> QED BY <2>1, <2>2
<1>6. ASSUME NEW i \in D, NEW j \in D, order[i] = order[j] PROVE i = j
  <2>1. IsFiniteSet(D)
    BY <1>1, FS_Interval
  <2>2. order \in Surjection(D, D)
    BY <1>2 DEF Surjection, Range
  <2>3. order \in Injection(D, D)
    BY <2>1, <2>2, FS_SurjSameCardinalityImpliesInj
  <2> QED BY <1>6, <2>3 DEF Injection, IsInjective
<1>7. ASSUME NoneTwice(planned), NEW i \in D, NEW j \in D, r[i].path = r[j].path PROVE i = j
  <2>1. order[i] = order[j]
    BY <1>3, <1>7 DEF NoneTwice, D
  <2> QED BY <1>6, <2>1
<1>8. ASSUME OfFirstType(planned) PROVE OfFirstType(r)
  BY <1>3, <1>8 DEF OfFirstType, D
<1>9. ASSUME NoneTwice(planned), NEW i \in D, NEW j \in D, i < j
      PROVE  Rank[r[i].path] < Rank[r[j].path]
  <2>1. r[i].path \in Paths /\ r[j].path \in Paths
    BY <1>1, <1>3 DEF RP!Actions
  <2>2. Rank[r[i].path] <= Rank[r[j].path]
    BY <1>2, <1>3, <1>9
  <2>3. i # j
    BY <1>1, <1>9
  <2>4. r[i].path # r[j].path
    BY <1>7, <1>9, <2>3
  <2>5. /\ Rank[r[i].path] \in Int /\ Rank[r[j].path] \in Int
        /\ Rank[r[i].path] # Rank[r[j].path]
    BY <2>1, <2>4, SurroundingsAssumption
  <2> QED BY <2>2, <2>5
<1> QED BY <1>3, <1>4, <1>5, <1>7, <1>8, <1>9 DEF NoneTwice

\* One path more.
LEMMA OnePathMore ==
  ASSUME NEW n \in Nat
  PROVE  /\ AskedUpTo(0) = {} /\ DependedOn(0) = {}
         /\ AskedUpTo(n + 1) = AskedUpTo(n) \cup {asked[n + 1]}
         /\ DependedOn(n + 1) = DependedOn(n) \cup RP!Members(dependencyGraph[asked[n + 1]])
         /\ \A i \in 1..n : RP!Members(dependencyGraph[asked[i]]) \subseteq DependedOn(n)
<1> DEFINE G(i) == RP!Members(dependencyGraph[asked[i]])
<1>1. ASSUME NEW i \in 1..(n + 1) PROVE i \in 1..n \/ i = n + 1
  <2>1. i \in Int /\ 1 <= i /\ i <= n + 1
    OBVIOUS
  <2>2. i # n + 1 => i <= n
    BY <2>1
  <2> QED BY <2>1, <2>2
<1>2. 1..0 = {} /\ n + 1 \in 1..(n + 1) /\ \A i \in 1..n : i \in 1..(n + 1)
  OBVIOUS
<1> HIDE DEF G
<1>3. \A m : DependedOn(m) = UNION {G(i) : i \in 1..m}
  BY DEF DependedOn, G
<1>4. AskedUpTo(0) = {} /\ DependedOn(0) = {}
  BY <1>2 DEF AskedUpTo, DependedOn
<1>5. AskedUpTo(n + 1) = AskedUpTo(n) \cup {asked[n + 1]}
  BY <1>1, <1>2 DEF AskedUpTo
<1>6. UNION {G(i) : i \in 1..(n + 1)} = (UNION {G(i) : i \in 1..n}) \cup G(n + 1)
  BY <1>1, <1>2
<1>7. \A i \in 1..n : G(i) \subseteq UNION {G(j) : j \in 1..n}
  OBVIOUS
<1> QED BY <1>3, <1>4, <1>5, <1>6, <1>7 DEF G

LEMMA RegisterKeeps ==
  ASSUME PlannerInv,
         \/ \E type \in Paths : RP!RegisterAction(type)
         \/ \E type \in Paths, dependsOn \in DependencyLists : RP!RegisterDependency(type, dependsOn)
         \/ RP!RegisterAlternativePlan
  PROVE  PlannerInv'
<1>1. /\ UNCHANGED <<resolving, asked, reached, owed, met, planned, ready>>
      /\ RP!TypeOK /\ registered \in Nat /\ relinked \in Nat
  BY PlannerTypes
  DEF PlannerInv, RP!RegisterAction, RP!RegisterDependency, RP!RegisterAlternativePlan, RP!request
<1>2. ASSUME NEW type \in Paths, RP!RegisterAction(type) PROVE PlannerInv'
  <2>1. /\ UNCHANGED <<dependencyGraph, alternatives, relinked, fatal>>
        /\ resolvers' = resolvers \cup {type}
        /\ registered' = IF resolving = "idle" THEN registered ELSE registered + 1
    BY <1>2 DEF RP!RegisterAction, RP!Meanwhile
  <2>2. RP!TypeOK'
    BY <1>1, <2>1 DEF RP!TypeOK
  <2>3. registered' = 0 => OfFirstType(planned)'
    <3>1. resolving # "idle" => registered' # 0
      BY <1>1, <2>1
    <3>2. resolving = "idle" => DOMAIN planned = {}
      BY DEF PlannerInv, Begun
    <3> QED BY <1>1, <3>1, <3>2 DEF OfFirstType
  <2>4. (NoneTwice(planned) /\ Begun /\ Sorted)'
    BY <1>1, <2>1 DEF PlannerInv, NoneTwice, Begun, Sorted
  <2>5. (Descending /\ Adding)'
    <3>1. /\ RP!Planned' = RP!Planned /\ RP!Members(owed)' = RP!Members(owed)
          /\ DependedOn(reached)' = DependedOn(reached)
          /\ DependedOn(Len(asked))' = DependedOn(Len(asked))
          /\ AskedUpTo(reached)' = AskedUpTo(reached)
      BY <1>1, <2>1 DEF RP!Planned, RP!Members, DependedOn, AskedUpTo
    <3> QED BY <1>1, <2>1, <3>1 DEF PlannerInv, Descending, Adding
  <2> QED BY <2>2, <2>3, <2>4, <2>5 DEF PlannerInv
<1>3. ASSUME NEW type \in Paths, NEW dependsOn \in DependencyLists,
             RP!RegisterDependency(type, dependsOn)
      PROVE  PlannerInv'
  <2>1. /\ UNCHANGED <<resolvers, alternatives, registered>>
        /\ dependencyGraph' = [dependencyGraph EXCEPT ![type] = dependsOn]
        /\ relinked' = IF resolving = "idle" THEN relinked ELSE relinked + 1
        /\ fatal' \in BOOLEAN
    BY <1>3 DEF RP!RegisterDependency, RP!Meanwhile
  <2>2. RP!TypeOK'
    BY <1>1, <2>1 DEF RP!TypeOK
  <2>3. (registered = 0 => OfFirstType(planned))' /\ (NoneTwice(planned) /\ Begun /\ Sorted)'
    BY <1>1, <2>1 DEF PlannerInv, NoneTwice, OfFirstType, FirstType, Begun, Sorted
  <2>4. resolving # "idle" => relinked' # 0
    BY <1>1, <2>1
  <2>5. (Descending /\ Adding)'
    BY <1>1, <2>4 DEF PlannerInv, Descending, Adding, RP!Planned, AskedUpTo
  <2> QED BY <2>2, <2>3, <2>5 DEF PlannerInv
<1>4. ASSUME RP!RegisterAlternativePlan PROVE PlannerInv'
  <2>1. /\ UNCHANGED <<resolvers, dependencyGraph, registered, relinked, fatal>>
        /\ Len(alternatives) < MaxAlternatives
        /\ alternatives' = Append(alternatives, <<Len(alternatives) + 1>>)
    BY <1>4 DEF RP!RegisterAlternativePlan
  <2>2. Len(alternatives) \in Nat /\ <<Len(alternatives) + 1>> \in Seq(Nat)
    BY <1>1 DEF RP!TypeOK
  <2>3. \A p \in Seq(Nat) : /\ Append(alternatives, p) \in Seq(Seq(Nat))
                            /\ Len(Append(alternatives, p)) = Len(alternatives) + 1
    BY <1>1 DEF RP!TypeOK
  <2>4. Len(alternatives) < MaxAlternatives => Len(alternatives) + 1 <= MaxAlternatives
    BY <2>2, SurroundingsAssumption
  <2>5. RP!TypeOK'
    BY <1>1, <2>1, <2>2, <2>3, <2>4 DEF RP!TypeOK
  <2>6. /\ (registered = 0 => OfFirstType(planned))'
        /\ (NoneTwice(planned) /\ Begun /\ Sorted)'
    BY <1>1, <2>1 DEF PlannerInv, NoneTwice, OfFirstType, FirstType, Begun, Sorted
  <2>7. (Descending /\ Adding)'
    <3>1. /\ RP!Planned' = RP!Planned /\ RP!Members(owed)' = RP!Members(owed)
          /\ DependedOn(reached)' = DependedOn(reached)
          /\ DependedOn(Len(asked))' = DependedOn(Len(asked))
          /\ AskedUpTo(reached)' = AskedUpTo(reached)
      BY <1>1, <2>1 DEF RP!Planned, RP!Members, DependedOn, AskedUpTo
    <3> QED BY <1>1, <2>1, <3>1 DEF PlannerInv, Descending, Adding
  <2> QED BY <2>5, <2>6, <2>7 DEF PlannerInv
<1> QED BY <1>2, <1>3, <1>4

LEMMA ResolveKeeps ==
  ASSUME PlannerInv, NEW paths \in MissingLists, RP!Resolve(paths)
  PROVE  PlannerInv'
<1>1. /\ UNCHANGED <<resolvers, dependencyGraph, alternatives, fatal>>
      /\ resolving' = "dependencies" /\ asked' = paths /\ reached' = 0 /\ owed' = << >>
      /\ met' = {} /\ planned' = << >>
      /\ ready' = (resolvers # {}) /\ registered' = 0 /\ relinked' = 0
  BY DEF RP!Resolve
<1>2. << >> \in Seq(RP!Actions) /\ << >> \in Seq(Paths) /\ DOMAIN << >> = {}
  OBVIOUS
<1>3. paths \in Seq(Paths) /\ 0 \in 0..Len(paths)
  BY SurroundingsAssumption
<1>4. RP!TypeOK'
  BY <1>1, <1>2, <1>3 DEF PlannerInv, RP!TypeOK
<1>5. (NoneTwice(planned) /\ OfFirstType(planned) /\ Begun /\ Adding /\ Sorted)'
  BY <1>1, <1>2 DEF NoneTwice, OfFirstType, Begun, Adding, Sorted
<1>6. Descending'
  <2>1. (RP!Planned = {} /\ RP!Members(owed) = {})'
    BY <1>1, <1>2 DEF RP!Planned, RP!Members
  <2>2. 1..0 = {}
    OBVIOUS
  <2>3. DependedOn(reached)' = {}
    BY <1>1, <2>2 DEF DependedOn
  <2> QED BY <1>1, <2>1, <2>3 DEF Descending
<1> QED BY <1>4, <1>5, <1>6 DEF PlannerInv

LEMMA DescendKeeps == ASSUME PlannerInv, RP!Descend PROVE PlannerInv'
<1> DEFINE next == asked[reached + 1]
<1>1. /\ UNCHANGED <<resolvers, dependencyGraph, alternatives, ready, registered, relinked, fatal>>
      /\ UNCHANGED <<resolving, asked, met, planned>>
      /\ resolving = "dependencies" /\ owed = << >> /\ reached < Len(asked)
      /\ reached' = reached + 1
      /\ owed' = IF \E i \in 1..reached : asked[i] = next THEN << >> ELSE dependencyGraph[next]
  BY DEF RP!Descend, RP!Reading, RP!Registrations
<1>2. /\ RP!TypeOK /\ reached \in Nat /\ reached + 1 \in 0..Len(asked)
      /\ next \in Paths /\ dependencyGraph[next] \in Seq(Paths) /\ << >> \in Seq(Paths)
  BY <1>1, PlannerTypes DEF PlannerInv
<1> HIDE DEF next
<1>3. owed' \in Seq(Paths)
  BY <1>1, <1>2
<1>4. RP!TypeOK'
  BY <1>1, <1>2, <1>3 DEF RP!TypeOK
<1>5. /\ (registered = 0 => OfFirstType(planned))'
      /\ (NoneTwice(planned) /\ Begun /\ Adding /\ Sorted)'
  BY <1>1 DEF PlannerInv, NoneTwice, OfFirstType, FirstType, Begun, Adding, Sorted
<1>6. Descending'
  <2>1. RP!Planned' = RP!Planned
    BY <1>1 DEF RP!Planned
  <2>2. relinked = 0 => met = DependedOn(reached)
    <3>1. RP!Members(<< >>) = {}
      BY DEF RP!Members
    <3> QED BY <1>1, <3>1 DEF PlannerInv, Descending
  <2>3. DependedOn(reached)' = DependedOn(reached + 1)
    BY <1>1 DEF DependedOn
  <2>4. /\ DependedOn(reached + 1) = DependedOn(reached) \cup RP!Members(dependencyGraph[next])
        /\ \A i \in 1..reached :
             RP!Members(dependencyGraph[asked[i]]) \subseteq DependedOn(reached)
    <3>1. reached \in Nat
      BY <1>2
    <3>2. /\ DependedOn(reached + 1)
               = DependedOn(reached) \cup RP!Members(dependencyGraph[asked[reached + 1]])
          /\ \A i \in 1..reached :
               RP!Members(dependencyGraph[asked[i]]) \subseteq DependedOn(reached)
      BY <3>1, OnePathMore
    <3> QED BY <3>2 DEF next
  <2>5. DependedOn(reached) \cup RP!Members(owed') = DependedOn(reached + 1)
    <3>1. CASE \E i \in 1..reached : asked[i] = next
      <4>1. RP!Members(dependencyGraph[next]) \subseteq DependedOn(reached)
        BY <2>4, <3>1
      <4>2. owed' = << >> /\ RP!Members(<< >>) = {}
        BY <1>1, <3>1 DEF RP!Members
      <4> QED BY <2>4, <4>1, <4>2
    <3>2. CASE ~\E i \in 1..reached : asked[i] = next
      BY <1>1, <2>4, <3>2
    <3> QED BY <3>1, <3>2
  <2>6. RP!Members(owed)' = RP!Members(owed')
    BY DEF RP!Members
  <2> QED BY <1>1, <2>1, <2>2, <2>3, <2>5, <2>6 DEF PlannerInv, Descending
<1> QED BY <1>4, <1>5, <1>6 DEF PlannerInv

LEMMA AddDependencyKeeps == ASSUME PlannerInv, RP!AddDependency PROVE PlannerInv'
<1> DEFINE d == Head(owed)
<1>1. /\ UNCHANGED <<resolvers, dependencyGraph, alternatives, ready, registered, relinked, fatal>>
      /\ UNCHANGED <<resolving, asked, reached>>
      /\ resolving = "dependencies" /\ owed # << >> /\ owed' = Tail(owed)
      /\ met' = met \cup {d}
      /\ planned' = IF d \in met THEN planned ELSE RP!With(d)
  BY DEF PlannerInv, Begun, RP!AddDependency, RP!Registrations
<1>2. /\ RP!TypeOK /\ owed \in Seq(Paths) /\ met \subseteq Paths /\ planned \in Seq(RP!Actions)
      /\ NoneTwice(planned)
  BY PlannerTypes DEF PlannerInv
<1>3. d \in Paths /\ Tail(owed) \in Seq(Paths)
  BY <1>1, <1>2
<1>4. RP!Members(owed) = {d} \cup RP!Members(Tail(owed))
  <2>1. /\ Len(owed) \in Nat /\ Len(owed) # 0 /\ d = owed[1]
        /\ DOMAIN owed = 1..Len(owed) /\ DOMAIN Tail(owed) = 1..(Len(owed) - 1)
        /\ \A i \in 1..(Len(owed) - 1) : Tail(owed)[i] = owed[i + 1]
    BY <1>1, <1>2
  <2> HIDE DEF d
  <2>2. /\ \A i \in 1..Len(owed) : i = 1 \/ (i - 1 \in 1..(Len(owed) - 1) /\ (i - 1) + 1 = i)
        /\ \A i \in 1..(Len(owed) - 1) : i + 1 \in 1..Len(owed)
        /\ 1 \in 1..Len(owed)
    BY <2>1
  <2> DEFINE t == Tail(owed)
  <2> HIDE DEF t
  <2>3. \A i \in 1..Len(owed) : owed[i] = d \/ \E j \in DOMAIN t : owed[i] = t[j]
    <3>1. ASSUME NEW i \in 1..Len(owed), i # 1 PROVE \E j \in DOMAIN t : owed[i] = t[j]
      <4>1. i - 1 \in DOMAIN t /\ t[i - 1] = owed[i]
        BY <2>1, <2>2, <3>1 DEF t
      <4> QED BY <4>1
    <3> QED BY <2>1, <3>1
  <2>4. \A j \in DOMAIN t : \E i \in DOMAIN owed : owed[i] = t[j]
    BY <2>1, <2>2 DEF t
  <2>5. RP!Members(owed) = {d} \cup RP!Members(t)
    BY <2>1, <2>2, <2>3, <2>4 DEF RP!Members
  <2> QED BY <2>5 DEF t
<1> HIDE DEF d
<1>5. /\ planned' \in Seq(RP!Actions) /\ NoneTwice(planned)'
      /\ (registered = 0 => OfFirstType(planned))'
      /\ PathsOf(planned') \subseteq met' /\ (ready' => PathsOf(planned') = met')
  <2>1. PathsOf(planned) \subseteq met /\ (ready => PathsOf(planned) = met /\ resolvers # {})
    BY <1>1 DEF PlannerInv, Begun, Descending, RP!Planned, PathsOf
  <2>2. OfFirstType(planned') <=> OfFirstType(planned)'
    BY <1>1 DEF OfFirstType, FirstType
  <2>3. NoneTwice(planned') <=> NoneTwice(planned)'
    BY DEF NoneTwice
  <2>4. CASE d \in met
    BY <1>1, <1>2, <2>1, <2>2, <2>3, <2>4 DEF PlannerInv
  <2>5. CASE d \notin met
    <3>1. planned' = RP!With(d) /\ d \notin PathsOf(planned)
      BY <1>1, <2>1, <2>5
    <3>2. /\ RP!With(d) \in Seq(RP!Actions) /\ NoneTwice(RP!With(d))
          /\ PathsOf(RP!With(d)) \subseteq PathsOf(planned) \cup {d}
          /\ resolvers # {} => PathsOf(RP!With(d)) = PathsOf(planned) \cup {d}
          /\ OfFirstType(planned) => OfFirstType(RP!With(d))
      BY <1>2, <1>3, <3>1, WithIs
    <3>3. PathsOf(planned') \subseteq met' /\ (ready' => PathsOf(planned') = met')
      BY <1>1, <2>1, <3>1, <3>2
    <3> QED BY <1>1, <2>2, <2>3, <3>1, <3>2, <3>3 DEF PlannerInv
  <2> QED BY <2>4, <2>5
<1>6. RP!TypeOK'
  <2>1. owed' \in Seq(Paths) /\ met' \subseteq Paths
    BY <1>1, <1>2, <1>3
  <2> QED BY <1>1, <1>2, <1>5, <2>1 DEF RP!TypeOK
<1>7. Descending'
  <2>1. RP!Planned' = PathsOf(planned') /\ RP!Members(owed)' = RP!Members(Tail(owed))
    BY <1>1 DEF RP!Planned, PathsOf, RP!Members
  <2>2. DependedOn(reached)' = DependedOn(reached)
    BY <1>1 DEF DependedOn
  <2>3. relinked = 0 => met \cup RP!Members(owed) = DependedOn(reached)
    BY <1>1 DEF PlannerInv, Descending
  <2> QED BY <1>1, <1>4, <1>5, <2>1, <2>2, <2>3 DEF Descending
<1>8. (Begun /\ Adding /\ Sorted)'
  BY <1>1 DEF PlannerInv, Begun, Adding, Sorted
<1> QED BY <1>5, <1>6, <1>7, <1>8 DEF PlannerInv

LEMMA AllDescendedKeeps == ASSUME PlannerInv, RP!AllDescended PROVE PlannerInv'
<1>1. /\ UNCHANGED <<resolvers, dependencyGraph, alternatives, ready, registered, relinked, fatal>>
      /\ UNCHANGED <<asked, owed, met, planned>>
      /\ resolving = "dependencies" /\ resolving' = "missing"
      /\ owed = << >> /\ reached = Len(asked) /\ reached' = 0
  BY DEF RP!AllDescended, RP!Registrations
<1>2. RP!TypeOK /\ Len(asked) \in Nat /\ 0 \in 0..Len(asked)
  BY PlannerTypes DEF PlannerInv
<1>3. RP!TypeOK'
  BY <1>1, <1>2 DEF RP!TypeOK
<1>4. /\ (registered = 0 => OfFirstType(planned))'
      /\ (NoneTwice(planned) /\ Begun /\ Descending /\ Sorted)'
  BY <1>1 DEF PlannerInv, NoneTwice, OfFirstType, FirstType, Begun, Descending, Sorted
<1>5. Adding'
  <2>1. RP!Planned' = RP!Planned /\ DependedOn(Len(asked))' = DependedOn(Len(asked))
    BY <1>1 DEF RP!Planned, DependedOn
  <2>2. AskedUpTo(reached)' = {}
    <3>1. 1..0 = {}
      OBVIOUS
    <3> QED BY <1>1, <3>1 DEF AskedUpTo
  <2>3. RP!Members(owed) = {}
    BY <1>1 DEF RP!Members
  <2> QED BY <1>1, <2>1, <2>2, <2>3 DEF PlannerInv, Descending, Adding
<1> QED BY <1>3, <1>4, <1>5 DEF PlannerInv

LEMMA AddMissingKeeps == ASSUME PlannerInv, RP!AddMissing PROVE PlannerInv'
<1> DEFINE d == asked[reached + 1]
<1>1. /\ UNCHANGED <<resolvers, dependencyGraph, alternatives, ready, registered, relinked, fatal>>
      /\ UNCHANGED <<resolving, asked, owed, met>>
      /\ resolving = "missing" /\ reached < Len(asked) /\ reached' = reached + 1
      /\ planned' = IF d \in PathsOf(planned) THEN planned ELSE RP!With(d)
  <2>1. (\E i \in DOMAIN planned : planned[i].path = asked[reached + 1]) <=> d \in PathsOf(planned)
    BY DEF PathsOf
  <2> QED BY <2>1 DEF RP!AddMissing, RP!Registrations
<1>2. /\ RP!TypeOK /\ planned \in Seq(RP!Actions) /\ NoneTwice(planned)
      /\ reached \in Nat /\ reached + 1 \in 0..Len(asked) /\ d \in Paths
  BY <1>1, PlannerTypes DEF PlannerInv
<1>3. AskedUpTo(reached + 1) = AskedUpTo(reached) \cup {d}
  BY <1>2, OnePathMore
<1> HIDE DEF d
<1>4. /\ planned' \in Seq(RP!Actions) /\ NoneTwice(planned)'
      /\ (registered = 0 => OfFirstType(planned))'
      /\ PathsOf(planned) \subseteq PathsOf(planned')
      /\ PathsOf(planned') \subseteq PathsOf(planned) \cup {d}
      /\ ready => PathsOf(planned') = PathsOf(planned) \cup {d}
  <2>1. ready => resolvers # {}
    BY DEF PlannerInv, Begun
  <2>2. OfFirstType(planned') <=> OfFirstType(planned)'
    BY <1>1 DEF OfFirstType, FirstType
  <2>3. NoneTwice(planned') <=> NoneTwice(planned)'
    BY DEF NoneTwice
  <2>4. CASE d \in PathsOf(planned)
    BY <1>1, <1>2, <2>2, <2>3, <2>4 DEF PlannerInv
  <2>5. CASE d \notin PathsOf(planned)
    BY <1>1, <1>2, <2>1, <2>2, <2>3, <2>5, WithIs DEF PlannerInv
  <2> QED BY <2>4, <2>5
<1>5. RP!TypeOK'
  BY <1>1, <1>2, <1>4 DEF RP!TypeOK
<1>6. Adding'
  <2>1. RP!Planned' = PathsOf(planned') /\ RP!Planned = PathsOf(planned)
    BY DEF RP!Planned, PathsOf
  <2>2. /\ DependedOn(Len(asked))' = DependedOn(Len(asked))
        /\ AskedUpTo(reached)' = AskedUpTo(reached) \cup {d}
    <3>1. AskedUpTo(reached)' = AskedUpTo(reached + 1)
      BY <1>1 DEF AskedUpTo
    <3> QED BY <1>1, <1>3, <3>1 DEF DependedOn
  <2>3. /\ ready => AskedUpTo(reached) \subseteq RP!Planned
        /\ relinked = 0 =>
             /\ RP!Planned \subseteq DependedOn(Len(asked)) \cup AskedUpTo(reached)
             /\ ready => RP!Planned = DependedOn(Len(asked)) \cup AskedUpTo(reached)
    BY <1>1 DEF PlannerInv, Adding
  <2>4. ready => AskedUpTo(reached)' \subseteq RP!Planned'
    BY <1>4, <2>1, <2>2, <2>3
  <2>5. relinked = 0 => RP!Planned' \subseteq DependedOn(Len(asked)) \cup AskedUpTo(reached)'
    BY <1>4, <2>1, <2>2, <2>3
  <2>6. relinked = 0 /\ ready => RP!Planned' = DependedOn(Len(asked)) \cup AskedUpTo(reached)'
    BY <1>4, <2>1, <2>2, <2>3
  <2> QED BY <1>1, <2>2, <2>4, <2>5, <2>6 DEF Adding
<1>7. (Begun /\ Descending /\ Sorted)'
  BY <1>1 DEF PlannerInv, Begun, Descending, Sorted
<1> QED BY <1>4, <1>5, <1>6, <1>7 DEF PlannerInv

LEMMA SortKeeps == ASSUME PlannerInv, RP!Sort PROVE PlannerInv'
<1>1. /\ UNCHANGED <<resolvers, dependencyGraph, alternatives, ready, registered, relinked, fatal>>
      /\ UNCHANGED <<asked, reached, owed, met>>
      /\ resolving = "missing" /\ resolving' = "planned" /\ reached = Len(asked)
  BY DEF RP!Sort, RP!Registrations
<1>2. PICK order \in RP!Orders(planned) :
        planned' = [i \in DOMAIN planned |-> planned[order[i]]]
  BY DEF RP!Sort
<1>3. /\ planned' \in Seq(RP!Actions) /\ PathsOf(planned') = PathsOf(planned)
      /\ NoneTwice(planned') /\ (OfFirstType(planned) => OfFirstType(planned'))
      /\ \A i, j \in DOMAIN planned' :
           i < j => Rank[planned'[i].path] < Rank[planned'[j].path]
  BY <1>2, OrderKeeps DEF PlannerInv
<1>4. RP!TypeOK'
  BY <1>1, <1>3 DEF PlannerInv, RP!TypeOK
<1>5. (registered = 0 => OfFirstType(planned))' /\ NoneTwice(planned)'
  <2>1. OfFirstType(planned') <=> OfFirstType(planned)'
    BY <1>1 DEF OfFirstType, FirstType
  <2>2. NoneTwice(planned') <=> NoneTwice(planned)'
    BY DEF NoneTwice
  <2> QED BY <1>1, <1>3, <2>1, <2>2 DEF PlannerInv
<1>6. Adding'
  <2>1. RP!Planned' = RP!Planned
    <3>1. RP!Planned' = PathsOf(planned') /\ RP!Planned = PathsOf(planned)
      BY DEF RP!Planned, PathsOf
    <3> QED BY <1>3, <3>1
  <2>2. /\ DependedOn(Len(asked))' = DependedOn(Len(asked))
        /\ AskedUpTo(reached)' = AskedUpTo(reached)
    BY <1>1 DEF DependedOn, AskedUpTo
  <2> QED BY <1>1, <2>1, <2>2 DEF PlannerInv, Adding
<1>7. (Begun /\ Descending)'
  BY <1>1 DEF PlannerInv, Begun, Descending
<1>8. Sorted'
  BY <1>1, <1>3 DEF Sorted
<1> QED BY <1>4, <1>5, <1>6, <1>7, <1>8 DEF PlannerInv

LEMMA PlannerNext == PlannerInv /\ (RP!Next \/ UNCHANGED plannerVars) => PlannerInv'
<1>1. ASSUME PlannerInv, RP!Next PROVE PlannerInv'
  BY <1>1, RegisterKeeps, ResolveKeeps, DescendKeeps, AddDependencyKeeps, AllDescendedKeeps,
     AddMissingKeeps, SortKeeps
  DEF RP!Next
<1>2. ASSUME PlannerInv, UNCHANGED plannerVars PROVE PlannerInv'
  <2>1. RP!TypeOK'
    BY <1>2 DEF PlannerInv, RP!TypeOK, plannerVars
  <2>2. /\ (registered = 0 => OfFirstType(planned))'
        /\ (NoneTwice(planned) /\ Begun /\ Sorted)'
    BY <1>2
    DEF PlannerInv, plannerVars, NoneTwice, OfFirstType, FirstType, Begun, Sorted
  <2>3. /\ RP!Planned' = RP!Planned /\ RP!Members(owed)' = RP!Members(owed)
        /\ DependedOn(reached)' = DependedOn(reached)
        /\ DependedOn(Len(asked))' = DependedOn(Len(asked))
        /\ AskedUpTo(reached)' = AskedUpTo(reached)
    BY <1>2 DEF plannerVars, RP!Planned, RP!Members, DependedOn, AskedUpTo
  <2>4. (Descending /\ Adding)'
    BY <1>2, <2>3 DEF PlannerInv, plannerVars, Descending, Adding
  <2> QED BY <2>1, <2>2, <2>4 DEF PlannerInv
<1> QED BY <1>1, <1>2

LEMMA Division ==
  ASSUME NEW a \in Nat, NEW n \in Nat \ {0}
  PROVE  a \div n \in Int /\ a % n \in 0..(n - 1) /\ a = n * (a \div n) + (a % n)
OBVIOUS

\* A number leaves one remainder.
LEMMA OneRemainder ==
  ASSUME NEW n \in Nat \ {0}, NEW x \in Int, NEW y \in Int, NEW r \in 0..(n - 1),
         NEW s \in 0..(n - 1), n * x + r = n * y + s
  PROVE  r = s
<1>1. \A d \in Int : d >= 1 => n * d >= n
  OBVIOUS
<1>2. \A u, v \in Int : n * (u - v) = n * u - n * v
  OBVIOUS
<1>3. n * (x - y) = s - r /\ n * (y - x) = r - s
  <2>1. n * x \in Int /\ n * y \in Int
    OBVIOUS
  <2>2. n * (x - y) = n * x - n * y /\ n * (y - x) = n * y - n * x
    BY <1>2
  <2> QED BY <2>1, <2>2
<1>4. ~(x - y >= 1)
  <2>1. x - y >= 1 => n * (x - y) >= n
    BY <1>1
  <2> QED BY <1>3, <2>1
<1>5. ~(y - x >= 1)
  <2>1. y - x >= 1 => n * (y - x) >= n
    BY <1>1
  <2> QED BY <1>3, <2>1
<1>6. x = y /\ n * x \in Int
  BY <1>4, <1>5
<1> QED BY <1>6

\* In any n numbers on end some number leaves the remainder r.
LEMMA Window ==
  ASSUME NEW n \in Nat \ {0}, NEW a \in Nat, NEW r \in 0..(n - 1)
  PROVE  \E b \in a..(a + n - 1) : b % n = r
<1> DEFINE d == a \div n
           m == a % n
           b == IF m <= r THEN a + (r - m) ELSE a + n + (r - m)
           c == IF m <= r THEN d ELSE d + 1
<1>1. d \in Int /\ m \in 0..(n - 1) /\ a = n * d + m
  BY Division
<1> HIDE DEF d, m
<1>2. b \in a..(a + n - 1) /\ b \in Nat /\ c \in Int
  BY <1>1
<1>3. b = n * c + r
  <2>1. n * d \in Int /\ n * (d + 1) = n * d + n
    BY <1>1
  <2> QED BY <1>1, <2>1
<1>4. b \div n \in Int /\ b % n \in 0..(n - 1) /\ b = n * (b \div n) + (b % n)
  BY <1>2, Division
<1> HIDE DEF b, c
<1>5. n * c + r = n * (b \div n) + (b % n)
  BY <1>3, <1>4
<1>6. r = b % n
  BY <1>2, <1>4, <1>5, OneRemainder
<1> QED BY <1>2, <1>6

LEMMA TriedInTurn ==
  ASSUME PlannerInv, alternatives # << >>, NEW resolved, NEW failures \in Nat \ {0}
  PROVE  {RP!ResolveWithFallback(resolved, f) : f \in failures..(failures + Len(alternatives) - 1)}
           = {alternatives[i] : i \in 1..Len(alternatives)}
<1> DEFINE n == Len(alternatives)
           tries == failures..(failures + n - 1)
           A == {RP!ResolveWithFallback(resolved, f) : f \in tries}
           B == {alternatives[i] : i \in 1..n}
<1>1. n \in Nat \ {0}
  BY PlannerFacts
<1> HIDE DEF n
<1>2. ASSUME NEW f \in tries
      PROVE  f - 1 \in Nat /\ RP!ResolveWithFallback(resolved, f) = alternatives[((f - 1) % n) + 1]
  <2>1. f \in Nat /\ f > 0
    BY <1>1
  <2> QED BY <2>1 DEF RP!ResolveWithFallback, n
<1>3. ASSUME NEW x \in A PROVE x \in B
  <2>1. PICK f \in tries : x = RP!ResolveWithFallback(resolved, f)
    OBVIOUS
  <2>2. f - 1 \in Nat /\ x = alternatives[((f - 1) % n) + 1]
    BY <1>2, <2>1
  <2>3. (f - 1) % n \in 0..(n - 1)
    BY <1>1, <2>2, Division
  <2>4. ((f - 1) % n) + 1 \in 1..n
    BY <1>1, <2>3
  <2> QED BY <2>2, <2>4
<1>4. ASSUME NEW x \in B PROVE x \in A
  <2>1. PICK i \in 1..n : x = alternatives[i]
    OBVIOUS
  <2>2. i - 1 \in 0..(n - 1) /\ failures - 1 \in Nat
    BY <1>1, <2>1
  <2>3. PICK b \in (failures - 1)..((failures - 1) + n - 1) : b % n = i - 1
    BY <1>1, <2>2, Window
  <2>4. b + 1 \in tries /\ (b + 1) - 1 = b /\ (i - 1) + 1 = i
    BY <1>1, <2>2, <2>3
  <2>5. RP!ResolveWithFallback(resolved, b + 1) = alternatives[((b + 1 - 1) % n) + 1]
    BY <1>2, <2>4
  <2> QED BY <2>1, <2>3, <2>4, <2>5
<1> HIDE DEF A, B
<1>5. A = B
  BY <1>3, <1>4
<1> QED BY <1>5 DEF A, B, tries, n

LEMMA PlansCovered == PlannerInv => RP!PlansCover
<1> SUFFICES ASSUME PlannerInv, resolving = "planned" PROVE RP!PlansCover
  BY DEF RP!PlansCover
<1> DEFINE A == UNION {RP!Members(dependencyGraph[p]) : p \in RP!Members(asked)}
           B == DependedOn(Len(asked))
<1>1. asked \in Seq(Paths) /\ DOMAIN asked = 1..Len(asked) /\ reached = Len(asked)
  BY PlannerTypes DEF PlannerInv, Sorted
<1>2. RP!Members(asked) = AskedUpTo(reached)
  BY <1>1 DEF RP!Members, AskedUpTo
<1>3. A = B
  <2>1. ASSUME NEW x \in A PROVE x \in B
    <3>1. PICK p \in RP!Members(asked) : x \in RP!Members(dependencyGraph[p])
      OBVIOUS
    <3>2. PICK i \in 1..Len(asked) : p = asked[i]
      BY <1>1, <3>1 DEF RP!Members
    <3> QED BY <3>1, <3>2 DEF DependedOn
  <2>2. ASSUME NEW x \in B PROVE x \in A
    <3>1. PICK i \in 1..Len(asked) : x \in RP!Members(dependencyGraph[asked[i]])
      BY DEF DependedOn
    <3>2. asked[i] \in RP!Members(asked)
      BY <1>1 DEF RP!Members
    <3> QED BY <3>1, <3>2
  <2> HIDE DEF A, B
  <2> QED BY <2>1, <2>2
<1>4. \A i, j \in DOMAIN planned : i < j => Rank[planned[i].path] < Rank[planned[j].path]
  BY DEF PlannerInv, Sorted
<1>5. registered = 0 => \A i, j \in DOMAIN planned : planned[i].type = planned[j].type
  BY DEF PlannerInv, OfFirstType
<1>6. /\ ready => RP!Members(asked) \subseteq RP!Planned
      /\ relinked = 0 => /\ RP!Planned \subseteq RP!Members(asked) \cup A
                         /\ ready => RP!Planned = RP!Members(asked) \cup A
  <2> HIDE DEF A
  <2> QED BY <1>2, <1>3 DEF PlannerInv, Adding
<1> QED BY <1>4, <1>5, <1>6 DEF RP!PlansCover

LEMMA AlternativesAreTried == PlannerInv => RP!AlternativesTried
<1> SUFFICES ASSUME PlannerInv, alternatives # << >>, NEW failures \in 1..MaxFailures
             PROVE  {RP!ResolveWithFallback(planned, f) :
                       f \in failures..(failures + Len(alternatives) - 1)} = RP!Members(alternatives)
  BY DEF RP!AlternativesTried
<1>1. failures \in Nat \ {0}
  OBVIOUS
<1>2. DOMAIN alternatives = 1..Len(alternatives)
  BY PlannerFacts
<1> QED BY <1>1, <1>2, TriedInTurn DEF RP!Members

\* What stands for a cycle: from each name of T one leads to another of T.
Deps(n) == RP!Members(dependencyGraph[n])
Endless(T) == T \subseteq Paths /\ \A n \in T : Deps(n) \cap T # {}

\* The names the search has left: it went on from them to such names only, and no cycle is
\* among them.
Finished(search) == search.visited \ search.recStack
Sound(search) ==
  /\ search.recStack \subseteq search.visited
  /\ \A n \in Finished(search) : Deps(n) \subseteq Finished(search)
  /\ \A T \in SUBSET Finished(search) : Endless(T) => T = {}

\* What a call of dfs for node may count on, and what it does to the search.
Ready(search, node) ==
  /\ search \in RP!Searches /\ ~search.cyclic /\ Sound(search)
  /\ node \in Paths /\ node \notin search.visited
  /\ \A n \in search.recStack : Deps(n) \cap (search.recStack \cup {node}) # {}

Kept(search, node, next) ==
  /\ next \in RP!Searches
  /\ search.visited \cup {node} \subseteq next.visited
  /\ next.cyclic => search.recStack \cup {node} \subseteq next.recStack /\ Endless(next.recStack)

Explores(search, node, next) ==
  Kept(search, node, next)
    /\ (~next.cyclic => Sound(next) /\ next.recStack = search.recStack)

\* The same when the first n dependencies of node have been looked at.
Between(search, node, n, next) ==
  Kept(search, node, next)
    /\ (~next.cyclic => /\ Sound(next) /\ next.recStack = search.recStack \cup {node}
                        /\ \A i \in 1..n : dependencyGraph[node][i] \in Finished(next))

Calls == [RP!Searches \X Paths -> RP!Searches]
ExploresAll(dfs, depth) ==
  /\ dfs \in Calls
  /\ \A search, node : Ready(search, node) /\ Cardinality(Paths \ search.visited) <= depth =>
       Explores(search, node, dfs[<<search, node>>])

LEMMA DepsAre ==
  ASSUME PlannerInv, NEW n \in Paths
  PROVE  /\ dependencyGraph[n] \in Seq(Paths) /\ Len(dependencyGraph[n]) \in Nat
         /\ \A i \in 1..Len(dependencyGraph[n]) :
              dependencyGraph[n][i] \in Paths /\ dependencyGraph[n][i] \in Deps(n)
         /\ \A d \in Deps(n) : \E i \in 1..Len(dependencyGraph[n]) : d = dependencyGraph[n][i]
         /\ Deps(n) \subseteq Paths
<1>1. dependencyGraph[n] \in Seq(Paths)
  BY PlannerFacts
<1> QED BY <1>1 DEF Deps, RP!Members

LEMMA SearchFacts ==
  ASSUME NEW search \in RP!Searches
  PROVE  /\ search.visited \in SUBSET Paths /\ search.recStack \in SUBSET Paths
         /\ search.cyclic \in BOOLEAN
  BY DEF RP!Searches

LEMMA EnterIs ==
  ASSUME NEW search \in RP!Searches, NEW node \in Paths
  PROVE  /\ RP!Enter(search, node) \in RP!Searches
         /\ RP!Enter(search, node).visited = search.visited \cup {node}
         /\ RP!Enter(search, node).recStack = search.recStack \cup {node}
         /\ RP!Enter(search, node).cyclic = search.cyclic
  BY DEF RP!Searches, RP!Enter

LEMMA LookIs ==
  ASSUME NEW dfs \in Calls, NEW search \in RP!Searches, NEW dep \in Paths
  PROVE  /\ RP!Look(dfs, search, dep) \in RP!Searches
         /\ search.cyclic => RP!Look(dfs, search, dep) = search
         /\ ~search.cyclic /\ dep \notin search.visited =>
              RP!Look(dfs, search, dep) = dfs[<<search, dep>>]
         /\ ~search.cyclic /\ dep \in search.visited =>
              /\ RP!Look(dfs, search, dep).visited = search.visited
              /\ RP!Look(dfs, search, dep).recStack = search.recStack
              /\ RP!Look(dfs, search, dep).cyclic <=> dep \in search.recStack
<1>1. CASE search.cyclic
  BY <1>1 DEF RP!Look
<1>2. CASE ~search.cyclic /\ dep \notin search.visited
  <2>1. dfs[<<search, dep>>] \in RP!Searches
    BY DEF Calls
  <2> QED BY <1>2, <2>1 DEF RP!Look
<1>3. CASE ~search.cyclic /\ dep \in search.visited /\ dep \in search.recStack
  <2> DEFINE next == [search EXCEPT !.cyclic = TRUE]
  <2>1. RP!Look(dfs, search, dep) = next
    BY <1>3 DEF RP!Look
  <2>2. /\ next \in RP!Searches /\ next.cyclic
        /\ next.visited = search.visited /\ next.recStack = search.recStack
    BY DEF RP!Searches
  <2> HIDE DEF next
  <2> QED BY <1>3, <2>1, <2>2
<1>4. CASE ~search.cyclic /\ dep \in search.visited /\ dep \notin search.recStack
  BY <1>4 DEF RP!Look
<1> QED BY <1>1, <1>2, <1>3, <1>4

LEMMA LeaveIs ==
  ASSUME NEW search \in RP!Searches, NEW node \in Paths
  PROVE  LET next == [search EXCEPT !.recStack = @ \ {node}]
         IN  /\ next \in RP!Searches /\ next.visited = search.visited
             /\ next.recStack = search.recStack \ {node} /\ next.cyclic = search.cyclic
  BY DEF RP!Searches

\* The search enters node.
LEMMA EnterBetween ==
  ASSUME NEW search, NEW node, Ready(search, node)
  PROVE  Between(search, node, 0, RP!Enter(search, node))
<1> DEFINE next == RP!Enter(search, node)
<1>1. /\ next \in RP!Searches /\ next.visited = search.visited \cup {node}
      /\ next.recStack = search.recStack \cup {node} /\ ~next.cyclic
  BY EnterIs DEF Ready
<1>2. node \notin search.visited /\ Sound(search) /\ search.recStack \subseteq search.visited
  BY DEF Ready, Sound
<1> HIDE DEF next
<1>3. Finished(next) = Finished(search)
  BY <1>1, <1>2 DEF Finished
<1>4. Sound(next)
  BY <1>1, <1>2, <1>3 DEF Sound
<1>5. 1..0 = {}
  OBVIOUS
<1> QED BY <1>1, <1>4, <1>5 DEF Between, Kept, next

\* It looks at one more dependency of node, and calls dfs for one it has not visited.
LEMMA LookBetween ==
  ASSUME PlannerInv, NEW dfs, NEW depth \in Nat, ExploresAll(dfs, depth),
         NEW search, NEW node, Ready(search, node),
         Cardinality(Paths \ search.visited) <= depth + 1,
         NEW n \in 1..Len(dependencyGraph[node]), NEW s, Between(search, node, n - 1, s)
  PROVE  Between(search, node, n, RP!Look(dfs, s, dependencyGraph[node][n]))
<1> DEFINE dep  == dependencyGraph[node][n]
           next == RP!Look(dfs, s, dep)
<1>1. /\ node \in Paths /\ dep \in Paths /\ dep \in Deps(node)
      /\ search.recStack \subseteq search.visited /\ node \notin search.visited
  BY DepsAre DEF Ready, Sound
<1>2. /\ s \in RP!Searches /\ search.visited \cup {node} \subseteq s.visited
      /\ s.visited \subseteq Paths /\ dfs \in Calls
  BY SearchFacts DEF Between, Kept, ExploresAll
<1>3. CASE s.cyclic
  <2>1. \A d \in Paths : RP!Look(dfs, s, d) = s
    BY <1>3 DEF RP!Look
  <2>2. next = s
    BY <1>1, <2>1
  <2> HIDE DEF next
  <2> QED BY <1>3, <2>2 DEF Between, next
<1>4. CASE ~s.cyclic
  <2>1. /\ Sound(s) /\ s.recStack = search.recStack \cup {node}
        /\ \A i \in 1..(n - 1) : dependencyGraph[node][i] \in Finished(s)
    BY <1>4 DEF Between
  <2>2. \A m \in s.recStack : m # node => Deps(m) \cap s.recStack # {}
    BY <2>1 DEF Ready
  <2>3. \A i \in 1..n : i \in 1..(n - 1) \/ i = n
    OBVIOUS
  <2>4. CASE dep \notin s.visited
    <3>1. next = dfs[<<s, dep>>]
      BY <1>1, <1>2, <1>4, <2>4, LookIs
    <3> HIDE DEF next, dep
    <3>2. Ready(s, dep)
      <4>1. \A m \in s.recStack : Deps(m) \cap (s.recStack \cup {dep}) # {}
        BY <1>1, <2>1, <2>2
      <4> QED BY <1>1, <1>2, <1>4, <2>1, <2>4, <4>1 DEF Ready
    <3>3. Cardinality(Paths \ s.visited) <= depth
      <4>1. /\ IsFiniteSet(Paths \ search.visited) /\ node \in Paths \ search.visited
            /\ IsFiniteSet((Paths \ search.visited) \ {node})
        BY <1>1, SurroundingsAssumption, FS_Difference
      <4>2. Cardinality((Paths \ search.visited) \ {node}) = Cardinality(Paths \ search.visited) - 1
        BY <4>1, FS_RemoveElement
      <4>3. Paths \ s.visited \subseteq (Paths \ search.visited) \ {node}
        BY <1>2
      <4>4. /\ Cardinality(Paths \ s.visited) <= Cardinality((Paths \ search.visited) \ {node})
            /\ Cardinality(Paths \ s.visited) \in Nat
        BY <4>1, <4>3, FS_Subset, FS_CardinalityType
      <4>5. Cardinality(Paths \ search.visited) \in Nat
        BY <4>1, FS_CardinalityType
      <4> QED BY <4>2, <4>4, <4>5
    <3>4. Explores(s, dep, next)
      BY <3>1, <3>2, <3>3 DEF ExploresAll
    <3>5. /\ next \in RP!Searches /\ s.visited \cup {dep} \subseteq next.visited
          /\ next.cyclic => s.recStack \cup {dep} \subseteq next.recStack /\ Endless(next.recStack)
          /\ ~next.cyclic => Sound(next) /\ next.recStack = s.recStack
      BY <3>4 DEF Explores, Kept
    <3>6. ASSUME ~next.cyclic, NEW i \in 1..n PROVE dependencyGraph[node][i] \in Finished(next)
      <4>1. /\ Finished(s) \subseteq Finished(next) /\ next.recStack = s.recStack
            /\ s.recStack \subseteq s.visited
        BY <2>1, <3>5, <3>6 DEF Finished, Sound
      <4>2. dep \in Finished(next)
        BY <2>4, <3>5, <4>1 DEF Finished
      <4> QED BY <2>1, <2>3, <4>1, <4>2 DEF dep
    <3>7. Kept(search, node, next)
      BY <1>2, <2>1, <3>5 DEF Kept
    <3>8. ~next.cyclic => Sound(next) /\ next.recStack = search.recStack \cup {node}
      BY <2>1, <3>5
    <3> QED BY <3>6, <3>7, <3>8 DEF Between, next, dep
  <2>5. CASE dep \in s.visited
    <3>1. /\ next \in RP!Searches /\ next.visited = s.visited /\ next.recStack = s.recStack
          /\ next.cyclic <=> dep \in s.recStack
      BY <1>1, <1>2, <1>4, <2>5, LookIs
    <3> HIDE DEF next, dep
    <3>2. ASSUME next.cyclic PROVE Endless(next.recStack)
      <4>1. \A m \in s.recStack : Deps(m) \cap s.recStack # {}
        BY <1>1, <2>2, <3>1, <3>2
      <4>2. s.recStack \subseteq Paths
        BY <1>2, <2>1 DEF Sound
      <4> QED BY <3>1, <4>1, <4>2 DEF Endless
    <3>3. Kept(search, node, next)
      <4>1. search.visited \cup {node} \subseteq next.visited
        BY <1>2, <3>1
      <4>2. next.cyclic => search.recStack \cup {node} \subseteq next.recStack
        BY <2>1, <3>1
      <4> QED BY <3>1, <3>2, <4>1, <4>2 DEF Kept
    <3>4. Finished(next) = Finished(s) /\ (~next.cyclic => dep \in Finished(s))
      BY <2>5, <3>1 DEF Finished
    <3>5. Sound(next)
      BY <2>1, <3>1, <3>4 DEF Sound
    <3>6. ASSUME ~next.cyclic, NEW i \in 1..n PROVE dependencyGraph[node][i] \in Finished(next)
      BY <2>1, <2>3, <3>4, <3>6 DEF dep
    <3> QED BY <2>1, <3>1, <3>3, <3>5, <3>6 DEF Between, next, dep
  <2> QED BY <2>4, <2>5
<1> QED BY <1>3, <1>4

\* It leaves node, of which no dependency is on the stack.
LEMMA LeaveExplores ==
  ASSUME PlannerInv, NEW search, NEW node, Ready(search, node),
         NEW s, ~s.cyclic, Between(search, node, Len(dependencyGraph[node]), s)
  PROVE  Explores(search, node, [s EXCEPT !.recStack = @ \ {node}])
<1> DEFINE next == [s EXCEPT !.recStack = @ \ {node}]
<1>1. /\ node \in Paths /\ search.recStack \subseteq search.visited
      /\ node \notin search.visited
  BY DEF Ready, Sound
<1>2. /\ s \in RP!Searches /\ search.visited \cup {node} \subseteq s.visited
      /\ Sound(s) /\ s.recStack = search.recStack \cup {node}
      /\ \A i \in 1..Len(dependencyGraph[node]) : dependencyGraph[node][i] \in Finished(s)
  BY DEF Between, Kept
<1>3. /\ next \in RP!Searches /\ next.visited = s.visited
      /\ next.recStack = s.recStack \ {node} /\ ~next.cyclic
  BY <1>1, <1>2, LeaveIs
<1> HIDE DEF next
<1>4. next.recStack = search.recStack
  BY <1>1, <1>2, <1>3
<1>5. Finished(next) = Finished(s) \cup {node} /\ node \notin Finished(s)
  BY <1>1, <1>2, <1>3 DEF Finished
<1>6. Deps(node) \subseteq Finished(s)
  BY <1>1, <1>2, DepsAre
<1>7. \A n \in Finished(s) : Deps(n) \subseteq Finished(s)
  BY <1>2 DEF Sound
<1>8. ASSUME NEW T \in SUBSET Finished(next), Endless(T) PROVE T = {}
  <2>1. Endless(T \ {node}) /\ T \ {node} \in SUBSET Finished(s)
    <3>1. ASSUME NEW n \in T \ {node} PROVE Deps(n) \cap (T \ {node}) # {}
      <4>1. n \in Finished(s) /\ Deps(n) \cap T # {}
        BY <1>5, <1>8 DEF Endless
      <4> QED BY <1>5, <1>7, <4>1
    <3>2. T \ {node} \subseteq Paths
      BY <1>8 DEF Endless
    <3> QED BY <1>5, <3>1, <3>2 DEF Endless
  <2>2. T \ {node} = {}
    BY <1>2, <2>1 DEF Sound
  <2>3. node \notin T
    <3> SUFFICES ASSUME node \in T PROVE FALSE
      OBVIOUS
    <3>1. Deps(node) \cap T # {}
      BY <1>8 DEF Endless
    <3> QED BY <1>5, <1>6, <2>2, <3>1
  <2> QED BY <2>2, <2>3
<1>9. Sound(next)
  <2>1. next.recStack \subseteq next.visited
    BY <1>1, <1>2, <1>3
  <2>2. \A n \in Finished(next) : Deps(n) \subseteq Finished(next)
    BY <1>5, <1>6, <1>7
  <2> QED BY <1>8, <2>1, <2>2 DEF Sound
<1>10. Kept(search, node, next)
  BY <1>2, <1>3 DEF Kept
<1> QED BY <1>4, <1>9, <1>10 DEF Explores, next

\* The equations of the search along the dependencies of node, and what they keep.
LEMMA ExploredIs ==
  ASSUME PlannerInv, NEW dfs \in Calls, NEW search \in RP!Searches, NEW node \in Paths
  PROVE  /\ RP!Explored(dfs, search, node) \in RP!Searches
         /\ \A depth \in Nat : /\ ExploresAll(dfs, depth) /\ Ready(search, node)
                               /\ Cardinality(Paths \ search.visited) <= depth + 1
              => Explores(search, node, RP!Explored(dfs, search, node))
<1> DEFINE K == Len(dependencyGraph[node])
           X == RP!Searches
           first == RP!Enter(search, node)
           deps == dependencyGraph[node]
           step == [e \in X \X (1..K) |-> RP!Look(dfs, e[1], deps[e[2]])]
           Rounds(f) == f = [n \in 0..K |-> IF n = 0 THEN first ELSE RP!Look(dfs, f[n - 1], deps[n])]
           s == CHOOSE f : Rounds(f)
           left == [s[K] EXCEPT !.recStack = @ \ {node}]
<1>0. K \in Nat /\ first \in X /\ \A n \in 1..K : deps[n] \in Paths
  BY DepsAre, EnterIs
<1> HIDE DEF deps, first
<1>1. step \in [X \X (1..K) -> X]
  <2>1. \A e \in X \X (1..K) : e[1] \in X /\ deps[e[2]] \in Paths
    BY <1>0
  <2>2. \A e \in X \X (1..K) : RP!Look(dfs, e[1], deps[e[2]]) \in X
    BY <2>1, LookIs
  <2> HIDE DEF X
  <2> QED BY <2>2
<1> HIDE DEF X
<1>2. \A r \in X, n \in 1..K : step[<<r, n>>] = RP!Look(dfs, r, deps[n])
  OBVIOUS
<1> HIDE DEF step, K
<1>3. PICK f \in [0..K -> X] : Steps(f, first, step, K)
  BY <1>0, <1>1, StepsExist
<1>4. ASSUME NEW n \in 0..K, n # 0 PROVE n \in 1..K /\ n - 1 \in 0..K
  BY <1>0, <1>4
<1>5. Rounds(f)
  <2>1. ASSUME NEW n \in 0..K PROVE f[n] = IF n = 0 THEN first ELSE RP!Look(dfs, f[n - 1], deps[n])
    <3>1. CASE n = 0
      BY <1>3, <3>1 DEF Steps
    <3>2. CASE n # 0
      <4>1. n \in 1..K /\ f[n - 1] \in X
        BY <1>3, <1>4, <3>2
      <4>2. f[n] = step[<<f[n - 1], n>>]
        BY <1>3, <4>1 DEF Steps
      <4> QED BY <1>2, <3>2, <4>1, <4>2
    <3> QED BY <3>1, <3>2
  <2> QED BY <1>3, <2>1
<1>6. Rounds(s)
  BY <1>5
<1>7. RP!Explored(dfs, search, node) = IF s[K].cyclic THEN s[K] ELSE left
  BY DEF RP!Explored, K, deps, first
<1> HIDE DEF s
<1>8. s[0] = first /\ \A n \in 1..K : s[n] = RP!Look(dfs, s[n - 1], deps[n])
  <2>1. 0 \in 0..K /\ \A n \in 1..K : n \in 0..K /\ n # 0
    BY <1>0
  <2> QED BY <1>6, <2>1
<1>9. s[K] \in X
  <2> DEFINE H == {n \in 0..K : s[n] \in X}
  <2>1. 0 \in H
    BY <1>0, <1>8
  <2>2. ASSUME NEW n \in 1..K, n - 1 \in H PROVE n \in H
    <3>1. RP!Look(dfs, s[n - 1], deps[n]) \in X
      BY <1>0, <2>2, LookIs DEF X
    <3> QED BY <1>0, <1>8, <3>1
  <2>3. H \in SUBSET (0..K)
    OBVIOUS
  <2> HIDE DEF H
  <2>4. K \in H
    BY <1>0, <2>1, <2>2, <2>3, AlongSteps
  <2> QED BY <2>4 DEF H
<1>10. left \in X
  BY <1>9, LeaveIs DEF X
<1>11. ASSUME NEW depth \in Nat, ExploresAll(dfs, depth), Ready(search, node),
              Cardinality(Paths \ search.visited) <= depth + 1
       PROVE  Explores(search, node, IF s[K].cyclic THEN s[K] ELSE left)
  <2> DEFINE H == {n \in 0..K : Between(search, node, n, s[n])}
  <2>1. 0 \in H
    BY <1>0, <1>8, <1>11, EnterBetween DEF first
  <2>2. ASSUME NEW n \in 1..K, n - 1 \in H PROVE n \in H
    <3>1. Between(search, node, n, RP!Look(dfs, s[n - 1], deps[n]))
      BY <1>11, <2>2, LookBetween DEF K, deps
    <3> QED BY <1>0, <1>8, <3>1
  <2>3. H \in SUBSET (0..K)
    OBVIOUS
  <2> HIDE DEF H
  <2>4. K \in H
    BY <1>0, <2>1, <2>2, <2>3, AlongSteps
  <2>5. Between(search, node, K, s[K])
    BY <2>4 DEF H
  <2>6. CASE s[K].cyclic
    BY <2>5, <2>6 DEF Between, Explores
  <2>7. CASE ~s[K].cyclic
    <3>1. Explores(search, node, left)
      BY <1>11, <2>5, <2>7, LeaveExplores DEF K
    <3> HIDE DEF left
    <3> QED BY <2>7, <3>1
  <2> QED BY <2>6, <2>7
<1> HIDE DEF left
<1>12. RP!Explored(dfs, search, node) \in X
  BY <1>7, <1>9, <1>10
<1> QED BY <1>7, <1>11, <1>12 DEF X

\* dfs, as deep as it can go.
LEMMA DfsIs ==
  ASSUME PlannerInv
  PROVE  Cardinality(Paths) \in Nat /\ ExploresAll(RP!Dfs, Cardinality(Paths))
<1> DEFINE K == Cardinality(Paths)
           D == RP!Searches \X Paths
           first == [e \in D |-> e[1]]
           deeper(g) == [e \in D |-> RP!Explored(g, e[1], e[2])]
           step == [e \in Calls \X (1..K) |-> deeper(e[1])]
           Rounds(f) == f = [n \in 0..K |-> [e \in D |-> IF n = 0 THEN e[1]
                                                         ELSE RP!Explored(f[n - 1], e[1], e[2])]]
           s == CHOOSE f : Rounds(f)
<1>0. K \in Nat
  BY SurroundingsAssumption, FS_CardinalityType
<1>a. first \in Calls
  <2>1. \A e \in D : e[1] \in RP!Searches
    OBVIOUS
  <2> QED BY <2>1 DEF Calls
<1>b. ASSUME NEW g \in Calls PROVE deeper(g) \in Calls
  <2>1. \A e \in D : e[1] \in RP!Searches /\ e[2] \in Paths
    OBVIOUS
  <2>2. \A e \in D : RP!Explored(g, e[1], e[2]) \in RP!Searches
    BY <2>1, ExploredIs
  <2> QED BY <2>2 DEF Calls
<1> HIDE DEF first, deeper
<1>1. step \in [Calls \X (1..K) -> Calls]
  <2>1. \A e \in Calls \X (1..K) : e[1] \in Calls
    OBVIOUS
  <2> QED BY <1>b, <2>1
<1>2. \A g \in Calls, n \in 1..K : step[<<g, n>>] = deeper(g)
  OBVIOUS
<1> HIDE DEF step, K
<1>3. PICK f \in [0..K -> Calls] : Steps(f, first, step, K)
  BY <1>0, <1>a, <1>1, StepsExist
<1>4. ASSUME NEW n \in 0..K, n # 0 PROVE n \in 1..K /\ n - 1 \in 0..K
  BY <1>0, <1>4
<1>5. Rounds(f)
  <2>1. ASSUME NEW n \in 0..K
        PROVE  f[n] = [e \in D |-> IF n = 0 THEN e[1] ELSE RP!Explored(f[n - 1], e[1], e[2])]
    <3>1. CASE n = 0
      BY <1>3, <3>1 DEF Steps, first
    <3>2. CASE n # 0
      <4>1. n \in 1..K /\ f[n - 1] \in Calls
        BY <1>3, <1>4, <3>2
      <4>2. f[n] = step[<<f[n - 1], n>>]
        BY <1>3, <4>1 DEF Steps
      <4>3. f[n] = deeper(f[n - 1])
        BY <1>2, <4>1, <4>2
      <4> QED BY <3>2, <4>3 DEF deeper
    <3> QED BY <3>1, <3>2
  <2> QED BY <1>3, <2>1
<1>6. Rounds(s)
  BY <1>5
<1>7. RP!Dfs = s[K]
  BY SameCardinality DEF RP!Dfs, K
<1> HIDE DEF s
<1>8. s[0] = first /\ \A n \in 1..K : s[n] = deeper(s[n - 1])
  <2>1. 0 \in 0..K /\ \A n \in 1..K : n \in 0..K /\ n # 0
    BY <1>0
  <2>2. \A n \in 0..K : s[n] = [e \in D |-> IF n = 0 THEN e[1]
                                            ELSE RP!Explored(s[n - 1], e[1], e[2])]
    BY <1>6
  <2>3. s[0] = first
    BY <2>1, <2>2 DEF first
  <2>4. ASSUME NEW n \in 1..K PROVE s[n] = deeper(s[n - 1])
    <3>1. s[n] = [e \in D |-> IF n = 0 THEN e[1] ELSE RP!Explored(s[n - 1], e[1], e[2])]
      BY <2>1, <2>2
    <3> QED BY <2>1, <3>1 DEF deeper
  <2> QED BY <2>3, <2>4
<1> DEFINE H == {n \in 0..K : ExploresAll(s[n], n)}
<1>9. 0 \in H
  <2>1. ASSUME NEW search, NEW node, Ready(search, node),
               Cardinality(Paths \ search.visited) <= 0
        PROVE  FALSE
    <3>1. IsFiniteSet(Paths \ search.visited) /\ node \in Paths \ search.visited
      BY <2>1, SurroundingsAssumption, FS_Difference DEF Ready
    <3>2. Cardinality(Paths \ search.visited) = 0
      BY <2>1, <3>1, FS_CardinalityType
    <3> QED BY <3>1, <3>2, FS_EmptySet
  <2>2. 0 \in 0..K
    BY <1>0
  <2> QED BY <1>a, <1>8, <2>1, <2>2 DEF ExploresAll
<1>10. ASSUME NEW n \in 1..K, n - 1 \in H PROVE n \in H
  <2>a. n - 1 \in Nat /\ (n - 1) + 1 = n /\ n \in 0..K
    BY <1>0
  <2>b. ExploresAll(s[n - 1], n - 1) /\ s[n - 1] \in Calls
    BY <1>10 DEF ExploresAll
  <2>1. /\ ExploresAll(s[n - 1], n - 1) /\ n - 1 \in Nat /\ (n - 1) + 1 = n /\ n \in 0..K
        /\ s[n] = deeper(s[n - 1]) /\ s[n - 1] \in Calls
    BY <1>8, <2>a, <2>b
  <2>2. ASSUME NEW search, NEW node, Ready(search, node),
               Cardinality(Paths \ search.visited) <= n
        PROVE  Explores(search, node, s[n][<<search, node>>])
    <3>1. search \in RP!Searches /\ node \in Paths
      BY <2>2 DEF Ready
    <3>2. s[n][<<search, node>>] = RP!Explored(s[n - 1], search, node)
      BY <2>1, <3>1 DEF deeper
    <3> QED BY <2>1, <2>2, <3>1, <3>2, ExploredIs
  <2>3. s[n] \in Calls
    BY <1>b, <2>1
  <2> QED BY <2>1, <2>2, <2>3 DEF ExploresAll
<1>11. K \in H
  <2> HIDE DEF H
  <2>1. H \in SUBSET (0..K)
    BY DEF H
  <2> QED BY <1>0, <1>9, <1>10, <2>1, AlongSteps
<1> QED BY <1>0, <1>7, <1>11 DEF K

\* Between two calls of dfs nothing is on the stack; the first n types have been visited.
Walked(order, n, search) ==
  /\ search \in RP!Searches
  /\ search.cyclic => Endless(search.recStack) /\ search.recStack \cap resolvers # {}
  /\ ~search.cyclic => /\ Sound(search) /\ search.recStack = {}
                       /\ \A i \in 1..n : order[i] \in search.visited

LEMMA WalkBegins ==
  ASSUME NEW order, NEW search, search = [visited |-> {}, recStack |-> {}, cyclic |-> FALSE]
  PROVE  Walked(order, 0, search)
<1>1. /\ search \in RP!Searches /\ search.visited = {} /\ search.recStack = {}
      /\ ~search.cyclic
  BY DEF RP!Searches
<1>2. 1..0 = {}
  OBVIOUS
<1>3. Sound(search)
  BY <1>1 DEF Sound, Finished
<1> QED BY <1>1, <1>2, <1>3 DEF Walked

\* One more type.
LEMMA WalkGoesOn ==
  ASSUME PlannerInv, NEW order \in Seq(resolvers), NEW n \in 1..Len(order), NEW search,
         Walked(order, n - 1, search)
  PROVE  Walked(order, n, IF search.cyclic \/ order[n] \in search.visited THEN search
                          ELSE RP!Dfs[<<search, order[n]>>])
<1>1. order[n] \in resolvers /\ order[n] \in Paths /\ search \in RP!Searches
  BY PlannerFacts DEF Walked
<1>2. \A i \in 1..n : i \in 1..(n - 1) \/ i = n
  OBVIOUS
<1>3. CASE search.cyclic
  BY <1>3 DEF Walked
<1>4. CASE ~search.cyclic /\ order[n] \in search.visited
  BY <1>2, <1>4 DEF Walked
<1>5. CASE ~search.cyclic /\ order[n] \notin search.visited
  <2> DEFINE next == RP!Dfs[<<search, order[n]>>]
  <2>1. Sound(search) /\ search.recStack = {} /\ \A i \in 1..(n - 1) : order[i] \in search.visited
    BY <1>5 DEF Walked
  <2>2. Ready(search, order[n])
    BY <1>1, <1>5, <2>1 DEF Ready
  <2>3. Cardinality(Paths \ search.visited) <= Cardinality(Paths)
    BY SurroundingsAssumption, FS_Subset
  <2>4. Explores(search, order[n], next)
    BY <2>2, <2>3, DfsIs DEF ExploresAll
  <2> HIDE DEF next
  <2>5. /\ next \in RP!Searches
        /\ search.visited \cup {order[n]} \subseteq next.visited
        /\ next.cyclic => {order[n]} \subseteq next.recStack /\ Endless(next.recStack)
        /\ ~next.cyclic => Sound(next) /\ next.recStack = {}
    BY <2>1, <2>4 DEF Explores, Kept
  <2>6. next.recStack \cap resolvers # {} \/ ~next.cyclic
    BY <1>1, <2>5
  <2>7. \A i \in 1..n : order[i] \in next.visited
    BY <1>2, <2>1, <2>5
  <2>8. Walked(order, n, next)
    BY <2>5, <2>6, <2>7 DEF Walked
  <2> QED BY <1>5, <2>8 DEF next
<1> QED BY <1>3, <1>4, <1>5

LEMMA WalkIs ==
  ASSUME PlannerInv, NEW order \in Seq(resolvers)
  PROVE  \E last : Walked(order, Len(order), last) /\ RP!HasCyclicDependency(order) = last.cyclic
<1> DEFINE K == Len(order)
           X == RP!Searches
           first == [visited |-> {}, recStack |-> {}, cyclic |-> FALSE]
           next(search, n) == IF search.cyclic \/ order[n] \in search.visited THEN search
                              ELSE RP!Dfs[<<search, order[n]>>]
           step == [e \in X \X (1..K) |-> next(e[1], e[2])]
           Rounds(f) == f = [n \in 0..K |-> IF n = 0 THEN first ELSE next(f[n - 1], n)]
           s == CHOOSE f : Rounds(f)
<1>0. K \in Nat /\ first \in X
  BY DEF RP!Searches
<1>1. step \in [X \X (1..K) -> X]
  <2>1. ASSUME NEW search \in X, NEW n \in 1..K PROVE next(search, n) \in X
    <3>1. order[n] \in Paths
      BY PlannerFacts
    <3>2. RP!Dfs[<<search, order[n]>>] \in X
      BY <3>1, DfsIs DEF ExploresAll, Calls
    <3> QED BY <3>2
  <2>2. \A e \in X \X (1..K) : e[1] \in X /\ e[2] \in 1..K
    OBVIOUS
  <2> HIDE DEF X, next
  <2> QED BY <2>1, <2>2
<1> HIDE DEF X, next
<1>2. \A search \in X, n \in 1..K : step[<<search, n>>] = next(search, n)
  OBVIOUS
<1> HIDE DEF step, K, first
<1>3. PICK f \in [0..K -> X] : Steps(f, first, step, K)
  BY <1>0, <1>1, StepsExist
<1>4. ASSUME NEW n \in 0..K, n # 0 PROVE n \in 1..K /\ n - 1 \in 0..K
  BY <1>0, <1>4
<1>5. Rounds(f)
  <2>1. ASSUME NEW n \in 0..K PROVE f[n] = IF n = 0 THEN first ELSE next(f[n - 1], n)
    <3>1. CASE n = 0
      BY <1>3, <3>1 DEF Steps
    <3>2. CASE n # 0
      <4>1. n \in 1..K /\ f[n - 1] \in X
        BY <1>3, <1>4, <3>2
      <4>2. f[n] = step[<<f[n - 1], n>>]
        BY <1>3, <4>1 DEF Steps
      <4> QED BY <1>2, <3>2, <4>1, <4>2
    <3> QED BY <3>1, <3>2
  <2> QED BY <1>3, <2>1
<1>6. Rounds(s)
  BY <1>5
<1>7. RP!HasCyclicDependency(order) = s[K].cyclic
  BY DEF RP!HasCyclicDependency, K, next, first
<1> HIDE DEF s
<1>8. s[0] = first /\ \A n \in 1..K : s[n] = next(s[n - 1], n)
  <2>1. 0 \in 0..K /\ \A n \in 1..K : n \in 0..K /\ n # 0
    BY <1>0
  <2> QED BY <1>6, <2>1
<1> DEFINE H == {n \in 0..K : Walked(order, n, s[n])}
<1>9. 0 \in H
  BY <1>0, <1>8, WalkBegins DEF first
<1>10. ASSUME NEW n \in 1..K, n - 1 \in H PROVE n \in H
  <2>1. Walked(order, n, next(s[n - 1], n))
    BY <1>10, WalkGoesOn DEF next, K
  <2> QED BY <1>0, <1>8, <2>1
<1>11. K \in H
  <2> HIDE DEF H
  <2>1. H \in SUBSET (0..K)
    BY DEF H
  <2> QED BY <1>0, <1>9, <1>10, <2>1, AlongSteps
<1> QED BY <1>7, <1>11 DEF K

LEMMA CyclesAreFound == PlannerInv => RP!CyclesFound
<1> SUFFICES ASSUME PlannerInv, NEW order \in RP!Walks
             PROVE  RP!HasCyclicDependency(order) <=>
                      \E T \in {U \in SUBSET Paths :
                                  \A n \in U : RP!Members(dependencyGraph[n]) \cap U # {}} :
                        T \cap resolvers # {}
  BY DEF RP!CyclesFound
<1>1. /\ order \in Seq(resolvers) /\ Len(order) = Cardinality(resolvers)
      /\ \A type \in resolvers : \E i \in 1..Len(order) : order[i] = type
  <2>1. Cardinality(resolvers) \in Nat
    BY PlannerFacts, SurroundingsAssumption, FS_Subset, FS_CardinalityType
  <2>2. /\ order \in [1..Cardinality(resolvers) -> resolvers]
        /\ \A type \in resolvers : \E i \in 1..Cardinality(resolvers) : order[i] = type
    BY SameCardinality DEF RP!Walks
  <2> QED BY <2>1, <2>2
<1>2. PICK last : /\ Walked(order, Len(order), last)
                  /\ RP!HasCyclicDependency(order) = last.cyclic
  BY <1>1, WalkIs
<1>3. \A T : Endless(T) <=>
        T \in {U \in SUBSET Paths : \A n \in U : RP!Members(dependencyGraph[n]) \cap U # {}}
  BY DEF Endless, Deps
<1>4. ASSUME last.cyclic PROVE \E T : Endless(T) /\ T \cap resolvers # {}
  BY <1>2, <1>4 DEF Walked
<1>5. ASSUME ~last.cyclic, NEW T, Endless(T), T \cap resolvers # {} PROVE FALSE
  <2>1. Sound(last) /\ last.recStack = {} /\ resolvers \subseteq last.visited
    BY <1>1, <1>2, <1>5 DEF Walked
  <2>2. Finished(last) = last.visited
    BY <2>1 DEF Finished
  <2>3. Endless(T \cap last.visited)
    <3>1. ASSUME NEW n \in T \cap last.visited PROVE Deps(n) \cap (T \cap last.visited) # {}
      <4>1. Deps(n) \cap T # {} /\ Deps(n) \subseteq last.visited
        BY <1>5, <2>1, <2>2 DEF Endless, Sound
      <4> QED BY <4>1
    <3>2. T \cap last.visited \subseteq Paths
      BY <1>5 DEF Endless
    <3> QED BY <3>1, <3>2 DEF Endless
  <2>4. T \cap last.visited = {}
    BY <2>1, <2>2, <2>3 DEF Sound
  <2> QED BY <1>5, <2>1, <2>4
<1>6. RP!HasCyclicDependency(order) <=> last.cyclic
  BY <1>2, Zenon
<1>7. last.cyclic <=> \E T : Endless(T) /\ T \cap resolvers # {}
  BY <1>4, <1>5
<1> QED BY <1>3, <1>6, <1>7, Zenon

LEMMA PlannerHolds == SurroundingsSpec => []PlannerInv
<1>1. SurroundingsInit => PlannerInv
  BY PlannerInit DEF SurroundingsInit
<1>2. PlannerInv /\ [SurroundingsNext /\ UNCHANGED part]_<<part, surroundings>> => PlannerInv'
  BY StepsOfParts, PlannerNext
<1> QED BY <1>1, <1>2, PTL DEF SurroundingsSpec

\* planner.go:43-191,218-255: whatever is registered meanwhile, plans cover the missing paths
\* and their direct dependencies in the order of the identifiers, the alternatives are tried
\* in turn, and a cycle is found if and only if a type with a resolver leads to it.
THEOREM PlannerExactCorrect == SurroundingsSpec => []PlannerExact
<1>1. PlannerInv => PlannerExact
  BY PlansCovered, AlternativesAreTried, CyclesAreFound DEF PlannerExact, RP!PlannerExact
<1> QED BY <1>1, PlannerHolds, PTL
=============================================================================

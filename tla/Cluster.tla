------------------------------- MODULE Cluster -------------------------------
(***************************************************************************)
(* distributed/cluster.go: nodes, which of them leads, and which goals     *)
(* each of them keeps.  AddNode makes a node without a Goals map; a write  *)
(* to such a map panics, and so does an index below zero or a remainder    *)
(* by zero.  Go walks the nodes in any order, so a hash may lead to any    *)
(* node of the cluster at each call.                                       *)
(***************************************************************************)
EXTENDS Integers, FiniteSets

CONSTANTS
  Nodes,       \* identifiers of nodes
  Local,       \* localNode.ID
  Goals,       \* goals
  HashNegative \* the goals whose hash, as an int, is below zero

VARIABLES
  members,     \* the keys of c.nodes
  leaderID,
  isLeader,    \* the nodes whose IsLeader is set, also of nodes that left
  hasMap,      \* the nodes whose Goals is not nil
  holds,       \* holds[n]: the goals in n.Goals
  placing,     \* placing[g]: where a DistributeGoal of g under way was routed to
  replicating, \* replicating[g]: the nodes a ReplicateGoal of g under way has yet to write to
  panicked,
  exposed      \* history: what can have led to a panic

vars == <<members, leaderID, isLeader, hasMap, holds, placing, replicating, panicked, exposed>>

Nowhere == "nowhere"

Init ==
  /\ members = {Local}
  /\ leaderID = Local
  /\ isLeader = {Local}
  /\ hasMap = {Local}
  /\ holds = [n \in Nodes |-> {}]
  /\ placing = [g \in Goals |-> Nowhere]
  /\ replicating = [g \in Goals |-> {}]
  /\ panicked = FALSE
  /\ exposed = {}

-----------------------------------------------------------------------------

\* ReplicateGoal holds c.mu for reading until it returns: no writer comes in between.
Writable == \A g \in Goals : replicating[g] = {}

\* The connection is made later.  A node may come back under its name.
AddNode(id) ==
  /\ Writable /\ id \notin members
  /\ members' = members \cup {id}
  /\ isLeader' = isLeader \ {id}
  /\ hasMap' = hasMap \ {id}
  /\ holds' = [holds EXCEPT ![id] = {}]
  /\ exposed' = exposed \cup {"peer"}
  /\ UNCHANGED <<leaderID, placing, replicating, panicked>>

RemoveNode(id) ==
  /\ Writable /\ id # Local /\ id \in members
  /\ members' = members \ {id}
  /\ UNCHANGED <<leaderID, isLeader, hasMap, holds, placing, replicating, panicked, exposed>>

\* The members with the most goals, if any has one; the order decides among them.
Fullest ==
  {n \in members : holds[n] # {} /\ \A m \in members : Cardinality(holds[m]) <= Cardinality(holds[n])}

ElectLeader ==
  /\ Writable
  /\ IF Fullest = {} THEN UNCHANGED <<leaderID, isLeader>>
     ELSE \E n \in Fullest :
            /\ leaderID' = n
            /\ isLeader' = IF n = leaderID THEN isLeader ELSE (isLeader \ members) \cup {n}
  /\ UNCHANGED <<members, hasMap, holds, placing, replicating, panicked, exposed>>

-----------------------------------------------------------------------------
(* Routing. *)

\* c.nodes[c.leaderID], nil if the leader is no member.
GetLeader == IF leaderID \in members THEN leaderID ELSE Nowhere

\* Mutant: a negative hash misses however many nodes there are.
MayMissAlone(g) == g \in HashNegative

\* A remainder below zero matches no node, and the leader is taken.
MayMiss(g) == g \in HashNegative /\ Cardinality(members) > 1
RoutedByHash(g) == IF MayMiss(g) THEN members \cup {GetLeader} ELSE members

\* By type or priority: a goal the local node does not hold stays with it.  The type is the
\* same for all goals; its hash and the priority may have any sign.
RoutedByGoal(g) == IF g \in holds[Local] THEN members \cup {GetLeader} ELSE {Local}

\* DistributeGoal: routed under c.mu, placed under the node's lock.
Route(g) ==
  /\ placing[g] = Nowhere /\ members # {}
  /\ \E n \in RoutedByHash(g) :
       IF n = Nowhere
       THEN panicked' = TRUE /\ UNCHANGED placing
       ELSE placing' = [placing EXCEPT ![g] = n] /\ UNCHANGED panicked
  /\ UNCHANGED <<members, leaderID, isLeader, hasMap, holds, replicating, exposed>>

\* n.Goals[g] = goal, under the lock of n.
Put(g, n) ==
  IF n \in hasMap
  THEN holds' = [holds EXCEPT ![n] = @ \cup {g}] /\ UNCHANGED panicked
  ELSE panicked' = TRUE /\ UNCHANGED holds

Place(g) ==
  /\ placing[g] # Nowhere
  /\ Put(g, placing[g])
  /\ placing' = [placing EXCEPT ![g] = Nowhere]
  /\ UNCHANGED <<members, leaderID, isLeader, hasMap, replicating, exposed>>

\* The goals under way to the local node.
Arriving == {g \in Goals : placing[g] = Local \/ Local \in replicating[g]}

\* RouteGoal by type or priority reads the local Goals under c.mu alone, which a placing or
\* a replication writes at the same time under the node's lock: Go may end the process, or
\* not notice.
RouteByGoal(g) ==
  /\ members # {}
  /\ exposed' = IF Arriving # {} THEN exposed \cup {"race"} ELSE exposed
  /\ panicked' \in IF Arriving # {} THEN BOOLEAN ELSE {FALSE}
  /\ UNCHANGED <<members, leaderID, isLeader, hasMap, holds, placing, replicating>>

\* ReplicateGoal: `factor` nodes in a row from the hashed one on.  Without nodes the
\* remainder, with a remainder below zero the index panics.
ReplicateGoal(g, factor) ==
  /\ replicating[g] = {}
  /\ \/ /\ members = {} \/ MayMiss(g)
        /\ panicked' = TRUE /\ UNCHANGED replicating
     \/ \E ns \in SUBSET members :
          /\ \/ Cardinality(ns) = factor
             \/ Cardinality(ns) < factor /\ ns = members
          /\ members # {}
          /\ replicating' = [replicating EXCEPT ![g] = ns]
          /\ UNCHANGED panicked
  /\ UNCHANGED <<members, leaderID, isLeader, hasMap, holds, placing, exposed>>

\* Its loop: the next node.
Replicate(g, n) ==
  /\ n \in replicating[g]
  /\ Put(g, n)
  /\ replicating' = [replicating EXCEPT ![g] = @ \ {n}]
  /\ UNCHANGED <<members, leaderID, isLeader, hasMap, placing, exposed>>

Shutdown ==
  /\ Writable
  /\ members' = {}
  /\ exposed' = exposed \cup {"shutdown"}
  /\ UNCHANGED <<leaderID, isLeader, hasMap, holds, placing, replicating, panicked>>

Next ==
  /\ ~panicked
  /\ \/ \E id \in Nodes \ {Local} : AddNode(id)  \* a peer has a name of its own
     \/ \E id \in Nodes : RemoveNode(id)
     \/ ElectLeader
     \/ \E g \in Goals :
          \/ Route(g) \/ Place(g) \/ RouteByGoal(g)
          \/ \E factor \in 1..2 : ReplicateGoal(g, factor)
          \/ \E n \in Nodes : Replicate(g, n)
     \/ Shutdown

Spec == Init /\ [][Next]_vars
-----------------------------------------------------------------------------
(* Properties. *)

TypeOK ==
  /\ members \subseteq Nodes /\ leaderID \in Nodes
  /\ isLeader \subseteq Nodes /\ hasMap \subseteq Nodes
  /\ holds \in [Nodes -> SUBSET Goals]
  /\ placing \in [Goals -> Nodes \cup {Nowhere}]
  /\ replicating \in [Goals -> SUBSET Nodes]
  /\ panicked \in BOOLEAN /\ exposed \subseteq {"peer", "race", "shutdown"}

\* cluster.go:183-188,192,233,255: a cluster of the local node alone, which is all the
\* program builds, places and replicates goals of any hash without a panic until it is
\* shut down, unless a routing by type or priority meets a placing or a replication.
PanicExplained == panicked => exposed # {}
=============================================================================

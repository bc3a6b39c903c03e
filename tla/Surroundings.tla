---------------------------- MODULE Surroundings ----------------------------
(***************************************************************************)
(* What stands around the kernel and shares nothing with each other: the   *)
(* dependency graph, the scheduler, the cluster, the server process, the   *)
(* objects and snapshots of the persistent store, the runtime planner, and *)
(* the GDL project at the prompt.  Each behaviour is of one of them; the   *)
(* others stay as they were made, and the process is over then.  The       *)
(* scheduler has two parts: its queue under one loop that is started and   *)
(* stopped, and its loops over an empty queue.                             *)
(***************************************************************************)
EXTENDS DependencyGraph, Sequences

CONSTANTS
  QueueGoals, QueueEvents, QueueTimers, Callers, MaxTime, MaxQueue, MaxRuns, \* of Scheduler
  Nodes, Local, Goals, HashNegative,                                         \* of Cluster
  HTTPStreams, GRPCStreams, MaxID,                                           \* of Servers
  ObjectIDs, Fields, Values, Absent, MaxEvents,                              \* of PersistentObjects
  States, MaxSaves,                                                          \* of SnapshotStore
  Paths, Rank, DependencyLists, MissingLists,                                \* of RuntimePlanner
    MaxAlternatives, MaxFailures, MaxMeanwhile,
  Projects, Names, Types, Builtin, Plugin, MaxLoads                          \* of Workspace

VARIABLES part,
  strict, now, clock, items, queue, running, stopCh, closed, loops, caller,
  twinned, overlapped, panicked,
  members, leaderID, isLeader, hasMap, holds, placing, replicating, crashed, exposed,
  phase, grpc, http, told, ids, nextID, streams,
  data, folds, declared, objects, whole, index, unwritten, writing, applied, held, unsaved, damaged,
  snapshots, files, nextSave, touched,
  resolvers, dependencyGraph, alternatives, resolving, asked, reached, owed, met, planned,
  ready, registered, relinked, fatal,
  disk, goals, bodies, handler, todo, alive, loaded, loads, again, rewound

S == INSTANCE Scheduler WITH Goals <- QueueGoals, Events <- QueueEvents, Timers <- QueueTimers
C == INSTANCE Cluster WITH panicked <- crashed
P == INSTANCE Servers WITH closed <- told
O == INSTANCE PersistentObjects WITH IDs <- ObjectIDs, todo <- unwritten
F == INSTANCE SnapshotStore WITH nextID <- nextSave
RP == INSTANCE RuntimePlanner WITH
        Names <- Paths, Dependencies <- DependencyLists, Missing <- MissingLists,
        missing <- asked, at <- reached, deps <- owed, visited <- met, plan <- planned
W == INSTANCE Workspace WITH running <- alive

ASSUME SurroundingsAssumption ==
  /\ Local \in Nodes /\ Local # C!Nowhere
  /\ HTTPStreams \cap GRPCStreams = {}
  /\ Absent \notin ObjectIDs \cup Values
  /\ F!Garbage \notin States /\ MaxSaves \in Nat
  /\ QueueGoals \subseteq [id : Int, priority : Int, deadline : Nat, timeout : Nat]
  /\ QueueEvents \subseteq [id : Int, clock : Int] /\ QueueTimers \subseteq [id : Int, at : Int]
  /\ Paths \subseteq Nat /\ IsFiniteSet(Paths)
  /\ Rank \in [Paths -> Int] /\ \A a, b \in Paths : Rank[a] = Rank[b] => a = b
  /\ DependencyLists \subseteq Seq(Paths) /\ MissingLists \subseteq Seq(Paths)
  /\ MaxAlternatives \in Nat /\ MaxMeanwhile \in Nat
  /\ Projects \subseteq W!Trees /\ MaxLoads \in Nat
  /\ \A p \in Projects : \A i \in DOMAIN W!FilesRead(p) : \A j \in DOMAIN W!FilesRead(p)[i] :
       W!FilesRead(p)[i][j].kw = "goal" => W!FilesRead(p)[i][j].name \in Names

schedulerVars == <<strict, now, clock, items, queue, running, stopCh, closed, loops,
                   caller, twinned, overlapped, panicked>>
clusterVars   == <<members, leaderID, isLeader, hasMap, holds, placing, replicating, crashed, exposed>>
processVars   == <<phase, grpc, http, told, ids, nextID, streams>>
objectVars    == <<data, folds, declared, objects, whole, index, unwritten, writing, applied,
                   held, unsaved, damaged>>
snapshotVars  == <<snapshots, files, nextSave, touched>>
plannerVars   == <<resolvers, dependencyGraph, alternatives, resolving, asked, reached, owed,
                   met, planned, ready, registered, relinked, fatal>>
workspaceVars == <<disk, goals, bodies, handler, todo, alive, loaded, loads, again, rewound>>

surroundings == <<vars, schedulerVars, clusterVars, processVars, objectVars, snapshotVars,
                  plannerVars, workspaceVars>>

\* The process of a part that is not "process" has ended.
ProcessOver ==
  /\ phase = "ended" /\ grpc = "nil" /\ http = "nil" /\ told = FALSE
  /\ ids = << >> /\ nextID = 1 /\ streams = [s \in P!Streams |-> P!Idle]

SurroundingsInit ==
  /\ Init /\ S!Init /\ C!Init /\ O!Init /\ F!Init /\ RP!Init /\ W!Init
  /\ strict => part \in {"queue", "loops"}
  /\ IF part = "process" THEN P!Init ELSE ProcessOver

\* Bounds of the scheduler's parts.
OneCaller == CHOOSE c \in Callers : TRUE
OneLoopOnce ==
  /\ Len(loops') <= 1
  /\ \A c \in Callers \ {OneCaller} : caller'[c] = "idle"
NothingQueued == now' = now /\ clock' = clock /\ queue' = queue

SurroundingsNext ==
  \/ /\ part = "graph" /\ Next
     /\ UNCHANGED <<schedulerVars, clusterVars, processVars, objectVars, snapshotVars,
                    plannerVars, workspaceVars>>
  \/ /\ part = "queue" /\ S!Next /\ OneLoopOnce
     /\ UNCHANGED <<vars, clusterVars, processVars, objectVars, snapshotVars,
                    plannerVars, workspaceVars>>
  \/ /\ part = "loops" /\ S!Next /\ NothingQueued
     /\ UNCHANGED <<vars, clusterVars, processVars, objectVars, snapshotVars,
                    plannerVars, workspaceVars>>
  \/ /\ part = "cluster" /\ C!Next
     /\ UNCHANGED <<vars, schedulerVars, processVars, objectVars, snapshotVars,
                    plannerVars, workspaceVars>>
  \/ /\ part = "process" /\ P!Next
     /\ UNCHANGED <<vars, schedulerVars, clusterVars, objectVars, snapshotVars,
                    plannerVars, workspaceVars>>
  \/ /\ part = "objects" /\ O!Next
     /\ UNCHANGED <<vars, schedulerVars, clusterVars, processVars, snapshotVars,
                    plannerVars, workspaceVars>>
  \/ /\ part = "snapshots" /\ F!Next
     /\ UNCHANGED <<vars, schedulerVars, clusterVars, processVars, objectVars,
                    plannerVars, workspaceVars>>
  \/ /\ part = "planner" /\ RP!Next
     /\ UNCHANGED <<vars, schedulerVars, clusterVars, processVars, objectVars, snapshotVars,
                    workspaceVars>>
  \/ /\ part = "workspace" /\ W!Next
     /\ UNCHANGED <<vars, schedulerVars, clusterVars, processVars, objectVars, snapshotVars,
                    plannerVars>>

SurroundingsSpec ==
  /\ SurroundingsInit /\ [][SurroundingsNext /\ UNCHANGED part]_<<part, surroundings>>
  /\ P!Fairness

-----------------------------------------------------------------------------
SurroundingsTypeOK ==
  TypeOK /\ S!TypeOK /\ C!TypeOK /\ P!TypeOK /\ O!TypeOK /\ F!TypeOK
  /\ RP!TypeOK /\ W!TypeOK

QueueSound         == S!QueueSound
OneLoop            == S!OneLoop
TickTakesWhatIsDue == S!TickTakesWhatIsDue
PanicExplained     == C!PanicExplained
StreamsMissNothing == P!StreamsMissNothing
DeathExplained     == P!DeathExplained
ShutdownEnds       == P!ShutdownEnds
QueriesFindTheirObjects == O!QueriesFindTheirObjects
ObjectsFollowState      == O!ObjectsFollowState
SnapshotsMatchFiles     == F!SnapshotsMatchFiles
PlannerExact   == RP!PlannerExact
ClausesKept    == W!ClausesKept
LoadsWhole     == W!LoadsWhole
HandlersFollow == W!HandlersFollow
=============================================================================

# UGEM goal runtime: specification and proofs

TLA+ modules for UGEM (Go): what its components keep, which steps change it, how
the steps of several goroutines interleave, and what holds anyway. TLC checks small
instances; TLAPS proves, for every value of the constants, almost every safety property
those runs check (section 5 says which are left). `PROJECT.json` maps each definition to
the lines it stands for and lists runs, mutants, hazards, findings and theorems.

## 1. The system and what is modelled

UGEM runs *goals*: a goal has a trigger path, a condition over the state, and
children to spawn once the condition holds. Clients submit events and goals; the
kernel logs an event, folds it into the state and lets the goal engine react; an
execution loop completes satisfied goals and starts plans for the others. Goals are
written in GDL, loaded from a project directory; a process is a server (HTTP, gRPC)
or a prompt.

```
 GDL project --load--> prompt          HTTP / gRPC
                         |                  | SubmitEvent, SubmitGoal (r.mu), streams of the log
                         v                  v         CancelGoal (no runtime lock)
   kernel ---Append---> event log ---Append---> WAL --+
      |---ApplyEvent--> state manager --SetObject--> objects, indexes
      |---HandleEvent-> goal engine                   |
      |---Publish-----> event bus                     |
   execution loop: list, Evaluate, CompleteGoal, SpawnChildren, or plan
      `--goroutine per plan--> planner, dispatcher, SubmitEvent of the result
```

| Component | State | Operations | Hard part | What makes it correct | Module |
|---|---|---|---|---|---|
| Goal engine (`runtime/goal_engine.go`, `state_tracker.go`) | goals map, slices activeGoals and pendingGoals, dependencies | Add, Remove, Spawn, Activate, Complete, Fail, Cancel, Evaluate, HandleEvent | two slices kept by hand, names overwritten by spawns, the compensation walk | the slices list what the states say | `GoalEngine` |
| Kernel, running (`runtime/kernel.go`) | activePlans, planSem, the loop's copies | ticks, SubmitEvent, SubmitGoal, plans | outdated copies, no lock across calls | nothing satisfied is left, no plan or token leaks, broken goals are noticed | `GoalRuntime` |
| Kernel, starting and stopping (`kernel.go`) | running, stopCh, wait group, the parts' flags | Start, Stop, Rewind | r.mu is free while Stop waits; two stoppers; a plugin that fails | a stopped runtime runs nothing, Stop ends | `Lifecycle` |
| Event bus (`runtime/event_bus.go`) | subscribers, running | Subscribe, Unsubscribe, Publish | subscribers copied, then asked again one by one | open subscriptions get each event once | `EventBus`, inside `Lifecycle` |
| State manager (`runtime/state_manager.go`) | path/value map, clock, path locks, snapshots | ApplyEvent, Set, Lock, Unlock, Snapshot, Apply, Reconstruct | partial acquisition, reentrancy, order of the two kinds of mutation | grants are exclusive and last until returned | `StateManager` |
| Event sourcing (`kernel.go`, `event_log.go`) | the log in memory, its counters, the state | SubmitEvent, SetPersistence, Replay, Rewind, Fork, reads | log and state changed in two steps, failed appends, restarts | log mirrors file; state is the fold of the log | `EventStore` |
| Write-ahead log (`storage/store.go`) | the file, descriptor, two counters | Append, Replay, Truncate, Close, open | torn lines, failed syncs, crashes | acknowledged events are on disk in order, identifiers are not reused | `WriteAheadLog` implements `DurableLog` |
| Objects and queries (`storage/store.go`, `gdl/uql.go`) | object files, pointer files | SetObject, Search, Execute | many files, none synced, all errors ignored | a query finds what has the value | `PersistentObjects` |
| Snapshot store (`storage/store.go`) | maps in memory, a file each | Save, Delete, Load, recovery | lost files, maps the caller keeps | memory and files agree, no identifier stands for two | `SnapshotStore` |
| Action dispatcher (`runtime/action_dispatcher.go`) | task queue, workers, result channels and cache | Execute, ExecuteAsync, Start, Stop | timeouts racing answers, tasks that outlive callers and restarts | one run per attempt, callers return, Stop ends | `ActionDispatcher` |
| Scheduler (`runtime/scheduler.go`) | items, priority queue, clock, its loop | Schedule, Enqueue, Dequeue, the tick, Run, Stop | twins under one identifier, a channel read without the lock | the queue stays in order, one loop | `Scheduler` |
| Runtime planner (`runtime/planner.go`) | resolvers, dependency graph, alternatives | Register*, Resolve, ResolveWithFallback, cycle search | registrations between its locks, an order of identifiers, a search from resolvers only | a plan covers what is missing | `RuntimePlanner` |
| Planning package (`planning/planner.go`) | nodes with lists of dependees and dependents | AddNode, AddDependency, RemoveNode, searches and sorts | one edge in two lists, goals that are no nodes | the lists mirror; searches agree with graph theory | `DependencyGraph`, `DependencyAnalysis` |
| Cluster (`distributed/cluster.go`) | nodes, leader, goals per node | AddNode, RemoveNode, ElectLeader, RouteGoal, DistributeGoal, ReplicateGoal, Shutdown | negative hashes, nodes without a map, one map under two locks | no panic without peers, unless a routing races a placing | `Cluster` |
| GDL (`gdl/parser.go`, `compiler.go`, `workspace.go`, `actions.go`) | open definitions, the project, registered actions | parse, load, merge, compile, register | definitions stay open; goals submitted while the loop runs | clauses go home, a load is whole | `Workspace` |
| HTTP, gRPC and server mode (`http/server.go`, `grpc/server.go`, `cmd/main.go`) | the two servers, shutdown channel, streams | Start, Stop, streams, signal | streams against a growing log, GracefulStop against streams | nothing is missed, shutdown ends | `Servers` |
| Security, observability, logging, metrics, plugins | | | | | not modelled, section 6 |

## 2. Modules

- **`GoalEngine`** has one action per engine operation, each under `g.mu`.
  `HandleEvent` is the exception: it holds the mutex while it walks the completed
  goals, so the walk is one step per goal and `compensating` (who is still to be
  walked) stands for the mutex. Go closures are data: a definition says which
  paths the condition asks and for which values, which children spawn and which
  goal compensates. A slice is the number of times it holds each name: that is
  all `removeFromSlices`, which drops the first occurrence only, depends on.
- **`GoalRuntime`** instantiates the engine and adds the loop (`loop` holds its
  program counter and local variables), the one `SubmitEvent` that holds `r.mu`
  (`inflight`), and each plan's goroutine (`plan`). A step is what happens
  between two lock acquisitions. `overtaken` is history: goals completed on an
  evaluation that was no longer true.
- **`StateManager`** has one action per method (all run under `s.mu`). A mutator
  is a function from states to states or a refusal; policies are the set `Legal`.
  `granted` is history: what each owner was told it holds.
- **`WriteAheadLog`** treats the file as chunks (an entry, a torn piece, a
  newline), of which a prefix is synced. An entry or piece may be beyond what the
  scanner reads; then recovery finds nothing. The file system is external: a write may
  stop anywhere, a sync may fail with the line in place, a crash keeps the synced
  chunks and any prefix of the others, which covers a machine that stops as well
  as a process that does. `Truncate` ignores the error of its `Sync`, so what it keeps
  may not be on disk, and when it cannot reopen the file the shorter one is in place
  all the same. **`DurableLog`** is what a log promises: entries behind the last
  acknowledged one may go in a crash, nothing else ever goes.
  **`MCWriteAheadLog`** checks three logs, one per behaviour (`part`): with torn lines,
  with lines written `whole` or not at all, and with one that is too `long` to be read.
- **`EventStore`** composes `WriteAheadLog` and `StateManager` with the event log
  and the kernel. `SubmitEvent` is two steps, because `Replay` does not take
  `r.mu`. `drift` collects the reasons for which the state may differ from the
  fold of the log, `holed` says that an identifier was spent on a failed append;
  neither decides a step. The fold itself (`Folded`) is a recursive function over the
  length of the log, which can be reasoned about.
- **`PersistentObjects`** cuts `persistChanges` into its writes, any of which may
  fail or be the last before a crash. A rewind and a replay rebuild the state from the
  log's events (`folds`, `declared`) and write no object; a restart rebuilds it too.
  `damaged` and `unsaved` are history.
  **`SnapshotStore`** has one action per method.
- **`ActionDispatcher`** gives each caller and worker a program counter; an
  attempt is a task of its own with a result channel of its own.
- **`EventBus`** is the bus as the kernel uses it: `Publish` looks at `running`,
  copies the subscribers under a lock of its own, and starts one handler
  goroutine for each that matches and is still open. `delivered` holds those
  goroutines; nothing is said of the order their handlers run in.
- **`Lifecycle`** extends it with `Start`, `Stop` and `Rewind`, called by several
  controllers. `caller` is where each of them is. `r.mu` is free when nothing is
  being published, because `SubmitEvent` holds it to the end and `Stop` holds it
  for its first and last step only. The loop of each `Start` is counted apart
  (`loops`), since all of them read the same field `r.stopCh`. `panicked` is the
  end of the process (a channel closed twice). The dispatcher's tasks wait in a queue
  (`queued`): a worker that is told to stop may still take one, also one whose plan no
  longer waits for it. `initFailed` and `due` are history.
- **`Scheduler`** keeps the queue and the map of items apart, as the code does,
  with both clocks and both modes; `Run` and `Stop` are two steps each, around the
  places where `s.mu` is given up. `twinned` and `overlapped` are history.
- **`RuntimePlanner`** has one action per registration, and `Resolve` step by step: it
  takes `p.mu` anew for each path and reads `dependencyGraph` without it, so actions and
  dependencies are registered in between, and a read beside a write may end the process
  (`fatal`). Names are numbers in the order of the strings; `Rank` is the order of the
  identifiers, `path + "_action"`. The cycle search holds the lock and is a recursive
  function of its depth, for which the number of names is enough, in every order in
  which Go may walk its map of resolvers. `ready`, `registered`, `relinked` are history.
- **`DependencyGraph`** has one action per mutation of the planning package;
  **`DependencyAnalysis`** translates what that package computes of a graph and
  states it against `Graphs` and plain definitions. It has RECURSIVE operators, so
  nothing is proved in it.
- **`Cluster`** has one action per operation, with a placing in two steps because
  the node is found before its lock is taken, and a replication write by write:
  `RouteGoal` reads the local node's goals under the cluster's lock while a placing or a
  replication writes them under the node's, and Go may end the process when it notices.
  A hash may lead to any member, as Go walks the map of nodes in any order.
  `panicked` ends the process; `exposed` is history: what can have led there.
- **`Servers`** is `main` in server mode (`phase`), the two servers, and the
  streams that read the log in two calls while events are appended.
- **`Workspace`** parses files as sequences of lines, each its first word and
  perhaps a name (or an app or a directory that cannot be read, or a configuration that
  cannot be parsed), and loads, compiles and registers projects goal by goal while
  the execution loop completes and spawns. The parser (`Reading`) and the merging
  (`Joined`) are recursive functions, line by line and program by program; of a
  compiled goal the clauses are a set, as their order decides nothing that is
  modelled. `loaded`, `again`, `rewound` are history.
- **`Surroundings`** puts together what stands around the kernel: the dependency graph,
  the scheduler, the cluster, the server process, the objects, the snapshots, the runtime
  planner and the GDL project at the prompt. Nothing
  in `src` makes these share state, and a product of them would multiply states and say
  nothing, so the variable `part` picks one per behaviour: `graph`, `queue` and `loops`
  (the scheduler with a queue and one loop, and with several callers and loops),
  `cluster`, `process`, `objects`, `snapshots`, `planner`, `workspace`.
  **`MCSurroundings`** adds `files` (the workspace with every file of up to four lines on
  disk), and checks the analyses on the graphs.
- **`GoalEngine_proofs`**, **`GoalRuntime_proofs`**, **`StateManager_proofs`**,
  **`WriteAheadLog_proofs`**, **`EventStore_proofs`**, **`ActionDispatcher_proofs`**,
  **`Lifecycle_proofs`** and **`Surroundings_proofs`** hold the theorems about the module
  they are named after.
- The other **`MC*`** modules give the constants for TLC.

Definitions whose comment starts with "Mutant" are not part of a specification:
each is a plausible slip in the operator below it, kept to show that a property
notices it. `PROJECT.json` pairs each property with one.

## 3. Runs

| Run | Question | Bounds, and why they are enough |
|---|---|---|
| `goal_engine` | Do the slices agree with the goal states under any order of calls? | 3 names, 4 definitions (one name has two, so spawning overwrites), 2 paths; a name at most twice in pendingGoals, one more than its removals take out at once |
| `goal_runtime` | Are plans and broken goals accounted for when loop, clients and plans interleave? | one plan token for two goals, three events on two paths, deadlines and timeouts at any tick |
| `goal_runtime_live` | Do kernel steps implement the engine? Do satisfied goals complete and plans end? | one event, two top-level goals and a spawned one that shares a name |
| `state_manager` | Do locks exclude, and do declared events leave granted paths alone? | 2 owners, 2 paths (a partial acquisition needs two), locks taken twice, two snapshots |
| `write_ahead_log` | What do torn writes, failed syncs, truncation and crashes leave of the log? Does a log of whole lines implement `DurableLog`? | 4 appends: one before a failure, the failing one, the one behind its remains, one after recovery; Truncate keeps one; the second line too long |
| `event_store` | Does memory mirror the file, when is the state the log's fold, and what do reads by position give after a failed append? | 3 submissions of a mutator event, declarative ones and one with both; failed appends, replays, rewinds, forks (of a new name, of one whose file has an event, of one with a hole in its file) and crashes at any time |
| `action_dispatcher` | Is an attempt run once, are only its own answers taken, does everyone return? | a call with two attempts and an asynchronous one, 2 workers, queue of 2, two starts |
| `lifecycle` | Is a stopped runtime quiet, does Stop end, who gets an event? | 2 controllers, 2 starts (a loop of the first could meet the channel of the second), 1 goal, 1 plan, 1 queued task, 1 client event, 1 subscriber: what races is one event, one stop and one subscription |
| `surroundings` | Do graph, scheduler, planner, cluster, server process, objects, snapshots and workspace keep what they promise? | every graph on 3 goals that calls can build; 3 queued items, two of one identifier; 3 loops and 2 callers of Run and Stop; 3 nodes and 2 goals, one with a negative hash; 3 events, one HTTP and two gRPC streams; 2 objects of 2 fields and 2 values with 2 events (an old value and a new one); 3 saves (two live snapshots and one after recovery); 4 projects and 5 broken ones loaded twice with 2 goals and 3 action types; every file of up to 4 of 7 lines; dependencies on itself and in circles, two lists of missing paths, one registration of each kind during a Resolve |
| `goal_runtime_spawn` | violated: a spawned goal without a trigger stays pending for ever | |
| `event_store_restart` | violated: a restart loses the effect of a StateMutator event, which is what `POST /state` submits | |
| `workspace_reload` | violated: loading the same project again ends the process, where documentation.md:242 promises a re-run | |

What the passing runs show where the code is delicate:

- `NoCompensationLost`: an event that breaks a completed goal's condition is
  never missed, except when it falls between the loop's reads and its
  `CompleteGoal`; those goals are exactly the ones in `overtaken`.
- `EngineRefined`: the kernel uses the engine only through steps the engine's
  own specification has, so what is proved of `GoalEngine` holds in the kernel.
- `CleanProjection`: the white paper's "deterministic projection of all prior
  events" holds until an event is rejected after it was logged, a replay races a
  submission, a rewind or fork leaves log and state apart, or an event carries
  both kinds of mutation in an order that matters.
- `ReadsExact`: the log counts its length in identifiers and reads by position.
  After a failed append a read may meet a later event than the one asked for, and
  the last identifiers lead beyond the end; never to an earlier event.
- `AckedKept`: what `Append` acknowledged is on disk through every later failure, but
  for what a `Truncate` drops, or keeps while its `Sync` fails unnoticed. Otherwise
  the only such event recovery can miss is the one written behind an
  unfinished line, unless one line is beyond 10 MB: then recovery reports an error,
  which nobody looks at, and finds nothing. `ReplaySound` says that an identifier is
  used again only in that case and after `Truncate`.
- `QueriesFindTheirObjects`, `ObjectsFollowState`: pointers are never removed, so a
  query also returns objects that had the value once; it misses one only if its
  write was cut short or failed, or if the limit cut the answer. Objects on disk are
  the state's, except where a declarative event, a rewind, a replay or a restart has
  changed it since: those write no object.
- `StoppedIsQuiet`: once `running` is false there is no loop and no plan that
  could still touch a goal; and no handler, worker, scheduler or bus either,
  except after a plugin's `Init` failed. `Start` then returns an error with those
  parts running, and `Stop` refuses to stop them as `running` was never set.
- `StopEnds`: plans in flight still need `r.mu` for their events, and get it while
  `Stop` waits. What ends a `Stop` otherwise is a second one that begins before
  it is over and closes the channel again: `panicked` is reachable. The dispatcher's
  own `Stop` has the same flaw (`StopAgain` in `ActionDispatcher`): `running` stays true
  while it waits for its workers.
- `TickTakesWhatIsDue`, `QueueSound`: a tick takes as many items of an identifier
  as are due, though perhaps not those; the map loses the entry of a twin that
  stays. `OneLoop` holds while Run and Stop do not overlap: a Stop between the
  lock and the count of Run waits for nobody.
- `PlannerExact`: the dependencies that a plan puts first are then ordered by identifier
  like everything else, so "first" is lost: `order.paid` comes before `order`, as
  `order.paid_action` sorts before `order_action`, but `a` before the `b` that depends on
  it only by its name. All actions of a plan are of one type, the first resolver by name,
  unless an action was registered while it was made. `GoalRuntime` counts no attempts, as
  the code never increments `g.Attempts`, so the alternatives are never reached.
- `AnalysisExact`: `HasCycle` misses no cycle, and invents one exactly when two
  dependencies dangle on the same missing goal. `TopologicalSort` counts degrees
  along one direction and lowers them along the other, so it succeeds only where
  no node depends on another; `FindParallelizable` and `GetExecutionOrder` inherit
  that. `GetCriticalPath` is right on closed graphs without cycles (elsewhere it
  does not end, or reads a missing node).
- `PanicExplained`: a node that joins gets no map of goals, so a goal routed to it is a
  panic. The cluster of one node that `main` builds has none until it is shut down,
  unless a routing by type or priority, which reads the node's goals (cluster.go:192,208),
  meets a placing or a replication, which writes them under another lock (233, 261-263).
- `StreamsMissNothing`: every batch of an HTTP stream starts with the last event
  of the one before; none is missed. (A gRPC stream sends the whole log again at
  each tick: its position never moves.)
- `DeathExplained`, `ShutdownEnds`: a server that could not listen leaves a nil
  field, and its stop ends the process before `rt.Stop`; a gRPC client that never
  reads holds up the shutdown for ever, nothing else does.
- `ClausesKept`: goals, policies and tests get their own clauses, though all
  definitions stay open; types also take those of goals after them, and a field
  named like a clause changes the goal before it, which is why the property asks
  for clauses that stand where they belong.
- `LoadsWhole`: the first load ends the process only for a configuration, directory or
  file it cannot read, a missing app, a goal declared twice or one that was spawned.
- `HandlersFollow`: an `action` line of a project becomes a stub that takes the place
  of a built-in handler of that type; built-in ones shadow a plugin's until a rewind
  brings the plugin's back. The property says nothing of action types a contract names,
  see section 6.
- Two more facts the modules show, with no run of their own: a goal cancelled
  after the loop has listed it and before `CompleteGoal` ends complete; and the
  branch for actions of a contract body (parser.go:330-339) is never reached, since
  an earlier branch takes every `action` line.

Constants that begin with `Max` are bounds of the model, not of the code, and
stand in guards; nothing is claimed beyond them by a run. `PlanCap` (100 in the
code), `QueueCap` (1000) and `Retries` are code limits at a small value.

Each module has one type invariant, `TypeOK` (`BusTypeOK`, and `SurroundingsTypeOK`
where parts are joined). It holds in every run above and the runs do not list it: it says nothing
the other properties do not need, and for the eight modules of section 5 it is part of
what is proved.

`CHECK_DEADLOCK FALSE` is said where the system or one of its parts really stops:
`action_dispatcher` (all calls returned, the dispatcher stopped for the last time),
`lifecycle` (a panic), `write_ahead_log` (the last append of the log) and
`surroundings` (a process that ended, a cluster that crashed, a parsed file).

### Findings

Three runs end in a counterexample, each against a sentence of the repository:
`goal_runtime_spawn` (documentation.md:53), `event_store_restart`
(http/server.go:274) and `workspace_reload` (documentation.md:242). `PROJECT.json`
quotes them with the lines that decide.

## 4. Fairness

- `GoalRuntime`: strong fairness of the loop and of each plan goroutine, weak
  fairness of the event that holds `r.mu`. The loop and the plans need locks that
  clients keep taking; Go's mutexes hand over to a waiter that starves, so who
  waits for one gets it. The ticker fires for ever. Clients have no fairness.
- `ActionDispatcher`: a caller's timer fires (weak fairness); handlers return
  (weak fairness of a worker's task, needed for `StopEnds` only); a worker that
  is told to stop and comes back to its `select` again and again picks the stop
  at some time (strong fairness of `Quit`: Go chooses among ready cases at
  random). Workers need not take tasks: `CallsEnd` holds without that.
- `Lifecycle`: strong fairness of each stopper's and each plan's steps and of the
  loop's exit, for the same reasons (a mutex others keep taking, a closed channel
  the `select` will pick), weak fairness of the bus and of a tick that has begun.
  Handlers return (weak fairness of `HandlerEnd`), as `StopEnds` needs here too. Nobody
  has to call anything, and no worker has to take a task.
- `Servers`: weak fairness of `main` and of a stream that reads the log, strong
  fairness of a gRPC stream's exit, which is a case of a `select` it comes back to.
  No signal has to come, no client has to read or to go.
- The other runs check safety only.

## 5. Proofs

All theorems hold for every value of the constants the named assumptions allow: any goals,
definitions, paths, values, owners, events, calls, nodes, streams and objects, any length of
logs and queues, any number of workers, controllers, plans and retries. The assumptions say
what the code's types say, that a placeholder is not a value, and that sizes are sizes: in
particular `DispatcherAssumption` (an attempt is made at least once) and
`SurroundingsAssumption` (the local node is a node, no stream is of both kinds, times and
priorities are integers, the planner's names are finitely many and have two orders (numbers
for the strings, ranks for the identifiers), its lists are of names, projects are lists
of files whose lines have a first word of the language, and the goals they declare are
among the names). Two theorems have hypotheses of their own, named where they come up
below.

Each module has an inductive invariant (`IInv`, or one per part), a lemma or step per
action that preserves it, and a last step by temporal logic.

- **`GoalEngine_proofs`**: `TypeCorrect`, `ActiveIndexCorrect`, `PendingIndexCorrect`
  and, both together, `IndexesCorrect`.
  `ActiveIndexSound` is not inductive alone. A spawn may overwrite an active goal
  and leave its name in activeGoals, so "listed" must be allowed for pending
  goals, and then a later activation must find at most one occurrence to remove.
  For a pending goal to be found, its name must be in pendingGoals, and a single
  removal must be tied to the goal's leaving the pending state. The inductive
  invariant joins the type invariant, both index conditions and what the
  compensation walk relies on: a goal still to be walked is in the map and not on
  the active list, so compensating it cannot leave an entry behind.
- **`GoalRuntime_proofs`**: `EngineRefinedCorrect` (every kernel step is a step of
  `GoalEngine` or leaves it alone), and therefore `IndexesSoundInKernel`: the engine's
  invariant is reused, not proved again. `PlansAccountedCorrect` needs no more than the
  plans' own states. `NoCompensationLostCorrect` rests on the loop (`LoopSound`): the
  copies it works on are of different goals, none complete, and the paths it has read and
  has yet to read add up to the condition's. So a goal becomes complete only after the
  dependencies of its whole condition were recorded (`DepsCover`), and an event that
  breaks it finds it by them. Hypothesis `WritesDeclared`: an event names the paths it
  writes, since `HandleEvent` is given no others. Both places in `src` that submit events
  do (http/server.go:277-292 names the keys it sets; kernel.go:331-335 changes no state).
- **`StateManager_proofs`**: `TypeCorrect`, `GrantsCorrect` (a granted path stays its
  owner's), `ExclusionCorrect` (no two owners), both together as `LocksCorrect`, and
  `LockedPathsStableCorrect` (a declared event leaves granted paths alone). The
  inductive invariant says that a path is owned exactly while it is referenced and
  that its owner's grants are at most the references: the surplus is what failed
  `Lock` calls took and nobody will return. Exclusion and stability follow from it.
- **`WriteAheadLog_proofs`**: `AckedKeptCorrect`, `ReplaySoundCorrect`, `TypeCorrect`.
  `AckedOnDisk` alone says nothing of where else an entry may stand; that every call
  writes a body of its own, and bodies increase along the file, does. `ReplaySound` is
  about the lines that are read now, and a crash can make others readable, by taking what
  was glued to them; so the invariant orders every entry that is or can become readable
  (`MayBeRead`, `InOrder`). An entry behind an unfinished one never can. A `Truncate`
  writes a file of what was readable, so the order goes on; which of it is still promised
  depends on its `Sync`, and no step of it needs more than the new file's lines.
  `DurableLogImplemented`: the log implements `DurableLog`, under the hypotheses that
  lines are written whole, none is beyond the limit and nobody calls `Truncate` (nobody
  in `src` does). `DurableLog` loses entries in a crash only, and only those behind its
  `safe` prefix, which every acknowledged append extends to its own entry: so the theorem
  says that no acknowledged entry is ever lost. Without the first hypothesis, recovery
  can lose one, as `AckedKept` says. The run `write_ahead_log` states it of its part `whole`
  (`DurableLogRefined`).
- **`EventStore_proofs`**: `ProjectionCorrect`, `LogMirrorsWALCorrect`,
  `ReadsExactCorrect`, `DeclarativeRestartCorrect` and `TypeCorrect`: every property of
  the run. The file's invariant comes from `WriteAheadLog_proofs`; only `Fork`, which
  starts another file, is new to it. To it come: numbers grow along the log and fall
  behind the identifiers only if an append failed (`Numbered`); each event in memory is
  an entry of the file (`Mirrored`), and that entry is on disk (`Secured`), so that no
  crash takes it; the state is the fold of the log, or of the log without the event that
  is pending (`StateFolded`); and what is remembered of a dead process (`Remembered`).
  That the fold of one event more is one round more (`FoldedAppend`) is recursion over a
  number: instead of an induction theorem, whose operator parameter the provers cannot
  instantiate, the proof takes the least length at which the claim would fail
  (`LeastNumber`, from the library's theorem on well-founded relations).
- **`ActionDispatcher_proofs`**: `OneRunCorrect`, `WorkersBoundedCorrect`, both of which
  are `RunsBoundedCorrect`, `SuccessIsCurrentCorrect` and `TypeCorrect`. That no attempt
  runs twice rests on where its task can be: unsent, at one place of the queue, with one
  worker, or done with (`TasksOnce`). That a caller hears of its own attempt rests on what
  happened before an answer is there (`AnswersEarned`), and that workers of two
  starts never meet on `Stop` having told each one that is left (`ToldSound`).
- **`Lifecycle_proofs`**: `StoppedIsQuietCorrect`, `EventsDeliveredCorrect`,
  `TypeCorrect`. The first needs what each step of `Stop` has ended already and that
  nothing starts it again before `Stop` is over (`StopProgress`), which holds as only one
  stopper gets past the first step and `Start` is refused meanwhile (`OneOfEach`). The
  second needs whom the publication in progress still owes its event (`PublicationSound`)
  and that no subscription or event comes back under its old number (`NumbersFresh`).
- **`Surroundings_proofs`** has an invariant per part; as the other parts stand still,
  each is an invariant of the whole.
  - `GraphCorrect`: the types and `EdgesMirrored`, neither inductive alone: the lists
    stay within their bound because a new node is listed by nobody yet, and that holds
    because only nodes are listed as dependents.
  - `PanicExplainedCorrect`: only the local node has a map and leads, the others hold
    nothing, and until something was exposed the local node is the only member and every
    placing and replication under way leads to it.
  - `OneLoopCorrect`: while calls do not overlap, where the only caller is decides where
    the last loop is and what the channel is.
  - `QueueSoundCorrect`: the comparison of five fields is total and transitive, so every
    queue has an order (`SomeOrder`: one item more goes before the first it must precede),
    and sorting loses and invents nothing (`SortedFacts`). What leaves positions out keeps
    the order (`PlacesOfKept`). `QueueInv` adds that an identifier without a twin stands in
    the queue once: so taking its first item takes the one the map had.
  - `TickTakesWhatIsDueCorrect`: after n rounds of a tick the queue has lost under each
    identifier as many items as the first n had due (`RoundLeft`), which leaves one to take
    whenever the next is due; by the least number of rounds at which that would fail.
  - `StreamsMissNothingCorrect`, `DeathExplainedCorrect`: while no identifier is lost the
    events lie at their identifiers, and what a stream has sent is everything up to its
    position, the last event of each batch twice.
  - `SnapshotsMatchFilesCorrect`: inductive with the types, once recovery is known to
    find the largest identifier that is left.
  - `QueriesFindTheirObjectsCorrect`, `ObjectsFollowStateCorrect`: while an object is
    written, its file and the pointers so far are described with the fields that are left
    (`WritingSound`); when the last is written the object is settled and has a pointer for
    each value (`SettledSound`); and all the values it writes the state has had
    (`HeldSound`). A rewind and a replay leave all files alone, so what they change of the
    state must be in `unsaved`.
  - `ClausesKeptCorrect`: what the parser has found of a kind, put away or still open,
    changes with a line in one of three ways (`Follows`): an opening of the kind adds a
    definition, a line its kind takes goes to the last one, any other changes nothing. So
    after n lines the definitions are the openings so far (`Opens`), and those of goals,
    policies and tests have the lines up to the next opening of any kind (`Blocks`); the
    latter holds because a clause in its place belongs to the last opening, and is taken
    by that one or, if it is of another kind, by none of these (`BlocksNext`).
  - `LoadsWholeCorrect`: every definition that is merged has a place of its own where it
    is written, and each such place is that of one (`MergedPlaces`). While a load goes on
    each goal of the project is registered or still to be (`GoalsFollow`). That the first
    load is stopped only for the reasons given needs to know what else the engine can
    have then: the goals behind the load, and what clauses of the project have spawned
    (`Behind`, `FromLoaded`). A goal found registered is therefore declared twice or
    spawned.
  - `HandlersFollowCorrect`: who registered a type last is known at every step of a load,
    but for the stubs still to come (`HandlerFollows`).
  - `PlannerExactCorrect`: while a plan is made it has no path twice (`NoneTwice`), its
    paths are missing ones or dependencies of those gone through, unless dependencies
    changed (`Descending`, `Adding`), and if there was a resolver at the beginning there
    still is, so nothing is left out (`Begun`); of one type as long as no action was
    registered (`OfFirstType`). As ranks are different, the sorted plan has one order
    (`Sorted`). That as many attempts as there are alternatives try each of them is
    arithmetic of remainders (`Window`). The cycle
    search is right by what a call of `dfs` may count on and what it leaves (`Ready`,
    `Explores`): the names it has left lead only to such names and hold no cycle, while each
    name on its stack leads to another there or to the one that is entered next. So a search
    that stops with a cycle has it on its stack, and one that does not has left everything
    the resolvers lead to.

Only model-checked:

- everything about liveness and fairness (`SatisfiedGoalLeavesActive`, `PlansEnd`,
  `CallsEnd`, `StopEnds`, `ShutdownEnds`), which needs ENABLED;
- `AnalysisExact`, whose searches and sorts are RECURSIVE, about a package that nothing in
  `src` imports.

Induction along a sequence, which the parser, the merging and the planner need, is done as in
`EventStore_proofs`: a property of the first value that every step keeps is one of all, by
the least number at which it would fail (`AlongSteps`), and that a recursive function over
a sequence has the values its equations give is proved once (`StepsExist`).

## 6. Left out, and why

- The scheduler in `GoalRuntime`: spawned goals are enqueued there, and nothing
  ever takes an effect from it.
- The event bus's history and the dispatcher's memories and metrics: nothing reads
  them back. The planning package's what-if scenarios compute reports and change
  no graph; its maps of goals beside the graph decide nothing.
- `r.clock`: it only fills `ActionContext.Clock`.
- `StateManager.Diff`: it has no caller, changes nothing, and panics when it compares
  two maps or slices (state_manager.go:271).
- Two live runtimes on one fork directory: `Fork` of a name used before reopens its
  files, here after the process that used them ended.
- What the documents promise of a cluster of several nodes (documentation.md:19,66 and
  white_paper.md:151-155: partitioning, replication, failover): a node that joins has a
  nil map (cluster.go:80-85) and the first goal placed on it panics. `Cluster` models
  that; no run states the promise.
- What the documents promise of contracts (parser.go:330, documentation.md:149-158,194,204:
  interfaces, with `payment.charge` a working action): their action lines become stubs
  that do nothing and replace the handlers of those types. `Workspace` models that, and
  `HandlersFollow` leaves these types out, as neither outcome is certain to be meant.
- Path locks in `EventStore`: `Lock`, `Replay`, `Truncate`, `RemoveGoal`,
  `ActivateGoal` and `ExecuteAsync` have no caller in the program outside tests.
  Their components are modelled with them; the composition leaves locks free.
- `Rewind` is one step in `EventStore`: it gives `r.mu` up only while it stops the
  loops, before it reads anything. What can happen in that gap is in `Lifecycle`.
- Times: deadlines, timeouts, backoff delays and the ticker are choices, except in
  `Scheduler`, whose decisions are about them.
- Pieces of lines that only together exceed the scanner's limit of 10 MB, and lines
  beyond it in `EventStore` (`WriteAheadLog` has them).
- Values are compared as JSON gives them back; a Go integer in a declarative
  mutation would return from the log as a float64.
- The text inside a GDL line, a query or a configuration file (`parseConfig`),
  `InitProject`, `AddApp` and the bodies of built-in actions: text to data, with
  no state of their own.
- HTTP and gRPC handlers that list, or call the kernel once; the client commands
  of `-mode cli`; the generated gRPC code.
- Security (no API consults it), observability, logging and metrics (they record
  what nothing reads back), and the plugins' insides (handlers of actions, which
  return any outcome here).

## 7. Plan

What is left, most valuable first:

1. A proof of `AnalysisExact`, with the recursion of the searches written as functions of
   its depth, as in `RuntimePlanner`.
2. The bodies of built-in actions that write state through the kernel.

One question has one run; parts that share no state and are each too small for a
run of their own are checked together, one part per behaviour.

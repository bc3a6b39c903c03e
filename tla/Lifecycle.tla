----------------------------- MODULE Lifecycle -----------------------------
(***************************************************************************)
(* Start, Stop and Rewind of the kernel (runtime/kernel.go) over the event *)
(* bus, the action dispatcher, the scheduler and the execution loop, while *)
(* plans run and clients submit events.                                    *)
(*                                                                         *)
(* r.mu is held through Start, through the second half of Rewind and       *)
(* through SubmitEvent, publication included: it is free when publishing = *)
(* Quiet.  Stop holds it for its first and its last step only, and Rewind  *)
(* gives it up while it stops.  The channels are read through the fields   *)
(* r.stopCh at every turn of the loop, so an old loop would see the        *)
(* channel of a later Start.  Closing a closed channel panics, and takes   *)
(* the process with it.                                                    *)
(*                                                                         *)
(* The dispatcher is its promise (module ActionDispatcher): a call ends,   *)
(* its task may outlive it, in the queue or on a worker, Stop waits for    *)
(* the workers and leaves the queue to the next Start.  Goals, the log and *)
(* the state are in GoalRuntime and EventStore.  The goal engine's own     *)
(* Start and Stop set flags nobody reads.                                  *)
(***************************************************************************)
EXTENDS EventBus

CONSTANTS
  Controllers,      \* who calls Start, Stop and Rewind
  Goals,            \* goals a plan may run for
  ActionEvent,      \* the type of the events plans submit
  Plugins,          \* {TRUE, FALSE}: the outcomes of the plugins' Init
  MaxStarts,        \* bound on the number of Starts
  MaxPlans,         \* bound on the number of plans
  MaxTasks,         \* bound on the tasks in the queue and on workers
  MaxClientEvents   \* bound on the events accepted before clients submit no more

ASSUME LifecycleAssumption ==
  /\ Plugins \subseteq BOOLEAN /\ ActionEvent \in EventTypes
  /\ MaxStarts \in Nat /\ MaxPlans \in Nat /\ MaxTasks \in Nat /\ MaxClientEvents \in Nat

VARIABLES
  running,      \* r.running
  stopCh,       \* r.stopCh: "nil", "open" or "closed"
  caller,       \* where each controller is; rewind: it is inside Rewind
  dispatcher,   \* "off", "on" or "stopping"
  scheduler,    \* the scheduler's loop runs
  loops,        \* execution loops by the Start that began them
  plans,        \* plan goroutines by goal
  queued,       \* how many tasks the queue holds, of plans that wait or have gone
  handlers,     \* how many workers run a handler
  initFailed,   \* history: the last Start failed in a plugin
  panicked,
  starts, planned, submitted,   \* counters for the bounds
  due           \* history: <<subscription, event>> open and matching when the event was accepted

kernelVars == <<running, stopCh, caller, panicked>>
partVars   == <<dispatcher, scheduler, queued, handlers>>
countVars  == <<starts, planned, submitted>>
vars == <<busVars, kernelVars, partVars, loops, plans, initFailed, countVars, due>>

MutexFree == publishing = Quiet
Idle(c)   == caller[c] = [pc |-> "idle", rewind |-> FALSE]
Goto(c, pc) == caller' = [caller EXCEPT ![c].pc = pc]

Init ==
  /\ BusInit
  /\ running = FALSE /\ stopCh = "nil" /\ panicked = FALSE
  /\ caller = [c \in Controllers |-> [pc |-> "idle", rewind |-> FALSE]]
  /\ dispatcher = "off" /\ scheduler = FALSE /\ queued = 0 /\ handlers = 0
  /\ loops = [n \in 1..MaxStarts |-> "off"]
  /\ plans = [g \in Goals |-> "none"]
  /\ initFailed = FALSE
  /\ starts = 0 /\ planned = 0 /\ submitted = 0
  /\ due = {}

-----------------------------------------------------------------------------
(* Start, Stop, Rewind. *)

\* startUnlocked, under r.mu.  A plugin that fails leaves the parts running.
StartUnlocked ==
  \/ /\ running
     /\ UNCHANGED <<busVars, running, stopCh, partVars, loops, initFailed, starts>>
  \/ /\ ~running /\ starts < MaxStarts
     /\ starts' = starts + 1
     /\ stopCh' = "open"
     /\ busRunning' = TRUE /\ dispatcher' = "on" /\ scheduler' = TRUE
     /\ \E initialised \in Plugins :
          /\ running' = initialised /\ initFailed' = ~initialised
          /\ loops' = IF initialised THEN [loops EXCEPT ![starts + 1] = "waiting"]
                                     ELSE loops
     /\ UNCHANGED <<subscribers, subscribed, publishing, delivered, queued, handlers>>

Start(c) ==
  /\ ~panicked /\ Idle(c) /\ MutexFree
  /\ StartUnlocked
  /\ UNCHANGED <<caller, panicked, plans, planned, submitted, due>>

\* Where Stop goes on when it is over: to its caller, or back into Rewind.
AfterStop(c) == IF caller[c].rewind THEN "rebuild" ELSE "idle"

\* The first critical section of stopUnlocked.
StopBegin(c) ==
  /\ MutexFree
  /\ IF ~running
     THEN Goto(c, AfterStop(c)) /\ UNCHANGED <<stopCh, panicked>>
     ELSE IF stopCh = "closed"
          THEN panicked' = TRUE /\ UNCHANGED <<stopCh, caller>>
          ELSE Goto(c, "bus") /\ stopCh' = "closed" /\ UNCHANGED panicked
  /\ UNCHANGED <<busVars, running, partVars, loops, plans, initFailed, countVars, due>>

Stop(c) == ~panicked /\ Idle(c) /\ StopBegin(c)

\* Rewind holds r.mu while it looks at running, then gives it up to stop.
Rewind(c) ==
  /\ ~panicked /\ Idle(c) /\ MutexFree /\ running
  /\ caller' = [caller EXCEPT ![c] = [pc |-> "stop", rewind |-> TRUE]]
  /\ UNCHANGED <<busVars, running, stopCh, panicked, partVars, loops, plans,
                 initFailed, countVars, due>>

RewindStop(c) == ~panicked /\ caller[c].pc = "stop" /\ StopBegin(c)

\* Under r.mu again: rebuild the state (module EventStore) and start.
RewindRestart(c) ==
  /\ ~panicked /\ caller[c].pc = "rebuild" /\ MutexFree
  /\ StartUnlocked
  /\ caller' = [caller EXCEPT ![c] = [pc |-> "idle", rewind |-> FALSE]]
  /\ UNCHANGED <<panicked, plans, planned, submitted, due>>

StopBus(c) ==
  /\ ~panicked /\ caller[c].pc = "bus"
  /\ busRunning' = FALSE
  /\ Goto(c, "dispatcher")
  /\ UNCHANGED <<subscribers, subscribed, publishing, delivered, running, stopCh,
                 panicked, partVars, loops, plans, initFailed, countVars, due>>

StopDispatcher(c) ==
  /\ ~panicked /\ caller[c].pc = "dispatcher"
  /\ dispatcher' = "stopping"
  /\ Goto(c, "workers")
  /\ UNCHANGED <<busVars, running, stopCh, panicked, scheduler, queued, handlers, loops,
                 plans, initFailed, countVars, due>>

WorkersGone(c) ==
  /\ ~panicked /\ caller[c].pc = "workers" /\ handlers = 0
  /\ dispatcher' = "off"
  /\ Goto(c, "scheduler")
  /\ UNCHANGED <<busVars, running, stopCh, panicked, scheduler, queued, handlers, loops,
                 plans, initFailed, countVars, due>>

StopScheduler(c) ==
  /\ ~panicked /\ caller[c].pc = "scheduler"
  /\ scheduler' = FALSE
  /\ Goto(c, "wait")
  /\ UNCHANGED <<busVars, running, stopCh, panicked, dispatcher, queued, handlers, loops,
                 plans, initFailed, countVars, due>>

\* What r.wg counts: a plan goroutine calls Done first of its deferred steps.
Counted == {n \in DOMAIN loops : loops[n] # "off"}
             \cup {g \in Goals : plans[g] \in {"execute", "submit", "publish"}}

\* Mutant: Stop returns without r.wg.Wait.
StopEndUnwaited(c) ==
  /\ ~panicked /\ caller[c].pc = "wait" /\ MutexFree
  /\ running' = FALSE /\ stopCh' = "nil"
  /\ Goto(c, AfterStop(c))
  /\ UNCHANGED <<busVars, panicked, partVars, loops, plans, initFailed, countVars, due>>

\* r.wg.Wait and the last critical section.
StopEnd(c) ==
  /\ ~panicked /\ caller[c].pc = "wait" /\ Counted = {} /\ MutexFree
  /\ running' = FALSE /\ stopCh' = "nil"
  /\ Goto(c, AfterStop(c))
  /\ UNCHANGED <<busVars, panicked, partVars, loops, plans, initFailed, countVars, due>>

-----------------------------------------------------------------------------
(* The execution loop and its plans. *)

LoopTick(n) ==
  /\ ~panicked /\ loops[n] = "waiting"
  /\ loops' = [loops EXCEPT ![n] = "tick"]
  /\ UNCHANGED <<busVars, kernelVars, partVars, plans, initFailed, countVars, due>>

\* processGoals starts a plan for a goal that has none; the entry in activePlans
\* is made under r.mu.
StartPlan(n, g) ==
  /\ ~panicked /\ loops[n] = "tick" /\ MutexFree
  /\ plans[g] = "none" /\ planned < MaxPlans
  /\ plans' = [plans EXCEPT ![g] = "execute"] /\ planned' = planned + 1
  /\ UNCHANGED <<busVars, kernelVars, partVars, loops, initFailed, starts, submitted, due>>

TickEnd(n) ==
  /\ ~panicked /\ loops[n] = "tick"
  /\ loops' = [loops EXCEPT ![n] = "waiting"]
  /\ UNCHANGED <<busVars, kernelVars, partVars, plans, initFailed, countVars, due>>

LoopExit(n) ==
  /\ ~panicked /\ loops[n] = "waiting" /\ stopCh = "closed"
  /\ loops' = [loops EXCEPT ![n] = "off"]
  /\ UNCHANGED <<busVars, kernelVars, partVars, plans, initFailed, countVars, due>>

\* An attempt of Execute puts a task into the queue, whether anybody serves it or not.
Enqueue(g) ==
  /\ ~panicked /\ plans[g] = "execute" /\ queued + handlers < MaxTasks
  /\ queued' = queued + 1
  /\ UNCHANGED <<busVars, kernelVars, dispatcher, scheduler, handlers, loops, plans,
                 initFailed, countVars, due>>

\* A worker takes a task, be it of a plan that has gone, or of an earlier Start;
\* its select may choose the queue although its stop channel is closed.
HandlerStart ==
  /\ ~panicked /\ queued > 0 /\ dispatcher \in {"on", "stopping"}
  /\ queued' = queued - 1 /\ handlers' = handlers + 1
  /\ UNCHANGED <<busVars, kernelVars, dispatcher, scheduler, loops, plans,
                 initFailed, countVars, due>>

HandlerEnd ==
  /\ ~panicked /\ handlers > 0
  /\ handlers' = handlers - 1
  /\ UNCHANGED <<busVars, kernelVars, dispatcher, scheduler, queued, loops, plans,
                 initFailed, countVars, due>>

\* Execute returns a result, or nothing after its timeouts: wg.Done.
ExecuteReturns(g) ==
  /\ ~panicked /\ plans[g] = "execute"
  /\ \E next \in {"submit", "tail"} : plans' = [plans EXCEPT ![g] = next]
  /\ UNCHANGED <<busVars, kernelVars, partVars, loops, initFailed, countVars, due>>

\* The deferred steps after wg.Done: the semaphore, and activePlans under r.mu.
PlanTail(g) ==
  /\ ~panicked /\ plans[g] = "tail" /\ MutexFree
  /\ plans' = [plans EXCEPT ![g] = "none"]
  /\ UNCHANGED <<busVars, kernelVars, partVars, loops, initFailed, countVars, due>>

-----------------------------------------------------------------------------
(* Events.  Whoever submits one holds r.mu until it is published. *)

\* Owed the event: open, matching, and nobody is stopping the runtime.
Owed(event) ==
  IF running /\ stopCh = "open"
  THEN {<<sub, event>> : sub \in {s \in subscribers : ShouldDeliver(s, event)}}
  ELSE {}

NewEvent(type) == [id |-> submitted + 1, type |-> type]

Accept(event) ==
  /\ submitted' = submitted + 1
  /\ Publish(event)
  /\ due' = due \cup Owed(event)

\* SubmitEvent by a client.  A refused event changes nothing.
ClientSubmit(type) ==
  /\ ~panicked /\ MutexFree /\ running
  /\ submitted < MaxClientEvents
  /\ Accept(NewEvent(type))
  /\ UNCHANGED <<kernelVars, partVars, loops, plans, initFailed, starts, planned>>

\* Mutant: Stop keeps r.mu until it is over.
PlanSubmitExcluded(g) ==
  /\ ~panicked /\ plans[g] = "submit" /\ MutexFree /\ stopCh # "closed"
  /\ Accept(NewEvent(ActionEvent))
  /\ plans' = [plans EXCEPT ![g] = "publish"]
  /\ UNCHANGED <<kernelVars, partVars, loops, initFailed, starts, planned>>

\* SubmitEvent by a plan: its result, to be published, or an error nobody looks at.
PlanSubmit(g) ==
  /\ ~panicked /\ plans[g] = "submit" /\ MutexFree
  /\ IF running
     THEN /\ Accept(NewEvent(ActionEvent))
          /\ plans' = [plans EXCEPT ![g] = "publish"]
     ELSE /\ plans' = [plans EXCEPT ![g] = "tail"]
          /\ UNCHANGED <<busVars, submitted, due>>
  /\ UNCHANGED <<kernelVars, partVars, loops, initFailed, starts, planned>>

PlanPublished(g) ==
  /\ ~panicked /\ plans[g] = "publish" /\ MutexFree
  /\ plans' = [plans EXCEPT ![g] = "tail"]
  /\ UNCHANGED <<busVars, kernelVars, partVars, loops, initFailed, countVars, due>>

BusStep ==
  /\ ~panicked
  /\ \/ CopySubscribers
     \/ \E sub \in publishing.targets : Deliver(sub)
     \/ Published
  /\ UNCHANGED <<kernelVars, partVars, loops, plans, initFailed, countVars, due>>

SubscriberStep ==
  /\ ~panicked
  /\ \E id \in Subscribers :
       \/ \E types \in Filters : Subscribe(id, types)
       \/ Unsubscribe(id)
  /\ UNCHANGED <<kernelVars, partVars, loops, plans, initFailed, countVars, due>>

-----------------------------------------------------------------------------

StopStep(c) == \/ RewindStop(c) \/ StopBus(c) \/ StopDispatcher(c) \/ WorkersGone(c)
               \/ StopScheduler(c) \/ StopEnd(c)
PlanStep(g) == ExecuteReturns(g) \/ PlanSubmit(g) \/ PlanPublished(g) \/ PlanTail(g)

Next ==
  \/ \E c \in Controllers : Start(c) \/ Stop(c) \/ Rewind(c) \/ StopStep(c)
                              \/ RewindRestart(c)
  \/ \E n \in 1..MaxStarts :
       \/ LoopTick(n) \/ TickEnd(n) \/ LoopExit(n)
       \/ \E g \in Goals : StartPlan(n, g)
  \/ \E g \in Goals : Enqueue(g) \/ PlanStep(g)
  \/ HandlerStart \/ HandlerEnd
  \/ \E type \in EventTypes : ClientSubmit(type)
  \/ BusStep
  \/ SubscriberStep

Spec == Init /\ [][Next]_vars

(* Goroutines get to run, handlers return (their calls time out, and no    *)
(* handler of src waits for ever), a mutex goes to a waiter that keeps     *)
(* asking, and select picks the closed channel some time.                  *)
Fairness ==
  /\ \A c \in Controllers : SF_vars(StopStep(c))
  /\ \A n \in 1..MaxStarts : WF_vars(TickEnd(n)) /\ SF_vars(LoopExit(n))
  /\ \A g \in Goals : SF_vars(PlanStep(g))
  /\ WF_vars(HandlerEnd) /\ WF_vars(BusStep)

FairSpec == Spec /\ Fairness

-----------------------------------------------------------------------------
(* Properties. *)

StopPCs == {"stop", "bus", "dispatcher", "workers", "scheduler", "wait"}

\* Shape of the state.
TypeOK ==
  /\ BusTypeOK
  /\ running \in BOOLEAN /\ stopCh \in {"nil", "open", "closed"} /\ panicked \in BOOLEAN
  /\ caller \in [Controllers -> [pc : StopPCs \cup {"idle", "rebuild"}, rewind : BOOLEAN]]
  /\ dispatcher \in {"off", "on", "stopping"} /\ scheduler \in BOOLEAN
  /\ queued \in Nat /\ handlers \in Nat
  /\ loops \in [1..MaxStarts -> {"off", "waiting", "tick"}]
  /\ plans \in [Goals -> {"none", "execute", "submit", "publish", "tail"}]
  /\ initFailed \in BOOLEAN
  /\ starts \in 0..MaxStarts /\ planned \in 0..MaxPlans

\* kernel.go:81-169: a runtime that is not running runs nothing: no execution loop and
\* no plan that could still change a goal, and no worker, handler, scheduler or open
\* bus either, unless a plugin failed its Init.  While it runs there is one loop at
\* most, and one Stop at most is past its first step, whatever Stops, Starts and Rewinds
\* came before.
StoppedIsQuiet ==
  /\ LET stopping == {c \in Controllers : caller[c].pc \in StopPCs \ {"stop"}}
     IN  /\ Cardinality(stopping) <= 1
         /\ stopCh = "closed" <=> stopping # {}
  /\ Cardinality({n \in DOMAIN loops : loops[n] # "off"}) <= 1
  /\ ~running =>
       /\ Counted = {}
       /\ ~initFailed => /\ ~busRunning /\ ~scheduler
                         /\ dispatcher = "off" /\ handlers = 0

\* kernel.go:362-393 and event_bus.go:80-98,166-183: an event accepted while nobody stops
\* the runtime gets to every subscription that was open and stays open, once the
\* publication is over; no subscription gets an event twice or of another type.
EventsDelivered ==
  LET got == {delivered[i] : i \in DOMAIN delivered}
  IN  /\ \A d \in due :
            \/ d \in got
            \/ d[1] \notin subscribers
            \/ d[2] = publishing.event
      /\ Cardinality(got) = Len(delivered)
      /\ \A d \in got : ShouldDeliver(d[1], d[2])

\* kernel.go:143-169: a Stop that has begun ends, although plans in flight still need r.mu
\* to submit their events, unless a second Stop closes the channel again.
StopEnds ==
  \A c \in Controllers :
    caller[c].pc \in StopPCs ~> caller[c].pc \in {"idle", "rebuild"} \/ panicked
=============================================================================

-------------------------- MODULE Lifecycle_proofs --------------------------
(***************************************************************************)
(* Start, Stop, Rewind and the publication of events, for any number of    *)
(* controllers, goals, subscribers and plans.  StoppedIsQuiet needs to     *)
(* know what each step of Stop has already ended and that nothing starts   *)
(* it again before Stop is over (StopProgress); EventsDelivered needs to   *)
(* know whom the publication in progress still owes its event              *)
(* (PublicationSound) and that neither a subscription nor an event comes   *)
(* back under its old number (NumbersFresh).                               *)
(***************************************************************************)
EXTENDS Lifecycle, FiniteSetTheorems, TLAPS

Stopping(c) == caller[c].pc \in StopPCs \ {"stop"}
Working     == {"execute", "submit", "publish"}

\* Of the controllers one is past the first step of Stop at most, and of the loops
\* one runs at most; both only while the runtime runs, and so do the plans.
OneOfEach ==
  /\ \A c, d \in Controllers : Stopping(c) /\ Stopping(d) => c = d
  /\ stopCh = "closed" <=> \E c \in Controllers : Stopping(c)
  /\ running => stopCh \in {"open", "closed"}
  /\ stopCh = "closed" => running
  /\ \A m, n \in 1..MaxStarts : loops[m] # "off" /\ loops[n] # "off" => m = n
  /\ \A n \in 1..MaxStarts : loops[n] # "off" => running
  /\ \A g \in Goals : plans[g] \in Working => running

\* What the steps of Stop so far have ended is still over.
StopProgress ==
  /\ \A c \in Controllers :
       LET pc == caller[c].pc
       IN  /\ pc \in {"dispatcher", "workers", "scheduler", "wait"} => ~busRunning
           /\ pc = "workers" => dispatcher = "stopping"
           /\ pc \in {"scheduler", "wait"} => dispatcher = "off" /\ handlers = 0
           /\ pc = "wait" => ~scheduler
  /\ ~running /\ ~initFailed => /\ ~busRunning /\ ~scheduler
                                /\ dispatcher = "off" /\ handlers = 0
  /\ running /\ stopCh = "open" => busRunning

Subscriptions == [id : Subscribers, number : Nat, types : Filters]
Events        == [id : Nat \ {0}, type : EventTypes]
Got           == {delivered[i] : i \in DOMAIN delivered}

\* Numbers of subscriptions and of events go up.
NumbersFresh ==
  /\ submitted \in Nat
  /\ due \subseteq Subscriptions \X Events
  /\ delivered \in Seq(Subscriptions \X Events)
  /\ \A sub \in subscribers : sub.number <= subscribed[sub.id]
  /\ \A d \in due : d[1].number <= subscribed[d[1].id] /\ d[2].id <= submitted
  /\ \A d \in Got : d[2].id <= submitted

\* The publication in progress owes its event to those it has not come to yet.
PublicationSound ==
  /\ \A d \in due : ShouldDeliver(d[1], d[2])
  /\ publishing.pc = "none" => publishing = Quiet
  /\ publishing.pc # "none" =>
       /\ publishing \in [pc : {"copy", "deliver"}, event : Events,
                          targets : SUBSET Subscriptions]
       /\ publishing.event.id <= submitted
  /\ publishing.pc = "copy" => \A d \in Got : d[2] # publishing.event
  /\ publishing.pc = "deliver" =>
       /\ \A sub \in publishing.targets : <<sub, publishing.event>> \notin Got
       /\ \A d \in due : d[2] = publishing.event =>
            d \in Got \/ d[1] \notin subscribers \/ d[1] \in publishing.targets

KernelInv == TypeOK /\ OneOfEach /\ StopProgress
EventsInv == NumbersFresh /\ PublicationSound /\ EventsDelivered

IInv == KernelInv /\ EventsInv

-----------------------------------------------------------------------------
(* The kernel and its parts. *)

LEMMA KernelInit == Init => KernelInv
<1> SUFFICES ASSUME Init PROVE KernelInv
  OBVIOUS
<1>1. TypeOK
  <2>1. subscribed \in [Subscribers -> 0..MaxSubscriptions]
    BY BusAssumption DEF Init, BusInit
  <2>2. BusTypeOK
    BY <2>1 DEF Init, BusInit, BusTypeOK, Quiet
  <2>3. caller \in [Controllers -> [pc : StopPCs \cup {"idle", "rebuild"}, rewind : BOOLEAN]]
    BY DEF Init
  <2>4. starts \in 0..MaxStarts /\ planned \in 0..MaxPlans
    BY LifecycleAssumption DEF Init
  <2>5. /\ loops \in [1..MaxStarts -> {"off", "waiting", "tick"}]
        /\ plans \in [Goals -> {"none", "execute", "submit", "publish", "tail"}]
    BY DEF Init
  <2> QED BY <2>2, <2>3, <2>4, <2>5 DEF Init, TypeOK
<1>2. OneOfEach
  BY DEF Init, OneOfEach, Stopping, StopPCs, Working
<1>3. StopProgress
  BY DEF Init, BusInit, StopProgress
<1> QED BY <1>1, <1>2, <1>3 DEF KernelInv

\* Start, and the last step of Rewind, whose controller is not stopping.
LEMMA StartInv ==
  ASSUME KernelInv, StartUnlocked, UNCHANGED <<panicked, plans, planned>>,
         caller' = caller \/ \E c \in Controllers :
                               /\ caller[c].pc = "rebuild"
                               /\ caller' = [caller EXCEPT ![c] = [pc |-> "idle", rewind |-> FALSE]]
  PROVE  KernelInv'
<1>0. /\ caller' \in [Controllers -> [pc : StopPCs \cup {"idle", "rebuild"}, rewind : BOOLEAN]]
      /\ \A c \in Controllers : Stopping(c)' <=> Stopping(c)
      /\ \A c \in Controllers : caller'[c].pc # caller[c].pc => caller'[c].pc = "idle"
  <2>1. CASE caller' = caller
    BY <2>1 DEF KernelInv, TypeOK, Stopping
  <2>2. CASE caller' # caller
    <3>1. PICK c \in Controllers : /\ caller[c].pc = "rebuild"
                                   /\ caller' = [caller EXCEPT ![c] = [pc     |-> "idle",
                                                                      rewind |-> FALSE]]
      BY <2>2
    <3> QED BY <3>1 DEF KernelInv, TypeOK, Stopping, StopPCs
  <2> QED BY <2>1, <2>2
<1>1. CASE running /\ UNCHANGED <<busVars, running, stopCh, partVars, loops, initFailed, starts>>
  <2>1. TypeOK'
    BY <1>0, <1>1 DEF KernelInv, TypeOK, BusTypeOK, busVars, partVars
  <2>2. OneOfEach'
    BY <1>0, <1>1 DEF KernelInv, OneOfEach, partVars
  <2>3. StopProgress'
    BY <1>0, <1>1 DEF KernelInv, StopProgress, busVars, partVars
  <2> QED BY <2>1, <2>2, <2>3 DEF KernelInv
<1>2. CASE ~running /\ starts < MaxStarts /\ StartUnlocked
  <2>0. /\ starts' = starts + 1 /\ stopCh' = "open"
        /\ busRunning' = TRUE /\ dispatcher' = "on" /\ scheduler' = TRUE
        /\ running' \in BOOLEAN /\ initFailed' = ~running'
        /\ loops' = IF running' THEN [loops EXCEPT ![starts + 1] = "waiting"] ELSE loops
        /\ UNCHANGED <<subscribers, subscribed, publishing, delivered, queued, handlers>>
    BY <1>2, LifecycleAssumption DEF StartUnlocked
  <2>1. TypeOK'
    BY <1>0, <1>2, <2>0, LifecycleAssumption DEF KernelInv, TypeOK, BusTypeOK
  <2>2. /\ \A c \in Controllers : ~Stopping(c)
        /\ \A n \in 1..MaxStarts : loops[n] = "off"
        /\ \A g \in Goals : plans[g] \notin Working
    BY <1>2 DEF KernelInv, OneOfEach
  <2>3. OneOfEach'
    BY <1>0, <2>0, <2>2, LifecycleAssumption DEF KernelInv, TypeOK, OneOfEach, Working
  <2>4. StopProgress'
    BY <1>0, <2>0, <2>2 DEF StopProgress, Stopping, StopPCs
  <2> QED BY <2>1, <2>3, <2>4 DEF KernelInv
<1> QED BY <1>1, <1>2 DEF StartUnlocked

LEMMA StopBeginInv ==
  ASSUME KernelInv, NEW c \in Controllers, caller[c].pc \in {"idle", "stop"}, StopBegin(c)
  PROVE  KernelInv'
<1>0. /\ UNCHANGED <<busVars, running, partVars, loops, plans, initFailed, countVars>>
      /\ ~Stopping(c)
  BY DEF StopBegin, Stopping, StopPCs
<1>1. CASE ~running
  <2>0. /\ caller' = [caller EXCEPT ![c].pc = AfterStop(c)] /\ UNCHANGED <<stopCh, panicked>>
        /\ AfterStop(c) \in {"idle", "rebuild"}
    BY <1>1 DEF StopBegin, Goto, AfterStop
  <2>1. TypeOK'
    <3>1. caller' \in [Controllers -> [pc : StopPCs \cup {"idle", "rebuild"}, rewind : BOOLEAN]]
      BY <2>0 DEF KernelInv, TypeOK
    <3>2. BusTypeOK'
      BY <1>0 DEF KernelInv, TypeOK, BusTypeOK, busVars
    <3> QED BY <1>0, <2>0, <3>1, <3>2 DEF KernelInv, TypeOK, partVars, countVars
  <2>2. \A d \in Controllers : /\ Stopping(d)' <=> Stopping(d)
                               /\ \/ caller'[d].pc = caller[d].pc
                                  \/ caller'[d].pc \in {"idle", "rebuild"}
    BY <1>0, <2>0 DEF KernelInv, TypeOK, Stopping, StopPCs
  <2>3. OneOfEach'
    BY <1>0, <2>0, <2>2 DEF KernelInv, OneOfEach
  <2>4. StopProgress'
    BY <1>0, <2>0, <2>2 DEF KernelInv, StopProgress, busVars, partVars
  <2> QED BY <2>1, <2>3, <2>4 DEF KernelInv
<1>2. CASE running /\ stopCh = "closed"
  BY <1>0, <1>2 DEF StopBegin, KernelInv, TypeOK, BusTypeOK, OneOfEach, StopProgress, Stopping,
                    busVars, partVars, countVars
<1>3. CASE running /\ stopCh # "closed"
  <2>0. caller' = [caller EXCEPT ![c].pc = "bus"] /\ stopCh' = "closed" /\ panicked' = panicked
    BY <1>3 DEF StopBegin, Goto
  <2>1. TypeOK'
    BY <1>0, <2>0 DEF KernelInv, TypeOK, BusTypeOK, busVars, partVars, countVars, StopPCs
  <2>2. /\ \A d \in Controllers \ {c} : ~Stopping(d) /\ caller'[d] = caller[d]
        /\ caller'[c].pc = "bus"
    BY <1>3, <2>0 DEF KernelInv, TypeOK, OneOfEach
  <2>3. \A d \in Controllers : Stopping(d)' <=> d = c
    BY <2>2 DEF Stopping, StopPCs
  <2>4. OneOfEach'
    BY <1>0, <1>3, <2>0, <2>3 DEF KernelInv, OneOfEach
  <2>5. StopProgress'
    BY <1>0, <1>3, <2>0, <2>2 DEF KernelInv, StopProgress, Stopping, StopPCs, busVars, partVars
  <2> QED BY <2>1, <2>4, <2>5 DEF KernelInv
<1> QED BY <1>1, <1>2, <1>3

\* The steps of Stop that end a part, each of the only controller that stops.
LEMMA StopStepsInv ==
  ASSUME KernelInv, NEW c \in Controllers,
         StopBus(c) \/ StopDispatcher(c) \/ WorkersGone(c) \/ StopScheduler(c)
  PROVE  KernelInv'
<1>0. /\ UNCHANGED <<subscribers, subscribed, publishing, running, stopCh, panicked, loops,
                     plans, initFailed, countVars>>
      /\ Stopping(c) /\ caller[c].pc # "wait"
      /\ caller' \in [Controllers -> [pc : StopPCs \cup {"idle", "rebuild"}, rewind : BOOLEAN]]
      /\ \A d \in Controllers \ {c} : caller'[d] = caller[d]
      /\ caller'[c].pc \in StopPCs \ {"stop"}
  <2>1. \E pc \in StopPCs \ {"stop"} : caller' = [caller EXCEPT ![c].pc = pc]
    BY DEF StopBus, StopDispatcher, WorkersGone, StopScheduler, Goto, StopPCs
  <2>2. /\ Stopping(c) /\ caller[c].pc # "wait"
        /\ UNCHANGED <<subscribers, subscribed, publishing, running, stopCh, panicked, loops,
                       plans, initFailed, countVars>>
    BY DEF StopBus, StopDispatcher, WorkersGone, StopScheduler, busVars, Stopping, StopPCs
  <2> QED BY <2>1, <2>2 DEF KernelInv, TypeOK
<1>1. /\ \A d \in Controllers : Stopping(d)' <=> Stopping(d)
      /\ \A d \in Controllers : Stopping(d) => d = c
      /\ stopCh = "closed" /\ running
  BY <1>0 DEF Stopping, KernelInv, OneOfEach
<1>2. OneOfEach'
  BY <1>0, <1>1 DEF KernelInv, OneOfEach
<1>3. \A d \in Controllers \ {c} : caller'[d].pc \in {"idle", "rebuild", "stop"}
  BY <1>0, <1>1 DEF Stopping, KernelInv, TypeOK
<1>4. TypeOK'
  <2>1. /\ busRunning' \in BOOLEAN /\ dispatcher' \in {"off", "on", "stopping"}
        /\ scheduler' \in BOOLEAN /\ UNCHANGED <<queued, handlers>>
    BY DEF StopBus, StopDispatcher, WorkersGone, StopScheduler, KernelInv, TypeOK, BusTypeOK,
           busVars, partVars
  <2> QED BY <1>0, <2>1 DEF KernelInv, TypeOK, BusTypeOK, countVars
<1>5. StopProgress'
  <2> USE <1>0, <1>1, <1>3 DEF Goto, KernelInv, TypeOK, StopProgress
  <2>1. CASE StopBus(c)
    BY <2>1 DEF StopBus, partVars
  <2>2. CASE StopDispatcher(c)
    BY <2>2 DEF StopDispatcher, busVars
  <2>3. CASE WorkersGone(c)
    BY <2>3 DEF WorkersGone, busVars
  <2>4. CASE StopScheduler(c)
    BY <2>4 DEF StopScheduler, busVars
  <2> QED BY <2>1, <2>2, <2>3, <2>4
<1> QED BY <1>2, <1>4, <1>5 DEF KernelInv

LEMMA StopEndInv ==
  ASSUME KernelInv, NEW c \in Controllers, StopEnd(c)
  PROVE  KernelInv'
<1>0. /\ running' = FALSE /\ stopCh' = "nil"
      /\ UNCHANGED <<busVars, panicked, partVars, loops, plans, initFailed, countVars>>
      /\ caller[c].pc = "wait" /\ caller' = [caller EXCEPT ![c].pc = AfterStop(c)]
      /\ AfterStop(c) \in {"idle", "rebuild"}
  BY DEF StopEnd, Goto, AfterStop
<1>1. /\ \A n \in 1..MaxStarts : loops[n] = "off"
      /\ \A g \in Goals : plans[g] \notin Working
  BY DEF StopEnd, Counted, KernelInv, TypeOK, Working
<1>2. \A d \in Controllers \ {c} : ~Stopping(d) /\ caller'[d] = caller[d]
  BY <1>0 DEF Stopping, StopPCs, KernelInv, TypeOK, OneOfEach
<1>3. caller'[c].pc \in {"idle", "rebuild"} /\ \A d \in Controllers : ~Stopping(d)'
  BY <1>0, <1>2 DEF Stopping, StopPCs, KernelInv, TypeOK
<1>4. TypeOK'
  BY <1>0 DEF KernelInv, TypeOK, BusTypeOK, busVars, partVars, countVars
<1>5. OneOfEach'
  BY <1>0, <1>1, <1>3 DEF OneOfEach
<1>6. StopProgress'
  BY <1>0, <1>2, <1>3 DEF KernelInv, StopProgress, Stopping, StopPCs, busVars, partVars
<1> QED BY <1>4, <1>5, <1>6 DEF KernelInv

\* The execution loop and its plans: what they do, they do while the runtime runs.
LEMMA LoopInv ==
  ASSUME KernelInv, NEW n \in 1..MaxStarts,
         \/ LoopTick(n) \/ TickEnd(n) \/ LoopExit(n)
         \/ \E g \in Goals : StartPlan(n, g)
  PROVE  KernelInv'
<1>0. /\ loops[n] # "off" /\ running
      /\ UNCHANGED <<busVars, kernelVars, partVars, initFailed, starts>>
  BY DEF LoopTick, TickEnd, LoopExit, StartPlan, KernelInv, OneOfEach, countVars
<1>1. /\ loops' \in [1..MaxStarts -> {"off", "waiting", "tick"}]
      /\ \A m \in 1..MaxStarts : loops'[m] # "off" => loops[m] # "off"
  BY DEF LoopTick, TickEnd, LoopExit, StartPlan, KernelInv, TypeOK
<1>2. /\ plans' \in [Goals -> {"none", "execute", "submit", "publish", "tail"}]
      /\ planned' \in 0..MaxPlans
  BY LifecycleAssumption DEF LoopTick, TickEnd, LoopExit, StartPlan, KernelInv, TypeOK, countVars
<1>3. TypeOK'
  BY <1>0, <1>1, <1>2 DEF KernelInv, TypeOK, BusTypeOK, busVars, kernelVars, partVars
<1>4. OneOfEach'
  BY <1>0, <1>1 DEF KernelInv, OneOfEach, Stopping, kernelVars
<1>5. StopProgress'
  BY <1>0 DEF KernelInv, StopProgress, busVars, kernelVars, partVars
<1> QED BY <1>3, <1>4, <1>5 DEF KernelInv

\* A worker runs a handler only before the last of them is gone.
LEMMA HandlerInv ==
  ASSUME KernelInv, (\E g \in Goals : Enqueue(g)) \/ HandlerStart \/ HandlerEnd
  PROVE  KernelInv'
<1>0. UNCHANGED <<busVars, kernelVars, dispatcher, scheduler, loops, plans, initFailed, countVars>>
  BY DEF Enqueue, HandlerStart, HandlerEnd
<1>1. /\ queued' \in Nat /\ handlers' \in Nat
      /\ dispatcher = "off" /\ handlers = 0 => handlers' = 0
  BY DEF Enqueue, HandlerStart, HandlerEnd, KernelInv, TypeOK
<1>2. TypeOK'
  BY <1>0, <1>1 DEF KernelInv, TypeOK, BusTypeOK, busVars, kernelVars, countVars
<1>3. OneOfEach' /\ StopProgress'
  BY <1>0, <1>1 DEF KernelInv, OneOfEach, StopProgress, Stopping, busVars, kernelVars
<1> QED BY <1>2, <1>3 DEF KernelInv

\* Steps of plans, clients, the bus and its subscribers: they leave the kernel's
\* fields and parts alone, and a plan at work was at work before.
LEMMA OthersInv ==
  ASSUME KernelInv,
         UNCHANGED <<busRunning, kernelVars, partVars, loops, initFailed, starts, planned>>,
         BusTypeOK',
         plans' \in [Goals -> {"none", "execute", "submit", "publish", "tail"}],
         \A g \in Goals : plans'[g] \in Working => plans[g] \in Working
  PROVE  KernelInv'
<1>1. TypeOK'
  BY DEF KernelInv, TypeOK, kernelVars, partVars
<1>2. OneOfEach' /\ StopProgress'
  BY DEF KernelInv, OneOfEach, StopProgress, Stopping, kernelVars, partVars
<1> QED BY <1>1, <1>2 DEF KernelInv
-----------------------------------------------------------------------------
(* The events. *)

\* The parts of EventsDelivered.
Reached(d) == d \in Got \/ d[1] \notin subscribers \/ d[2] = publishing.event
DueReached   == \A d \in due : Reached(d)
NoneTwice    == Cardinality(Got) = Len(delivered)
GotWanted    == \A d \in Got : ShouldDeliver(d[1], d[2])

LEMMA GotFinite == delivered \in Seq(Subscriptions \X Events) => IsFiniteSet(Got)
<1> SUFFICES ASSUME delivered \in Seq(Subscriptions \X Events) PROVE IsFiniteSet(Got)
  OBVIOUS
<1>1. DOMAIN delivered = 1..Len(delivered) /\ Len(delivered) \in Nat
  OBVIOUS
<1>2. IsFiniteSet(1..Len(delivered))
  BY <1>1, FS_Interval
<1> DEFINE f == [i \in 1..Len(delivered) |-> delivered[i]]
<1>3. f \in Surjection(1..Len(delivered), Got)
  BY <1>1 DEF Got, Surjection
<1> QED BY <1>2, <1>3, FS_Surjection

LEMMA EventsParts == EventsDelivered <=> DueReached /\ NoneTwice /\ GotWanted
BY DEF EventsDelivered, DueReached, Reached, NoneTwice, GotWanted, Got

LEMMA EventsInit == Init => EventsInv
<1> SUFFICES ASSUME Init PROVE EventsInv
  OBVIOUS
<1>1. delivered = << >> /\ due = {} /\ subscribers = {} /\ submitted = 0 /\ publishing = Quiet
  BY DEF Init, BusInit
<1>2. Got = {} /\ delivered \in Seq(Subscriptions \X Events) /\ Len(delivered) = 0
  BY <1>1 DEF Got
<1>3. NumbersFresh
  BY <1>1, <1>2 DEF NumbersFresh
<1>4. PublicationSound
  BY <1>1 DEF PublicationSound, Quiet
<1>5. EventsDelivered
  BY <1>1, <1>2, EventsParts, FS_EmptySet DEF DueReached, NoneTwice, GotWanted
<1> QED BY <1>3, <1>4, <1>5 DEF EventsInv

LEMMA EventsUntouched ==
  ASSUME EventsInv, UNCHANGED <<subscribers, subscribed, publishing, delivered, submitted, due>>
  PROVE  EventsInv'
<1>1. Subscriptions' = Subscriptions /\ Events' = Events /\ Got' = Got
  BY DEF Subscriptions, Events, Got
<1>2. NumbersFresh'
  BY <1>1 DEF EventsInv, NumbersFresh
<1>3. PublicationSound'
  BY <1>1 DEF EventsInv, PublicationSound, ShouldDeliver
<1>4. EventsDelivered'
  BY <1>1 DEF EventsInv, EventsDelivered
<1> QED BY <1>2, <1>3, <1>4 DEF EventsInv

\* A new subscription has a number of its own, so no event is owed to it.
LEMMA SubscriberInv ==
  ASSUME BusTypeOK, EventsInv, NEW id \in Subscribers, UNCHANGED <<submitted, due>>,
         (\E types \in Filters : Subscribe(id, types)) \/ Unsubscribe(id)
  PROVE  BusTypeOK' /\ EventsInv'
<1>0. /\ UNCHANGED <<busRunning, publishing, delivered>>
      /\ delivered \in Seq(Subscriptions \X Events) /\ due \subseteq Subscriptions \X Events
  BY DEF Subscribe, Unsubscribe, EventsInv, NumbersFresh
<1> DEFINE Grow == \A i \in Subscribers : /\ subscribed[i] \in Nat /\ subscribed'[i] \in Nat
                                           /\ subscribed'[i] >= subscribed[i]
           Numbered == \A sub \in subscribers' : sub.number <= subscribed'[sub.id]
           NoneBack == \A d \in due : d[1] \in subscribers' => d[1] \in subscribers
<1>1. BusTypeOK' /\ Grow /\ Numbered /\ NoneBack
  <2>1. ASSUME NEW types \in Filters, Subscribe(id, types)
        PROVE  BusTypeOK' /\ Grow /\ Numbered /\ NoneBack
    <3> DEFINE new == [id |-> id, number |-> subscribed[id] + 1, types |-> types]
    <3>1. /\ subscribers' = subscribers \cup {new}
          /\ subscribed' = [subscribed EXCEPT ![id] = @ + 1]
          /\ \A sub \in subscribers : sub.id # id
          /\ subscribed[id] \in 0..MaxSubscriptions /\ subscribed[id] < MaxSubscriptions
      BY <2>1 DEF Subscribe, BusTypeOK
    <3>2. /\ new \in [id : Subscribers, number : 1..MaxSubscriptions, types : Filters]
          /\ new.id = id /\ new.number = subscribed[id] + 1
      BY <3>1, BusAssumption
    <3>3. subscribed' \in [Subscribers -> 0..MaxSubscriptions]
      BY <3>1, BusAssumption DEF BusTypeOK
    <3>4. BusTypeOK'
      BY <1>0, <3>1, <3>2, <3>3 DEF BusTypeOK
    <3>5. Grow
      BY <3>1, <3>3, BusAssumption DEF BusTypeOK
    <3>6. Numbered
      BY <3>1, <3>2 DEF BusTypeOK, EventsInv, NumbersFresh
    <3>7. \A d \in due : d[1] # new
      BY <3>1, <3>2 DEF EventsInv, NumbersFresh
    <3> QED BY <3>1, <3>4, <3>5, <3>6, <3>7
  <2>2. CASE Unsubscribe(id)
    <3>1. subscribers' \subseteq subscribers /\ UNCHANGED <<busRunning, subscribed, publishing>>
      BY <2>2 DEF Unsubscribe
    <3> QED BY <3>1, BusAssumption DEF BusTypeOK, EventsInv, NumbersFresh
  <2> QED BY <2>1, <2>2
<1>2. NumbersFresh'
  <2>1. \A d \in due : d[1].id \in Subscribers /\ d[1].number \in Nat
    BY <1>0 DEF Subscriptions
  <2>2. \A d \in due : d[1].number <= subscribed'[d[1].id]
    BY <1>1, <2>1 DEF EventsInv, NumbersFresh
  <2> QED BY <1>0, <1>1, <2>2 DEF EventsInv, NumbersFresh, Got, Subscriptions, Events
<1>3. PublicationSound'
  BY <1>0, <1>1 DEF EventsInv, PublicationSound, Got, Subscriptions, Events
<1>4. EventsDelivered'
  BY <1>0, <1>1 DEF EventsInv, EventsDelivered, ShouldDeliver
<1> QED BY <1>1, <1>2, <1>3, <1>4 DEF EventsInv
LEMMA CopyInv ==
  ASSUME BusTypeOK, EventsInv, CopySubscribers, UNCHANGED <<submitted, due>>
  PROVE  BusTypeOK' /\ EventsInv'
<1>0. /\ publishing.pc = "copy"
      /\ publishing' = [publishing EXCEPT !.pc = "deliver", !.targets = subscribers]
      /\ UNCHANGED <<busRunning, subscribers, subscribed, delivered, submitted, due>>
      /\ publishing \in [pc : {"copy", "deliver"}, event : Events, targets : SUBSET Subscriptions]
  BY DEF CopySubscribers, EventsInv, PublicationSound
<1>1. /\ publishing'.pc = "deliver" /\ publishing'.event = publishing.event
      /\ publishing'.targets = subscribers
      /\ publishing' \in [pc : {"copy", "deliver"}, event : Events, targets : SUBSET Subscriptions]
  <2>1. subscribers \subseteq Subscriptions
    BY BusAssumption DEF BusTypeOK, Subscriptions
  <2> QED BY <1>0, <2>1
<1>2. BusTypeOK'
  BY <1>0, <1>1 DEF BusTypeOK
<1>3. NumbersFresh'
  BY <1>0 DEF EventsInv, NumbersFresh, Got, Subscriptions, Events
<1>4. PublicationSound'
  BY <1>0, <1>1 DEF EventsInv, PublicationSound, Got, Subscriptions, Events
<1>5. EventsDelivered'
  BY <1>0, <1>1 DEF EventsInv, EventsDelivered, ShouldDeliver
<1> QED BY <1>2, <1>3, <1>4, <1>5 DEF EventsInv

\* A handler is started for a subscription that has not had the event: the
\* publication comes to each of its targets once.
LEMMA DeliverInv ==
  ASSUME BusTypeOK, EventsInv, NEW sub \in publishing.targets, Deliver(sub),
         UNCHANGED <<submitted, due>>
  PROVE  BusTypeOK' /\ EventsInv'
<1> DEFINE item == <<sub, publishing.event>>
<1>0. /\ publishing.pc = "deliver"
      /\ publishing' = [publishing EXCEPT !.targets = @ \ {sub}]
      /\ UNCHANGED <<busRunning, subscribers, subscribed, submitted, due>>
      /\ publishing \in [pc : {"copy", "deliver"}, event : Events, targets : SUBSET Subscriptions]
      /\ publishing.event.id <= submitted
      /\ delivered \in Seq(Subscriptions \X Events)
  BY DEF Deliver, EventsInv, PublicationSound, NumbersFresh
<1>1. /\ publishing'.pc = "deliver" /\ publishing'.event = publishing.event
      /\ publishing'.targets = publishing.targets \ {sub}
      /\ publishing' \in [pc : {"copy", "deliver"}, event : Events, targets : SUBSET Subscriptions]
  BY <1>0
<1>2. BusTypeOK'
  BY <1>0, <1>1 DEF BusTypeOK
<1>3. item \notin Got /\ item \in Subscriptions \X Events
  BY <1>0 DEF EventsInv, PublicationSound
<1>4. /\ delivered' \in Seq(Subscriptions \X Events)
      /\ \/ /\ ~(ShouldDeliver(sub, publishing.event) /\ sub \in subscribers)
            /\ Got' = Got /\ Len(delivered') = Len(delivered)
         \/ /\ ShouldDeliver(sub, publishing.event)
            /\ Got' = Got \cup {item} /\ Len(delivered') = Len(delivered) + 1
  <2>1. CASE ShouldDeliver(sub, publishing.event) /\ sub \in subscribers
    <3>1. delivered' = Append(delivered, item)
      BY <2>1 DEF Deliver
    <3> HIDE DEF item
    <3>2. /\ delivered' \in Seq(Subscriptions \X Events) /\ Len(delivered') = Len(delivered) + 1
          /\ \A i \in 1..Len(delivered) : delivered'[i] = delivered[i]
          /\ delivered'[Len(delivered) + 1] = item
          /\ DOMAIN delivered' = 1..Len(delivered) + 1 /\ DOMAIN delivered = 1..Len(delivered)
      BY <1>0, <1>3, <3>1
    <3>3. Got' = Got \cup {item}
      BY <3>2 DEF Got
    <3> QED BY <2>1, <3>2, <3>3
  <2>2. CASE ~(ShouldDeliver(sub, publishing.event) /\ sub \in subscribers)
    BY <1>0, <2>2 DEF Deliver, Got
  <2> QED BY <2>1, <2>2
<1>5. Got' = Got \/ Got' = Got \cup {item}
  BY <1>4
<1>6. NumbersFresh'
  BY <1>0, <1>3, <1>4, <1>5 DEF EventsInv, NumbersFresh, Subscriptions, Events
<1>7. \A d \in due : d[2] = publishing.event =>
        d \in Got' \/ d[1] \notin subscribers' \/ d[1] \in publishing'.targets
  <2> SUFFICES ASSUME NEW d \in due, d[2] = publishing.event, d[1] \in subscribers, d \notin Got,
                      d[1] = sub
               PROVE  d \in Got'
    BY <1>0, <1>1, <1>5 DEF EventsInv, PublicationSound
  <2>1. d = item /\ ShouldDeliver(sub, publishing.event)
    <3>1. PICK s \in Subscriptions, e \in Events : d = <<s, e>>
      BY <1>0 DEF EventsInv, NumbersFresh
    <3> QED BY <3>1 DEF EventsInv, PublicationSound
  <2> QED BY <1>0, <1>1, <1>3, <1>4, <2>1
<1>8. PublicationSound'
  BY <1>0, <1>1, <1>3, <1>5, <1>7 DEF EventsInv, PublicationSound, Subscriptions, Events
<1>9. EventsDelivered'
  <2>1. DueReached /\ NoneTwice /\ GotWanted
    BY <1>0, EventsParts DEF EventsInv
  <2>2. DueReached'
    BY <1>0, <1>1, <1>5, <2>1 DEF DueReached, Reached
  <2>3. NoneTwice'
    <3>1. IsFiniteSet(Got) /\ Len(delivered) \in Nat
      BY <1>0, GotFinite
    <3>2. Cardinality(Got \cup {item}) = Cardinality(Got) + 1
      BY <1>3, <3>1, FS_AddElement
    <3> QED BY <1>4, <2>1, <3>2 DEF NoneTwice
  <2>4. GotWanted'
    BY <1>4, <2>1 DEF GotWanted, ShouldDeliver
  <2> QED BY <2>2, <2>3, <2>4
       DEF EventsDelivered, DueReached, Reached, NoneTwice, GotWanted, Got
<1> QED BY <1>2, <1>6, <1>8, <1>9 DEF EventsInv
LEMMA PublishedInv ==
  ASSUME BusTypeOK, EventsInv, Published, UNCHANGED <<submitted, due>>
  PROVE  BusTypeOK' /\ EventsInv'
<1>0. /\ publishing.pc = "deliver" /\ publishing.targets = {} /\ publishing' = Quiet
      /\ UNCHANGED <<busRunning, subscribers, subscribed, delivered, submitted, due>>
  BY DEF Published
<1>1. BusTypeOK'
  BY <1>0 DEF BusTypeOK, Quiet
<1>2. NumbersFresh' /\ PublicationSound'
  BY <1>0 DEF EventsInv, NumbersFresh, PublicationSound, Got, Subscriptions, Events, Quiet
<1>3. DueReached'
  BY <1>0 DEF EventsInv, PublicationSound, EventsDelivered, DueReached, Reached, Got
<1>4. EventsDelivered'
  BY <1>0, <1>3 DEF EventsInv, EventsDelivered, DueReached, Reached, ShouldDeliver, Got
<1> QED BY <1>1, <1>2, <1>4 DEF EventsInv

\* An event accepted: a new number, and published while nobody stops the runtime.
LEMMA AcceptInv ==
  ASSUME KernelInv, EventsInv, NEW type \in EventTypes, Accept(NewEvent(type))
  PROVE  BusTypeOK' /\ EventsInv'
<1> DEFINE event == NewEvent(type)
<1>0. /\ publishing = Quiet /\ submitted \in Nat /\ submitted' = submitted + 1
      /\ publishing' = IF busRunning THEN [pc |-> "copy", event |-> event, targets |-> {}]
                                     ELSE Quiet
      /\ due' = due \cup Owed(event)
      /\ UNCHANGED <<busRunning, subscribers, subscribed, delivered>>
      /\ BusTypeOK /\ due \subseteq Subscriptions \X Events
      /\ delivered \in Seq(Subscriptions \X Events)
  BY DEF Accept, Publish, EventsInv, NumbersFresh, KernelInv, TypeOK
<1>1. event \in Events /\ event.id = submitted + 1
  BY <1>0 DEF NewEvent, Events
<1> HIDE DEF event
<1>2. \A d \in Owed(event) : /\ d[1] \in subscribers /\ d[2] = event
                             /\ d \in Subscriptions \X Events /\ busRunning
                             /\ ShouldDeliver(d[1], d[2])
  <2>1. subscribers \subseteq Subscriptions
    BY <1>0, BusAssumption DEF BusTypeOK, Subscriptions
  <2> QED BY <1>1, <2>1 DEF Owed, KernelInv, StopProgress
<1>3. \A d \in due \cup Got : d[2] # event /\ d[2].id \in Nat /\ d[2].id <= submitted
  <2>1. Got \subseteq Subscriptions \X Events
    BY <1>0 DEF Got
  <2> QED BY <1>0, <1>1, <2>1 DEF EventsInv, NumbersFresh, Events
<1>4. BusTypeOK'
  BY <1>0 DEF BusTypeOK, Quiet
<1>5. NumbersFresh'
  <2>1. Got' = Got
    BY <1>0 DEF Got
  <2>2. due' \subseteq Subscriptions \X Events
    BY <1>0, <1>2
  <2>3. \A d \in due' : d[1].number <= subscribed[d[1].id] /\ d[2].id <= submitted + 1
    BY <1>0, <1>1, <1>2, <1>3 DEF EventsInv, NumbersFresh
  <2> QED BY <1>0, <1>3, <2>1, <2>2, <2>3
       DEF EventsInv, NumbersFresh, Subscriptions, Events
<1>6. PublicationSound'
  <2>0. \A d \in due' : ShouldDeliver(d[1], d[2])'
    BY <1>0, <1>2 DEF EventsInv, PublicationSound, ShouldDeliver
  <2>1. CASE busRunning
    BY <2>0, <2>1, <1>0, <1>1, <1>3 DEF PublicationSound, Got, Subscriptions, Events
  <2>2. CASE ~busRunning
    BY <2>0, <2>2, <1>0 DEF PublicationSound, Quiet
  <2> QED BY <2>1, <2>2
<1>7. DueReached'
  <2>1. \A d \in due : d \in Got \/ d[1] \notin subscribers
    <3>1. \A d \in due : d[2] # NoEvent
      BY <1>0 DEF Events, NoEvent
    <3> QED BY <1>0, <3>1 DEF EventsInv, EventsDelivered, Got, Quiet
  <2>2. \A d \in Owed(event) : d[2] = publishing'.event
    BY <1>0, <1>2
  <2> QED BY <1>0, <2>1, <2>2 DEF DueReached, Reached, Got
<1>8. EventsDelivered'
  BY <1>0, <1>7 DEF EventsInv, EventsDelivered, DueReached, Reached, ShouldDeliver, Got
<1> QED BY <1>4, <1>5, <1>6, <1>8 DEF EventsInv
LEMMA AtMostOne ==
  ASSUME NEW S, \A x, y \in S : x = y
  PROVE  Cardinality(S) <= 1
<1>1. CASE S = {}
  BY <1>1, FS_EmptySet
<1>2. CASE S # {}
  <2>1. PICK x \in S : S = {x}
    BY <1>2
  <2> QED BY <2>1, FS_Singleton
<1> QED BY <1>1, <1>2

-----------------------------------------------------------------------------
LEMMA NextInv == IInv /\ [Next]_vars => IInv'
<1> SUFFICES ASSUME IInv, [Next]_vars PROVE IInv'
  OBVIOUS
<1>0. KernelInv /\ EventsInv /\ TypeOK /\ BusTypeOK
  BY DEF IInv, KernelInv, TypeOK
<1>1. ASSUME NEW c \in Controllers, Start(c) PROVE IInv'
  <2>1. EventsInv'
    BY <1>0, <1>1, EventsUntouched DEF Start, StartUnlocked, busVars
  <2> QED BY <1>0, <1>1, <2>1, StartInv DEF Start, IInv
<1>2. ASSUME NEW c \in Controllers, RewindRestart(c) PROVE IInv'
  <2>1. EventsInv'
    BY <1>0, <1>2, EventsUntouched DEF RewindRestart, StartUnlocked, busVars
  <2> QED BY <1>0, <1>2, <2>1, StartInv DEF RewindRestart, IInv
<1>3. ASSUME NEW c \in Controllers, Stop(c) \/ RewindStop(c) PROVE IInv'
  <2>1. StopBegin(c) /\ caller[c].pc \in {"idle", "stop"}
    BY <1>3 DEF Stop, RewindStop, Idle
  <2>2. EventsInv'
    BY <1>0, <2>1, EventsUntouched DEF StopBegin, busVars, countVars
  <2> QED BY <1>0, <2>1, <2>2, StopBeginInv DEF IInv
<1>4. ASSUME NEW c \in Controllers, Rewind(c) PROVE IInv'
  <2>1. EventsInv'
    BY <1>0, <1>4, EventsUntouched DEF Rewind, busVars, countVars
  <2>2. /\ caller' = [caller EXCEPT ![c] = [pc |-> "stop", rewind |-> TRUE]]
        /\ ~Stopping(c)
        /\ UNCHANGED <<busVars, running, stopCh, panicked, partVars, loops, plans,
                       initFailed, countVars>>
    BY <1>4 DEF Rewind, Idle, Stopping, StopPCs
  <2>3. TypeOK'
    BY <1>0, <2>2 DEF TypeOK, BusTypeOK, busVars, partVars, countVars, StopPCs
  <2>4. \A d \in Controllers : /\ Stopping(d)' <=> Stopping(d)
                               /\ caller'[d] = caller[d] \/ caller'[d].pc = "stop"
    BY <1>0, <2>2 DEF TypeOK, Stopping, StopPCs
  <2>5. OneOfEach' /\ StopProgress'
    BY <1>0, <2>2, <2>4 DEF KernelInv, OneOfEach, StopProgress, busVars, partVars
  <2> QED BY <2>1, <2>3, <2>5 DEF IInv, KernelInv
<1>5. ASSUME NEW c \in Controllers,
             StopBus(c) \/ StopDispatcher(c) \/ WorkersGone(c) \/ StopScheduler(c)
      PROVE  IInv'
  <2>1. EventsInv'
    BY <1>0, <1>5, EventsUntouched
    DEF StopBus, StopDispatcher, WorkersGone, StopScheduler, busVars, countVars
  <2> QED BY <1>0, <1>5, <2>1, StopStepsInv DEF IInv
<1>6. ASSUME NEW c \in Controllers, StopEnd(c) PROVE IInv'
  <2>1. EventsInv'
    BY <1>0, <1>6, EventsUntouched DEF StopEnd, busVars, countVars
  <2> QED BY <1>0, <1>6, <2>1, StopEndInv DEF IInv
<1>7. ASSUME NEW n \in 1..MaxStarts,
             \/ LoopTick(n) \/ TickEnd(n) \/ LoopExit(n)
             \/ \E g \in Goals : StartPlan(n, g)
      PROVE  IInv'
  <2>1. EventsInv'
    BY <1>0, <1>7, EventsUntouched DEF LoopTick, TickEnd, LoopExit, StartPlan, busVars, countVars
  <2> QED BY <1>0, <1>7, <2>1, LoopInv DEF IInv
<1>8. ASSUME (\E g \in Goals : Enqueue(g)) \/ HandlerStart \/ HandlerEnd PROVE IInv'
  <2>1. EventsInv'
    BY <1>0, <1>8, EventsUntouched DEF Enqueue, HandlerStart, HandlerEnd, busVars, countVars
  <2> QED BY <1>0, <1>8, <2>1, HandlerInv DEF IInv
<1>9. ASSUME NEW g \in Goals, NEW at \in {"submit", "publish", "tail", "none"},
             plans' = [plans EXCEPT ![g] = at], plans[g] \in Working \/ at = "none",
             UNCHANGED <<busRunning, kernelVars, partVars, loops, initFailed, starts, planned>>,
             BusTypeOK', EventsInv'
      PROVE  IInv'
  <2>1. /\ plans' \in [Goals -> {"none", "execute", "submit", "publish", "tail"}]
        /\ \A h \in Goals : plans'[h] \in Working => plans[h] \in Working
    BY <1>0, <1>9 DEF TypeOK, Working
  <2> QED BY <1>0, <1>9, <2>1, OthersInv DEF IInv
<1>10. ASSUME NEW g \in Goals, ExecuteReturns(g) \/ PlanPublished(g) \/ PlanTail(g) PROVE IInv'
  <2>1. /\ UNCHANGED <<busVars, kernelVars, partVars, loops, initFailed, countVars, due>>
        /\ \E at \in {"submit", "publish", "tail", "none"} :
             plans' = [plans EXCEPT ![g] = at] /\ (plans[g] \in Working \/ at = "none")
    BY <1>10 DEF ExecuteReturns, PlanPublished, PlanTail, Working
  <2>2. EventsInv' /\ BusTypeOK'
    BY <1>0, <2>1, EventsUntouched DEF busVars, countVars, BusTypeOK
  <2> QED BY <1>9, <2>1, <2>2 DEF busVars, countVars
<1>11. ASSUME NEW g \in Goals, PlanSubmit(g) PROVE IInv'
  <2>1. CASE running
    <3>1. /\ Accept(NewEvent(ActionEvent)) /\ plans' = [plans EXCEPT ![g] = "publish"]
          /\ plans[g] \in Working
          /\ UNCHANGED <<busRunning, kernelVars, partVars, loops, initFailed, starts, planned>>
      BY <1>11, <2>1 DEF PlanSubmit, Accept, Publish, Working
    <3>2. BusTypeOK' /\ EventsInv'
      BY <1>0, <3>1, LifecycleAssumption, AcceptInv
    <3> QED BY <1>9, <3>1, <3>2
  <2>2. CASE ~running
    <3>1. /\ plans' = [plans EXCEPT ![g] = "tail"] /\ plans[g] \in Working
          /\ UNCHANGED <<busVars, kernelVars, partVars, loops, initFailed, countVars, due>>
      BY <1>11, <2>2 DEF PlanSubmit, Working, countVars
    <3>2. BusTypeOK' /\ EventsInv'
      BY <1>0, <3>1, EventsUntouched DEF busVars, countVars, BusTypeOK
    <3> QED BY <1>9, <3>1, <3>2 DEF busVars, countVars
  <2> QED BY <2>1, <2>2
<1>12. ASSUME NEW type \in EventTypes, ClientSubmit(type) PROVE IInv'
  <2>1. /\ Accept(NewEvent(type))
        /\ UNCHANGED <<busRunning, kernelVars, partVars, loops, plans, initFailed, starts, planned>>
    BY <1>12 DEF ClientSubmit, Accept, Publish
  <2>2. BusTypeOK' /\ EventsInv'
    BY <1>0, <2>1, AcceptInv
  <2> QED BY <1>0, <2>1, <2>2, OthersInv DEF IInv, TypeOK
<1>13. ASSUME BusStep \/ SubscriberStep PROVE IInv'
  <2>1. UNCHANGED <<kernelVars, partVars, loops, plans, initFailed, countVars, due>>
    BY <1>13 DEF BusStep, SubscriberStep
  <2>2. BusTypeOK' /\ EventsInv'
    BY <1>0, <1>13, <2>1, CopyInv, DeliverInv, PublishedInv, SubscriberInv
    DEF BusStep, SubscriberStep, countVars
  <2>3. busRunning' = busRunning
    BY <1>13 DEF BusStep, SubscriberStep, CopySubscribers, Deliver, Published, Subscribe,
                 Unsubscribe
  <2> QED BY <1>0, <2>1, <2>2, <2>3, OthersInv DEF IInv, TypeOK, countVars
<1>14. CASE UNCHANGED vars
  <2>1. KernelInv'
    BY <1>0, <1>14, OthersInv DEF vars, busVars, countVars, TypeOK, BusTypeOK
  <2> QED BY <1>0, <1>14, <2>1, EventsUntouched DEF vars, busVars, countVars, IInv
<1> QED
  BY <1>1, <1>2, <1>3, <1>4, <1>5, <1>6, <1>7, <1>8, <1>10, <1>11, <1>12, <1>13, <1>14
  DEF Next, StopStep, PlanStep

LEMMA InvHolds == Spec => []IInv
<1>1. Init => IInv
  BY KernelInit, EventsInit DEF IInv
<1>2. IInv /\ [Next]_vars => IInv'
  BY NextInv
<1> QED BY <1>1, <1>2, PTL DEF Spec

\* The fields of the kernel, its parts and the bus keep their shape.
THEOREM TypeCorrect == Spec => []TypeOK
<1>1. IInv => TypeOK
  BY DEF IInv, KernelInv
<1> QED BY <1>1, InvHolds, PTL

\* kernel.go, Start, Stop and Rewind: a runtime that is not running runs nothing, and
\* never are there two loops or two Stops past their first step.
THEOREM StoppedIsQuietCorrect == Spec => []StoppedIsQuiet
<1>1. ASSUME IInv PROVE StoppedIsQuiet
  <2> DEFINE stopping == {c \in Controllers : caller[c].pc \in StopPCs \ {"stop"}}
             active   == {n \in DOMAIN loops : loops[n] # "off"}
  <2>1. DOMAIN loops = 1..MaxStarts
    BY <1>1 DEF IInv, KernelInv, TypeOK
  <2>2. \A c, d \in stopping : c = d
    BY <1>1 DEF IInv, KernelInv, OneOfEach, Stopping
  <2>3. \A m, n \in active : m = n
    BY <1>1, <2>1 DEF IInv, KernelInv, OneOfEach
  <2>4. stopCh = "closed" <=> stopping # {}
    BY <1>1 DEF IInv, KernelInv, OneOfEach, Stopping
  <2>5. ~running => Counted = {}
    BY <1>1, <2>1 DEF IInv, KernelInv, OneOfEach, Counted, Working
  <2>6. Cardinality(stopping) <= 1 /\ Cardinality(active) <= 1
    <3> HIDE DEF stopping, active
    <3> QED BY <2>2, <2>3, AtMostOne
  <2> QED BY <1>1, <2>4, <2>5, <2>6 DEF StoppedIsQuiet, IInv, KernelInv, StopProgress
<1> QED BY <1>1, InvHolds, PTL

\* kernel.go, SubmitEvent, and event_bus.go, Publish and deliverEvent: an event gets to
\* every subscription that stays open, once, however subscriptions come and go meanwhile.
THEOREM EventsDeliveredCorrect == Spec => []EventsDelivered
<1>1. IInv => EventsDelivered
  BY DEF IInv, EventsInv
<1> QED BY <1>1, InvHolds, PTL
=============================================================================

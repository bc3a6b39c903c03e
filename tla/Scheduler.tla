------------------------------ MODULE Scheduler ------------------------------
(***************************************************************************)
(* runtime/scheduler.go: a queue of items in order of urgency, a map of    *)
(* the items by identifier, and a loop that drops due items every ten      *)
(* milliseconds.  Times are ticks of a clock; 0 is Go's zero time.  In     *)
(* strict mode the logical clock takes the place of the wall clock.        *)
(* Every operation holds s.mu to its end, except Run and Stop.             *)
(***************************************************************************)
EXTENDS Integers, Sequences, FiniteSets

CONSTANTS
  Goals,      \* goals offered: [id, priority, deadline, timeout]
  Events,     \* events offered: [id, clock]
  Timers,     \* timers offered: [id, at]
  Callers,    \* goroutines that call Run and Stop
  MaxTime,    \* bound on both clocks
  MaxQueue,   \* bound on the queue
  MaxRuns     \* bound on the loops ever started

VARIABLES
  strict,     \* s.mode = SchedulerModeStrict, fixed by NewScheduler
  now,        \* the wall clock
  clock,      \* s.clock
  items,      \* s.items
  queue,      \* s.priorityQueue
  running,
  stopCh,     \* the channel s.stopCh refers to: 0 is nil, n the one made by the n-th Run
  closed,     \* channels closed
  loops,      \* loops[n]: where the loop of the n-th Run is, and the channel it selects on
  caller,     \* where each caller of Run or Stop is
  twinned,    \* history: identifiers that were in the queue twice at a time
  overlapped, \* history: a Run or Stop has begun while another was under way
  panicked    \* a channel was closed twice, which ends the process

data    == <<strict, clock, items, queue, twinned>>
control == <<running, stopCh, closed, loops, caller, overlapped, panicked>>
vars    == <<now, data, control>>

IDs == {g.id : g \in Goals} \cup {e.id : e \in Events} \cup {t.id : t \in Timers}

Init ==
  /\ strict \in BOOLEAN
  /\ now = 1 /\ clock = 0
  /\ items = << >> /\ queue = << >>
  /\ running = FALSE /\ stopCh = 0 /\ closed = {} /\ loops = << >>
  /\ caller = [c \in Callers |-> "idle"]
  /\ twinned = {} /\ overlapped = FALSE /\ panicked = FALSE

-----------------------------------------------------------------------------
(* Order. *)

\* Deadlines first, then the time, the priority, the clock and the identifier.
Before(a, b) ==
  \/ a.deadline # 0 /\ (b.deadline = 0 \/ a.deadline < b.deadline)
  \/ /\ a.deadline = b.deadline
     /\ \/ a.at < b.at
        \/ a.at = b.at /\ a.priority > b.priority
        \/ a.at = b.at /\ a.priority = b.priority /\ a.clock < b.clock
        \/ a.at = b.at /\ a.priority = b.priority /\ a.clock = b.clock /\ a.id < b.id

InOrder(q) == \A i, j \in DOMAIN q : i < j => Before(q[i], q[j]) \/ q[i] = q[j]

\* The orders of the items sort.Slice may leave them in.
Orders(q) ==
  {p \in [DOMAIN q -> DOMAIN q] : /\ \A m \in DOMAIN q : \E i \in DOMAIN q : p[i] = m
                                 /\ InOrder([i \in DOMAIN q |-> q[p[i]]])}

Sorted(q) == LET p == CHOOSE p \in Orders(q) : TRUE IN [i \in DOMAIN q |-> q[p[i]]]

Queued(id) == Cardinality({i \in DOMAIN queue : queue[i].id = id})
Later(t, u) == IF t < u THEN u ELSE t

\* The clock that says what is due.
Time == IF strict THEN clock ELSE now
Due(item) == item.at <= Time

-----------------------------------------------------------------------------
(* Items. *)

GoalItem(g) ==
  [id |-> g.id, priority |-> g.priority, clock |-> clock, deadline |-> g.deadline,
   at |-> IF strict THEN clock
          ELSE IF g.deadline = 0 THEN now ELSE Later(now, g.deadline - g.timeout)]

EventItem(e) ==
  [id |-> e.id, priority |-> -1, clock |-> e.clock, deadline |-> 0,
   at |-> IF strict THEN e.clock ELSE now]

TimerItem(t) == [id |-> t.id, priority |-> 100, clock |-> clock, deadline |-> 0, at |-> t.at]

\* The map after the items of new, of which the last under an identifier stays.
Stored(m, new) ==
  LET ids == {new[i].id : i \in DOMAIN new}
      last(id) == CHOOSE i \in DOMAIN new :
                    new[i].id = id /\ \A j \in DOMAIN new : new[j].id = id => j <= i
  IN  [id \in (DOMAIN m) \cup ids |-> IF id \in ids THEN new[last(id)] ELSE m[id]]

\* Mutant: an identifier that is in the map keeps its entry.
InsertKept(new) ==
  /\ Len(queue) + Len(new) <= MaxQueue
  /\ queue' = Sorted(queue \o new)
  /\ items' = [id \in DOMAIN Stored(items, new) |->
                 IF id \in DOMAIN items THEN items[id] ELSE Stored(items, new)[id]]
  /\ twinned' = {id \in IDs : (id \in twinned /\ Queued(id) > 0) \/ Queued(id)' > 1}

\* The queue, the map and twinned after the items of new, in their order.
Insert(new) ==
  /\ Len(queue) + Len(new) <= MaxQueue
  /\ queue' = Sorted(queue \o new)
  /\ items' = Stored(items, new)
  /\ twinned' = {id \in IDs : (id \in twinned /\ Queued(id) > 0) \/ Queued(id)' > 1}

\* Goals, then events, then timers; a goal and its timer may share an identifier.
Schedule(goals, events, timers) ==
  /\ clock < MaxTime
  /\ Insert([i \in DOMAIN goals |-> GoalItem(goals[i])]
            \o [i \in DOMAIN events |-> EventItem(events[i])]
            \o [i \in DOMAIN timers |-> TimerItem(timers[i])])
  /\ clock' = clock + 1
  /\ UNCHANGED <<strict, now, control>>

\* The one the kernel calls, for a spawned goal: the deadline is not kept.
Enqueue(g) ==
  /\ Insert(<<GoalItem([g EXCEPT !.deadline = 0])>>)
  /\ UNCHANGED <<strict, now, clock, control>>

Without(m, ids) == [id \in (DOMAIN m) \ ids |-> m[id]]

\* The items of q at the positions in P, in their order.
Position(P, n) == CHOOSE i \in P : Cardinality({j \in P : j <= i}) = n
Keep(q, P)     == [n \in 1..Cardinality(P) |-> q[Position(P, n)]]

\* Without the first item of that identifier, if there is one.
First(q, id)     == {i \in DOMAIN q : q[i].id = id /\ \A j \in 1..(i - 1) : q[j].id # id}
TakeFirst(q, id) == Keep(q, DOMAIN q \ First(q, id))

\* The map's item is returned, the queue's first one removed.
Dequeue(id) ==
  /\ id \in DOMAIN items
  /\ queue' = TakeFirst(queue, id)
  /\ items' = Without(items, {id})
  /\ UNCHANGED <<strict, now, clock, twinned, control>>

DequeueReady ==
  /\ queue # << >>
  /\ queue' = Keep(queue, {i \in DOMAIN queue : ~Due(queue[i])})
  /\ items' = Without(items, {queue[i].id : i \in {j \in DOMAIN queue : Due(queue[j])}})
  /\ UNCHANGED <<strict, now, clock, twinned, control>>

\* Mutant: one of each identifier, however many are due.
DroppedOnce ==
  LET again(n) == \E m \in 1..(n - 1) : Due(queue[m]) /\ queue[m].id = queue[n].id
      left[n \in 0..Len(queue)] ==
        IF n = 0 THEN queue
        ELSE IF Due(queue[n]) /\ ~again(n) THEN TakeFirst(left[n - 1], queue[n].id)
        ELSE left[n - 1]
  IN  left[Len(queue)]

\* For each due item, the first of its identifier goes, which may be another.
Dropped ==
  LET left[n \in 0..Len(queue)] ==
        IF n = 0 THEN queue
        ELSE IF Due(queue[n]) THEN TakeFirst(left[n - 1], queue[n].id)
        ELSE left[n - 1]
  IN  left[Len(queue)]

-----------------------------------------------------------------------------
(* Run, its loop, and Stop. *)

Begin(c, to) ==
  /\ caller[c] = "idle"
  /\ caller' = [caller EXCEPT ![c] = to]
  /\ overlapped' = (overlapped \/ \E d \in Callers : caller[d] # "idle")

\* Run up to the release of s.mu; the wait group and the loop follow.
RunBegin(c) ==
  /\ ~running /\ Len(loops) < MaxRuns
  /\ Begin(c, "starting")
  /\ running' = TRUE
  /\ stopCh' = Len(loops) + 1
  /\ loops' = Append(loops, [at |-> "made", on |-> 0])
  /\ UNCHANGED <<closed, panicked, now, data>>

RunEnd(c) ==
  /\ caller[c] = "starting"
  /\ caller' = [caller EXCEPT ![c] = "idle"]
  /\ \E n \in DOMAIN loops :
       /\ loops[n].at = "made"
       /\ loops' = [loops EXCEPT ![n].at = "top"]
  /\ UNCHANGED <<running, stopCh, closed, overlapped, panicked, now, data>>

\* The select reads the field s.stopCh anew each time, without s.mu.
LoopSelect(n) ==
  /\ loops[n].at = "top"
  /\ loops' = [loops EXCEPT ![n] = [at |-> "select", on |-> stopCh]]
  /\ UNCHANGED <<running, stopCh, closed, caller, overlapped, panicked, now, data>>

\* processScheduledItems leaves s.items alone.
LoopTick(n) ==
  /\ loops[n].at = "select"
  /\ loops' = [loops EXCEPT ![n] = [at |-> "top", on |-> 0]]
  /\ queue' = Dropped
  /\ UNCHANGED <<running, stopCh, closed, caller, overlapped, panicked,
                 now, strict, clock, items, twinned>>

LoopExit(n) ==
  /\ loops[n].at = "select" /\ loops[n].on \in closed
  /\ loops' = [loops EXCEPT ![n] = [at |-> "gone", on |-> 0]]
  /\ UNCHANGED <<running, stopCh, closed, caller, overlapped, panicked, now, data>>

\* Closes the channel if there is one and releases s.mu.
StopBegin(c) ==
  /\ Begin(c, "stopping")
  /\ running' = FALSE
  /\ panicked' = (stopCh \in closed)
  /\ closed' = closed \cup ({stopCh} \ {0})
  /\ UNCHANGED <<stopCh, loops, now, data>>

\* The loops the wait group counts.
Counted == {n \in DOMAIN loops : loops[n].at \notin {"made", "gone"}}

\* Mutant: the loops are not waited for.
StopAtOnce(c) ==
  /\ caller[c] = "stopping"
  /\ caller' = [caller EXCEPT ![c] = "idle"]
  /\ running' = FALSE /\ stopCh' = 0
  /\ UNCHANGED <<closed, loops, overlapped, panicked, now, data>>

\* s.wg.Wait has returned.
StopEnd(c) ==
  /\ caller[c] = "stopping" /\ Counted = {}
  /\ caller' = [caller EXCEPT ![c] = "idle"]
  /\ running' = FALSE /\ stopCh' = 0
  /\ UNCHANGED <<closed, loops, overlapped, panicked, now, data>>

ClockTick == now < MaxTime /\ now' = now + 1 /\ UNCHANGED <<data, control>>

OneOrNone(S) == {<< >>} \cup {<<x>> : x \in S}

Next ==
  /\ ~panicked
  /\ \/ \E gs \in OneOrNone(Goals), es \in OneOrNone(Events), ts \in OneOrNone(Timers) :
          Schedule(gs, es, ts)
     \/ \E g \in Goals : Enqueue(g)
     \/ \E id \in IDs : Dequeue(id)
     \/ DequeueReady
     \/ \E c \in Callers : RunBegin(c) \/ RunEnd(c) \/ StopBegin(c) \/ StopEnd(c)
     \/ \E n \in DOMAIN loops : LoopSelect(n) \/ LoopTick(n) \/ LoopExit(n)
     \/ ClockTick

Spec == Init /\ [][Next]_vars

-----------------------------------------------------------------------------
(* Properties. *)

Items == [id : IDs, priority : -1..100, clock : 0..MaxTime, at : 0..MaxTime,
          deadline : {0} \cup {g.deadline : g \in Goals}]

TypeOK ==
  /\ strict \in BOOLEAN /\ now \in 0..MaxTime /\ clock \in 0..MaxTime
  /\ queue \in Seq(Items) /\ Len(queue) <= MaxQueue
  /\ DOMAIN items \subseteq IDs /\ \A id \in DOMAIN items : items[id] \in Items
  /\ running \in BOOLEAN /\ stopCh \in 0..MaxRuns /\ closed \subseteq 1..MaxRuns
  /\ \A n \in DOMAIN loops :
       loops[n] \in [at : {"made", "top", "select", "gone"}, on : 0..MaxRuns]
  /\ caller \in [Callers -> {"idle", "starting", "stopping"}]
  /\ twinned \subseteq IDs /\ overlapped \in BOOLEAN /\ panicked \in BOOLEAN

\* scheduler.go:74,95,109,115,122-165,191,254: whatever was inserted and taken, an item
\* with a deadline stands behind none without or with a later one; among equal deadlines
\* time decides, and at one time priority.  As long as an identifier is not inserted again
\* while it is queued, the map has the very item the queue has; a twin that leaves takes
\* the entry of the other with it.
QueueSound ==
  /\ \A i, j \in DOMAIN queue : i < j =>
       /\ queue[j].deadline # 0 => queue[i].deadline \in 1..queue[j].deadline
       /\ queue[i].deadline = queue[j].deadline =>
            \/ queue[i].at < queue[j].at
            \/ queue[i].at = queue[j].at /\ queue[i].priority >= queue[j].priority
  /\ \A i \in DOMAIN queue :
       LET id == queue[i].id
       IN  id \notin twinned => id \in DOMAIN items /\ items[id] = queue[i]

\* scheduler.go:311-318: a tick takes, under each identifier, as many items as are due
\* under it.  They need not be those: a twin that is not due may go in place of one that is.
TickTakesWhatIsDue ==
  [][(\E n \in DOMAIN loops : LoopTick(n)) =>
       \A id \in IDs :
         Queued(id)' = Cardinality({i \in DOMAIN queue : queue[i].id = id /\ ~Due(queue[i])})]_vars

\* scheduler.go:260-290,346-363: as long as no Run or Stop begins before another has
\* ended, no channel is closed twice, at most one loop runs, and none once Stop returned.
OneLoop ==
  ~overlapped =>
    /\ ~panicked
    /\ \A m, n \in Counted : m = n
    /\ (\A c \in Callers : caller[c] = "idle") => (running <=> Counted # {})
=============================================================================

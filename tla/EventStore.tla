----------------------------- MODULE EventStore -----------------------------
(***************************************************************************)
(* Event sourcing as the kernel does it: the in-memory event log           *)
(* (runtime/event_log.go) on top of the write-ahead log, the state it is   *)
(* folded into, and the kernel's SubmitEvent, Replay, Rewind, Fork and     *)
(* SetPersistence (runtime/kernel.go), with crashes and restarts.          *)
(*                                                                         *)
(* SubmitEvent holds r.mu, but Replay takes only the locks of the log and  *)
(* of the state, so SubmitEvent is two steps (append, apply) and Replay is *)
(* two (read the log, reconstruct).  Rewind holds r.mu except while it     *)
(* stops the loops, before it reads anything, and is one step.  Path locks *)
(* are free: nothing in src takes them.  Lines are written whole           *)
(* (WriteAheadLog treats torn ones).  r.clock feeds only ActionContext and *)
(* is left out.                                                            *)
(***************************************************************************)
EXTENDS Integers, Sequences

CONSTANTS
  Paths, Values, Absent, Mutators, NoMutator, Refuses, Run, Legal, Events,
  NoOwner,
  Torn, TooLong, Newline, MaxCalls,
  DiskFails,     \* TRUE: Write and Sync may fail
  TimeTravel,    \* TRUE: Rewind and Fork are used
  OldForks,      \* the logs that forks of earlier processes have left: [id, clock, ev]
  None           \* no event pending, no replay under way

VARIABLES
  file, synced, fd, eventCount, walClock, calls, acked, renumbered,  \* the write-ahead log
  sent,          \* the events given to WAL.Append, by number of the call
  events,        \* e.events: [id, clock, ev]
  nextID,        \* e.nextID
  logClock,      \* e.clock
  data, clock,   \* the state and its logical clock
  pending,       \* the event SubmitEvent has logged and not yet applied
  replaying,     \* the events Replay has read and not yet reconstructed
  holed,         \* history: an append has failed, or the file has a hole since then
  drift,         \* history: reasons why the state may differ from the log's fold
  before         \* history: the state when the process died, and whether all of it was in the log

walVars   == <<file, synced, fd, eventCount, walClock, calls, acked, renumbered, sent>>
logVars   == <<events, nextID, logClock, holed>>
stateVars == <<data, clock>>
vars == <<walVars, logVars, stateVars, pending, replaying, drift, before>>

\* Lines are written entirely or not at all, and none is too long.
WAL == INSTANCE WriteAheadLog WITH
         clock <- walClock, TornWrites <- FALSE, KeepCounts <- {}, LongCalls <- {}

\* The map of a new state manager.
State0 == [p \in Paths |-> Absent]

Unlocked == [p \in Paths |-> NoOwner]
State == INSTANCE StateManager WITH
           Owners <- {}, MaxSnapshots <- 0, MaxRefs <- 1, MaxClock <- MaxCalls,
           owner <- Unlocked, refs <- [p \in Paths |-> 0],
           snapshots <- {}, granted <- << >>

\* The rounds of Reconstruct from a state on, one for each event.
Folded(d, log) ==
  LET fold[n \in 0..Len(log)] == IF n = 0 THEN d ELSE State!Replayed(fold[n - 1], log[n].ev)
  IN  fold[Len(log)]

\* Reconstruct: the fold of the events from the empty state.
Project(log) == Folded(State0, log)
LastClock(log) == IF log = << >> THEN 0 ELSE log[Len(log)].clock
\* Mutant: the fold starts from the present state.
ReconstructOnTop(log) ==
  /\ data' = Folded(data, log)
  /\ clock' = LastClock(log)

Reconstruct(log) == data' = Project(log) /\ clock' = LastClock(log)

\* What Append writes of an event: everything but the mutator. Values are those
\* JSON gives back: a Go int would return as a float64.
Persisted(ev) == [ev EXCEPT !.mutator = NoMutator]

\* What the file gives back, and the entries of the log in memory.
PersistedEvents == {Persisted(ev) : ev \in Events}
LogEntries == [id : 1..MaxCalls, clock : 1..MaxCalls, ev : Events \cup PersistedEvents]

\* A log in the file of a fork: numbered like any other, with or without holes.
OldLog(old) ==
  /\ old \in Seq([id : Nat \ {0}, clock : Nat \ {0}, ev : PersistedEvents])
  /\ \A n \in DOMAIN old : old[n].clock <= old[n].id
  /\ \A m, n \in DOMAIN old : m < n => old[m].id < old[n].id /\ old[m].clock <= old[n].clock

ASSUME EventStoreAssumption ==
  /\ WAL!WALAssumption
  /\ State!StateAssumption
  /\ \A old \in OldForks : OldLog(old)
  /\ \A ev \in Events : DOMAIN ev = {"writes", "mutator", "sets"}
  /\ None \notin Events \cup LogEntries

\* EventLogImpl.SetPersistence
Loaded(entries) == [n \in DOMAIN entries |->
  [id |-> entries[n].id, clock |-> entries[n].clock, ev |-> sent[entries[n].body]]]

-----------------------------------------------------------------------------
\* Mutant: the state is not reconstructed.
BootStateless ==
  /\ WAL!Open
  /\ events' = Loaded(WAL!Replay(file))
  /\ nextID' = IF events' = << >> THEN 1 ELSE events'[Len(events')].id + 1
  /\ logClock' = LastClock(events')
  /\ holed' = \E n \in DOMAIN events' : events'[n].id # n
  /\ drift' = {}
  /\ UNCHANGED <<sent, stateVars, pending, replaying, before>>

\* NewPersistentStore, NewRuntime and SetPersistence, as cmd/main.go calls them.
Boot ==
  /\ WAL!Open
  /\ events' = Loaded(WAL!Replay(file))
  /\ nextID' = IF events' = << >> THEN 1 ELSE events'[Len(events')].id + 1
  /\ logClock' = LastClock(events')
  /\ holed' = \E n \in DOMAIN events' : events'[n].id # n
  /\ Reconstruct(events')
  /\ drift' = {}
  /\ UNCHANGED <<sent, pending, replaying, before>>

Crash ==
  /\ WAL!Crash
  /\ before' = [data |-> data,
                exact |-> drift = {} /\ pending = None /\ Loaded(WAL!Replay(file)) = events,
                clean |-> drift = {} /\ pending = None]
  /\ events' = << >> /\ nextID' = 1 /\ logClock' = 0 /\ holed' = FALSE
  /\ data' = State0 /\ clock' = 0
  /\ pending' = None /\ replaying' = None /\ drift' = {}
  /\ UNCHANGED sent

\* Mutant: the log numbers events itself.
LogEventOwnID(ev) ==
  /\ pending = None
  /\ WAL!AppendEvent
  /\ sent' = Append(sent, Persisted(ev))
  /\ events' = Append(events, [id |-> nextID, clock |-> logClock + 1, ev |-> ev])
  /\ nextID' = nextID + 1
  /\ logClock' = logClock + 1
  /\ pending' = ev
  /\ UNCHANGED <<holed, stateVars, replaying, drift, before>>

\* Mutant: nextID is stepped twice.
LogEventTwice(ev) ==
  /\ pending = None
  /\ WAL!AppendEvent
  /\ sent' = Append(sent, Persisted(ev))
  /\ events' = Append(events, [id |-> eventCount', clock |-> logClock + 1, ev |-> ev])
  /\ nextID' = eventCount' + 2
  /\ logClock' = logClock + 1
  /\ pending' = ev
  /\ UNCHANGED <<holed, stateVars, replaying, drift, before>>

\* SubmitEvent up to eventLog.Append. The log takes the identifier from the
\* write-ahead log and the clock from itself.
LogEvent(ev) ==
  /\ pending = None
  /\ WAL!AppendEvent
  /\ sent' = Append(sent, Persisted(ev))
  /\ events' = Append(events, [id |-> eventCount', clock |-> logClock + 1, ev |-> ev])
  /\ nextID' = eventCount' + 1
  /\ logClock' = logClock + 1
  /\ pending' = ev
  /\ UNCHANGED <<holed, stateVars, replaying, drift, before>>

\* WAL.Append returns an error and so does SubmitEvent.
LogFails(ev) ==
  /\ DiskFails /\ pending = None
  /\ WAL!WriteFails \/ WAL!SyncFails
  /\ sent' = Append(sent, Persisted(ev))
  /\ holed' = TRUE
  /\ UNCHANGED <<events, nextID, logClock, stateVars, pending, replaying, drift, before>>

\* The rest of SubmitEvent: ApplyEvent. A rejected event stays in the log.
ApplyLogged ==
  /\ pending # None
  /\ \/ /\ ~State!Rejects(data, pending)
        /\ data' = State!Applied(data, pending)
        /\ clock' = clock + 1
        /\ drift' = drift \cup (IF data' = State!Replayed(data, pending) THEN {} ELSE {"order"})
     \/ /\ State!Rejects(data, pending)
        /\ drift' = drift \cup {"rejected"}
        /\ UNCHANGED stateVars
  /\ pending' = None
  /\ UNCHANGED <<walVars, logVars, replaying, before>>

-----------------------------------------------------------------------------
\* GoalRuntime.Replay
ReadLog ==
  /\ fd = "open" /\ replaying = None
  /\ replaying' = events
  /\ UNCHANGED <<walVars, logVars, stateVars, pending, drift, before>>

ReconstructRead ==
  /\ replaying # None
  /\ Reconstruct(replaying)
  /\ drift' = IF replaying = events /\ pending = None THEN {} ELSE {"raced"}
  /\ replaying' = None
  /\ UNCHANGED <<walVars, logVars, pending, before>>

\* GoalRuntime.Rewind: the events up to a time are a prefix of the log, which
\* keeps the rest.
Rewind(k) ==
  /\ TimeTravel
  /\ fd = "open" /\ pending = None
  /\ Reconstruct(SubSeq(events, 1, k))
  /\ drift' = IF k = Len(events) THEN {} ELSE {"rewound"}
  /\ UNCHANGED <<walVars, logVars, pending, replaying, before>>

\* The identifier the log of a fork has got to, and its file: the calls that wrote
\* it count as made here.
LastID(old) == IF old = << >> THEN 0 ELSE old[Len(old)].id
OldFile(old) ==
  WAL!Written([n \in 1..Len(old) |->
    [id |-> old[n].id, clock |-> old[n].clock, body |-> calls + old[n].id, long |-> FALSE]])
OldSent(old) ==
  [id \in 1..LastID(old) |->
    CHOOSE ev \in PersistedEvents : \A n \in DOMAIN old : old[n].id = id => old[n].ev = ev]

\* GoalRuntime.Fork, followed into the new runtime: the log in the fork's directory,
\* empty if the name is new, and a copy of the state.
Fork(old) ==
  /\ TimeTravel
  /\ fd = "open" /\ calls + LastID(old) <= MaxCalls
  /\ file' = OldFile(old) /\ synced' = Len(file')
  /\ calls' = calls + LastID(old) /\ sent' = sent \o OldSent(old)
  /\ eventCount' = LastID(old) /\ walClock' = LastClock(old) /\ acked' = {}
  /\ events' = old /\ nextID' = LastID(old) + 1 /\ logClock' = LastClock(old)
  /\ holed' = \E n \in DOMAIN old : old[n].id # n
  /\ pending' = None /\ replaying' = None
  /\ drift' = IF data = Project(old) THEN {} ELSE {"forked"}
  /\ UNCHANGED <<fd, renumbered, stateVars, before>>

-----------------------------------------------------------------------------
(* Reads of the log, which count in identifiers and look up by position.   *)

Length == nextID - 1

\* Get, for the identifiers it accepts: the event at that position, or a panic.
Accepted(id) == id # 0 /\ id <= Length
Get(id) == IF id \in DOMAIN events THEN events[id] ELSE None

Init ==
  /\ WAL!Init /\ sent = << >>
  /\ events = << >> /\ nextID = 1 /\ logClock = 0 /\ holed = FALSE
  /\ data = State0 /\ clock = 0
  /\ pending = None /\ replaying = None
  /\ drift = {}
  /\ before = [data |-> State0, exact |-> FALSE, clean |-> FALSE]

Next ==
  \/ Boot \/ Crash
  \/ \E ev \in Events : LogEvent(ev) \/ LogFails(ev)
  \/ ApplyLogged
  \/ ReadLog \/ ReconstructRead
  \/ \E k \in 0..Len(events) : Rewind(k)
  \/ \E old \in OldForks : Fork(old)

Spec == Init /\ [][Next]_vars

Restart == fd = "down" /\ fd' = "open"

-----------------------------------------------------------------------------
\* Shape of the state.
TypeOK ==
  /\ WAL!TypeOK
  /\ events \in Seq(LogEntries) /\ sent \in Seq(PersistedEvents)
  /\ nextID \in 1..(MaxCalls + 1) /\ holed \in BOOLEAN /\ logClock \in 0..MaxCalls
  /\ data \in State!Data /\ clock \in 0..(2 * MaxCalls)
  /\ drift \subseteq {"rejected", "order", "raced", "rewound", "forked"}

\* "State: deterministic projection of all prior events", as far as the code
\* keeps it: nothing but a rejected event, a rewind, a fork, a replay that
\* raced, or an event whose two kinds of change do not commute makes the state
\* differ from the fold of the log.
CleanProjection == drift = {} /\ pending = None => data = Project(events)

\* The two counters of the log and of the write-ahead log agree: every event in
\* memory is in the file under the same identifier and clock.
LogMirrorsWAL ==
  LET entries == WAL!Replay(file)
  IN  \A n \in DOMAIN events : \E m \in DOMAIN entries :
        /\ entries[m].id = events[n].id /\ entries[m].clock = events[n].clock
        /\ sent[entries[m].body] = Persisted(events[n].ev)

\* event_log.go:129-131,140,144,168,176: identifiers never go back along the log, and the last one
\* is its length, so a read meets no event before the one asked for; as long as no append
\* has failed, Get gives every event that was logged and no other.
ReadsExact ==
  /\ \A m, n \in DOMAIN events : m < n => events[m].id < events[n].id
  /\ events # << >> => events[Len(events)].id = Length
  /\ ~holed => \A id \in 0..MaxCalls :
                IF Accepted(id) THEN Get(id) # None /\ Get(id).id = id ELSE id \notin DOMAIN events

\* When every change is declarative and the file holds no more than the log,
\* a restart brings back the state the process died with.
DeclarativeRestart == [][Restart /\ before.exact => data' = before.data]_vars

-----------------------------------------------------------------------------
\* "Route through SubmitEvent to maintain event sourcing integrity": a restart
\* replays what happened.
RestartKeepsState == [][Restart /\ before.clean => data' = before.data]_vars
=============================================================================

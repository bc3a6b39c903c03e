---------------------------- MODULE GoalRuntime -----------------------------
(***************************************************************************)
(* The kernel (runtime/kernel.go) around the goal engine while it runs:    *)
(*   - the execution loop, one goroutine: every tick it copies the active  *)
(*     goals, and for each copy enforces the deadline, runs the condition, *)
(*     records what it read, and completes the goal and spawns its         *)
(*     children, or starts a plan for it;                                  *)
(*   - SubmitEvent, SubmitGoal and the end of a plan, which run under the  *)
(*     runtime's mutex r.mu ("inflight" is the event that holds it);       *)
(*   - CancelGoal from the APIs, which takes no runtime lock;              *)
(*   - one goroutine per plan.                                             *)
(* The loop holds no lock from one call of the engine or of the state      *)
(* manager to the next, so each call is a step, and so is each read a      *)
(* condition makes.  The wall clock is a choice: a goal with a deadline,   *)
(* or a started one with a timeout, may be found expired at any tick.      *)
(* A plan has one action: computeMissingConditions finds at most one path. *)
(* Spawned goals also go to the scheduler, which is left out: nothing      *)
(* reads what it keeps.                                                    *)
(***************************************************************************)
EXTENDS Integers, FiniteSets

CONSTANTS
  Goals, Defs, NoDef, Paths, Values, Absent,
  IdOf, Trigger, Want, Children, Compensation, MaxPending,
  TopLevel,      \* definitions that SubmitGoal is called with
  Events,        \* events submitted: [writes : WritePaths, sets : what ApplyEvent assigns]
  HasDeadline, HasTimeout,   \* definitions with a Deadline, with a Timeout
  Plannable,     \* paths the planner finds an action for
  PlanCap        \* capacity of planSem (100 in the code)

VARIABLES
  goals, activeGoals, pendingGoals, deps, compensating, store,
  loop,          \* the execution loop: where it is and its local variables
  inflight,      \* the SubmitEvent that holds r.mu and how far it is
  activePlans,   \* goals with a plan, as the loop sees them
  planSem,       \* tokens in the plan semaphore
  plan,          \* where each goal's plan goroutine is
  overtaken      \* history: goals the loop completed on an outdated evaluation

Engine == INSTANCE GoalEngine

ASSUME RuntimeAssumption ==
  /\ Engine!DefsAssumption
  /\ TopLevel \subseteq Defs /\ HasDeadline \subseteq Defs /\ HasTimeout \subseteq Defs
  /\ Plannable \subseteq Paths
  /\ PlanCap \in Nat \ {0}
  /\ \A e \in Events : e.writes \subseteq Paths /\ \E P \in SUBSET Paths : e.sets \in [P -> Values]

engineVars == <<goals, activeGoals, pendingGoals, deps, compensating>>
planVars   == <<activePlans, planSem, plan>>
vars == <<engineVars, store, loop, inflight, planVars, overtaken>>

CondPaths(d) == Engine!CondPaths(d)
CondHolds(d) == Engine!CondHolds(d)

NoEvent  == [writes |-> {}, sets |-> [p \in {} |-> Absent]]
NoCopy   == [name |-> NoDef, def |-> NoDef, started |-> FALSE]
AtRest   == [pc |-> "idle", batch |-> {}, cur |-> NoCopy, unread |-> {}, read |-> {}, result |-> FALSE]

Idle == [pc |-> "none", event |-> NoEvent]
RuntimeFree == inflight.pc = "none"        \* r.mu is free

-----------------------------------------------------------------------------
(* The execution loop. *)

ListActiveGoals ==
  /\ loop.pc = "idle" /\ Engine!Unlocked
  /\ loop' = [AtRest EXCEPT !.pc = "pick",
                !.batch = {[name |-> g, def |-> goals[g].def, started |-> goals[g].started] :
                             g \in {h \in Goals : activeGoals[h] > 0}}]
  /\ UNCHANGED <<engineVars, store, inflight, planVars, overtaken>>

EndOfTick ==
  /\ loop.pc = "pick" /\ loop.batch = {}
  /\ loop' = AtRest
  /\ UNCHANGED <<engineVars, store, inflight, planVars, overtaken>>

\* The deadline or the timeout of the copy has passed; without StartedAt (a
\* spawned goal) a timeout never does.
Expire(c) ==
  /\ loop.pc = "pick" /\ c \in loop.batch
  /\ c.def \in HasDeadline \/ (c.def \in HasTimeout /\ c.started)
  /\ Engine!FailGoal(c.name)
  /\ loop' = [loop EXCEPT !.batch = @ \ {c}]
  /\ UNCHANGED <<store, inflight, planVars, overtaken>>

\* Evaluate: a nil condition is false and records nothing.
StartEvaluate(c) ==
  /\ loop.pc = "pick" /\ c \in loop.batch
  /\ loop' = [pc |-> IF CondPaths(c.def) = {} THEN "plan" ELSE "read",
              batch |-> loop.batch \ {c}, cur |-> c,
              unread |-> CondPaths(c.def), read |-> {}, result |-> FALSE]
  /\ UNCHANGED <<engineVars, store, inflight, planVars, overtaken>>

\* The condition reads one more path and stops at the first one it dislikes.
ReadPath(p) ==
  LET likes == store[p] = Want[loop.cur.def][p]
      rest  == loop.unread \ {p}
  IN  /\ loop.pc = "read" /\ p \in loop.unread
      /\ loop' = [loop EXCEPT !.unread = rest, !.read = @ \cup {p},
                              !.result = likes,
                              !.pc = IF likes /\ rest # {} THEN "read" ELSE "record"]
      /\ UNCHANGED <<engineVars, store, inflight, planVars, overtaken>>

\* Mutant: what a satisfied condition read is not recorded.
RecordDependenciesOfFailures ==
  /\ loop.pc = "record"
  /\ Engine!RecordDependencies(loop.cur.name, IF loop.result THEN {} ELSE loop.read)
  /\ loop' = [loop EXCEPT !.pc = IF loop.result THEN "complete" ELSE "plan"]
  /\ UNCHANGED <<store, inflight, planVars, overtaken>>

\* Mutant: the loop plans for the goal whatever Evaluate returned.
RecordDependenciesThenPlan ==
  /\ loop.pc = "record"
  /\ Engine!RecordDependencies(loop.cur.name, loop.read)
  /\ loop' = [loop EXCEPT !.pc = "plan"]
  /\ UNCHANGED <<store, inflight, planVars, overtaken>>

RecordDependencies ==
  /\ loop.pc = "record"
  /\ Engine!RecordDependencies(loop.cur.name, loop.read)
  /\ loop' = [loop EXCEPT !.pc = IF loop.result THEN "complete" ELSE "plan"]
  /\ UNCHANGED <<store, inflight, planVars, overtaken>>

\* Mutant: the loop writes the goal's state itself and leaves the slices.
CompleteGoalInPlace ==
  LET g == loop.cur.name
  IN  /\ loop.pc = "complete" /\ Engine!Unlocked
      /\ goals' = [goals EXCEPT ![g].state = "complete"]
      /\ loop' = [loop EXCEPT !.pc = "spawn"]
      /\ UNCHANGED <<activeGoals, pendingGoals, deps, compensating, store, inflight, planVars, overtaken>>

\* The evaluation is outdated when the name now has another definition, or the
\* condition has stopped to hold since it was read.
CompleteGoal ==
  LET g == loop.cur.name
      outdated == goals[g].def # loop.cur.def \/ ~CondHolds(loop.cur.def)
  IN  /\ loop.pc = "complete"
      /\ Engine!CompleteGoal(g)
      /\ loop' = [loop EXCEPT !.pc = "spawn"]
      /\ overtaken' = IF outdated THEN overtaken \cup {g} ELSE overtaken \ {g}
      /\ UNCHANGED <<store, inflight, planVars>>

SpawnChildren ==
  /\ loop.pc = "spawn"
  /\ Engine!SpawnChildren(loop.cur.def)
  /\ loop' = [loop EXCEPT !.pc = "pick"]
  /\ UNCHANGED <<store, inflight, planVars, overtaken>>

\* computeMissingConditions: only a trigger path is ever missing.
Missing(d) ==
  {p \in Trigger[d] : store[p] = Absent \/ (CondPaths(d) # {} /\ ~CondHolds(d))}

CanPlan(c) ==
  /\ c.name \notin activePlans
  /\ Missing(c.def) # {} /\ Missing(c.def) \subseteq Plannable
  /\ planSem < PlanCap

StartPlan ==
  LET g == loop.cur.name
  IN  /\ loop.pc = "plan" /\ RuntimeFree
      /\ CanPlan(loop.cur)
      /\ planSem' = planSem + 1
      /\ activePlans' = activePlans \cup {g}
      /\ plan' = [plan EXCEPT ![g] = "run"]
      /\ loop' = [loop EXCEPT !.pc = "pick"]
      /\ UNCHANGED <<engineVars, store, inflight, overtaken>>

SkipPlan ==
  /\ loop.pc = "plan" /\ RuntimeFree
  /\ ~CanPlan(loop.cur)
  /\ loop' = [loop EXCEPT !.pc = "pick"]
  /\ UNCHANGED <<engineVars, store, inflight, planVars, overtaken>>

LoopStep ==
  \/ ListActiveGoals \/ EndOfTick
  \/ \E c \in loop.batch : Expire(c) \/ StartEvaluate(c)
  \/ \E p \in loop.unread : ReadPath(p)
  \/ RecordDependencies \/ CompleteGoal \/ SpawnChildren
  \/ StartPlan \/ SkipPlan

-----------------------------------------------------------------------------
(* Events, goals and cancellations from the clients. *)

SubmitEvent(e) ==
  /\ RuntimeFree
  /\ inflight' = [pc |-> "apply", event |-> e]
  /\ UNCHANGED <<engineVars, store, loop, planVars, overtaken>>

\* ApplyEvent succeeds...
ApplyEvent ==
  /\ inflight.pc = "apply"
  /\ LET sets == inflight.event.sets
     IN  store' = [p \in Paths |-> IF p \in DOMAIN sets THEN sets[p] ELSE store[p]]
  /\ inflight' = [inflight EXCEPT !.pc = "handle"]
  /\ UNCHANGED <<engineVars, loop, planVars, overtaken>>

\* ... or fails (path lock, mutator, invariant): SubmitEvent returns at once.
RejectEvent ==
  /\ inflight.pc = "apply"
  /\ inflight' = Idle
  /\ UNCHANGED <<engineVars, store, loop, planVars, overtaken>>

HandleEvent ==
  /\ inflight.pc = "handle"
  /\ Engine!HandleEvent(inflight.event.writes)
  /\ inflight' = [inflight EXCEPT !.pc = "walk"]
  /\ UNCHANGED <<store, loop, planVars, overtaken>>

WalkGoal(g) ==
  /\ Engine!StillSatisfied(g) \/ Engine!Compensate(g)
  /\ UNCHANGED <<store, loop, inflight, planVars, overtaken>>

\* Publish and the return of SubmitEvent.
ReturnFromSubmit ==
  /\ inflight.pc = "walk" /\ compensating = {}
  /\ inflight' = Idle
  /\ UNCHANGED <<engineVars, store, loop, planVars, overtaken>>

EventStep ==
  \/ ApplyEvent \/ RejectEvent \/ HandleEvent \/ ReturnFromSubmit
  \/ \E g \in compensating : WalkGoal(g)

SubmitGoal(d) ==
  /\ RuntimeFree
  /\ Engine!AddGoal(d)
  /\ UNCHANGED <<store, loop, inflight, planVars, overtaken>>

CancelGoal(g) ==
  /\ Engine!CancelGoal(g)
  /\ UNCHANGED <<store, loop, inflight, planVars, overtaken>>

-----------------------------------------------------------------------------
(* A plan's goroutine: executePlan, then the deferred clean-up in its order. *)

\* The action returned output: its result event writes no path a goal reads.
PlanSucceeds(g) ==
  /\ plan[g] = "run" /\ RuntimeFree
  /\ inflight' = [pc |-> "apply", event |-> NoEvent]
  /\ plan' = [plan EXCEPT ![g] = "release"]
  /\ UNCHANGED <<engineVars, store, loop, activePlans, planSem, overtaken>>

\* Mutant: an error leaves the goroutine without its deferred clean-up.
PlanFailsAtOnce(g) ==
  /\ plan[g] = "run"
  /\ plan' = [plan EXCEPT ![g] = "none"]
  /\ UNCHANGED <<engineVars, store, loop, inflight, activePlans, planSem, overtaken>>

\* The dispatcher returned an error: executePlan only goes on.
PlanFails(g) ==
  /\ plan[g] = "run"
  /\ plan' = [plan EXCEPT ![g] = "release"]
  /\ UNCHANGED <<engineVars, store, loop, inflight, activePlans, planSem, overtaken>>

ReleaseSem(g) ==
  /\ plan[g] = "release"
  /\ planSem' = planSem - 1
  /\ plan' = [plan EXCEPT ![g] = "cleanup"]
  /\ UNCHANGED <<engineVars, store, loop, inflight, activePlans, overtaken>>

\* Mutant: the entry of activePlans is not deleted.
ForgetPlanKept(g) ==
  /\ plan[g] = "cleanup" /\ RuntimeFree
  /\ plan' = [plan EXCEPT ![g] = "none"]
  /\ UNCHANGED <<engineVars, store, loop, inflight, activePlans, planSem, overtaken>>

ForgetPlan(g) ==
  /\ plan[g] = "cleanup" /\ RuntimeFree
  /\ activePlans' = activePlans \ {g}
  /\ plan' = [plan EXCEPT ![g] = "none"]
  /\ UNCHANGED <<engineVars, store, loop, inflight, planSem, overtaken>>

PlanStep(g) == PlanSucceeds(g) \/ PlanFails(g) \/ ReleaseSem(g) \/ ForgetPlan(g)

-----------------------------------------------------------------------------
Init ==
  /\ Engine!Init
  /\ loop = AtRest
  /\ inflight = Idle
  /\ activePlans = {} /\ planSem = 0 /\ plan = [g \in Goals |-> "none"]
  /\ overtaken = {}

Next ==
  \/ LoopStep
  \/ EventStep
  \/ \E e \in Events : SubmitEvent(e)
  \/ \E d \in TopLevel : SubmitGoal(d)
  \/ \E g \in Goals : CancelGoal(g) \/ PlanStep(g)

Spec == Init /\ [][Next]_vars

\* The Go scheduler runs every goroutine, the ticker fires again and again, and
\* Go's mutexes do not starve a waiter: whoever waits for r.mu or g.mu gets it.
Fairness ==
  /\ SF_vars(LoopStep)
  /\ WF_vars(EventStep)
  /\ \A g \in Goals : SF_vars(PlanStep(g))

FairSpec == Spec /\ Fairness

-----------------------------------------------------------------------------
\* Shape of the runtime's state.
TypeOK ==
  /\ Engine!TypeOK
  /\ loop.pc \in {"idle", "pick", "read", "record", "complete", "spawn", "plan"}
  /\ \A c \in loop.batch : c.name \in Goals /\ c.def \in Defs
  /\ inflight.pc \in {"none", "apply", "handle", "walk"}
  /\ activePlans \subseteq Goals /\ planSem \in 0..PlanCap
  /\ plan \in [Goals -> {"none", "run", "release", "cleanup"}]
  /\ overtaken \subseteq Goals

\* The loop's map of running plans and the semaphore agree with the goroutines,
\* whatever the clean-up order: a goal has at most one plan, and a token is held
\* exactly by the plans that have not reached their release.
PlansAccounted ==
  /\ activePlans = {g \in Goals : plan[g] # "none"}
  /\ planSem = Cardinality({g \in Goals : plan[g] \in {"run", "release"}})

\* A completed goal whose condition an event has broken is known to be broken:
\* the event's HandleEvent is still to come or is walking over it. The one gap
\* is a completion that an event overtook between the loop's reads and its
\* CompleteGoal; outside that gap no compensation is lost.
NoCompensationLost ==
  \A g \in Goals :
    goals[g].state = "complete" /\ ~CondHolds(goals[g].def) =>
      \/ g \in overtaken
      \/ g \in compensating
      \/ inflight.pc = "handle" /\ inflight.event.writes \cap deps[g] # {}

\* Every step of the kernel is a step of the engine its callers may rely on.
EngineRefined == Engine!Spec

\* An active goal cannot stay satisfied for ever: the loop completes it.
SatisfiedGoalLeavesActive ==
  \A g \in Goals : []<>~(goals[g].state = "active" /\ CondHolds(goals[g].def))

\* A plan ends and is forgotten, so that its goal can be planned again.
PlansEnd ==
  \A g \in Goals : g \in activePlans ~> g \notin activePlans

\* documentation.md:53, "Pending -> Active": a goal spawned without a trigger
\* (all that GDL's spawn makes) does not stay pending for ever.
SpawnedGoalActivated ==
  \A g \in Goals :
    []<>~(goals[g].state = "pending" /\ Trigger[goals[g].def] = {})
====

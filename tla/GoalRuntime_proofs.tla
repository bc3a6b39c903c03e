------------------------- MODULE GoalRuntime_proofs -------------------------
(***************************************************************************)
(* The kernel around the goal engine, for any goals, definitions, events   *)
(* and capacity of the plan semaphore.                                     *)
(*                                                                         *)
(* Every step of the kernel is a step of GoalEngine, so the engine's       *)
(* inductive invariant (module GoalEngine_proofs) holds here without being *)
(* proved again; with it the kernel's own invariants are inductive.  That  *)
(* no compensation is lost rests on the loop: what it works on is not      *)
(* complete (LoopSound), so only CompleteGoal makes a goal complete, and   *)
(* after the dependencies that its whole condition read were recorded      *)
(* (DepsCover).                                                            *)
(***************************************************************************)
EXTENDS GoalRuntime, FiniteSetTheorems, TLAPS

EngineProofs == INSTANCE GoalEngine_proofs
EngineInv    == EngineProofs!IInv

Copies == [name : Goals, def : Defs, started : BOOLEAN]

\* The loop works on copies of different goals, and until it has completed the
\* current one, neither that nor those left in its batch are complete; what the
\* condition reads adds up to its paths.
LoopSound ==
  /\ loop.pc \in {"idle", "pick", "read", "record", "complete", "spawn", "plan"}
  /\ loop.batch \subseteq Copies
  /\ \A b, c \in loop.batch : b.name = c.name => b = c
  /\ \A c \in loop.batch : goals[c.name].state # "complete"
  /\ loop.pc \notin {"idle", "pick"} =>
       loop.cur \in Copies /\ \A c \in loop.batch : c.name # loop.cur.name
  /\ loop.pc \in {"read", "record", "complete"} => goals[loop.cur.name].state # "complete"
  /\ loop.pc = "read" => loop.read \cup loop.unread = CondPaths(loop.cur.def)
  /\ loop.pc = "record" =>
       /\ loop.read \in (SUBSET CondPaths(loop.cur.def)) \ {{}}
       /\ loop.result => loop.read = CondPaths(loop.cur.def)
  /\ loop.pc = "complete" => deps[loop.cur.name] = CondPaths(loop.cur.def)

\* The walk over completed goals is part of the SubmitEvent that holds r.mu.
EventSound ==
  /\ inflight.pc \in {"none", "apply", "handle", "walk"}
  /\ inflight.event \in Events \cup {NoEvent}
  /\ inflight.pc # "walk" => compensating = {}

\* An event that breaks a completed goal's condition finds it by its dependencies.
DepsCover ==
  \A g \in Goals : goals[g].state = "complete" /\ g \notin overtaken =>
    CondPaths(goals[g].def) \subseteq deps[g]

PlansInv ==
  /\ plan \in [Goals -> {"none", "run", "release", "cleanup"}]
  /\ PlansAccounted
  /\ IsFiniteSet({g \in Goals : plan[g] \in {"run", "release"}})
  /\ planSem \in 0..PlanCap

KernelInv == EngineInv /\ LoopSound /\ EventSound /\ PlansInv /\ overtaken \subseteq Goals

\* A step that makes no goal complete.
NothingCompleted == \A g \in Goals : goals'[g].state = "complete" => goals'[g] = goals[g]
-----------------------------------------------------------------------------
(* The engine inside the kernel. *)

LEMMA EngineAssumed == EngineProofs!DefsAssumption
BY RuntimeAssumption DEF EngineProofs!DefsAssumption, Engine!DefsAssumption

\* The two instances of GoalEngine have the same operations.
LEMMA SameEngine ==
  /\ Engine!Init <=> EngineProofs!Init
  /\ Engine!EngineStep <=> EngineProofs!EngineStep
  /\ [Engine!Next]_(Engine!vars) <=> [EngineProofs!Next]_(EngineProofs!vars)
<1>1. Engine!Init <=> EngineProofs!Init
  BY DEF Engine!Init, EngineProofs!Init, Engine!Missing, EngineProofs!Missing
<1>2. Engine!EngineStep <=> EngineProofs!EngineStep
  BY DEF Engine!EngineStep, EngineProofs!EngineStep,
         Engine!AddGoal, EngineProofs!AddGoal, Engine!RemoveGoal, EngineProofs!RemoveGoal,
         Engine!SpawnChildren, EngineProofs!SpawnChildren,
         Engine!ActivateGoal, EngineProofs!ActivateGoal,
         Engine!CompleteGoal, EngineProofs!CompleteGoal, Engine!FailGoal, EngineProofs!FailGoal,
         Engine!CancelGoal, EngineProofs!CancelGoal, Engine!Finish, EngineProofs!Finish,
         Engine!RecordDependencies, EngineProofs!RecordDependencies,
         Engine!HandleEvent, EngineProofs!HandleEvent,
         Engine!StillSatisfied, EngineProofs!StillSatisfied,
         Engine!Compensate, EngineProofs!Compensate,
         Engine!Triggered, EngineProofs!Triggered, Engine!Affected, EngineProofs!Affected,
         Engine!RemoveFromSlices, EngineProofs!RemoveFromSlices,
         Engine!With, EngineProofs!With, Engine!Without, EngineProofs!Without,
         Engine!Unlocked, EngineProofs!Unlocked, Engine!Exists, EngineProofs!Exists,
         Engine!Missing, EngineProofs!Missing, Engine!CondHolds, EngineProofs!CondHolds,
         Engine!CondPaths, EngineProofs!CondPaths
<1>3. Engine!StoreChanges <=> EngineProofs!StoreChanges
  BY DEF Engine!StoreChanges, EngineProofs!StoreChanges, Engine!engineVars, EngineProofs!engineVars
<1>4. Engine!vars = EngineProofs!vars /\ (UNCHANGED Engine!vars <=> UNCHANGED EngineProofs!vars)
  BY DEF Engine!vars, EngineProofs!vars
<1>5. Engine!Next <=> EngineProofs!Next
  BY <1>2, <1>3 DEF Engine!Next, EngineProofs!Next
<1> QED BY <1>1, <1>2, <1>4, <1>5

LEMMA EngineKeepsInv ==
  ASSUME EngineInv, [Engine!Next]_(Engine!vars)
  PROVE  EngineInv'
BY SameEngine, EngineAssumed, EngineProofs!NextInv DEF EngineInv

\* What the kernel's own proofs use of the engine's invariant.
LEMMA EngineFacts ==
  ASSUME EngineInv
  PROVE  /\ goals \in [Goals -> [def : Defs \cup {NoDef}, state : Engine!Status, started : BOOLEAN]]
         /\ deps \in [Goals -> SUBSET Paths] /\ compensating \subseteq Goals
         /\ store \in [Paths -> Values]
         /\ \A g \in Goals : goals[g].state # "absent" => goals[g].def \in Defs
         /\ \A g \in Goals : activeGoals[g] > 0 => goals[g].state \in {"active", "pending"}
<1>1. /\ goals \in [Goals -> [def : Defs \cup {NoDef}, state : Engine!Status, started : BOOLEAN]]
      /\ deps \in [Goals -> SUBSET Paths] /\ compensating \subseteq Goals
      /\ store \in [Paths -> Values] /\ activeGoals \in [Goals -> Nat]
      /\ \A g \in Goals : goals[g].state # "absent" <=> goals[g].def # NoDef
  BY DEF EngineInv, EngineProofs!IInv, EngineProofs!TypeOK, EngineProofs!Status, Engine!Status,
         EngineProofs!Exists
<1>2. \A g \in Goals : /\ activeGoals[g] <= 1
                       /\ activeGoals[g] = 1 => goals[g].state \in {"active", "pending"}
  BY DEF EngineInv, EngineProofs!IInv, EngineProofs!ActiveIndexSound
<1> QED BY <1>1, <1>2

LEMMA DataFacts ==
  /\ NoDef \notin Defs /\ TopLevel \subseteq Defs /\ IdOf \in [Defs -> Goals]
  /\ PlanCap \in Nat \ {0}
  /\ \A d \in Defs : CondPaths(d) \subseteq Paths
  /\ \A e \in Events \cup {NoEvent} : e.writes \subseteq Paths
  /\ \A e \in Events \cup {NoEvent} : \A p \in DOMAIN e.sets : p \in Paths /\ e.sets[p] \in Values
<1>1. \A d \in Defs : CondPaths(d) \subseteq Paths
  BY RuntimeAssumption DEF Engine!DefsAssumption, CondPaths, Engine!CondPaths
<1>2. /\ NoDef \notin Defs /\ TopLevel \subseteq Defs /\ IdOf \in [Defs -> Goals]
      /\ PlanCap \in Nat \ {0}
  BY RuntimeAssumption DEF Engine!DefsAssumption
<1>3. NoEvent.writes \subseteq Paths /\ DOMAIN NoEvent.sets = {}
  BY DEF NoEvent
<1>4. \A e \in Events : /\ e.writes \subseteq Paths
                        /\ \A p \in DOMAIN e.sets : p \in Paths /\ e.sets[p] \in Values
  BY RuntimeAssumption
<1> QED BY <1>1, <1>2, <1>3, <1>4

\* Every step of the kernel is a step of the engine, or none.
LEMMA StepRefined ==
  ASSUME KernelInv, [Next]_vars
  PROVE  [Engine!Next]_(Engine!vars)
<1> USE DEF KernelInv
<1>0. UNCHANGED <<engineVars, store>> => UNCHANGED Engine!vars
  BY DEF engineVars, Engine!vars
<1>1. ASSUME Engine!EngineStep, UNCHANGED store PROVE Engine!Next
  BY <1>1 DEF Engine!Next
<1>2. CASE LoopStep
  <2>1. ASSUME NEW c \in loop.batch, Expire(c) PROVE Engine!Next
    <3>1. c.name \in Goals
      BY DEF LoopSound, Copies
    <3> QED BY <1>1, <2>1, <3>1 DEF Expire, Engine!EngineStep
  <2>2. CASE RecordDependencies
    <3>1. /\ loop.cur.name \in Goals /\ loop.cur.def \in Defs
          /\ loop.read \in (SUBSET Engine!CondPaths(loop.cur.def)) \ {{}}
      BY <2>2 DEF RecordDependencies, LoopSound, Copies, CondPaths
    <3>2. Engine!RecordDependencies(loop.cur.name, loop.read) /\ UNCHANGED store
      BY <2>2 DEF RecordDependencies
    <3>3. Engine!EngineStep
      BY <3>1, <3>2 DEF Engine!EngineStep
    <3> QED BY <1>1, <3>2, <3>3
  <2>3. CASE CompleteGoal
    <3>1. loop.cur.name \in Goals
      BY <2>3 DEF CompleteGoal, LoopSound, Copies
    <3> QED BY <1>1, <2>3, <3>1 DEF CompleteGoal, Engine!EngineStep
  <2>4. CASE SpawnChildren
    <3>1. loop.cur.def \in Defs
      BY <2>4 DEF SpawnChildren, LoopSound, Copies
    <3> QED BY <1>1, <2>4, <3>1 DEF SpawnChildren, Engine!EngineStep
  <2>5. CASE \/ ListActiveGoals \/ EndOfTick \/ StartPlan \/ SkipPlan
             \/ \E c \in loop.batch : StartEvaluate(c)
             \/ \E p \in loop.unread : ReadPath(p)
    BY <1>0, <2>5 DEF ListActiveGoals, EndOfTick, StartPlan, SkipPlan, StartEvaluate, ReadPath
  <2> QED BY <1>2, <2>1, <2>2, <2>3, <2>4, <2>5 DEF LoopStep
<1>3. CASE EventStep
  <2>1. CASE ApplyEvent
    <3>1. store' \in [Paths -> Values]
      BY <2>1, EngineFacts, DataFacts DEF ApplyEvent, EventSound
    <3> QED BY <2>1, <3>1 DEF ApplyEvent, Engine!Next, Engine!StoreChanges, engineVars,
                              Engine!engineVars
  <2>2. CASE HandleEvent
    <3>1. inflight.event.writes \in SUBSET Paths
      BY <2>2, DataFacts DEF EventSound
    <3> QED BY <1>1, <2>2, <3>1 DEF HandleEvent, Engine!EngineStep
  <2>3. ASSUME NEW g \in compensating, WalkGoal(g) PROVE Engine!Next
    <3>1. g \in Goals
      BY EngineFacts
    <3> QED BY <1>1, <2>3, <3>1 DEF WalkGoal, Engine!EngineStep
  <2>4. CASE RejectEvent \/ ReturnFromSubmit
    BY <1>0, <2>4 DEF RejectEvent, ReturnFromSubmit
  <2> QED BY <1>3, <2>1, <2>2, <2>3, <2>4 DEF EventStep
<1>4. ASSUME NEW e \in Events, SubmitEvent(e) PROVE UNCHANGED Engine!vars
  BY <1>0, <1>4 DEF SubmitEvent
<1>5. ASSUME NEW d \in TopLevel, SubmitGoal(d) PROVE Engine!Next
  BY <1>1, <1>5, DataFacts DEF SubmitGoal, Engine!EngineStep
<1>6. ASSUME NEW g \in Goals, CancelGoal(g) PROVE Engine!Next
  BY <1>1, <1>6 DEF CancelGoal, Engine!EngineStep
<1>7. ASSUME NEW g \in Goals, PlanStep(g) PROVE UNCHANGED Engine!vars
  BY <1>0, <1>7 DEF PlanStep, PlanSucceeds, PlanFails, ReleaseSem, ForgetPlan
<1>8. CASE UNCHANGED vars
  BY <1>0, <1>8 DEF vars
<1> QED BY <1>2, <1>3, <1>4, <1>5, <1>6, <1>7, <1>8 DEF Next
-----------------------------------------------------------------------------
(* The kernel's own invariants. *)

\* Of the engine's operations only CompleteGoal makes a goal complete.
LEMMA EngineCompletesNothing ==
  ASSUME EngineInv,
         \/ \E d \in Defs : Engine!AddGoal(d) \/ Engine!SpawnChildren(d)
         \/ \E g \in Goals : Engine!FailGoal(g) \/ Engine!CancelGoal(g)
         \/ \E writes \in SUBSET Paths : Engine!HandleEvent(writes)
         \/ \E g \in Goals : Engine!StillSatisfied(g) \/ Engine!Compensate(g)
  PROVE  NothingCompleted /\ deps' = deps
<1> USE EngineFacts DEF NothingCompleted
<1>1. ASSUME NEW d \in Defs, Engine!AddGoal(d) PROVE NothingCompleted /\ deps' = deps
  BY <1>1 DEF Engine!AddGoal
<1>2. ASSUME NEW d \in Defs, Engine!SpawnChildren(d) PROVE NothingCompleted /\ deps' = deps
  BY <1>2 DEF Engine!SpawnChildren
<1>3. ASSUME NEW g \in Goals, Engine!FailGoal(g) \/ Engine!CancelGoal(g)
      PROVE  NothingCompleted /\ deps' = deps
  BY <1>3 DEF Engine!FailGoal, Engine!CancelGoal, Engine!Finish
<1>4. ASSUME NEW writes \in SUBSET Paths, Engine!HandleEvent(writes)
      PROVE  NothingCompleted /\ deps' = deps
  BY <1>4 DEF Engine!HandleEvent
<1>5. ASSUME NEW g \in Goals, Engine!StillSatisfied(g) \/ Engine!Compensate(g)
      PROVE  NothingCompleted /\ deps' = deps
  BY <1>5 DEF Engine!StillSatisfied, Engine!Compensate
<1> QED BY <1>1, <1>2, <1>3, <1>4, <1>5

\* What is not the loop's leaves the goals the loop works on incomplete.
LEMMA LoopKept ==
  ASSUME LoopSound, NothingCompleted, UNCHANGED <<loop, deps>>
  PROVE  LoopSound'
<1>1. \A c \in loop.batch : goals'[c.name].state # "complete"
  BY DEF LoopSound, NothingCompleted, Copies
<1>2. loop.pc \in {"read", "record", "complete"} => goals'[loop.cur.name].state # "complete"
  BY DEF LoopSound, NothingCompleted, Copies
<1> QED BY <1>1, <1>2 DEF LoopSound, CondPaths, Engine!CondPaths, Copies

LEMMA ListInv ==
  ASSUME KernelInv, ListActiveGoals
  PROVE  LoopSound'
<1> DEFINE copy(g) == [name |-> g, def |-> goals[g].def, started |-> goals[g].started]
           listed  == {h \in Goals : activeGoals[h] > 0}
<1>1. /\ loop'.pc = "pick" /\ loop'.batch = {copy(g) : g \in listed}
      /\ UNCHANGED <<goals, deps>>
  BY DEF ListActiveGoals, AtRest, engineVars
<1>2. \A g \in listed : copy(g) \in Copies /\ copy(g).name = g /\ goals[g].state # "complete"
  BY EngineFacts DEF KernelInv, Copies
<1> HIDE DEF copy, listed
<1> QED BY <1>1, <1>2 DEF LoopSound

LEMMA StartEvaluateInv ==
  ASSUME LoopSound, NEW c \in loop.batch, StartEvaluate(c)
  PROVE  LoopSound'
<1>1. /\ loop'.pc \in {"plan", "read"} /\ loop'.batch = loop.batch \ {c} /\ loop'.cur = c
      /\ loop'.unread = CondPaths(c.def) /\ loop'.read = {}
      /\ UNCHANGED <<goals, deps>>
  BY DEF StartEvaluate, engineVars
<1>2. c \in Copies /\ goals[c.name].state # "complete" /\ \A b \in loop'.batch : b.name # c.name
  BY <1>1 DEF LoopSound
<1> QED BY <1>1, <1>2 DEF LoopSound, CondPaths, Engine!CondPaths

LEMMA ReadPathInv ==
  ASSUME LoopSound, NEW p \in loop.unread, ReadPath(p)
  PROVE  LoopSound'
<1> DEFINE likes == store[p] = Want[loop.cur.def][p]
           rest  == loop.unread \ {p}
<1>1. /\ loop.pc = "read" /\ loop'.batch = loop.batch /\ loop'.cur = loop.cur
      /\ loop'.unread = rest /\ loop'.read = loop.read \cup {p} /\ loop'.result = likes
      /\ loop'.pc = IF likes /\ rest # {} THEN "read" ELSE "record"
      /\ UNCHANGED <<goals, deps>>
  BY DEF ReadPath, engineVars
<1>2. loop.read \cup loop.unread = CondPaths(loop.cur.def)
  BY <1>1 DEF LoopSound
<1>3. /\ loop'.read \cup loop'.unread = CondPaths(loop.cur.def)
      /\ loop'.read \in (SUBSET CondPaths(loop.cur.def)) \ {{}}
      /\ loop'.pc = "record" /\ loop'.result => loop'.read = CondPaths(loop.cur.def)
  <2>1. loop'.read \cup loop'.unread = CondPaths(loop.cur.def) /\ p \in loop'.read
    BY <1>1, <1>2
  <2>2. loop'.pc = "record" /\ loop'.result => rest = {}
    BY <1>1
  <2> QED BY <1>1, <2>1, <2>2
<1> HIDE DEF likes, rest
<1> QED BY <1>1, <1>3 DEF LoopSound, CondPaths, Engine!CondPaths

LEMMA RecordInv ==
  ASSUME KernelInv, RecordDependencies
  PROVE  LoopSound'
<1>1. /\ loop.pc = "record" /\ loop'.pc \in {"complete", "plan"}
      /\ loop'.batch = loop.batch /\ loop'.cur = loop.cur
      /\ loop'.pc = "complete" => loop.result
      /\ goals' = goals /\ deps' = [deps EXCEPT ![loop.cur.name] = loop.read]
  BY DEF RecordDependencies, Engine!RecordDependencies
<1>2. loop'.pc = "complete" => deps'[loop.cur.name] = CondPaths(loop.cur.def)
  BY <1>1, EngineFacts DEF KernelInv, LoopSound, Copies
<1> QED BY <1>1, <1>2 DEF KernelInv, LoopSound, CondPaths, Engine!CondPaths

LEMMA CompleteGoalInv ==
  ASSUME KernelInv, CompleteGoal
  PROVE  LoopSound'
<1>1. /\ loop.pc = "complete" /\ loop'.pc = "spawn"
      /\ loop'.batch = loop.batch /\ loop'.cur = loop.cur
      /\ loop.cur \in Copies /\ \A c \in loop.batch : c \in Copies /\ c.name # loop.cur.name
      /\ goals' = [goals EXCEPT ![loop.cur.name].state = "complete"]
  BY DEF CompleteGoal, Engine!CompleteGoal, Engine!Finish, KernelInv, LoopSound
<1>2. \A c \in loop.batch : goals'[c.name].state # "complete"
  BY <1>1, EngineFacts DEF KernelInv, LoopSound, Copies
<1> QED BY <1>1, <1>2 DEF KernelInv, LoopSound

LEMMA LoopStepInv ==
  ASSUME KernelInv, LoopStep
  PROVE  LoopSound'
<1> USE DEF KernelInv
<1>1. ASSUME NEW c \in loop.batch, Expire(c) PROVE LoopSound'
  <2>1. NothingCompleted /\ deps' = deps
    BY <1>1, EngineCompletesNothing DEF Expire, LoopSound, Copies
  <2>2. /\ loop.pc = "pick" /\ loop'.pc = "pick" /\ loop'.batch = loop.batch \ {c}
    BY <1>1 DEF Expire
  <2>3. \A b \in loop.batch : goals'[b.name].state # "complete"
    BY <2>1 DEF LoopSound, NothingCompleted, Copies
  <2> QED BY <2>2, <2>3 DEF LoopSound
<1>2. CASE SpawnChildren
  <2>1. loop.cur.def \in Defs
    BY <1>2 DEF SpawnChildren, LoopSound, Copies
  <2>2. NothingCompleted /\ deps' = deps
    BY <1>2, <2>1, EngineCompletesNothing DEF SpawnChildren
  <2>3. /\ loop.pc = "spawn" /\ loop'.pc = "pick" /\ loop'.batch = loop.batch
    BY <1>2 DEF SpawnChildren
  <2>4. \A b \in loop.batch : goals'[b.name].state # "complete"
    BY <2>2 DEF LoopSound, NothingCompleted, Copies
  <2> QED BY <2>3, <2>4 DEF LoopSound
<1>3. CASE EndOfTick
  BY <1>3 DEF EndOfTick, AtRest, LoopSound
<1>4. CASE StartPlan \/ SkipPlan
  <2>1. /\ loop'.pc = "pick" /\ loop'.batch = loop.batch /\ UNCHANGED <<goals, deps>>
    <3>1. CASE StartPlan
      BY <3>1 DEF StartPlan, engineVars
    <3>2. CASE SkipPlan
      BY <3>2 DEF SkipPlan, engineVars
    <3> QED BY <1>4, <3>1, <3>2
  <2> QED BY <2>1 DEF LoopSound
<1> QED
  BY <1>1, <1>2, <1>3, <1>4, ListInv, StartEvaluateInv, ReadPathInv, RecordInv, CompleteGoalInv
  DEF LoopStep
\* Whoever holds g.mu through the walk holds r.mu as well: it is inflight's.
LEMMA EventSoundInv ==
  ASSUME KernelInv, [Next]_vars
  PROVE  EventSound'
<1> USE DEF KernelInv, EventSound
<1>1. CASE LoopStep
  <2>1. inflight' = inflight
    BY <1>1 DEF LoopStep, ListActiveGoals, EndOfTick, StartPlan, SkipPlan, StartEvaluate, ReadPath,
                Expire, RecordDependencies, CompleteGoal, SpawnChildren
  <2>2. compensating' = compensating
    BY <1>1 DEF LoopStep, ListActiveGoals, EndOfTick, StartPlan, SkipPlan, StartEvaluate, ReadPath,
                Expire, RecordDependencies, CompleteGoal, SpawnChildren, engineVars,
                Engine!FailGoal, Engine!CompleteGoal, Engine!Finish, Engine!RecordDependencies,
                Engine!SpawnChildren
  <2> QED BY <2>1, <2>2
<1>2. CASE EventStep
  <2>1. CASE ApplyEvent
    <3>1. /\ inflight.pc = "apply" /\ inflight'.pc = "handle" /\ inflight'.event = inflight.event
          /\ compensating' = compensating
      BY <2>1 DEF ApplyEvent, engineVars
    <3> QED BY <3>1
  <2>2. CASE RejectEvent
    BY <2>2 DEF RejectEvent, Idle, engineVars
  <2>3. CASE HandleEvent
    BY <2>3 DEF HandleEvent
  <2>4. ASSUME NEW g \in compensating, WalkGoal(g) PROVE EventSound'
    BY <2>4 DEF WalkGoal
  <2>5. CASE ReturnFromSubmit
    BY <2>5 DEF ReturnFromSubmit, Idle, engineVars
  <2> QED BY <1>2, <2>1, <2>2, <2>3, <2>4, <2>5 DEF EventStep
<1>3. ASSUME NEW e \in Events, SubmitEvent(e) PROVE EventSound'
  BY <1>3 DEF SubmitEvent, RuntimeFree, engineVars
<1>4. ASSUME NEW d \in TopLevel, SubmitGoal(d) PROVE EventSound'
  BY <1>4 DEF SubmitGoal, Engine!AddGoal
<1>5. ASSUME NEW g \in Goals, CancelGoal(g) PROVE EventSound'
  BY <1>5 DEF CancelGoal, Engine!CancelGoal, Engine!Finish
<1>6. ASSUME NEW g \in Goals, PlanStep(g) PROVE EventSound'
  BY <1>6 DEF PlanStep, PlanSucceeds, PlanFails, ReleaseSem, ForgetPlan, RuntimeFree, engineVars
<1>7. CASE UNCHANGED vars
  BY <1>7 DEF vars, engineVars
<1> QED BY <1>1, <1>2, <1>3, <1>4, <1>5, <1>6, <1>7 DEF Next

Holders == {g \in Goals : plan[g] \in {"run", "release"}}

\* A plan is started for a goal that has none, and takes a token.
LEMMA StartPlanInv ==
  ASSUME KernelInv, StartPlan
  PROVE  PlansInv'
<1> DEFINE n == loop.cur.name
<1>1. /\ n \in Goals /\ n \notin activePlans /\ planSem < PlanCap
      /\ planSem' = planSem + 1 /\ activePlans' = activePlans \cup {n}
      /\ plan' = [plan EXCEPT ![n] = "run"]
      /\ planSem \in 0..PlanCap /\ PlanCap \in Nat
      /\ plan \in [Goals -> {"none", "run", "release", "cleanup"}]
      /\ activePlans = {g \in Goals : plan[g] # "none"}
      /\ planSem = Cardinality(Holders) /\ IsFiniteSet(Holders)
  BY DataFacts DEF StartPlan, CanPlan, KernelInv, LoopSound, Copies, PlansInv, PlansAccounted,
                   Holders
<1> HIDE DEF n
<1>2. n \notin Holders /\ Holders' = Holders \cup {n}
  BY <1>1 DEF Holders
<1>3. IsFiniteSet(Holders') /\ Cardinality(Holders') = Cardinality(Holders) + 1
  BY <1>1, <1>2, FS_AddElement
<1>4. activePlans' = {g \in Goals : plan'[g] # "none"}
  BY <1>1
<1> QED BY <1>1, <1>3, <1>4 DEF PlansInv, PlansAccounted, Holders

\* A plan gives its token back before it is forgotten, and each once.
LEMMA PlanStepInv ==
  ASSUME KernelInv, NEW g \in Goals, PlanStep(g)
  PROVE  PlansInv'
<1>0. /\ plan \in [Goals -> {"none", "run", "release", "cleanup"}]
      /\ activePlans = {h \in Goals : plan[h] # "none"}
      /\ planSem = Cardinality(Holders) /\ IsFiniteSet(Holders)
      /\ planSem \in 0..PlanCap /\ PlanCap \in Nat
  BY DataFacts DEF KernelInv, PlansInv, PlansAccounted, Holders
<1>1. CASE PlanSucceeds(g) \/ PlanFails(g)
  <2>1. /\ plan[g] = "run" /\ plan' = [plan EXCEPT ![g] = "release"]
        /\ UNCHANGED <<activePlans, planSem>>
    BY <1>1 DEF PlanSucceeds, PlanFails
  <2>2. Holders' = Holders /\ activePlans' = {h \in Goals : plan'[h] # "none"}
    BY <1>0, <2>1 DEF Holders
  <2> QED BY <1>0, <2>1, <2>2 DEF PlansInv, PlansAccounted, Holders
<1>2. CASE ReleaseSem(g)
  <2>1. /\ plan[g] = "release" /\ plan' = [plan EXCEPT ![g] = "cleanup"]
        /\ activePlans' = activePlans /\ planSem' = planSem - 1
    BY <1>2 DEF ReleaseSem
  <2>2. /\ g \in Holders /\ Holders' = Holders \ {g}
        /\ activePlans' = {h \in Goals : plan'[h] # "none"}
    BY <1>0, <2>1 DEF Holders
  <2>3. IsFiniteSet(Holders') /\ Cardinality(Holders') = Cardinality(Holders) - 1
    BY <1>0, <2>2, FS_RemoveElement
  <2>4. Cardinality(Holders') \in Nat
    BY <2>3, FS_CardinalityType
  <2> QED BY <1>0, <2>1, <2>2, <2>3, <2>4 DEF PlansInv, PlansAccounted, Holders
<1>3. CASE ForgetPlan(g)
  <2>1. /\ plan[g] = "cleanup" /\ plan' = [plan EXCEPT ![g] = "none"]
        /\ activePlans' = activePlans \ {g} /\ planSem' = planSem
    BY <1>3 DEF ForgetPlan
  <2>2. Holders' = Holders /\ activePlans' = {h \in Goals : plan'[h] # "none"}
    BY <1>0, <2>1 DEF Holders
  <2> QED BY <1>0, <2>1, <2>2 DEF PlansInv, PlansAccounted, Holders
<1> QED BY <1>1, <1>2, <1>3 DEF PlanStep

LEMMA KernelInit == Init => KernelInv
<1> SUFFICES ASSUME Init PROVE KernelInv
  OBVIOUS
<1>1. EngineInv
  BY SameEngine, EngineAssumed, EngineProofs!InitInv DEF Init, EngineInv
<1>2. LoopSound
  BY DEF Init, AtRest, LoopSound
<1>3. EventSound
  BY DEF Init, Idle, EventSound, Engine!Init
<1>4. PlansInv
  <2>1. Holders = {} /\ activePlans = {g \in Goals : plan[g] # "none"}
    BY DEF Init, Holders
  <2>2. IsFiniteSet(Holders) /\ Cardinality(Holders) = 0
    BY <2>1, FS_EmptySet
  <2>3. plan \in [Goals -> {"none", "run", "release", "cleanup"}] /\ planSem = 0
    BY DEF Init
  <2> QED BY <2>1, <2>2, <2>3, DataFacts DEF PlansInv, PlansAccounted, Holders
<1> QED BY <1>1, <1>2, <1>3, <1>4 DEF Init, KernelInv

LEMMA KernelNext == KernelInv /\ [Next]_vars => KernelInv'
<1> SUFFICES ASSUME KernelInv, [Next]_vars PROVE KernelInv'
  OBVIOUS
<1> USE DEF KernelInv
<1>1. EngineInv'
  BY StepRefined, EngineKeepsInv
<1>2. EventSound'
  BY EventSoundInv
<1>3. LoopSound'
  <2>1. ASSUME NothingCompleted, UNCHANGED <<loop, deps>> PROVE LoopSound'
    BY <2>1, LoopKept
  <2>2. ASSUME UNCHANGED <<engineVars, loop>> PROVE LoopSound'
    BY <2>1, <2>2 DEF engineVars, NothingCompleted
  <2>3. CASE EventStep
    <3>1. CASE HandleEvent
      <4>1. inflight.event.writes \in SUBSET Paths
        BY DataFacts DEF EventSound
      <4> QED BY <2>1, <3>1, <4>1, EngineCompletesNothing DEF HandleEvent
    <3>2. ASSUME NEW g \in compensating, WalkGoal(g) PROVE LoopSound'
      <4>1. g \in Goals
        BY EngineFacts
      <4> QED BY <2>1, <3>2, <4>1, EngineCompletesNothing DEF WalkGoal
    <3>3. CASE ApplyEvent \/ RejectEvent \/ ReturnFromSubmit
      BY <2>2, <3>3 DEF ApplyEvent, RejectEvent, ReturnFromSubmit
    <3> QED BY <2>3, <3>1, <3>2, <3>3 DEF EventStep
  <2>4. ASSUME NEW d \in TopLevel, SubmitGoal(d) PROVE LoopSound'
    BY <2>1, <2>4, DataFacts, EngineCompletesNothing DEF SubmitGoal
  <2>5. ASSUME NEW g \in Goals, CancelGoal(g) PROVE LoopSound'
    BY <2>1, <2>5, EngineCompletesNothing DEF CancelGoal
  <2>6. ASSUME NEW g \in Goals, PlanStep(g) PROVE LoopSound'
    BY <2>2, <2>6 DEF PlanStep, PlanSucceeds, PlanFails, ReleaseSem, ForgetPlan
  <2>7. ASSUME NEW e \in Events, SubmitEvent(e) PROVE LoopSound'
    BY <2>2, <2>7 DEF SubmitEvent
  <2>8. CASE UNCHANGED vars
    BY <2>2, <2>8 DEF vars
  <2> QED BY LoopStepInv, <2>3, <2>4, <2>5, <2>6, <2>7, <2>8 DEF Next
<1>4. PlansInv'
  <2>1. ASSUME UNCHANGED planVars PROVE PlansInv'
    BY <2>1 DEF planVars, PlansInv, PlansAccounted
  <2>2. CASE LoopStep
    BY <2>1, <2>2, StartPlanInv
    DEF LoopStep, ListActiveGoals, EndOfTick, SkipPlan, StartEvaluate, ReadPath,
        Expire, RecordDependencies, CompleteGoal, SpawnChildren
  <2>3. CASE EventStep
    BY <2>1, <2>3 DEF EventStep, ApplyEvent, RejectEvent, HandleEvent, WalkGoal, ReturnFromSubmit
  <2>4. CASE \/ \E e \in Events : SubmitEvent(e)
             \/ \E d \in TopLevel : SubmitGoal(d)
             \/ \E g \in Goals : CancelGoal(g)
             \/ UNCHANGED vars
    BY <2>1, <2>4 DEF SubmitEvent, SubmitGoal, CancelGoal, vars
  <2> QED BY <2>2, <2>3, <2>4, PlanStepInv DEF Next
<1>5. overtaken' \subseteq Goals
  <2>1. CASE CompleteGoal
    BY <2>1 DEF CompleteGoal, LoopSound, Copies
  <2>2. CASE ~CompleteGoal
    <3>1. overtaken' = overtaken
      BY <2>2
      DEF Next, LoopStep, ListActiveGoals, EndOfTick, StartPlan, SkipPlan, StartEvaluate, ReadPath,
          Expire, RecordDependencies, SpawnChildren, EventStep, ApplyEvent, RejectEvent,
          HandleEvent, WalkGoal, ReturnFromSubmit, SubmitEvent, SubmitGoal, CancelGoal, PlanStep,
          PlanSucceeds, PlanFails, ReleaseSem, ForgetPlan, vars
    <3> QED BY <3>1
  <2> QED BY <2>1, <2>2
<1> QED BY <1>1, <1>2, <1>3, <1>4, <1>5

LEMMA KernelInvHolds == Spec => []KernelInv
<1>1. Init => KernelInv
  BY KernelInit
<1>2. KernelInv /\ [Next]_vars => KernelInv'
  BY KernelNext
<1> QED BY <1>1, <1>2, PTL DEF Spec
-----------------------------------------------------------------------------
(* Compensations. *)

\* Events declare the paths they write: SubmitEvent hands HandleEvent no others.
WritesDeclared == \A e \in Events : DOMAIN e.sets \subseteq e.writes

CompensationInv == DepsCover /\ NoCompensationLost

\* Why a broken completed goal is not lost.
Known(g) == \/ g \in overtaken
            \/ g \in compensating
            \/ inflight.pc = "handle" /\ inflight.event.writes \cap deps[g] # {}

\* Steps that complete nothing and keep what is known of the goals still complete.
LEMMA CompensationKept ==
  ASSUME CompensationInv, NothingCompleted, UNCHANGED <<deps, store, overtaken>>,
         \A g \in Goals :
           goals'[g].state = "complete" /\ ~CondHolds(goals[g].def) /\ Known(g) => Known(g)'
  PROVE  CompensationInv'
<1>1. DepsCover'
  BY DEF CompensationInv, DepsCover, NothingCompleted, CondPaths, Engine!CondPaths
<1>2. NoCompensationLost'
  <2> SUFFICES ASSUME NEW g \in Goals, goals'[g].state = "complete", ~CondHolds(goals[g].def)'
               PROVE  Known(g)'
    BY DEF NoCompensationLost, Known
  <2>1. goals'[g] = goals[g]
    BY DEF NothingCompleted
  <2>2. ~CondHolds(goals[g].def)
    BY <2>1 DEF CondHolds, Engine!CondHolds, Engine!CondPaths
  <2>3. Known(g)
    BY <2>1, <2>2 DEF CompensationInv, NoCompensationLost, Known
  <2> QED BY <2>2, <2>3
<1> QED BY <1>1, <1>2 DEF CompensationInv

\* The store changes: whose condition breaks has read what the event declares.
LEMMA ApplyEventCompensation ==
  ASSUME KernelInv, CompensationInv, WritesDeclared, ApplyEvent
  PROVE  CompensationInv'
<1> DEFINE e == inflight.event
<1>0. /\ inflight.pc = "apply" /\ inflight'.pc = "handle" /\ inflight'.event = e
      /\ UNCHANGED <<goals, deps, compensating, overtaken>>
      /\ store' = [p \in Paths |-> IF p \in DOMAIN e.sets THEN e.sets[p] ELSE store[p]]
      /\ DOMAIN e.sets \subseteq e.writes
  BY DEF ApplyEvent, engineVars, WritesDeclared, KernelInv, EventSound, NoEvent
<1>1. DepsCover'
  BY <1>0 DEF CompensationInv, DepsCover, CondPaths, Engine!CondPaths
<1>2. NoCompensationLost'
  <2> SUFFICES ASSUME NEW g \in Goals, goals[g].state = "complete", ~CondHolds(goals[g].def)',
                      g \notin overtaken
               PROVE  e.writes \cap deps[g] # {}
    BY <1>0 DEF NoCompensationLost
  <2>1. CondHolds(goals[g].def)
    BY <1>0 DEF CompensationInv, NoCompensationLost, KernelInv, EventSound
  <2>2. goals[g].def \in Defs /\ CondPaths(goals[g].def) \subseteq Paths
    BY EngineFacts, DataFacts DEF KernelInv
  <2>3. PICK p \in CondPaths(goals[g].def) : store'[p] # store[p]
    BY <1>0, <2>1 DEF CondHolds, Engine!CondHolds, CondPaths, Engine!CondPaths
  <2>4. p \in DOMAIN e.sets
    BY <1>0, <2>2, <2>3
  <2>5. p \in deps[g]
    BY DEF CompensationInv, DepsCover
  <2> QED BY <1>0, <2>4, <2>5
<1> QED BY <1>1, <1>2 DEF CompensationInv

\* The walk takes over from the event that is being handled.
LEMMA HandleEventCompensation ==
  ASSUME KernelInv, CompensationInv, HandleEvent
  PROVE  CompensationInv'
<1>1. inflight.event.writes \in SUBSET Paths
  BY DataFacts DEF KernelInv, EventSound
<1>2. /\ NothingCompleted /\ deps' = deps /\ UNCHANGED <<store, overtaken>>
  BY <1>1, EngineCompletesNothing DEF KernelInv, HandleEvent
<1>3. /\ inflight.pc = "handle" /\ compensating = {}
      /\ compensating' = {g \in Goals : /\ goals[g].state = "complete"
                                        /\ deps[g] \cap inflight.event.writes # {}}
  BY DEF HandleEvent, Engine!HandleEvent, Engine!Unlocked, Engine!Affected
<1>4. \A g \in Goals : goals'[g].state = "complete" /\ Known(g) => Known(g)'
  BY <1>2, <1>3 DEF Known, NothingCompleted
<1> QED BY <1>2, <1>4, CompensationKept

\* The loop completes a goal whose dependencies are those of its condition, unless
\* the goal was replaced or an event came in between, and then it is in overtaken.
LEMMA CompleteGoalCompensation ==
  ASSUME KernelInv, CompensationInv, CompleteGoal
  PROVE  CompensationInv'
<1> DEFINE n == loop.cur.name
<1>0. /\ n \in Goals /\ deps[n] = CondPaths(loop.cur.def)
      /\ goals' = [goals EXCEPT ![n].state = "complete"]
      /\ overtaken' = IF goals[n].def # loop.cur.def \/ ~CondHolds(loop.cur.def)
                      THEN overtaken \cup {n} ELSE overtaken \ {n}
      /\ UNCHANGED <<deps, compensating, store, inflight>>
  BY DEF CompleteGoal, Engine!CompleteGoal, Engine!Finish, KernelInv, LoopSound, Copies
<1> HIDE DEF n
<1>1. /\ goals'[n].state = "complete" /\ goals'[n].def = goals[n].def
      /\ \A g \in Goals \ {n} : goals'[g] = goals[g]
  BY <1>0, EngineFacts DEF KernelInv
<1>2. n \notin overtaken' => CondPaths(goals[n].def) = deps[n] /\ CondHolds(goals[n].def)
  BY <1>0
<1>3. DepsCover'
  BY <1>0, <1>1, <1>2 DEF CompensationInv, DepsCover, CondPaths, Engine!CondPaths
<1>4. NoCompensationLost'
  <2> SUFFICES ASSUME NEW g \in Goals, goals'[g].state = "complete", ~CondHolds(goals[g].def)'
               PROVE  Known(g)'
    BY DEF NoCompensationLost, Known
  <2>1. ~CondHolds(goals[g].def)
    BY <1>0, <1>1 DEF CondHolds, Engine!CondHolds, Engine!CondPaths
  <2>2. CASE g = n
    BY <1>2, <2>1, <2>2 DEF Known
  <2>3. CASE g # n
    BY <1>0, <1>1, <2>1, <2>3 DEF CompensationInv, NoCompensationLost, Known
  <2> QED BY <2>2, <2>3
<1> QED BY <1>3, <1>4 DEF CompensationInv

\* Recording what a condition read changes the dependencies of no completed goal.
LEMMA RecordCompensation ==
  ASSUME KernelInv, CompensationInv, RecordDependencies
  PROVE  CompensationInv'
<1>1. /\ loop.cur.name \in Goals /\ goals[loop.cur.name].state # "complete"
      /\ deps' = [deps EXCEPT ![loop.cur.name] = loop.read]
      /\ UNCHANGED <<goals, compensating, store, inflight, overtaken>>
  BY DEF RecordDependencies, Engine!RecordDependencies, KernelInv, LoopSound, Copies
<1>2. \A g \in Goals : goals[g].state = "complete" => deps'[g] = deps[g]
  BY <1>1, EngineFacts DEF KernelInv
<1> QED BY <1>1, <1>2 DEF CompensationInv, DepsCover, NoCompensationLost, CondPaths,
                          Engine!CondPaths, CondHolds, Engine!CondHolds
\* A goal leaves the walk with its condition satisfied or compensating.
LEMMA WalkCompensation ==
  ASSUME KernelInv, CompensationInv, NEW g \in compensating, WalkGoal(g)
  PROVE  CompensationInv'
<1>1. g \in Goals
  BY EngineFacts DEF KernelInv
<1>2. NothingCompleted /\ deps' = deps /\ UNCHANGED <<store, overtaken, inflight>>
  BY <1>1, EngineCompletesNothing DEF KernelInv, WalkGoal
<1>3. CASE Engine!StillSatisfied(g)
  <2>1. CondHolds(goals[g].def) /\ compensating' = compensating \ {g}
    BY <1>3 DEF Engine!StillSatisfied, CondHolds
  <2> QED BY <1>2, <2>1, CompensationKept DEF Known
<1>4. CASE Engine!Compensate(g)
  <2>1. goals'[g].state # "complete" /\ compensating' = compensating \ {g}
    BY <1>1, <1>4, EngineFacts DEF KernelInv, Engine!Compensate
  <2> QED BY <1>2, <2>1, CompensationKept DEF Known
<1> QED BY <1>3, <1>4 DEF WalkGoal

LEMMA CompensationInit == Init => CompensationInv
BY DEF Init, Engine!Init, Engine!Missing, CompensationInv, DepsCover, NoCompensationLost

LEMMA CompensationNext ==
  ASSUME KernelInv, CompensationInv, WritesDeclared, [Next]_vars
  PROVE  CompensationInv'
<1>1. ASSUME NothingCompleted, UNCHANGED <<deps, store, overtaken, compensating>>,
             inflight' = inflight \/ inflight.pc # "handle"
      PROVE  CompensationInv'
  BY <1>1, CompensationKept DEF Known
<1>2. ASSUME UNCHANGED <<engineVars, store, overtaken>>,
             inflight' = inflight \/ inflight.pc # "handle"
      PROVE  CompensationInv'
  BY <1>1, <1>2 DEF engineVars, NothingCompleted
<1>3. CASE LoopStep
  <2>1. ASSUME NEW c \in loop.batch, Expire(c) PROVE CompensationInv'
    <3>1. c.name \in Goals
      BY DEF KernelInv, LoopSound, Copies
    <3> QED BY <1>1, <2>1, <3>1, EngineCompletesNothing
            DEF KernelInv, Expire, Engine!FailGoal, Engine!Finish
  <2>2. CASE SpawnChildren
    <3>1. loop.cur.def \in Defs
      BY <2>2 DEF SpawnChildren, KernelInv, LoopSound, Copies
    <3> QED BY <1>1, <2>2, <3>1, EngineCompletesNothing
            DEF KernelInv, SpawnChildren, Engine!SpawnChildren
  <2>3. CASE \/ ListActiveGoals \/ EndOfTick \/ StartPlan \/ SkipPlan
             \/ \E c \in loop.batch : StartEvaluate(c)
             \/ \E p \in loop.unread : ReadPath(p)
    BY <1>2, <2>3 DEF ListActiveGoals, EndOfTick, StartPlan, SkipPlan, StartEvaluate, ReadPath
  <2> QED BY <1>3, <2>1, <2>2, <2>3, RecordCompensation, CompleteGoalCompensation DEF LoopStep
<1>4. CASE EventStep
  <2>1. CASE RejectEvent \/ ReturnFromSubmit
    BY <1>2, <2>1 DEF RejectEvent, ReturnFromSubmit
  <2> QED BY <1>4, <2>1, ApplyEventCompensation, HandleEventCompensation, WalkCompensation
          DEF EventStep
<1>5. ASSUME NEW e \in Events, SubmitEvent(e) PROVE CompensationInv'
  BY <1>2, <1>5 DEF SubmitEvent, RuntimeFree
<1>6. ASSUME NEW d \in TopLevel, SubmitGoal(d) PROVE CompensationInv'
  BY <1>1, <1>6, DataFacts, EngineCompletesNothing DEF KernelInv, SubmitGoal, Engine!AddGoal
<1>7. ASSUME NEW g \in Goals, CancelGoal(g) PROVE CompensationInv'
  BY <1>1, <1>7, EngineCompletesNothing DEF KernelInv, CancelGoal, Engine!CancelGoal, Engine!Finish
<1>8. ASSUME NEW g \in Goals, PlanStep(g) PROVE CompensationInv'
  BY <1>2, <1>8 DEF PlanStep, PlanSucceeds, PlanFails, ReleaseSem, ForgetPlan, RuntimeFree
<1>9. CASE UNCHANGED vars
  BY <1>2, <1>9 DEF vars
<1> QED BY <1>3, <1>4, <1>5, <1>6, <1>7, <1>8, <1>9 DEF Next

-----------------------------------------------------------------------------
\* kernel.go as a whole: whatever the loop, the events, the plans and the clients
\* do, the engine sees only calls of its operations, each as GoalEngine has it.
THEOREM EngineRefinedCorrect == Spec => EngineRefined
<1>1. Init => Engine!Init
  BY DEF Init
<1>2. KernelInv /\ [Next]_vars => [Engine!Next]_(Engine!vars)
  BY StepRefined
<1> QED BY <1>1, <1>2, KernelInvHolds, PTL DEF Spec, EngineRefined, Engine!Spec

\* goal_engine.go under kernel.go: the slices that the loop and the APIs list are
\* sound in the running kernel.
THEOREM IndexesSoundInKernel == Spec => []Engine!IndexesSound
<1>1. KernelInv => Engine!IndexesSound
  BY DEF KernelInv, EngineInv, EngineProofs!IInv, EngineProofs!ActiveIndexSound,
         EngineProofs!PendingIndexSound, EngineProofs!WalkSound, EngineProofs!Exists,
         Engine!IndexesSound, Engine!ActiveIndexSound, Engine!PendingIndexSound,
         Engine!WalkSound, Engine!Exists
<1> QED BY <1>1, KernelInvHolds, PTL

\* kernel.go, processGoals and executePlan: activePlans and the semaphore agree with
\* the plans' goroutines, and a goal has one plan at most.
THEOREM PlansAccountedCorrect == Spec => []PlansAccounted
<1>1. KernelInv => PlansAccounted
  BY DEF KernelInv, PlansInv
<1> QED BY <1>1, KernelInvHolds, PTL

\* kernel.go, SubmitEvent, and goal_engine.go, HandleEvent: if events declare what
\* they write, a completed goal that an event breaks is compensated, or was completed
\* on an evaluation that something had overtaken.
THEOREM NoCompensationLostCorrect ==
  ASSUME WritesDeclared
  PROVE  Spec => []NoCompensationLost
<1>1. Init => CompensationInv
  BY CompensationInit
<1>2. KernelInv /\ CompensationInv /\ [Next]_vars => CompensationInv'
  BY WritesDeclared, CompensationNext
<1>3. CompensationInv => NoCompensationLost
  BY DEF CompensationInv
<1> QED BY <1>1, <1>2, <1>3, KernelInvHolds, PTL DEF Spec

\* The type invariant of the kernel and of the engine in it.
THEOREM TypeCorrect == Spec => []TypeOK
<1>1. ASSUME KernelInv PROVE TypeOK
  <2>1. Engine!TypeOK
    BY <1>1 DEF KernelInv, EngineInv, EngineProofs!IInv, EngineProofs!TypeOK, Engine!TypeOK,
                EngineProofs!Status, Engine!Status, EngineProofs!Exists, Engine!Exists
  <2>2. activePlans \subseteq Goals
    BY <1>1 DEF KernelInv, PlansInv, PlansAccounted
  <2>3. \A c \in loop.batch : c.name \in Goals /\ c.def \in Defs
    BY <1>1 DEF KernelInv, LoopSound, Copies
  <2> QED BY <1>1, <2>1, <2>2, <2>3 DEF TypeOK, KernelInv, LoopSound, EventSound, PlansInv
<1> QED BY <1>1, KernelInvHolds, PTL
=============================================================================

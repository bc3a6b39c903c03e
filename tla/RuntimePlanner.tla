--------------------------- MODULE RuntimePlanner ---------------------------
(***************************************************************************)
(* runtime/planner.go: which actions are taken for the paths a goal        *)
(* misses.  Types of actions and paths are strings of one kind to          *)
(* dependencyGraph, and both are put in order; numbers stand for them, in  *)
(* the order of the strings.  The identifier of an action is its path with *)
(* "_action" behind it; Rank is the order of these, which is another one:  *)
(* "order.paid_action" comes before "order_action".                        *)
(*                                                                         *)
(* Resolve holds p.mu only while it looks for a resolver, anew for each    *)
(* path, and reads dependencyGraph without it: registrations come between  *)
(* its steps.  One Resolve is under way at a time, as no other sees it.    *)
(* The kernel (GoalRuntime) offers at most one missing path at a time, and *)
(* counts no attempts, so nothing in src meets the alternatives yet.       *)
(***************************************************************************)
EXTENDS Integers, Sequences, FiniteSets

CONSTANTS
  Names,            \* paths and types of actions, as numbers
  Rank,             \* Rank[path]: the place of its action's identifier among them
  Dependencies,     \* the lists given to RegisterDependency
  Missing,          \* the lists given to Resolve
  MaxAlternatives,  \* bound on the plans registered for one goal
  MaxFailures,      \* bound on the failures before an attempt
  MaxMeanwhile      \* bound on the registrations of a kind after a Resolve has begun

VARIABLES
  resolvers,       \* the types with a resolver
  dependencyGraph, \* dependencyGraph[name]: what it depends on
  alternatives,    \* alternativePlans of one goal; the n-th is <<n>>
  resolving,       \* where Resolve is: "idle", "dependencies", "missing", "planned"
  missing,         \* what it was asked for
  at,              \* number of missing paths it is through with
  deps,            \* the dependencies of the path it is at that are left
  visited,         \* the dependencies it has met
  plan,            \* its actions: [path, type]
  ready,           \* history: there was a resolver when it began
  registered,      \* history: number of calls of RegisterAction since
  relinked,        \* history: and of RegisterDependency
  fatal            \* the process died of a concurrent access to a map

request == <<missing, at, deps, visited, plan>>
vars == <<resolvers, dependencyGraph, alternatives, resolving, request, ready, registered,
          relinked, fatal>>

Init ==
  /\ resolvers = {}
  /\ dependencyGraph = [n \in Names |-> << >>]
  /\ alternatives = << >>
  /\ resolving = "idle" /\ missing = << >> /\ at = 0
  /\ deps = << >> /\ visited = {} /\ plan = << >>
  /\ ready = FALSE /\ registered = 0 /\ relinked = 0 /\ fatal = FALSE

Meanwhile(number) == IF resolving = "idle" THEN number ELSE number + 1

RegisterAction(type) ==
  /\ registered < MaxMeanwhile
  /\ resolvers' = resolvers \cup {type}
  /\ registered' = Meanwhile(registered)
  /\ UNCHANGED <<dependencyGraph, alternatives, resolving, request, ready, relinked, fatal>>

\* The next step of Resolve reads dependencyGraph.
Reading == resolving = "dependencies" /\ deps = << >> /\ at < Len(missing)

\* Go ends the process if it notices the read at the same time.
RegisterDependency(type, dependsOn) ==
  /\ relinked < MaxMeanwhile
  /\ dependencyGraph' = [dependencyGraph EXCEPT ![type] = dependsOn]
  /\ relinked' = Meanwhile(relinked)
  /\ fatal' \in IF Reading THEN BOOLEAN ELSE {FALSE}
  /\ UNCHANGED <<resolvers, alternatives, resolving, request, ready, registered>>

RegisterAlternativePlan ==
  /\ Len(alternatives) < MaxAlternatives
  /\ alternatives' = Append(alternatives, <<Len(alternatives) + 1>>)
  /\ UNCHANGED <<resolvers, dependencyGraph, resolving, request, ready, registered, relinked,
                 fatal>>

-----------------------------------------------------------------------------
(* Resolve. *)

Resolve(paths) ==
  /\ resolving \in {"idle", "planned"} /\ paths # << >>
  /\ resolving' = "dependencies"
  /\ missing' = paths /\ at' = 0 /\ deps' = << >> /\ visited' = {} /\ plan' = << >>
  /\ ready' = (resolvers # {}) /\ registered' = 0 /\ relinked' = 0
  /\ UNCHANGED <<resolvers, dependencyGraph, alternatives, fatal>>

Registrations == <<resolvers, dependencyGraph, alternatives, ready, registered, relinked, fatal>>

\* Whatever the path, the first resolver in order.
CreateActionForPath(path) ==
  [path |-> path, type |-> CHOOSE type \in resolvers : \A u \in resolvers : type <= u]

\* Appended, if anything resolves it.
With(path) == IF resolvers = {} THEN plan ELSE Append(plan, CreateActionForPath(path))

\* dfs of the next missing path: its dependencies are taken, if it is no path met before.
Descend ==
  /\ Reading
  /\ at' = at + 1
  /\ deps' = IF \E i \in 1..at : missing[i] = missing[at + 1] THEN << >>
             ELSE dependencyGraph[missing[at + 1]]
  /\ UNCHANGED <<resolving, missing, visited, plan, Registrations>>

AddDependency ==
  /\ deps # << >>
  /\ deps' = Tail(deps)
  /\ visited' = visited \cup {Head(deps)}
  /\ plan' = IF Head(deps) \in visited THEN plan ELSE With(Head(deps))
  /\ UNCHANGED <<resolving, missing, at, Registrations>>

AllDescended ==
  /\ resolving = "dependencies" /\ deps = << >> /\ at = Len(missing)
  /\ resolving' = "missing" /\ at' = 0
  /\ UNCHANGED <<missing, deps, visited, plan, Registrations>>

\* Mutant: the missing paths are appended without a look at the dependencies'.
AddMissingBlindly ==
  /\ resolving = "missing" /\ at < Len(missing)
  /\ at' = at + 1
  /\ plan' = With(missing[at + 1])
  /\ UNCHANGED <<resolving, missing, deps, visited, Registrations>>

\* A missing path, unless it is there.
AddMissing ==
  /\ resolving = "missing" /\ at < Len(missing)
  /\ at' = at + 1
  /\ plan' = IF \E i \in DOMAIN plan : plan[i].path = missing[at + 1] THEN plan
             ELSE With(missing[at + 1])
  /\ UNCHANGED <<resolving, missing, deps, visited, Registrations>>

Orders(queue) ==
  {p \in [DOMAIN queue -> DOMAIN queue] :
     /\ \A k \in DOMAIN queue : \E i \in DOMAIN queue : p[i] = k
     /\ \A i, j \in DOMAIN queue : i < j => Rank[queue[p[i]].path] <= Rank[queue[p[j]].path]}

\* Put in order of the identifiers, and so not in the order of the dependencies.
Sort ==
  /\ resolving = "missing" /\ at = Len(missing)
  /\ resolving' = "planned"
  /\ \E order \in Orders(plan) : plan' = [i \in DOMAIN plan |-> plan[order[i]]]
  /\ UNCHANGED <<missing, at, deps, visited, Registrations>>

\* Given the plan Resolve has made: after failures the alternatives are taken in turn.
ResolveWithFallback(resolved, failures) ==
  IF alternatives # << >> /\ failures > 0
  THEN alternatives[((failures - 1) % Len(alternatives)) + 1]
  ELSE resolved

Next ==
  /\ ~fatal
  /\ \/ \E type \in Names : RegisterAction(type)
     \/ \E type \in Names, dependsOn \in Dependencies : RegisterDependency(type, dependsOn)
     \/ RegisterAlternativePlan
     \/ \E paths \in Missing : Resolve(paths)
     \/ Descend \/ AddDependency \/ AllDescended \/ AddMissing \/ Sort

Spec == Init /\ [][Next]_vars

-----------------------------------------------------------------------------
(* HasCyclicDependency, with the resolvers in the order of a Go map. *)

Searches == [visited : SUBSET Names, recStack : SUBSET Names, cyclic : BOOLEAN]

Enter(search, node) ==
  [search EXCEPT !.visited = @ \cup {node}, !.recStack = @ \cup {node}]

\* One dependency; dfs is the search from it.
Look(dfs, search, dep) ==
  IF search.cyclic THEN search
  ELSE IF dep \notin search.visited THEN dfs[<<search, dep>>]
  ELSE IF dep \in search.recStack THEN [search EXCEPT !.cyclic = TRUE]
  ELSE search

Explored(dfs, search, node) ==
  LET upTo[n \in 0..Len(dependencyGraph[node])] ==
        IF n = 0 THEN Enter(search, node)
        ELSE Look(dfs, upTo[n - 1], dependencyGraph[node][n])
      all == upTo[Len(dependencyGraph[node])]
  IN  IF all.cyclic THEN all ELSE [all EXCEPT !.recStack = @ \ {node}]

\* Each call visits one more name: no call is deeper than there are names.
Dfs ==
  LET within[depth \in 0..Cardinality(Names)] ==
        [e \in Searches \X Names |->
           IF depth = 0 THEN e[1] ELSE Explored(within[depth - 1], e[1], e[2])]
  IN  within[Cardinality(Names)]

HasCyclicDependency(order) ==
  LET upTo[n \in 0..Len(order)] ==
        IF n = 0 THEN [visited |-> {}, recStack |-> {}, cyclic |-> FALSE]
        ELSE IF upTo[n - 1].cyclic \/ order[n] \in upTo[n - 1].visited THEN upTo[n - 1]
        ELSE Dfs[<<upTo[n - 1], order[n]>>]
  IN  upTo[Len(order)].cyclic

-----------------------------------------------------------------------------
(* Properties. *)

Actions == [path : Names, type : Names]

TypeOK ==
  /\ resolvers \subseteq Names
  /\ dependencyGraph \in [Names -> Dependencies \cup {<< >>}]
  /\ alternatives \in Seq(Seq(Nat)) /\ Len(alternatives) <= MaxAlternatives
  /\ resolving \in {"idle", "dependencies", "missing", "planned"}
  /\ missing \in Missing \cup {<< >>} /\ at \in 0..Len(missing)
  /\ deps \in Seq(Names) /\ visited \subseteq Names
  /\ plan \in Seq(Actions)
  /\ registered \in Nat /\ relinked \in Nat /\ ready \in BOOLEAN /\ fatal \in BOOLEAN

Members(s) == {s[i] : i \in DOMAIN s}
Planned == {plan[i].path : i \in DOMAIN plan}

\* planner.go:98-191: whatever is registered meanwhile, a plan has its actions in the order of
\* their identifiers, none twice, and one for each missing path, if there was a resolver when
\* it was begun; the others are for the paths these depend on directly, all of them, unless
\* the dependencies were changed on the way; and all are of one type, unless an action was
\* registered on the way.  A dependency comes first only if its identifier does.
PlansCover ==
  resolving = "planned" =>
    /\ \A i, j \in DOMAIN plan : i < j => Rank[plan[i].path] < Rank[plan[j].path]
    /\ ready => Members(missing) \subseteq Planned
    /\ LET wanted == Members(missing) \cup UNION {Members(dependencyGraph[p]) : p \in Members(missing)}
       IN  relinked = 0 => Planned \subseteq wanted /\ (ready => Planned = wanted)
    /\ registered = 0 => \A i, j \in DOMAIN plan : plan[i].type = plan[j].type

\* planner.go:68-90: after failures, as many attempts as there are alternatives try each of
\* them once.
AlternativesTried ==
  alternatives # << >> => \A failures \in 1..MaxFailures :
    {ResolveWithFallback(plan, f) : f \in failures..(failures + Len(alternatives) - 1)}
      = Members(alternatives)

\* The resolvers, in any order.
Walks ==
  {order \in [1..Cardinality(resolvers) -> resolvers] :
     \A type \in resolvers : \E i \in 1..Cardinality(resolvers) : order[i] = type}

\* planner.go:218-255: in whatever order the resolvers are walked, a cycle is found if and
\* only if a type with a resolver leads to it; one among other types goes unnoticed.
CyclesFound ==
  LET endless == {S \in SUBSET Names : \A n \in S : Members(dependencyGraph[n]) \cap S # {}}
  IN  \A order \in Walks :
        HasCyclicDependency(order) <=> \E S \in endless : S \cap resolvers # {}

\* All three, for any registrations.
PlannerExact == PlansCover /\ AlternativesTried /\ CyclesFound
=============================================================================

----------------------------- MODULE Workspace -----------------------------
(***************************************************************************)
(* GDL projects: the parser (gdl/parser.go), the loading of a project      *)
(* (gdl/workspace.go), its compilation and registration (gdl/compiler.go,  *)
(* gdl/actions.go), and their use by `goalruntime -mode standalone`        *)
(* (cmd/main.go), whose prompt submits, rewinds and reloads while the      *)
(* execution loop completes goals and spawns others.                       *)
(*                                                                         *)
(* A line is its first word and, if it opens a definition, the name:       *)
(* [kw, name].  A file is a sequence of lines.                             *)
(***************************************************************************)
EXTENDS Integers, Sequences

CONSTANTS
  Projects,   \* what may be on disk, of Trees
  Names,      \* names of goals
  Types,      \* types of actions
  Builtin,    \* those RegisterAllActions registers
  Plugin,     \* those the plugins register at every Start
  MaxLoads    \* bound on the number of loads

VARIABLES
  disk,       \* the project on disk
  goals,      \* goals[n]: "none", or where the goal engine has it
  bodies,     \* bodies[n]: the set of clauses its goal was compiled from
  handler,    \* handler[t]: who registered the resolver of t: "none", "plugin", "builtin", "stub"
  todo,       \* the load under way: [stubs, goals], or Done
  running,    \* FALSE: os.Exit
  loaded,     \* history: the project read by the last load
  loads,      \* history: the number of loads
  again,      \* history: the load before read the same project and got it registered
  rewound     \* history: the runtime was rewound since the last load

vars == <<disk, goals, bodies, handler, todo, running, loaded, loads, again, rewound>>

-----------------------------------------------------------------------------
(* The parser. *)

Kinds == {"type", "event", "action", "goal", "contract", "policy", "test"}
GoalWords == {"priority", "trigger", "condition", "spawn", "actions"}

NoName == ""

\* What opens a definition has a name, as a line is trimmed before its first word is compared.
Lines == [kw : Kinds \cup GoalWords \cup {"field", "require", "step"}, name : STRING]
Files == {file \in Seq(Lines) : \A j \in DOMAIN file : file[j].kw \in Kinds => file[j].name # NoName}

\* A directory: whether it is there, whether it and its .gdl files can be read, and these.
Dirs == [there : BOOLEAN, reads : BOOLEAN, files : Seq(Files)]
\* What a project may be; config: goalruntime.yaml can be read.
Trees == [found : BOOLEAN, config : BOOLEAN, hasApps : BOOLEAN,
          shared : Dirs, tests : Dirs, apps : Seq(Dirs)]

\* The definitions open at a time that take a line which opens none.  A line with a colon is
\* a field, also where it is a clause of a goal.  A contract takes lines that begin with
\* "event" or "action", which do not come this far.
Takers(kw) ==
  CASE kw = "field"        -> {"type"}
    [] kw \in GoalWords    -> {"type", "goal"}
    [] kw = "require"      -> {"policy"}
    [] kw = "step"         -> {"test"}

NoDef == [name |-> NoName, body |-> << >>]
IsOpen(current, k) == current[k].name # NoName

\* The definition of that kind is put away and the next one begun.
Opened(acc, line) ==
  [current |-> [acc.current EXCEPT ![line.kw] = [name |-> line.name, body |-> << >>]],
   program |-> IF IsOpen(acc.current, line.kw)
               THEN [acc.program EXCEPT ![line.kw] = Append(@, acc.current[line.kw])]
               ELSE acc.program]

Taken(acc, line) ==
  [current |-> [k \in Kinds |->
     IF k \in Takers(line.kw) /\ IsOpen(acc.current, k)
     THEN [name |-> acc.current[k].name, body |-> Append(acc.current[k].body, line)]
     ELSE acc.current[k]],
   program |-> acc.program]

\* The definitions put away and those open after the lines of a file: one of each kind is open
\* at a time, and stays open.
Reading(file) ==
  LET upTo[n \in 0..Len(file)] ==
        IF n = 0 THEN [current |-> [k \in Kinds |-> NoDef], program |-> [k \in Kinds |-> << >>]]
        ELSE IF file[n].kw \in Kinds THEN Opened(upTo[n - 1], file[n])
        ELSE Taken(upTo[n - 1], file[n])
  IN  upTo[Len(file)]

\* Mutant: the definitions still open at the end are left out.
ParsedUpToLast(file) == Reading(file).program

\* ParseGDL: those still open are put away at the end.
Parsed(file) ==
  LET end == Reading(file)
  IN  [k \in Kinds |-> IF IsOpen(end.current, k) THEN Append(end.program[k], end.current[k])
                       ELSE end.program[k]]

-----------------------------------------------------------------------------
(* Loading and compiling. *)

Joined(seqs) ==
  LET upTo[n \in 0..Len(seqs)] == IF n = 0 THEN << >> ELSE upTo[n - 1] \o seqs[n]
  IN  upTo[Len(seqs)]

\* LoadWorkspace: shared/, the apps as configured and tests/; no apps/, no tests.
FilesRead(p) ==
  p.shared.files \o
    (IF p.hasApps THEN Joined([i \in DOMAIN p.apps |-> p.apps[i].files]) \o p.tests.files
     ELSE << >>)

\* What cannot be read is an error, and so is an app of the configuration that is not there.
Loadable(p) ==
  /\ p.config
  /\ p.shared.there => p.shared.reads
  /\ p.hasApps => /\ \A i \in DOMAIN p.apps : p.apps[i].there /\ p.apps[i].reads
                  /\ p.tests.there => p.tests.reads

\* Mutant: shared/ is merged once more with the apps.
MergedTwice(p, k) ==
  LET files == FilesRead(p) \o p.shared.files IN Joined([i \in DOMAIN files |-> Parsed(files[i])[k]])

\* MergePrograms over all files.
Merged(p, k) ==
  LET files == FilesRead(p) IN Joined([i \in DOMAIN files |-> Parsed(files[i])[k]])

\* Every action definition compiles to a handler that does nothing and succeeds.
Stubs(p) == {Merged(p, "action")[i].name : i \in DOMAIN Merged(p, "action")}

\* Of a goal the conditions, the spawns, the trigger and the priority are kept, not the actions.
Compiled(body) == {body[i] : i \in {j \in DOMAIN body : body[j].kw # "actions"}}

Spawned(clauses) == {line.name : line \in {l \in clauses : l.kw = "spawn"}}
HasCondition(clauses) == \E line \in clauses : line.kw = "condition"

-----------------------------------------------------------------------------
(* The program. *)

Done == [stubs |-> {}, goals |-> << >>]
AtPrompt == running /\ todo = Done

Init ==
  /\ disk \in Projects
  /\ goals = [n \in Names |-> "none"] /\ bodies = [n \in Names |-> {}]
  /\ handler = [t \in Types |-> IF t \in Plugin THEN "plugin" ELSE "none"]
  /\ todo = Done /\ running = TRUE
  /\ loaded = [found |-> FALSE] /\ loads = 0
  /\ again = FALSE /\ rewound = FALSE

\* loadWorkspace up to Apply: before the first prompt and at each `gdl`.
Load ==
  /\ AtPrompt /\ loads < MaxLoads
  /\ loads' = loads + 1 /\ loaded' = disk
  /\ again' = (loaded = disk /\ disk.found)
  /\ rewound' = FALSE
  /\ IF disk.found /\ ~Loadable(disk)
     THEN running' = FALSE /\ UNCHANGED <<handler, todo>>
     ELSE /\ handler' = [t \in Types |-> IF t \in Builtin THEN "builtin" ELSE handler[t]]
          /\ todo' = IF disk.found THEN [stubs |-> Stubs(disk), goals |-> Merged(disk, "goal")]
                     ELSE Done
          /\ UNCHANGED running
  /\ UNCHANGED <<disk, goals, bodies>>

\* Mutant: what has a handler keeps it.
RegisterMissingStubs ==
  /\ running /\ todo.stubs # {}
  /\ handler' = [t \in Types |-> IF t \in todo.stubs /\ handler[t] = "none" THEN "stub" ELSE handler[t]]
  /\ todo' = [todo EXCEPT !.stubs = {}]
  /\ UNCHANGED <<disk, goals, bodies, running, loaded, loads, again, rewound>>

\* CreateRuntime: the handlers, in place of those there are.
RegisterStubs ==
  /\ running /\ todo.stubs # {}
  /\ handler' = [t \in Types |-> IF t \in todo.stubs THEN "stub" ELSE handler[t]]
  /\ todo' = [todo EXCEPT !.stubs = {}]
  /\ UNCHANGED <<disk, goals, bodies, running, loaded, loads, again, rewound>>

\* CreateRuntime: the next goal.  If its name is taken, main exits.
SubmitNext ==
  /\ running /\ todo.stubs = {} /\ todo.goals # << >>
  /\ LET d == Head(todo.goals)
     IN  IF goals[d.name] # "none"
         THEN running' = FALSE /\ UNCHANGED <<goals, bodies, todo>>
         ELSE /\ goals' = [goals EXCEPT ![d.name] = "active"]
              /\ bodies' = [bodies EXCEPT ![d.name] = Compiled(d.body)]
              /\ todo' = [todo EXCEPT !.goals = Tail(@)]
              /\ UNCHANGED running
  /\ UNCHANGED <<disk, handler, loaded, loads, again, rewound>>

\* `submit` at the prompt; of a taken name the goal engine says so.
Submit(n) ==
  /\ AtPrompt /\ loads > 0 /\ goals[n] = "none"
  /\ goals' = [goals EXCEPT ![n] = "active"]
  /\ UNCHANGED <<disk, bodies, handler, todo, running, loaded, loads, again, rewound>>

\* The execution loop finds the condition met: a child takes the place of a goal of its name.
Complete(n) ==
  /\ running /\ goals[n] = "active" /\ HasCondition(bodies[n])
  /\ LET children == Spawned(bodies[n])
     IN  /\ goals' = [m \in Names |-> IF m \in children THEN "pending"
                                      ELSE IF m = n THEN "complete" ELSE goals[m]]
         /\ bodies' = [m \in Names |-> IF m \in children THEN {} ELSE bodies[m]]
  /\ UNCHANGED <<disk, handler, todo, running, loaded, loads, again, rewound>>

\* `rewind`: the runtime stops, starts and has the plugins register once more.
Rewind ==
  /\ AtPrompt /\ loads > 0
  /\ handler' = [t \in Types |-> IF t \in Plugin THEN "plugin" ELSE handler[t]]
  /\ rewound' = TRUE
  /\ UNCHANGED <<disk, goals, bodies, todo, running, loaded, loads, again>>

\* Someone changes the project.
Edit ==
  /\ running
  /\ disk' \in Projects \ {disk}
  /\ UNCHANGED <<goals, bodies, handler, todo, running, loaded, loads, again, rewound>>

Next ==
  \/ Load \/ RegisterStubs \/ SubmitNext
  \/ \E n \in Names : Submit(n) \/ Complete(n)
  \/ Rewind \/ Edit

Spec == Init /\ [][Next]_vars

-----------------------------------------------------------------------------
(* Properties. *)

\* Shape of the state.
TypeOK ==
  /\ disk \in Projects /\ loaded \in Projects \cup {[found |-> FALSE]}
  /\ goals \in [Names -> {"none", "active", "pending", "complete"}]
  /\ handler \in [Types -> {"none", "plugin", "builtin", "stub"}]
  /\ bodies \in [Names -> SUBSET Lines]
  /\ todo.stubs \subseteq Types /\ \A i \in DOMAIN todo.goals : todo.goals[i].name \in Names
  /\ loads \in 0..MaxLoads
  /\ {running, again, rewound} \subseteq BOOLEAN

\* The lines after line i up to line e, and no more, stand between the opening at i and the next
\* opening of any kind.
Block(file, i, e) ==
  /\ e \in i..Len(file) /\ \A j \in (i + 1)..e : file[j].kw \notin Kinds
  /\ e # Len(file) => file[e + 1].kw \in Kinds

\* The definitions are the openings of their kind, in order, each with its block.
AreBlocks(defs, file, k) ==
  LET opens == {j \in DOMAIN file : file[j].kw = k}
  IN  \E at \in [DOMAIN defs -> opens] :
        /\ \A j \in opens : \E i \in DOMAIN defs : at[i] = j
        /\ \A i, j \in DOMAIN defs : i < j => at[i] < at[j]
        /\ \A i \in DOMAIN defs :
             /\ defs[i].name = file[at[i]].name
             /\ Block(file, at[i], at[i] + Len(defs[i].body))
             /\ \A n \in DOMAIN defs[i].body : defs[i].body[n] = file[at[i] + n]

\* Clauses stand in a definition of the kind that has them.
Home(kw) == IF kw \in GoalWords THEN {"goal"} ELSE IF kw = "field" THEN {"type", "event"} ELSE Takers(kw)

WellFormed(file) ==
  \A j \in DOMAIN file : file[j].kw \notin Kinds =>
    \E i \in 1..(j - 1) : /\ file[i].kw \in Home(file[j].kw)
                          /\ \A m \in (i + 1)..j : file[m].kw \notin Kinds

\* parser.go:145-392: though every definition stays open, goals, policies and tests of a
\* file whose clauses stand where they belong have their own clauses and no other, in their
\* order.  Types do not: they also take the clauses of the goals after them; and a field of
\* a type that is named as a clause goes to the goal before it.
ClausesKept ==
  LET files == FilesRead(disk)
  IN  \A i \in DOMAIN files : WellFormed(files[i]) =>
        \A k \in {"goal", "policy", "test"} : AreBlocks(Parsed(files[i])[k], files[i], k)

\* The lines of the files read with that first word and name.
Written(p, kw, n) ==
  LET files == FilesRead(p)
  IN  {at \in UNION {{i} \X DOMAIN files[i] : i \in DOMAIN files} :
         files[at[1]][at[2]] = [kw |-> kw, name |-> n]}

GoalNamesOf(p) == {n \in Names : Written(p, "goal", n) # {}}

\* compiler.go:196-210, main.go:108-124: a load registers every goal of the project or ends
\* the process; the first one does so only for a configuration, a directory or a file that
\* cannot be read, a missing app, a goal declared twice, or a goal that one of the project
\* spawns and that the loop has spawned meanwhile.
LoadsWhole ==
  /\ AtPrompt /\ loads > 0 /\ loaded.found => \A n \in GoalNamesOf(loaded) : goals[n] # "none"
  /\ ~running /\ loads = 1 =>
       \/ ~Loadable(loaded)
       \/ \E n \in Names : \E a, b \in Written(loaded, "goal", n) : a # b
       \/ \E n \in GoalNamesOf(loaded) :
            goals[n] = "pending" /\ Written(loaded, "spawn", n) # {}

\* The types with an action line in a contract.
Contracted(p) ==
  LET files == FilesRead(p)
  IN  {t \in Types : \E at \in Written(p, "action", t) : \E j \in 1..(at[2] - 1) :
         /\ files[at[1]][j].kw = "contract"
         /\ \A m \in (j + 1)..at[2] : files[at[1]][m].kw \in {"event", "action"}}

\* actions.go:128, compiler.go:197-201, kernel.go:128-130: after a load the action types a
\* project defines itself have their stub, also in place of a plugin's handler; other
\* built-in types are the built-in ones, also in place of a plugin's, until a rewind brings
\* all of the plugins' back.  Nothing is claimed of the types contracts name.
HandlersFollow ==
  AtPrompt /\ loads > 0 =>
    \A t \in Types \ Contracted(loaded) :
      handler[t] = IF rewound /\ t \in Plugin THEN "plugin"
                   ELSE IF loaded.found /\ Written(loaded, "action", t) # {} THEN "stub"
                   ELSE IF t \in Builtin THEN "builtin"
                   ELSE IF loads > 1 THEN handler[t]
                   ELSE IF t \in Plugin THEN "plugin" ELSE "none"

\* documentation.md:242: "Reload and re-run current GDL workspace" - a project that was
\* registered is registered again and the program goes on.
ReloadRuns == again => running
=============================================================================

--------------------------- MODULE MCSurroundings --------------------------
(* The parts of Surroundings on small instances, and the analyses of the   *)
(* graph.  The projects are loaded and edited, or of one file each that is *)
(* only read.                                                              *)
EXTENDS Surroundings, DependencyAnalysis

LOCAL INSTANCE SequencesExt

CONSTANTS n1, n2, n3, t1, t2, c1, c2, h1, r1, r2, i1, i2, f1, f2, v1, v2

MCQueueGoals  == {[id |-> 1, priority |-> 0, deadline |-> 0, timeout |-> 0],
                  [id |-> 1, priority |-> 1, deadline |-> 3, timeout |-> 1]}
MCQueueEvents == {[id |-> 2, clock |-> 1]}
MCQueueTimers == {[id |-> 1, at |-> 2]}

MCCallers      == {c1, c2}
MCNodes        == {n1, n2, n3}
MCGoals        == {t1, t2}
MCHashNegative == {t2}
MCHTTPStreams  == {h1}
MCGRPCStreams  == {r1, r2}
MCIDs          == {i1, i2}
MCFields       == {f1, f2}
MCValues       == {v1, v2}

\* "order", "order.paid" and "user".
MCPaths == 1..3
MCRank  == <<2, 1, 3>>
\* With dependencies on itself, in a circle and against the order of the names.
MCDependencyLists == {<<1>>, <<3, 2>>}
MCMissingLists    == {<<3, 1, 3>>, <<2>>}

-----------------------------------------------------------------------------
Open(kw, name) == [kw |-> kw, name |-> name]
Clause(kw) == [kw |-> kw, name |-> ""]

Dir(fs) == [there |-> TRUE, reads |-> TRUE, files |-> fs]
NoDir      == [there |-> FALSE, reads |-> FALSE, files |-> << >>]
Unreadable == [NoDir EXCEPT !.there = TRUE]

NoProject == [found |-> FALSE, config |-> TRUE, hasApps |-> FALSE,
              tests |-> NoDir, apps |-> << >>, shared |-> NoDir]
NoApps == [NoProject EXCEPT !.found = TRUE, !.shared = Dir(<< <<Open("goal", "retry")>> >>)]

\* shared/ has a contract that names a built-in action type, as the documentation's has.
\* The shape of the demo: "bill" spawns "retry", which is declared too.
Demo ==
  [NoProject EXCEPT !.found = TRUE, !.hasApps = TRUE,
   !.tests = Dir(<< <<Open("test", "flow"), Clause("step")>> >>),
   !.shared = Dir(<< <<Open("contract", "Payments"), Open("action", "charge")>> >>),
   !.apps = << Dir(<< <<Open("goal", "bill"), Clause("condition"), Open("goal", "retry")>> >>) >>]

\* A goal that spawns itself and one declared after it.
Spawning ==
  [NoProject EXCEPT !.found = TRUE, !.hasApps = TRUE,
   !.apps = << Dir(<< <<Open("goal", "bill"), Clause("condition"),
                        [kw |-> "spawn", name |-> "retry"], [kw |-> "spawn", name |-> "bill"]>>,
                      <<Open("action", "send"), Open("goal", "retry")>> >>) >>]

\* What of the demo may be broken.
Broken ==
  {[Demo EXCEPT !.config = FALSE], [Demo EXCEPT !.shared = Unreadable],
   [Demo EXCEPT !.tests = Unreadable]}
    \cup {[Demo EXCEPT !.apps = << app >>] : app \in {NoDir, Unreadable}}

Loaded == Broken \cup {Demo, Spawning, NoApps, NoProject}

\* Every file of up to four lines out of these.
SomeLines == {Open("type", "t"), Open("event", "e"), Open("goal", "bill"), Open("policy", "p"),
              Clause("field"), Clause("priority"), Clause("require")}
Read == {[NoApps EXCEPT !.shared = Dir(<<file>>)] : file \in SeqOf(SomeLines, 4)}

MCProjects == Loaded \cup Read
MCNames    == {"bill", "retry"}
MCTypes    == {"charge", "file", "send"}
MCBuiltin  == {"charge", "file"}
MCPlugin   == {"file", "send"}

-----------------------------------------------------------------------------
Parts == {"graph", "queue", "loops", "cluster", "process", "objects", "snapshots",
          "planner", "workspace", "files"}

MCInit ==
  /\ part \in Parts
  /\ disk \in IF part = "files" THEN Read ELSE IF part = "workspace" THEN Loaded ELSE {NoProject}
  /\ SurroundingsInit

MCNext ==
  /\ UNCHANGED part
  /\ SurroundingsNext
  /\ part = "workspace" => disk' \in Loaded

MCSpec == MCInit /\ [][MCNext]_<<part, surroundings>> /\ P!Fairness
=============================================================================

--------------------------- MODULE MCGoalRuntime ----------------------------
(***************************************************************************)
(* TLC instance of GoalRuntime: "billing" waits for p, spawns "retry" and  *)
(* is compensated by "refund"; "retry" is also a goal of its own, with     *)
(* another condition.  Events set or clear p, and set q.  One plan at a    *)
(* time, so that two planned goals compete for the semaphore.              *)
(***************************************************************************)
EXTENDS GoalRuntime, TLC

CONSTANTS billing, retry, refund, p, q, ok

MCGoals  == {billing, retry, refund}
MCPaths  == {p, q}
MCValues == {Absent, ok}
MCDefs   == {"billing", "retryTop", "retryChild", "refund"}

MCIdOf == [d \in MCDefs |-> CASE d = "billing" -> billing
                              [] d = "refund" -> refund
                              [] OTHER -> retry]
MCTrigger == [d \in MCDefs |-> CASE d = "billing" -> {p}
                                 [] d \in {"retryTop", "refund"} -> {q}
                                 [] OTHER -> {}]
MCWant == [d \in MCDefs |-> CASE d \in {"billing", "retryChild"} -> p :> ok
                              [] d = "retryTop" -> p :> ok @@ q :> ok
                              [] OTHER -> q :> ok]
MCChildren == [d \in MCDefs |-> IF d = "billing" THEN {"retryChild"} ELSE {}]
MCCompensation == [d \in MCDefs |-> IF d = "billing" THEN {"refund"} ELSE {}]

Ev(path, value) == [writes |-> {path}, sets |-> path :> value]
MCEvents == {Ev(p, ok), Ev(p, Absent), Ev(q, ok)}
MCOneEvent == {Ev(p, ok)}
MCPEvents == {Ev(p, ok), Ev(p, Absent)}
=============================================================================

--------------------------- MODULE MCGoalEngine -----------------------------
(***************************************************************************)
(* TLC instance of GoalEngine: the shape of demo/apps/billing/billing.gdl. *)
(* "billing" spawns "retry" under a name that is also declared as a goal   *)
(* of its own (another definition), and is compensated by "refund".        *)
(***************************************************************************)
EXTENDS GoalEngine, TLC

CONSTANTS billing, retry, refund, p, q, ok

MCGoals  == {billing, retry, refund}
MCPaths  == {p, q}
MCValues == {Absent, ok}
MCDefs   == {"billing", "retryTop", "retryChild", "refund"}

MCIdOf == [d \in MCDefs |-> CASE d = "billing" -> billing
                              [] d = "refund" -> refund
                              [] OTHER -> retry]
MCTrigger == [d \in MCDefs |-> IF d = "retryTop" THEN {q} ELSE {}]
MCWant == [d \in MCDefs |-> IF d = "retryChild" THEN q :> ok ELSE p :> ok]
MCChildren == [d \in MCDefs |-> IF d = "billing" THEN {"retryChild"} ELSE {}]
MCCompensation == [d \in MCDefs |-> IF d \in {"billing", "retryTop"} THEN {"refund"} ELSE {}]
=============================================================================

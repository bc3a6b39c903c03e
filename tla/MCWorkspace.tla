---------------------------- MODULE MCWorkspace ----------------------------
(* One project of one app, whose goal waits for a condition and whose      *)
(* contract names a built-in action type.                                  *)
EXTENDS Workspace

Open(kw, name) == [kw |-> kw, name |-> name]
Clause(kw) == [kw |-> kw, name |-> ""]
Dir(fs) == [there |-> TRUE, reads |-> TRUE, files |-> fs]

Payments ==
  [found |-> TRUE, config |-> TRUE, hasApps |-> TRUE,
   tests |-> [there |-> FALSE, reads |-> FALSE, files |-> << >>],
   shared |-> Dir(<< <<Open("contract", "PaymentService"), Open("action", "payment.charge")>> >>),
   apps |-> << Dir(<< <<Open("type", "Order"), Clause("field")>>,
                      <<Open("goal", "ship"), Clause("condition"), Clause("actions")>> >>) >>]

OneProject == {Payments}
=============================================================================

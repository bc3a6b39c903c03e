------------------------- MODULE MCActionDispatcher -------------------------
(***************************************************************************)
(* TLC instance of ActionDispatcher: a call of Execute with two attempts   *)
(* and a call of ExecuteAsync share two workers and a queue for two tasks; *)
(* goroutines for two starts, so that workers of the first could outlive   *)
(* a Stop and overlap those of the second.                                 *)
(***************************************************************************)
EXTENDS ActionDispatcher
=============================================================================

---------------------------- MODULE MCLifecycle ----------------------------
(* One subscriber and one goal are enough for an event that meets a Stop,  *)
(* an Unsubscribe or a plan; two controllers meet each other.              *)
EXTENDS Lifecycle
=============================================================================

-------------------------- MODULE MCWriteAheadLog --------------------------
(* Three logs, one per behaviour: lines that may be torn, lines that are   *)
(* "whole", written entirely or not at all, and lines that may be torn of  *)
(* which one is beyond the limit of the scanner ("long").                  *)
EXTENDS WriteAheadLog

VARIABLES part

W == INSTANCE WriteAheadLog WITH TornWrites <- FALSE, KeepCounts <- {}, LongCalls <- {}
Z == INSTANCE WriteAheadLog WITH LongCalls <- {2}

MCInit == part \in {"torn", "whole", "long"} /\ Init

MCNext ==
  /\ UNCHANGED part
  /\ \/ part = "torn"  /\ Next
     \/ part = "whole" /\ W!Next
     \/ part = "long"  /\ Z!Next

MCSpec == MCInit /\ [][MCNext]_<<part, vars>>

\* store.go:74-167: when lines are written whole, the file is the durable log of DurableLog.
Durable == IF part = "whole" THEN W!Replay(file) ELSE << >>
Log == INSTANCE DurableLog WITH
         Entries <- W!Entries,
         log  <- Durable,
         safe <- IF part = "whole" THEN Len(W!Replay(W!Cut(synced))) ELSE 0
DurableLogRefined == Log!Spec
=============================================================================

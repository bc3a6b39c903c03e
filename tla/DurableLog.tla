----------------------------- MODULE DurableLog -----------------------------
(***************************************************************************)
(* What a write-ahead log promises its user: a sequence of entries whose   *)
(* identifiers increase, of which a prefix is safe from crashes.  An       *)
(* append that returns nil makes everything before it safe; one that       *)
(* returns an error may or may not have added its entry.                   *)
(***************************************************************************)
EXTENDS Integers, Sequences

CONSTANTS Entries     \* records with a field id

VARIABLES log, safe
vars == <<log, safe>>

\* Larger than every identifier in the log.
Newer(e) == \A i \in DOMAIN log : log[i].id < e.id

Init == log = << >> /\ safe = 0

Acknowledged(e) ==
  /\ Newer(e)
  /\ log' = Append(log, e)
  /\ safe' = Len(log')

Uncertain(e) ==
  /\ Newer(e)
  /\ log' = Append(log, e)
  /\ safe' = safe

Crash ==
  \E k \in safe..Len(log) :
    /\ log' = SubSeq(log, 1, k)
    /\ safe' = k

Next == \/ \E e \in Entries : Acknowledged(e) \/ Uncertain(e)
        \/ Crash

Spec == Init /\ [][Next]_vars
=============================================================================

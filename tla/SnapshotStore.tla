---------------------------- MODULE SnapshotStore ---------------------------
(***************************************************************************)
(* The snapshot store (storage/store.go SnapshotStore): snapshots in       *)
(* memory, each with a file of its own.  Save keeps the caller's map, so   *)
(* what the caller changes in it later changes the snapshot in memory and  *)
(* not the file.  Every operation holds ss.mu.                             *)
(***************************************************************************)
EXTENDS Integers, FiniteSets

CONSTANTS
  States,       \* what a map can hold
  MaxSaves      \* bound on identifiers

VARIABLES
  snapshots,    \* ss.snapshots: identifiers to what the map holds now
  files,        \* what each file decodes to, Garbage if it does not decode
  nextID,
  touched       \* history: snapshots whose map the caller has changed

vars == <<snapshots, files, nextID, touched>>

Garbage == "garbage"
IDs     == 0..(MaxSaves - 1)
Largest(s) == CHOOSE n \in s : \A m \in s : m <= n

Init == snapshots = << >> /\ files = << >> /\ nextID = 0 /\ touched = {}

With(f, id, v)  == [i \in (DOMAIN f) \cup {id} |-> IF i = id THEN v ELSE f[i]]
Without(f, id)  == [i \in (DOMAIN f) \ {id} |-> f[i]]

\* Save returns nextID, and steps it.
Save(s) ==
  /\ nextID < MaxSaves
  /\ files' = With(files, nextID, s)
  /\ snapshots' = With(snapshots, nextID, s)
  /\ touched' = touched \ {nextID}
  /\ nextID' = nextID + 1

\* An error of Create changes nothing; one of Encode removes the file.
SaveFails ==
  /\ nextID < MaxSaves
  /\ files' = Without(files, nextID)
  /\ UNCHANGED <<snapshots, nextID, touched>>

\* The caller goes on with the map it has saved, or one it has loaded.
CallerWrites(id, s) ==
  /\ id \in DOMAIN snapshots
  /\ snapshots' = [snapshots EXCEPT ![id] = s]
  /\ touched' = touched \cup {id}
  /\ UNCHANGED <<files, nextID>>

\* Refused, with the snapshot still in memory, when the file is not there.
Delete(id) ==
  /\ id \in DOMAIN files
  /\ files' = Without(files, id)
  /\ snapshots' = Without(snapshots, id)
  /\ UNCHANGED <<nextID, touched>>

\* Mutant: the next identifier is the number of snapshots.
RecoverCounting(readable) ==
  /\ snapshots' = [i \in readable |-> files'[i]]
  /\ nextID' = Cardinality(readable)

\* recoverSnapshots: what decodes, and one more than the largest of it.
RecoverSnapshots(readable) ==
  /\ snapshots' = [i \in readable |-> files'[i]]
  /\ nextID' = IF readable = {} THEN 0 ELSE Largest(readable) + 1

\* A new process.  Save ignores what Sync returns, and a machine may stop before the file is
\* on disk, so files may be lost.
Restart(lost) ==
  /\ files' = [i \in DOMAIN files |-> IF i \in lost THEN Garbage ELSE files[i]]
  /\ RecoverSnapshots({i \in DOMAIN files : files'[i] # Garbage})
  /\ touched' = {}

Next ==
  \/ \E s \in States : Save(s) \/ \E id \in IDs : CallerWrites(id, s)
  \/ SaveFails
  \/ \E id \in IDs : Delete(id)
  \/ \E lost \in SUBSET IDs : Restart(lost)

Spec == Init /\ [][Next]_vars

-----------------------------------------------------------------------------

TypeOK ==
  /\ DOMAIN snapshots \subseteq IDs /\ \A id \in DOMAIN snapshots : snapshots[id] \in States
  /\ DOMAIN files \subseteq IDs /\ \A id \in DOMAIN files : files[id] \in States \cup {Garbage}
  /\ nextID \in 0..MaxSaves /\ touched \subseteq IDs

\* store.go:273-324,338-367: memory and directory hold the same snapshots with the same
\* content, except where the caller changed a map it had saved; and Save never takes the
\* place of a snapshot, nor hands out an identifier that Latest would pass over.
SnapshotsMatchFiles ==
  /\ DOMAIN snapshots = {id \in DOMAIN files : files[id] # Garbage}
  /\ \A id \in DOMAIN snapshots : snapshots[id] = files[id] \/ id \in touched
  /\ \A id \in DOMAIN snapshots : id < nextID
=============================================================================

-------------------------- MODULE PersistentObjects -------------------------
(***************************************************************************)
(* Objects on disk (storage/store.go SetObject, Search; StateManagerImpl's *)
(* persistChanges; gdl/uql.go).  After a mutator event the whole state is  *)
(* cut into objects (`type.id.field`), and each object is written with a   *)
(* pointer file per field for queries by value.  Nothing is synced, no     *)
(* pointer is ever removed, and every error is ignored.                    *)
(*                                                                         *)
(* ApplyEvent holds s.mu and SetObject ps.mu, so nothing but a crash comes *)
(* between the writes.  Rewind and Replay (runtime/kernel.go) rebuild the  *)
(* state from events of the log and write no object, and so does a         *)
(* restart, whose log has the declarative changes only.  No event is       *)
(* rejected, as no code in src takes a path lock or registers an           *)
(* invariant.  Paths without a dot are not written and left out, and of    *)
(* the types there is one.                                                 *)
(***************************************************************************)
EXTENDS Integers, Sequences, FiniteSets

CONSTANTS
  IDs, Fields, Values,
  Absent,        \* not a value: the state has no such path
  MaxEvents      \* bound on the events applied

VARIABLES
  data,          \* data[id][field]: the state
  folds,         \* folds[n + 1]: what Reconstruct makes of the first n events of the log
  declared,      \* declared[n + 1]: the same of those in the file, which have no mutators
  objects,       \* objects[id]: the fields in the object's file
  whole,         \* the objects whose file can be decoded
  index,         \* the pointer files: <<field, value, id>>
  todo,          \* the objects persistChanges has yet to write
  writing,       \* the object being written, and the fields to point at it
  applied,       \* number of events
  held,          \* history: <<field, value, id>> the state has had after a mutator
  unsaved,       \* history: <<id, field>> changed since by what writes no object
  damaged        \* history: objects whose last write was cut short or failed, or that were lost

disk == <<objects, whole, index>>
vars == <<data, folds, declared, disk, todo, writing, applied, held, unsaved, damaged>>

Idle    == [id |-> Absent, encoded |-> FALSE, fields |-> {}]
Blank   == [f \in Fields |-> Absent]
FieldsOf(obj) == {f \in Fields : obj[f] # Absent}
Present == {id \in IDs : FieldsOf(data[id]) # {}}
Cells   == IDs \X Fields
Contents == [IDs -> [Fields -> Values \cup {Absent}]]

Init ==
  /\ data = [id \in IDs |-> Blank] /\ folds = <<data>> /\ declared = folds
  /\ objects = [id \in IDs |-> Blank] /\ whole = {} /\ index = {}
  /\ todo = {} /\ writing = Idle /\ applied = 0
  /\ held = {} /\ unsaved = {} /\ damaged = {}

-----------------------------------------------------------------------------
(* ApplyEvent *)

Quiet == todo = {} /\ writing = Idle
Event == Quiet /\ applied < MaxEvents /\ applied' = applied + 1

Set(state, id, f, v) == [state EXCEPT ![id][f] = v]
Last(states) == states[Len(states)]
\* The event is logged, and the file has its declarative change, if it is one.
Log(id, f, v, declarative) ==
  /\ folds' = Append(folds, Set(Last(folds), id, f, v))
  /\ declared' = Append(declared,
                        IF declarative THEN Set(Last(declared), id, f, v) ELSE Last(declared))

\* Mutant: the object that changed, alone.
MutateOne(id, f, v) ==
  /\ Event
  /\ Log(id, f, v, FALSE)
  /\ data' = Set(data, id, f, v)
  /\ todo' = {id}
  /\ held' = held \cup {<<g, data'[o][g], o>> : g \in Fields, o \in IDs}
  /\ unsaved' = {c \in unsaved : FieldsOf(data'[c[1]]) = {}}
  /\ UNCHANGED <<disk, writing, damaged>>

\* A StateMutator that sets one path; all objects the state has are written again.
Mutate(id, f, v) ==
  /\ Event
  /\ Log(id, f, v, FALSE)
  /\ data' = Set(data, id, f, v)
  /\ todo' = Present'
  /\ held' = held \cup {<<g, data'[o][g], o>> : g \in Fields, o \in IDs}
  /\ unsaved' = {c \in unsaved : FieldsOf(data'[c[1]]) = {}}
  /\ UNCHANGED <<disk, writing, damaged>>

\* A declarative change: no object is written.
Declare(id, f, v) ==
  /\ Event
  /\ Log(id, f, v, TRUE)
  /\ data' = Set(data, id, f, v)
  /\ unsaved' = unsaved \cup {<<id, f>>}
  /\ UNCHANGED <<disk, todo, writing, held, damaged>>

\* The state is another one; no object is written.
Become(state) ==
  /\ data' = state
  /\ unsaved' = unsaved \cup {c \in Cells : data[c[1]][c[2]] # state[c[1]][c[2]]}

\* Rewind and Replay: Reconstruct from the events up to some time, or read at some time; the
\* log keeps the others.
Rewind(n) ==
  /\ Quiet
  /\ Become(folds[n])
  /\ UNCHANGED <<folds, declared, disk, todo, writing, applied, held, damaged>>

-----------------------------------------------------------------------------
(* SetObject, for each object in any order. *)

\* os.Create empties the file.
CreateFile(id) ==
  /\ writing = Idle /\ id \in todo
  /\ todo' = todo \ {id}
  /\ writing' = [id |-> id, encoded |-> FALSE, fields |-> FieldsOf(data[id])]
  /\ whole' = whole \ {id}
  /\ damaged' = damaged \ {id}
  /\ UNCHANGED <<data, folds, declared, objects, index, applied, held, unsaved>>

Encode ==
  /\ writing # Idle /\ ~writing.encoded
  /\ objects' = [objects EXCEPT ![writing.id] = data[writing.id]]
  /\ whole' = whole \cup {writing.id}
  /\ writing' = [writing EXCEPT !.encoded = TRUE]
  /\ UNCHANGED <<data, folds, declared, index, todo, applied, held, unsaved, damaged>>

\* Mutant: a field that has a pointer gets no other.
WriteIndexOnce(f) ==
  /\ writing # Idle /\ writing.encoded /\ f \in writing.fields
  /\ index' = IF \E v \in Values : <<f, v, writing.id>> \in index THEN index
              ELSE index \cup {<<f, data[writing.id][f], writing.id>>}
  /\ writing' = [writing EXCEPT !.fields = @ \ {f}]
  /\ UNCHANGED <<data, folds, declared, objects, whole, todo, applied, held, unsaved, damaged>>

\* One pointer file, in the order of a Go map.
WriteIndex(f) ==
  /\ writing # Idle /\ writing.encoded /\ f \in writing.fields
  /\ index' = index \cup {<<f, data[writing.id][f], writing.id>>}
  /\ writing' = [writing EXCEPT !.fields = @ \ {f}]
  /\ UNCHANGED <<data, folds, declared, objects, whole, todo, applied, held, unsaved, damaged>>

\* Its error is not looked at, and the next field follows.
WriteIndexFails(f) ==
  /\ writing # Idle /\ writing.encoded /\ f \in writing.fields
  /\ writing' = [writing EXCEPT !.fields = @ \ {f}]
  /\ damaged' = damaged \cup {writing.id}
  /\ UNCHANGED <<data, folds, declared, disk, todo, applied, held, unsaved>>

Written ==
  /\ writing # Idle /\ writing.encoded /\ writing.fields = {}
  /\ writing' = Idle
  /\ UNCHANGED <<data, folds, declared, disk, todo, applied, held, unsaved, damaged>>

\* MkdirAll or Create fails, or Encode does after the file was emptied; persistChanges
\* ignores what SetObject returns.
SetObjectFails ==
  /\ \/ /\ writing = Idle
        /\ \E id \in todo : todo' = todo \ {id} /\ damaged' = damaged \cup {id}
     \/ /\ writing # Idle /\ ~writing.encoded
        /\ damaged' = damaged \cup {writing.id}
        /\ UNCHANGED todo
  /\ writing' = Idle
  /\ UNCHANGED <<data, folds, declared, disk, applied, held, unsaved>>

\* The end of the process, followed into the next one; a machine that stops takes any files
\* with it that were written, as nothing is synced.
Crash(lost) ==
  /\ objects' = [id \in IDs |-> IF id \in lost THEN Blank ELSE objects[id]]
  /\ whole' = whole \ lost
  /\ \E pointers \in {{}, {e \in index : e[3] \in lost}} : index' = index \ pointers
  /\ damaged' = damaged \cup lost \cup todo \cup ({writing.id} \ {Absent})
  /\ folds' = declared
  /\ Become(Last(declared))
  /\ todo' = {} /\ writing' = Idle
  /\ UNCHANGED <<declared, applied, held>>

Next ==
  \/ \E id \in IDs, f \in Fields, v \in Values : Mutate(id, f, v) \/ Declare(id, f, v)
  \/ \E n \in DOMAIN folds : Rewind(n)
  \/ \E id \in IDs : CreateFile(id)
  \/ Encode
  \/ \E f \in Fields : WriteIndex(f) \/ WriteIndexFails(f)
  \/ Written \/ SetObjectFails
  \/ \E lost \in SUBSET IDs : Crash(lost)

Spec == Init /\ [][Next]_vars

-----------------------------------------------------------------------------
(* Queries. *)

Search(f, v) == {id \in IDs : <<f, v, id>> \in index}

\* Cut at the limit, if there is one, in the order of the file names.
Limited(ids, limit) ==
  IF limit = 0 \/ Cardinality(ids) <= limit THEN {ids}
  ELSE {s \in SUBSET ids : Cardinality(s) = limit}

\* UQLEngine.Execute: the results it may return for conditions [field, equal, value]. Only
\* the first is looked at, and only if it is an equality.
Execute(where, limit) ==
  IF ~where[1].equal THEN {{}}
  ELSE Limited(Search(where[1].field, where[1].value), limit)

-----------------------------------------------------------------------------
(* Properties. *)

TypeOK ==
  /\ data \in Contents /\ objects \in Contents
  /\ folds \in Seq(Contents) /\ declared \in Seq(Contents)
  /\ folds # << >> /\ Len(declared) = Len(folds)
  /\ whole \subseteq IDs /\ todo \subseteq IDs /\ damaged \subseteq IDs
  /\ index \subseteq Fields \X Values \X IDs
  /\ writing \in [id : IDs \cup {Absent}, encoded : BOOLEAN, fields : SUBSET Fields]
  /\ unsaved \subseteq Cells

Settled(id) == id \notin damaged /\ id \notin todo /\ writing.id # id

\* store.go:434-464, uql.go:84-124: a query for a value returns every object that has it on
\* disk, up to the limit, unless a write of that object was cut short; any other object it
\* returns had the value at an earlier time.
QueriesFindTheirObjects ==
  \A f \in Fields, v \in Values, limit \in 0..1 :
    LET having == {id \in IDs : Settled(id) /\ id \in whole /\ objects[id][f] = v}
        where  == <<[field |-> f, equal |-> TRUE, value |-> v]>>
    IN  \A result \in Execute(where, limit) :
          /\ IF limit = 0 THEN having \subseteq result ELSE Cardinality(result) <= limit
          /\ \A id \in result : <<f, v, id>> \in held

\* state_manager.go:322-323,341-377,420-454: an object on disk is the state's and can be read,
\* but for the fields that declarative events, a rewind, a replay or a restart have changed
\* since without writing an object.
ObjectsFollowState ==
  \A id \in IDs : Settled(id) =>
    /\ objects[id] # Blank => id \in whole
    /\ \A f \in Fields : objects[id][f] = data[id][f] \/ <<id, f>> \in unsaved
=============================================================================

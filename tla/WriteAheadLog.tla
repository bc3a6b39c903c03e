---------------------------- MODULE WriteAheadLog ---------------------------
(***************************************************************************)
(* The write-ahead log (storage/store.go): one JSON line per event.        *)
(*                                                                         *)
(* The file is a sequence of chunks: an entry (the whole JSON text of one  *)
(* event), Torn (a proper part of such a text), TooLong (a part that is    *)
(* longer by itself than the 10 MB a line may have) or Newline.            *)
(* replayUnlocked splits it at the newlines and skips the lines            *)
(* json.Unmarshal refuses, so an entry is read exactly when it is alone on *)
(* its line; but a line beyond the limit makes it return an error instead. *)
(* (Parts within the limit do not add up to a line beyond it here.)  The   *)
(* first `synced` chunks have reached the disk.  The file system           *)
(* (external): Write may fail after any part of the line, Sync may fail    *)
(* and leave the line in place, a crash keeps the synced chunks and any    *)
(* prefix of the rest, Rename is atomic and a crash does not undo it.      *)
(***************************************************************************)
EXTENDS Integers, Sequences, FiniteSets

CONSTANTS
  Torn, TooLong, Newline,
  TornWrites,    \* TRUE: a write or a crash may cut a line anywhere
  KeepCounts,    \* arguments of Truncate ({}: no caller, as in src)
  LongCalls,     \* the calls of Append whose event is beyond the limit
  MaxCalls       \* bound on calls of Append

\* Event bodies are told apart by the number of the call that wrote them.
Entries == [id : 1..MaxCalls, clock : 1..MaxCalls, body : 1..MaxCalls,
            long : BOOLEAN]

ASSUME WALAssumption ==
  /\ Torn # TooLong /\ Newline \notin {Torn, TooLong} /\ {Torn, TooLong, Newline} \cap Entries = {}
  /\ LongCalls \subseteq Nat
  /\ TornWrites \in BOOLEAN
  /\ KeepCounts \subseteq Nat
  /\ MaxCalls \in Nat

VARIABLES
  file,         \* chunks in the file, in the page cache or on disk
  synced,       \* how many of them a crash cannot take
  fd,           \* "open", "closed" (w.file was closed), "down" (no process)
  eventCount,   \* w.eventCount
  clock,        \* w.clock
  calls,        \* calls of Append so far
  acked,        \* history: entries whose Append returned nil, less those a Truncate
                \* has dropped or written to a file it could not sync
  renumbered    \* history: Truncate has set the counter back, or a process could not read it

vars == <<file, synced, fd, eventCount, clock, calls, acked, renumbered>>

AtLineStart(f, i) == i = 1 \/ f[i - 1] = Newline
AtLineEnd(f, i)   == i = Len(f) \/ f[i + 1] = Newline

\* An entry is read when it is alone on its line.
Readable(f, i) == f[i] \in Entries /\ AtLineStart(f, i) /\ AtLineEnd(f, i)
Positions(f)   == {i \in DOMAIN f : Readable(f, i)}
Rank(f, i)     == Cardinality({j \in Positions(f) : j <= i})

At(f, n)       == CHOOSE i \in Positions(f) : Rank(f, i) = n

\* The entries that are read, in file order.
Lines(f) == [n \in 1..Cardinality(Positions(f)) |-> f[At(f, n)]]

\* Whether the scanner gets to the end of the file.
Scannable(f) == \A i \in DOMAIN f : f[i] # TooLong /\ (f[i] \in Entries => ~f[i].long)

\* replayUnlocked; its callers take an error for an empty log.
Replay(f) == IF Scannable(f) THEN Lines(f) ELSE << >>

\* Mutant: the counter becomes the number of events.
RecoverPositionCounts ==
  LET events == Replay(file)
  IN  IF events = << >> THEN eventCount' = 0 /\ clock' = 0
                        ELSE eventCount' = Len(events) /\ clock' = events[Len(events)].clock

\* recoverPosition
RecoverPosition ==
  LET events == Replay(file)
      last   == events[Len(events)]
  IN  IF events = << >> THEN eventCount' = 0 /\ clock' = 0
      ELSE eventCount' = last.id /\ clock' = last.clock

-----------------------------------------------------------------------------
\* Mutant: the counter is stepped twice.
NextEntryTwice ==
  [id |-> eventCount + 2, clock |-> clock + 1, body |-> calls + 1, long |-> calls + 1 \in LongCalls]

\* The entry Append marshals.
NextEntry ==
  [id |-> eventCount + 1, clock |-> clock + 1, body |-> calls + 1, long |-> calls + 1 \in LongCalls]

CallAppend == /\ fd # "down"
              /\ calls < MaxCalls
              /\ calls' = calls + 1
              /\ eventCount' = eventCount + 1

\* Mutant: Append returns without Sync.
AppendEventUnsynced ==
  /\ fd = "open"
  /\ CallAppend
  /\ file' = file \o <<NextEntry, Newline>>
  /\ clock' = NextEntry.clock
  /\ acked' = acked \cup {NextEntry}
  /\ UNCHANGED <<synced, fd, renumbered>>

AppendEvent ==
  /\ fd = "open"
  /\ CallAppend
  /\ file' = file \o <<NextEntry, Newline>>
  /\ synced' = Len(file')
  /\ clock' = NextEntry.clock
  /\ acked' = acked \cup {NextEntry}
  /\ UNCHANGED <<fd, renumbered>>

\* What a failed Write leaves behind: nothing, a part, or all but the newline.
Parts(e) == IF e.long THEN {Torn, TooLong} ELSE {Torn}
Remnants == IF TornWrites THEN {<< >>, <<NextEntry>>} \cup {<<part>> : part \in Parts(NextEntry)}
            ELSE {<< >>}

\* The counter has moved, the clock has not.
WriteFails ==
  /\ CallAppend
  /\ \E part \in (IF fd = "open" THEN Remnants ELSE {<< >>}) : file' = file \o part
  /\ UNCHANGED <<synced, fd, clock, acked, renumbered>>

SyncFails ==
  /\ fd = "open"
  /\ CallAppend
  /\ file' = file \o <<NextEntry, Newline>>
  /\ UNCHANGED <<synced, fd, clock, acked, renumbered>>

-----------------------------------------------------------------------------
Kept(keepCount) ==
  LET events == Replay(file)
  IN  SubSeq(events, Len(events) - keepCount + 1, Len(events))

\* A file of these entries: each with its newline.
Written(kept) ==
  [i \in 1..2 * Len(kept) |-> IF i % 2 = 1 THEN kept[(i + 1) \div 2] ELSE Newline]

\* The kept events in a new file that takes the old one's place. Nobody looks at
\* the error of tmp.Sync: when there is one, none of them is safe any more.
Rewrite(kept) ==
  /\ file' = Written(kept)
  /\ synced' \in {0, Len(file')}
  /\ acked' = IF synced' = 0 THEN {} ELSE {e \in acked : \E n \in DOMAIN kept : kept[n] = e}

\* The counter becomes the number of events.
Truncate(keepCount) ==
  /\ fd = "open" /\ Len(Replay(file)) > keepCount
  /\ Rewrite(Kept(keepCount))
  /\ eventCount' = keepCount
  /\ renumbered' = TRUE
  /\ UNCHANGED <<fd, clock, calls>>

\* An error after w.file.Close() leaves the log closed: with the old file, or, when
\* only the reopening fails, with the new one, the counter not set back.
TruncateFails(keepCount) ==
  /\ fd = "open" /\ Len(Replay(file)) > keepCount
  /\ fd' = "closed"
  /\ Rewrite(Kept(keepCount)) \/ UNCHANGED <<file, synced, acked>>
  /\ UNCHANGED <<eventCount, clock, calls, renumbered>>

Close ==
  /\ fd = "open"
  /\ fd' = "closed"
  /\ UNCHANGED <<file, synced, eventCount, clock, calls, acked, renumbered>>

-----------------------------------------------------------------------------
\* What a crash can leave of the file.
Cut(k) == SubSeq(file, 1, k)
PartsOf(chunk) == IF chunk = Newline THEN {}
                  ELSE IF chunk \in Entries THEN Parts(chunk)
                  ELSE {Torn, chunk}
Survivors ==
  IF TornWrites
  THEN {Cut(k) : k \in synced..Len(file)}
         \cup UNION {{Append(Cut(k - 1), part) : part \in PartsOf(file[k])} :
                     k \in (synced + 1)..Len(file)}
  ELSE {Cut(k) : k \in {j \in synced..Len(file) : j = 0 \/ file[j] = Newline}}

Crash ==
  /\ fd # "down"
  /\ fd' = "down"
  /\ file' \in Survivors
  /\ synced' = Len(file')
  /\ eventCount' = 0 /\ clock' = 0
  /\ UNCHANGED <<calls, acked, renumbered>>

\* NewWriteAheadLog
Open ==
  /\ fd = "down"
  /\ fd' = "open"
  /\ RecoverPosition
  /\ renumbered' = (renumbered \/ ~Scannable(file))
  /\ UNCHANGED <<file, synced, calls, acked>>

-----------------------------------------------------------------------------
Init ==
  /\ file = << >> /\ synced = 0
  /\ fd = "down"
  /\ eventCount = 0 /\ clock = 0
  /\ calls = 0 /\ acked = {} /\ renumbered = FALSE

Next ==
  \/ AppendEvent \/ WriteFails \/ SyncFails
  \/ \E n \in KeepCounts : Truncate(n) \/ TruncateFails(n)
  \/ Close \/ Crash \/ Open

Spec == Init /\ [][Next]_vars

-----------------------------------------------------------------------------
\* Shape of the state.
TypeOK ==
  /\ file \in Seq(Entries \cup {Torn, TooLong, Newline}) /\ synced \in 0..Len(file)
  /\ fd \in {"open", "closed", "down"}
  /\ eventCount \in Nat /\ clock \in Nat /\ calls \in 0..MaxCalls
  /\ acked \subseteq Entries /\ renumbered \in BOOLEAN

\* An event whose Append returned nil is on disk, newline included, through
\* every later failure and crash, and through every Truncate that keeps it and
\* whose Sync does not fail unnoticed.
AckedOnDisk ==
  \A e \in acked : \E i \in DOMAIN file : i < synced /\ file[i] = e /\ file[i + 1] = Newline

\* ... and is alone on its line, unless it was written behind an unfinished one.
OnlyGluedLost ==
  \A e \in acked : \A i \in DOMAIN file :
    file[i] = e /\ ~Readable(file, i) => ~AtLineStart(file, i)

\* Together: what was acknowledged survives, and is read again unless a torn line
\* swallowed it, or some line is too long to be read.
AckedKept == AckedOnDisk /\ OnlyGluedLost

\* store.go:90-115,135-167: until Truncate sets the counter back, or a process starts that
\* meets a line it cannot read, the entries of the file are in the order of their
\* identifiers, none twice, the logical clock never runs backwards, and the next identifier
\* is not in the file yet -- although the counter moves before writes that fail, and lines
\* whose Sync failed stay.
ReplaySound ==
  LET events == Lines(file)
  IN  ~renumbered =>
        /\ \A m, n \in DOMAIN events : m < n =>
             events[m].id < events[n].id /\ events[m].clock <= events[n].clock
        /\ fd = "open" => \A n \in DOMAIN events : events[n].id <= eventCount
=============================================================================

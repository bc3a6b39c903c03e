-------------------------- MODULE EventStore_proofs -------------------------
(***************************************************************************)
(* Event sourcing, for any events, paths, mutators and number of calls:    *)
(* the log in memory mirrors the file, reads by identifier are exact until *)
(* an append fails, the state is the fold of the log unless one of the     *)
(* named reasons says otherwise, and a restart brings back what the log    *)
(* holds.                                                                  *)
(*                                                                         *)
(* What the file does is proved once, in WriteAheadLog_proofs: its         *)
(* invariant (lines written whole, in the order of their identifiers)      *)
(* holds of the instance here, and only Fork, which starts another file,   *)
(* is new to it.  The fold is a recursive function: that it exists and     *)
(* goes one round further with one event more is proved by looking at the  *)
(* least length at which it would not.                                     *)
(***************************************************************************)
EXTENDS EventStore, WellFoundedInduction, TLAPS

Files == INSTANCE WriteAheadLog_proofs WITH
           clock <- walClock, TornWrites <- FALSE, KeepCounts <- {}, LongCalls <- {}
-----------------------------------------------------------------------------
(* Recursion over the length of a log. *)

LEMMA LeastNumber ==
  ASSUME NEW T \in SUBSET Nat, T # {}
  PROVE  \E m \in T : \A n \in T : m <= n
<1> DEFINE R == OpToRel(<, Nat)
<1>1. IsWellFoundedOn(R, Nat)
  BY NatLessThanWellFounded
<1>2. \A m, n \in Nat : n < m => <<n, m>> \in R
  BY DEF OpToRel
<1> HIDE DEF R
<1>3. PICK m \in T : \A n \in T : ~ (<<n, m>> \in R)
  BY <1>1, WFMin
<1>4. \A n \in T : m <= n
  <2> TAKE n \in T
  <2>1. m \in Nat /\ n \in Nat /\ ~(n < m)
    BY <1>2, <1>3
  <2> QED BY <2>1
<1> QED BY <1>3, <1>4

\* fold is the sequence of states Reconstruct goes through in its first k rounds.
IsFold(fold, d, log, k) ==
  /\ fold[0] = d
  /\ \A n \in 1..k : fold[n] = State!Replayed(fold[n - 1], log[n].ev)

LEMMA FoldExists ==
  ASSUME NEW d, NEW log, NEW k \in Nat
  PROVE  \E fold : IsFold(fold, d, log, k)
<1> DEFINE T == {n \in Nat : ~\E fold : IsFold(fold, d, log, n)}
<1> SUFFICES ASSUME T # {} PROVE FALSE
  OBVIOUS
<1>1. PICK m \in T : \A n \in T : m <= n
  <2> HIDE DEF T
  <2>1. T \in SUBSET Nat
    BY DEF T
  <2> QED BY <2>1, LeastNumber
<1>2. m # 0
  <2>1. IsFold([n \in {0} |-> d], d, log, 0)
    BY DEF IsFold
  <2> QED BY <2>1
<1>3. PICK fold : IsFold(fold, d, log, m - 1)
  <2>1. m - 1 \in Nat /\ ~(m <= m - 1)
    BY <1>2
  <2> QED BY <1>1, <2>1
<1> DEFINE next == [n \in 0..m |-> IF n = m THEN State!Replayed(fold[m - 1], log[m].ev)
                                            ELSE fold[n]]
<1>4. IsFold(next, d, log, m)
  <2>1. next[0] = d
    BY <1>2, <1>3 DEF IsFold
  <2>2. ASSUME NEW n \in 1..m PROVE next[n] = State!Replayed(next[n - 1], log[n].ev)
    <3>1. next[n - 1] = fold[n - 1]
      OBVIOUS
    <3>2. CASE n = m
      BY <3>1, <3>2
    <3>3. CASE n # m
      <4>1. n \in 1..(m - 1) /\ next[n] = fold[n]
        BY <3>3
      <4> QED BY <1>3, <3>1, <4>1 DEF IsFold
    <3> QED BY <3>2, <3>3
  <2> QED BY <2>1, <2>2 DEF IsFold
<1> QED BY <1>4

\* The first k rounds depend on the first k events only.
LEMMA FoldUnique ==
  ASSUME NEW d, NEW log, NEW other, NEW k \in Nat, \A n \in 1..k : log[n] = other[n],
         NEW f, IsFold(f, d, log, k), NEW g, IsFold(g, d, other, k)
  PROVE  f[k] = g[k]
<1> DEFINE T == {n \in 0..k : f[n] # g[n]}
<1> SUFFICES ASSUME T # {} PROVE FALSE
  OBVIOUS
<1>1. PICK m \in T : \A n \in T : m <= n
  <2> HIDE DEF T
  <2>1. T \in SUBSET Nat
    BY DEF T
  <2> QED BY <2>1, LeastNumber
<1>2. m # 0
  BY DEF IsFold
<1>3. f[m - 1] = g[m - 1]
  <2>1. m - 1 \in 0..k /\ ~(m <= m - 1)
    BY <1>2
  <2> QED BY <1>1, <2>1
<1>4. m \in 1..k
  BY <1>2
<1> QED BY <1>3, <1>4 DEF IsFold

LEMMA FoldedIs ==
  ASSUME NEW d, NEW log, Len(log) \in Nat
  PROVE  \E fold : IsFold(fold, d, log, Len(log)) /\ Folded(d, log) = fold[Len(log)]
<1> DEFINE Rounds(f) == f = [n \in 0..Len(log) |-> IF n = 0 THEN d
                                                    ELSE State!Replayed(f[n - 1], log[n].ev)]
           fold == CHOOSE f : Rounds(f)
<1>1. PICK f : IsFold(f, d, log, Len(log))
  BY FoldExists
<1>2. Rounds([n \in 0..Len(log) |-> f[n]])
  <2> DEFINE g == [n \in 0..Len(log) |-> f[n]]
  <2>1. \A n \in 0..Len(log) : g[n] = IF n = 0 THEN d ELSE State!Replayed(g[n - 1], log[n].ev)
    <3> TAKE n \in 0..Len(log)
    <3>1. CASE n = 0
      BY <1>1, <3>1 DEF IsFold
    <3>2. CASE n # 0
      <4>1. n \in 1..Len(log) /\ n - 1 \in 0..Len(log)
        BY <3>2
      <4> QED BY <1>1, <3>2, <4>1 DEF IsFold
    <3> QED BY <3>1, <3>2
  <2> QED BY <2>1
<1>3. Rounds(fold)
  BY <1>2
<1>4. Folded(d, log) = fold[Len(log)]
  BY DEF Folded
<1> HIDE DEF fold
<1>5. IsFold(fold, d, log, Len(log))
  BY <1>3 DEF IsFold
<1> QED BY <1>4, <1>5

\* Reconstruct, on no event and on one event more.
LEMMA FoldedNothing ==
  ASSUME NEW d
  PROVE  Folded(d, << >>) = d
<1>1. Len(<< >>) = 0
  OBVIOUS
<1> QED BY <1>1, FoldedIs DEF IsFold

LEMMA FoldedAppend ==
  ASSUME NEW S, NEW d, NEW log \in Seq(S), NEW entry \in S
  PROVE  Folded(d, Append(log, entry)) = State!Replayed(Folded(d, log), entry.ev)
<1> DEFINE k == Len(log)
           more == Append(log, entry)
<1>1. /\ k \in Nat /\ Len(more) = k + 1 /\ more[k + 1] = entry
      /\ \A n \in 1..k : log[n] = more[n]
  OBVIOUS
<1> HIDE DEF k, more
<1>2. PICK f : IsFold(f, d, log, k) /\ Folded(d, log) = f[k]
  BY <1>1, FoldedIs DEF k
<1>3. PICK g : IsFold(g, d, more, k + 1) /\ Folded(d, more) = g[k + 1]
  BY <1>1, FoldedIs
<1>4. f[k] = g[k]
  <2>1. IsFold(g, d, more, k)
    BY <1>1, <1>3 DEF IsFold
  <2> QED BY <1>1, <1>2, <2>1, FoldUnique
<1>5. g[k + 1] = State!Replayed(g[k], more[k + 1].ev)
  <2>1. k + 1 \in 1..(k + 1) /\ (k + 1) - 1 = k
    BY <1>1
  <2>2. g[k + 1] = State!Replayed(g[(k + 1) - 1], more[k + 1].ev)
    BY <1>3, <2>1 DEF IsFold
  <2> QED BY <2>1, <2>2
<1> QED BY <1>1, <1>2, <1>3, <1>4, <1>5 DEF more
-----------------------------------------------------------------------------
(* The file: module WriteAheadLog_proofs, and the fork it does not know.   *)

Read  == WAL!Replay(file)
FileInv == Files!WholeInv

\* The event recorded last is within what a crash cannot take.
Kept(k) == k \in DOMAIN Read /\ 2 * k <= synced

LEMMA FilesAssumed == Files!WALAssumption /\ Files!WholeLines
<1>1. Files!WALAssumption
  BY EventStoreAssumption DEF Files!WALAssumption, WAL!WALAssumption, Files!Entries, WAL!Entries
<1> QED BY <1>1 DEF Files!WholeLines

LEMMA SameEntries == WAL!Entries = Files!Entries
  BY DEF WAL!Entries, Files!Entries

LEMMA SameReplay == \A f : WAL!Replay(f) = Files!Replay(f)
<1> SUFFICES ASSUME NEW f PROVE WAL!Replay(f) = Files!Replay(f)
  OBVIOUS
<1> USE SameEntries
<1>0. \A S : WAL!Cardinality(S) = Files!Cardinality(S)
  BY DEF WAL!Cardinality, Files!Cardinality
<1>1. WAL!Positions(f) = Files!Positions(f)
  BY DEF WAL!Positions, Files!Positions, WAL!Readable, Files!Readable,
         WAL!AtLineStart, Files!AtLineStart, WAL!AtLineEnd, Files!AtLineEnd
<1>2. \A i : WAL!Rank(f, i) = Files!Rank(f, i)
  BY <1>0, <1>1 DEF WAL!Rank, Files!Rank
<1>3. \A n : WAL!At(f, n) = Files!At(f, n)
  BY <1>1, <1>2 DEF WAL!At, Files!At
<1>4. WAL!Lines(f) = Files!Lines(f)
  BY <1>0, <1>1, <1>3 DEF WAL!Lines, Files!Lines
<1>5. WAL!Scannable(f) <=> Files!Scannable(f)
  BY DEF WAL!Scannable, Files!Scannable
<1> QED BY <1>4, <1>5 DEF WAL!Replay, Files!Replay

LEMMA SameSteps ==
  /\ WAL!Init <=> Files!Init
  /\ WAL!AppendEvent <=> Files!AppendEvent
  /\ WAL!WriteFails <=> Files!WriteFails
  /\ WAL!SyncFails <=> Files!SyncFails
  /\ WAL!Crash <=> Files!Crash
  /\ WAL!Open <=> Files!Open
  /\ WAL!NextEntry = Files!NextEntry
<1> USE SameEntries, SameReplay
<1>1. WAL!Init <=> Files!Init
  BY DEF WAL!Init, Files!Init
<1>2. WAL!NextEntry = Files!NextEntry
  BY DEF WAL!NextEntry, Files!NextEntry
<1>3. WAL!AppendEvent <=> Files!AppendEvent
  BY <1>2 DEF WAL!AppendEvent, Files!AppendEvent, WAL!CallAppend, Files!CallAppend
<1>4. (WAL!WriteFails <=> Files!WriteFails) /\ (WAL!SyncFails <=> Files!SyncFails)
  BY <1>2 DEF WAL!WriteFails, Files!WriteFails, WAL!SyncFails, Files!SyncFails,
              WAL!CallAppend, Files!CallAppend, WAL!Remnants, Files!Remnants,
              WAL!Parts, Files!Parts
<1>5. WAL!Survivors = Files!Survivors
  BY DEF WAL!Survivors, Files!Survivors, WAL!Cut, Files!Cut
<1>6. WAL!Crash <=> Files!Crash
  BY <1>5 DEF WAL!Crash, Files!Crash
<1>7. (WAL!Scannable(file) <=> Files!Scannable(file))
  BY DEF WAL!Scannable, Files!Scannable
<1>8. WAL!RecoverPosition <=> Files!RecoverPosition
  BY DEF WAL!RecoverPosition, Files!RecoverPosition
<1>9. WAL!Open <=> Files!Open
  BY <1>7, <1>8 DEF WAL!Open, Files!Open
<1> QED BY <1>1, <1>2, <1>3, <1>4, <1>6, <1>9

\* What is read: entries in the order of their identifiers, each from a call of its own.
LEMMA FileFacts ==
  ASSUME FileInv
  PROVE  /\ Read \in Seq(WAL!Entries) /\ Len(file) = 2 * Len(Read) /\ synced \in 0..Len(file)
         /\ Read = << >> => file = << >>
         /\ \A m, n \in DOMAIN Read : m < n => Read[m].id < Read[n].id
         /\ \A n \in DOMAIN Read : Read[n].body \in 1..calls
         /\ fd = "open" => \A n \in DOMAIN Read : Read[n].id <= eventCount
         /\ eventCount \in Nat /\ walClock \in Nat /\ calls \in 0..MaxCalls
         /\ eventCount <= calls /\ walClock <= calls
         /\ fd = "down" => synced = Len(file)
         /\ WAL!TypeOK
<1> USE FilesAssumed, SameEntries, SameReplay
<1>1. PICK n \in Nat : Files!Paired(file, n)
  BY DEF FileInv, Files!WholeInv
<1>2. /\ Read \in Seq(WAL!Entries) /\ Len(Read) = n
      /\ \A k \in 1..n : Read[k] = file[2 * k - 1]
  BY <1>1, Files!PairedReplay DEF Read
<1>3. /\ file \in Seq(Files!Chunks) /\ Len(file) = 2 * n /\ DOMAIN file = 1..(2 * n)
      /\ \A k \in 1..n : 2 * k - 1 \in DOMAIN file /\ file[2 * k - 1] \in Files!Entries
  BY <1>1 DEF Files!Paired
<1>4. Files!IInv /\ ~renumbered
  BY DEF FileInv, Files!WholeInv
<1>5. WAL!TypeOK /\ eventCount \in Nat /\ walClock \in Nat /\ calls \in 0..MaxCalls
      /\ synced \in 0..Len(file)
  BY <1>4 DEF Files!IInv, Files!TypeOK, WAL!TypeOK
<1>6. /\ fd = "down" => synced = Len(file)
      /\ eventCount <= calls /\ walClock <= calls
  BY <1>4 DEF Files!IInv, Files!PositionSound
<1>7. Read = Files!Lines(file) \/ Read = << >>
  BY <1>3, Files!ReplayFacts DEF Read
<1>8. /\ \A k, m \in DOMAIN Read : k < m => Read[k].id < Read[m].id
      /\ fd = "open" => \A k \in DOMAIN Read : Read[k].id <= eventCount
  BY <1>4, <1>7, Files!ReplaySoundFromInv DEF Files!ReplaySound
<1>9. \A k \in DOMAIN Read : Read[k].body \in 1..calls
  <2> TAKE k \in DOMAIN Read
  <2>1. k \in 1..n /\ Read[k] = file[2 * k - 1] /\ 2 * k - 1 \in DOMAIN file
    BY <1>2, <1>3
  <2>2. Read[k] \in Files!Entries
    BY <1>2
  <2>3. Read[k].body <= calls
    BY <1>4, <2>1, <2>2 DEF Files!IInv, Files!BodiesIncrease
  <2> QED BY <1>5, <2>2, <2>3 DEF Files!Entries
<1>10. Read = << >> => file = << >>
  BY <1>2, <1>3
<1> QED BY <1>2, <1>3, <1>5, <1>6, <1>8, <1>9, <1>10

LEMMA FileUnchanged ==
  ASSUME FileInv, UNCHANGED walVars
  PROVE  FileInv' /\ Read' = Read
<1>1. Read' = Read
  BY DEF walVars, Read, WAL!Replay, WAL!Scannable, WAL!Lines, WAL!Positions, WAL!Readable,
         WAL!AtLineStart, WAL!AtLineEnd, WAL!At, WAL!Rank
<1>2. Files!IInv'
  BY DEF walVars, FileInv, Files!WholeInv, Files!IInv, Files!TypeOK, Files!PositionSound,
         Files!BodiesIncrease, Files!AckedOnDisk, Files!InOrder, Files!MayBeRead
<1>3. FileInv'
  BY <1>2 DEF walVars, FileInv, Files!WholeInv
<1> QED BY <1>1, <1>3

\* The steps of the write-ahead log keep its invariant.
LEMMA FileStep ==
  ASSUME FileInv, WAL!AppendEvent \/ WAL!WriteFails \/ WAL!SyncFails \/ WAL!Crash \/ WAL!Open
  PROVE  FileInv'
<1>1. [Files!Next]_(Files!vars)
  BY SameSteps DEF Files!Next
<1> QED BY <1>1, FilesAssumed, Files!DurableNext DEF FileInv

\* A line is added: by Append, or by one whose Sync failed.
LEMMA LineAdded ==
  ASSUME FileInv, WAL!AppendEvent \/ WAL!SyncFails
  PROVE  /\ WAL!NextEntry \in WAL!Entries
         /\ Read' = Append(Read, WAL!NextEntry)
         /\ Len(file') = 2 * (Len(Read) + 1)
<1> USE FilesAssumed, SameEntries, SameReplay
<1>1. PICK n \in Nat : Files!Paired(file, n)
  BY DEF FileInv, Files!WholeInv
<1>2. Read \in Seq(WAL!Entries) /\ Len(Read) = n
  BY <1>1, Files!PairedReplay DEF Read
<1>3. Files!IInv /\ Files!CallAppend /\ file' = file \o <<Files!NextEntry, Newline>>
  BY SameSteps DEF FileInv, Files!WholeInv, Files!AppendEvent, Files!SyncFails
<1>4. Files!NextEntry \in Files!Entries /\ ~Files!NextEntry.long
  BY <1>3, Files!NextEntryType DEF Files!NextEntry
<1>5. /\ Files!Paired(file', n + 1)
      /\ Files!Replay(file') = Append(Files!Replay(file), Files!NextEntry)
  BY <1>1, <1>3, <1>4, Files!PairedAppend
<1>6. Read' = Files!Replay(file')
  BY DEF Read
<1>7. Len(file') = 2 * (n + 1)
  BY <1>5 DEF Files!Paired
<1> QED BY <1>2, <1>4, <1>5, <1>6, <1>7, SameSteps DEF Read

\* WAL.Append: the line is added and everything is on disk.
LEMMA FileAppend ==
  ASSUME FileInv, WAL!AppendEvent
  PROVE  /\ FileInv' /\ fd = "open" /\ fd' = "open"
         /\ Read' = Append(Read, WAL!NextEntry) /\ WAL!NextEntry \in WAL!Entries
         /\ synced' = 2 * (Len(Read) + 1)
         /\ calls' = calls + 1 /\ calls < MaxCalls
         /\ eventCount' = eventCount + 1 /\ walClock' = walClock + 1
<1>1. FileInv'
  BY FileStep
<1>2. /\ Read' = Append(Read, WAL!NextEntry) /\ WAL!NextEntry \in WAL!Entries
      /\ Len(file') = 2 * (Len(Read) + 1)
  BY LineAdded
<1> QED BY <1>1, <1>2 DEF WAL!AppendEvent, WAL!CallAppend, WAL!NextEntry

\* An append that fails: the line may be there.
LEMMA FileAppendFails ==
  ASSUME FileInv, WAL!WriteFails \/ WAL!SyncFails
  PROVE  /\ FileInv' /\ fd' = fd /\ fd # "down"
         /\ \/ Read' = Read
            \/ Read' = Append(Read, WAL!NextEntry) /\ WAL!NextEntry \in WAL!Entries
         /\ calls' = calls + 1 /\ calls < MaxCalls
         /\ eventCount' = eventCount + 1 /\ UNCHANGED <<walClock, synced>>
<1>1. FileInv'
  BY FileStep
<1>2. /\ fd' = fd /\ fd # "down" /\ calls' = calls + 1 /\ calls < MaxCalls
      /\ eventCount' = eventCount + 1 /\ UNCHANGED <<walClock, synced>>
  BY DEF WAL!WriteFails, WAL!SyncFails, WAL!CallAppend
<1>3. CASE WAL!WriteFails
  <2>1. file' = file \o << >>
    BY <1>3 DEF WAL!WriteFails, WAL!Remnants
  <2>2. file' = file
    BY <2>1 DEF FileInv, Files!WholeInv, Files!IInv, Files!TypeOK
  <2>3. Read' = WAL!Replay(file')
    BY SameReplay DEF Read
  <2> QED BY <1>1, <1>2, <2>2, <2>3 DEF Read
<1>4. CASE WAL!SyncFails
  BY <1>1, <1>2, <1>4, LineAdded
<1> QED BY <1>3, <1>4

\* A crash leaves the lines up to some point behind what is synced.
LEMMA FileCrash ==
  ASSUME FileInv, WAL!Crash
  PROVE  /\ FileInv' /\ fd # "down" /\ fd' = "down" /\ calls' = calls
         /\ synced = Len(file) => Read' = Read
<1> USE FilesAssumed, SameEntries, SameReplay
<1>1. FileInv'
  BY FileStep
<1>2. fd # "down" /\ fd' = "down" /\ calls' = calls /\ Files!Crash
  BY SameSteps DEF WAL!Crash
<1>3. ASSUME synced = Len(file) PROVE file' = file
  <2>1. PICK k \in synced..Len(file) : file' = SubSeq(file, 1, k)
    BY <1>2 DEF Files!Crash, Files!Survivors, Files!Cut
  <2>2. file \in Seq(Files!Chunks)
    BY DEF FileInv, Files!WholeInv, Files!Paired
  <2>3. k = Len(file)
    BY <1>3, <2>1, <2>2
  <2> QED BY <2>1, <2>2, <2>3
<1>4. Read' = Files!Replay(file')
  BY DEF Read
<1> QED BY <1>1, <1>2, <1>3, <1>4 DEF Read

\* NewWriteAheadLog: the counters are those of the last line.
LEMMA FileOpen ==
  ASSUME FileInv, WAL!Open
  PROVE  /\ FileInv' /\ fd = "down" /\ fd' = "open" /\ Read' = Read
         /\ synced' = synced /\ calls' = calls /\ synced = Len(file)
         /\ Read = << >> => eventCount' = 0 /\ walClock' = 0
         /\ Read # << >> => /\ eventCount' = Read[Len(Read)].id
                            /\ walClock' = Read[Len(Read)].clock
<1>1. FileInv'
  BY FileStep
<1>2. /\ fd = "down" /\ fd' = "open" /\ synced' = synced /\ calls' = calls /\ file' = file
      /\ Read = << >> => eventCount' = 0 /\ walClock' = 0
      /\ Read # << >> => /\ eventCount' = Read[Len(Read)].id
                         /\ walClock' = Read[Len(Read)].clock
  BY DEF WAL!Open, WAL!RecoverPosition, Read
<1>3. Read' = Read
  BY <1>2, SameReplay DEF Read
<1>4. synced = Len(file)
  BY <1>2, FileFacts
<1> QED BY <1>1, <1>2, <1>3, <1>4

\* The log of a fork: another file, written whole.
LEMMA OldForkFacts ==
  ASSUME NEW old \in OldForks, calls \in Nat, calls + LastID(old) <= MaxCalls
  PROVE  /\ Len(old) \in Nat /\ DOMAIN old = 1..Len(old)
         /\ LastID(old) \in Nat /\ LastClock(old) \in Nat /\ LastClock(old) <= LastID(old)
         /\ old # << >> => LastID(old) = old[Len(old)].id /\ LastClock(old) = old[Len(old)].clock
         /\ \A n \in 1..Len(old) :
              /\ old[n].id \in 1..LastID(old) /\ old[n].clock \in 1..LastClock(old)
              /\ old[n].clock <= old[n].id /\ old[n].ev \in PersistedEvents
              /\ old[n] = [id |-> old[n].id, clock |-> old[n].clock, ev |-> old[n].ev]
         /\ \A m, n \in 1..Len(old) : m < n => old[m].id < old[n].id /\ old[m].clock <= old[n].clock
         /\ old \in Seq(LogEntries)
<1> DEFINE R == [id : Nat \ {0}, clock : Nat \ {0}, ev : PersistedEvents]
<1>1. OldLog(old)
  BY EventStoreAssumption
<1>0. old \in Seq(R)
  BY <1>1 DEF OldLog
<1> HIDE DEF R
<1>2. /\ Len(old) \in Nat /\ DOMAIN old = 1..Len(old)
      /\ \A n \in 1..Len(old) : old[n] \in R
  BY <1>0
<1>2a. old # << >> <=> Len(old) # 0
  BY <1>0
<1>2b. \A n \in 1..Len(old) : old[n] = [id |-> old[n].id, clock |-> old[n].clock, ev |-> old[n].ev]
  BY <1>2 DEF R
<1>3. \A n \in 1..Len(old) :
        /\ old[n].id \in Nat \ {0} /\ old[n].clock \in Nat \ {0} /\ old[n].ev \in PersistedEvents
        /\ old[n].clock <= old[n].id
  BY <1>1, <1>2 DEF OldLog, R
<1>4. \A m, n \in 1..Len(old) : m < n => old[m].id < old[n].id /\ old[m].clock <= old[n].clock
  BY <1>1, <1>2 DEF OldLog
<1>5. /\ LastID(old) \in Nat /\ LastClock(old) \in Nat /\ LastClock(old) <= LastID(old)
      /\ old # << >> => LastID(old) = old[Len(old)].id /\ LastClock(old) = old[Len(old)].clock
  BY <1>2, <1>2a, <1>3 DEF LastID, LastClock
<1>6. ASSUME NEW n \in 1..Len(old)
      PROVE  old[n].id \in 1..LastID(old) /\ old[n].clock \in 1..LastClock(old)
  <2>1. Len(old) \in 1..Len(old) /\ old # << >> /\ (n < Len(old) \/ n = Len(old))
    <3>0. \A k \in Nat : \A m \in 1..k : k \in 1..k /\ (m < k \/ m = k) /\ k # 0
      OBVIOUS
    <3>1. Len(old) \in 1..Len(old) /\ (n < Len(old) \/ n = Len(old)) /\ Len(old) # 0
      BY <1>2, <3>0, Zenon
    <3> QED BY <1>2a, <3>1
  <2>2. old[n].id <= old[Len(old)].id /\ old[n].clock <= old[Len(old)].clock
    <3>1. CASE n = Len(old)
      BY <1>3, <3>1
    <3>2. CASE n < Len(old)
      <4>1. old[n].id < old[Len(old)].id /\ old[n].clock <= old[Len(old)].clock
        BY <1>4, <2>1, <3>2
      <4> QED BY <1>3, <2>1, <4>1
    <3> QED BY <2>1, <3>1, <3>2
  <2> QED BY <1>3, <1>5, <2>1, <2>2
<1>7. \A n \in 1..Len(old) : old[n] \in LogEntries
  <2> TAKE n \in 1..Len(old)
  <2>1. MaxCalls \in Nat
    BY EventStoreAssumption DEF WAL!WALAssumption
  <2>2. old[n].id \in 1..MaxCalls /\ old[n].clock \in 1..MaxCalls
    BY <1>5, <1>6, <2>1
  <2>3. [id |-> old[n].id, clock |-> old[n].clock, ev |-> old[n].ev] \in LogEntries
    BY <1>3, <2>2 DEF LogEntries
  <2> QED BY <1>2b, <2>3, Zenon
<1>8. old \in Seq(LogEntries)
  BY <1>0, <1>2, <1>7
<1> QED BY <1>2, <1>2b, <1>3, <1>4, <1>5, <1>6, <1>8

LEMMA FileForked ==
  ASSUME FileInv, NEW old \in OldForks, Fork(old)
  PROVE  /\ FileInv' /\ fd' = "open" /\ calls' = calls + LastID(old)
         /\ DOMAIN Read' = 1..Len(old) /\ Read' \in Seq(WAL!Entries)
         /\ synced' = 2 * Len(old)
         /\ \A n \in 1..Len(old) : /\ Read'[n].id = old[n].id /\ Read'[n].clock = old[n].clock
                                   /\ Read'[n].body = calls + old[n].id
<1> USE FilesAssumed, SameEntries, SameReplay
<1> DEFINE lines == [n \in 1..Len(old) |->
                      [id |-> old[n].id, clock |-> old[n].clock, body |-> calls + old[n].id, long |-> FALSE]]
<1>1. /\ fd = "open" /\ file' = Files!Written(lines) /\ synced' = Len(file')
      /\ eventCount' = LastID(old) /\ walClock' = LastClock(old)
      /\ acked' = {} /\ UNCHANGED <<fd, renumbered>>
      /\ calls' = calls + LastID(old) /\ calls + LastID(old) <= MaxCalls
  BY DEF Fork, OldFile, WAL!Written, Files!Written
<1>2. Files!IInv /\ ~renumbered
  BY DEF FileInv, Files!WholeInv
<1>3. calls \in Nat /\ MaxCalls \in Nat
  BY FileFacts, EventStoreAssumption DEF WAL!WALAssumption
<1>4. /\ Len(old) \in Nat
      /\ LastID(old) \in Nat /\ LastClock(old) \in Nat /\ LastClock(old) <= LastID(old)
      /\ \A n \in 1..Len(old) :
           /\ old[n].id \in 1..LastID(old) /\ old[n].clock \in 1..LastClock(old)
           /\ old[n].clock <= old[n].id
      /\ \A m, n \in 1..Len(old) : m < n => old[m].id < old[n].id /\ old[m].clock <= old[n].clock
  BY <1>1, <1>3, OldForkFacts
<1>5. ASSUME NEW n \in 1..Len(old)
      PROVE  /\ lines[n].id = old[n].id /\ lines[n].clock = old[n].clock
             /\ lines[n].body = calls + old[n].id /\ ~lines[n].long
             /\ lines[n] \in Files!Entries
  <2>1. /\ lines[n] = [id |-> old[n].id, clock |-> old[n].clock, body |-> calls + old[n].id, long |-> FALSE]
        /\ old[n].id \in 1..MaxCalls /\ old[n].clock \in 1..MaxCalls
        /\ calls + old[n].id \in 1..MaxCalls
    BY <1>1, <1>3, <1>4
  <2> QED BY <2>1 DEF Files!Entries
<1>6. lines \in Seq(Files!Entries) /\ Len(lines) = Len(old)
  BY <1>4, <1>5
<1> HIDE DEF lines
<1>7. Files!IsWritten(file', lines)
  BY <1>1, <1>6, Files!WrittenOut
<1>8. /\ file' \in Seq(Files!Chunks) /\ Len(file') = 2 * Len(old) /\ DOMAIN file' = 1..(2 * Len(old))
      /\ \A i \in DOMAIN file' : file'[i] \in Files!Entries =>
           \E n \in 1..Len(old) : i = 2 * n - 1 /\ file'[i] = lines[n]
      /\ \A n \in 1..Len(old) : file'[2 * n - 1] = lines[n] /\ file'[2 * n] = Newline
  BY <1>6, <1>7 DEF Files!IsWritten
<1>9. Files!Paired(file', Len(old))
  BY <1>4, <1>5, <1>8 DEF Files!Paired
<1>10. Files!TypeOK'
  BY <1>1, <1>2, <1>3, <1>4, <1>8 DEF Files!IInv, Files!TypeOK, Files!Chunks
<1>11. Files!PositionSound'
  BY <1>1, <1>3, <1>4 DEF Files!PositionSound
<1>12. Files!BodiesIncrease'
  <2>1. ASSUME NEW i \in DOMAIN file', NEW j \in DOMAIN file',
               file'[i] \in Files!Entries, file'[j] \in Files!Entries, i < j
        PROVE  file'[i].body < file'[j].body
    <3>1. PICK m \in 1..Len(old) : i = 2 * m - 1 /\ file'[i] = lines[m]
      BY <1>8, <2>1
    <3>2. PICK n \in 1..Len(old) : j = 2 * n - 1 /\ file'[j] = lines[n]
      BY <1>8, <2>1
    <3>3. m < n
      BY <2>1, <3>1, <3>2
    <3>4. old[m].id < old[n].id /\ old[m].id \in Nat /\ old[n].id \in Nat
      BY <1>4, <3>3
    <3> QED BY <1>3, <1>5, <3>1, <3>2, <3>4
  <2>2. ASSUME NEW i \in DOMAIN file', file'[i] \in Files!Entries
        PROVE  /\ file'[i].id <= file'[i].body /\ file'[i].clock <= file'[i].body
               /\ file'[i].body <= calls'
    <3>1. PICK n \in 1..Len(old) : file'[i] = lines[n]
      BY <1>8, <2>2
    <3>2. /\ old[n].id \in Nat /\ old[n].clock \in Nat /\ old[n].clock <= old[n].id
          /\ old[n].id <= LastID(old)
      BY <1>4
    <3> QED BY <1>1, <1>3, <1>4, <1>5, <3>1, <3>2
  <2> QED BY <2>1, <2>2 DEF Files!BodiesIncrease
<1>13. Files!AckedOnDisk'
  BY <1>1 DEF Files!AckedOnDisk
<1>14. Files!InOrder'
  <2>1. ASSUME NEW i \in DOMAIN file', NEW j \in DOMAIN file',
               file'[i] \in Files!Entries, file'[j] \in Files!Entries, i < j
        PROVE  file'[i].id < file'[j].id /\ file'[i].clock <= file'[j].clock
    <3>1. PICK m \in 1..Len(old) : i = 2 * m - 1 /\ file'[i] = lines[m]
      BY <1>8, <2>1
    <3>2. PICK n \in 1..Len(old) : j = 2 * n - 1 /\ file'[j] = lines[n]
      BY <1>8, <2>1
    <3>3. m < n
      BY <2>1, <3>1, <3>2
    <3> QED BY <1>4, <1>5, <3>1, <3>2, <3>3
  <2>2. ASSUME NEW i \in DOMAIN file', file'[i] \in Files!Entries
        PROVE  file'[i].id <= eventCount' /\ file'[i].clock <= walClock' + 1
    <3>1. PICK n \in 1..Len(old) : file'[i] = lines[n]
      BY <1>8, <2>2
    <3> QED BY <1>1, <1>4, <1>5, <3>1
  <2> QED BY <2>1, <2>2 DEF Files!InOrder, Files!MayBeRead
<1>15. FileInv'
  <2>1. synced' = 2 * Len(old) /\ ~renumbered'
    BY <1>1, <1>2, <1>8
  <2>2. Files!IInv'
    BY <1>10, <1>11, <1>12, <1>13, <1>14 DEF Files!IInv
  <2> QED BY <1>4, <1>9, <2>1, <2>2 DEF FileInv, Files!WholeInv
<1>16. Read' = Files!Replay(file')
  BY DEF Read
<1>17. /\ Read' \in Seq(WAL!Entries) /\ Len(Read') = Len(old)
       /\ \A n \in 1..Len(old) : Read'[n] = lines[n]
  BY <1>4, <1>8, <1>9, <1>16, Files!PairedReplay
<1> QED BY <1>1, <1>5, <1>8, <1>15, <1>17
-----------------------------------------------------------------------------
(* States and log entries. *)

LEMMA PersistedFacts ==
  ASSUME NEW ev \in Events
  PROVE  /\ Persisted(ev).sets = ev.sets /\ Persisted(ev).mutator = NoMutator
         /\ Persisted(Persisted(ev)) = Persisted(ev)
<1>1. DOMAIN ev = {"writes", "mutator", "sets"}
  BY EventStoreAssumption
<1>2. /\ Persisted(ev) = [x \in {"writes", "mutator", "sets"} |->
                            IF x = "mutator" THEN NoMutator ELSE ev[x]]
      /\ DOMAIN Persisted(ev) = {"writes", "mutator", "sets"}
  BY <1>1 DEF Persisted
<1>3. \A x \in {"writes", "mutator", "sets"} :
        Persisted(ev)[x] = IF x = "mutator" THEN NoMutator ELSE ev[x]
  BY <1>2
<1>4. Persisted(Persisted(ev)) = [x \in {"writes", "mutator", "sets"} |->
                                    IF x = "mutator" THEN NoMutator ELSE Persisted(ev)[x]]
  BY <1>2 DEF Persisted
<1>5. Persisted(Persisted(ev)) = Persisted(ev)
  BY <1>2, <1>3, <1>4
<1> QED BY <1>3, <1>5

LEMMA RoundStaysState ==
  ASSUME NEW d \in State!Data, NEW ev \in Events \cup PersistedEvents
  PROVE  /\ State!Replayed(d, ev) \in State!Data
         /\ ~State!Rejects(d, ev) => State!Applied(d, ev) \in State!Data
<1>1. PICK e \in Events : ev.sets = e.sets /\ ev.mutator \in {e.mutator, NoMutator}
  BY PersistedFacts DEF PersistedEvents
<1>2. /\ e.mutator \in Mutators \cup {NoMutator}
      /\ e.sets \in UNION {[P -> Values] : P \in SUBSET Paths}
      /\ Run \in [Mutators -> [State!Data -> State!Data \cup {Refuses}]]
  BY EventStoreAssumption DEF State!StateAssumption
<1>3. PICK P \in SUBSET Paths : e.sets \in [P -> Values]
  BY <1>2
<1>4. \A s \in State!Data : State!Assign(s, ev.sets) \in State!Data
  BY <1>1, <1>3 DEF State!Assign, State!Data
<1>5. \A s \in State!Data : State!Mutate(s, ev) \in State!Data \cup {Refuses}
  BY <1>1, <1>2 DEF State!Mutate
<1>6. ~State!Rejects(d, ev) => State!Mutate(d, ev) \in State!Data
  BY <1>5 DEF State!Rejects, State!Mutate
<1> QED BY <1>4, <1>5, <1>6 DEF State!Replayed, State!Applied

LEMMA StateOfNothing == State0 \in State!Data
  BY EventStoreAssumption DEF State!StateAssumption, State0, State!Data

LEMMA ProjectStaysState ==
  ASSUME NEW log \in Seq(LogEntries)
  PROVE  Project(log) \in State!Data
<1>1. PICK fold : IsFold(fold, State0, log, Len(log)) /\ Project(log) = fold[Len(log)]
  BY FoldedIs DEF Project
<1> DEFINE T == {n \in 0..Len(log) : fold[n] \notin State!Data}
<1> SUFFICES ASSUME T # {} PROVE FALSE
  BY <1>1
<1>2. PICK m \in T : \A n \in T : m <= n
  <2> HIDE DEF T
  <2>1. T \in SUBSET Nat
    BY DEF T
  <2> QED BY <2>1, LeastNumber
<1>3. m # 0
  BY <1>1, StateOfNothing DEF IsFold
<1>4. fold[m - 1] \in State!Data
  <2>1. m - 1 \in 0..Len(log) /\ ~(m <= m - 1)
    BY <1>3
  <2> QED BY <1>2, <2>1
<1>5. m \in 1..Len(log) /\ log[m] \in LogEntries
  BY <1>3
<1>6. fold[m] = State!Replayed(fold[m - 1], log[m].ev)
  BY <1>1, <1>5 DEF IsFold
<1>7. fold[m] \in State!Data
  <2>1. log[m].ev \in Events \cup PersistedEvents
    BY <1>5 DEF LogEntries
  <2> QED BY <1>4, <1>6, <2>1, RoundStaysState
<1> QED BY <1>2, <1>7

LEMMA LastClockFacts ==
  ASSUME NEW log \in Seq(LogEntries)
  PROVE  LastClock(log) \in 0..MaxCalls
<1>1. MaxCalls \in Nat
  BY EventStoreAssumption DEF WAL!WALAssumption
<1>2. log # << >> => log[Len(log)] \in LogEntries
  OBVIOUS
<1> QED BY <1>1, <1>2 DEF LastClock, LogEntries
-----------------------------------------------------------------------------
(* The invariant. *)

Typed ==
  /\ fd \in {"open", "down"}
  /\ events \in Seq(LogEntries) /\ sent \in Seq(PersistedEvents) /\ Len(sent) = calls
  /\ nextID \in 1..(MaxCalls + 1) /\ holed \in BOOLEAN /\ logClock \in 0..MaxCalls
  /\ data \in State!Data /\ clock \in Nat
  /\ pending \in Events \cup {None}
  /\ clock <= MaxCalls + calls
  /\ pending # None => clock < MaxCalls + calls
  /\ replaying = None \/ replaying \in Seq(LogEntries)
  /\ drift \subseteq {"rejected", "order", "raced", "rewound", "forked"}

\* The log follows the counters of the write-ahead log, and counts its events as long as
\* no append has failed.
Numbered ==
  /\ \A m, n \in DOMAIN events : m < n => events[m].id < events[n].id
  /\ nextID = IF events = << >> THEN 1 ELSE events[Len(events)].id + 1
  /\ fd = "open" => nextID - 1 <= eventCount /\ logClock = walClock
  /\ fd = "down" => events = << >> /\ pending = None
  /\ ~holed => /\ \A n \in DOMAIN events : events[n].id = n
               /\ fd = "open" => eventCount = Len(events)

SameEvent(line, entry) ==
  /\ line.id = entry.id /\ line.clock = entry.clock
  /\ sent[line.body] = Persisted(entry.ev)

Mirrored == \A n \in DOMAIN events : \E m \in DOMAIN Read : SameEvent(Read[m], events[n])

\* The event logged last, and so every one, is within what a crash cannot take.
Secured ==
  events # << >> =>
    \E m \in DOMAIN Read : 2 * m <= synced /\ Read[m].id = events[Len(events)].id

\* The events the state has seen: SubmitEvent applies what it has logged last.
Seen == IF pending = None THEN events ELSE SubSeq(events, 1, Len(events) - 1)

StateFolded ==
  /\ pending # None => events # << >> /\ events[Len(events)].ev = pending
  /\ drift = {} => data = Project(Seen)

\* While there is no process, the file is what the last one had logged.
Remembered == fd = "down" /\ before.exact => before.data = Project(Loaded(Read))

IInv == FileInv /\ Typed /\ Numbered /\ Mirrored /\ Secured /\ StateFolded /\ Remembered

LEMMA LoadedFacts ==
  ASSUME FileInv, Typed
  PROVE  /\ Loaded(Read) \in Seq(LogEntries)
         /\ Len(Loaded(Read)) = Len(Read) /\ DOMAIN Loaded(Read) = DOMAIN Read
         /\ \A n \in DOMAIN Read : /\ Loaded(Read)[n].id = Read[n].id
                                   /\ Loaded(Read)[n].clock = Read[n].clock
                                   /\ SameEvent(Read[n], Loaded(Read)[n])
<1>1. Read \in Seq(WAL!Entries) /\ \A n \in DOMAIN Read : Read[n].body \in 1..calls
  BY FileFacts
<1>2. /\ Loaded(Read) = [n \in 1..Len(Read) |->
           [id |-> Read[n].id, clock |-> Read[n].clock, ev |-> sent[Read[n].body]]]
      /\ Len(Read) \in Nat /\ DOMAIN Read = 1..Len(Read)
  BY <1>1 DEF Loaded
<1>3. ASSUME NEW n \in 1..Len(Read)
      PROVE  /\ Read[n].id \in 1..MaxCalls /\ Read[n].clock \in 1..MaxCalls
             /\ sent[Read[n].body] \in PersistedEvents
  <2>1. Read[n] \in WAL!Entries
    BY <1>1
  <2>2. Read[n].body \in 1..Len(sent)
    BY <1>1, <1>2 DEF Typed
  <2> QED BY <2>1, <2>2 DEF WAL!Entries, Typed
<1>4. \A n \in 1..Len(Read) :
        [id |-> Read[n].id, clock |-> Read[n].clock, ev |-> sent[Read[n].body]] \in LogEntries
  BY <1>3 DEF LogEntries
<1>5. Loaded(Read) \in Seq(LogEntries) /\ Len(Loaded(Read)) = Len(Read)
  BY <1>2, <1>4
<1>6. \A n \in 1..Len(Read) : sent[Read[n].body] = Persisted(sent[Read[n].body])
  BY <1>3, PersistedFacts DEF PersistedEvents
<1> QED BY <1>2, <1>5, <1>6 DEF SameEvent

\* The state after Reconstruct of the whole log, with nothing pending.
LEMMA FoldedWhole ==
  ASSUME pending' = None, data' = Project(events')
  PROVE  StateFolded'
<1>1. Seen' = events'
  BY DEF Seen
<1>2. data' = Project(Seen)'
  BY <1>1
<1> QED BY <1>2 DEF StateFolded

LEMMA InitInv == Init => IInv
<1> SUFFICES ASSUME Init PROVE IInv
  OBVIOUS
<1>1. FileInv
  BY SameSteps, FilesAssumed, Files!DurableInit DEF Init, FileInv
<1>2. /\ file = << >> /\ synced = 0 /\ fd = "down" /\ eventCount = 0 /\ walClock = 0 /\ calls = 0
      /\ sent = << >> /\ events = << >> /\ nextID = 1 /\ logClock = 0 /\ holed = FALSE
      /\ data = State0 /\ clock = 0 /\ pending = None /\ replaying = None /\ drift = {}
      /\ before.exact = FALSE
  BY DEF Init, WAL!Init
<1>3. Typed
  <2>1. MaxCalls \in Nat
    BY EventStoreAssumption DEF WAL!WALAssumption
  <2>2. << >> \in Seq(LogEntries) /\ << >> \in Seq(PersistedEvents) /\ Len(<< >>) = 0
    OBVIOUS
  <2>3. data \in State!Data
    BY <1>2, StateOfNothing
  <2>4. events \in Seq(LogEntries) /\ sent \in Seq(PersistedEvents) /\ Len(sent) = calls
    BY <1>2, <2>2
  <2>5. /\ nextID \in 1..(MaxCalls + 1) /\ logClock \in 0..MaxCalls
        /\ clock \in Nat /\ clock <= MaxCalls + calls
    BY <1>2, <2>1
  <2>6. holed \in BOOLEAN
    BY <1>2, Zenon
  <2> QED BY <1>2, <2>3, <2>4, <2>5, <2>6 DEF Typed
<1>4. Numbered /\ Mirrored /\ Secured /\ Remembered
  BY <1>2 DEF Numbered, Mirrored, Secured, Remembered
<1>5. StateFolded
  <2>1. Seen = << >> /\ Project(<< >>) = State0
    BY <1>2, FoldedNothing DEF Seen, Project
  <2> QED BY <1>2, <2>1 DEF StateFolded
<1> QED BY <1>1, <1>3, <1>4, <1>5 DEF IInv

LEMMA BootInv ==
  ASSUME IInv, Boot
  PROVE  IInv'
<1> USE DEF IInv
<1>1. /\ FileInv' /\ fd = "down" /\ fd' = "open" /\ Read' = Read
      /\ synced' = synced /\ calls' = calls /\ synced = Len(file)
      /\ Read = << >> => eventCount' = 0 /\ walClock' = 0
      /\ Read # << >> => /\ eventCount' = Read[Len(Read)].id
                         /\ walClock' = Read[Len(Read)].clock
  BY FileOpen DEF Boot
<1>2. /\ events' = Loaded(Read)
      /\ nextID' = IF events' = << >> THEN 1 ELSE events'[Len(events')].id + 1
      /\ logClock' = LastClock(events') /\ holed' = (\E n \in DOMAIN events' : events'[n].id # n)
      /\ data' = Project(events') /\ clock' = LastClock(events') /\ drift' = {}
      /\ UNCHANGED <<sent, pending, replaying, before>> /\ pending = None
  BY <1>1 DEF Boot, Reconstruct, Read, Numbered
<1>3. /\ events' \in Seq(LogEntries) /\ Len(events') = Len(Read) /\ DOMAIN events' = DOMAIN Read
      /\ \A n \in DOMAIN Read : /\ events'[n].id = Read[n].id /\ events'[n].clock = Read[n].clock
                                /\ SameEvent(Read[n], events'[n])
  BY <1>2, LoadedFacts
<1>4. /\ Read \in Seq(WAL!Entries) /\ Len(file) = 2 * Len(Read)
      /\ \A m, n \in DOMAIN Read : m < n => Read[m].id < Read[n].id
      /\ calls \in 0..MaxCalls
  BY FileFacts
<1>5. LastClock(events') \in 0..MaxCalls /\ data' \in State!Data /\ MaxCalls \in Nat
  BY <1>2, <1>3, LastClockFacts, ProjectStaysState, EventStoreAssumption DEF WAL!WALAssumption
<1>6. nextID' \in 1..(MaxCalls + 1)
  <2>1. events' # << >> => events'[Len(events')] \in LogEntries
    BY <1>3
  <2> QED BY <1>2, <1>5, <2>1 DEF LogEntries
<1>7. Typed'
  BY <1>1, <1>2, <1>3, <1>4, <1>5, <1>6 DEF Typed
<1>8. Numbered'
  <2>1. \A m, n \in DOMAIN events' : m < n => events'[m].id < events'[n].id
    BY <1>3, <1>4
  <2>2. Read = << >> <=> events' = << >>
    BY <1>3, <1>4
  <2>3. Read # << >> => Len(Read) \in DOMAIN Read /\ Read[Len(Read)].id \in Nat
    <3>1. Read # << >> => Len(Read) \in DOMAIN Read /\ Read[Len(Read)] \in WAL!Entries
      BY <1>4
    <3> QED BY <3>1 DEF WAL!Entries
  <2>4. nextID' - 1 <= eventCount' /\ logClock' = walClock'
    <3>1. CASE Read = << >>
      BY <1>1, <1>2, <2>2, <3>1 DEF LastClock
    <3>2. CASE Read # << >>
      BY <1>1, <1>2, <1>3, <2>2, <2>3, <3>2 DEF LastClock
    <3> QED BY <3>1, <3>2
  <2>5. ~holed' => /\ \A n \in DOMAIN events' : events'[n].id = n
                   /\ eventCount' = Len(events')
    <3>1. ~holed' => \A n \in DOMAIN events' : events'[n].id = n
      BY <1>2
    <3>2. Read = << >> => eventCount' = Len(events')
      BY <1>1, <1>3
    <3>3. ~holed' /\ Read # << >> => eventCount' = Len(events')
      BY <1>1, <1>3, <2>3, <3>1
    <3> QED BY <3>1, <3>2, <3>3
  <2> QED BY <1>1, <1>2, <2>1, <2>4, <2>5 DEF Numbered
<1>9. Mirrored'
  BY <1>1, <1>2, <1>3 DEF Mirrored, SameEvent
<1>10. Secured'
  <2> SUFFICES ASSUME events' # << >>
               PROVE  \E m \in DOMAIN Read : /\ 2 * m <= synced
                                             /\ Read[m].id = events'[Len(events')].id
    BY <1>1 DEF Secured
  <2>1. Len(Read) \in DOMAIN Read /\ 2 * Len(Read) <= synced
    BY <1>1, <1>3, <1>4
  <2> QED BY <1>3, <2>1
<1>11. StateFolded'
  BY <1>2, FoldedWhole
<1>12. Remembered'
  BY <1>1 DEF Remembered
<1> QED BY <1>1, <1>7, <1>8, <1>9, <1>10, <1>11, <1>12

LEMMA CrashInv ==
  ASSUME IInv, Crash
  PROVE  IInv'
<1> USE DEF IInv
<1>1. /\ FileInv' /\ fd' = "down" /\ calls' = calls
      /\ synced = Len(file) => Read' = Read
  BY FileCrash DEF Crash
<1>2. /\ events' = << >> /\ nextID' = 1 /\ logClock' = 0 /\ holed' = FALSE
      /\ data' = State0 /\ clock' = 0
      /\ pending' = None /\ replaying' = None /\ drift' = {} /\ sent' = sent
      /\ before'.data = data
      /\ before'.exact <=> (drift = {} /\ pending = None /\ Loaded(Read) = events)
  BY DEF Crash, Read
<1>3. Typed'
  <2>1. MaxCalls \in Nat /\ calls \in 0..MaxCalls
    BY FileFacts, EventStoreAssumption DEF WAL!WALAssumption
  <2>2. holed' \in BOOLEAN
    BY <1>2, Zenon
  <2>3. << >> \in Seq(LogEntries) /\ data' \in State!Data
    BY <1>2, StateOfNothing
  <2> QED BY <1>1, <1>2, <2>1, <2>2, <2>3 DEF Typed
<1>4. Numbered' /\ Mirrored' /\ Secured'
  BY <1>1, <1>2 DEF Numbered, Mirrored, Secured
<1>5. StateFolded'
  <2>1. Project(<< >>) = State0
    BY FoldedNothing DEF Project
  <2> QED BY <1>2, <2>1, FoldedWhole
<1>6. Remembered'
  <2> SUFFICES ASSUME drift = {}, pending = None, Loaded(Read) = events
               PROVE  data = Project(Loaded(Read)')
    BY <1>2 DEF Remembered
  <2>1. data = Project(events)
    BY DEF StateFolded, Seen
  <2>2. /\ Read \in Seq(WAL!Entries) /\ Len(file) = 2 * Len(Read) /\ synced \in 0..Len(file)
        /\ \A m, n \in DOMAIN Read : m < n => Read[m].id < Read[n].id
    BY FileFacts
  <2>3. /\ Len(events) = Len(Read) /\ DOMAIN events = DOMAIN Read
        /\ \A n \in DOMAIN Read : events[n].id = Read[n].id
    BY LoadedFacts
  <2>4. synced = Len(file)
    <3>1. CASE events = << >>
      BY <2>2, <2>3, <3>1
    <3>2. CASE events # << >>
      <4>1. PICK m \in DOMAIN Read : 2 * m <= synced /\ Read[m].id = events[Len(events)].id
        BY <3>2 DEF Secured
      <4>2. Len(Read) \in DOMAIN Read /\ Read[m].id = Read[Len(Read)].id
            /\ m \in 1..Len(Read) /\ Read[m] \in WAL!Entries
        BY <2>2, <2>3, <4>1
      <4>3. m = Len(Read)
        BY <2>2, <4>2 DEF WAL!Entries
      <4> QED BY <2>2, <4>1, <4>3
    <3> QED BY <3>1, <3>2
  <2>5. Loaded(Read)' = Loaded(Read)
    BY <1>1, <1>2, <2>4 DEF Loaded
  <2> QED BY <2>1, <2>5
<1> QED BY <1>1, <1>3, <1>4, <1>5, <1>6

LEMMA LogEventInv ==
  ASSUME IInv, NEW ev \in Events, LogEvent(ev)
  PROVE  IInv'
<1> USE DEF IInv
<1> DEFINE line == WAL!NextEntry
           entry == [id |-> eventCount + 1, clock |-> logClock + 1, ev |-> ev]
<1>1. /\ FileInv' /\ fd = "open" /\ fd' = "open"
      /\ Read' = Append(Read, line) /\ line \in WAL!Entries
      /\ synced' = 2 * (Len(Read) + 1)
      /\ calls' = calls + 1 /\ calls < MaxCalls
      /\ eventCount' = eventCount + 1 /\ walClock' = walClock + 1
  BY FileAppend DEF LogEvent
<1>2. /\ pending = None /\ sent' = Append(sent, Persisted(ev))
      /\ events' = Append(events, entry)
      /\ nextID' = eventCount + 2 /\ logClock' = logClock + 1 /\ pending' = ev
      /\ UNCHANGED <<holed, stateVars, replaying, drift, before>>
  <2>1. nextID' = eventCount' + 1 /\ eventCount \in Nat
    BY FileFacts DEF LogEvent
  <2> QED BY <1>1, <2>1 DEF LogEvent
<1>3. /\ line.id = eventCount + 1 /\ line.clock = walClock + 1 /\ line.body = calls + 1
  BY DEF WAL!NextEntry
<1>4. /\ Read \in Seq(WAL!Entries) /\ \A n \in DOMAIN Read : Read[n].body \in 1..calls
      /\ eventCount \in Nat /\ walClock \in Nat /\ calls \in 0..MaxCalls /\ MaxCalls \in Nat
      /\ eventCount <= calls /\ walClock <= calls
  BY FileFacts, EventStoreAssumption DEF WAL!WALAssumption
<1>5. logClock = walClock /\ nextID - 1 <= eventCount /\ ev \notin {None}
  BY <1>1, EventStoreAssumption DEF Numbered
<1>6. entry \in LogEntries /\ entry.id = eventCount + 1 /\ entry.clock = logClock + 1
      /\ entry.ev = ev
  BY <1>1, <1>4, <1>5 DEF LogEntries
<1> HIDE DEF line, entry
<1>7. /\ events \in Seq(LogEntries) /\ events' \in Seq(LogEntries)
      /\ Len(events') = Len(events) + 1 /\ events'[Len(events) + 1] = entry
      /\ \A n \in 1..Len(events) : events'[n] = events[n]
      /\ DOMAIN events = 1..Len(events) /\ DOMAIN events' = 1..(Len(events) + 1)
      /\ events' # << >>
  BY <1>2, <1>6 DEF Typed
<1>8. /\ sent' \in Seq(PersistedEvents) /\ Len(sent') = calls'
      /\ sent'[calls + 1] = Persisted(ev)
      /\ \A b \in 1..calls : sent'[b] = sent[b]
  <2>1. Persisted(ev) \in PersistedEvents
    BY DEF PersistedEvents
  <2>2. sent \in Seq(PersistedEvents) /\ Len(sent) = calls
    BY DEF Typed
  <2>3. sent' = Append(sent, Persisted(ev))
    BY <1>2
  <2> QED BY <1>1, <2>1, <2>2, <2>3
<1>9. /\ Len(Read') = Len(Read) + 1 /\ Read'[Len(Read) + 1] = line
      /\ DOMAIN Read = 1..Len(Read) /\ DOMAIN Read' = 1..(Len(Read) + 1)
      /\ \A n \in 1..Len(Read) : Read'[n] = Read[n]
  BY <1>1, <1>4
<1>10. Typed'
  <2>1. nextID' \in 1..(MaxCalls + 1) /\ logClock' \in 0..MaxCalls
    BY <1>1, <1>2, <1>4, <1>5
  <2>2. clock' = clock /\ data' = data /\ replaying' = replaying /\ drift' = drift
        /\ holed' = holed
    BY <1>2 DEF stateVars
  <2>3. clock' <= MaxCalls + calls' /\ clock' < MaxCalls + calls'
    BY <1>1, <1>4, <2>2 DEF Typed
  <2>4. holed' \in BOOLEAN
    BY <2>2, Zenon DEF Typed
  <2> QED BY <1>1, <1>2, <1>7, <1>8, <2>1, <2>2, <2>3, <2>4 DEF Typed
<1>11. Numbered'
  <2>1. \A n \in 1..Len(events) : events[n].id <= eventCount /\ events[n].id \in Nat
    <3> TAKE n \in 1..Len(events)
    <3>1. events[n] \in LogEntries /\ events[Len(events)] \in LogEntries /\ events # << >>
      BY <1>7
    <3>2. events[Len(events)].id = nextID - 1 /\ events[n].id \in Nat
      <4>1. events[n].id \in Nat
        BY <3>1 DEF LogEntries
      <4>2. events[Len(events)].id = nextID - 1
        <5>1. nextID = events[Len(events)].id + 1
          <6>1. nextID = IF events = << >> THEN 1 ELSE events[Len(events)].id + 1
            BY DEF Numbered
          <6> QED BY <3>1, <6>1
        <5>2. events[Len(events)].id \in Nat
          BY <3>1 DEF LogEntries
        <5> QED BY <5>1, <5>2
      <4> QED BY <4>1, <4>2
    <3>3. n = Len(events) \/ events[n].id < events[Len(events)].id
      <4>1. Len(events) \in Nat /\ DOMAIN events = 1..Len(events)
        BY <1>7
      <4>2. \A k, m \in DOMAIN events : k < m => events[k].id < events[m].id
        BY DEF Numbered
      <4>3. n \in Nat /\ n <= Len(events) /\ Len(events) \in DOMAIN events /\ n \in DOMAIN events
        BY <4>1
      <4>4. n < Len(events) \/ n = Len(events)
        <5> DEFINE k == Len(events)
        <5>1. k \in Nat /\ n \in Nat /\ n <= k
          BY <4>1, <4>3
        <5> HIDE DEF k
        <5>2. n < k \/ n = k
          BY <5>1
        <5> QED BY <5>2 DEF k
      <4> QED BY <4>2, <4>3, <4>4
    <3> QED BY <1>4, <1>5, <3>1, <3>2, <3>3 DEF Typed
  <2>2. \A m, n \in DOMAIN events' : m < n => events'[m].id < events'[n].id
    <3> SUFFICES ASSUME NEW m \in DOMAIN events', NEW n \in DOMAIN events', m < n
                 PROVE  events'[m].id < events'[n].id
      OBVIOUS
    <3>1. CASE n = Len(events) + 1
      BY <1>4, <1>6, <1>7, <2>1, <3>1
    <3>2. CASE n # Len(events) + 1
      BY <1>7, <3>2 DEF Numbered
    <3> QED BY <3>1, <3>2
  <2>3. nextID' = events'[Len(events')].id + 1
    BY <1>2, <1>4, <1>6, <1>7
  <2>4. nextID' - 1 <= eventCount' /\ logClock' = walClock'
    BY <1>1, <1>2, <1>4, <1>5
  <2>5. ASSUME ~holed' PROVE /\ \A n \in DOMAIN events' : events'[n].id = n
                             /\ eventCount' = Len(events')
    <3>1. ~holed
      BY <1>2, <2>5
    <3>2. eventCount = Len(events) /\ \A n \in DOMAIN events : events[n].id = n
      BY <1>1, <3>1 DEF Numbered
    <3> QED BY <1>1, <1>6, <1>7, <3>2
  <2> QED BY <1>1, <1>7, <2>2, <2>3, <2>4, <2>5 DEF Numbered
<1>12. Mirrored'
  <2> SUFFICES ASSUME NEW n \in 1..(Len(events) + 1)
               PROVE  \E m \in DOMAIN Read' : /\ Read'[m].id = events'[n].id
                                              /\ Read'[m].clock = events'[n].clock
                                              /\ sent'[Read'[m].body] = Persisted(events'[n].ev)
    BY <1>7 DEF Mirrored, SameEvent
  <2>1. CASE n = Len(events) + 1
    <3>1. Len(Read) + 1 \in DOMAIN Read'
      BY <1>4, <1>9
    <3> QED BY <1>3, <1>5, <1>6, <1>7, <1>8, <1>9, <2>1, <3>1
  <2>2. CASE n # Len(events) + 1
    <3>1. n \in DOMAIN events /\ events'[n] = events[n]
      BY <1>7, <2>2
    <3>2. PICK m \in DOMAIN Read : SameEvent(Read[m], events[n])
      BY <3>1 DEF Mirrored
    <3>3. m \in DOMAIN Read' /\ Read'[m] = Read[m] /\ sent'[Read[m].body] = sent[Read[m].body]
      BY <1>4, <1>8, <1>9, <3>2
    <3> QED BY <3>1, <3>2, <3>3 DEF SameEvent
  <2> QED BY <2>1, <2>2
<1>13. Secured'
  <2>1. Len(Read) + 1 \in DOMAIN Read' /\ 2 * (Len(Read) + 1) <= synced'
    BY <1>1, <1>4, <1>9
  <2>2. Read'[Len(Read) + 1].id = events'[Len(events')].id
    BY <1>3, <1>6, <1>7, <1>9
  <2> QED BY <2>1, <2>2 DEF Secured
<1>14. StateFolded'
  <2>1. Seen' = SubSeq(events', 1, Len(events') - 1)
    BY <1>2, <1>5 DEF Seen
  <2>2. SubSeq(events', 1, Len(events') - 1) = events
    BY <1>7
  <2>3. Seen' = Seen /\ data' = data /\ drift' = drift
    BY <1>2, <2>1, <2>2 DEF Seen, stateVars
  <2>4. events'[Len(events')].ev = pending'
    BY <1>2, <1>6, <1>7
  <2> QED BY <1>7, <2>3, <2>4 DEF StateFolded
<1>15. Remembered'
  BY <1>1 DEF Remembered
<1> QED BY <1>1, <1>10, <1>11, <1>12, <1>13, <1>14, <1>15

LEMMA LogFailsInv ==
  ASSUME IInv, NEW ev \in Events, LogFails(ev)
  PROVE  IInv'
<1> USE DEF IInv
<1> DEFINE line == WAL!NextEntry
<1>1. /\ FileInv' /\ fd' = fd /\ fd # "down"
      /\ \/ Read' = Read
         \/ Read' = Append(Read, line) /\ line \in WAL!Entries
      /\ calls' = calls + 1 /\ calls < MaxCalls
      /\ eventCount' = eventCount + 1 /\ UNCHANGED <<walClock, synced>>
  BY FileAppendFails DEF LogFails
<1> HIDE DEF line
<1>2. /\ sent' = Append(sent, Persisted(ev)) /\ holed' = TRUE /\ pending = None
      /\ UNCHANGED <<events, nextID, logClock, stateVars, pending, replaying, drift, before>>
  BY DEF LogFails
<1>3. /\ Read \in Seq(WAL!Entries) /\ \A n \in DOMAIN Read : Read[n].body \in 1..calls
      /\ eventCount \in Nat /\ calls \in 0..MaxCalls /\ MaxCalls \in Nat
  BY FileFacts, EventStoreAssumption DEF WAL!WALAssumption
<1>4. /\ sent' \in Seq(PersistedEvents) /\ Len(sent') = calls'
      /\ \A b \in 1..calls : sent'[b] = sent[b]
  <2>1. Persisted(ev) \in PersistedEvents
    BY DEF PersistedEvents
  <2> QED BY <1>1, <1>2, <2>1 DEF Typed
<1>5. DOMAIN Read \subseteq DOMAIN Read' /\ \A n \in DOMAIN Read : Read'[n] = Read[n]
  <2>1. CASE Read' = Read
    BY <2>1
  <2>2. CASE Read' = Append(Read, line) /\ line \in WAL!Entries
    BY <1>3, <2>2
  <2> QED BY <1>1, <2>1, <2>2
<1>6. Typed'
  <2>1. holed' \in BOOLEAN
    BY <1>2, Zenon
  <2>2. clock' <= MaxCalls + calls' /\ clock' < MaxCalls + calls'
    BY <1>1, <1>2, <1>3 DEF Typed, stateVars
  <2> QED BY <1>1, <1>2, <1>4, <2>1, <2>2 DEF Typed, stateVars
<1>7. Numbered'
  <2>1. fd' = "open" => nextID' - 1 <= eventCount' /\ logClock' = walClock'
    <3>1. fd = "open" => nextID - 1 <= eventCount /\ logClock = walClock
      BY DEF Numbered
    <3> QED BY <1>1, <1>2, <1>3, <3>1 DEF Typed
  <2> QED BY <1>1, <1>2, <2>1 DEF Numbered
<1>8. Mirrored'
  <2> SUFFICES ASSUME NEW n \in DOMAIN events
               PROVE  \E m \in DOMAIN Read' : /\ Read'[m].id = events[n].id
                                              /\ Read'[m].clock = events[n].clock
                                              /\ sent'[Read'[m].body] = Persisted(events[n].ev)
    BY <1>2 DEF Mirrored, SameEvent
  <2>1. PICK m \in DOMAIN Read : SameEvent(Read[m], events[n])
    BY DEF Mirrored
  <2> QED BY <1>3, <1>4, <1>5, <2>1 DEF SameEvent
<1>9. Secured'
  BY <1>1, <1>2, <1>5 DEF Secured
<1>10. StateFolded'
  BY <1>2 DEF StateFolded, Seen, stateVars
<1>11. Remembered'
  BY <1>1 DEF Remembered
<1> QED BY <1>1, <1>6, <1>7, <1>8, <1>9, <1>10, <1>11

\* Steps that leave the file and the log alone.
LEMMA LogKeptInv ==
  ASSUME IInv, UNCHANGED <<walVars, logVars, before>>, pending' \in {pending, None},
         Typed', StateFolded'
  PROVE  IInv'
<1> USE DEF IInv
<1>1. FileInv' /\ Read' = Read
  BY FileUnchanged
<1>2. Numbered' /\ Mirrored' /\ Secured'
  BY <1>1 DEF walVars, logVars, Numbered, Mirrored, SameEvent, Secured
<1>3. Remembered'
  BY <1>1 DEF walVars, Remembered, Loaded
<1> QED BY <1>1, <1>2, <1>3

LEMMA ApplyLoggedInv ==
  ASSUME IInv, ApplyLogged
  PROVE  IInv'
<1> USE DEF IInv
<1>1. /\ pending # None /\ pending' = None
      /\ UNCHANGED <<walVars, logVars, replaying, before>>
  BY DEF ApplyLogged
<1>2. pending \in Events /\ data \in State!Data /\ events # << >>
      /\ events[Len(events)].ev = pending
  BY <1>1 DEF Typed, StateFolded
<1>3. CASE ~State!Rejects(data, pending)
  <2>1. /\ data' = State!Applied(data, pending) /\ clock' = clock + 1
        /\ drift' = drift \cup (IF data' = State!Replayed(data, pending) THEN {} ELSE {"order"})
    BY <1>3 DEF ApplyLogged
  <2>2. Typed'
    <3>1. data' \in State!Data
      BY <1>2, <1>3, <2>1, RoundStaysState
    <3>2. MaxCalls \in Nat /\ calls \in Nat
      BY FileFacts, EventStoreAssumption DEF WAL!WALAssumption
    <3>3. clock' \in Nat /\ clock' <= MaxCalls + calls
      BY <1>1, <2>1, <3>2 DEF Typed
    <3> QED BY <1>1, <2>1, <3>1, <3>3 DEF Typed, walVars, logVars
  <2>3. StateFolded'
    <3> SUFFICES ASSUME drift' = {} PROVE data' = Project(events)
      BY <1>1 DEF StateFolded, Seen, logVars
    <3> DEFINE earlier == SubSeq(events, 1, Len(events) - 1)
               last == events[Len(events)]
    <3>1. drift = {} /\ data' = State!Replayed(data, pending)
      BY <2>1
    <3>2. data = Project(earlier)
      BY <1>1, <3>1 DEF StateFolded, Seen
    <3>3. earlier \in Seq(LogEntries) /\ last \in LogEntries /\ events = Append(earlier, last)
      BY <1>2 DEF Typed
    <3> HIDE DEF earlier, last
    <3>4. Project(events) = State!Replayed(Project(earlier), last.ev)
      <4>1. Folded(State0, Append(earlier, last)) = State!Replayed(Folded(State0, earlier), last.ev)
        BY <3>3, FoldedAppend
      <4> QED BY <3>3, <4>1 DEF Project
    <3>5. last.ev = pending
      BY <1>2 DEF last
    <3> QED BY <3>1, <3>2, <3>4, <3>5
  <2> QED BY <1>1, <2>2, <2>3, LogKeptInv
<1>4. CASE State!Rejects(data, pending)
  <2>1. drift' = drift \cup {"rejected"} /\ UNCHANGED stateVars
    BY <1>4 DEF ApplyLogged
  <2>2. Typed'
    BY <1>1, <2>1 DEF Typed, walVars, logVars, stateVars
  <2>3. StateFolded'
    BY <1>1, <2>1 DEF StateFolded
  <2> QED BY <1>1, <2>2, <2>3, LogKeptInv
<1> QED BY <1>3, <1>4

LEMMA ReadLogInv ==
  ASSUME IInv, ReadLog
  PROVE  IInv'
<1>1. Typed' /\ StateFolded'
  BY DEF ReadLog, IInv, Typed, StateFolded, Seen, walVars, logVars, stateVars
<1> QED BY <1>1, LogKeptInv DEF ReadLog

\* Replay, and Rewind: the state becomes the fold of some entries.
LEMMA ReconstructInv ==
  ASSUME IInv, NEW log \in Seq(LogEntries), Reconstruct(log),
         UNCHANGED <<walVars, logVars, pending, before>>,
         replaying' \in {replaying, None},
         \/ drift' = {} /\ log = events /\ pending = None
         \/ drift' = {"raced"} \/ drift' = {"rewound"}
  PROVE  IInv'
<1> USE DEF IInv
<1>1. data' = Project(log) /\ clock' = LastClock(log)
  BY DEF Reconstruct
<1>2. data' \in State!Data /\ clock' \in 0..MaxCalls /\ MaxCalls \in Nat /\ calls \in Nat
  BY <1>1, ProjectStaysState, LastClockFacts, FileFacts, EventStoreAssumption DEF WAL!WALAssumption
<1>3. pending # None => calls > 0
  <2> SUFFICES ASSUME pending # None PROVE calls > 0
    OBVIOUS
  <2>1. PICK m \in DOMAIN Read : SameEvent(Read[m], events[Len(events)])
    BY DEF StateFolded, Mirrored, Typed
  <2>2. Read[m].body \in 1..calls
    BY <2>1, FileFacts
  <2> QED BY <1>2, <2>2
<1>4. Typed'
  <2>1. clock' <= MaxCalls + calls /\ (pending # None => clock' < MaxCalls + calls)
    BY <1>2, <1>3
  <2> QED BY <1>2, <2>1 DEF Typed, walVars, logVars
<1>5. StateFolded'
  BY <1>1 DEF StateFolded, Seen, logVars
<1> QED BY <1>4, <1>5, LogKeptInv

LEMMA ReconstructReadInv ==
  ASSUME IInv, ReconstructRead
  PROVE  IInv'
<1>1. replaying \in Seq(LogEntries) /\ Reconstruct(replaying)
  BY DEF ReconstructRead, IInv, Typed
<1> QED BY <1>1, ReconstructInv DEF ReconstructRead

LEMMA RewindInv ==
  ASSUME IInv, NEW k \in 0..Len(events), Rewind(k)
  PROVE  IInv'
<1> DEFINE log == SubSeq(events, 1, k)
<1>1. events \in Seq(LogEntries) /\ log \in Seq(LogEntries)
  BY DEF IInv, Typed
<1>2. k = Len(events) => log = events
  BY <1>1
<1>3. /\ Reconstruct(log) /\ pending = None
      /\ drift' = IF k = Len(events) THEN {} ELSE {"rewound"}
      /\ UNCHANGED <<walVars, logVars, pending, replaying, before>>
  BY DEF Rewind
<1> HIDE DEF log
<1> QED BY <1>1, <1>2, <1>3, ReconstructInv

\* What the calls that wrote the fork's log were given.
LEMMA OldSentFacts ==
  ASSUME NEW old \in OldForks, calls \in Nat, calls + LastID(old) <= MaxCalls
  PROVE  /\ OldSent(old) \in Seq(PersistedEvents) /\ Len(OldSent(old)) = LastID(old)
         /\ \A n \in 1..Len(old) : OldSent(old)[old[n].id] = old[n].ev
<1>1. /\ Len(old) \in Nat /\ DOMAIN old = 1..Len(old) /\ LastID(old) \in Nat
      /\ old = << >> => LastID(old) = 0
      /\ \A n \in 1..Len(old) : old[n].id \in 1..LastID(old) /\ old[n].ev \in PersistedEvents
      /\ \A m, n \in 1..Len(old) : m < n => old[m].id < old[n].id
  BY OldForkFacts DEF LastID
<1>2. \A m, n \in 1..Len(old) : old[m].id = old[n].id => m = n
  BY <1>1
<1> DEFINE P(id, ev) == \A n \in DOMAIN old : old[n].id = id => old[n].ev = ev
<1>3. ASSUME NEW id \in 1..LastID(old)
      PROVE  \E ev \in PersistedEvents : P(id, ev)
  <2>1. CASE \E n \in 1..Len(old) : old[n].id = id
    <3>1. PICK n \in 1..Len(old) : old[n].id = id
      BY <2>1
    <3>2. P(id, old[n].ev)
      BY <1>1, <1>2, <3>1
    <3> QED BY <1>1, <3>2
  <2>2. CASE ~\E n \in 1..Len(old) : old[n].id = id
    <3>1. old # << >>
      BY <1>1
    <3>2. Len(old) \in 1..Len(old)
      BY <1>1, <3>1, EventStoreAssumption DEF OldLog
    <3>3. P(id, old[Len(old)].ev)
      BY <1>1, <2>2
    <3> QED BY <1>1, <3>2, <3>3
  <2> QED BY <2>1, <2>2
<1>4. \A id \in 1..LastID(old) : /\ OldSent(old)[id] \in PersistedEvents
                                 /\ P(id, OldSent(old)[id])
  <2> TAKE id \in 1..LastID(old)
  <2>1. OldSent(old)[id] = CHOOSE ev \in PersistedEvents : P(id, ev)
    BY DEF OldSent
  <2> HIDE DEF P
  <2> QED BY <1>3, <2>1
<1>5. OldSent(old) \in Seq(PersistedEvents) /\ Len(OldSent(old)) = LastID(old)
  <2>1. OldSent(old) = [id \in 1..LastID(old) |-> OldSent(old)[id]]
    BY DEF OldSent
  <2> HIDE DEF P
  <2> QED BY <1>1, <1>4, <2>1
<1>6. \A n \in 1..Len(old) : OldSent(old)[old[n].id] = old[n].ev
  BY <1>1, <1>4
<1> QED BY <1>5, <1>6

LEMMA Joined ==
  \A s, t \in Seq(PersistedEvents) :
    /\ s \o t \in Seq(PersistedEvents) /\ Len(s \o t) = Len(s) + Len(t)
    /\ \A i \in 1..Len(t) : (s \o t)[Len(s) + i] = t[i]
<1> DEFINE E == PersistedEvents
<1> HIDE DEF E
<1>1. \A s, t \in Seq(E) : /\ s \o t \in Seq(E) /\ Len(s \o t) = Len(s) + Len(t)
                           /\ \A i \in 1..Len(t) : (s \o t)[Len(s) + i] = t[i]
  OBVIOUS
<1> QED BY <1>1 DEF E

LEMMA ForkInv ==
  ASSUME IInv, NEW old \in OldForks, Fork(old)
  PROVE  IInv'
<1> USE DEF IInv
<1>0. calls \in Nat /\ MaxCalls \in Nat /\ calls + LastID(old) <= MaxCalls
  BY FileFacts, EventStoreAssumption DEF Fork, WAL!WALAssumption
<1>1. /\ FileInv' /\ fd' = "open" /\ calls' = calls + LastID(old)
      /\ DOMAIN Read' = 1..Len(old) /\ synced' = 2 * Len(old)
      /\ \A n \in 1..Len(old) : /\ Read'[n].id = old[n].id /\ Read'[n].clock = old[n].clock
                                /\ Read'[n].body = calls + old[n].id
  BY FileForked
<1>2. /\ eventCount' = LastID(old) /\ walClock' = LastClock(old)
      /\ events' = old /\ nextID' = LastID(old) + 1 /\ logClock' = LastClock(old)
      /\ holed' = (\E n \in DOMAIN old : old[n].id # n)
      /\ pending' = None /\ replaying' = None
      /\ drift' = IF data = Project(old) THEN {} ELSE {"forked"}
      /\ sent' = sent \o OldSent(old)
      /\ UNCHANGED <<stateVars, before>>
  BY DEF Fork
<1>3. /\ Len(old) \in Nat /\ DOMAIN old = 1..Len(old) /\ old \in Seq(LogEntries)
      /\ LastID(old) \in Nat /\ LastClock(old) \in Nat /\ LastClock(old) <= LastID(old)
      /\ old = << >> => LastID(old) = 0 /\ Len(old) = 0
      /\ old # << >> => LastID(old) = old[Len(old)].id /\ Len(old) \in 1..Len(old)
  BY <1>0, OldForkFacts DEF LastID
<1>4. \A n \in 1..Len(old) :
        /\ old[n].id \in 1..LastID(old) /\ old[n].ev \in PersistedEvents
        /\ \A m \in 1..Len(old) : m < n => old[m].id < old[n].id
  BY <1>0, OldForkFacts
<1>5. /\ OldSent(old) \in Seq(PersistedEvents) /\ Len(OldSent(old)) = LastID(old)
      /\ \A n \in 1..Len(old) : OldSent(old)[old[n].id] = old[n].ev
  BY <1>0, OldSentFacts
<1>6. /\ sent \in Seq(PersistedEvents) /\ Len(sent) = calls
  BY DEF Typed
<1>7. /\ sent' \in Seq(PersistedEvents) /\ Len(sent') = calls'
      /\ \A id \in 1..LastID(old) : sent'[calls + id] = OldSent(old)[id]
  <2>1. /\ sent \o OldSent(old) \in Seq(PersistedEvents)
        /\ Len(sent \o OldSent(old)) = Len(sent) + Len(OldSent(old))
        /\ \A id \in 1..Len(OldSent(old)) : (sent \o OldSent(old))[Len(sent) + id] = OldSent(old)[id]
    BY <1>5, <1>6, Joined
  <2> QED BY <1>1, <1>2, <1>5, <1>6, <2>1
<1>8. Typed'
  <2>1. holed' \in BOOLEAN
    BY <1>2, Zenon
  <2>2. /\ nextID' \in 1..(MaxCalls + 1) /\ logClock' \in 0..MaxCalls
        /\ clock' \in Nat /\ clock' <= MaxCalls + calls'
    <3>1. clock \in Nat /\ clock <= MaxCalls + calls /\ clock' = clock
      BY <1>2 DEF Typed, stateVars
    <3> HIDE DEF IInv
    <3> QED BY <1>0, <1>1, <1>2, <1>3, <3>1
  <2>3. drift' \subseteq {"rejected", "order", "raced", "rewound", "forked"}
    BY <1>2
  <2> QED BY <1>1, <1>2, <1>3, <1>7, <2>1, <2>2, <2>3 DEF Typed, stateVars
<1>9. Numbered'
  <2>1. ~holed' => \A n \in DOMAIN events' : events'[n].id = n
    BY <1>2
  <2>2. ~holed' => eventCount' = Len(events')
    BY <1>2, <1>3, <2>1
  <2>3. nextID' = IF events' = << >> THEN 1 ELSE events'[Len(events')].id + 1
    BY <1>2, <1>3
  <2>4. nextID' - 1 <= eventCount' /\ logClock' = walClock'
    BY <1>2, <1>3
  <2> QED BY <1>1, <1>2, <1>3, <1>4, <2>1, <2>2, <2>3, <2>4 DEF Numbered
<1>10. Mirrored'
  <2> SUFFICES ASSUME NEW n \in 1..Len(old)
               PROVE  /\ Read'[n].id = old[n].id /\ Read'[n].clock = old[n].clock
                      /\ sent'[Read'[n].body] = Persisted(old[n].ev)
    BY <1>1, <1>2, <1>3 DEF Mirrored, SameEvent
  <2>1. sent'[Read'[n].body] = old[n].ev
    BY <1>1, <1>4, <1>5, <1>7
  <2>2. Persisted(old[n].ev) = old[n].ev
    BY <1>4, PersistedFacts DEF PersistedEvents
  <2> QED BY <1>1, <2>1, <2>2
<1>11. Secured'
  <2> SUFFICES ASSUME events' # << >>
               PROVE  \E m \in DOMAIN Read' : /\ 2 * m <= synced'
                                              /\ Read'[m].id = events'[Len(events')].id
    BY DEF Secured
  <2>1. Len(old) \in DOMAIN Read' /\ 2 * Len(old) <= synced'
    BY <1>1, <1>2, <1>3
  <2>2. Read'[Len(old)].id = events'[Len(events')].id
    BY <1>1, <1>2, <2>1
  <2> QED BY <2>1, <2>2
<1>12. StateFolded'
  <2>1. Seen' = old
    BY <1>2 DEF Seen
  <2>2. drift' = {} => data' = Project(old)
    BY <1>2 DEF stateVars
  <2> QED BY <1>2, <2>1, <2>2 DEF StateFolded
<1>13. Remembered'
  BY <1>1 DEF Remembered
<1> QED BY <1>1, <1>8, <1>9, <1>10, <1>11, <1>12, <1>13

LEMMA NextInv == IInv /\ [Next]_vars => IInv'
<1> SUFFICES ASSUME IInv, [Next]_vars PROVE IInv'
  OBVIOUS
<1>1. CASE Boot
  BY <1>1, BootInv
<1>2. CASE Crash
  BY <1>2, CrashInv
<1>3. ASSUME NEW ev \in Events, LogEvent(ev) PROVE IInv'
  BY <1>3, LogEventInv
<1>4. ASSUME NEW ev \in Events, LogFails(ev) PROVE IInv'
  BY <1>4, LogFailsInv
<1>5. CASE ApplyLogged
  BY <1>5, ApplyLoggedInv
<1>6. CASE ReadLog
  BY <1>6, ReadLogInv
<1>7. CASE ReconstructRead
  BY <1>7, ReconstructReadInv
<1>8. ASSUME NEW k \in 0..Len(events), Rewind(k) PROVE IInv'
  BY <1>8, RewindInv
<1>9. ASSUME NEW old \in OldForks, Fork(old) PROVE IInv'
  BY <1>9, ForkInv
<1>10. CASE UNCHANGED vars
  <2>1. Typed' /\ StateFolded'
    BY <1>10 DEF vars, walVars, logVars, stateVars, IInv, Typed, StateFolded, Seen
  <2> QED BY <1>10, <2>1, LogKeptInv DEF vars
<1> QED BY <1>1, <1>2, <1>3, <1>4, <1>5, <1>6, <1>7, <1>8, <1>9, <1>10 DEF Next

LEMMA InvHolds == Spec => []IInv
  BY InitInv, NextInv, PTL DEF Spec
-----------------------------------------------------------------------------
\* runtime/event_log.go, runtime/state_manager.go: the log in memory holds numbered events, the
\* state assigns a value to every path, and the counters stay within the calls that were made.
THEOREM TypeCorrect == Spec => []TypeOK
<1>1. IInv => TypeOK
  <2> SUFFICES ASSUME IInv PROVE TypeOK
    OBVIOUS
  <2>1. WAL!TypeOK /\ calls \in 0..MaxCalls /\ MaxCalls \in Nat
    BY FileFacts, EventStoreAssumption DEF IInv, WAL!WALAssumption
  <2>2. clock \in 0..(2 * MaxCalls)
    BY <2>1 DEF IInv, Typed
  <2> QED BY <2>1, <2>2 DEF IInv, Typed, TypeOK
<1> QED BY <1>1, InvHolds, PTL

\* kernel.go:341-413,568-582, state_manager.go:341-377: with no event between log and state, and
\* none of the named reasons, the state is the fold of the log: after any events, failures,
\* crashes, replays, rewinds and forks, for any mutators and policies.
THEOREM ProjectionCorrect == Spec => []CleanProjection
<1>1. IInv => CleanProjection
  BY DEF IInv, StateFolded, Seen, CleanProjection
<1> QED BY <1>1, InvHolds, PTL

\* event_log.go:94-127: the event log and the write-ahead log agree on every event's identifier,
\* clock and contents, for any number of failed appends, crashes and forks.
THEOREM LogMirrorsWALCorrect == Spec => []LogMirrorsWAL
<1>1. IInv => LogMirrorsWAL
  BY DEF IInv, Mirrored, SameEvent, Read, LogMirrorsWAL
<1> QED BY <1>1, InvHolds, PTL

\* event_log.go:129-177: identifiers grow along the log up to its length, and as long as no append
\* has failed Get returns exactly the event it was asked for.
THEOREM ReadsExactCorrect == Spec => []ReadsExact
<1>1. IInv => ReadsExact
  <2> SUFFICES ASSUME IInv PROVE ReadsExact
    OBVIOUS
  <2> USE DEF IInv
  <2>1. /\ events \in Seq(LogEntries) /\ DOMAIN events = 1..Len(events) /\ Len(events) \in Nat
        /\ nextID \in Nat /\ \A n \in 1..Len(events) : events[n] \in LogEntries
    BY EventStoreAssumption DEF Typed, WAL!WALAssumption
  <2>2. \A m, n \in DOMAIN events : m < n => events[m].id < events[n].id
    BY DEF Numbered
  <2>3. events # << >> => events[Len(events)].id = Length
    <3>1. events # << >> => events[Len(events)].id \in Nat
      BY <2>1 DEF LogEntries
    <3> QED BY <3>1 DEF Numbered, Length
  <2>4. ASSUME ~holed, NEW id \in 0..MaxCalls
        PROVE  IF Accepted(id) THEN Get(id) # None /\ Get(id).id = id ELSE id \notin DOMAIN events
    <3>1. \A n \in DOMAIN events : events[n].id = n
      BY <2>4 DEF Numbered
    <3>2. Length = Len(events)
      <4>1. CASE events = << >>
        BY <2>1, <4>1 DEF Numbered, Length
      <4>2. CASE events # << >>
        BY <2>1, <2>3, <3>1, <4>2
      <4> QED BY <4>1, <4>2
    <3>3. CASE Accepted(id)
      <4>1. id \in DOMAIN events
        BY <2>1, <3>2, <3>3 DEF Accepted
      <4>2. Get(id) = events[id] /\ events[id] \in LogEntries /\ events[id].id = id
        BY <2>1, <3>1, <4>1 DEF Get
      <4> QED BY <3>3, <4>2, EventStoreAssumption
    <3>4. CASE ~Accepted(id)
      BY <2>1, <3>2, <3>4 DEF Accepted
    <3> QED BY <3>3, <3>4
  <2> QED BY <2>2, <2>3, <2>4 DEF ReadsExact
<1> QED BY <1>1, InvHolds, PTL

\* kernel.go:395-413: a process that died with its state folded, and with a log that is exactly
\* what the file gives back, comes back with the same state, though the crash took whatever
\* had not reached the disk.
THEOREM DeclarativeRestartCorrect == Spec => DeclarativeRestart
<1>1. ASSUME IInv, [Next]_vars, Restart, before.exact
      PROVE  data' = before.data
  <2>1. Boot
    BY <1>1 DEF Restart, Next, Crash, LogEvent, LogFails, ApplyLogged, ReadLog, ReconstructRead,
       Rewind, Fork, vars, walVars, WAL!AppendEvent, WAL!WriteFails, WAL!SyncFails, WAL!Crash
  <2>2. data' = Project(Loaded(Read))
    BY <2>1 DEF Boot, Reconstruct, Read
  <2>3. before.data = Project(Loaded(Read))
    BY <1>1 DEF IInv, Remembered, Restart
  <2> QED BY <2>2, <2>3
<1>2. IInv /\ [Next]_vars => [Restart /\ before.exact => data' = before.data]_vars
  BY <1>1
<1> QED BY <1>2, InvHolds, PTL DEF Spec, DeclarativeRestart
=============================================================================

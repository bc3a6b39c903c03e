------------------------ MODULE WriteAheadLog_proofs ------------------------
(***************************************************************************)
(* An acknowledged event survives, and the file is replayed in the order   *)
(* of its identifiers, for any number of calls and failures.               *)
(*                                                                         *)
(* AckedOnDisk alone says nothing of where else an entry may stand; that   *)
(* no two entries have the same body, as each call writes its own, does.   *)
(* ReplaySound speaks of the lines that are read now, and a crash can make *)
(* others readable, by taking what was glued to them: so the invariant     *)
(* orders every entry that is or can become readable.  An entry behind an  *)
(* unfinished one never can, and its identifier may be given out again.    *)
(***************************************************************************)
EXTENDS WriteAheadLog, FiniteSetTheorems, TLAPS

Chunks == Entries \cup {Torn, TooLong, Newline}

\* The entry at i is read, or will be after some crash.
MayBeRead(i) ==
  /\ file[i] \in Entries /\ AtLineStart(file, i)
  /\ AtLineEnd(file, i) \/ i >= synced

BodiesIncrease ==
  /\ \A i, j \in DOMAIN file :
       file[i] \in Entries /\ file[j] \in Entries /\ i < j => file[i].body < file[j].body
  /\ \A i \in DOMAIN file : file[i] \in Entries =>
       /\ file[i].id <= file[i].body /\ file[i].clock <= file[i].body
       /\ file[i].body <= calls

PositionSound ==
  /\ fd = "down" => synced = Len(file) /\ eventCount = 0 /\ clock = 0
  /\ eventCount <= calls /\ clock <= calls

InOrder ==
  ~renumbered =>
    /\ \A i, j \in DOMAIN file : MayBeRead(i) /\ MayBeRead(j) /\ i < j =>
         file[i].id < file[j].id /\ file[i].clock <= file[j].clock
    /\ fd # "down" => \A i \in DOMAIN file : MayBeRead(i) =>
                        file[i].id <= eventCount /\ file[i].clock <= clock + 1

IInv == TypeOK /\ PositionSound /\ BodiesIncrease /\ AckedOnDisk /\ InOrder

-----------------------------------------------------------------------------
(* What the scan of a file returns. *)

LEMMA PositionsFinite ==
  ASSUME NEW f \in Seq(Chunks)
  PROVE  /\ DOMAIN f = 1..Len(f) /\ Len(f) \in Nat
         /\ Positions(f) \subseteq 1..Len(f) /\ IsFiniteSet(Positions(f))
         /\ Cardinality(Positions(f)) \in Nat
<1>1. DOMAIN f = 1..Len(f) /\ Len(f) \in Nat /\ Positions(f) \in SUBSET (1..Len(f))
  BY DEF Positions
<1>2. IsFiniteSet(1..Len(f))
  BY <1>1, FS_Interval
<1>3. IsFiniteSet(Positions(f))
  BY <1>1, <1>2, FS_Subset
<1> QED BY <1>1, <1>3, FS_CardinalityType

LEMMA RankIncreases ==
  ASSUME NEW f \in Seq(Chunks)
  PROVE  /\ \A i \in Positions(f) : Rank(f, i) \in 1..Cardinality(Positions(f))
         /\ \A i, j \in Positions(f) : i < j => Rank(f, i) < Rank(f, j)
<1> DEFINE upTo(i) == {j \in Positions(f) : j <= i}
<1> HIDE DEF upTo
<1>1. ASSUME NEW i \in Positions(f)
      PROVE  /\ IsFiniteSet(upTo(i)) /\ Rank(f, i) = Cardinality(upTo(i))
             /\ Rank(f, i) \in 1..Cardinality(Positions(f)) /\ Rank(f, i) \in Nat
  <2>1. upTo(i) \in SUBSET Positions(f) /\ i \in upTo(i)
    BY PositionsFinite DEF upTo
  <2>2. IsFiniteSet(upTo(i)) /\ Cardinality(upTo(i)) <= Cardinality(Positions(f))
    BY <2>1, PositionsFinite, FS_Subset
  <2>3. Cardinality(upTo(i)) \in Nat /\ Cardinality(upTo(i)) # 0
    BY <2>1, <2>2, FS_EmptySet, FS_CardinalityType
  <2>4. Rank(f, i) = Cardinality(upTo(i))
    BY DEF Rank, upTo
  <2> QED BY <2>2, <2>3, <2>4, PositionsFinite
<1>2. ASSUME NEW i \in Positions(f), NEW j \in Positions(f), i < j
      PROVE  Rank(f, i) < Rank(f, j)
  <2>1. j \notin upTo(i) /\ upTo(i) \cup {j} \in SUBSET upTo(j)
    BY <1>2, PositionsFinite DEF upTo
  <2>2. Cardinality(upTo(i) \cup {j}) = Cardinality(upTo(i)) + 1
    BY <1>1, <2>1, FS_AddElement
  <2>3. Cardinality(upTo(i) \cup {j}) <= Cardinality(upTo(j))
    BY <1>1, <2>1, FS_Subset
  <2>4. Rank(f, i) = Cardinality(upTo(i)) /\ Rank(f, j) = Cardinality(upTo(j))
    BY <1>1
  <2>5. Rank(f, i) \in Nat /\ Rank(f, j) \in Nat
    BY <1>1
  <2> QED BY <2>2, <2>3, <2>4, <2>5
<1> QED BY <1>1, <1>2

\* At enumerates the positions of the lines that are read, in file order.
LEMMA AtEnumerates ==
  ASSUME NEW f \in Seq(Chunks)
  PROVE  /\ \A n \in 1..Cardinality(Positions(f)) :
              At(f, n) \in Positions(f) /\ Rank(f, At(f, n)) = n
         /\ \A m, n \in 1..Cardinality(Positions(f)) : m < n => At(f, m) < At(f, n)
         /\ \A i \in Positions(f) : At(f, Rank(f, i)) = i
<1> DEFINE size == Cardinality(Positions(f))
           rank == [i \in Positions(f) |-> Rank(f, i)]
<1>1. \A i, j \in Positions(f) : Rank(f, i) = Rank(f, j) => i = j
  BY RankIncreases, PositionsFinite
<1>2. rank \in Injection(Positions(f), 1..size)
  BY <1>1, RankIncreases DEF Injection, IsInjective
<1>3. IsFiniteSet(1..size) /\ Cardinality(1..size) = size
  BY PositionsFinite, FS_Interval
<1>4. rank \in Surjection(Positions(f), 1..size)
  BY <1>2, <1>3, FS_Injection
<1>5. \A n \in 1..size : \E i \in Positions(f) : Rank(f, i) = n
  BY <1>4 DEF Surjection
<1>6. \A n \in 1..size : At(f, n) \in Positions(f) /\ Rank(f, At(f, n)) = n
  BY <1>5 DEF At
<1>7. ASSUME NEW m \in 1..size, NEW n \in 1..size, m < n PROVE At(f, m) < At(f, n)
  BY <1>6, <1>7, RankIncreases, PositionsFinite
<1>8. \A i \in Positions(f) : At(f, Rank(f, i)) = i
  BY <1>1, <1>6, RankIncreases
<1> QED BY <1>6, <1>7, <1>8

LEMMA LinesFacts ==
  ASSUME NEW f \in Seq(Chunks)
  PROVE  /\ Lines(f) \in Seq(Entries) /\ Len(Lines(f)) = Cardinality(Positions(f))
         /\ DOMAIN Lines(f) = 1..Len(Lines(f))
         /\ \A n \in 1..Len(Lines(f)) : /\ Lines(f)[n] = f[At(f, n)]
                                        /\ At(f, n) \in Positions(f)
         /\ \A m, n \in 1..Len(Lines(f)) : m < n => At(f, m) < At(f, n)
         /\ \A i \in Positions(f) : \E n \in 1..Len(Lines(f)) : At(f, n) = i
<1>1. \A n \in 1..Cardinality(Positions(f)) : f[At(f, n)] \in Entries
  BY AtEnumerates DEF Positions, Readable
<1>2. /\ Lines(f) \in Seq(Entries) /\ Len(Lines(f)) = Cardinality(Positions(f))
      /\ DOMAIN Lines(f) = 1..Len(Lines(f))
      /\ \A n \in 1..Len(Lines(f)) : Lines(f)[n] = f[At(f, n)]
  BY <1>1, PositionsFinite DEF Lines
<1> QED BY <1>2, AtEnumerates, RankIncreases

LEMMA ReplayFacts ==
  ASSUME NEW f \in Seq(Chunks)
  PROVE  /\ Replay(f) \in Seq(Entries)
         /\ Replay(f) # << >> => Replay(f) = Lines(f)
  BY LinesFacts DEF Replay

-----------------------------------------------------------------------------
(* The invariant. *)

LEMMA InitInv == Init => IInv
<1> SUFFICES ASSUME Init PROVE IInv
  OBVIOUS
<1>1. file = << >> /\ DOMAIN file = {} /\ Len(file) = 0 /\ acked = {} /\ MaxCalls \in Nat
  BY WALAssumption DEF Init
<1>2. TypeOK
  <2>1. << >> \in Seq(Entries \cup {Torn, TooLong, Newline})
    OBVIOUS
  <2>2. file \in Seq(Entries \cup {Torn, TooLong, Newline})
    BY <1>1, <2>1
  <2>3. /\ synced \in 0..Len(file) /\ fd \in {"open", "closed", "down"}
        /\ eventCount \in Nat /\ clock \in Nat /\ calls \in 0..MaxCalls
        /\ acked \subseteq Entries
    BY <1>1 DEF Init
  <2>4. renumbered \in BOOLEAN
    BY Zenon DEF Init
  <2> QED BY <2>2, <2>3, <2>4 DEF TypeOK
<1>3. PositionSound /\ BodiesIncrease /\ AckedOnDisk /\ InOrder
  BY <1>1 DEF Init, PositionSound, BodiesIncrease, AckedOnDisk, InOrder
<1> QED BY <1>2, <1>3 DEF IInv

LEMMA NextEntryType ==
  ASSUME IInv, CallAppend
  PROVE  /\ NextEntry \in Entries /\ NextEntry \notin {Torn, TooLong, Newline}
         /\ NextEntry.id = eventCount + 1 /\ NextEntry.clock = clock + 1
         /\ NextEntry.body = calls + 1
         /\ calls' = calls + 1 /\ calls' \in 0..MaxCalls /\ eventCount' = eventCount + 1
         /\ fd # "down"
<1>1. /\ calls \in Nat /\ calls < MaxCalls /\ MaxCalls \in Nat
      /\ eventCount \in Nat /\ clock \in Nat /\ eventCount <= calls /\ clock <= calls
  BY WALAssumption DEF IInv, TypeOK, PositionSound, CallAppend
<1>2. NextEntry \in Entries
  BY <1>1 DEF NextEntry, Entries
<1> QED BY <1>1, <1>2, WALAssumption DEF NextEntry, CallAppend

\* Something is put behind the file: nothing, a part of the entry, or more; and the next
\* entry is the only one it can hold, at its beginning.
Extended ==
  /\ file' \in Seq(Chunks) /\ Len(file) <= Len(file')
  /\ \A i \in 1..Len(file) : file'[i] = file[i]
  /\ \A i \in (Len(file) + 1)..Len(file') :
       /\ file'[i] \in Entries => i = Len(file) + 1 /\ file'[i] = NextEntry
       /\ i = Len(file) + 1 => file'[i] # Newline

Unanswered == UNCHANGED <<synced, clock, acked>>

Answered ==
  /\ Len(file') = Len(file) + 2
  /\ file'[Len(file) + 1] = NextEntry /\ file'[Len(file) + 2] = Newline
  /\ synced' = Len(file') /\ clock' = NextEntry.clock
  /\ acked' = acked \cup {NextEntry}

LEMMA ExtendedInv ==
  ASSUME IInv, CallAppend, UNCHANGED <<fd, renumbered>>, Extended, Unanswered \/ Answered
  PROVE  IInv'
<1>1. /\ file \in Seq(Chunks) /\ file' \in Seq(Chunks) /\ Newline \notin Entries
      /\ Len(file) \in Nat /\ Len(file') \in Nat /\ Len(file) <= Len(file')
      /\ DOMAIN file = 1..Len(file) /\ DOMAIN file' = 1..Len(file')
      /\ synced \in 0..Len(file) /\ synced' \in 0..Len(file') /\ synced <= synced'
  BY WALAssumption DEF IInv, TypeOK, Chunks, Extended, Unanswered, Answered
<1>0. /\ Len(file) \in Nat /\ Len(file') \in Nat /\ synced \in Nat /\ synced' \in Nat
      /\ synced <= Len(file) /\ synced' <= Len(file') /\ synced <= synced'
  BY <1>1
<1>2. \A i \in 1..Len(file) : file'[i] = file[i]
  BY DEF Extended
<1>3. \A i \in (Len(file) + 1)..Len(file') :
        /\ file'[i] \in Entries => i = Len(file) + 1 /\ file'[i] = NextEntry
        /\ i = Len(file) + 1 => file'[i] # Newline
  BY DEF Extended
<1>4. /\ NextEntry \in Entries /\ NextEntry.id = eventCount + 1
      /\ NextEntry.clock = clock + 1 /\ NextEntry.body = calls + 1
      /\ calls' = calls + 1 /\ calls' \in 0..MaxCalls /\ eventCount' = eventCount + 1
      /\ fd # "down"
  BY NextEntryType
<1>5. /\ calls \in Nat /\ eventCount \in Nat /\ clock \in Nat /\ clock' \in Nat
      /\ eventCount <= calls /\ clock <= calls /\ clock' <= calls' /\ clock <= clock'
      /\ acked' \subseteq Entries
  BY <1>4 DEF IInv, TypeOK, PositionSound, Unanswered, Answered
<1>6. TypeOK'
  BY <1>1, <1>4, <1>5 DEF IInv, TypeOK, Chunks
<1>7. PositionSound'
  BY <1>4, <1>5 DEF PositionSound
<1>8. \A e \in Entries : e.id \in Nat /\ e.clock \in Nat /\ e.body \in Nat
  BY WALAssumption DEF Entries
<1>9. BodiesIncrease'
  <2>1. ASSUME NEW i \in 1..Len(file'), file'[i] \in Entries
        PROVE  /\ file'[i].id <= file'[i].body /\ file'[i].clock <= file'[i].body
               /\ file'[i].body <= calls + 1
               /\ i \in 1..Len(file) => file'[i].body <= calls
               /\ i \notin 1..Len(file) => i = Len(file) + 1 /\ file'[i].body = calls + 1
    <3>1. CASE i \in 1..Len(file)
      BY <1>1, <1>2, <1>5, <1>8, <2>1, <3>1 DEF IInv, BodiesIncrease
    <3>2. CASE i \notin 1..Len(file)
      <4>1. i \in (Len(file) + 1)..Len(file')
        BY <1>0, <2>1, <3>2
      <4>2. i = Len(file) + 1 /\ file'[i] = NextEntry
        BY <1>3, <2>1, <4>1
      <4> QED BY <1>4, <1>5, <3>2, <4>2
    <3> QED BY <3>1, <3>2
  <2>2. ASSUME NEW i \in 1..Len(file'), NEW j \in 1..Len(file'), i < j,
               file'[i] \in Entries, file'[j] \in Entries
        PROVE  file'[i].body < file'[j].body
    <3>1. i \in 1..Len(file)
      BY <1>1, <2>1, <2>2
    <3>2. CASE j \in 1..Len(file)
      BY <1>1, <1>2, <2>2, <3>1, <3>2 DEF IInv, BodiesIncrease
    <3>3. CASE j \notin 1..Len(file)
      BY <1>5, <1>8, <2>1, <2>2, <3>1, <3>3
    <3> QED BY <3>2, <3>3
  <2> QED BY <1>1, <1>4, <2>1, <2>2 DEF BodiesIncrease
<1>10. AckedOnDisk'
  <2>1. ASSUME NEW e \in acked
        PROVE  \E i \in DOMAIN file' : i < synced' /\ file'[i] = e /\ file'[i + 1] = Newline
    <3>1. PICK i \in DOMAIN file : i < synced /\ file[i] = e /\ file[i + 1] = Newline
      BY DEF IInv, AckedOnDisk
    <3>2. i \in 1..Len(file) /\ i + 1 \in 1..Len(file) /\ i \in DOMAIN file' /\ i < synced'
      BY <1>1, <3>1
    <3> QED BY <1>2, <3>1, <3>2
  <2>2. CASE Unanswered
    BY <2>1, <2>2 DEF AckedOnDisk, Unanswered
  <2>3. CASE Answered
    <3>1. Len(file) + 1 \in DOMAIN file' /\ Len(file) + 1 < synced'
      BY <1>1, <2>3 DEF Answered
    <3> QED BY <1>1, <2>1, <2>3, <3>1 DEF AckedOnDisk, Answered
  <2> QED BY <2>2, <2>3
<1>11. InOrder'
  <2> SUFFICES ASSUME ~renumbered PROVE InOrder'
    BY DEF InOrder
  <2>1. ASSUME NEW i \in 1..Len(file), MayBeRead(i)'
        PROVE  MayBeRead(i)
    <3>1. file[i] \in Entries /\ AtLineStart(file, i)
      BY <1>1, <1>2, <2>1 DEF MayBeRead, AtLineStart
    <3>2. AtLineEnd(file, i) \/ i >= synced
      <4>1. CASE i = Len(file)
        BY <4>1 DEF AtLineEnd
      <4>2. CASE i # Len(file) /\ i >= synced'
        BY <1>0, <4>2
      <4>3. CASE i # Len(file) /\ AtLineEnd(file', i)
        BY <1>0, <1>2, <4>3 DEF AtLineEnd
      <4> QED BY <2>1, <4>1, <4>2, <4>3 DEF MayBeRead
    <3> QED BY <3>1, <3>2 DEF MayBeRead
  <2>2. ASSUME NEW i \in 1..Len(file'), MayBeRead(i)'
        PROVE  /\ file'[i].id <= eventCount' /\ file'[i].clock <= clock' + 1
               /\ i \in 1..Len(file) =>
                    file'[i].id <= eventCount /\ file'[i].clock <= clock + 1
               /\ i \notin 1..Len(file) =>
                    i = Len(file) + 1 /\ file'[i] = NextEntry
    <3>1. file'[i] \in Entries
      BY <2>2 DEF MayBeRead
    <3>2. CASE i \in 1..Len(file)
      <4>1. file[i].id <= eventCount /\ file[i].clock <= clock + 1
        BY <1>1, <1>4, <2>1, <2>2, <3>2 DEF IInv, InOrder
      <4>2. file'[i] = file[i] /\ file[i].id \in Nat /\ file[i].clock \in Nat
        BY <1>2, <1>8, <3>1, <3>2
      <4>3. file[i].id <= eventCount' /\ file[i].clock <= clock' + 1
        BY <1>4, <1>5, <4>1, <4>2
      <4> QED BY <3>2, <4>1, <4>2, <4>3
    <3>3. CASE i \notin 1..Len(file)
      <4>1. i \in (Len(file) + 1)..Len(file')
        BY <1>0, <2>2, <3>3
      <4>2. i = Len(file) + 1 /\ file'[i] = NextEntry
        BY <1>3, <3>1, <4>1
      <4>3. NextEntry.id <= eventCount'
        <5>1. /\ NextEntry.id = eventCount + 1 /\ eventCount' = eventCount + 1
              /\ eventCount \in Nat
          BY <1>4, <1>5
        <5>2. eventCount + 1 <= eventCount + 1
          BY <5>1
        <5> QED BY <5>1, <5>2
      <4>4. NextEntry.clock <= clock' + 1
        <5>1. NextEntry.clock = clock + 1 /\ clock <= clock' /\ clock \in Nat /\ clock' \in Nat
          BY <1>4, <1>5
        <5>2. \A x, y \in Nat : x <= y => x + 1 <= y + 1
          OBVIOUS
        <5>3. clock + 1 <= clock' + 1
          BY <5>1, <5>2
        <5> QED BY <5>1, <5>3
      <4> QED BY <3>3, <4>2, <4>3, <4>4
    <3> QED BY <3>2, <3>3
  <2>3. ASSUME NEW i \in 1..Len(file'), NEW j \in 1..Len(file'), i < j,
               MayBeRead(i)', MayBeRead(j)'
        PROVE  file'[i].id < file'[j].id /\ file'[i].clock <= file'[j].clock
    <3>1. i \in 1..Len(file) /\ file'[i] \in Entries
      BY <1>1, <2>2, <2>3 DEF MayBeRead
    <3>2. CASE j \in 1..Len(file)
      <4>1. MayBeRead(i) /\ MayBeRead(j)
        BY <2>1, <2>3, <3>1, <3>2
      <4> QED BY <1>1, <1>2, <2>3, <3>1, <3>2, <4>1 DEF IInv, InOrder
    <3>3. CASE j \notin 1..Len(file)
      <4>1. file'[j] = NextEntry
        BY <2>2, <2>3, <3>3
      <4>2. file'[i].id <= eventCount /\ file'[i].clock <= clock + 1
        BY <2>2, <2>3, <3>1
      <4>3. file'[i].id \in Nat /\ file'[i].clock \in Nat
        BY <1>8, <3>1
      <4> QED BY <1>4, <1>5, <4>1, <4>2, <4>3
    <3> QED BY <3>2, <3>3
  <2> QED BY <1>1, <2>2, <2>3 DEF InOrder
<1> QED BY <1>6, <1>7, <1>9, <1>10, <1>11 DEF IInv

LEMMA AppendEventInv ==
  ASSUME IInv, AppendEvent \/ SyncFails
  PROVE  IInv'
<1>1. /\ CallAppend /\ file' = file \o <<NextEntry, Newline>> /\ UNCHANGED <<fd, renumbered>>
      /\ file \in Seq(Chunks) /\ Newline \in Chunks /\ Newline \notin Entries
      /\ AppendEvent => /\ synced' = Len(file') /\ clock' = NextEntry.clock
                        /\ acked' = acked \cup {NextEntry}
      /\ SyncFails => Unanswered
  BY WALAssumption DEF AppendEvent, SyncFails, IInv, TypeOK, Chunks, Unanswered
<1>2. NextEntry \in Chunks /\ NextEntry # Newline
  BY <1>1, NextEntryType DEF Chunks
<1>3. /\ file' \in Seq(Chunks) /\ Len(file') = Len(file) + 2 /\ Len(file) \in Nat
      /\ \A i \in 1..Len(file) : file'[i] = file[i]
      /\ file'[Len(file) + 1] = NextEntry /\ file'[Len(file) + 2] = Newline
  BY <1>1, <1>2
<1>4. \A i \in (Len(file) + 1)..Len(file') : i = Len(file) + 1 \/ i = Len(file) + 2
  BY <1>3
<1>5. Extended
  BY <1>1, <1>2, <1>3, <1>4 DEF Extended
<1>6. Unanswered \/ Answered
  BY <1>1, <1>3 DEF Answered
<1> QED BY <1>1, <1>5, <1>6, ExtendedInv

LEMMA WriteFailsInv ==
  ASSUME IInv, WriteFails
  PROVE  IInv'
<1>1. /\ CallAppend /\ UNCHANGED <<fd, renumbered>> /\ Unanswered /\ file \in Seq(Chunks)
      /\ {Torn, TooLong} \subseteq Chunks \ {Newline} /\ {Torn, TooLong} \cap Entries = {}
  BY WALAssumption DEF WriteFails, IInv, TypeOK, Chunks, Unanswered
<1>2. NextEntry \in Chunks \ {Newline}
  BY NextEntryType, <1>1 DEF Chunks
<1>3. file' = file \/ \E c \in {NextEntry, Torn, TooLong} : file' = file \o <<c>>
  <2>1. PICK part \in (IF fd = "open" THEN Remnants ELSE {<< >>}) : file' = file \o part
    BY DEF WriteFails
  <2>2. part = << >> \/ \E c \in {NextEntry, Torn, TooLong} : part = <<c>>
    BY <2>1 DEF Remnants, Parts
  <2>3. file \o << >> = file
    BY <1>1
  <2> QED BY <2>1, <2>2, <2>3
<1>4. CASE file' = file
  <2>1. Extended
    BY <1>1, <1>4 DEF Extended
  <2> QED BY <1>1, <2>1, ExtendedInv
<1>5. ASSUME NEW c \in {NextEntry, Torn, TooLong}, file' = file \o <<c>>
      PROVE  IInv'
  <2>1. c \in Chunks /\ c # Newline /\ (c \in Entries => c = NextEntry)
    BY <1>1, <1>2
  <2>2. /\ file' \in Seq(Chunks) /\ Len(file') = Len(file) + 1 /\ Len(file) \in Nat
        /\ \A i \in 1..Len(file) : file'[i] = file[i]
        /\ file'[Len(file) + 1] = c
    BY <1>1, <1>5, <2>1
  <2>3. \A i \in (Len(file) + 1)..Len(file') : i = Len(file) + 1
    BY <2>2
  <2>4. Extended
    BY <2>1, <2>2, <2>3 DEF Extended
  <2> QED BY <1>1, <2>4, ExtendedInv
<1> QED BY <1>3, <1>4, <1>5

\* Calls that touch neither the file nor the counters.
LEMMA FileKeptInv ==
  ASSUME IInv, UNCHANGED <<file, synced, eventCount, clock, calls, acked, renumbered>>,
         fd' \in {"open", "closed"}, fd # "down"
  PROVE  IInv'
  BY DEF IInv, TypeOK, PositionSound, BodiesIncrease, AckedOnDisk, InOrder, MayBeRead

\* What a crash leaves: a prefix that holds what was synced, perhaps with a part of the next
\* chunk behind it.
LEMMA SurvivorsFacts ==
  ASSUME IInv, NEW left \in Survivors
  PROVE  \E k \in synced..Len(file) :
           /\ left \in Seq(Chunks) /\ Len(left) \in {k, k + 1}
           /\ \A i \in 1..k : left[i] = file[i]
           /\ Len(left) = k + 1 => left[k + 1] \in {Torn, TooLong}
<1>1. file \in Seq(Chunks) /\ Len(file) \in Nat /\ synced \in 0..Len(file)
  BY DEF IInv, TypeOK, Chunks
<1>2. \A k \in 0..Len(file) : /\ Cut(k) \in Seq(Chunks) /\ Len(Cut(k)) = k
                             /\ \A i \in 1..k : Cut(k)[i] = file[i]
  BY <1>1 DEF Cut
<1>3. CASE \E k \in synced..Len(file) : left = Cut(k)
  <2>1. PICK k \in synced..Len(file) : left = Cut(k)
    BY <1>3
  <2>2. k \in 0..Len(file) /\ k # k + 1
    BY <1>1
  <2> QED BY <1>2, <2>1, <2>2
<1>4. CASE TornWrites /\ \E k \in (synced + 1)..Len(file) :
             \E part \in PartsOf(file[k]) : left = Append(Cut(k - 1), part)
  <2>1. PICK k \in (synced + 1)..Len(file) :
          \E part \in PartsOf(file[k]) : left = Append(Cut(k - 1), part)
    BY <1>4
  <2>2. PICK part \in PartsOf(file[k]) : left = Append(Cut(k - 1), part)
    BY <2>1
  <2>3. k \in 1..Len(file) /\ k - 1 \in 0..Len(file) /\ k - 1 \in synced..Len(file)
    BY <1>1
  <2>4. file[k] \in Chunks
    BY <1>1, <2>3
  <2>5. part \in {Torn, TooLong} /\ part \in Chunks
    BY <2>2, <2>4, WALAssumption DEF PartsOf, Parts, Chunks
  <2>6. Cut(k - 1) \in Seq(Chunks) /\ Len(Cut(k - 1)) = k - 1
    BY <1>2, <2>3
  <2>7. /\ left \in Seq(Chunks) /\ Len(left) = k
        /\ \A i \in 1..(k - 1) : left[i] = Cut(k - 1)[i]
        /\ left[k] = part
    BY <2>2, <2>5, <2>6
  <2>8. Len(left) = (k - 1) + 1 /\ left[(k - 1) + 1] = part
    BY <2>3, <2>7
  <2> QED BY <1>2, <2>3, <2>5, <2>7, <2>8
<1> QED BY <1>1, <1>3, <1>4 DEF Survivors

LEMMA CrashInv ==
  ASSUME IInv, Crash
  PROVE  IInv'
<1>1. PICK k \in synced..Len(file) :
        /\ file' \in Seq(Chunks) /\ Len(file') \in {k, k + 1}
        /\ \A i \in 1..k : file'[i] = file[i]
        /\ Len(file') = k + 1 => file'[k + 1] \in {Torn, TooLong}
  BY SurvivorsFacts DEF Crash
<1>2. /\ synced' = Len(file') /\ fd' = "down" /\ eventCount' = 0 /\ clock' = 0
      /\ UNCHANGED <<calls, acked, renumbered>>
  BY DEF Crash
<1>3. /\ file \in Seq(Chunks) /\ DOMAIN file = 1..Len(file) /\ DOMAIN file' = 1..Len(file')
      /\ Newline \notin {Torn, TooLong} /\ {Torn, TooLong} \cap Entries = {}
  BY <1>1, WALAssumption DEF IInv, TypeOK, Chunks
<1>4. /\ k \in Nat /\ Len(file) \in Nat /\ Len(file') \in Nat /\ synced \in Nat
      /\ synced <= k /\ k <= Len(file) /\ k <= Len(file') /\ Len(file') <= k + 1
      /\ calls \in Nat
  BY <1>1 DEF IInv, TypeOK
<1>5. \A i \in 1..Len(file') : /\ i \notin 1..k => i = k + 1 /\ file'[i] \in {Torn, TooLong}
                              /\ file'[i] \in Entries => i \in 1..k
  BY <1>1, <1>3, <1>4
<1>6. TypeOK'
  BY <1>1, <1>2, <1>4 DEF IInv, TypeOK, Chunks
<1>7. PositionSound'
  BY <1>2, <1>4 DEF PositionSound
<1>8. BodiesIncrease'
  <2>1. \A i \in 1..Len(file') : file'[i] \in Entries =>
          i \in 1..Len(file) /\ file[i] = file'[i]
    BY <1>1, <1>4, <1>5
  <2> QED BY <1>2, <1>3, <2>1 DEF IInv, BodiesIncrease
<1>9. AckedOnDisk'
  <2> SUFFICES ASSUME NEW e \in acked
               PROVE  \E i \in DOMAIN file' : i < synced' /\ file'[i] = e /\ file'[i + 1] = Newline
    BY <1>2 DEF AckedOnDisk
  <2>1. PICK i \in DOMAIN file : i < synced /\ file[i] = e /\ file[i + 1] = Newline
    BY DEF IInv, AckedOnDisk
  <2>2. i \in 1..k /\ i + 1 \in 1..k /\ i \in DOMAIN file' /\ i < synced'
    BY <1>2, <1>3, <1>4, <2>1
  <2> QED BY <1>1, <2>1, <2>2
<1>10. InOrder'
  <2>1. ASSUME NEW i \in 1..Len(file'), MayBeRead(i)'
        PROVE  i \in 1..Len(file) /\ file[i] = file'[i] /\ MayBeRead(i)
    <3>1. i \in 1..k /\ file[i] = file'[i] /\ file[i] \in Entries
      BY <1>1, <1>5, <2>1 DEF MayBeRead
    <3>2. AtLineStart(file, i)
      <4>1. i = 1 \/ (i - 1 \in 1..k /\ file'[i - 1] = Newline)
        BY <1>4, <2>1, <3>1 DEF MayBeRead, AtLineStart
      <4> QED BY <1>1, <4>1 DEF AtLineStart
    <3>3. AtLineEnd(file, i) \/ i >= synced
      <4>1. CASE i = k
        BY <1>4, <4>1
      <4>2. CASE i # k
        <5>1. i + 1 \in 1..k /\ i # Len(file') /\ ~(i >= synced')
          BY <1>2, <1>4, <3>1, <4>2
        <5>2. file'[i + 1] = Newline
          BY <2>1, <5>1 DEF MayBeRead, AtLineEnd
        <5> QED BY <1>1, <5>1, <5>2 DEF AtLineEnd
      <4> QED BY <4>1, <4>2
    <3> QED BY <1>4, <3>1, <3>2, <3>3 DEF MayBeRead
  <2> QED BY <1>2, <1>3, <2>1 DEF IInv, InOrder
<1> QED BY <1>6, <1>7, <1>8, <1>9, <1>10 DEF IInv

\* A new process takes its counters from the last line that is read, which has the largest
\* identifier of all; nothing else can become readable, as the file is what the disk has.
LEMMA OpenInv ==
  ASSUME IInv, Open
  PROVE  IInv'
<1>1. /\ fd = "down" /\ fd' = "open" /\ RecoverPosition
      /\ renumbered' = (renumbered \/ ~Scannable(file))
      /\ UNCHANGED <<file, synced, calls, acked>>
      /\ file \in Seq(Chunks) /\ DOMAIN file = 1..Len(file) /\ Len(file) \in Nat
      /\ synced = Len(file) /\ renumbered \in BOOLEAN
  BY DEF Open, IInv, TypeOK, PositionSound, Chunks
<1>2. \A e \in Entries : e.id \in Nat /\ e.clock \in Nat /\ e.body \in Nat
  BY WALAssumption DEF Entries
<1>3. ASSUME NEW i \in DOMAIN file, MayBeRead(i)
      PROVE  i \in Positions(file)
  BY <1>1, <1>3 DEF MayBeRead, Positions, Readable, AtLineEnd
<1>4. CASE Replay(file) = << >>
  <2>1. eventCount' = 0 /\ clock' = 0
    BY <1>1, <1>4 DEF RecoverPosition
  <2>2. ASSUME Scannable(file), NEW i \in DOMAIN file PROVE ~MayBeRead(i)
    <3>1. Lines(file) = << >>
      BY <1>4, <2>2 DEF Replay
    <3> QED BY <1>1, <1>3, <3>1, LinesFacts
  <2>3. InOrder'
    BY <1>1, <2>2 DEF InOrder, MayBeRead
  <2>4. TypeOK' /\ PositionSound'
    BY <1>1, <2>1 DEF IInv, TypeOK, PositionSound
  <2> QED BY <1>1, <2>3, <2>4 DEF IInv, BodiesIncrease, AckedOnDisk
<1>5. CASE Replay(file) # << >>
  <2> DEFINE events == Lines(file)
             n == Len(events)
             last == At(file, n)
  <2>1. Replay(file) = events /\ events # << >>
    BY <1>1, <1>5, ReplayFacts
  <2>2. n \in Nat /\ n \in 1..n
    BY <1>1, <2>1, LinesFacts
  <2>3. last \in Positions(file) /\ events[n] = file[last]
    BY <1>1, <2>2, LinesFacts
  <2>4. last \in DOMAIN file /\ file[last] \in Entries
    BY <2>3 DEF Positions, Readable
  <2>5. eventCount' = file[last].id /\ clock' = file[last].clock
    BY <1>1, <1>5, <2>1, <2>3 DEF RecoverPosition
  <2>6. ASSUME NEW i \in Positions(file) PROVE i <= last
    <3>1. PICK m \in 1..n : At(file, m) = i
      BY <1>1, LinesFacts
    <3>2. m = n \/ m < n
      BY <2>2
    <3> QED BY <1>1, <2>2, <2>3, <3>1, <3>2, LinesFacts, PositionsFinite
  <2> HIDE DEF events, n, last
  <2>7. /\ eventCount' \in Nat /\ clock' \in Nat
        /\ eventCount' <= calls /\ clock' <= calls /\ calls \in Nat
    BY <1>1, <1>2, <2>4, <2>5 DEF IInv, TypeOK, BodiesIncrease
  <2>8. ASSUME ~renumbered, NEW i \in DOMAIN file, MayBeRead(i)
        PROVE  file[i].id <= eventCount' /\ file[i].clock <= clock' + 1
    <3>1. i \in Positions(file) /\ file[i] \in Entries /\ i <= last
      BY <1>3, <2>6, <2>8 DEF MayBeRead
    <3>2. MayBeRead(last)
      BY <2>3 DEF MayBeRead, Positions, Readable
    <3>3. i = last \/ (file[i].id < file[last].id /\ file[i].clock <= file[last].clock)
      BY <1>1, <2>4, <2>8, <3>1, <3>2 DEF IInv, InOrder
    <3> QED BY <1>2, <2>4, <2>5, <3>1, <3>3
  <2>9. InOrder'
    <3> SUFFICES ASSUME ~renumbered PROVE InOrder'
      BY <1>1 DEF InOrder
    <3> QED BY <1>1, <2>8 DEF IInv, InOrder, MayBeRead
  <2>10. TypeOK' /\ PositionSound'
    BY <1>1, <2>7 DEF IInv, TypeOK, PositionSound
  <2> QED BY <1>1, <2>9, <2>10 DEF IInv, BodiesIncrease, AckedOnDisk
<1> QED BY <1>4, <1>5

-----------------------------------------------------------------------------
(* Truncate. *)

IsWritten(f, kept) ==
  /\ f \in Seq(Chunks) /\ Len(f) = 2 * Len(kept) /\ DOMAIN f = 1..Len(f)
  /\ \A i \in DOMAIN f : f[i] \in Entries =>
       \E n \in 1..Len(kept) : i = 2 * n - 1 /\ f[i] = kept[n]
  /\ \A n \in 1..Len(kept) : /\ 2 * n - 1 \in DOMAIN f
                             /\ f[2 * n - 1] = kept[n] /\ f[2 * n] = Newline

LEMMA WrittenOut ==
  ASSUME NEW kept \in Seq(Entries)
  PROVE  IsWritten(Written(kept), kept)
<1> DEFINE f == Written(kept)
<1>1. Len(kept) \in Nat /\ Newline \notin Entries /\ \A n \in 1..Len(kept) : kept[n] \in Entries
  BY WALAssumption
<1>2. ASSUME NEW i \in 1..2 * Len(kept), i % 2 = 1
      PROVE  (i + 1) \div 2 \in 1..Len(kept) /\ i = 2 * ((i + 1) \div 2) - 1
  BY <1>1, <1>2
<1>3. ASSUME NEW n \in 1..Len(kept)
      PROVE  /\ 2 * n - 1 \in 1..2 * Len(kept) /\ 2 * n \in 1..2 * Len(kept)
             /\ (2 * n - 1) % 2 = 1 /\ (2 * n) % 2 # 1 /\ ((2 * n - 1) + 1) \div 2 = n
  BY <1>1
<1>4. \A i \in 1..2 * Len(kept) : f[i] = IF i % 2 = 1 THEN kept[(i + 1) \div 2] ELSE Newline
  BY <1>1 DEF Written
<1>0. DOMAIN f = 1..2 * Len(kept)
  BY DEF Written
<1> HIDE DEF f
<1>5. \A i \in 1..2 * Len(kept) : f[i] \in Chunks
  BY <1>1, <1>2, <1>4 DEF Chunks
<1>6. f \in Seq(Chunks) /\ Len(f) = 2 * Len(kept) /\ DOMAIN f = 1..Len(f)
  <2>1. f = [i \in 1..2 * Len(kept) |-> f[i]]
    BY DEF f, Written
  <2> QED BY <1>0, <1>1, <1>5, <2>1
<1>7. ASSUME NEW i \in DOMAIN f, f[i] \in Entries
      PROVE  \E n \in 1..Len(kept) : i = 2 * n - 1 /\ f[i] = kept[n]
  <2>1. i \in 1..2 * Len(kept) /\ i % 2 = 1
    BY <1>1, <1>4, <1>6, <1>7
  <2> QED BY <1>2, <1>4, <2>1
<1>8. \A n \in 1..Len(kept) : /\ 2 * n - 1 \in DOMAIN f
                              /\ f[2 * n - 1] = kept[n] /\ f[2 * n] = Newline
  BY <1>3, <1>4, <1>6
<1> QED BY <1>6, <1>7, <1>8 DEF f, IsWritten

\* The kept entries are those of lines of the file, in their order.
LEMMA KeptFacts ==
  ASSUME IInv, NEW keepCount \in KeepCounts, Len(Replay(file)) > keepCount
  PROVE  /\ keepCount \in Nat /\ keepCount <= calls
         /\ Kept(keepCount) \in Seq(Entries) /\ Len(Kept(keepCount)) = keepCount
         /\ DOMAIN Kept(keepCount) = 1..keepCount
         /\ \A n \in 1..keepCount :
              /\ Kept(keepCount)[n] \in Entries
              /\ Kept(keepCount)[n].id <= Kept(keepCount)[n].body
              /\ Kept(keepCount)[n].clock <= Kept(keepCount)[n].body
              /\ Kept(keepCount)[n].body <= calls
         /\ \A m, n \in 1..keepCount :
              m < n => Kept(keepCount)[m].body < Kept(keepCount)[n].body
         /\ \E place \in [1..keepCount -> Positions(file)] :
              /\ \A n \in 1..keepCount : Kept(keepCount)[n] = file[place[n]]
              /\ \A m, n \in 1..keepCount : m < n => place[m] < place[n]
<1> DEFINE events == Replay(file)
           kept == SubSeq(events, Len(events) - keepCount + 1, Len(events))
<1>0. Len(events) > keepCount
  OBVIOUS
<1>1. kept = Kept(keepCount)
  BY DEF Kept
<1>2. /\ keepCount \in Nat /\ file \in Seq(Chunks) /\ calls \in Nat /\ clock \in Nat
      /\ acked \subseteq Entries /\ DOMAIN file = 1..Len(file)
  BY WALAssumption DEF IInv, TypeOK, Chunks
<1>3. events \in Seq(Entries) /\ Len(events) \in Nat
  BY <1>2, ReplayFacts
<1>4. events = Lines(file)
  BY <1>0, <1>2, <1>3, ReplayFacts
<1>5. /\ kept \in Seq(Entries) /\ Len(kept) = keepCount /\ DOMAIN kept = 1..keepCount
      /\ \A n \in 1..keepCount : kept[n] = events[Len(events) - keepCount + n]
  <2> DEFINE from == Len(events) - keepCount + 1
             to   == Len(events)
  <2> HIDE DEF events
  <2>1. /\ from \in 1..(to + 1) /\ to \in Nat /\ to - from + 1 = keepCount
        /\ \A n \in 1..keepCount : from + n - 1 = to - keepCount + n /\ from + n - 1 \in 1..to
    BY <1>0, <1>2, <1>3
  <2> HIDE DEF from
  <2>2. Len(SubSeq(events, from, to)) = keepCount /\ DOMAIN SubSeq(events, from, to) = 1..keepCount
    BY <1>2, <1>3, <2>1
  <2>3. \A n \in 1..keepCount : SubSeq(events, from, to)[n] = events[from + n - 1]
    BY <1>3, <2>1
  <2>4. SubSeq(events, from, to) \in Seq(Entries)
    BY <1>3, <2>1
  <2>5. kept = SubSeq(events, from, to)
    BY DEF from
  <2> HIDE DEF kept, to
  <2>6. \A n \in 1..keepCount : kept[n] = events[to - keepCount + n]
    BY <2>1, <2>3, <2>5
  <2> QED BY <2>2, <2>4, <2>5, <2>6 DEF to
<1>6. \A e \in Entries : e.id \in Nat /\ e.clock \in Nat /\ e.body \in Nat /\ e.body >= 1
  BY WALAssumption DEF Entries
<1>7. \A m, n \in 1..Len(events) : m < n =>
        At(file, m) < At(file, n) /\ At(file, m) \in DOMAIN file /\ At(file, n) \in DOMAIN file
  BY <1>2, <1>4, LinesFacts, PositionsFinite
<1>8. \A n \in 1..Len(events) :
        /\ events[n] \in Entries /\ events[n] = file[At(file, n)] /\ At(file, n) \in DOMAIN file
  BY <1>2, <1>3, <1>4, LinesFacts, PositionsFinite
<1> HIDE DEF events, kept
<1>9. ASSUME NEW n \in 1..keepCount
      PROVE  /\ kept[n] \in Entries
             /\ kept[n].id <= kept[n].body /\ kept[n].clock <= kept[n].body
             /\ kept[n].body <= calls
  <2>1. Len(events) - keepCount + n \in 1..Len(events)
    BY <1>0, <1>2, <1>3
  <2> QED BY <1>5, <1>8, <2>1 DEF IInv, BodiesIncrease
<1>10. ASSUME NEW m \in 1..keepCount, NEW n \in 1..keepCount, m < n
       PROVE  kept[m].body < kept[n].body
  <2>1. /\ Len(events) - keepCount + m \in 1..Len(events)
        /\ Len(events) - keepCount + n \in 1..Len(events)
        /\ Len(events) - keepCount + m < Len(events) - keepCount + n
    BY <1>0, <1>2, <1>3, <1>10
  <2> DEFINE a == At(file, Len(events) - keepCount + m)
             b == At(file, Len(events) - keepCount + n)
  <2>2. /\ kept[m] = file[a] /\ a \in DOMAIN file /\ kept[m] \in Entries
        /\ kept[n] = file[b] /\ b \in DOMAIN file /\ kept[n] \in Entries
    BY <1>5, <1>8, <2>1
  <2>3. a < b
    BY <1>7, <2>1
  <2> HIDE DEF a, b
  <2>4. file[a].body < file[b].body
    BY <2>2, <2>3 DEF IInv, BodiesIncrease
  <2> QED BY <2>2, <2>4
<1>11. keepCount <= calls
  <2> DEFINE body == [n \in 1..keepCount |-> kept[n].body]
  <2>1. \A n \in 1..keepCount : body[n] \in 1..calls
    BY <1>2, <1>6, <1>9
  <2>2. \A m, n \in 1..keepCount : body[m] = body[n] => m = n
    <3> SUFFICES ASSUME NEW m \in 1..keepCount, NEW n \in 1..keepCount, m # n
                 PROVE  body[m] # body[n]
      OBVIOUS
    <3>1. m < n \/ n < m
      BY <1>2
    <3>2. kept[m].body \in Nat /\ kept[n].body \in Nat
      BY <1>6, <1>9
    <3> QED BY <1>10, <3>1, <3>2
  <2>3. body \in Injection(1..keepCount, 1..calls)
    BY <2>1, <2>2 DEF Injection, IsInjective
  <2>4. IsFiniteSet(1..calls) /\ Cardinality(1..calls) = calls /\ Cardinality(1..keepCount) = keepCount
    <3>1. \A m \in Nat : IsFiniteSet(1..m) /\ Cardinality(1..m) = IF 1 > m THEN 0 ELSE m - 1 + 1
      BY FS_Interval
    <3>2. \A m \in Nat : IsFiniteSet(1..m) /\ Cardinality(1..m) = m
      BY <3>1
    <3> QED BY <1>2, <3>2
  <2> QED BY <2>3, <2>4, FS_Injection
<1>12. \E place \in [1..keepCount -> Positions(file)] :
         /\ \A n \in 1..keepCount : kept[n] = file[place[n]]
         /\ \A m, n \in 1..keepCount : m < n => place[m] < place[n]
  <2> DEFINE place == [n \in 1..keepCount |-> At(file, Len(events) - keepCount + n)]
  <2>1. \A n \in 1..keepCount : Len(events) - keepCount + n \in 1..Len(events)
    BY <1>0, <1>2, <1>3
  <2>2. \A m, n \in 1..keepCount :
          m < n => Len(events) - keepCount + m < Len(events) - keepCount + n
    BY <1>0, <1>2, <1>3
  <2>3. \A k \in 1..Len(events) : At(file, k) \in Positions(file)
    BY <1>2, <1>4, LinesFacts
  <2>4. place \in [1..keepCount -> Positions(file)]
    BY <2>1, <2>3
  <2>5. \A n \in 1..keepCount : kept[n] = file[place[n]]
    BY <1>5, <1>8, <2>1
  <2>6. \A m, n \in 1..keepCount : m < n => place[m] < place[n]
    BY <1>7, <2>1, <2>2
  <2> HIDE DEF place
  <2> QED BY <2>4, <2>5, <2>6
<1> QED BY <1>1, <1>2, <1>5, <1>9, <1>10, <1>11, <1>12

\* The kept lines keep their order, and the counter, whether it becomes their number or
\* stays, is not beyond the calls; unsynced lines are not promised.
LEMMA RewriteInv ==
  ASSUME IInv, NEW keepCount \in KeepCounts, fd = "open", Len(Replay(file)) > keepCount,
         Rewrite(Kept(keepCount)), UNCHANGED <<clock, calls>>, fd' \in {"open", "closed"},
         \/ eventCount' = keepCount /\ renumbered' = TRUE
         \/ UNCHANGED <<eventCount, renumbered>>
  PROVE  IInv'
<1> DEFINE kept == Kept(keepCount)
<1>1. /\ file' = Written(kept)
      /\ synced' \in {0, Len(file')}
      /\ acked' = IF synced' = 0 THEN {} ELSE {e \in acked : \E n \in DOMAIN kept : kept[n] = e}
      /\ fd' \in {"open", "closed"} /\ UNCHANGED <<clock, calls>>
  BY Zenon DEF Rewrite
<1>2. /\ calls \in Nat /\ clock \in Nat /\ acked \subseteq Entries /\ keepCount \in Nat
  BY KeptFacts DEF IInv, TypeOK
<1>5. kept \in Seq(Entries) /\ Len(kept) = keepCount /\ DOMAIN kept = 1..keepCount
  BY KeptFacts
<1>9. \A n \in 1..keepCount :
        /\ kept[n] \in Entries
        /\ kept[n].id <= kept[n].body /\ kept[n].clock <= kept[n].body
        /\ kept[n].body <= calls
  BY KeptFacts
<1>10. \A m, n \in 1..keepCount : m < n => kept[m].body < kept[n].body
  BY KeptFacts
<1>11. keepCount <= calls
  BY KeptFacts
<1> HIDE DEF kept
<1>12. /\ file' \in Seq(Chunks) /\ Len(file') = 2 * keepCount /\ DOMAIN file' = 1..Len(file')
       /\ \A i \in DOMAIN file' : file'[i] \in Entries =>
            \E n \in 1..keepCount : i = 2 * n - 1 /\ file'[i] = kept[n]
       /\ \A n \in 1..keepCount : /\ 2 * n - 1 \in DOMAIN file'
                                  /\ file'[2 * n - 1] = kept[n] /\ file'[2 * n] = Newline
  <2>1. kept \in Seq(Entries) /\ Len(kept) = keepCount
    BY <1>5
  <2>2. file' = Written(kept)
    BY <1>1
  <2>3. IsWritten(file', kept)
    BY <2>1, <2>2, WrittenOut
  <2> QED BY <2>1, <2>3 DEF IsWritten
<1>13. TypeOK' /\ PositionSound'
  <2>1. renumbered' \in BOOLEAN
    <3>1. renumbered \in BOOLEAN
      BY DEF IInv, TypeOK
    <3> QED BY <3>1, Zenon
  <2>2. /\ eventCount' \in Nat /\ eventCount' <= calls
        /\ synced' \in 0..Len(file') /\ acked' \subseteq Entries
    BY <1>1, <1>2, <1>11, <1>12 DEF IInv, TypeOK, PositionSound
  <2> QED BY <1>1, <1>2, <1>12, <2>1, <2>2 DEF IInv, TypeOK, PositionSound, Chunks
<1>14. BodiesIncrease'
  <2>1. ASSUME NEW i \in DOMAIN file', NEW j \in DOMAIN file', i < j,
               file'[i] \in Entries, file'[j] \in Entries
        PROVE  file'[i].body < file'[j].body
    <3>1. PICK m \in 1..keepCount : i = 2 * m - 1 /\ file'[i] = kept[m]
      BY <1>12, <2>1
    <3>2. PICK n \in 1..keepCount : j = 2 * n - 1 /\ file'[j] = kept[n]
      BY <1>12, <2>1
    <3>3. m < n
      BY <1>2, <2>1, <3>1, <3>2
    <3> QED BY <1>10, <3>1, <3>2, <3>3
  <2> QED BY <1>1, <1>9, <1>12, <2>1 DEF BodiesIncrease
<1>15. AckedOnDisk'
  <2> SUFFICES ASSUME NEW e \in acked'
               PROVE  \E i \in DOMAIN file' : i < synced' /\ file'[i] = e /\ file'[i + 1] = Newline
    BY DEF AckedOnDisk
  <2>1. /\ synced' = 2 * keepCount
        /\ \E n \in 1..keepCount : kept[n] = e
    BY <1>1, <1>5, <1>12
  <2>2. PICK n \in 1..keepCount : kept[n] = e
    BY <2>1
  <2>3. /\ 2 * n - 1 < 2 * keepCount /\ (2 * n - 1) + 1 = 2 * n
    BY <1>2
  <2> QED BY <1>12, <2>1, <2>2, <2>3
<1>16. InOrder'
  <2> SUFFICES ASSUME ~renumbered, UNCHANGED <<eventCount, renumbered>> PROVE InOrder'
    BY DEF InOrder
  <2>1. PICK place \in [1..keepCount -> Positions(file)] :
          /\ \A n \in 1..keepCount : kept[n] = file[place[n]]
          /\ \A m, n \in 1..keepCount : m < n => place[m] < place[n]
    BY KeptFacts DEF kept
  <2>2. \A n \in 1..keepCount : place[n] \in DOMAIN file /\ MayBeRead(place[n])
    BY <2>1 DEF MayBeRead, Positions, Readable
  <2>3. \A m, n \in 1..keepCount : m < n =>
          kept[m].id < kept[n].id /\ kept[m].clock <= kept[n].clock
    BY <2>1, <2>2 DEF IInv, InOrder
  <2>4. \A n \in 1..keepCount : kept[n].id <= eventCount /\ kept[n].clock <= clock + 1
    BY <2>1, <2>2 DEF IInv, InOrder
  <2>5. ASSUME NEW i \in DOMAIN file', MayBeRead(i)'
        PROVE  \E n \in 1..keepCount : i = 2 * n - 1 /\ file'[i] = kept[n]
    BY <1>12, <2>5 DEF MayBeRead
  <2>6. ASSUME NEW i \in DOMAIN file', NEW j \in DOMAIN file', i < j,
               MayBeRead(i)', MayBeRead(j)'
        PROVE  file'[i].id < file'[j].id /\ file'[i].clock <= file'[j].clock
    <3>1. PICK m \in 1..keepCount : i = 2 * m - 1 /\ file'[i] = kept[m]
      BY <2>5, <2>6
    <3>2. PICK n \in 1..keepCount : j = 2 * n - 1 /\ file'[j] = kept[n]
      BY <2>5, <2>6
    <3>3. m < n
      BY <1>2, <2>6, <3>1, <3>2
    <3> QED BY <2>3, <3>1, <3>2, <3>3
  <2>7. \A i \in DOMAIN file' : MayBeRead(i)' =>
          file'[i].id <= eventCount' /\ file'[i].clock <= clock' + 1
    <3> SUFFICES ASSUME NEW i \in DOMAIN file', MayBeRead(i)'
                 PROVE  file'[i].id <= eventCount' /\ file'[i].clock <= clock' + 1
      OBVIOUS
    <3>1. PICK n \in 1..keepCount : i = 2 * n - 1 /\ file'[i] = kept[n]
      BY <2>5
    <3> QED BY <1>1, <2>4, <3>1
  <2> QED BY <2>6, <2>7 DEF InOrder
<1> QED BY <1>13, <1>14, <1>15, <1>16 DEF IInv

LEMMA TruncateInv ==
  ASSUME IInv, NEW keepCount \in KeepCounts, Truncate(keepCount)
  PROVE  IInv'
<1>1. /\ fd = "open" /\ Len(Replay(file)) > keepCount /\ Rewrite(Kept(keepCount))
      /\ eventCount' = keepCount /\ renumbered' = TRUE /\ UNCHANGED <<fd, clock, calls>>
  BY Zenon DEF Truncate
<1>2. fd' \in {"open", "closed"}
  BY <1>1
<1> QED BY <1>1, <1>2, RewriteInv

LEMMA TruncateFailsInv ==
  ASSUME IInv, NEW keepCount \in KeepCounts, TruncateFails(keepCount)
  PROVE  IInv'
<1>1. /\ fd = "open" /\ fd' = "closed" /\ Len(Replay(file)) > keepCount
      /\ Rewrite(Kept(keepCount)) \/ UNCHANGED <<file, synced, acked>>
      /\ UNCHANGED <<eventCount, clock, calls, renumbered>>
  BY Zenon DEF TruncateFails
<1>2. CASE Rewrite(Kept(keepCount))
  BY <1>1, <1>2, RewriteInv
<1>3. CASE UNCHANGED <<file, synced, acked>>
  BY <1>1, <1>3, FileKeptInv
<1> QED BY <1>1, <1>2, <1>3

-----------------------------------------------------------------------------

LEMMA NextInv == IInv /\ [Next]_vars => IInv'
<1> SUFFICES ASSUME IInv, [Next]_vars PROVE IInv'
  OBVIOUS
<1>1. CASE AppendEvent \/ SyncFails
  BY <1>1, AppendEventInv
<1>2. CASE WriteFails
  BY <1>2, WriteFailsInv
<1>3. ASSUME NEW n \in KeepCounts, Truncate(n) PROVE IInv'
  BY <1>3, TruncateInv
<1>4. ASSUME NEW n \in KeepCounts, TruncateFails(n) PROVE IInv'
  BY <1>4, TruncateFailsInv
<1>5. CASE Close
  BY <1>5, FileKeptInv DEF Close
<1>6. CASE Crash
  BY <1>6, CrashInv
<1>7. CASE Open
  BY <1>7, OpenInv
<1>8. CASE UNCHANGED vars
  BY <1>8 DEF vars, IInv, TypeOK, PositionSound, BodiesIncrease, AckedOnDisk, InOrder, MayBeRead
<1> QED BY <1>1, <1>2, <1>3, <1>4, <1>5, <1>6, <1>7, <1>8 DEF Next

LEMMA InvHolds == Spec => []IInv
  BY InitInv, NextInv, PTL DEF Spec

\* store.go: the file is a list of lines and parts of lines, and the counters are numbers,
\* whatever is written, torn, truncated and restarted.
THEOREM TypeCorrect == Spec => []TypeOK
<1>1. IInv => TypeOK
  BY DEF IInv
<1> QED BY <1>1, InvHolds, PTL

\* An acknowledged entry stands at one place only, with its newline behind it.
LEMMA AckedKeptFromInv == IInv => AckedKept
<1> SUFFICES ASSUME IInv, NEW e \in acked, NEW i \in DOMAIN file,
                    file[i] = e, ~Readable(file, i)
             PROVE  ~AtLineStart(file, i)
  BY DEF AckedKept, OnlyGluedLost, IInv
<1>1. PICK k \in DOMAIN file : file[k] = e /\ file[k + 1] = Newline
  BY DEF IInv, AckedOnDisk
<1>2. /\ e \in Entries /\ e.body \in Nat /\ i \in Nat /\ k \in Nat
  BY WALAssumption DEF IInv, TypeOK, Entries
<1>3. i = k
  <2>1. ~(i < k) /\ ~(k < i)
    BY <1>1, <1>2 DEF IInv, BodiesIncrease
  <2> QED BY <1>2, <2>1
<1> QED BY <1>1, <1>2, <1>3 DEF Readable, AtLineEnd

\* store.go:117-133: an event whose Append returned nil is on disk through every later
\* failure, crash and truncation that keeps and syncs it, and only a torn line before it can swallow it.
THEOREM AckedKeptCorrect == Spec => []AckedKept
  BY InvHolds, AckedKeptFromInv, PTL

LEMMA ReplaySoundFromInv == IInv => ReplaySound
<1> SUFFICES ASSUME IInv, ~renumbered PROVE ReplaySound
  BY DEF ReplaySound
<1> DEFINE events == Lines(file)
<1>1. file \in Seq(Chunks)
  BY DEF IInv, TypeOK, Chunks
<1>2. \A n \in DOMAIN events : /\ At(file, n) \in DOMAIN file /\ MayBeRead(At(file, n))
                              /\ events[n] = file[At(file, n)]
  BY <1>1, LinesFacts DEF Positions, Readable, MayBeRead
<1>3. \A m, n \in DOMAIN events : m < n => At(file, m) < At(file, n)
  BY <1>1, LinesFacts
<1> HIDE DEF events
<1>4. \A m, n \in DOMAIN events : m < n =>
        events[m].id < events[n].id /\ events[m].clock <= events[n].clock
  BY <1>2, <1>3 DEF IInv, InOrder
<1>5. fd = "open" => \A n \in DOMAIN events : events[n].id <= eventCount
  BY <1>2 DEF IInv, InOrder
<1> QED BY <1>4, <1>5 DEF ReplaySound, events

\* store.go:90-115,135-167: until the numbering starts again, the file is replayed in the
\* order of its identifiers and the next one is larger than all of them, whatever failed.
THEOREM ReplaySoundCorrect == Spec => []ReplaySound
  BY InvHolds, ReplaySoundFromInv, PTL

-----------------------------------------------------------------------------
(* Lines that are written whole make the log DurableLog promises. *)

Durable == Replay(file)
Safe    == Len(Replay(Cut(synced)))
Log == INSTANCE DurableLog WITH log <- Durable, safe <- Safe

\* A file of n entries, each with its newline.
Paired(f, n) ==
  /\ f \in Seq(Chunks) /\ n \in Nat /\ Len(f) = 2 * n
  /\ \A k \in 1..n : f[2 * k - 1] \in Entries /\ ~f[2 * k - 1].long /\ f[2 * k] = Newline

WholeLines == TornWrites = FALSE /\ KeepCounts = {} /\ LongCalls = {}

WholeInv ==
  /\ IInv /\ ~renumbered
  /\ \E n \in Nat : Paired(file, n)
  /\ \E s \in Nat : synced = 2 * s

LEMMA EvenOrOdd == \A k \in Nat : \E m \in Nat : k = 2 * m \/ k = 2 * m + 1
<1> SUFFICES ASSUME NEW k \in Nat PROVE \E m \in Nat : k = 2 * m \/ k = 2 * m + 1
  OBVIOUS
<1>1. k \div 2 \in Nat /\ (k = 2 * (k \div 2) \/ k = 2 * (k \div 2) + 1)
  OBVIOUS
<1> QED BY <1>1

LEMMA PairedPositions ==
  ASSUME NEW f, NEW n, Paired(f, n)
  PROVE  /\ \A i \in 1..Len(f) : i \in Positions(f) <=> \E k \in 1..n : i = 2 * k - 1
         /\ Scannable(f)
<1>1. /\ f \in Seq(Chunks) /\ n \in Nat /\ Len(f) = 2 * n /\ DOMAIN f = 1..Len(f)
      /\ Newline \notin Entries /\ TooLong \notin Entries /\ TooLong # Newline
      /\ \A k \in 1..n : f[2 * k - 1] \in Entries /\ ~f[2 * k - 1].long /\ f[2 * k] = Newline
  BY WALAssumption DEF Paired
<1>2. ASSUME NEW i \in 1..Len(f)
      PROVE  \E k \in 1..n : i = 2 * k - 1 \/ i = 2 * k
  <2>0. i \in Nat
    OBVIOUS
  <2>1. PICK m \in Nat : i = 2 * m \/ i = 2 * m + 1
    BY <2>0, EvenOrOdd
  <2>2. CASE i = 2 * m
    BY <1>1, <2>2
  <2>3. CASE i = 2 * m + 1
    <3>1. m + 1 \in 1..n /\ i = 2 * (m + 1) - 1
      BY <1>1, <2>3
    <3> QED BY <3>1
  <2> QED BY <2>1, <2>2, <2>3
<1>3. ASSUME NEW k \in 1..n
      PROVE  2 * k - 1 \in Positions(f)
  <2>1. /\ 2 * k - 1 \in 1..Len(f) /\ (2 * k - 1) + 1 = 2 * k
        /\ k = 1 \/ (k - 1 \in 1..n /\ (2 * k - 1) - 1 = 2 * (k - 1))
    BY <1>1
  <2>2. AtLineStart(f, 2 * k - 1)
    <3>1. k = 1 => 2 * k - 1 = 1
      OBVIOUS
    <3>2. k # 1 => f[(2 * k - 1) - 1] = Newline
      BY <1>1, <2>1
    <3> QED BY <3>1, <3>2 DEF AtLineStart
  <2>3. AtLineEnd(f, 2 * k - 1)
    BY <1>1, <2>1 DEF AtLineEnd
  <2> QED BY <1>1, <2>1, <2>2, <2>3 DEF Positions, Readable
<1>4. ASSUME NEW i \in 1..Len(f) PROVE f[i] # TooLong /\ (f[i] \in Entries => ~f[i].long)
  <2>1. PICK k \in 1..n : i = 2 * k - 1 \/ i = 2 * k
    BY <1>2
  <2>2. \/ f[i] \in Entries /\ ~f[i].long
        \/ f[i] = Newline
    BY <1>1, <2>1
  <2> QED BY <1>1, <2>2
<1>5. \A i \in Positions(f) : i \in 1..Len(f) /\ f[i] \in Entries
  BY <1>1 DEF Positions, Readable
<1> QED BY <1>1, <1>2, <1>3, <1>4, <1>5 DEF Scannable

\* Such a file is replayed entry by entry.
LEMMA PairedReplay ==
  ASSUME NEW f, NEW n, Paired(f, n)
  PROVE  /\ Replay(f) \in Seq(Entries) /\ Len(Replay(f)) = n
         /\ \A k \in 1..n : Replay(f)[k] = f[2 * k - 1]
<1>1. f \in Seq(Chunks) /\ n \in Nat /\ Len(f) = 2 * n
  BY DEF Paired
<1>2. ASSUME NEW m \in 0..n
      PROVE  Cardinality({j \in Positions(f) : j <= 2 * m - 1}) = m
  <2> DEFINE S == {j \in Positions(f) : j <= 2 * m - 1}
             odd == [k \in 1..m |-> 2 * k - 1]
  <2>1. \A j \in S : \E k \in 1..m : odd[k] = j
    <3> SUFFICES ASSUME NEW j \in S PROVE \E k \in 1..m : odd[k] = j
      OBVIOUS
    <3>1. j \in 1..Len(f) /\ j \in Positions(f) /\ j <= 2 * m - 1
      BY <1>1, PositionsFinite
    <3>2. PICK k \in 1..n : j = 2 * k - 1
      BY <3>1, PairedPositions
    <3>3. k \in 1..m
      BY <1>1, <3>1, <3>2
    <3> QED BY <3>2, <3>3
  <2>2. ASSUME NEW k \in 1..m PROVE odd[k] \in S
    <3>1. k \in 1..n /\ 2 * k - 1 \in 1..Len(f) /\ 2 * k - 1 <= 2 * m - 1
      BY <1>1
    <3> QED BY <3>1, PairedPositions
  <2>3. \A k, l \in 1..m : odd[k] = odd[l] => k = l
    BY <1>1
  <2>4. odd \in Bijection(1..m, S)
    BY <2>1, <2>2, <2>3 DEF Bijection, Injection, Surjection, IsInjective
  <2>5. IsFiniteSet(1..m) /\ Cardinality(1..m) = m
    <3>1. m \in Nat
      BY <1>1
    <3>2. IsFiniteSet(1..m) /\ Cardinality(1..m) = IF 1 > m THEN 0 ELSE m - 1 + 1
      BY <3>1, FS_Interval
    <3> QED BY <3>1, <3>2
  <2> QED BY <2>4, <2>5, FS_Bijection DEF ExistsBijection
<1>3. Cardinality(Positions(f)) = n
  <2>1. ASSUME NEW j \in Positions(f) PROVE j <= 2 * n - 1
    <3>1. j \in 1..Len(f)
      BY <1>1, PositionsFinite
    <3>2. PICK k \in 1..n : j = 2 * k - 1
      BY <3>1, PairedPositions
    <3> QED BY <1>1, <3>2
  <2>2. Positions(f) = {j \in Positions(f) : j <= 2 * n - 1}
    BY <2>1
  <2>3. n \in 0..n
    BY <1>1
  <2> QED BY <1>2, <2>2, <2>3
<1>4. ASSUME NEW k \in 1..n PROVE At(f, k) = 2 * k - 1
  <2>1. 2 * k - 1 \in Positions(f)
    BY <1>1, PairedPositions
  <2>2. Rank(f, 2 * k - 1) = k
    BY <1>1, <1>2 DEF Rank
  <2> QED BY <1>1, <2>1, <2>2, AtEnumerates
<1>5. Replay(f) = Lines(f)
  BY PairedPositions DEF Replay
<1> QED BY <1>1, <1>3, <1>4, <1>5, LinesFacts

\* The first 2m chunks of such a file are one.
LEMMA PairedCut ==
  ASSUME NEW f, NEW n, Paired(f, n), NEW m \in 0..n
  PROVE  /\ Paired(SubSeq(f, 1, 2 * m), m)
         /\ Replay(SubSeq(f, 1, 2 * m)) = SubSeq(Replay(f), 1, m)
         /\ Len(Replay(SubSeq(f, 1, 2 * m))) = m
<1> DEFINE c == SubSeq(f, 1, 2 * m)
<1>1. f \in Seq(Chunks) /\ n \in Nat /\ Len(f) = 2 * n /\ m \in Nat /\ m <= n
  BY DEF Paired
<1>2. c \in Seq(Chunks) /\ Len(c) = 2 * m /\ \A i \in 1..2 * m : c[i] = f[i]
  BY <1>1
<1> HIDE DEF c
<1>3. \A k \in 1..m : /\ k \in 1..n /\ 2 * k - 1 \in 1..2 * m /\ 2 * k \in 1..2 * m
                      /\ c[2 * k - 1] = f[2 * k - 1] /\ c[2 * k] = f[2 * k]
  BY <1>1, <1>2
<1>4. Paired(c, m)
  BY <1>1, <1>2, <1>3 DEF Paired
<1>5. /\ Replay(f) \in Seq(Entries) /\ Len(Replay(f)) = n
      /\ Replay(c) \in Seq(Entries) /\ Len(Replay(c)) = m
      /\ \A k \in 1..m : Replay(c)[k] = Replay(f)[k]
  BY <1>3, <1>4, PairedReplay
<1>6. Replay(c) = SubSeq(Replay(f), 1, m)
  BY <1>1, <1>5
<1> QED BY <1>4, <1>5, <1>6 DEF c

\* The mapping under the invariant: the safe prefix is what was synced.
LEMMA DurableFacts ==
  ASSUME WholeInv
  PROVE  \E n \in Nat, s \in Nat :
           /\ Paired(file, n) /\ synced = 2 * s /\ s <= n
           /\ Durable \in Seq(Entries) /\ Len(Durable) = n /\ Safe = s
<1>1. PICK n \in Nat : Paired(file, n)
  BY DEF WholeInv
<1>2. PICK s \in Nat : synced = 2 * s
  BY DEF WholeInv
<1>3. s \in 0..n
  BY <1>1, <1>2 DEF WholeInv, IInv, TypeOK, Paired
<1>4. Safe = s
  BY <1>1, <1>2, <1>3, PairedCut DEF Safe, Cut
<1> QED BY <1>1, <1>2, <1>3, <1>4, PairedReplay DEF Durable

LEMMA PairedAppend ==
  ASSUME NEW f, NEW n, Paired(f, n), NEW e \in Entries, ~e.long
  PROVE  /\ Paired(f \o <<e, Newline>>, n + 1)
         /\ Replay(f \o <<e, Newline>>) = Append(Replay(f), e)
<1> DEFINE g == f \o <<e, Newline>>
<1>1. f \in Seq(Chunks) /\ n \in Nat /\ Len(f) = 2 * n /\ e \in Chunks /\ Newline \in Chunks
  BY DEF Paired, Chunks
<1>2. /\ g \in Seq(Chunks) /\ Len(g) = 2 * n + 2
      /\ \A i \in 1..2 * n : g[i] = f[i]
      /\ g[2 * n + 1] = e /\ g[2 * n + 2] = Newline
  BY <1>1
<1> HIDE DEF g
<1>3. ASSUME NEW k \in 1..n
      PROVE  g[2 * k - 1] = f[2 * k - 1] /\ g[2 * k] = f[2 * k]
  <2>1. 2 * k - 1 \in 1..2 * n /\ 2 * k \in 1..2 * n
    BY <1>1
  <2> QED BY <1>2, <2>1
<1>4. \A k \in 1..(n + 1) : k \in 1..n \/ (k = n + 1 /\ 2 * k - 1 = 2 * n + 1 /\ 2 * k = 2 * n + 2)
  BY <1>1
<1>5. \A k \in 1..(n + 1) : g[2 * k - 1] \in Entries /\ ~g[2 * k - 1].long /\ g[2 * k] = Newline
  BY <1>2, <1>3, <1>4 DEF Paired
<1>6. Paired(g, n + 1)
  BY <1>1, <1>2, <1>5 DEF Paired
<1>7. /\ Replay(f) \in Seq(Entries) /\ Len(Replay(f)) = n
      /\ Replay(g) \in Seq(Entries) /\ Len(Replay(g)) = n + 1
      /\ \A k \in 1..n : Replay(g)[k] = Replay(f)[k]
  <2>1. /\ Replay(f) \in Seq(Entries) /\ Len(Replay(f)) = n
        /\ \A k \in 1..n : Replay(f)[k] = f[2 * k - 1]
    BY PairedReplay
  <2>2. /\ Replay(g) \in Seq(Entries) /\ Len(Replay(g)) = n + 1
        /\ \A k \in 1..(n + 1) : Replay(g)[k] = g[2 * k - 1]
    BY <1>6, PairedReplay
  <2>3. \A k \in 1..n : k \in 1..(n + 1) /\ g[2 * k - 1] = f[2 * k - 1]
    BY <1>1, <1>3
  <2>4. \A k \in 1..n : Replay(g)[k] = Replay(f)[k]
    BY <2>1, <2>2, <2>3
  <2> QED BY <2>1, <2>2, <2>4
<1>8. Replay(g)[n + 1] = e
  <2>1. n + 1 \in 1..(n + 1) /\ 2 * (n + 1) - 1 = 2 * n + 1
    BY <1>1
  <2>2. Replay(g)[n + 1] = g[2 * (n + 1) - 1]
    BY <1>6, <2>1, PairedReplay
  <2> QED BY <1>2, <2>1, <2>2
<1>9. Replay(g) = Append(Replay(f), e)
  BY <1>1, <1>7, <1>8
<1> QED BY <1>6, <1>9 DEF g

LEMMA DurableInit ==
  ASSUME WholeLines, Init
  PROVE  WholeInv /\ Log!Init
<1>1. IInv /\ ~renumbered /\ file = << >> /\ synced = 0 /\ Len(file) = 0
  BY InitInv DEF Init
<1>2. Paired(file, 0)
  BY <1>1 DEF Paired, IInv, TypeOK, Chunks
<1>3. WholeInv
  <2>1. synced = 2 * 0
    BY <1>1
  <2> QED BY <1>1, <1>2, <2>1 DEF WholeInv
<1>4. Durable = << >>
  <2>1. Durable \in Seq(Entries) /\ Len(Durable) = 0
    BY <1>2, PairedReplay DEF Durable
  <2> QED BY <2>1
<1>5. Safe = 0
  <2>1. PICK n \in Nat, s \in Nat : Paired(file, n) /\ synced = 2 * s /\ s <= n /\ Safe = s
    BY <1>3, DurableFacts
  <2> QED BY <1>1, <2>1 DEF Paired
<1> QED BY <1>3, <1>4, <1>5 DEF Log!Init

\* An append: with Sync everything is safe, without it the entry may be there or not.
LEMMA DurableAppend ==
  ASSUME WholeLines, WholeInv, AppendEvent \/ SyncFails
  PROVE  WholeInv' /\ Log!Next
<1>1. PICK n \in Nat, s \in Nat : /\ Paired(file, n) /\ synced = 2 * s /\ s <= n
                                 /\ Durable \in Seq(Entries) /\ Len(Durable) = n /\ Safe = s
  BY DurableFacts
<1>2. /\ IInv /\ IInv' /\ CallAppend /\ fd = "open" /\ ~renumbered /\ ~renumbered'
      /\ file' = file \o <<NextEntry, Newline>>
  <2>1. IInv /\ ~renumbered /\ IInv'
    BY AppendEventInv DEF WholeInv
  <2>2. /\ CallAppend /\ fd = "open" /\ renumbered' = renumbered
        /\ file' = file \o <<NextEntry, Newline>>
    BY DEF AppendEvent, SyncFails
  <2> QED BY <2>1, <2>2, Zenon
<1>3. NextEntry \in Entries /\ NextEntry.id = eventCount + 1 /\ ~NextEntry.long
  BY <1>2, NextEntryType DEF NextEntry, WholeLines
<1>4. Paired(file', n + 1) /\ Durable' = Append(Durable, NextEntry) /\ Len(file') = 2 * (n + 1)
  <2>1. Paired(file', n + 1)
    BY <1>1, <1>2, <1>3, PairedAppend
  <2>2. Replay(file') = Append(Replay(file), NextEntry)
    BY <1>1, <1>2, <1>3, PairedAppend
  <2>3. Len(file') = 2 * (n + 1)
    BY <2>1 DEF Paired
  <2> QED BY <2>1, <2>2, <2>3 DEF Durable
<1>5. synced' = 2 * (IF AppendEvent THEN n + 1 ELSE s)
  BY <1>1, <1>4 DEF AppendEvent, SyncFails
<1>6. WholeInv'
  <2>1. n + 1 \in Nat /\ (IF AppendEvent THEN n + 1 ELSE s) \in Nat
    BY <1>1
  <2> QED BY <1>2, <1>4, <1>5, <2>1 DEF WholeInv
<1>7. Safe' = IF AppendEvent THEN n + 1 ELSE s
  <2> DEFINE t == IF AppendEvent THEN n + 1 ELSE s
  <2>1. t \in 0..(n + 1) /\ synced' = 2 * t
    BY <1>1, <1>5
  <2> HIDE DEF t
  <2>2. Len(Replay(SubSeq(file', 1, 2 * t))) = t
    BY <1>4, <2>1, PairedCut
  <2>3. Safe' = Len(Replay(SubSeq(file', 1, synced')))
    BY DEF Safe, Cut, Replay, Lines, Scannable, Positions, Readable, AtLineStart, AtLineEnd, At, Rank
  <2> QED BY <2>1, <2>2, <2>3 DEF t
<1>8. Log!Newer(NextEntry)
  <2>1. Durable = Lines(file) \/ Durable = << >>
    BY <1>2, ReplayFacts DEF Durable, IInv, TypeOK, Chunks
  <2>2. \A i \in DOMAIN Durable : Durable[i].id <= eventCount /\ Durable[i] \in Entries
    BY <1>1, <1>2, <2>1, ReplaySoundFromInv DEF ReplaySound
  <2>3. \A i \in DOMAIN Durable : Durable[i].id < NextEntry.id
    <3>1. eventCount \in Nat /\ \A e \in Entries : e.id \in Nat
      BY <1>2, WALAssumption DEF IInv, TypeOK, Entries
    <3> QED BY <1>3, <2>2, <3>1
  <2> QED BY <2>3 DEF Log!Newer
<1>9. CASE AppendEvent
  BY <1>1, <1>3, <1>4, <1>7, <1>8, <1>9, <1>6 DEF Log!Next, Log!Acknowledged
<1>10. CASE ~AppendEvent
  BY <1>1, <1>3, <1>4, <1>7, <1>8, <1>10, <1>6 DEF Log!Next, Log!Uncertain
<1> QED BY <1>9, <1>10

LEMMA DurableCrash ==
  ASSUME WholeLines, WholeInv, Crash
  PROVE  WholeInv' /\ Log!Next
<1>1. PICK n \in Nat, s \in Nat : /\ Paired(file, n) /\ synced = 2 * s /\ s <= n
                                 /\ Durable \in Seq(Entries) /\ Len(Durable) = n /\ Safe = s
  BY DurableFacts
<1>2. /\ IInv' /\ ~renumbered' /\ synced' = Len(file') /\ file' \in Survivors
  BY CrashInv DEF WholeInv, Crash
<1>3. PICK k \in synced..Len(file) : file' = SubSeq(file, 1, k) /\ (k = 0 \/ file[k] = Newline)
  BY <1>2 DEF Survivors, Cut, WholeLines
<1>4. PICK m \in Nat : k = 2 * m \/ k = 2 * m + 1
  <2>1. k \in Nat
    BY <1>1, <1>3 DEF Paired
  <2> QED BY <2>1, EvenOrOdd
<1>5. k = 2 * m
  <2> SUFFICES ASSUME k = 2 * m + 1 PROVE FALSE
    BY <1>4
  <2>1. m + 1 \in 1..n /\ k = 2 * (m + 1) - 1 /\ k # 0
    BY <1>1, <1>3 DEF Paired
  <2> QED BY <1>1, <1>3, <2>1, WALAssumption DEF Paired
<1>6. m \in s..n /\ m \in 0..n
  BY <1>1, <1>3, <1>5 DEF Paired
<1>7. /\ Paired(file', m) /\ Len(file') = 2 * m /\ synced' = 2 * m
      /\ Durable' = SubSeq(Durable, 1, m)
  <2>1. file' = SubSeq(file, 1, 2 * m)
    BY <1>3, <1>5
  <2>2. Paired(file', m) /\ Replay(file') = SubSeq(Replay(file), 1, m)
    BY <1>1, <1>6, <2>1, PairedCut
  <2>3. Len(file') = 2 * m
    BY <2>2 DEF Paired
  <2> QED BY <1>2, <2>2, <2>3 DEF Durable
<1>8. WholeInv'
  BY <1>2, <1>4, <1>7 DEF WholeInv
<1>9. Safe' = m
  <2>1. m \in 0..m
    BY <1>4
  <2>2. Len(Replay(SubSeq(file', 1, 2 * m))) = m
    BY <1>7, <2>1, PairedCut
  <2>3. Safe' = Len(Replay(SubSeq(file', 1, synced')))
    BY DEF Safe, Cut, Replay, Lines, Scannable, Positions, Readable, AtLineStart, AtLineEnd, At, Rank
  <2> QED BY <1>7, <2>2, <2>3
<1>10. Log!Crash
  BY <1>1, <1>6, <1>7, <1>9 DEF Log!Crash
<1> QED BY <1>8, <1>10 DEF Log!Next

\* Everything else leaves the file as it is.
LEMMA DurableStutter ==
  ASSUME WholeInv, IInv', UNCHANGED <<file, synced>>, ~renumbered'
  PROVE  WholeInv' /\ UNCHANGED Log!vars
<1>1. WholeInv'
  BY DEF WholeInv
<1>2. Durable' = Durable
  BY DEF Durable, Replay, Lines, Scannable, Positions, Readable, AtLineStart, AtLineEnd, At, Rank
<1>3. Safe' = Safe
  BY DEF Safe, Cut, Replay, Lines, Scannable, Positions, Readable, AtLineStart, AtLineEnd, At, Rank
<1> QED BY <1>1, <1>2, <1>3 DEF Log!vars

LEMMA DurableNext ==
  ASSUME WholeLines, WholeInv, [Next]_vars
  PROVE  WholeInv' /\ [Log!Next]_(Log!vars)
<1>1. IInv /\ IInv' /\ ~renumbered /\ \E n \in Nat : Paired(file, n)
  BY NextInv DEF WholeInv
<1>2. CASE AppendEvent \/ SyncFails
  BY <1>2, DurableAppend
<1>3. CASE Crash
  BY <1>3, DurableCrash
<1>4. CASE WriteFails
  <2>1. file' = file \o << >> /\ UNCHANGED <<synced, renumbered>>
    BY <1>4 DEF WriteFails, Remnants, WholeLines
  <2>2. file' = file
    BY <1>1, <2>1 DEF IInv, TypeOK
  <2> QED BY <1>1, <2>1, <2>2, DurableStutter
<1>5. CASE Close
  BY <1>1, <1>5, DurableStutter DEF Close
<1>6. CASE Open
  <2>1. Scannable(file)
    BY <1>1, PairedPositions
  <2> QED BY <1>1, <1>6, <2>1, DurableStutter DEF Open
<1>7. CASE UNCHANGED vars
  BY <1>1, <1>7, DurableStutter DEF vars
<1>8. ~\E n \in KeepCounts : Truncate(n) \/ TruncateFails(n)
  BY DEF WholeLines
<1> QED BY <1>2, <1>3, <1>4, <1>5, <1>6, <1>7, <1>8 DEF Next

\* store.go:74-167: when lines are written whole and none is too long, the file is a log that
\* loses nothing it acknowledged, and appends under identifiers that only grow: DurableLog.
\* (The run states the same of its instance with such lines as DurableLogRefined.)
THEOREM DurableLogImplemented ==
  ASSUME TornWrites = FALSE, KeepCounts = {}, LongCalls = {}
  PROVE  Spec => Log!Spec
<1>1. WholeLines
  BY DEF WholeLines
<1>2. Init => WholeInv /\ Log!Init
  BY <1>1, DurableInit
<1>3. WholeInv /\ [Next]_vars => WholeInv' /\ [Log!Next]_(Log!vars)
  BY <1>1, DurableNext
<1> QED BY <1>2, <1>3, PTL DEF Spec, Log!Spec
=============================================================================

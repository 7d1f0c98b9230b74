------------------------ MODULE StoreAndForwardProofs ------------------------
(***************************************************************************)
(* Store-and-forward history for every number of packets, threads,         *)
(* segments and restarts, every size of a segment and every quota.         *)
(***************************************************************************)
EXTENDS HistoryPipeline, SequenceTheorems, FiniteSetTheorems, TLAPS

\* A directory as both programs keep it.
Directory(files) ==
    /\ DOMAIN files \subseteq Nat /\ IsFiniteSet(DOMAIN files)
    /\ files \in [DOMAIN files -> Seq(Nat \cup {Torn})]

-----------------------------------------------------------------------------
(* Directories of segments *)

\* A set of numbers that is not empty has a least member.
LEMMA LeastExists ==
    ASSUME NEW T \in SUBSET Nat, T # {}
    PROVE  \E x \in T : \A y \in T : x <= y
<1>1. IsWellFoundedOn(OpToRel(<, Nat), Nat)
  BY NatLessThanWellFounded
<1>2. PICK x \in T : \A y \in T : ~(<<y, x>> \in OpToRel(<, Nat))
  BY <1>1, WFMin
<1>3. ASSUME NEW y \in T, y < x PROVE FALSE
  <2>1. y \in Nat /\ x \in Nat
    OBVIOUS
  <2>2. <<y, x>> \in OpToRel(<, Nat)
    BY <2>1, <1>3, Zenon DEF OpToRel
  <2> QED
    BY <1>2, <2>2
<1> QED
  BY <1>3

\* The oldest file is in the directory and no other is older.
LEMMA OldestIsLeast ==
    ASSUME NEW files, DOMAIN files \subseteq Nat, DOMAIN files # {}
    PROVE  /\ Oldest(files) \in DOMAIN files
           /\ \A other \in DOMAIN files : Oldest(files) <= other
  BY LeastExists DEF Oldest

\* What is read of a file are its first lines, and none of them is torn.
LEMMA PrefixIsValid ==
    ASSUME NEW S, NEW lines \in Seq(S)
    PROVE  /\ ValidPrefix(lines) \in Seq(S \ {Torn})
           /\ Len(ValidPrefix(lines)) <= Len(lines)
           /\ \A i \in 1..Len(ValidPrefix(lines)) : ValidPrefix(lines)[i] = lines[i]
<1> DEFINE Ends(n) == /\ \A i \in 1..n : lines[i] # Torn
                      /\ n < Len(lines) => lines[n + 1] = Torn
<1> DEFINE end == CHOOSE n \in 0..Len(lines) : Ends(n)
<1>1. Len(lines) \in Nat /\ \A i \in 1..Len(lines) : lines[i] \in S
  BY LenProperties, ElementOfSeq
<1>2. \E n \in 0..Len(lines) : Ends(n)
  <2> DEFINE torn == {i \in 1..Len(lines) : lines[i] = Torn}
  <2>1. CASE torn = {}
    <3>1. Ends(Len(lines))
      BY <1>1, <2>1
    <3> QED
      BY <1>1, <3>1
  <2>2. CASE torn # {}
    <3>3. torn \in SUBSET Nat
      OBVIOUS
    <3>1. PICK x \in torn : \A y \in torn : x <= y
      BY ONLY <3>3, <2>2, LeastExists
    <3>2. Ends(x - 1) /\ x - 1 \in 0..Len(lines)
      BY <1>1, <3>1
    <3> QED
      BY <3>2
  <2> QED
    BY <2>1, <2>2
<1>3. end \in 0..Len(lines) /\ Ends(end)
  BY <1>2
<1>4. ValidPrefix(lines) = SubSeq(lines, 1, end)
  BY DEF ValidPrefix
<1> HIDE DEF end
<1>5. \A i \in 1..end : lines[i] \in S \ {Torn}
  BY <1>1, <1>3
<1>6. /\ SubSeq(lines, 1, end) \in Seq(S \ {Torn})
      /\ Len(SubSeq(lines, 1, end)) = IF 1 <= end THEN end - 1 + 1 ELSE 0
      /\ \A i \in 1..end - 1 + 1 : SubSeq(lines, 1, end)[i] = lines[1 + i - 1]
  BY ONLY <1>3, <1>5, SubSeqProperties
<1>7. Len(SubSeq(lines, 1, end)) = end
  BY <1>1, <1>3, <1>6
<1>8. \A i \in 1..end : SubSeq(lines, 1, end)[i] = lines[i]
  <2> TAKE i \in 1..end
  <2>1. i \in 1..end - 1 + 1 /\ 1 + i - 1 = i
    BY <1>3
  <2> QED
    BY <1>6, <2>1
<1> QED
  BY <1>1, <1>3, <1>4, <1>6, <1>7, <1>8

\* The victims are older than what is left; the current segment goes last.
LEMMA VictimsAreOldest ==
    ASSUME NEW files, DOMAIN files \subseteq Nat, NEW cur, NEW fitting
    PROVE  \E S \in SUBSET DOMAIN files :
               /\ LeastPruned(Pruned(files, cur), fitting) = Restrict(files, S)
               /\ S = {} \/ Restrict(files, S) \in fitting
               /\ \A kept \in S, gone \in DOMAIN files \ S :
                     gone # cur /\ (kept = cur \/ gone < kept)
<1> DEFINE From(first) == {id \in DOMAIN files : id = cur \/ id >= first}
<1> DEFINE Sets == {{}, DOMAIN files \cap {cur}} \cup {From(first) : first \in DOMAIN files}
<1> DEFINE Enough(S) == S = {} \/ Restrict(files, S) \in fitting
<1>1. \A S : DOMAIN Restrict(files, S) = S
  BY DEF Restrict
<1>2. Pruned(files, cur) = {Restrict(files, S) : S \in Sets}
  BY DEF Pruned
<1>3. PICK S \in Sets : Enough(S) /\ \A T \in Sets : Enough(T) => T \subseteq S
  <2> DEFINE firsts == {first \in DOMAIN files : Enough(From(first))}
  <2>1. CASE firsts # {}
    <3>1. PICK x \in firsts : \A y \in firsts : x <= y
      BY <2>1, LeastExists
    <3>2. From(x) \in Sets /\ Enough(From(x)) /\ x \in DOMAIN files
      BY <3>1
    <3>3. ASSUME NEW y \in firsts PROVE From(y) \subseteq From(x)
      <4>1. x \in Nat /\ y \in Nat /\ x <= y
        BY <3>1
      <4> QED
        BY <4>1
    <3>4. DOMAIN files \cap {cur} \subseteq From(x)
      OBVIOUS
    <3>5. ASSUME NEW T \in Sets, Enough(T) PROVE T \subseteq From(x)
      <4>1. CASE \E y \in DOMAIN files : T = From(y)
        BY <3>3, <3>5, <4>1
      <4> QED
        BY <3>4, <4>1
    <3> QED
      BY <3>2, <3>5
  <2>2. CASE firsts = {} /\ Enough(DOMAIN files \cap {cur})
    BY <2>2
  <2>3. CASE firsts = {} /\ ~Enough(DOMAIN files \cap {cur})
    <3>1. Enough({}) /\ \A T \in Sets : Enough(T) => T = {}
      BY <2>3
    <3> QED
      BY <3>1
  <2> QED
    BY <2>1, <2>2, <2>3
<1>4. LeastPruned(Pruned(files, cur), fitting) = Restrict(files, S)
  <2> DEFINE enough == {f \in Pruned(files, cur) : DOMAIN f = {} \/ f \in fitting}
  <2>1. LeastPruned(Pruned(files, cur), fitting)
            = CHOOSE f \in enough : \A other \in enough : DOMAIN other \subseteq DOMAIN f
    BY DEF LeastPruned
  <2> HIDE DEF Sets, Enough
  <2>2. \A f : f \in enough <=> \E T \in Sets : Enough(T) /\ f = Restrict(files, T)
    BY <1>1, <1>2 DEF Enough
  <2> HIDE DEF enough
  <2>3. Restrict(files, S) \in enough
        /\ \A other \in enough : DOMAIN other \subseteq DOMAIN Restrict(files, S)
    BY <1>1, <1>3, <2>2
  <2>4. ASSUME NEW f \in enough, \A other \in enough : DOMAIN other \subseteq DOMAIN f
        PROVE  f = Restrict(files, S)
    <3>1. PICK T \in Sets : Enough(T) /\ f = Restrict(files, T)
      BY <2>2
    <3>2. T \subseteq S /\ S \subseteq T
      BY <1>1, <1>3, <2>3, <2>4, <3>1
    <3> QED
      BY <3>1, <3>2
  <2> QED
    BY <2>1, <2>3, <2>4
<1>5. S \in SUBSET DOMAIN files
  BY <1>3
<1>6. \A kept \in S, gone \in DOMAIN files \ S : gone # cur /\ (kept = cur \/ gone < kept)
  BY <1>3
<1> QED
  BY <1>3, <1>4, <1>5, <1>6

\* A record is counted by its file and its line.
LEMMA RecordsAre ==
    ASSUME NEW files
    PROVE  \A r : r \in Records(files) <=>
                      \E id \in DOMAIN files : \E i \in DOMAIN files[id] : r = <<id, i>>
  BY DEF Records

\* A directory holds finitely many records.
LEMMA RecordsAreFinite ==
    ASSUME NEW files, Directory(files)
    PROVE  IsFiniteSet(Records(files)) /\ Used(files) \in Nat
<1> DEFINE ofFile == [id \in DOMAIN files |-> {id} \X DOMAIN files[id]]
<1> DEFINE T == {{id} \X DOMAIN files[id] : id \in DOMAIN files}
<1>1. ofFile \in Surjection(DOMAIN files, T)
  BY DEF Surjection
<1>2. IsFiniteSet(T)
  BY <1>1, FS_Surjection DEF Directory
<1>3. ASSUME NEW id \in DOMAIN files PROVE IsFiniteSet({id} \X DOMAIN files[id])
  <2>1. DOMAIN files[id] = 1..Len(files[id]) /\ Len(files[id]) \in Nat
    BY LenProperties DEF Directory
  <2>2. IsFiniteSet(DOMAIN files[id]) /\ IsFiniteSet({id})
    <3>1. Len(files[id]) \in Int /\ 1 \in Int
      BY <2>1
    <3>2. IsFiniteSet(DOMAIN files[id])
      BY ONLY <2>1, <3>1, FS_Interval
    <3>3. IsFiniteSet({id})
      BY ONLY FS_Singleton, Zenon
    <3> QED
      BY <3>2, <3>3
  <2> QED
    BY <2>2, FS_Product
<1>4. IsFiniteSet(UNION T)
  BY <1>2, <1>3, FS_UNION
<1> QED
  BY <1>4, FS_CardinalityType DEF Records, Used

\* Fewer records use no more.
LEMMA LessIsUsed ==
    ASSUME NEW files, Directory(files), NEW left, Records(left) \subseteq Records(files)
    PROVE  Used(left) <= Used(files) /\ Used(left) \in Nat
  BY RecordsAreFinite, FS_Subset, FS_CardinalityType DEF Used

\* What is left of a directory is one.
LEMMA RestrictedDirectory ==
    ASSUME NEW files, Directory(files), NEW S \in SUBSET DOMAIN files
    PROVE  /\ Directory(Restrict(files, S)) /\ DOMAIN Restrict(files, S) = S
           /\ \A id \in S : Restrict(files, S)[id] = files[id]
           /\ Used(Restrict(files, S)) <= Used(files)
           /\ S = {} => Used(Restrict(files, S)) = 0
<1>1. DOMAIN Restrict(files, S) = S /\ \A id \in S : Restrict(files, S)[id] = files[id]
  BY DEF Restrict
<1>2. Directory(Restrict(files, S))
  BY FS_Subset DEF Directory, Restrict
<1>3. Records(Restrict(files, S)) \subseteq Records(files)
  BY <1>1, RecordsAre
<1>4. S = {} => Used(Restrict(files, S)) = 0
  BY <1>1, RecordsAre, FS_EmptySet DEF Used
<1> QED
  BY <1>1, <1>2, <1>3, <1>4, LessIsUsed

\* A new file uses nothing.
LEMMA CreatedDirectory ==
    ASSUME NEW files, Directory(files), NEW id \in Nat \ DOMAIN files
    PROVE  /\ Directory(Create(files, id)) /\ DOMAIN Create(files, id) = DOMAIN files \cup {id}
           /\ Create(files, id)[id] = <<>>
           /\ \A name \in DOMAIN files : Create(files, id)[name] = files[name]
           /\ Used(Create(files, id)) = Used(files)
<1>1. /\ DOMAIN Create(files, id) = DOMAIN files \cup {id} /\ Create(files, id)[id] = <<>>
      /\ \A name \in DOMAIN files : Create(files, id)[name] = files[name]
  BY DEF Create
<1>2. Directory(Create(files, id))
  BY FS_AddElement, EmptySeq DEF Directory, Create
<1>3. \A r : r \in Records(Create(files, id)) <=> r \in Records(files)
  BY <1>1, RecordsAre
<1>4. Records(Create(files, id)) = Records(files)
  BY <1>3
<1> QED
  BY <1>1, <1>2, <1>4 DEF Used

\* An appended line uses one unit more.
LEMMA AppendedDirectory ==
    ASSUME NEW files, Directory(files), NEW id \in DOMAIN files, NEW line \in Nat \cup {Torn}
    PROVE  /\ Directory(AppendTo(files, id, line))
           /\ DOMAIN AppendTo(files, id, line) = DOMAIN files
           /\ AppendTo(files, id, line)[id] = Append(files[id], line)
           /\ \A name \in DOMAIN files \ {id} : AppendTo(files, id, line)[name] = files[name]
           /\ Used(AppendTo(files, id, line)) = Used(files) + 1
<1> DEFINE new == AppendTo(files, id, line)
<1>1. files[id] \in Seq(Nat \cup {Torn}) /\ files \in [DOMAIN files -> Seq(Nat \cup {Torn})]
  BY DEF Directory
<1>2. /\ Append(files[id], line) \in Seq(Nat \cup {Torn})
      /\ Len(Append(files[id], line)) = Len(files[id]) + 1 /\ Len(files[id]) \in Nat
      /\ DOMAIN Append(files[id], line) = 1..Len(files[id]) + 1
      /\ DOMAIN files[id] = 1..Len(files[id])
  BY <1>1, AppendProperties, LenProperties
<1>3. /\ new \in [DOMAIN files -> Seq(Nat \cup {Torn})] /\ DOMAIN new = DOMAIN files
      /\ new[id] = Append(files[id], line)
      /\ \A name \in DOMAIN files \ {id} : new[name] = files[name]
  BY <1>1, <1>2 DEF AppendTo
<1>4. Directory(new)
  BY <1>3 DEF Directory
<1> HIDE DEF new
<1> DEFINE r == <<id, Len(files[id]) + 1>>
<1>5. Records(new) = Records(files) \cup {r}
  <2>1. \A q : q \in Records(new) <=>
                   \E name \in DOMAIN files : \E i \in DOMAIN new[name] : q = <<name, i>>
    BY <1>3, RecordsAre
  <2>2. \A q : q \in Records(files) <=>
                   \E name \in DOMAIN files : \E i \in DOMAIN files[name] : q = <<name, i>>
    BY RecordsAre
  <2>3. \A i : i \in DOMAIN new[id] <=> i \in DOMAIN files[id] \/ i = Len(files[id]) + 1
    BY <1>2, <1>3
  <2> QED
    BY <1>3, <2>1, <2>2, <2>3
<1>6. r \notin Records(files)
  BY <1>2, RecordsAre
<1>7. Used(new) = Used(files) + 1
  BY <1>5, <1>6, RecordsAreFinite, FS_AddElement DEF Used
<1> QED
  BY <1>3, <1>4, <1>7 DEF new

-----------------------------------------------------------------------------
(* The spool of the device *)

Whole(lines) == \A i \in 1..Len(lines) : lines[i] # Torn

\* Files of the spool: bounded, and torn at their ends only, unless the card writes
\* half a line and says that it has written it.
Sound(files) ==
    /\ DOMAIN files \subseteq 1..MaxPackets /\ files \in [DOMAIN files -> Seq(Lines)]
    /\ \A id \in DOMAIN files : Len(files[id]) <= SegmentRecords
    /\ "short" \notin WriteFaults =>
          \A id \in DOMAIN files : \A i \in 1..(Len(files[id]) - 1) : files[id][i] # Torn

\* The current segment is the newest one, and whole.
CurrentIsNewest ==
    /\ current \in DOMAIN segs \cup {NoSegment}
    /\ current # NoSegment =>
          /\ \A id \in DOMAIN segs : id <= current
          /\ "short" \notin WriteFaults => Whole(segs[current])

\* What is posted is the oldest segment, up to its torn end.
PostingIsOldest ==
    posting # <<>> =>
        /\ posting \in [id : DOMAIN segs, batch : Seq(1..MaxPackets)]
        /\ \A id \in DOMAIN segs : posting.id <= id

SpoolInv ==
    /\ Sound(segs) /\ WithinQuota
    /\ \A id \in DOMAIN segs : id < next
    /\ count \in 0..SegmentRecords /\ sdReady \in BOOLEAN /\ next \in 1..(MaxPackets + 1)
    /\ CurrentIsNewest
    /\ PostingIsOldest

\* Files that are left of the spool leave no gap.
InOrder(files) ==
    \A gone \in DOMAIN segs \ DOMAIN files, kept \in DOMAIN segs \cap DOMAIN files : gone < kept

\* The files of the spool are a directory.
LEMMA SoundDirectory ==
    ASSUME NEW files, Sound(files)
    PROVE  Directory(files) /\ IsFiniteSet(DOMAIN files)
<1>1. MaxPackets \in Nat /\ 1 \in Int /\ MaxPackets \in Int
  BY SpoolAssumption
<1>2. IsFiniteSet(1..MaxPackets)
  BY ONLY <1>1, FS_Interval
<1>3. IsFiniteSet(DOMAIN files)
  BY <1>2, FS_Subset DEF Sound
<1>4. Lines \subseteq Nat \cup {Torn}
  BY <1>1 DEF Lines
<1>5. \A id \in DOMAIN files : files[id] \in Seq(Nat \cup {Torn})
  BY <1>4, SeqMonotonic DEF Sound
<1> QED
  BY <1>1, <1>3, <1>5 DEF Sound, Directory

\* pruneSpool leaves what fits, or nothing.
LEMMA PrunedSpool ==
    ASSUME NEW files, Sound(files), NEW cur, NEW incoming
    PROVE  \E S \in SUBSET DOMAIN files :
               /\ PruneSpool(files, cur, incoming) = Restrict(files, S)
               /\ S = {} \/ Fits(Restrict(files, S), incoming)
               /\ \A kept \in S, gone \in DOMAIN files \ S :
                     gone # cur /\ (kept = cur \/ gone < kept)
<1> DEFINE fitting == {f \in Pruned(files, cur) : Fits(f, incoming)}
<1>1. PruneSpool(files, cur, incoming) = LeastPruned(Pruned(files, cur), fitting)
  BY DEF PruneSpool
<1>2. DOMAIN files \subseteq Nat
  BY SoundDirectory DEF Directory
<1>3. \A f : f \in fitting => Fits(f, incoming)
  OBVIOUS
<1> HIDE DEF fitting
<1>4. \E S \in SUBSET DOMAIN files :
          /\ LeastPruned(Pruned(files, cur), fitting) = Restrict(files, S)
          /\ S = {} \/ Restrict(files, S) \in fitting
          /\ \A kept \in S, gone \in DOMAIN files \ S :
                gone # cur /\ (kept = cur \/ gone < kept)
  BY <1>2, VictimsAreOldest
<1> QED
  BY <1>1, <1>3, <1>4

\* What is left of sound files is sound.
LEMMA RestrictedSound ==
    ASSUME NEW files, Sound(files), NEW S \in SUBSET DOMAIN files
    PROVE  /\ Sound(Restrict(files, S)) /\ DOMAIN Restrict(files, S) = S
           /\ \A id \in S : Restrict(files, S)[id] = files[id]
           /\ Used(Restrict(files, S)) <= Used(files)
           /\ Used(Restrict(files, S)) \in Nat /\ Used(files) \in Nat
           /\ S = {} => Used(Restrict(files, S)) = 0
<1>1. Directory(files)
  BY SoundDirectory
<1>2. /\ DOMAIN Restrict(files, S) = S /\ \A id \in S : Restrict(files, S)[id] = files[id]
      /\ Directory(Restrict(files, S)) /\ Used(Restrict(files, S)) <= Used(files)
      /\ S = {} => Used(Restrict(files, S)) = 0
  BY <1>1, RestrictedDirectory
<1>3. Restrict(files, S) \in [S -> Seq(Lines)]
  BY DEF Restrict, Sound
<1>4. Sound(Restrict(files, S))
  BY <1>2, <1>3 DEF Sound
<1>5. Used(Restrict(files, S)) \in Nat /\ Used(files) \in Nat
  BY <1>1, <1>2, RecordsAreFinite
<1> QED
  BY <1>2, <1>4, <1>5

\* The directory pruned for one record.
LEMMA KeptSound ==
    ASSUME SpoolInv
    PROVE  /\ Sound(Kept) /\ InOrder(Kept) /\ DOMAIN Kept \subseteq DOMAIN segs
           /\ \A id \in DOMAIN Kept : Kept[id] = segs[id]
           /\ Used(Kept) + 1 <= Quota /\ Used(Kept) \in Nat
<1>1. Sound(segs) /\ Quota \in Nat \ {0}
  BY SpoolAssumption DEF SpoolInv
<1>2. PICK S \in SUBSET DOMAIN segs :
          /\ Kept = Restrict(segs, S)
          /\ S = {} \/ Fits(Restrict(segs, S), 1)
          /\ \A kept \in S, gone \in DOMAIN segs \ S :
                gone # current /\ (kept = current \/ gone < kept)
  BY <1>1, PrunedSpool DEF Kept
<1>3. /\ Sound(Kept) /\ DOMAIN Kept = S /\ \A id \in S : Kept[id] = segs[id]
      /\ Used(Kept) \in Nat /\ (S = {} => Used(Kept) = 0)
  BY <1>1, <1>2, RestrictedSound
<1>4. Used(Kept) + 1 <= Quota
  BY <1>1, <1>2, <1>3 DEF Fits
<1>5. ASSUME NEW gone \in DOMAIN segs \ S, NEW kept \in S PROVE gone < kept
  <2>1. kept \in Nat /\ gone \in Nat
    BY SpoolAssumption DEF SpoolInv, Sound
  <2>2. CASE kept = current
    BY <1>2, <2>1, <2>2, SegmentsAssumption DEF SpoolInv, CurrentIsNewest
  <2> QED
    BY <1>2, <2>2
<1> QED
  BY <1>3, <1>4, <1>5 DEF InOrder

\* The file that is open for the next record: the newest one, with room in it.
LEMMA OpenedSound ==
    ASSUME SpoolInv, next <= MaxPackets
    PROVE  /\ Sound(Opened) /\ InOrder(Opened)
           /\ Target \in DOMAIN Opened /\ Target # NoSegment
           /\ \A id \in DOMAIN Opened : id <= Target /\ id <= next
           /\ Len(Opened[Target]) + 1 <= SegmentRecords
           /\ "short" \notin WriteFaults => Whole(Opened[Target])
           /\ Used(Opened) + 1 <= Quota
           /\ ~MustRoll => count + 1 <= SegmentRecords
<1>1. /\ Sound(Kept) /\ InOrder(Kept) /\ DOMAIN Kept \subseteq DOMAIN segs
      /\ \A id \in DOMAIN Kept : Kept[id] = segs[id]
      /\ Used(Kept) + 1 <= Quota /\ Used(Kept) \in Nat
  BY KeptSound
<1>2. next \in 1..MaxPackets /\ SegmentRecords \in Nat \ {0} /\ count \in 0..SegmentRecords
      /\ DOMAIN segs \subseteq 1..MaxPackets /\ \A id \in DOMAIN segs : id < next
  BY SpoolAssumption DEF SpoolInv, Sound
<1>3. CASE MustRoll
  <2>1. Opened = Create(Kept, next) /\ Target = next
    BY <1>3 DEF Opened, Target
  <2>2. next \in Nat \ DOMAIN Kept /\ Directory(Kept) /\ next # NoSegment
    BY <1>1, <1>2, SoundDirectory, SegmentsAssumption
  <2>3. /\ DOMAIN Opened = DOMAIN Kept \cup {next} /\ Opened[next] = <<>>
        /\ \A id \in DOMAIN Kept : Opened[id] = Kept[id]
        /\ Used(Opened) = Used(Kept)
    BY <2>1, <2>2, CreatedDirectory
  <2>4. Opened \in [DOMAIN Opened -> Seq(Lines)]
    BY <1>1, <2>1, EmptySeq DEF Sound, Create
  <2>5. Len(Opened[next]) = 0
    BY <2>3
  <2>6. Sound(Opened)
    <3>1. DOMAIN Opened \subseteq 1..MaxPackets
      BY <1>1, <1>2, <2>3 DEF Sound
    <3>2. \A id \in DOMAIN Kept : Len(Opened[id]) <= SegmentRecords
      BY <1>1, <2>3 DEF Sound
    <3>3. "short" \notin WriteFaults =>
              \A id \in DOMAIN Kept : \A i \in 1..(Len(Opened[id]) - 1) : Opened[id][i] # Torn
      BY <1>1, <2>3 DEF Sound
    <3> QED
      BY <1>2, <2>3, <2>4, <2>5, <3>1, <3>2, <3>3 DEF Sound
  <2>7. InOrder(Opened)
    BY <1>1, <1>2, <2>3 DEF InOrder
  <2> QED
    BY <1>1, <1>2, <1>3, <2>1, <2>2, <2>3, <2>5, <2>6, <2>7 DEF Whole
<1>4. CASE ~MustRoll
  <2>1. Opened = Kept /\ Target = current /\ current \in DOMAIN Kept /\ current # NoSegment
    BY <1>4 DEF Opened, Target, MustRoll, CurrentIn
  <2>2. ~(Len(Kept[current]) + 1 > SegmentRecords) /\ ~(count >= SegmentRecords)
    BY <1>4, <2>1 DEF MustRoll, CurrentIn
  <2>3. Len(Kept[current]) \in Nat
    BY <1>1, <2>1, LenProperties DEF Sound
  <2> QED
    BY <1>1, <1>2, <1>4, <2>1, <2>2, <2>3 DEF SpoolInv, CurrentIsNewest
<1> QED
  BY <1>3, <1>4

\* The same with the record in it, or with a part of it.
LEMMA WrittenSound ==
    ASSUME SpoolInv, next <= MaxPackets, NEW line \in {next, Torn}
    PROVE  LET written == AppendTo(Opened, Target, line)
           IN  /\ Sound(written) /\ InOrder(written)
               /\ DOMAIN written = DOMAIN Opened
               /\ Used(written) <= Quota
               /\ line = next /\ "short" \notin WriteFaults => Whole(written[Target])
<1> DEFINE written == AppendTo(Opened, Target, line)
<1>1. /\ Sound(Opened) /\ InOrder(Opened) /\ Target \in DOMAIN Opened
      /\ Len(Opened[Target]) + 1 <= SegmentRecords
      /\ "short" \notin WriteFaults => Whole(Opened[Target])
      /\ Used(Opened) + 1 <= Quota
  BY OpenedSound
<1>2. line \in Lines /\ line \in Nat \cup {Torn} /\ next \in Nat
  BY SpoolAssumption DEF SpoolInv, Lines
<1>3. /\ DOMAIN written = DOMAIN Opened
      /\ written[Target] = Append(Opened[Target], line)
      /\ \A id \in DOMAIN Opened \ {Target} : written[id] = Opened[id]
      /\ Used(written) = Used(Opened) + 1
  BY <1>1, <1>2, SoundDirectory, AppendedDirectory
<1>4. Opened[Target] \in Seq(Lines)
  BY <1>1 DEF Sound
<1>5. /\ written[Target] \in Seq(Lines) /\ Len(written[Target]) = Len(Opened[Target]) + 1
      /\ \A i \in 1..Len(Opened[Target]) : written[Target][i] = Opened[Target][i]
      /\ written[Target][Len(Opened[Target]) + 1] = line /\ Len(Opened[Target]) \in Nat
  BY <1>2, <1>3, <1>4, AppendProperties, LenProperties
<1>6. written \in [DOMAIN written -> Seq(Lines)]
  BY <1>1, <1>4, <1>5 DEF Sound, AppendTo
<1> HIDE DEF written
<1>7. Sound(written)
  <2>1. DOMAIN written \subseteq 1..MaxPackets
    BY <1>1, <1>3 DEF Sound
  <2>2. \A id \in DOMAIN written : Len(written[id]) <= SegmentRecords
    BY <1>1, <1>3, <1>5 DEF Sound
  <2>3. ASSUME "short" \notin WriteFaults, NEW id \in DOMAIN written,
               NEW i \in 1..(Len(written[id]) - 1)
        PROVE  written[id][i] # Torn
    <3>1. CASE id = Target
      <4>1. i \in 1..Len(Opened[Target])
        BY <1>5, <3>1
      <4> QED
        BY <1>1, <1>5, <2>3, <3>1, <4>1 DEF Whole
    <3>2. CASE id # Target
      BY <1>1, <1>3, <2>3, <3>2 DEF Sound
    <3> QED
      BY <3>1, <3>2
  <2> QED
    BY <1>6, <2>1, <2>2, <2>3 DEF Sound
<1>8. InOrder(written)
  BY <1>1, <1>3 DEF InOrder
<1>9. line = next /\ "short" \notin WriteFaults => Whole(written[Target])
  <2> SUFFICES ASSUME line = next, "short" \notin WriteFaults, NEW i \in 1..Len(written[Target])
               PROVE  written[Target][i] # Torn
    BY DEF Whole
  <2>1. i \in 1..Len(Opened[Target]) \/ i = Len(Opened[Target]) + 1
    BY <1>5
  <2> QED
    BY <1>1, <1>2, <1>5, <2>1, SegmentsAssumption DEF Whole
<1>10. Used(written) <= Quota
  BY <1>1, <1>3
<1> QED
  BY <1>3, <1>7, <1>8, <1>9, <1>10 DEF written

\* A record that is written, and the files that are pruned after it.
LEMMA RecordKeepsSpool ==
    ASSUME SpoolInv, NEW line \in LineWritten, SpoolRecord(line)
    PROVE  SpoolInv' /\ InOrder(segs')
<1> DEFINE written == AppendTo(Opened, Target, line)
<1>1. /\ next <= MaxPackets /\ posting = <<>> /\ sdReady
      /\ segs' = PruneSpool(written, Target, 0) /\ current' = CurrentIn(segs', Target)
      /\ count' = IF Target \notin DOMAIN segs' THEN 0 ELSE IF MustRoll THEN 1 ELSE count + 1
      /\ next' = next + 1 /\ sdReady' = sdReady /\ posting' = posting
  BY DEF SpoolRecord
<1>2. /\ line \in {next, Torn} /\ ("short" \notin WriteFaults => line = next)
      /\ next \in 1..MaxPackets /\ SegmentRecords \in Nat \ {0} /\ MaxPackets \in Nat
      /\ count \in 0..SegmentRecords /\ sdReady \in BOOLEAN /\ Quota \in Nat
  BY <1>1, SpoolAssumption DEF LineWritten, SpoolInv
<1>3. /\ Target \in DOMAIN Opened /\ Target # NoSegment
      /\ \A id \in DOMAIN Opened : id <= Target /\ id <= next
      /\ ~MustRoll => count + 1 <= SegmentRecords
  BY <1>1, OpenedSound
<1>4. /\ Sound(written) /\ InOrder(written) /\ DOMAIN written = DOMAIN Opened
      /\ Used(written) <= Quota
      /\ "short" \notin WriteFaults => Whole(written[Target])
  BY <1>1, <1>2, WrittenSound
<1> HIDE DEF written
<1>5. PICK S \in SUBSET DOMAIN written :
          /\ segs' = Restrict(written, S)
          /\ \A kept \in S, gone \in DOMAIN written \ S :
                gone # Target /\ (kept = Target \/ gone < kept)
  BY <1>1, <1>4, PrunedSpool
<1>6. /\ Sound(segs') /\ DOMAIN segs' = S /\ \A id \in S : segs'[id] = written[id]
      /\ Used(segs') <= Quota
  <2>1. /\ Sound(Restrict(written, S)) /\ DOMAIN Restrict(written, S) = S
        /\ \A id \in S : Restrict(written, S)[id] = written[id]
        /\ Used(Restrict(written, S)) <= Used(written)
        /\ Used(Restrict(written, S)) \in Nat /\ Used(written) \in Nat
    BY <1>4, RestrictedSound
  <2> QED
    BY <1>2, <1>4, <1>5, <2>1
<1>7. InOrder(segs')
  <2> SUFFICES ASSUME NEW gone \in DOMAIN segs \ S, NEW kept \in DOMAIN segs \cap S
               PROVE  gone < kept
    BY <1>6 DEF InOrder
  <2>1. kept \in DOMAIN written
    OBVIOUS
  <2>2. CASE gone \in DOMAIN written
    <3>1. gone \in Nat /\ kept \in Nat /\ Target \in Nat
      BY <1>3, <1>4, <2>2 DEF Sound
    <3> QED
      BY <1>3, <1>4, <1>5, <2>2, <3>1
  <2>3. CASE gone \notin DOMAIN written
    BY <1>4, <2>1, <2>3 DEF InOrder
  <2> QED
    BY <2>2, <2>3
<1>8. \A id \in DOMAIN segs' : id < next'
  <2> TAKE id \in DOMAIN segs'
  <2>1. id \in DOMAIN written /\ id \in Nat
    BY <1>4, <1>6 DEF Sound
  <2> QED
    BY <1>1, <1>2, <1>3, <1>4, <2>1
<1>9. CurrentIsNewest'
  <2>1. CASE Target \in S
    <3>1. current' = Target /\ \A id \in S : id <= Target
      BY <1>1, <1>3, <1>4, <1>6, <2>1 DEF CurrentIn
    <3> QED
      BY <1>4, <1>6, <2>1, <3>1 DEF CurrentIsNewest
  <2>2. CASE Target \notin S
    BY <1>1, <1>6, <2>2 DEF CurrentIn, CurrentIsNewest
  <2> QED
    BY <2>1, <2>2
<1>10. count' \in 0..SegmentRecords /\ sdReady' \in BOOLEAN /\ next' \in 1..(MaxPackets + 1)
  BY <1>1, <1>2, <1>3
<1>11. PostingIsOldest'
  BY <1>1 DEF PostingIsOldest
<1> QED
  BY <1>6, <1>7, <1>8, <1>9, <1>10, <1>11 DEF SpoolInv, WithinQuota

\* Files without a current segment keep the spool's invariant.
LEMMA WithoutCurrent ==
    ASSUME SpoolInv, Sound(segs'), Used(segs') <= Quota,
           \A id \in DOMAIN segs' : id < next',
           current' = NoSegment, count' = 0, sdReady' \in BOOLEAN, posting' = <<>>,
           next' \in 1..(MaxPackets + 1)
    PROVE  SpoolInv'
  BY SpoolAssumption DEF SpoolInv, WithinQuota, CurrentIsNewest, PostingIsOldest

\* A card that fails, and power that fails in a write.
LEMMA FailureKeepsSpool ==
    ASSUME SpoolInv,
           \/ \E fault \in Faults : SpoolFails(fault)
           \/ \E line \in {next, Torn, NoSegment} : PowerLossInWrite(line)
    PROVE  SpoolInv' /\ InOrder(segs')
<1>1. /\ next <= MaxPackets /\ posting' = <<>> /\ current' = NoSegment /\ count' = 0
      /\ next' = next + 1 /\ sdReady' \in BOOLEAN
  BY DEF SpoolFails, PowerLossInWrite, MarkSdUnavailable, Reboot
<1>2. next \in 1..MaxPackets /\ Quota \in Nat /\ MaxPackets \in Nat
  BY <1>1, SpoolAssumption DEF SpoolInv
<1>3. segs' \in {Kept, Opened} \cup {AppendTo(Opened, Target, line) : line \in {next, Torn}}
  BY DEF SpoolFails, PowerLossInWrite
<1>4. /\ Sound(Kept) /\ InOrder(Kept) /\ DOMAIN Kept \subseteq DOMAIN segs
      /\ Used(Kept) + 1 <= Quota /\ Used(Kept) \in Nat
  BY KeptSound
<1>5. /\ Sound(Opened) /\ InOrder(Opened) /\ Used(Opened) + 1 <= Quota
      /\ \A id \in DOMAIN Opened : id <= next
  BY <1>1, OpenedSound
<1>6. Used(Opened) \in Nat
  BY <1>5, SoundDirectory, RecordsAreFinite
<1>7. \A line \in {next, Torn} :
          LET written == AppendTo(Opened, Target, line)
          IN  /\ Sound(written) /\ InOrder(written) /\ DOMAIN written = DOMAIN Opened
              /\ Used(written) <= Quota
  BY <1>1, WrittenSound
<1>8. /\ Sound(segs') /\ InOrder(segs') /\ Used(segs') <= Quota
      /\ DOMAIN segs' \subseteq DOMAIN segs \/ DOMAIN segs' = DOMAIN Opened
  <2>1. CASE segs' = Kept
    BY <1>2, <1>4, <2>1
  <2>2. CASE segs' = Opened
    BY <1>2, <1>5, <1>6, <2>2
  <2>3. CASE \E line \in {next, Torn} : segs' = AppendTo(Opened, Target, line)
    BY <1>7, <2>3
  <2> QED
    BY <1>3, <2>1, <2>2, <2>3
<1>9. \A id \in DOMAIN segs' : id < next'
  <2> TAKE id \in DOMAIN segs'
  <2>1. id \in Nat
    BY <1>2, <1>8 DEF Sound
  <2>2. id < next \/ id <= next
    BY <1>5, <1>8 DEF SpoolInv
  <2> QED
    BY <1>1, <1>2, <2>1, <2>2
<1>10. next' \in 1..(MaxPackets + 1)
  BY <1>1, <1>2
<1> QED
  BY <1>1, <1>8, <1>9, <1>10, WithoutCurrent

\* The oldest file leaves, drained or discarded.
LEMMA RemovalKeepsSpool ==
    ASSUME SpoolInv, NEW id \in DOMAIN segs, \A other \in DOMAIN segs : id <= other,
           RemoveSegment(id), posting' = <<>>, UNCHANGED <<sdReady, next>>
    PROVE  SpoolInv' /\ InOrder(segs')
<1> DEFINE S == DOMAIN segs \ {id}
<1>1. /\ segs' = Restrict(segs, S) /\ current' = CurrentIn(segs', current)
      /\ count' = IF current' = NoSegment THEN 0 ELSE count
  BY DEF RemoveSegment, Drop
<1>2. /\ Sound(segs') /\ DOMAIN segs' = S /\ \A name \in S : segs'[name] = segs[name]
      /\ Used(segs') <= Used(segs) /\ Used(segs') \in Nat /\ Used(segs) \in Nat
  BY <1>1, RestrictedSound DEF SpoolInv
<1>3. Used(segs') <= Quota
  BY <1>2, SpoolAssumption DEF SpoolInv, WithinQuota
<1>4. InOrder(segs')
  <2> SUFFICES ASSUME NEW kept \in S PROVE id < kept
    BY <1>2 DEF InOrder
  <2>1. id \in Nat /\ kept \in Nat /\ id <= kept /\ id # kept
    BY SpoolAssumption DEF SpoolInv, Sound
  <2> QED
    BY <2>1
<1>5. CurrentIsNewest'
  BY <1>1, <1>2 DEF SpoolInv, CurrentIsNewest, CurrentIn
<1>6. count' \in 0..SegmentRecords
  BY <1>1, SpoolAssumption DEF SpoolInv
<1> QED
  BY <1>2, <1>3, <1>4, <1>5, <1>6 DEF SpoolInv, WithinQuota, PostingIsOldest

\* The oldest file is posted up to its torn end.
LEMMA PostKeepsSpool ==
    ASSUME SpoolInv, DrainStart
    PROVE  SpoolInv' /\ posting' # <<>>
<1> DEFINE oldest == Oldest(segs)
<1>1. /\ DOMAIN segs # {} /\ ValidPrefix(segs[oldest]) # <<>>
      /\ posting' = [id |-> oldest, batch |-> ValidPrefix(segs[oldest])]
      /\ UNCHANGED <<segs, current, count, sdReady, next>>
  BY DEF DrainStart
<1>2. oldest \in DOMAIN segs /\ \A other \in DOMAIN segs : oldest <= other
  BY <1>1, SoundDirectory, OldestIsLeast DEF SpoolInv, Directory
<1>3. ValidPrefix(segs[oldest]) \in Seq(Lines \ {Torn})
  BY <1>2, PrefixIsValid DEF SpoolInv, Sound
<1>4. Lines \ {Torn} = 1..MaxPackets
  BY SegmentsAssumption, SpoolAssumption DEF Lines
<1>5. PostingIsOldest'
  BY <1>1, <1>2, <1>3, <1>4 DEF PostingIsOldest
<1>6. posting' # <<>>
  BY <1>1
<1>7. /\ Sound(segs)' /\ WithinQuota' /\ CurrentIsNewest'
      /\ (\A id \in DOMAIN segs : id < next)'
      /\ (count \in 0..SegmentRecords /\ sdReady \in BOOLEAN /\ next \in 1..(MaxPackets + 1))'
  BY <1>1 DEF SpoolInv, WithinQuota, CurrentIsNewest
<1> QED
  BY <1>5, <1>6, <1>7 DEF SpoolInv

\* The spool's invariant survives every step of the device and every answer, and no
\* step leaves a gap.
LEMMA SpoolStep == SpoolInv /\ [SpoolNext]_spoolVars => SpoolInv' /\ InOrder(segs')
<1> SUFFICES ASSUME SpoolInv, [SpoolNext]_spoolVars PROVE SpoolInv' /\ InOrder(segs')
  OBVIOUS
<1>1. ASSUME segs' = segs PROVE InOrder(segs')
  BY <1>1 DEF InOrder
<1>2. ASSUME NEW line \in LineWritten, SpoolRecord(line) PROVE SpoolInv' /\ InOrder(segs')
  BY <1>2, RecordKeepsSpool
<1>3. CASE \/ \E fault \in Faults : SpoolFails(fault)
           \/ \E line \in {next, Torn, NoSegment} : PowerLossInWrite(line)
  BY <1>3, FailureKeepsSpool
<1>4. CASE SpoolUnavailable
  <2>1. segs' = segs /\ UNCHANGED <<current, count, sdReady, posting>> /\ next' = next + 1
        /\ next' \in 1..(MaxPackets + 1) /\ \A id \in DOMAIN segs' : id < next'
    BY <1>4, SpoolAssumption DEF SpoolUnavailable, SpoolInv, Sound
  <2> QED
    BY <1>1, <2>1 DEF SpoolInv, WithinQuota, CurrentIsNewest, PostingIsOldest
<1>5. CASE PowerLoss \/ SdFails
  <2>1. segs' = segs /\ next' = next /\ current' = NoSegment /\ count' = 0
        /\ sdReady' \in BOOLEAN /\ posting' = <<>>
    BY <1>5 DEF PowerLoss, Reboot, SdFails, MarkSdUnavailable
  <2> QED
    BY <1>1, <2>1, WithoutCurrent DEF SpoolInv, WithinQuota
<1>6. CASE Remount
  <2>1. sdReady' = TRUE /\ UNCHANGED <<segs, current, count, posting, next>>
    BY <1>6 DEF Remount
  <2> QED
    BY <1>1, <2>1 DEF SpoolInv, WithinQuota, CurrentIsNewest, PostingIsOldest
<1>7. CASE DrainStart
  BY <1>1, <1>7, PostKeepsSpool DEF DrainStart
<1>8. CASE DrainDiscard
  <2>1. /\ DOMAIN segs # {} /\ RemoveSegment(Oldest(segs)) /\ posting' = <<>>
        /\ UNCHANGED <<sdReady, next>>
    BY <1>8 DEF DrainDiscard
  <2>2. Oldest(segs) \in DOMAIN segs /\ \A other \in DOMAIN segs : Oldest(segs) <= other
    BY <2>1, SoundDirectory, OldestIsLeast DEF SpoolInv, Directory
  <2> QED
    BY <2>1, <2>2, RemovalKeepsSpool
<1>9. ASSUME NEW success \in BOOLEAN, NEW removed \in BOOLEAN, HistoryAnswer(success, removed)
      PROVE  SpoolInv' /\ InOrder(segs')
  <2>1. posting # <<>> /\ posting' = <<>> /\ next' = next
    BY <1>9 DEF HistoryAnswer
  <2>2. CASE ~success
    <3>1. UNCHANGED <<segs, current, count, sdReady>>
      BY <1>9, <2>2 DEF HistoryAnswer
    <3> QED
      BY <1>1, <2>1, <3>1 DEF SpoolInv, WithinQuota, CurrentIsNewest, PostingIsOldest
  <2>3. CASE success /\ removed
    <3>1. RemoveSegment(posting.id) /\ sdReady' = sdReady
      BY <1>9, <2>3 DEF HistoryAnswer
    <3>2. posting.id \in DOMAIN segs /\ \A other \in DOMAIN segs : posting.id <= other
      BY <2>1 DEF SpoolInv, PostingIsOldest
    <3> QED
      BY <2>1, <3>1, <3>2, RemovalKeepsSpool
  <2>4. CASE success /\ ~removed
    <3>1. MarkSdUnavailable /\ segs' = segs
      BY <1>9, <2>4 DEF HistoryAnswer
    <3> QED
      BY <1>1, <2>1, <3>1, WithoutCurrent DEF MarkSdUnavailable, SpoolInv, WithinQuota
  <2> QED
    BY <2>2, <2>3, <2>4
<1>10. CASE UNCHANGED spoolVars
  BY <1>1, <1>10 DEF spoolVars, SpoolInv, WithinQuota, CurrentIsNewest, PostingIsOldest
<1>11. RemoveOutcomes \subseteq BOOLEAN
  BY DEF RemoveOutcomes
<1> QED
  BY <1>2, <1>3, <1>4, <1>5, <1>6, <1>7, <1>8, <1>9, <1>10, <1>11 DEF SpoolNext, DeviceStep

LEMMA SpoolInitially == SpoolInit => SpoolInv
<1> SUFFICES ASSUME SpoolInit PROVE SpoolInv
  OBVIOUS
<1>1. DOMAIN segs = {} /\ segs \in [{} -> Seq(Lines)]
  BY DEF SpoolInit, NoFiles
<1>2. Used(segs) = 0
  BY <1>1, RecordsAre, FS_EmptySet DEF Used
<1> QED
  BY <1>1, <1>2, SpoolAssumption
     DEF SpoolInit, SpoolInv, Sound, WithinQuota, CurrentIsNewest, PostingIsOldest

\* The invariant is what SpoolIsSound asks for; a tail that is torn alone needs a card
\* that does not report half a line as written.
LEMMA SpoolInvIsSound ==
    SpoolInv => /\ SpoolTypeOK /\ SegmentFitsBatch /\ WithinQuota
                /\ "short" \notin WriteFaults => OnlyTheTailIsTorn
<1> SUFFICES ASSUME SpoolInv
             PROVE  /\ SpoolTypeOK /\ SegmentFitsBatch /\ WithinQuota
                    /\ "short" \notin WriteFaults => OnlyTheTailIsTorn
  OBVIOUS
<1>1. posting = <<>> \/ posting \in [id : 1..MaxPackets, batch : Seq(Nat)]
  <2>1. 1..MaxPackets \subseteq Nat
    BY SpoolAssumption
  <2>2. Seq(1..MaxPackets) \subseteq Seq(Nat)
    BY <2>1, SeqMonotonic
  <2> QED
    BY <2>2 DEF SpoolInv, PostingIsOldest, Sound
<1> QED
  BY <1>1 DEF SpoolInv, Sound, SpoolTypeOK, SegmentFitsBatch, OnlyTheTailIsTorn, CurrentIsNewest

\* The spool keeps its shapes, its batches and its quota through every power loss, card
\* fault, remount, timeout and answer.
THEOREM SpoolStaysBounded == SpoolSpec => [](SpoolTypeOK /\ SegmentFitsBatch /\ WithinQuota)
<1>1. SpoolSpec => []SpoolInv
  BY SpoolInitially, SpoolStep, PTL DEF SpoolSpec
<1> QED
  BY <1>1, SpoolInvIsSound, PTL

\* With a card that does not report half a line as written, all that SpoolIsSound says:
\* also that every record before an interrupted write is read again.
THEOREM SpoolStaysSound == "short" \notin WriteFaults => (SpoolSpec => []SpoolIsSound)
<1> SUFFICES ASSUME "short" \notin WriteFaults PROVE SpoolSpec => []SpoolIsSound
  OBVIOUS
<1>1. SpoolInv => SpoolIsSound
  BY SpoolInvIsSound DEF SpoolIsSound
<1>2. SpoolSpec => []SpoolInv
  BY SpoolInitially, SpoolStep, PTL DEF SpoolSpec
<1> QED
  BY <1>1, <1>2, PTL

\* Whatever is pruned, drained, discarded or lost, a segment leaves the card only when no
\* older one stays.
THEOREM SpoolKeepsItsOrder == SpoolSpec => OldestLeavesFirst
<1>1. SpoolSpec => []SpoolInv
  BY SpoolInitially, SpoolStep, PTL DEF SpoolSpec
<1>2. SpoolInv /\ [SpoolNext]_spoolVars
          => [\A gone \in DOMAIN segs \ DOMAIN segs', kept \in DOMAIN segs \cap DOMAIN segs' :
                  gone < kept]_spoolVars
  BY SpoolStep DEF InOrder
<1> QED
  BY <1>1, <1>2, PTL DEF SpoolSpec, OldestLeavesFirst


-----------------------------------------------------------------------------
(* The store of the gateway *)

Working == {"check", "segment", "open", "write"}

Handles(t) == thread[t].pc \in Working

\* The directory, the store's fields and its threads; file names only grow, and a
\* thread that appends has a packet in hand.
RingTyped ==
    /\ DOMAIN ring \subseteq 1..lastId /\ ring \in [DOMAIN ring -> Seq(Nat \cup {Torn})]
    /\ ringCur \in DOMAIN ring \cup {NoSegment}
    /\ repaired \in BOOLEAN /\ pressure \in BOOLEAN
    /\ thread \in [Threads -> ThreadTypes]
    /\ \A t \in Threads : Handles(t) => thread[t].line \in 1..MaxPackets
    /\ lastId \in 0..MaxSegments /\ restarts \in 0..MaxRestarts

\* Threads that rely on a capacity check that has passed.
Late == {t \in Threads : thread[t].pc \in {"segment", "open", "write"}}

\* Each of them may still write one record.
RoomIsLeft == Used(ring) + Cardinality(Late) <= RingQuota + Cardinality(Threads) - 1

\* One thread goes on with the append it is in, or ends it.
Moved(t) ==
    /\ Handles(t)
    /\ \A u \in Threads \ {t} : thread'[u] = thread[u]
    /\ thread'[t].line = thread[t].line
    /\ thread'[t].pc \in Working \cup {"stored", "reserved", "broken"}
    /\ restarts' = restarts

\* The directory of the store, and the number of threads.
LEMMA RingDirectory ==
    ASSUME RingTyped
    PROVE  /\ Directory(ring) /\ Used(ring) \in Nat /\ lastId \in Nat
           /\ \A id \in DOMAIN ring : id \in 1..MaxSegments
<1>1. lastId \in 0..MaxSegments /\ MaxSegments \in Nat
  BY RingAssumption DEF RingTyped
<1>2. lastId \in Int /\ 1 \in Int
  BY <1>1
<1>3. IsFiniteSet(1..lastId)
  BY ONLY <1>2, FS_Interval
<1>4. DOMAIN ring \subseteq 1..lastId
  BY DEF RingTyped
<1>5. IsFiniteSet(DOMAIN ring)
  BY ONLY <1>3, <1>4, FS_Subset
<1>6. Directory(ring)
  BY <1>1, <1>4, <1>5 DEF RingTyped, Directory
<1> QED
  BY <1>1, <1>4, <1>6, RecordsAreFinite

\* What a set of threads counts.
LEMMA ThreadsAreCounted ==
    ASSUME NEW S \in SUBSET Threads
    PROVE  /\ IsFiniteSet(S) /\ Cardinality(S) \in Nat /\ Cardinality(Threads) \in Nat
           /\ Cardinality(S) <= Cardinality(Threads)
           /\ \A t \in Threads \ S : Cardinality(S) <= Cardinality(Threads) - 1
           /\ \A t \in Threads \ S : Cardinality(S \cup {t}) = Cardinality(S) + 1
           /\ \A t \in S : Cardinality(S \ {t}) = Cardinality(S) - 1
<1>1. IsFiniteSet(Threads)
  BY RingAssumption
<1>2. IsFiniteSet(S) /\ Cardinality(S) <= Cardinality(Threads)
  BY <1>1, FS_Subset
<1>3. Cardinality(S) \in Nat /\ Cardinality(Threads) \in Nat
  BY <1>1, <1>2, FS_CardinalityType
<1>4. ASSUME NEW t \in Threads \ S
      PROVE  /\ Cardinality(S) <= Cardinality(Threads) - 1
             /\ Cardinality(S \cup {t}) = Cardinality(S) + 1
  <2>1. Cardinality(S \cup {t}) = Cardinality(S) + 1
    BY <1>2, FS_AddElement
  <2>2. Cardinality(S \cup {t}) <= Cardinality(Threads)
    BY <1>1, FS_Subset
  <2> QED
    BY <1>3, <2>1, <2>2
<1>5. ASSUME NEW t \in S PROVE Cardinality(S \ {t}) = Cardinality(S) - 1
  BY <1>2, FS_RemoveElement
<1> QED
  BY <1>2, <1>3, <1>4, <1>5

\* The capacity check leaves room for one record, or an empty directory.
LEMMA CapacityIsEnsured ==
    ASSUME RingTyped, RoomIsLeft, NEW t \in Threads, EnsureCapacity(t)
    PROVE  RingTyped' /\ RoomIsLeft' /\ Moved(t)
<1> DEFINE left == Pruned(Repaired, ringCur)
<1> DEFINE fitting == {f \in left : RingFits(f)}
<1>1. /\ thread[t].pc = "check"
      /\ ring' = LeastPruned(left, fitting) /\ ringCur' = CurrentAfterPrune(ring')
      /\ repaired' = TRUE
      /\ thread' = [thread EXCEPT ![t].pc = IF RingFits(ring') THEN "segment" ELSE "reserved"]
      /\ pressure' = pressure /\ lastId' = lastId /\ restarts' = restarts
  BY DEF EnsureCapacity, At, Goto
<1>2. \A f : f \in fitting => RingFits(f)
  OBVIOUS
<1>3. /\ DOMAIN Repaired = DOMAIN ring
      /\ \A id \in DOMAIN ring : Repaired[id] \in Seq(Nat \cup {Torn})
  <2>1. DOMAIN Repair(ring) = DOMAIN ring
        /\ \A id \in DOMAIN ring : Repair(ring)[id] = ValidPrefix(ring[id])
    BY DEF Repair
  <2>2. ASSUME NEW id \in DOMAIN ring PROVE ValidPrefix(ring[id]) \in Seq(Nat \cup {Torn})
    <3>1. ring[id] \in Seq(Nat \cup {Torn})
      BY DEF RingTyped
    <3>2. ValidPrefix(ring[id]) \in Seq((Nat \cup {Torn}) \ {Torn})
      BY <3>1, PrefixIsValid
    <3>3. (Nat \cup {Torn}) \ {Torn} \subseteq Nat \cup {Torn}
      OBVIOUS
    <3> QED
      BY <3>2, <3>3, SeqMonotonic
  <2> QED
    BY <2>1, <2>2 DEF Repaired, RingTyped
<1>4. Directory(ring) /\ Used(ring) \in Nat
  BY RingDirectory
<1> HIDE DEF fitting
<1>5. PICK S \in SUBSET DOMAIN Repaired :
          /\ LeastPruned(left, fitting) = Restrict(Repaired, S)
          /\ S = {} \/ Restrict(Repaired, S) \in fitting
  BY <1>3, <1>4, VictimsAreOldest DEF Directory
<1>6. Directory(Repaired)
  <2>1. Repaired = [id \in DOMAIN Repaired |-> Repaired[id]]
    BY DEF Repaired, Repair, RingTyped
  <2> QED
    BY <1>3, <1>4, <2>1 DEF Directory
<1> HIDE DEF left
<1>7. /\ DOMAIN ring' = S /\ Directory(ring')
      /\ S = {} => Used(ring') = 0
      /\ S = {} \/ RingFits(ring')
  BY <1>1, <1>2, <1>5, <1>6, RestrictedDirectory
<1>8. Used(ring') \in Nat
  BY <1>7, RecordsAreFinite
<1>9. Moved(t) /\ thread' \in [Threads -> ThreadTypes]
  BY <1>1 DEF Moved, Handles, Working, RingTyped, ThreadTypes
<1>10. RingTyped'
  <2>1. DOMAIN ring' \subseteq 1..lastId' /\ ring' \in [DOMAIN ring' -> Seq(Nat \cup {Torn})]
    BY <1>1, <1>3, <1>7 DEF RingTyped, Directory
  <2>2. \A u \in Threads : Handles(u)' => thread'[u].line \in 1..MaxPackets
    BY <1>9 DEF Moved, Handles, RingTyped
  <2> QED
    BY <1>1, <1>9, <2>1, <2>2 DEF RingTyped, CurrentAfterPrune
<1>11. RoomIsLeft'
  <2>1. t \in Threads \ Late /\ Late \in SUBSET Threads /\ Late' \in SUBSET Threads
    BY <1>1 DEF Late
  <2>2. /\ Cardinality(Late') \in Nat /\ Cardinality(Late') <= Cardinality(Threads)
        /\ Cardinality(Threads) \in Nat /\ RingQuota \in Nat
    BY <2>1, ThreadsAreCounted, RingAssumption
  <2>3. CASE RingFits(ring')
    <3>1. Used(ring') + 1 <= RingQuota
      BY <2>3 DEF RingFits
    <3> QED
      BY <1>8, <2>2, <3>1 DEF RoomIsLeft
  <2>4. CASE ~RingFits(ring')
    <3>1. t \in Threads \ Late' /\ Used(ring') = 0
      BY <1>1, <1>7, <2>4 DEF Late, RingTyped, ThreadTypes
    <3>2. Cardinality(Late') <= Cardinality(Threads) - 1
      BY <2>1, <3>1, ThreadsAreCounted
    <3> QED
      BY <2>2, <3>1, <3>2 DEF RoomIsLeft
  <2> QED
    BY <2>3, <2>4
<1> QED
  BY <1>9, <1>10, <1>11

\* A thread that moves on without writing keeps what is left of the room.
LEMMA MovedOn ==
    ASSUME RoomIsLeft, RingTyped, NEW t \in Threads, Moved(t), Used(ring') = Used(ring),
           thread[t].pc \in {"segment", "open", "write"}
    PROVE  RoomIsLeft'
<1>1. Late \in SUBSET Threads /\ Late' \in SUBSET Threads /\ t \in Late
  BY DEF Late
<1>2. Late' \subseteq Late
  BY <1>1 DEF Moved, Late
<1>3. IsFiniteSet(Late) /\ Cardinality(Late) \in Nat /\ Cardinality(Late') \in Nat
      /\ Cardinality(Threads) \in Nat
  BY <1>1, ThreadsAreCounted
<1>4. Cardinality(Late') <= Cardinality(Late)
  BY <1>2, <1>3, FS_Subset
<1>5. Used(ring) \in Nat /\ RingQuota \in Nat
  BY RingDirectory, RingAssumption
<1> QED
  BY <1>3, <1>4, <1>5 DEF RoomIsLeft

\* The segment to append to, the current one or a new one.
LEMMA SegmentIsChosen ==
    ASSUME RingTyped, RoomIsLeft, NEW t \in Threads, ChooseSegment(t)
    PROVE  RingTyped' /\ RoomIsLeft' /\ Moved(t)
<1>1. /\ thread[t].pc = "segment" /\ thread' = [thread EXCEPT ![t].pc = "open"]
      /\ repaired' = repaired /\ pressure' = pressure /\ restarts' = restarts
      /\ \/ /\ lastId < MaxSegments /\ lastId' = lastId + 1
            /\ ring' = Create(ring, lastId') /\ ringCur' = lastId'
         \/ UNCHANGED <<ring, ringCur, lastId>>
  BY DEF ChooseSegment, At, Goto
<1>2. Moved(t) /\ thread' \in [Threads -> ThreadTypes]
  BY <1>1 DEF Moved, Handles, Working, RingTyped, ThreadTypes
<1>3. \A u \in Threads : Handles(u)' => thread'[u].line \in 1..MaxPackets
  BY <1>2 DEF Moved, Handles, RingTyped
<1>4. Directory(ring) /\ lastId \in Nat
  BY RingDirectory
<1>5. CASE UNCHANGED <<ring, ringCur, lastId>>
  <2>1. RingTyped'
    BY <1>1, <1>2, <1>3, <1>5 DEF RingTyped
  <2> QED
    BY <1>1, <1>2, <1>5, <2>1, MovedOn
<1>6. CASE /\ lastId < MaxSegments /\ lastId' = lastId + 1
           /\ ring' = Create(ring, lastId') /\ ringCur' = lastId'
  <2>1. lastId' \in Nat \ DOMAIN ring /\ lastId' \in 0..MaxSegments /\ lastId' = lastId + 1
    BY <1>4, <1>6, RingAssumption DEF RingTyped
  <2>2. /\ Directory(ring') /\ DOMAIN ring' = DOMAIN ring \cup {lastId'}
        /\ Used(ring') = Used(ring)
    BY <1>4, <1>6, <2>1, CreatedDirectory
  <2>3. DOMAIN ring' \subseteq 1..lastId'
    BY <1>4, <2>1, <2>2 DEF RingTyped
  <2>4. RingTyped'
    BY <1>1, <1>2, <1>3, <1>6, <2>1, <2>2, <2>3 DEF RingTyped, Directory
  <2> QED
    BY <1>1, <1>2, <2>2, <2>4, MovedOn
<1> QED
  BY <1>1, <1>5, <1>6

LEMMA SegmentIsOpened ==
    ASSUME RingTyped, RoomIsLeft, NEW t \in Threads, OpenSegment(t)
    PROVE  RingTyped' /\ RoomIsLeft' /\ Moved(t)
<1>1. /\ thread[t].pc = "open"
      /\ \/ thread' = [thread EXCEPT ![t].pc = "broken"]
         \/ thread' = [thread EXCEPT ![t].pc = "write", ![t].path = ringCur]
      /\ UNCHANGED <<ring, ringCur, repaired, pressure, lastId, restarts>>
  BY DEF OpenSegment, At
<1>2. ringCur \in 1..MaxSegments \cup {NoSegment}
  BY RingDirectory DEF RingTyped
<1>3. Moved(t)
  BY <1>1 DEF Moved, Handles, Working, RingTyped, ThreadTypes
<1>4. thread' \in [Threads -> ThreadTypes]
  <2>1. thread[t] \in ThreadTypes
    BY DEF RingTyped
  <2>2. /\ [thread[t] EXCEPT !.pc = "broken"] \in ThreadTypes
        /\ [thread[t] EXCEPT !.pc = "write", !.path = ringCur] \in ThreadTypes
    BY <1>2, <2>1 DEF ThreadTypes
  <2>3. \/ thread' = [thread EXCEPT ![t] = [thread[t] EXCEPT !.pc = "broken"]]
        \/ thread' = [thread EXCEPT ![t] = [thread[t] EXCEPT !.pc = "write", !.path = ringCur]]
    BY <1>1 DEF RingTyped
  <2> QED
    BY <2>2, <2>3 DEF RingTyped
<1>5. \A u \in Threads : Handles(u)' => thread'[u].line \in 1..MaxPackets
  BY <1>3 DEF Moved, Handles, RingTyped
<1>6. RingTyped'
  BY <1>1, <1>4, <1>5 DEF RingTyped
<1> QED
  BY <1>1, <1>3, <1>6, MovedOn

\* The directory with one more line, if the file is still there.
LEMMA LineIsWritten ==
    ASSUME RingTyped, NEW t \in Threads, NEW line \in Nat \cup {Torn}
    PROVE  /\ DOMAIN Written(t, line) = DOMAIN ring
           /\ Written(t, line) \in [DOMAIN ring -> Seq(Nat \cup {Torn})]
           /\ Used(Written(t, line)) \in Nat /\ Used(Written(t, line)) <= Used(ring) + 1
<1>1. Directory(ring) /\ Used(ring) \in Nat
  BY RingDirectory
<1>2. CASE thread[t].path \in DOMAIN ring
  <2>1. Written(t, line) = AppendTo(ring, thread[t].path, line)
    BY <1>2 DEF Written
  <2>2. /\ Directory(AppendTo(ring, thread[t].path, line))
        /\ DOMAIN AppendTo(ring, thread[t].path, line) = DOMAIN ring
        /\ Used(AppendTo(ring, thread[t].path, line)) = Used(ring) + 1
    BY ONLY <1>1, <1>2, line \in Nat \cup {Torn}, AppendedDirectory
  <2>3. /\ DOMAIN Written(t, line) = DOMAIN ring /\ Directory(Written(t, line))
        /\ Used(Written(t, line)) = Used(ring) + 1
    BY ONLY <2>1, <2>2
  <2> QED
    BY <1>1, <2>3 DEF Directory
<1>3. CASE thread[t].path \notin DOMAIN ring
  BY <1>1, <1>3 DEF Written, Directory
<1> QED
  BY <1>2, <1>3

LEMMA WriteKeepsRing ==
    ASSUME RingTyped, RoomIsLeft, NEW t \in Threads, WriteRecord(t) \/ WriteShort(t)
    PROVE  RingTyped' /\ RoomIsLeft' /\ Moved(t)
<1>1. /\ thread[t].pc = "write"
      /\ \E line \in Nat \cup {Torn} : ring' = Written(t, line)
      /\ \E pc \in {"stored", "broken"} : thread' = [thread EXCEPT ![t].pc = pc]
      /\ UNCHANGED <<ringCur, repaired, pressure, lastId, restarts>>
  BY DEF WriteRecord, WriteShort, At, Goto, RingTyped, ThreadTypes
<1>2. /\ DOMAIN ring' = DOMAIN ring /\ ring' \in [DOMAIN ring -> Seq(Nat \cup {Torn})]
      /\ Used(ring') \in Nat /\ Used(ring') <= Used(ring) + 1
  BY <1>1, LineIsWritten
<1>3. Moved(t) /\ thread' \in [Threads -> ThreadTypes]
  <2>1. PICK pc \in {"stored", "broken"} : thread' = [thread EXCEPT ![t].pc = pc]
    BY <1>1
  <2>2. thread \in [Threads -> ThreadTypes]
    BY DEF RingTyped
  <2>3. thread' \in [Threads -> ThreadTypes]
    BY <2>1, <2>2 DEF ThreadTypes
  <2>4. /\ thread'[t].pc = pc /\ thread'[t].line = thread[t].line
        /\ \A u \in Threads \ {t} : thread'[u] = thread[u]
    BY <2>1, <2>2 DEF ThreadTypes
  <2> QED
    BY <1>1, <2>3, <2>4 DEF Moved, Handles, Working
<1>4. \A u \in Threads : Handles(u)' => thread'[u].line \in 1..MaxPackets
  BY <1>3 DEF Moved, Handles, RingTyped
<1>5. RingTyped'
  BY <1>1, <1>2, <1>3, <1>4 DEF RingTyped
<1>6. RoomIsLeft'
  <2>1. Late \in SUBSET Threads /\ t \in Late /\ Late' = Late \ {t}
    BY <1>1, <1>3 DEF Late, RingTyped, ThreadTypes
  <2>2. /\ Cardinality(Late') = Cardinality(Late) - 1 /\ Cardinality(Late) \in Nat
        /\ Cardinality(Threads) \in Nat
    BY <2>1, ThreadsAreCounted
  <2>3. Used(ring) \in Nat /\ RingQuota \in Nat
    BY RingDirectory, RingAssumption
  <2> QED
    BY <1>2, <2>2, <2>3 DEF RoomIsLeft
<1> QED
  BY <1>3, <1>5, <1>6

\* Every step of an append keeps the store's types and its room.
LEMMA AppendKeepsRing ==
    ASSUME RingTyped, RoomIsLeft, NEW t \in Threads, AppendStep(t)
    PROVE  RingTyped' /\ RoomIsLeft' /\ Moved(t)
  BY CapacityIsEnsured, SegmentIsChosen, SegmentIsOpened, WriteKeepsRing DEF AppendStep

\* A restart, which may cut off one line.
LEMMA RestartKeepsRing ==
    ASSUME RingTyped, RoomIsLeft, RingRestart
    PROVE  /\ RingTyped' /\ RoomIsLeft'
           /\ thread' = [t \in Threads |-> IdleThread] /\ restarts' = restarts + 1
<1>1. /\ restarts < MaxRestarts /\ restarts' = restarts + 1
      /\ ringCur' = NoSegment /\ repaired' = FALSE
      /\ thread' = [t \in Threads |-> IdleThread] /\ pressure' = pressure /\ lastId' = lastId
      /\ \/ ring' = ring
         \/ \E t \in Threads : thread[t].pc = "write" /\ ring' = Written(t, Torn)
  BY DEF RingRestart, RestartWith, At
<1>2. Late \in SUBSET Threads /\ Late' = {}
  BY <1>1 DEF Late, IdleThread
<1>3. Cardinality(Late) \in Nat /\ Cardinality(Threads) \in Nat /\ Cardinality(Late') = 0
  BY <1>2, ThreadsAreCounted, FS_EmptySet
<1>4. Used(ring) \in Nat /\ RingQuota \in Nat /\ Directory(ring)
  BY RingDirectory, RingAssumption
<1>5. /\ DOMAIN ring' = DOMAIN ring /\ ring' \in [DOMAIN ring -> Seq(Nat \cup {Torn})]
      /\ Used(ring') \in Nat /\ Used(ring') <= Used(ring) + Cardinality(Late)
  <2>1. CASE ring' = ring
    BY <1>3, <1>4, <2>1 DEF Directory
  <2>2. ASSUME NEW t \in Threads, thread[t].pc = "write", ring' = Written(t, Torn)
        PROVE  /\ DOMAIN ring' = DOMAIN ring /\ ring' \in [DOMAIN ring -> Seq(Nat \cup {Torn})]
               /\ Used(ring') \in Nat /\ Used(ring') <= Used(ring) + Cardinality(Late)
    <3>1. t \in Late
      BY <2>2 DEF Late
    <3>2. Cardinality(Late \ {t}) = Cardinality(Late) - 1 /\ Cardinality(Late \ {t}) \in Nat
      BY <1>2, <3>1, ThreadsAreCounted
    <3> QED
      BY <1>3, <1>4, <2>2, <3>2, LineIsWritten
  <2> QED
    BY <1>1, <2>1, <2>2
<1>6. RingTyped'
  <2>1. IdleThread \in ThreadTypes
    BY DEF IdleThread, ThreadTypes
  <2>2. thread' \in [Threads -> ThreadTypes]
    BY <1>1, <2>1
  <2>3. \A t \in Threads : ~Handles(t)'
    BY <1>1 DEF IdleThread, Handles, Working
  <2>4. restarts' \in 0..MaxRestarts
    BY <1>1, RingAssumption DEF RingTyped
  <2> QED
    BY <1>1, <1>5, <2>2, <2>3, <2>4 DEF RingTyped
<1> QED
  BY <1>1, <1>3, <1>4, <1>5, <1>6 DEF RoomIsLeft

-----------------------------------------------------------------------------
(* The gateway and the device's POST *)

GatewayTyped ==
    /\ RingTyped
    /\ recent \in Seq(1..MaxPackets) /\ Len(recent) <= RecentCapacity
    /\ job \in [Threads -> Seq(1..MaxPackets)]
    /\ asked \in Threads \cup {NoSegment} /\ (asked # NoSegment => posting # <<>>)
    /\ copies \in [1..MaxPackets -> Nat]
    /\ failed \subseteq 1..MaxPackets /\ drained \subseteq 1..MaxPackets

\* Written, about to be written, or lost by an append that failed.
Accounted(p) == copies[p] > 0 \/ p \in InHand \cup failed

\* A restart has taken the thread that is asked, so that it will not answer.
AskedInVain == thread[asked].pc = "idle" /\ job[asked] = <<>>

\* What is drained or remembered is accounted for; what is posted is accounted for or
\* still before the thread that will answer for it.
NothingIsLost ==
    /\ \A p \in drained \cup ToSet(recent) : Accounted(p)
    /\ asked # NoSegment =>
          \/ AskedInVain
          \/ \A p \in ToSet(posting.batch) : p \in ToSet(job[asked]) \/ Accounted(p)

PipelineInv == SpoolInv /\ GatewayTyped /\ RoomIsLeft /\ NothingIsLost

\* No step takes back that a packet is accounted for.
AccountsKept == \A p \in 1..MaxPackets : Accounted(p) => Accounted(p)'

\* The members of a sequence that grows or shrinks by one.
LEMMA MembersOf ==
    ASSUME NEW S, NEW seq \in Seq(S)
    PROVE  /\ ToSet(seq) \subseteq S
           /\ \A e \in S : ToSet(Append(seq, e)) = ToSet(seq) \cup {e}
           /\ seq # <<>> => /\ Head(seq) \in S /\ Tail(seq) \in Seq(S)
                            /\ ToSet(seq) = ToSet(Tail(seq)) \cup {Head(seq)}
           /\ \A e : Contains(seq, e) <=> e \in ToSet(seq)
<1>1. /\ DOMAIN seq = 1..Len(seq) /\ Len(seq) \in Nat
      /\ \A i \in 1..Len(seq) : seq[i] \in S
  BY LenProperties, ElementOfSeq
<1>2. ASSUME NEW e \in S PROVE ToSet(Append(seq, e)) = ToSet(seq) \cup {e}
  <2>1. /\ Append(seq, e) \in Seq(S) /\ Len(Append(seq, e)) = Len(seq) + 1
        /\ \A i \in 1..Len(seq) : Append(seq, e)[i] = seq[i]
        /\ Append(seq, e)[Len(seq) + 1] = e
    BY AppendProperties
  <2>2. DOMAIN Append(seq, e) = 1..(Len(seq) + 1)
    BY <2>1, LenProperties
  <2>3. \A i : i \in 1..(Len(seq) + 1) <=> i \in 1..Len(seq) \/ i = Len(seq) + 1
    BY <1>1
  <2> QED
    BY <1>1, <2>1, <2>2, <2>3 DEF ToSet
<1>3. ASSUME seq # <<>>
      PROVE  /\ Head(seq) \in S /\ Tail(seq) \in Seq(S)
             /\ ToSet(seq) = ToSet(Tail(seq)) \cup {Head(seq)}
  <2>1. Head(seq) \in S /\ Tail(seq) \in Seq(S) /\ Len(Tail(seq)) = Len(seq) - 1
        /\ \A i \in 1..Len(Tail(seq)) : Tail(seq)[i] = seq[i + 1]
    BY <1>3, HeadTailProperties
  <2>2. DOMAIN Tail(seq) = 1..(Len(seq) - 1) /\ Len(seq) # 0 /\ Head(seq) = seq[1]
    BY <1>1, <1>3, <2>1, LenProperties, EmptySeq
  <2>3. \A i \in 1..(Len(seq) - 1) : i + 1 \in 1..Len(seq)
    BY <1>1
  <2>4. ASSUME NEW i \in 1..Len(seq), i # 1
        PROVE  seq[i] = Tail(seq)[i - 1] /\ i - 1 \in 1..(Len(seq) - 1)
    <3>1. i - 1 \in 1..(Len(seq) - 1) /\ (i - 1) + 1 = i
      BY <1>1, <2>4
    <3> QED
      BY <2>1, <3>1
  <2>5. ToSet(Tail(seq)) \subseteq ToSet(seq) /\ Head(seq) \in ToSet(seq)
    BY <1>1, <2>1, <2>2, <2>3 DEF ToSet
  <2>6. ToSet(seq) \subseteq ToSet(Tail(seq)) \cup {Head(seq)}
    <3>1. ASSUME NEW i \in 1..Len(seq) PROVE seq[i] \in ToSet(Tail(seq)) \cup {Head(seq)}
      <4>1. CASE i = 1
        BY <2>2, <4>1
      <4>2. CASE i # 1
        <5>1. i - 1 \in DOMAIN Tail(seq) /\ seq[i] = Tail(seq)[i - 1]
          BY <2>2, <2>4, <4>2
        <5> QED
          BY <5>1 DEF ToSet
      <4> QED
        BY <4>1, <4>2
    <3> QED
      BY <1>1, <3>1 DEF ToSet
  <2> QED
    BY <2>1, <2>5, <2>6
<1>4. ToSet(seq) \subseteq S /\ \A e : Contains(seq, e) <=> e \in ToSet(seq)
  BY <1>1 DEF ToSet, Contains
<1> QED
  BY <1>2, <1>3, <1>4

\* While the POST stays the same, nothing is lost that was accounted for.
LEMMA KeptAccounts ==
    ASSUME PipelineInv, AccountsKept, UNCHANGED <<posting, asked, drained>>,
           \A p \in ToSet(recent)' : p \in ToSet(recent) \/ Accounted(p)',
           asked # NoSegment =>
              \/ AskedInVain'
              \/ /\ ~AskedInVain
                 /\ \A p \in ToSet(job[asked]) : p \in ToSet(job'[asked]) \/ Accounted(p)'
    PROVE  NothingIsLost'
<1>1. drained \subseteq 1..MaxPackets /\ ToSet(recent) \subseteq 1..MaxPackets
  BY MembersOf DEF PipelineInv, GatewayTyped
<1>2. \A p \in (drained \cup ToSet(recent))' : Accounted(p)'
  BY <1>1 DEF PipelineInv, NothingIsLost, AccountsKept
<1>3. ASSUME asked # NoSegment, ~AskedInVain', NEW p \in ToSet(posting.batch)
      PROVE  p \in ToSet(job'[asked]) \/ Accounted(p)'
  <2>1. posting.batch \in Seq(1..MaxPackets)
    BY <1>3 DEF PipelineInv, GatewayTyped, SpoolInv, PostingIsOldest
  <2>2. p \in 1..MaxPackets
    BY <1>3, <2>1, MembersOf
  <2>3. p \in ToSet(job[asked]) \/ Accounted(p)
    BY <1>3 DEF PipelineInv, NothingIsLost
  <2> QED
    BY <1>3, <2>2, <2>3 DEF AccountsKept
<1> QED
  BY <1>2, <1>3 DEF NothingIsLost

\* The set of identities is bounded; it forgets the oldest one.
LEMMA IdentityIsRemembered ==
    ASSUME GatewayTyped, NEW id \in 1..MaxPackets
    PROVE  /\ Remembered(id) \in Seq(1..MaxPackets) /\ Len(Remembered(id)) <= RecentCapacity
           /\ ToSet(Remembered(id)) \subseteq ToSet(recent) \cup {id}
<1>1. /\ recent \in Seq(1..MaxPackets) /\ Len(recent) <= RecentCapacity
      /\ RecentCapacity \in Nat \ {0} /\ Len(recent) \in Nat
  BY PipelineAssumption, LenProperties DEF GatewayTyped
<1>2. CASE Len(recent) + 1 > RecentCapacity
  <2>1. recent # <<>>
    BY <1>1, <1>2, EmptySeq
  <2>2. /\ Tail(recent) \in Seq(1..MaxPackets) /\ Len(Tail(recent)) = Len(recent) - 1
        /\ ToSet(recent) = ToSet(Tail(recent)) \cup {Head(recent)}
    BY <1>1, <2>1, HeadTailProperties, MembersOf
  <2>3. /\ Append(Tail(recent), id) \in Seq(1..MaxPackets)
        /\ Len(Append(Tail(recent), id)) = Len(Tail(recent)) + 1
    BY <2>2, AppendProperties
  <2>4. ToSet(Append(Tail(recent), id)) = ToSet(Tail(recent)) \cup {id}
    <3>1. \A seq \in Seq(1..MaxPackets) : ToSet(Append(seq, id)) = ToSet(seq) \cup {id}
      BY MembersOf
    <3> QED
      BY ONLY <2>2, <3>1, Zenon
  <2> QED
    BY <1>1, <1>2, <2>2, <2>3, <2>4 DEF Remembered
<1>3. CASE ~(Len(recent) + 1 > RecentCapacity)
  <2>1. /\ Append(recent, id) \in Seq(1..MaxPackets)
        /\ Len(Append(recent, id)) = Len(recent) + 1
    BY <1>1, AppendProperties
  <2>2. ToSet(Append(recent, id)) = ToSet(recent) \cup {id}
    BY ONLY <1>1, id \in 1..MaxPackets, MembersOf
  <2> QED
    BY <1>1, <1>3, <2>1, <2>2 DEF Remembered
<1> QED
  BY <1>2, <1>3

\* A thread that goes on with an append keeps its packet accounted for.
LEMMA IngestKeepsGateway ==
    ASSUME PipelineInv, NEW t \in Threads, IngestStep(t)
    PROVE  GatewayTyped' /\ RoomIsLeft' /\ NothingIsLost'
<1> DEFINE line == thread[t].line
<1>1. /\ copies' = IF thread'[t].pc = "stored" THEN [copies EXCEPT ![line] = @ + 1] ELSE copies
      /\ failed' = IF thread'[t].pc \in {"reserved", "broken"} THEN failed \cup {line} ELSE failed
      /\ UNCHANGED <<posting, recent, job, asked, drained>> /\ AppendStep(t)
  BY DEF IngestStep, spoolVars
<1>2. RingTyped' /\ RoomIsLeft' /\ Moved(t)
  BY <1>1, AppendKeepsRing DEF PipelineInv, GatewayTyped
<1>3. line \in 1..MaxPackets /\ copies \in [1..MaxPackets -> Nat]
  BY <1>2 DEF PipelineInv, GatewayTyped, RingTyped, Moved
<1>4. GatewayTyped'
  <2>1. copies' \in [1..MaxPackets -> Nat]
    BY <1>1, <1>3
  <2>2. failed' \subseteq 1..MaxPackets
    BY <1>1, <1>3 DEF PipelineInv, GatewayTyped
  <2> QED
    BY <1>1, <1>2, <2>1, <2>2 DEF PipelineInv, GatewayTyped
<1>5. ASSUME NEW p \in 1..MaxPackets, Accounted(p) PROVE Accounted(p)'
  <2>1. CASE copies[p] > 0
    <3>1. copies'[p] > 0
      BY <1>1, <1>3, <2>1
    <3> QED
      BY <3>1 DEF Accounted
  <2>2. CASE p \in failed
    BY <1>1, <2>2 DEF Accounted
  <2>3. CASE p \in InHand
    <3>1. PICK u \in Threads : Handles(u) /\ thread[u].line = p
      BY <2>3 DEF InHand, Handles, Working
    <3>2. CASE Handles(u)'
      <4>1. thread'[u].line = p
        BY <1>2, <3>1 DEF Moved
      <4> QED
        BY <3>2, <4>1 DEF Accounted, InHand, Handles, Working
    <3>3. CASE ~Handles(u)'
      <4>1. u = t /\ thread'[t].pc \in {"stored", "reserved", "broken"}
        BY <1>2, <3>1, <3>3 DEF Moved, Handles
      <4>2. p = line
        BY <3>1, <4>1
      <4>3. CASE thread'[t].pc = "stored"
        <5>1. copies'[p] > 0
          BY <1>1, <1>3, <4>2, <4>3
        <5> QED
          BY <5>1 DEF Accounted
      <4>4. CASE thread'[t].pc # "stored"
        BY <1>1, <4>1, <4>2, <4>4 DEF Accounted
      <4> QED
        BY <4>3, <4>4
    <3> QED
      BY <3>2, <3>3
  <2> QED
    BY <1>5, <2>1, <2>2, <2>3 DEF Accounted
<1>6. NothingIsLost'
  <2>1. ASSUME asked # NoSegment, AskedInVain PROVE AskedInVain'
    <3>1. asked \in Threads /\ asked # t
      BY <1>2, <2>1 DEF PipelineInv, GatewayTyped, AskedInVain, Moved, Handles, Working
    <3> QED
      BY <1>1, <1>2, <2>1, <3>1 DEF AskedInVain, Moved
  <2>2. AccountsKept
    BY <1>5 DEF AccountsKept
  <2> QED
    BY <1>1, <2>1, <2>2, KeptAccounts
<1> QED
  BY <1>2, <1>4, <1>6

\* A record that is new is remembered and taken in hand; one that is not is skipped.
LEMMA RememberKeepsGateway ==
    ASSUME PipelineInv, NEW t \in Threads, Remember(t)
    PROVE  GatewayTyped' /\ RoomIsLeft' /\ NothingIsLost'
<1> PICK id : id = Head(job[t])
  OBVIOUS
<1>1. /\ thread[t].pc \in {"idle", "stored"} /\ job[t] # <<>>
      /\ job' = [job EXCEPT ![t] = Tail(@)]
      /\ \/ /\ Contains(recent, id) /\ recent' = recent
            /\ thread' = [thread EXCEPT ![t] = [IdleThread EXCEPT !.pc = "stored"]]
         \/ /\ recent' = Remembered(id)
            /\ thread' = [thread EXCEPT ![t] = [IdleThread EXCEPT !.pc = "check", !.line = id]]
      /\ UNCHANGED <<posting, ring, ringCur, repaired, pressure, lastId, restarts, asked,
                     copies, failed, drained>>
  BY DEF Remember, StartAppend, spoolVars, historyVars
<1>2. job[t] \in Seq(1..MaxPackets) /\ recent \in Seq(1..MaxPackets)
      /\ copies \in [1..MaxPackets -> Nat] /\ thread \in [Threads -> ThreadTypes]
  BY DEF PipelineInv, GatewayTyped, RingTyped
<1>3. /\ id \in 1..MaxPackets /\ Tail(job[t]) \in Seq(1..MaxPackets)
      /\ ToSet(job[t]) = ToSet(Tail(job[t])) \cup {id}
  BY <1>1, <1>2, MembersOf
<1>4. Contains(recent, id) => id \in ToSet(recent)
  BY <1>2, MembersOf
<1>5. id \in Nat
  BY <1>3, SpoolAssumption
<1>6. /\ [IdleThread EXCEPT !.pc = "stored"] \in ThreadTypes
      /\ [IdleThread EXCEPT !.pc = "check", !.line = id] \in ThreadTypes
      /\ [IdleThread EXCEPT !.pc = "check", !.line = id].line = id
      /\ [IdleThread EXCEPT !.pc = "check", !.line = id].pc = "check"
      /\ [IdleThread EXCEPT !.pc = "stored"].pc = "stored"
  BY <1>5 DEF IdleThread, ThreadTypes
<1>7. /\ thread' \in [Threads -> ThreadTypes]
      /\ \A u \in Threads \ {t} : thread'[u] = thread[u]
      /\ \/ thread'[t].pc = "stored" /\ Contains(recent, id) /\ recent' = recent
         \/ thread'[t].pc = "check" /\ thread'[t].line = id /\ recent' = Remembered(id)
  BY <1>1, <1>2, <1>6
<1>8. RingTyped'
  BY <1>1, <1>3, <1>7 DEF PipelineInv, GatewayTyped, RingTyped, Handles, Working
<1>9. Late' = Late
  BY <1>1, <1>7 DEF Late
<1>10. GatewayTyped'
  <2>1. recent' \in Seq(1..MaxPackets) /\ Len(recent') <= RecentCapacity
    BY <1>3, <1>7, IdentityIsRemembered DEF PipelineInv, GatewayTyped
  <2>2. job' \in [Threads -> Seq(1..MaxPackets)]
    BY <1>1, <1>3 DEF PipelineInv, GatewayTyped
  <2> QED
    BY <1>1, <1>8, <2>1, <2>2 DEF PipelineInv, GatewayTyped
<1>11. AccountsKept
  <2> SUFFICES ASSUME NEW p \in 1..MaxPackets, p \in InHand PROVE p \in InHand'
    BY <1>1 DEF AccountsKept, Accounted
  <2>1. PICK u \in Threads : Handles(u) /\ thread[u].line = p
    BY DEF InHand, Handles, Working
  <2>2. u # t
    BY <1>1, <2>1 DEF Handles, Working
  <2> QED
    BY <1>7, <2>1, <2>2 DEF InHand, Handles, Working
<1>12. Accounted(id)'
  <2>1. CASE thread'[t].pc = "stored"
    <3>1. Accounted(id)
      BY <1>4, <1>7, <2>1 DEF PipelineInv, NothingIsLost
    <3> QED
      BY <1>3, <1>11, <3>1 DEF AccountsKept
  <2>2. CASE thread'[t].pc # "stored"
    <3>1. id \in InHand'
      BY <1>7, <2>2 DEF InHand
    <3> QED
      BY <3>1 DEF Accounted
  <2> QED
    BY <2>1, <2>2
<1>13. \A p \in ToSet(recent)' : p \in ToSet(recent) \/ Accounted(p)'
  <2>1. ToSet(recent') \subseteq ToSet(recent) \cup {id}
    BY <1>3, <1>7, IdentityIsRemembered DEF PipelineInv
  <2> QED
    BY <1>12, <2>1
<1>14. ASSUME asked # NoSegment
       PROVE  \/ AskedInVain'
              \/ /\ ~AskedInVain
                 /\ \A p \in ToSet(job[asked]) : p \in ToSet(job'[asked]) \/ Accounted(p)'
  <2>1. asked \in Threads
    BY <1>14 DEF PipelineInv, GatewayTyped
  <2>2. CASE asked = t
    <3>1. job'[t] = Tail(job[t])
      BY <1>1 DEF PipelineInv, GatewayTyped
    <3> QED
      BY <1>1, <1>3, <1>12, <2>2, <3>1 DEF AskedInVain
  <2>3. CASE asked # t
    <3>1. thread'[asked] = thread[asked] /\ job'[asked] = job[asked] /\ asked' = asked
      BY <1>1, <1>7, <2>1, <2>3 DEF PipelineInv, GatewayTyped
    <3> QED
      BY <3>1 DEF AskedInVain
  <2> QED
    BY <2>2, <2>3
<1>15. NothingIsLost'
  BY <1>1, <1>11, <1>13, <1>14, KeptAccounts
<1> QED
  BY <1>1, <1>9, <1>10, <1>15 DEF PipelineInv, RoomIsLeft

\* A handler that ends has nothing in hand.
LEMMA HandlerEndsTyped ==
    ASSUME PipelineInv, NEW t \in Threads, EndHandler(t), ~Handles(t),
           drained' \subseteq 1..MaxPackets, asked' \in Threads \cup {NoSegment},
           asked' # NoSegment => posting' # <<>>
    PROVE  /\ GatewayTyped' /\ RoomIsLeft' /\ AccountsKept
           /\ \A p : p \in InHand' <=> p \in InHand
<1>1. /\ thread' = [thread EXCEPT ![t] = IdleThread] /\ job' = [job EXCEPT ![t] = <<>>]
      /\ UNCHANGED <<ring, ringCur, repaired, pressure, lastId, restarts, recent, copies, failed>>
  BY DEF EndHandler
<1>2. IdleThread \in ThreadTypes /\ IdleThread.pc = "idle"
  BY DEF IdleThread, ThreadTypes
<1>3. /\ thread' \in [Threads -> ThreadTypes] /\ thread'[t].pc = "idle"
      /\ \A u \in Threads \ {t} : thread'[u] = thread[u]
  BY <1>1, <1>2 DEF PipelineInv, GatewayTyped, RingTyped
<1>4. RingTyped'
  BY <1>1, <1>3 DEF PipelineInv, GatewayTyped, RingTyped, Handles, Working
<1>5. job' \in [Threads -> Seq(1..MaxPackets)]
  BY <1>1, EmptySeq DEF PipelineInv, GatewayTyped
<1>6. GatewayTyped'
  BY <1>1, <1>4, <1>5 DEF PipelineInv, GatewayTyped
<1>7. Late' = Late
  BY <1>3 DEF Late, Handles, Working
<1>8. \A p : p \in InHand' <=> p \in InHand
  BY <1>3 DEF InHand, Handles, Working
<1>9. AccountsKept
  BY <1>1, <1>8 DEF AccountsKept, Accounted
<1> QED
  BY <1>1, <1>6, <1>7, <1>8, <1>9 DEF PipelineInv, RoomIsLeft

LEMMA AnswerKeepsGateway ==
    ASSUME PipelineInv, NEW t \in Threads, HandlerEnds(t) \/ Answered(t)
    PROVE  GatewayTyped' /\ RoomIsLeft' /\ NothingIsLost'
<1>1. EndHandler(t) /\ ~Handles(t)
  BY DEF HandlerEnds, Answered, Served, Handles, Working
<1>2. /\ recent' = recent /\ job' = [job EXCEPT ![t] = <<>>]
      /\ thread' = [thread EXCEPT ![t] = IdleThread]
  BY <1>1 DEF EndHandler
<1>3. CASE HandlerEnds(t)
  <2>1. asked # t /\ UNCHANGED <<posting, asked, drained>>
    BY <1>3 DEF HandlerEnds, spoolVars
  <2>2. GatewayTyped' /\ RoomIsLeft' /\ AccountsKept
    BY <1>1, <2>1, HandlerEndsTyped DEF PipelineInv, GatewayTyped
  <2>3. asked # NoSegment => thread'[asked] = thread[asked] /\ job'[asked] = job[asked]
    BY <1>2, <2>1 DEF PipelineInv, GatewayTyped, RingTyped
  <2>4. NothingIsLost'
    BY <1>2, <2>1, <2>2, <2>3, KeptAccounts DEF AskedInVain
  <2> QED
    BY <2>2, <2>4
<1>4. CASE Answered(t)
  <2>1. /\ asked = t /\ asked' = NoSegment /\ posting # <<>>
        /\ drained' = IF Served(t) THEN drained \cup ToSet(posting.batch) ELSE drained
    BY <1>4 DEF Answered, HistoryAnswer
  <2>2. ToSet(posting.batch) \subseteq 1..MaxPackets
    <3>1. posting.batch \in Seq(1..MaxPackets)
      BY <2>1 DEF PipelineInv, SpoolInv, PostingIsOldest
    <3> QED
      BY <3>1, MembersOf
  <2>3. GatewayTyped' /\ RoomIsLeft' /\ AccountsKept
    BY <1>1, <2>1, <2>2, HandlerEndsTyped DEF PipelineInv, GatewayTyped
  <2>4. Served(t) => \A p \in ToSet(posting.batch) : Accounted(p)
    <3> SUFFICES ASSUME Served(t), NEW p \in ToSet(posting.batch) PROVE Accounted(p)
      OBVIOUS
    <3>1. thread[t].pc = "stored" /\ job[t] = <<>> /\ t # NoSegment
      BY RingAssumption DEF Served
    <3>2. ToSet(job[t]) = {}
      BY <3>1 DEF ToSet
    <3> QED
      BY <2>1, <3>1, <3>2 DEF PipelineInv, NothingIsLost, AskedInVain
  <2>5. drained \subseteq 1..MaxPackets /\ ToSet(recent) \subseteq 1..MaxPackets
    BY MembersOf DEF PipelineInv, GatewayTyped
  <2>6. \A p \in (drained \cup ToSet(recent))' : Accounted(p)'
    BY <1>2, <2>1, <2>2, <2>3, <2>4, <2>5 DEF PipelineInv, NothingIsLost, AccountsKept
  <2> QED
    BY <2>1, <2>3, <2>6 DEF NothingIsLost
<1> QED
  BY <1>3, <1>4

\* A restart of the gateway forgets the identities, and takes the lines in hand.
LEMMA RestartKeepsGateway ==
    ASSUME PipelineInv, GatewayRestart
    PROVE  GatewayTyped' /\ RoomIsLeft' /\ NothingIsLost'
<1>1. /\ recent' = <<>> /\ job' = [t \in Threads |-> <<>>] /\ failed' = failed \cup InHand
      /\ UNCHANGED <<posting, copies, asked, drained>> /\ RingRestart
  BY DEF GatewayRestart, spoolVars
<1>2. RingTyped' /\ RoomIsLeft' /\ thread' = [t \in Threads |-> IdleThread]
  BY <1>1, RestartKeepsRing DEF PipelineInv, GatewayTyped
<1>3. InHand \subseteq 1..MaxPackets
  BY DEF PipelineInv, GatewayTyped, RingTyped, InHand, Handles, Working
<1>4. recent' \in Seq(1..MaxPackets) /\ Len(recent') <= RecentCapacity /\ ToSet(recent)' = {}
  BY <1>1, EmptySeq, PipelineAssumption DEF ToSet
<1>5. job' \in [Threads -> Seq(1..MaxPackets)]
  BY <1>1, EmptySeq
<1>6. GatewayTyped'
  BY <1>1, <1>2, <1>3, <1>4, <1>5 DEF PipelineInv, GatewayTyped
<1>7. AccountsKept
  BY <1>1 DEF AccountsKept, Accounted
<1>8. asked # NoSegment => AskedInVain'
  BY <1>1, <1>2 DEF PipelineInv, GatewayTyped, AskedInVain, IdleThread
<1>9. NothingIsLost'
  BY <1>1, <1>4, <1>7, <1>8, KeptAccounts
<1> QED
  BY <1>2, <1>6, <1>9

\* What the device does while the gateway stands still.
LEMMA GatewayStands ==
    ASSUME PipelineInv, UNCHANGED <<gatewayVars, drained>>,
           \/ asked' = NoSegment
           \/ asked' = asked /\ posting' = posting
    PROVE  GatewayTyped' /\ RoomIsLeft' /\ NothingIsLost'
<1>1. UNCHANGED <<ring, ringCur, repaired, pressure, thread, lastId, restarts, recent, job,
                  copies, failed, drained>>
  BY DEF gatewayVars, ringVars
<1>2. /\ RingTyped' /\ RoomIsLeft' /\ InHand' = InHand
      /\ \A p : Accounted(p) => Accounted(p)'
  BY <1>1 DEF PipelineInv, GatewayTyped, RingTyped, Handles, RoomIsLeft, Late, InHand, Accounted
<1>3. GatewayTyped'
  BY <1>1, <1>2 DEF PipelineInv, GatewayTyped
<1>4. NothingIsLost'
  BY <1>1, <1>2 DEF PipelineInv, NothingIsLost, AskedInVain
<1> QED
  BY <1>2, <1>3, <1>4

LEMMA PostKeepsGateway ==
    ASSUME PipelineInv, NEW t \in Threads, PostReaches(t)
    PROVE  GatewayTyped' /\ RoomIsLeft' /\ NothingIsLost'
<1>1. /\ job' = [job EXCEPT ![t] = posting'.batch] /\ asked' = t
      /\ UNCHANGED <<ring, ringCur, repaired, pressure, thread, lastId, restarts, recent,
                     copies, failed, drained>>
      /\ DrainStart
  BY DEF PostReaches, ringVars, historyVars
<1>2. SpoolInv' /\ posting' # <<>>
  BY <1>1, PostKeepsSpool DEF PipelineInv
<1>3. posting'.batch \in Seq(1..MaxPackets)
  BY <1>2 DEF SpoolInv, PostingIsOldest
<1>4. /\ RingTyped' /\ RoomIsLeft' /\ InHand' = InHand
      /\ \A p : Accounted(p) => Accounted(p)'
  BY <1>1 DEF PipelineInv, GatewayTyped, RingTyped, Handles, RoomIsLeft, Late, InHand, Accounted
<1>5. job' \in [Threads -> Seq(1..MaxPackets)] /\ job'[t] = posting'.batch
  BY <1>1, <1>3 DEF PipelineInv, GatewayTyped
<1>6. GatewayTyped'
  BY <1>1, <1>2, <1>4, <1>5 DEF PipelineInv, GatewayTyped
<1>7. NothingIsLost'
  BY <1>1, <1>4, <1>5 DEF PipelineInv, NothingIsLost
<1> QED
  BY <1>4, <1>6, <1>7

\* Every step of the pipeline is a step of the spool or leaves it alone.
LEMMA PipelineStepsSpool == [PipelineNext]_pipelineVars => [SpoolNext]_spoolVars
<1> SUFFICES ASSUME [PipelineNext]_pipelineVars PROVE SpoolNext \/ UNCHANGED spoolVars
  OBVIOUS
<1>1. TRUE \in RemoveOutcomes /\ \A t : Served(t) \in BOOLEAN
  BY DEF RemoveOutcomes, Served
<1>2. CASE DeviceAlone
  BY <1>2 DEF DeviceAlone, SpoolNext
<1>3. CASE PostLost \/ \E t \in Threads : PostReaches(t)
  BY <1>3 DEF PostLost, PostReaches, SpoolNext, DeviceStep
<1>4. CASE TimedOut \/ \E t \in Threads : Answered(t)
  BY <1>1, <1>4 DEF TimedOut, Answered, SpoolNext
<1>5. CASE \/ \E t \in Threads : Remember(t) \/ IngestStep(t) \/ HandlerEnds(t)
           \/ GatewayRestart \/ Pressure
  BY <1>5 DEF Remember, IngestStep, HandlerEnds, GatewayRestart, Pressure
<1>6. CASE UNCHANGED pipelineVars
  BY <1>6 DEF pipelineVars
<1> QED
  BY <1>2, <1>3, <1>4, <1>5, <1>6 DEF PipelineNext

LEMMA PipelineStep == PipelineInv /\ [PipelineNext]_pipelineVars => PipelineInv'
<1> SUFFICES ASSUME PipelineInv, [PipelineNext]_pipelineVars PROVE PipelineInv'
  OBVIOUS
<1>1. SpoolInv'
  BY SpoolStep, PipelineStepsSpool DEF PipelineInv
<1>2. CASE DeviceAlone \/ PostLost \/ TimedOut \/ UNCHANGED pipelineVars
  <2>1. UNCHANGED <<gatewayVars, drained>>
    BY <1>2 DEF DeviceAlone, PostLost, TimedOut, pipelineVars
  <2>2. asked' = NoSegment \/ (asked' = asked /\ posting' = posting)
    <3>1. CASE DeviceAlone
      BY <3>1 DEF DeviceAlone
    <3>2. CASE PostLost \/ TimedOut
      BY <3>2 DEF PostLost, TimedOut
    <3>3. CASE UNCHANGED pipelineVars
      BY <3>3 DEF pipelineVars, spoolVars
    <3> QED
      BY <1>2, <3>1, <3>2, <3>3
  <2> QED
    BY <1>1, <2>1, <2>2, GatewayStands DEF PipelineInv
<1>3. CASE \E t \in Threads : PostReaches(t)
  BY <1>1, <1>3, PostKeepsGateway DEF PipelineInv
<1>4. CASE \E t \in Threads : Answered(t) \/ HandlerEnds(t)
  BY <1>1, <1>4, AnswerKeepsGateway DEF PipelineInv
<1>5. CASE \E t \in Threads : Remember(t)
  BY <1>1, <1>5, RememberKeepsGateway DEF PipelineInv
<1>6. CASE \E t \in Threads : IngestStep(t)
  BY <1>1, <1>6, IngestKeepsGateway DEF PipelineInv
<1>7. CASE GatewayRestart
  BY <1>1, <1>7, RestartKeepsGateway DEF PipelineInv
<1>8. CASE Pressure
  <2>1. /\ pressure' = ~pressure
        /\ UNCHANGED <<posting, ring, ringCur, repaired, thread, lastId, restarts, recent, job,
                       asked, copies, failed, drained>>
    BY <1>8 DEF Pressure, PressureChanges, spoolVars, historyVars
  <2>2. /\ RingTyped' /\ RoomIsLeft' /\ InHand' = InHand
        /\ \A p : Accounted(p) => Accounted(p)'
    BY <2>1 DEF PipelineInv, GatewayTyped, RingTyped, Handles, RoomIsLeft, Late, InHand, Accounted
  <2>3. GatewayTyped'
    BY <2>1, <2>2 DEF PipelineInv, GatewayTyped
  <2>4. NothingIsLost'
    BY <2>1, <2>2 DEF PipelineInv, NothingIsLost, AskedInVain
  <2> QED
    BY <1>1, <2>2, <2>3, <2>4 DEF PipelineInv
<1> QED
  BY <1>2, <1>3, <1>4, <1>5, <1>6, <1>7, <1>8 DEF PipelineNext

LEMMA PipelineInitially == PipelineInit => PipelineInv
<1> SUFFICES ASSUME PipelineInit PROVE PipelineInv
  OBVIOUS
<1>1. /\ ring = NoFiles /\ ringCur = NoSegment /\ repaired = FALSE /\ pressure = FALSE
      /\ thread = [t \in Threads |-> IdleThread] /\ lastId = 0 /\ restarts = 0
      /\ recent = <<>> /\ job = [t \in Threads |-> <<>>] /\ asked = NoSegment
      /\ copies = [p \in 1..MaxPackets |-> 0] /\ failed = {} /\ drained = {}
  BY DEF PipelineInit, RingInit
<1>2. SpoolInv
  BY SpoolInitially DEF PipelineInit
<1>3. DOMAIN ring = {} /\ ring \in [{} -> Seq(Nat \cup {Torn})] /\ Used(ring) = 0
  <2>1. DOMAIN ring = {} /\ ring \in [{} -> Seq(Nat \cup {Torn})]
    BY <1>1 DEF NoFiles
  <2> QED
    BY <2>1, RecordsAre, FS_EmptySet DEF Used
<1>4. IdleThread \in ThreadTypes /\ IdleThread.pc = "idle"
  BY DEF IdleThread, ThreadTypes
<1>5. RingTyped
  <2>1. thread \in [Threads -> ThreadTypes] /\ \A t \in Threads : ~Handles(t)
    BY <1>1, <1>4 DEF Handles, Working
  <2>2. lastId \in 0..MaxSegments /\ restarts \in 0..MaxRestarts
    BY <1>1, RingAssumption
  <2> QED
    BY <1>1, <1>3, <2>1, <2>2 DEF RingTyped
<1>6. GatewayTyped
  BY <1>1, <1>5, EmptySeq, PipelineAssumption DEF GatewayTyped
<1>7. RoomIsLeft
  <2>1. Late = {} /\ Late \in SUBSET Threads
    BY <1>1, <1>4 DEF Late
  <2>2. Cardinality(Late) = 0 /\ Cardinality(Threads) \in Nat
    BY <2>1, ThreadsAreCounted, FS_EmptySet
  <2> QED
    BY <1>3, <2>2, RingAssumption DEF RoomIsLeft
<1>8. NothingIsLost
  BY <1>1 DEF NothingIsLost, ToSet
<1> QED
  BY <1>2, <1>6, <1>7, <1>8 DEF PipelineInv

\* Whatever times out, is retried, is reset or fails: a record that the device has deleted
\* on a 2xx was written to the store, is in the hand of a live thread, or its append has
\* failed.
THEOREM DrainedRecordsAreAccounted == PipelineSpec => []DrainedIsStoredOrFailed
<1>1. PipelineSpec => []PipelineInv
  BY PipelineInitially, PipelineStep, PTL DEF PipelineSpec
<1>2. PipelineInv => DrainedIsStoredOrFailed
  BY DEF PipelineInv, NothingIsLost, Accounted, DrainedIsStoredOrFailed
<1> QED
  BY <1>1, <1>2, PTL

\* The spool keeps its promises in the pipeline too: what the gateway does is no step of it.
THEOREM PipelineKeepsTheSpool == PipelineSpec => SpoolSpec
<1>1. PipelineInit => SpoolInit
  BY DEF PipelineInit
<1> QED
  BY <1>1, PipelineStepsSpool, PTL DEF PipelineSpec, SpoolSpec

-----------------------------------------------------------------------------
(* No record is stored twice *)

\* What the recent identities stand for: while none is evicted, a record that is not
\* remembered has no copy of this run, and one in hand is remembered and in one hand only.
OnceEach ==
    /\ Len(recent) = Cardinality(ToSet(recent))
    /\ \A p \in 1..MaxPackets :
          /\ copies[p] <= 1 + restarts
          /\ p \in InHand => copies[p] <= restarts /\ p \in ToSet(recent)
          /\ p \notin ToSet(recent) => copies[p] <= restarts
    /\ \A t, u \in Threads :
          Handles(t) /\ Handles(u) /\ thread[t].line = thread[u].line => t = u

\* While no more packets come than the set of identities holds, it forgets none of them.
LEMMA NothingIsEvicted ==
    ASSUME MaxPackets <= RecentCapacity, GatewayTyped, OnceEach,
           NEW id \in 1..MaxPackets, id \notin ToSet(recent)
    PROVE  /\ ToSet(Remembered(id)) = ToSet(recent) \cup {id}
           /\ Len(Remembered(id)) = Cardinality(ToSet(Remembered(id)))
<1>1. /\ recent \in Seq(1..MaxPackets) /\ Len(recent) = Cardinality(ToSet(recent))
      /\ Len(recent) \in Nat /\ MaxPackets \in Nat /\ RecentCapacity \in Nat
  BY SpoolAssumption, PipelineAssumption, LenProperties DEF GatewayTyped, OnceEach
<1>2. ToSet(recent) \subseteq 1..MaxPackets
  BY <1>1, MembersOf
<1>3. IsFiniteSet(1..MaxPackets) /\ Cardinality(1..MaxPackets) = MaxPackets
  <2>1. 1 \in Int /\ MaxPackets \in Int
    BY <1>1
  <2>2. /\ IsFiniteSet(1..MaxPackets)
        /\ Cardinality(1..MaxPackets) = IF 1 > MaxPackets THEN 0 ELSE MaxPackets - 1 + 1
    BY ONLY <2>1, FS_Interval
  <2> QED
    BY <1>1, <2>2
<1>4. IsFiniteSet(ToSet(recent))
  BY <1>2, <1>3, FS_Subset
<1>5. Cardinality(ToSet(recent) \cup {id}) = Len(recent) + 1
  BY <1>1, <1>4, FS_AddElement
<1>6. Cardinality(ToSet(recent) \cup {id}) <= MaxPackets
  <2>1. ToSet(recent) \cup {id} \in SUBSET (1..MaxPackets)
    BY <1>2
  <2> QED
    BY <1>3, <2>1, FS_Subset
<1>7. Remembered(id) = Append(recent, id)
  BY <1>1, <1>5, <1>6 DEF Remembered
<1>8. ToSet(Append(recent, id)) = ToSet(recent) \cup {id}
  BY <1>1, MembersOf
<1>9. Len(Append(recent, id)) = Len(recent) + 1
  BY <1>1, AppendProperties
<1> QED
  BY <1>5, <1>7, <1>8, <1>9

LEMMA IngestStoresOnce ==
    ASSUME PipelineInv, OnceEach, NEW t \in Threads, IngestStep(t)
    PROVE  OnceEach'
<1> PICK line : line = thread[t].line
  OBVIOUS
<1>1. /\ copies' = IF thread'[t].pc = "stored" THEN [copies EXCEPT ![line] = @ + 1] ELSE copies
      /\ recent' = recent /\ AppendStep(t)
  BY DEF IngestStep
<1>2. Moved(t)
  BY <1>1, AppendKeepsRing DEF PipelineInv, GatewayTyped
<1>3. /\ line \in 1..MaxPackets /\ copies \in [1..MaxPackets -> Nat] /\ restarts \in Nat
      /\ Handles(t) /\ restarts' = restarts
  BY <1>2, RingAssumption DEF PipelineInv, GatewayTyped, RingTyped, Moved
<1>4. \A u \in Threads : thread'[u].line = thread[u].line /\ (Handles(u)' => Handles(u))
  BY <1>2 DEF Moved, Handles
<1>5. \A p : p \in InHand' => p \in InHand
  BY <1>4 DEF InHand, Handles, Working
<1>6. line \in InHand
  BY <1>3 DEF InHand, Handles, Working
<1>7. thread'[t].pc = "stored" => line \notin InHand'
  <2> SUFFICES ASSUME thread'[t].pc = "stored", NEW u \in Threads, Handles(u)',
                      thread'[u].line = line
               PROVE  FALSE
    BY DEF InHand, Handles, Working
  <2>1. Handles(u) /\ thread[u].line = thread[t].line
    BY <1>4
  <2>2. u = t
    BY <1>3, <2>1 DEF OnceEach
  <2> QED
    BY <2>2 DEF Handles, Working
<1>8. ASSUME NEW p \in 1..MaxPackets
      PROVE  /\ copies'[p] <= 1 + restarts'
             /\ p \in InHand' => copies'[p] <= restarts' /\ p \in ToSet(recent')
             /\ p \notin ToSet(recent') => copies'[p] <= restarts'
  <2>1. CASE p = line /\ thread'[t].pc = "stored"
    <3>1. copies'[p] = copies[p] + 1 /\ copies[p] \in Nat
      BY <1>1, <1>3, <2>1
    <3>2. copies[p] <= restarts /\ p \in ToSet(recent)
      BY <1>6, <2>1 DEF OnceEach
    <3> QED
      BY <1>1, <1>3, <1>7, <2>1, <3>1, <3>2
  <2>2. CASE ~(p = line /\ thread'[t].pc = "stored")
    <3>1. copies'[p] = copies[p]
      BY <1>1, <1>3, <2>2
    <3> QED
      BY <1>1, <1>3, <1>5, <3>1 DEF OnceEach
  <2> QED
    BY <2>1, <2>2
<1> QED
  BY <1>1, <1>4, <1>8 DEF OnceEach

LEMMA RememberStoresOnce ==
    ASSUME MaxPackets <= RecentCapacity, PipelineInv, OnceEach, NEW t \in Threads, Remember(t)
    PROVE  OnceEach'
<1> PICK id : id = Head(job[t])
  OBVIOUS
<1>1. /\ thread[t].pc \in {"idle", "stored"} /\ job[t] # <<>>
      /\ \/ /\ recent' = recent
            /\ thread' = [thread EXCEPT ![t] = [IdleThread EXCEPT !.pc = "stored"]]
         \/ /\ ~Contains(recent, id) /\ recent' = Remembered(id)
            /\ thread' = [thread EXCEPT ![t] = [IdleThread EXCEPT !.pc = "check", !.line = id]]
      /\ copies' = copies /\ restarts' = restarts
  BY DEF Remember, StartAppend, historyVars
<1>2. job[t] \in Seq(1..MaxPackets) /\ recent \in Seq(1..MaxPackets)
      /\ thread \in [Threads -> ThreadTypes]
  BY DEF PipelineInv, GatewayTyped, RingTyped
<1>3. id \in 1..MaxPackets
  BY <1>1, <1>2, MembersOf
<1>4. ~Contains(recent, id) => id \notin ToSet(recent)
  BY <1>2, MembersOf
<1>5. /\ \A u \in Threads \ {t} : thread'[u] = thread[u]
      /\ \/ recent' = recent /\ thread'[t].pc = "stored"
         \/ /\ id \notin ToSet(recent) /\ recent' = Remembered(id)
            /\ thread'[t].pc = "check" /\ thread'[t].line = id
  BY <1>1, <1>2, <1>4 DEF IdleThread
<1>6. CASE recent' = recent /\ thread'[t].pc = "stored"
  <2>1. \A u \in Threads : Handles(u)' => Handles(u) /\ thread'[u] = thread[u]
    BY <1>5, <1>6 DEF Handles, Working
  <2>2. \A p : p \in InHand' => p \in InHand
    BY <2>1 DEF InHand, Handles, Working
  <2> QED
    BY <1>1, <1>6, <2>1, <2>2 DEF OnceEach
<1>7. CASE /\ id \notin ToSet(recent) /\ recent' = Remembered(id)
           /\ thread'[t].pc = "check" /\ thread'[t].line = id
  <2>1. /\ ToSet(recent)' = ToSet(recent) \cup {id}
        /\ Len(recent') = Cardinality(ToSet(recent)')
    BY <1>3, <1>7, NothingIsEvicted DEF PipelineInv
  <2>2. \A u \in Threads \ {t} : Handles(u)' => Handles(u) /\ thread'[u] = thread[u]
    BY <1>5 DEF Handles
  <2>3. \A p : p \in InHand' => p \in InHand \cup {id}
    BY <1>7, <2>2 DEF InHand, Handles, Working
  <2>4. id \notin InHand /\ copies[id] <= restarts
    BY <1>3, <1>7 DEF OnceEach
  <2>5. \A u \in Threads \ {t} : Handles(u)' => thread'[u].line # id
    BY <2>2, <2>4 DEF InHand, Handles, Working
  <2>6. \A u, v \in Threads :
            Handles(u)' /\ Handles(v)' /\ thread'[u].line = thread'[v].line => u = v
    BY <1>7, <2>2, <2>5 DEF OnceEach
  <2>7. ASSUME NEW p \in 1..MaxPackets
        PROVE  /\ copies'[p] <= 1 + restarts'
               /\ p \in InHand' => copies'[p] <= restarts' /\ p \in ToSet(recent)'
               /\ p \notin ToSet(recent)' => copies'[p] <= restarts'
    BY <1>1, <2>1, <2>3, <2>4 DEF OnceEach
  <2> QED
    BY <2>1, <2>6, <2>7 DEF OnceEach
<1> QED
  BY <1>5, <1>6, <1>7

\* A thread that ends has nothing in hand; a restart takes everything out of hand.
LEMMA EndingStoresNothing ==
    ASSUME PipelineInv, OnceEach,
           \/ \E t \in Threads : EndHandler(t) /\ ~Handles(t)
           \/ GatewayRestart
    PROVE  OnceEach'
<1>1. IdleThread.pc = "idle"
  BY DEF IdleThread
<1>2. ASSUME NEW t \in Threads, EndHandler(t), ~Handles(t)
      PROVE  OnceEach'
  <2>1. /\ thread' = [thread EXCEPT ![t] = IdleThread]
        /\ UNCHANGED <<recent, copies, restarts>>
    BY <1>2 DEF EndHandler
  <2>2. \A u \in Threads : Handles(u)' => Handles(u) /\ thread'[u] = thread[u]
    BY <1>1, <2>1 DEF PipelineInv, GatewayTyped, RingTyped, Handles, Working
  <2>3. \A p : p \in InHand' => p \in InHand
    BY <2>2 DEF InHand, Handles, Working
  <2> QED
    BY <2>1, <2>2, <2>3 DEF OnceEach
<1>3. ASSUME GatewayRestart PROVE OnceEach'
  <2>1. recent' = <<>> /\ copies' = copies /\ RingRestart
    BY <1>3 DEF GatewayRestart
  <2>2. thread' = [t \in Threads |-> IdleThread] /\ restarts' = restarts + 1
    BY <2>1, RestartKeepsRing DEF PipelineInv, GatewayTyped
  <2>3. \A t \in Threads : ~Handles(t)'
    BY <1>1, <2>2 DEF Handles, Working
  <2>4. InHand' = {}
    BY <2>3 DEF InHand, Handles, Working
  <2>5. ToSet(recent)' = {} /\ Len(recent') = 0
    BY <2>1 DEF ToSet
  <2>6. Cardinality(ToSet(recent)') = 0
    BY <2>5, FS_EmptySet
  <2>7. \A p \in 1..MaxPackets : copies'[p] <= restarts' /\ restarts' \in Nat
    <3>1. restarts \in Nat /\ restarts' = restarts + 1
      BY <2>2, RingAssumption DEF PipelineInv, GatewayTyped, RingTyped
    <3> QED
      BY <2>1, <3>1 DEF OnceEach
  <2>8. copies' \in [1..MaxPackets -> Nat]
    BY <2>1 DEF PipelineInv, GatewayTyped
  <2> QED
    BY <2>3, <2>4, <2>5, <2>6, <2>7, <2>8 DEF OnceEach
<1> QED
  BY <1>2, <1>3

LEMMA StandingStoresNothing ==
    ASSUME OnceEach, UNCHANGED <<thread, recent, copies, restarts>>
    PROVE  OnceEach'
  BY DEF OnceEach, InHand, Handles

LEMMA OnceStep ==
    ASSUME MaxPackets <= RecentCapacity
    PROVE  PipelineInv /\ OnceEach /\ [PipelineNext]_pipelineVars => OnceEach'
<1> SUFFICES ASSUME PipelineInv, OnceEach, [PipelineNext]_pipelineVars PROVE OnceEach'
  OBVIOUS
<1>1. CASE DeviceAlone \/ PostLost \/ TimedOut \/ Pressure \/ UNCHANGED pipelineVars
  <2>1. UNCHANGED <<thread, recent, copies, restarts>>
    BY <1>1 DEF DeviceAlone, PostLost, TimedOut, Pressure, PressureChanges, pipelineVars,
                gatewayVars, ringVars, historyVars
  <2> QED
    BY <2>1, StandingStoresNothing
<1>2. CASE \E t \in Threads : PostReaches(t)
  <2>1. UNCHANGED <<thread, recent, copies, restarts>>
    BY <1>2 DEF PostReaches, ringVars, historyVars
  <2> QED
    BY <2>1, StandingStoresNothing
<1>3. CASE \E t \in Threads : Answered(t) \/ HandlerEnds(t)
  BY <1>3, EndingStoresNothing DEF Answered, HandlerEnds, Served, Handles, Working
<1>4. CASE GatewayRestart
  BY <1>4, EndingStoresNothing
<1>5. CASE \E t \in Threads : Remember(t)
  BY <1>5, RememberStoresOnce
<1>6. CASE \E t \in Threads : IngestStep(t)
  BY <1>6, IngestStoresOnce
<1> QED
  BY <1>1, <1>2, <1>3, <1>4, <1>5, <1>6 DEF PipelineNext

LEMMA OnceInitially == PipelineInit => OnceEach
<1> SUFFICES ASSUME PipelineInit PROVE OnceEach
  OBVIOUS
<1>1. /\ thread = [t \in Threads |-> IdleThread] /\ restarts = 0 /\ recent = <<>>
      /\ copies = [p \in 1..MaxPackets |-> 0]
  BY DEF PipelineInit, RingInit
<1>2. \A t \in Threads : ~Handles(t)
  BY <1>1 DEF IdleThread, Handles, Working
<1>3. InHand = {}
  BY <1>2 DEF InHand, Handles, Working
<1>4. ToSet(recent) = {} /\ Len(recent) = 0
  BY <1>1 DEF ToSet
<1>5. Cardinality(ToSet(recent)) = 0
  BY <1>4, FS_EmptySet
<1> QED
  BY <1>1, <1>2, <1>3, <1>4, <1>5 DEF OnceEach

\* The invariant types the gateway's state, and bounds the store.
LEMMA PipelineInvIsSound == PipelineInv => PipelineTypeOK /\ QuotaExceededByThreadsOnly
<1> SUFFICES ASSUME PipelineInv PROVE PipelineTypeOK /\ QuotaExceededByThreadsOnly
  OBVIOUS
<1>1. \A id \in DOMAIN ring : id \in 1..MaxSegments
  BY RingDirectory DEF PipelineInv, GatewayTyped
<1>2. RingTypeOK
  BY <1>1 DEF PipelineInv, GatewayTyped, RingTyped, RingTypeOK
<1>3. ToSet(recent) \subseteq 1..MaxPackets
  BY MembersOf DEF PipelineInv, GatewayTyped
<1>4. PipelineTypeOK
  BY <1>2, <1>3 DEF PipelineInv, GatewayTyped, PipelineTypeOK
<1>5. Late \in SUBSET Threads
  BY DEF Late
<1>6. Cardinality(Late) \in Nat /\ Cardinality(Threads) \in Nat
  BY <1>5, ThreadsAreCounted
<1>7. Used(ring) \in Nat /\ RingQuota \in Nat
  BY RingDirectory, RingAssumption DEF PipelineInv, GatewayTyped
<1> QED
  BY <1>4, <1>6, <1>7 DEF PipelineInv, RoomIsLeft, QuotaExceededByThreadsOnly

\* The store exceeds its quota by less than one record per thread, however the threads'
\* checks and writes interleave.
THEOREM StoreStaysBounded == PipelineSpec => [](PipelineTypeOK /\ QuotaExceededByThreadsOnly)
<1>1. PipelineSpec => []PipelineInv
  BY PipelineInitially, PipelineStep, PTL DEF PipelineSpec
<1> QED
  BY <1>1, PipelineInvIsSound, PTL

\* While no more packets fail live delivery than the set of recent identities holds,
\* threads that serve the same segment at the same time store no record twice: all that
\* StoreIsSound says.
THEOREM StoreStaysSound == MaxPackets <= RecentCapacity => (PipelineSpec => []StoreIsSound)
<1> SUFFICES ASSUME MaxPackets <= RecentCapacity PROVE PipelineSpec => []StoreIsSound
  OBVIOUS
<1>1. PipelineSpec => []PipelineInv
  BY PipelineInitially, PipelineStep, PTL DEF PipelineSpec
<1>2. PipelineInv /\ OnceEach /\ [PipelineNext]_pipelineVars => OnceEach'
  BY OnceStep
<1>3. PipelineSpec => []OnceEach
  BY <1>1, <1>2, OnceInitially, PTL DEF PipelineSpec
<1>4. PipelineInv /\ OnceEach => StoreIsSound
  BY PipelineInvIsSound DEF OnceEach, StoredOncePerRun, StoreIsSound
<1> QED
  BY <1>1, <1>3, <1>4, PTL
=============================================================================

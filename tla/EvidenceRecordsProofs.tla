------------------------- MODULE EvidenceRecordsProofs -------------------------
(***************************************************************************)
(* What is recorded stands, for every number of people, records, packages, *)
(* builds, scenarios, journal files and restarts.  The index of physical   *)
(* evidence needs its size to be that of the set of digests; a verdict needs*)
(* to know who began the round that it ends.  The journal needs its head to*)
(* link to the last line retained, or to one that does not count as written,*)
(* wherever an append or a rotation is cut short.                          *)
(***************************************************************************)
EXTENDS MCEvidenceRecords, FiniteSetTheorems, SequenceTheorems, TLAPS

(***************************************************************************)
(* The protected index.                                                    *)
(***************************************************************************)
IndexInv ==
    /\ store \in [RecordIds -> Evidence \cup {None}] /\ backend \in BOOLEAN
    /\ digests = {store[i].package : i \in Registered}
    /\ IsFiniteSet(Registered) /\ IsFiniteSet(digests)
    /\ Cardinality(Registered) = Cardinality(digests)
    /\ EvidenceIsIndexedOnce

\* One more record and one more digest are registered, or nothing changes.
LEMMA RegisterKeeps ==
    ASSUME IndexInv, NEW r \in Evidence, Register(r)
    PROVE  IndexInv'
<1>1. /\ backend /\ r.id \in RecordIds \ Registered /\ r.package \notin digests
      /\ ~(Cardinality(Registered) >= MaxIndexed)
  BY DEF Register, RegistrationCode, Evidence
<1>2. /\ store' \in [RecordIds -> Evidence \cup {None}]
      /\ store'[r.id] = r
      /\ \A i \in Registered : store'[i] = store[i]
      /\ backend' = backend
  BY <1>1 DEF Register, IndexInv, Registered
<1>3. Registered' = Registered \cup {r.id} /\ digests' = digests \cup {r.package}
  BY <1>1, NoneAssumption DEF Register, IndexInv, Registered
<1>4. /\ IsFiniteSet(Registered') /\ IsFiniteSet(digests')
      /\ Cardinality(Registered') = Cardinality(Registered) + 1
      /\ Cardinality(digests') = Cardinality(digests) + 1
  BY <1>1, <1>3, FS_AddElement DEF IndexInv
<1>5. Cardinality(Registered') <= MaxIndexed /\ Cardinality(Registered') = Cardinality(digests')
  <2>1. Cardinality(Registered) \in Nat
    BY FS_CardinalityType DEF IndexInv
  <2> QED
    BY <1>1, <1>4, <2>1, ValidationAssumption DEF IndexInv
<1>6. digests' = {store'[i].package : i \in Registered'}
  BY <1>2, <1>3 DEF IndexInv
<1>7. \A i, j \in Registered' : i # j => store'[i].package # store'[j].package
  BY <1>1, <1>2, <1>3 DEF IndexInv, EvidenceIsIndexedOnce
<1> QED
  BY <1>1, <1>2, <1>4, <1>5, <1>6, <1>7 DEF IndexInv, EvidenceIsIndexedOnce, BuildP0P6Portfolio

(***************************************************************************)
(* Calibration, capture agents and observations.                           *)
(***************************************************************************)
Rounds == [began : Actors \cup {None}, captured : Packages \cup {None}]

\* Whoever is named as the operator began the round, from its start to the verdict on it.
CalibrationInv ==
    /\ calibration \in CalibrationRecords /\ round \in Rounds
    /\ calibration.state \in {"calibration-pending", "captured-awaiting-independent-review",
                              "approved", "rejected"} =>
          calibration.operator \in Actors /\ calibration.operator = round.began
    /\ calibration.state \in {"captured-awaiting-independent-review", "approved", "rejected"} =>
          calibration.build \in Builds /\ calibration.artifact = round.captured
    /\ calibration.state \in {"approved", "rejected"} =>
          calibration.reviewer \in Actors /\ calibration.reviewer # round.began

LEMMA CalibrationKeeps ==
    ASSUME CalibrationInv, CalibrationNext
    PROVE  CalibrationInv'
<1> USE NoneAssumption DEF CalibrationInv, CalibrationRecords, CalibrationStates, Rounds
<1>1. ASSUME NEW a \in Actors, Provision(a) PROVE CalibrationInv'
  BY <1>1 DEF Provision, Transition
<1>2. ASSUME NEW a \in Actors, NEW l \in BOOLEAN, NEW o \in TimeSyncObservations,
             BeginCalibration(a, l, o)
      PROVE  CalibrationInv'
  BY <1>2 DEF BeginCalibration, Transition
<1>3. ASSUME NEW a \in Actors, NEW b \in Builds, NEW p \in Packages, Capture(a, b, p)
      PROVE  CalibrationInv'
  BY <1>3 DEF Capture
<1>4. ASSUME NEW a \in Actors, NEW v \in {"approved", "rejected"}, Review(a, v)
      PROVE  CalibrationInv'
  BY <1>4 DEF Review, Independent
<1>5. ASSUME Invalidate PROVE CalibrationInv'
  BY <1>5 DEF Invalidate
<1>6. ASSUME NEW a \in Actors, Retry(a) PROVE CalibrationInv'
  BY <1>6 DEF Retry
<1> QED
  BY <1>1, <1>2, <1>3, <1>4, <1>5, <1>6 DEF CalibrationNext

Agents == [state : {"BLOCKED", "READY", "CAPTURED"}, record : Evidence \cup {None}]

\* An agent is ready, and may capture, only while nothing is missing.
AgentInv ==
    /\ agents \in [Classes -> Agents] /\ readied \in [Classes -> BOOLEAN]
    /\ \A c \in Classes :
          /\ agents[c].state \in {"READY", "CAPTURED"} => readied[c]
          /\ agents[c].state = "CAPTURED" =>
                /\ agents[c].record \in Evidence
                /\ agents[c].record.class = c /\ agents[c].record.sound
                /\ agents[c].record.review = "pending"

LEMMA AgentKeeps ==
    ASSUME AgentInv, AgentNext
    PROVE  AgentInv'
<1>1. ASSUME NEW c \in Classes, NEW m \in Missing, NEW o1 \in Actors \cup {None},
             NEW o2 \in Actors \cup {None}, Evaluate(c, m, o1, o2)
      PROVE  AgentInv'
  <2>1. Blocked(c, m, o1, o2) \in BOOLEAN
    BY DEF Blocked, Missing
  <2>2. PICK blocked \in BOOLEAN :
            /\ agents' = [agents EXCEPT ![c].state = IF blocked THEN "BLOCKED" ELSE "READY"]
            /\ readied' = [readied EXCEPT ![c] = ~blocked]
    BY <1>1, <2>1 DEF Evaluate
  <2>3. /\ agents' \in [Classes -> Agents] /\ readied' \in [Classes -> BOOLEAN]
        /\ \A k \in Classes \ {c} : agents'[k] = agents[k] /\ readied'[k] = readied[k]
        /\ agents'[c].state = (IF blocked THEN "BLOCKED" ELSE "READY")
        /\ readied'[c] = ~blocked
    BY <2>2 DEF AgentInv, Agents
  <2> QED
    BY <2>3 DEF AgentInv
<1>2. ASSUME NEW c \in Classes, NEW r \in Evidence, CaptureScenario(c, r)
      PROVE  AgentInv'
  BY <1>2 DEF CaptureScenario, MayCapture, ValidatePhysicalEvidenceRecord, AgentInv, Agents
<1> QED
  BY <1>1, <1>2 DEF AgentNext

Events == {"vehicle-input-degraded", "vehicle-input-unavailable"}

ObservationInv ==
    /\ observed.status \in {"live", "degraded", "unavailable", None}
    /\ events \in Seq(Events) /\ Len(events) <= MaxBufferedEvents

LEMMA ObservationKeeps ==
    ASSUME ObservationInv, ObservationNext
    PROVE  ObservationInv'
<1>1. \A e \in Events : Noted(e) \in Seq(Events) /\ Len(Noted(e)) <= MaxBufferedEvents
  BY ValidationAssumption DEF Noted, ObservationInv
<1>2. CASE Observe
  BY <1>2 DEF Observe, ObservationInv
<1>3. ASSUME NEW s \in Snapshots, SnapshotRead(s) PROVE ObservationInv'
  BY <1>1, <1>3 DEF SnapshotRead, ObservationInv, Events
<1>4. CASE ReadFails
  BY <1>1, <1>4 DEF ReadFails, ObservationInv, Events
<1> QED
  BY <1>2, <1>3, <1>4 DEF ObservationNext

(***************************************************************************)
(* The journal: on a corrupt active file no append gets as far as writing.     *)
(***************************************************************************)
CorruptStays ==
    found = "corrupt" =>
        ~Verified(Active.lines) /\ initialized = FALSE /\ step.pc = "idle"

\* While the file found stays corrupt, no step of the chain writes or moves a file.
LEMMA CorruptKeeps ==
    ASSUME CorruptStays, [Next]_vars
    PROVE  CorruptStays' /\ (found = "corrupt" => files' = files)
<1>1. CASE UNCHANGED vars
  BY <1>1 DEF vars, CorruptStays, Active
<1>2. CASE Restart
  <2>1. /\ found' = IF ~Verified(Active'.lines) THEN "corrupt"
                    ELSE IF Active'.ended THEN "sound" ELSE "no newline"
        /\ initialized' = FALSE /\ step'.pc = "idle"
    BY <1>2 DEF Restart, Idle
  <2>2. CorruptStays'
    BY <2>1 DEF CorruptStays
  <2>3. ASSUME found = "corrupt" PROVE files' = files
    BY <1>2, <2>3 DEF Restart, CorruptStays
  <2> QED
    BY <2>2, <2>3
<1>3. CASE AppendRecord \/ ChainStep
  <2>1. found' = found
    BY <1>3 DEF AppendRecord, ChainStep, InitializeIntegrityHead, WriteLine, RotateUnlink,
       RotateRename, AppendFile, AppendFileFails, FileOperationFails, processVars
  <2>2. SUFFICES ASSUME found = "corrupt"
                 PROVE  files' = files /\ initialized' = FALSE /\ step'.pc = "idle"
    BY <2>1 DEF CorruptStays, Active
  <2>3. ~Verified(Active.lines) /\ initialized = FALSE /\ step.pc = "idle"
    BY <2>2 DEF CorruptStays
  <2>4. CASE AppendRecord
    BY <2>3, <2>4 DEF AppendRecord, fileVars, processVars
  <2>5. CASE InitializeIntegrityHead
    BY <2>3, <2>5 DEF InitializeIntegrityHead, Settle, Idle, fileVars
  <2>6. CASE FileOperationFails
    BY <2>3, <2>6 DEF FileOperationFails, Settle, Idle, fileVars
  <2> QED
    BY <1>3, <2>3, <2>4, <2>5, <2>6 DEF ChainStep, WriteLine, RotateUnlink, RotateRename,
       AppendFile, AppendFileFails
<1> QED
  BY <1>1, <1>2, <1>3 DEF Next

(***************************************************************************)
(* The journal: what an append leaves of a file.                           *)
(***************************************************************************)
Lines == Seq(Entries \cup {Unreadable})

\* A file whose last line has its newline, or that has a last line.
Whole(f) == f \in Files /\ (f.ended \/ f.lines # <<>>)

\* g is the file f, or f with one line written after it, or continued by what was to be
\* a line of its own.
Grown(f, g, line) ==
    /\ Whole(g)
    /\ \/ g = f
       \/ /\ g.lines # <<>> /\ g.size = f.size + 1
          /\ \A n \in 1..(Len(g.lines) - 1) : n \in 1..Len(f.lines) /\ g.lines[n] = f.lines[n]
          /\ \/ /\ f.ended /\ Len(g.lines) = Len(f.lines) + 1
                /\ Last(g.lines) \in {line, Unreadable}
             \/ /\ ~f.ended /\ Len(g.lines) = Len(f.lines) /\ Last(g.lines) = Unreadable

LEMMA FileFields ==
    ASSUME NEW f \in Files
    PROVE  /\ f.lines \in Lines /\ f.ended \in BOOLEAN /\ f.size \in 0..FileRecords
           /\ Len(f.lines) \in Nat /\ DOMAIN f.lines = 1..Len(f.lines)
           /\ \A n \in 1..Len(f.lines) : f.lines[n] \in Entries \cup {Unreadable}
           /\ f.lines # <<>> => Len(f.lines) \in Nat \ {0}
           /\ f.size \in Nat
<1>1. f.lines \in Seq(Entries \cup {Unreadable}) /\ f.ended \in BOOLEAN /\ f.size \in 0..FileRecords
  BY DEF Files
<1> QED
  BY <1>1, LenProperties, ElementOfSeq, EmptySeq, JournalAssumption DEF Lines

LEMMA ExtendedGrows ==
    ASSUME NEW f, Whole(f), f.size < FileRecords,
           NEW line \in Entries, NEW x \in {line, Unreadable}, NEW e \in BOOLEAN
    PROVE  /\ Grown(f, Extended(f, x, e), line)
           /\ Extended(f, x, e).ended = e
           /\ f.ended => Extended(f, x, e).lines = Append(f.lines, x)
<1> DEFINE g == Extended(f, x, e)
           S == Entries \cup {Unreadable}
<1>1. /\ f \in Files /\ f.lines \in Seq(S) /\ Len(f.lines) \in Nat /\ f.size + 1 \in 0..FileRecords
      /\ f.lines # <<>> => Len(f.lines) \in Nat \ {0}
      /\ \A n \in 1..Len(f.lines) : f.lines[n] \in S
      /\ f.ended \in BOOLEAN
  BY FileFields, JournalAssumption DEF Whole, Lines
<1>2. g.size = f.size + 1 /\ g.ended = e
  BY DEF Extended
<1>3. CASE f.ended
  <2>1. g.lines = Append(f.lines, x)
    BY <1>3 DEF Extended
  <2>2. /\ g.lines \in Seq(S) /\ g.lines # <<>> /\ Len(g.lines) = Len(f.lines) + 1
        /\ \A n \in 1..Len(f.lines) : g.lines[n] = f.lines[n]
        /\ g.lines[Len(f.lines) + 1] = x
    BY <1>1, <2>1, AppendProperties
  <2>3. g \in Files
    BY <1>1, <2>2 DEF Extended, Files
  <2> QED
    BY <1>1, <1>2, <1>3, <2>1, <2>2, <2>3 DEF Grown, Whole, Last
<1>4. CASE ~f.ended
  <2> DEFINE n == Len(f.lines)
             front == SubSeq(f.lines, 1, n - 1)
  <2>1. f.lines # <<>> /\ n \in Nat \ {0}
    BY <1>1, <1>4 DEF Whole
  <2>2. /\ front \in Seq(S) /\ Len(front) = n - 1
        /\ \A i \in 1..(n - 1) : front[i] = f.lines[i]
    <3>1. \A i \in 1..(n - 1) : f.lines[i] \in S
      BY <1>1, <2>1
    <3> QED
      BY <2>1, <3>1, SubSeqProperties
  <2>3. g.lines = Append(front, Unreadable)
    <3>1. g.lines = front \o <<Unreadable>>
      BY <1>4 DEF Extended, Front
    <3> QED
      BY <2>2, <3>1, AppendIsConcat
  <2>4. /\ g.lines \in Seq(S) /\ g.lines # <<>> /\ Len(g.lines) = n
        /\ \A i \in 1..(n - 1) : g.lines[i] = f.lines[i]
        /\ g.lines[n] = Unreadable
    <3>1. Unreadable \in S
      OBVIOUS
    <3> HIDE DEF front, S, g
    <3>2. /\ g.lines \in Seq(S) /\ g.lines # <<>> /\ Len(g.lines) = Len(front) + 1
          /\ \A i \in 1..Len(front) : g.lines[i] = front[i]
          /\ g.lines[Len(front) + 1] = Unreadable
      BY <2>2, <2>3, <3>1, AppendProperties
    <3> QED
      BY <2>1, <2>2, <3>2
  <2>5. g \in Files
    BY <1>1, <2>4 DEF Extended, Files
  <2> QED
    BY <1>1, <1>2, <1>4, <2>1, <2>4, <2>5 DEF Grown, Whole, Last
<1> QED
  BY <1>1, <1>3, <1>4

LEMMA InterruptedGrows ==
    ASSUME NEW f, Whole(f), f.size < FileRecords, NEW line \in Entries,
           NEW g \in Interrupted(f, line)
    PROVE  Grown(f, g, line)
<1>1. CASE g = f
  BY <1>1 DEF Grown
<1>2. CASE g \in {Extended(f, Unreadable, FALSE), Extended(f, line, FALSE), Extended(f, line, TRUE)}
  BY <1>2, ExtendedGrows
<1> QED
  BY <1>1, <1>2 DEF Interrupted

\* What can be read of a file that grew was read before, or is the line.
LEMMA GrownReads ==
    ASSUME NEW f \in Files, NEW g, NEW line \in Entries, Grown(f, g, line)
    PROVE  ReadableIn(g.lines) \subseteq ReadableIn(f.lines) \cup {line.rec}
<1> SUFFICES ASSUME NEW j \in DOMAIN g.lines, g.lines[j] # Unreadable
             PROVE  g.lines[j].rec \in ReadableIn(f.lines) \cup {line.rec}
  BY DEF ReadableIn
<1>1. /\ g \in Files /\ DOMAIN g.lines = 1..Len(g.lines) /\ Len(g.lines) \in Nat
      /\ Len(f.lines) \in Nat /\ DOMAIN f.lines = 1..Len(f.lines)
  BY FileFields DEF Grown, Whole
<1>2. CASE g = f
  BY <1>2 DEF ReadableIn
<1>3. CASE g # f /\ j = Len(g.lines)
  BY <1>1, <1>3 DEF Grown, Last
<1>4. CASE g # f /\ j # Len(g.lines)
  <2>1. j \in DOMAIN f.lines /\ g.lines[j] = f.lines[j]
    BY <1>1, <1>4 DEF Grown
  <2> QED
    BY <2>1 DEF ReadableIn
<1> QED
  BY <1>2, <1>3, <1>4

(***************************************************************************)
(* The journal: its inductive invariant.                                   *)
(***************************************************************************)
Steps == [pc : {"idle", "unlink", "rename", "append"},
          line : [prev : Seq(1..MaxRecords), rec : Nat], slot : 0..(MaxFiles - 1)]

JournalTyped ==
    /\ AuditTypeOK
    /\ step \in Steps /\ next \in Nat \ {0} /\ restarts \in Nat
    /\ \A i \in DOMAIN files : files[i] # NoFile => Whole(files[i])

\* Where a rotation is: the active file is full until it has been moved, and the file it
\* moves next has room to go to.  A file that was moved is full and not empty.
RotationInPlace ==
    /\ step.pc \in {"unlink", "rename"} => files[0] # NoFile /\ files[0].size = FileRecords
    /\ step.pc = "append" => Active.size < FileRecords
    /\ step.pc = "unlink" => step.slot = MaxFiles - 1
    /\ step.pc = "rename" => step.slot \in 0..(MaxFiles - 2) /\ files[step.slot + 1] = NoFile
    /\ \A i \in 1..(MaxFiles - 1) :
          files[i] # NoFile => files[i].size = FileRecords /\ files[i].lines # <<>>
    /\ files[0] # NoFile /\ files[0].size > 0 => files[0].lines # <<>>

\* Missing among the files newer than file i, but for the active one.
Holes(i) == {j \in 1..(i - 1) : files[j] = NoFile}

\* There is evidence older than the holes before i: file i, or what was rotated out.
Reached(i) == IF i = MaxFiles THEN rotatedOut # {} ELSE files[i] # NoFile

\* Each hole in the evidence is a setback, or the rotation under way.
HolesAreSetbacks ==
    \A i \in 1..MaxFiles : Reached(i) =>
        Cardinality(Holes(i)) <= setbacks + (IF step.pc = "rename" /\ i > step.slot THEN 1 ELSE 0)

\* The numbers that any file holds, or that count as written.
Recorded == written \cup rotatedOut \cup UNION {ReadableIn(LinesOf(i)) : i \in DOMAIN files}

\* Records come in the order of their numbers: what waits is newer than what is recorded.
NumbersRise ==
    /\ \A i \in 1..Len(queue) : queue[i] < next
    /\ \A i, j \in 1..Len(queue) : i < j => queue[i] < queue[j]
    /\ \A r \in Recorded : r < next /\ \A i \in 1..Len(queue) : r < queue[i]
    /\ step.pc # "idle" => step.line.rec = Head(queue)

\* A line with this hash may follow the last line of the journal.
MayFollow(prev) ==
    \A i \in DOMAIN files :
        LinesOf(i) # <<>> /\ (\A k \in DOMAIN files : k < i => LinesOf(k) = <<>>) =>
            Linked(Last(LinesOf(i)), prev)

\* The head links to the last line, unless that line will be continued or unlinked.
HeadsFit ==
    /\ ~initialized => head = Null /\ written = {}
    /\ ~initialized /\ restarts = 0 => \A i \in DOMAIN files : files[i] = NoFile
    /\ Active.ended \/ MaxFiles > 1 =>
          /\ initialized => MayFollow(head)
          /\ step.pc # "idle" => MayFollow(step.line.prev)
    /\ MaxFiles > 1 /\ step.pc # "idle" => step.line.prev = head

\* A last line without its newline was found at the start or shows as a failure.
EndsAreKnown == ~failing /\ found = "sound" => Active.ended

JournalInv ==
    /\ JournalTyped /\ RotationInPlace /\ HolesAreSetbacks /\ NumbersRise /\ HeadsFit
    /\ EndsAreKnown /\ CorruptStays /\ EvidenceIsOneChain /\ LossIsObservable

LEMMA LinesAre ==
    ASSUME JournalTyped, NEW i \in DOMAIN files
    PROVE  /\ LinesOf(i) \in Lines /\ Len(LinesOf(i)) \in Nat
           /\ DOMAIN LinesOf(i) = 1..Len(LinesOf(i))
           /\ \A n \in 1..Len(LinesOf(i)) : LinesOf(i)[n] \in Entries \cup {Unreadable}
           /\ LinesOf(i) # <<>> => Len(LinesOf(i)) \in Nat \ {0}
<1>1. CASE files[i] = NoFile
  <2>1. LinesOf(i) = <<>>
    BY <1>1 DEF LinesOf
  <2>2. <<>> \in Seq(Entries \cup {Unreadable}) /\ Len(<<>>) = 0 /\ DOMAIN <<>> = 1..0
    BY EmptySeq, LenProperties
  <2> QED
    BY <2>1, <2>2 DEF Lines
<1>2. CASE files[i] # NoFile
  <2>1. files[i] \in Files /\ LinesOf(i) = files[i].lines
    BY <1>2 DEF JournalTyped, AuditTypeOK, LinesOf
  <2> QED
    BY <2>1, FileFields
<1> QED
  BY <1>1, <1>2

LEMMA ActiveIs ==
    ASSUME JournalTyped
    PROVE  /\ Active.lines = LinesOf(0) /\ Whole(Active) /\ 0 \in DOMAIN files
           /\ Active.size \in Nat /\ Active.ended \in BOOLEAN
           /\ files[0] # NoFile => Active = files[0]
           /\ files[0] = NoFile => Active = EmptyFile
<1>1. 0 \in DOMAIN files
  <2>1. MaxFiles \in 1..10 /\ DOMAIN files = 0..(MaxFiles - 1)
    BY JournalAssumption DEF JournalTyped, AuditTypeOK
  <2> QED
    BY <2>1
<1>2. Whole(EmptyFile) /\ EmptyFile.lines = <<>>
  <2>1. <<>> \in Seq(Entries \cup {Unreadable})
    BY EmptySeq
  <2> QED
    BY <2>1, JournalAssumption DEF EmptyFile, Whole, Files
<1>3. Whole(Active) /\ Active.lines = LinesOf(0)
  BY <1>1, <1>2 DEF JournalTyped, Active, LinesOf
<1> QED
  BY <1>1, <1>3, FileFields DEF Active, Whole

\* The first of the queue is newer than all that is recorded and older than the others.
LEMMA QueueFacts ==
    ASSUME JournalTyped, NumbersRise, queue # <<>>
    PROVE  /\ Head(queue) \in 1..MaxRecords /\ Head(queue) < next
           /\ \A r \in Recorded : r < Head(queue)
           /\ Tail(queue) \in Seq(1..MaxRecords)
           /\ Len(Tail(queue)) = Len(queue) - 1 /\ Len(queue) \in Nat \ {0}
           /\ \A i \in 1..Len(Tail(queue)) :
                 /\ Tail(queue)[i] = queue[i + 1] /\ i + 1 \in 1..Len(queue)
                 /\ Head(queue) < Tail(queue)[i]
<1>1. queue \in Seq(1..MaxRecords) /\ Len(queue) \in Nat \ {0}
  BY EmptySeq DEF JournalTyped, AuditTypeOK
<1>2. /\ Head(queue) = queue[1] /\ Head(queue) \in 1..MaxRecords
      /\ Tail(queue) \in Seq(1..MaxRecords) /\ Len(Tail(queue)) = Len(queue) - 1
      /\ \A i \in 1..Len(Tail(queue)) : Tail(queue)[i] = queue[i + 1]
  <2>1. Head(queue) = queue[1]
    BY <1>1
  <2>2. /\ Head(queue) \in 1..MaxRecords
        /\ Tail(queue) \in Seq(1..MaxRecords) /\ Len(Tail(queue)) = Len(queue) - 1
        /\ \A i \in 1..Len(Tail(queue)) : Tail(queue)[i] = queue[i + 1]
    BY <1>1, HeadTailProperties
  <2> QED
    BY <2>1, <2>2
<1> QED
  BY <1>1, <1>2 DEF NumbersRise

\* The queue moves on to its next append, whatever else is recorded then.
LEMMA SettleKeepsNumbers ==
    ASSUME JournalTyped, NumbersRise, queue # <<>>, queue' = Tail(queue), next' = next,
           step'.pc = "idle", Recorded' \subseteq Recorded \cup {Head(queue)}
    PROVE  NumbersRise' /\ queue' \in Seq(1..MaxRecords)
<1> DEFINE h == Head(queue)
           t == Tail(queue)
<1>1. /\ h \in 1..MaxRecords /\ h < next /\ t \in Seq(1..MaxRecords)
      /\ \A r \in Recorded : r < h
      /\ Len(t) = Len(queue) - 1 /\ Len(queue) \in Nat \ {0}
      /\ \A i \in 1..Len(t) : t[i] = queue[i + 1] /\ i + 1 \in 1..Len(queue) /\ h < t[i]
  BY QueueFacts
<1>2. /\ \A i \in 1..Len(queue) : queue[i] < next
      /\ \A i, j \in 1..Len(queue) : i < j => queue[i] < queue[j]
      /\ \A r \in Recorded : r < next /\ \A i \in 1..Len(queue) : r < queue[i]
  BY DEF NumbersRise
<1>3. \A i \in 1..Len(t) : t[i] < next
  BY <1>1, <1>2
<1>4. \A i, j \in 1..Len(t) : i < j => t[i] < t[j]
  BY <1>1, <1>2
<1>5. \A r \in Recorded' : r < next /\ \A i \in 1..Len(t) : r < t[i]
  BY <1>1, <1>2
<1> QED
  BY <1>1, <1>3, <1>4, <1>5 DEF NumbersRise

LEMMA LinkedStays ==
    ASSUME NEW e, NEW prev, Linked(e, prev), restarts > 0 => restarts' > 0,
           e # Unreadable => e.rec \notin written' \/ e.rec \in written
    PROVE  Linked(e, prev)'
BY DEF Linked

\* A step that leaves the files alone, forgets nothing written and counts nothing new as
\* written keeps what is said of the lines.
LEMMA SameFilesSameChain ==
    ASSUME JournalTyped, EvidenceIsOneChain, files' = files, written' \subseteq written,
           restarts > 0 => restarts' > 0
    PROVE  /\ EvidenceIsOneChain'
           /\ \A prev : MayFollow(prev) => MayFollow(prev)'
           /\ Active' = Active
           /\ rotatedOut' = rotatedOut => Recorded' \subseteq Recorded
<1>1. /\ DOMAIN files' = DOMAIN files /\ Active' = Active
      /\ \A i \in DOMAIN files : LinesOf(i)' = LinesOf(i)
  BY DEF LinesOf, Active
<1>2. \A i, j \in DOMAIN files : Adjoin(i, j)' <=> Adjoin(i, j)
  BY DEF Adjoin, LinesOf
<1>3. \A e, prev : Linked(e, prev) => Linked(e, prev)'
  BY LinkedStays
<1>4. \A later, e : Follows(later, e) => Follows(later, e)'
  BY <1>3 DEF Follows
<1>5. EvidenceIsOneChain'
  BY <1>1, <1>2, <1>4 DEF EvidenceIsOneChain
<1>6. ASSUME NEW prev, MayFollow(prev) PROVE MayFollow(prev)'
  BY <1>1, <1>3, <1>6 DEF MayFollow
<1>7. ASSUME rotatedOut' = rotatedOut PROVE Recorded' \subseteq Recorded
  BY <1>1, <1>7 DEF Recorded
<1> QED
  BY <1>1, <1>5, <1>6, <1>7

LEMMA HolesAreFew ==
    ASSUME NEW i \in 1..MaxFiles
    PROVE  /\ IsFiniteSet(Holes(i)) /\ Cardinality(Holes(i)) \in Nat
           /\ Cardinality(Holes(i)) <= i - 1
<1>1. IsFiniteSet(1..(i - 1)) /\ Cardinality(1..(i - 1)) = i - 1
  BY FS_Interval, JournalAssumption
<1>2. Holes(i) \in SUBSET (1..(i - 1))
  BY DEF Holes
<1>3. IsFiniteSet(Holes(i)) /\ Cardinality(Holes(i)) <= i - 1
  BY <1>1, <1>2, FS_Subset
<1> QED
  BY <1>3, FS_CardinalityType

LEMMA IdleIsAStep == Idle \in Steps /\ Idle.pc = "idle"
<1>1. Null \in Seq(1..MaxRecords) /\ 0 \in 0..(MaxFiles - 1)
  <2>1. MaxFiles \in 1..10
    BY JournalAssumption
  <2> QED
    BY <2>1, EmptySeq DEF Null
<1> QED
  BY <1>1 DEF Idle, Steps, Entry

LEMMA TypedFacts ==
    ASSUME JournalTyped
    PROVE  /\ MaxFiles \in 1..10 /\ DOMAIN files = 0..(MaxFiles - 1) /\ FileRecords \in Nat \ {0}
           /\ setbacks \in 0..MaxFiles /\ setbacks \in Nat
           /\ step.pc \in {"idle", "unlink", "rename", "append"} /\ step.slot \in 0..(MaxFiles - 1)
           /\ step.line.prev \in Seq(1..MaxRecords) /\ step.line.rec \in Nat
           /\ step = [pc |-> step.pc, line |-> step.line, slot |-> step.slot]
           /\ queue \in Seq(1..MaxRecords) /\ head \in Seq(1..MaxRecords)
<1>1. MaxFiles \in 1..10 /\ FileRecords \in Nat \ {0}
  BY JournalAssumption
<1>2. step \in Steps
  BY DEF JournalTyped
<1>3. /\ step.pc \in {"idle", "unlink", "rename", "append"} /\ step.slot \in 0..(MaxFiles - 1)
      /\ step.line.prev \in Seq(1..MaxRecords) /\ step.line.rec \in Nat
      /\ step = [pc |-> step.pc, line |-> step.line, slot |-> step.slot]
  BY <1>2 DEF Steps
<1>4. /\ DOMAIN files = 0..(MaxFiles - 1) /\ setbacks \in 0..MaxFiles
      /\ queue \in Seq(1..MaxRecords) /\ head \in Seq(1..MaxRecords)
  BY DEF JournalTyped, AuditTypeOK
<1>5. setbacks \in Nat
  BY <1>1, <1>4
<1> QED
  BY <1>1, <1>3, <1>4, <1>5

LEMMA BoundFacts ==
    ASSUME JournalTyped
    PROVE  /\ MaxFiles \in 1..10 /\ MaxFiles \in Nat /\ DOMAIN files = 0..(MaxFiles - 1)
           /\ setbacks \in 0..MaxFiles /\ setbacks \in Nat /\ step.slot \in 0..(MaxFiles - 1)
<1>1. MaxFiles \in Nat
  BY JournalAssumption
<1> QED
  BY <1>1, TypedFacts

LEMMA RecordedAreNumbers ==
    ASSUME JournalTyped
    PROVE  Recorded \subseteq 1..MaxRecords
<1>1. ASSUME NEW i \in DOMAIN files PROVE ReadableIn(LinesOf(i)) \subseteq 1..MaxRecords
  BY <1>1, LinesAre DEF ReadableIn, Entries
<1> QED
  BY <1>1 DEF Recorded, JournalTyped, AuditTypeOK

\* Outside of a rotation, and when one is cut short, holes are counted as setbacks.
LEMMA SetbacksCountHoles ==
    ASSUME JournalTyped, HolesAreSetbacks, CountSetback, rotatedOut' = rotatedOut,
           step'.pc # "rename", \A j \in 1..(MaxFiles - 1) : files'[j] = files[j]
    PROVE  HolesAreSetbacks' /\ setbacks' \in 0..MaxFiles
<1>1. setbacks' = IF step.pc = "rename" /\ setbacks < MaxFiles THEN setbacks + 1 ELSE setbacks
  BY DEF CountSetback
<1>2. setbacks' \in 0..MaxFiles /\ setbacks' \in Nat
  BY <1>1, BoundFacts
<1>3. ASSUME NEW i \in 1..MaxFiles, Reached(i)'
      PROVE  Cardinality(Holes(i)') <= setbacks'
  <2>1. Holes(i)' = Holes(i)
    <3>1. \A j \in 1..(i - 1) : j \in 1..(MaxFiles - 1)
      BY JournalAssumption
    <3> QED
      BY <3>1 DEF Holes
  <2>2. Reached(i)
    <3>1. i # MaxFiles => i \in 1..(MaxFiles - 1)
      BY JournalAssumption
    <3> QED
      BY <1>3, <3>1 DEF Reached
  <2>3. Cardinality(Holes(i)) <= setbacks + (IF step.pc = "rename" /\ i > step.slot THEN 1 ELSE 0)
    BY <2>2 DEF HolesAreSetbacks
  <2>4. Cardinality(Holes(i)) \in Nat /\ Cardinality(Holes(i)) <= i - 1
    BY HolesAreFew
  <2> QED
    BY <1>1, <2>1, <2>3, <2>4, BoundFacts
<1> QED
  BY <1>2, <1>3 DEF HolesAreSetbacks

\* append
LEMMA AppendRecordKeeps ==
    ASSUME JournalInv, AppendRecord
    PROVE  JournalInv'
<1> USE DEF JournalInv
<1>1. /\ next <= MaxRecords /\ queue' = Append(queue, next) /\ next' = next + 1
      /\ files' = files /\ rotatedOut' = rotatedOut /\ step' = step /\ head' = head
      /\ initialized' = initialized /\ failing' = failing /\ written' = written
      /\ setbacks' = setbacks /\ found' = found /\ restarts' = restarts
  BY DEF AppendRecord, fileVars, processVars
<1>2. /\ EvidenceIsOneChain' /\ (\A prev : MayFollow(prev) => MayFollow(prev)')
      /\ Active' = Active /\ Recorded' \subseteq Recorded
  BY <1>1, SameFilesSameChain
<1>3. /\ queue \in Seq(1..MaxRecords) /\ Len(queue) \in Nat
      /\ next \in 1..MaxRecords
  BY <1>1, LenProperties, TypedFacts, JournalAssumption DEF JournalTyped
<1>4. /\ queue' \in Seq(1..MaxRecords) /\ queue' # <<>> /\ Len(queue') = Len(queue) + 1
      /\ \A i \in 1..Len(queue) : queue'[i] = queue[i]
      /\ queue'[Len(queue) + 1] = next
  BY <1>1, <1>3, AppendProperties
<1>5. JournalTyped'
  <2>1. AuditTypeOK'
    BY <1>1, <1>4 DEF JournalTyped, AuditTypeOK
  <2>2. next' \in Nat \ {0}
    BY <1>1 DEF JournalTyped
  <2> QED
    BY <1>1, <2>1, <2>2 DEF JournalTyped
<1>6. RotationInPlace'
  BY <1>1, <1>2 DEF RotationInPlace
<1>7. HolesAreSetbacks'
  BY <1>1 DEF HolesAreSetbacks, Holes, Reached
<1>8. NumbersRise'
  <2>1. /\ \A i \in 1..Len(queue) : queue[i] < next
        /\ \A i, j \in 1..Len(queue) : i < j => queue[i] < queue[j]
        /\ \A r \in Recorded : r < next /\ \A i \in 1..Len(queue) : r < queue[i]
    BY DEF NumbersRise
  <2>2. \A i \in 1..Len(queue) : queue[i] \in Nat
    <3>1. \A i \in 1..Len(queue) : queue[i] \in 1..MaxRecords
      BY <1>3, ElementOfSeq
    <3> QED
      BY <3>1, JournalAssumption
  <2>3. \A i \in 1..Len(queue') : i \in 1..Len(queue) \/ i = Len(queue) + 1
    BY <1>3, <1>4
  <2>4. \A i \in 1..Len(queue') : queue'[i] < next'
    BY <1>1, <1>3, <1>4, <2>1, <2>2, <2>3
  <2>5. \A i, j \in 1..Len(queue') : i < j => queue'[i] < queue'[j]
    BY <1>3, <1>4, <2>1, <2>2, <2>3
  <2>6. Recorded \subseteq Nat
    BY RecordedAreNumbers
  <2>7. \A r \in Recorded' : r < next' /\ \A i \in 1..Len(queue') : r < queue'[i]
    BY <1>1, <1>2, <1>3, <1>4, <2>1, <2>3, <2>6
  <2>8. step.pc # "idle" => step.line.rec = Head(queue) /\ queue # <<>>
    BY DEF NumbersRise, JournalTyped, AuditTypeOK
  <2>9. queue # <<>> => Head(queue') = Head(queue)
    <3>1. queue # <<>> => Len(queue) >= 1
      BY <1>3, EmptySeq
    <3> QED
      BY <1>3, <1>4, <3>1
  <2> QED
    BY <1>1, <2>4, <2>5, <2>7, <2>8, <2>9 DEF NumbersRise
<1>9. HeadsFit'
  BY <1>1, <1>2 DEF HeadsFit
<1>10. EndsAreKnown' /\ LossIsObservable'
  BY <1>1, <1>2 DEF EndsAreKnown, LossIsObservable, LinesOf
<1>11. CorruptStays'
  BY CorruptKeeps DEF Next
<1> QED
  BY <1>2, <1>5, <1>6, <1>7, <1>8, <1>9, <1>10, <1>11

\* An append that fails before anything is written: the queue moves on.
LEMMA FailedKeeps ==
    ASSUME JournalInv, CorruptStays', queue # <<>>, step.pc # "append", Settle(FALSE), CountSetback,
           UNCHANGED <<files, rotatedOut, head, initialized, found, next, restarts>>
    PROVE  JournalInv'
<1> USE DEF JournalInv
<1>1. /\ files' = files /\ rotatedOut' = rotatedOut /\ head' = head
      /\ initialized' = initialized /\ found' = found /\ next' = next /\ restarts' = restarts
      /\ queue' = Tail(queue) /\ step' = Idle /\ step'.pc = "idle" /\ written' = written
      /\ failing' = TRUE
      /\ setbacks' = IF step.pc = "rename" /\ setbacks < MaxFiles THEN setbacks + 1 ELSE setbacks
  BY IdleIsAStep DEF Settle, CountSetback, JournalTyped, AuditTypeOK
<1>2. /\ EvidenceIsOneChain' /\ (\A prev : MayFollow(prev) => MayFollow(prev)')
      /\ Active' = Active /\ Recorded' \subseteq Recorded
  BY <1>1, SameFilesSameChain
<1>3. NumbersRise' /\ queue' \in Seq(1..MaxRecords)
  BY <1>1, <1>2, SettleKeepsNumbers
<1>4. setbacks' \in 0..MaxFiles
  BY <1>1, SetbacksCountHoles
<1>5. JournalTyped'
  BY <1>1, <1>3, <1>4, IdleIsAStep DEF JournalTyped, AuditTypeOK, Whole
<1>6. RotationInPlace'
  BY <1>1, <1>2 DEF RotationInPlace
<1>7. HolesAreSetbacks'
  BY <1>1, SetbacksCountHoles
<1>8. HeadsFit'
  BY <1>1, <1>2 DEF HeadsFit
<1>9. EndsAreKnown' /\ LossIsObservable'
  <2>1. failing'
    BY <1>1
  <2> QED
    BY <2>1 DEF EndsAreKnown, LossIsObservable
<1> QED
  BY <1>2, <1>3, <1>5, <1>6, <1>7, <1>8, <1>9

\* A step that is a failure before anything is written.
LEMMA FileOperationFailsKeeps ==
    ASSUME JournalInv, FileOperationFails
    PROVE  JournalInv'
<1>1. CorruptStays'
  BY CorruptKeeps DEF JournalInv, Next, ChainStep
<1> QED
  BY <1>1, FailedKeeps DEF FileOperationFails, fileVars

\* initializeIntegrityHead
LEMMA InitializeKeeps ==
    ASSUME JournalInv, InitializeIntegrityHead
    PROVE  JournalInv'
<1> USE DEF JournalInv
<1>1. CorruptStays'
  BY CorruptKeeps DEF Next, ChainStep
<1>2. CASE ~Verified(Active.lines)
  <2>1. /\ queue # <<>> /\ step.pc = "idle" /\ Settle(FALSE) /\ setbacks' = setbacks
        /\ UNCHANGED <<files, rotatedOut, head, initialized, found, next, restarts>>
    BY <1>2 DEF InitializeIntegrityHead, fileVars
  <2>2. CountSetback
    BY <2>1 DEF CountSetback
  <2> QED
    BY <1>1, <2>1, <2>2, FailedKeeps
<1>3. CASE Verified(Active.lines)
  <2>1. /\ queue # <<>> /\ step.pc = "idle" /\ ~initialized /\ initialized' = TRUE
        /\ head' = IF Active.lines = <<>> THEN head ELSE Hash(Last(Active.lines))
        /\ UNCHANGED <<files, rotatedOut, queue, step, written, failing, setbacks, found, next,
                       restarts>>
    BY <1>3 DEF InitializeIntegrityHead, fileVars
  <2>2. /\ EvidenceIsOneChain' /\ Active' = Active /\ Recorded' \subseteq Recorded
    BY <2>1, SameFilesSameChain
  <2>3. Active.lines = LinesOf(0) /\ 0 \in DOMAIN files
    BY ActiveIs
  <2>4. Active.lines # <<>> => Last(Active.lines) \in Entries
    <3> SUFFICES ASSUME Active.lines # <<>> PROVE Last(Active.lines) \in Entries
      OBVIOUS
    <3>1. Len(Active.lines) \in DOMAIN Active.lines
      BY <2>3, LinesAre
    <3> QED
      BY <1>3, <2>3, <3>1, LinesAre DEF Verified, Last
  <2>5. head' \in Seq(1..MaxRecords)
    BY <2>1, <2>4, TypedFacts, AppendProperties DEF Hash, Entries
  <2>6. JournalTyped'
    BY <2>1, <2>5 DEF JournalTyped, AuditTypeOK
  <2>7. RotationInPlace' /\ HolesAreSetbacks' /\ EndsAreKnown' /\ LossIsObservable'
    BY <2>1, <2>2 DEF RotationInPlace, HolesAreSetbacks, Holes, Reached, EndsAreKnown,
       LossIsObservable, LinesOf
  <2>8. NumbersRise'
    BY <2>1, <2>2 DEF NumbersRise
  <2>9. HeadsFit'
    <3>1. MayFollow(head)'
      <4> SUFFICES ASSUME NEW i \in DOMAIN files, LinesOf(i) # <<>>,
                          \A k \in DOMAIN files : k < i => LinesOf(k) = <<>>
                   PROVE  Linked(Last(LinesOf(i)), head')
        BY <2>1 DEF MayFollow, LinesOf, Linked
      <4>1. CASE Active.lines # <<>>
        <5>1. i = 0
          <6>1. i \in Nat
            BY TypedFacts
          <6>2. ~(0 < i)
            BY <2>3, <4>1
          <6> QED
            BY <6>1, <6>2
        <5> QED
          BY <2>1, <2>3, <4>1, <5>1 DEF Linked
      <4>2. CASE Active.lines = <<>>
        <5>1. files[i] # NoFile
          BY DEF LinesOf
        <5>2. head = Null /\ restarts > 0
          BY <2>1, <5>1 DEF HeadsFit, JournalTyped
        <5> QED
          BY <2>1, <4>2, <5>2 DEF Linked
      <4> QED
        BY <4>1, <4>2
    <3> QED
      BY <2>1, <3>1 DEF HeadsFit
  <2> QED
    BY <1>1, <2>2, <2>6, <2>7, <2>8, <2>9
<1> QED
  BY <1>2, <1>3

\* append and writeLine up to the decision to rotate.
LEMMA WriteLineKeeps ==
    ASSUME JournalInv, WriteLine
    PROVE  JournalInv'
<1> USE DEF JournalInv
<1>1. CorruptStays'
  BY CorruptKeeps DEF Next, ChainStep
<1> DEFINE to == IF MustRotate THEN "unlink" ELSE "append"
<1>2. /\ queue # <<>> /\ step.pc = "idle" /\ initialized
      /\ step' = [pc |-> to, line |-> Entry(head, Head(queue)), slot |-> MaxFiles - 1]
      /\ UNCHANGED <<files, rotatedOut, queue, head, initialized, failing, written, setbacks,
                     found, restarts, next>>
  BY DEF WriteLine, fileVars, processVars
<1>3. /\ step'.pc = to /\ step'.slot = MaxFiles - 1
      /\ step'.line.prev = head /\ step'.line.rec = Head(queue)
  BY <1>2 DEF Entry
<1>4. /\ EvidenceIsOneChain' /\ (\A prev : MayFollow(prev) => MayFollow(prev)')
      /\ Active' = Active /\ Recorded' \subseteq Recorded
  BY <1>2, SameFilesSameChain
<1>5. JournalTyped'
  <2>1. Head(queue) \in 1..MaxRecords /\ Head(queue) \in Nat
    BY <1>2, QueueFacts
  <2>2. MaxFiles - 1 \in 0..(MaxFiles - 1)
    BY BoundFacts
  <2>3. step' \in Steps
    BY <1>2, <2>1, <2>2, TypedFacts DEF Steps, Entry
  <2> QED
    BY <1>2, <1>3, <2>3 DEF JournalTyped, AuditTypeOK
<1>6. RotationInPlace'
  <2>1. Active.size \in 0..FileRecords /\ FileRecords \in Nat \ {0} /\ MaxFiles \in 1..10
    BY ActiveIs, FileFields, TypedFacts DEF Whole
  <2>2. ASSUME MustRotate PROVE files[0] # NoFile /\ files[0].size = FileRecords
    <3>1. Active.size = FileRecords
      BY <2>1, <2>2 DEF MustRotate
    <3> QED
      BY <2>1, <3>1, ActiveIs DEF EmptyFile
  <2>3. ASSUME ~MustRotate PROVE Active.size < FileRecords
    BY <2>1, <2>3 DEF MustRotate
  <2> QED
    BY <1>2, <1>3, <1>4, <2>2, <2>3 DEF RotationInPlace
<1>7. HolesAreSetbacks'
  <2>1. CountSetback /\ step'.pc # "rename"
    BY <1>2, <1>3 DEF CountSetback
  <2> QED
    BY <1>2, <2>1, SetbacksCountHoles
<1>8. NumbersRise'
  BY <1>2, <1>3, <1>4 DEF NumbersRise
<1>9. HeadsFit'
  BY <1>2, <1>3, <1>4 DEF HeadsFit
<1>10. EndsAreKnown' /\ LossIsObservable'
  BY <1>2, <1>4 DEF EndsAreKnown, LossIsObservable, LinesOf
<1> QED
  BY <1>1, <1>4, <1>5, <1>6, <1>7, <1>8, <1>9, <1>10

(***************************************************************************)
(* The journal: a rotation.                                                *)
(***************************************************************************)
\* The oldest file is gone: one hole more, if there was one.
LEMMA UnlinkCountsHoles ==
    ASSUME JournalInv, RotateUnlink, MaxFiles # 1
    PROVE  HolesAreSetbacks'
<1> USE DEF JournalInv
<1>1. /\ step.pc = "unlink" /\ files' = [files EXCEPT ![MaxFiles - 1] = NoFile]
      /\ rotatedOut' = IF files[MaxFiles - 1] = NoFile THEN rotatedOut
                       ELSE rotatedOut \cup ReadableIn(files[MaxFiles - 1].lines)
      /\ step' = [step EXCEPT !.pc = "rename", !.slot = @ - 1] /\ setbacks' = setbacks
  BY DEF RotateUnlink, OldestSlot
<1>2. step'.pc = "rename" /\ step'.slot = MaxFiles - 2
  BY <1>1, BoundFacts DEF RotationInPlace
<1>3. /\ MaxFiles \in 1..10 /\ DOMAIN files = 0..(MaxFiles - 1) /\ setbacks \in Nat
      /\ files'[MaxFiles - 1] = NoFile
      /\ \A j \in DOMAIN files : j # MaxFiles - 1 => files'[j] = files[j]
  BY <1>1, BoundFacts
<1> SUFFICES ASSUME NEW i \in 1..MaxFiles, Reached(i)'
             PROVE  Cardinality(Holes(i)') <= setbacks + (IF i > MaxFiles - 2 THEN 1 ELSE 0)
  BY <1>1, <1>2 DEF HolesAreSetbacks
<1>4. ASSUME Reached(i) PROVE Cardinality(Holes(i)) <= setbacks
  <2>1. Cardinality(Holes(i)) <= setbacks + 0
    BY <1>1, <1>4 DEF HolesAreSetbacks
  <2> QED
    BY <2>1, <1>3, HolesAreFew
<1>5. CASE i <= MaxFiles - 2
  <2>1. Holes(i)' = Holes(i) /\ Reached(i)
    BY <1>3, <1>5 DEF Holes, Reached
  <2> QED
    BY <1>3, <1>4, <1>5, <2>1, HolesAreFew
<1>6. i # MaxFiles - 1
  BY <1>3 DEF Reached
<1>7. CASE i = MaxFiles /\ files[MaxFiles - 1] = NoFile
  <2>1. Holes(i)' = Holes(i)
    BY <1>3, <1>7 DEF Holes
  <2>2. Reached(i)
    BY <1>1, <1>7 DEF Reached
  <2> QED
    BY <1>3, <1>4, <1>7, <2>1, <2>2, HolesAreFew
<1>8. CASE i = MaxFiles /\ files[MaxFiles - 1] # NoFile
  <2>1. Holes(i)' = Holes(MaxFiles - 1) \cup {MaxFiles - 1}
    BY <1>3, <1>8 DEF Holes
  <2>2. MaxFiles - 1 \in 1..MaxFiles /\ Reached(MaxFiles - 1)
    BY <1>3, <1>8 DEF Reached
  <2>3. Cardinality(Holes(MaxFiles - 1)) <= setbacks + 0
    BY <1>1, <2>2 DEF HolesAreSetbacks
  <2>4. /\ IsFiniteSet(Holes(MaxFiles - 1)) /\ Cardinality(Holes(MaxFiles - 1)) \in Nat
    BY <2>2, HolesAreFew
  <2>5. Cardinality(Holes(i)') <= Cardinality(Holes(MaxFiles - 1)) + 1
    BY <2>1, <2>4, FS_AddElement
  <2>6. Cardinality(Holes(i)') \in Nat
    <3>1. IsFiniteSet(Holes(i)')
      BY <2>1, <2>4, FS_AddElement
    <3> QED
      BY <3>1, FS_CardinalityType
  <2> QED
    BY <1>3, <1>8, <2>3, <2>4, <2>5, <2>6
<1> QED
  BY <1>3, <1>5, <1>6, <1>7, <1>8

\* A file moves into the hole behind it, which so moves ahead.
LEMMA RenameCountsHoles ==
    ASSUME JournalInv, RotateRename
    PROVE  HolesAreSetbacks'
<1> USE DEF JournalInv
<1> DEFINE s == step.slot
<1>1. /\ step.pc = "rename" /\ setbacks' = setbacks /\ rotatedOut' = rotatedOut
      /\ files' = IF files[s] = NoFile THEN files
                  ELSE [files EXCEPT ![s + 1] = files[s], ![s] = NoFile]
      /\ step' = IF s = 0 THEN [step EXCEPT !.pc = "append"] ELSE [step EXCEPT !.slot = s - 1]
  BY DEF RotateRename, processVars
<1>2. /\ MaxFiles \in 1..10 /\ DOMAIN files = 0..(MaxFiles - 1) /\ setbacks \in Nat
      /\ s \in 0..(MaxFiles - 2) /\ files[s + 1] = NoFile /\ files[0] # NoFile
  BY <1>1, TypedFacts DEF RotationInPlace
<1>3. /\ s = 0 => step'.pc = "append"
      /\ s # 0 => step'.pc = "rename" /\ step'.slot = s - 1
  BY <1>1, TypedFacts
<1> SUFFICES ASSUME NEW i \in 1..MaxFiles, Reached(i)'
             PROVE  Cardinality(Holes(i)') <= setbacks + (IF s # 0 /\ i > s - 1 THEN 1 ELSE 0)
  BY <1>1, <1>2, <1>3 DEF HolesAreSetbacks
<1>4. \A k \in 1..MaxFiles : Reached(k) =>
          Cardinality(Holes(k)) <= setbacks + (IF k > s THEN 1 ELSE 0)
  BY <1>1 DEF HolesAreSetbacks
<1>5. \A k \in 1..MaxFiles : IsFiniteSet(Holes(k)) /\ Cardinality(Holes(k)) \in Nat
  BY HolesAreFew
<1>6. CASE files[s] = NoFile
  <2>1. s # 0 /\ Holes(i)' = Holes(i) /\ Reached(i)
    BY <1>1, <1>2, <1>6 DEF Holes, Reached
  <2> QED
    BY <1>2, <1>4, <1>5, <2>1
<1>7. CASE files[s] # NoFile
  <2>1. /\ files'[s + 1] = files[s] /\ files'[s] = NoFile
        /\ \A j \in DOMAIN files : j # s /\ j # s + 1 => files'[j] = files[j]
    <3>1. files' = [files EXCEPT ![s + 1] = files[s], ![s] = NoFile]
      BY <1>1, <1>7
    <3>2. s \in DOMAIN files /\ s + 1 \in DOMAIN files /\ s # s + 1
      BY <1>2
    <3> HIDE DEF s
    <3> QED
      BY <3>1, <3>2
  <2>2. CASE i < s
    <3>1. \A j \in 1..i : files'[j] = files[j]
      BY <1>2, <2>1, <2>2
    <3>2. Holes(i)' = Holes(i)
      BY <1>2, <2>2, <3>1 DEF Holes
    <3>3. Reached(i)
      <4>1. i # MaxFiles /\ files'[i] = files[i]
        BY <1>2, <2>2, <3>1
      <4> QED
        BY <4>1 DEF Reached
    <3> QED
      BY <1>2, <1>4, <1>5, <2>2, <3>2, <3>3
  <2>3. i # s
    BY <1>2, <2>1 DEF Reached
  <2>4. CASE i = s + 1 /\ s # 0
    <3>1. Holes(i)' = Holes(s) \cup {s} /\ s \in 1..MaxFiles /\ Reached(s)
      <4>1. s \in 1..MaxFiles /\ s # MaxFiles /\ i - 1 = s
        BY <1>2, <2>4
      <4>2. \A j \in 1..s : j # s => files'[j] = files[j] /\ j \in 1..(s - 1)
        BY <1>2, <2>1, <4>1
      <4>3. Holes(i)' = Holes(s) \cup {s}
        BY <1>2, <2>1, <4>1, <4>2 DEF Holes
      <4> QED
        BY <1>7, <4>1, <4>3 DEF Reached
    <3>2. Cardinality(Holes(s)) <= setbacks + 0
      BY <1>2, <1>4, <3>1
    <3>3. Cardinality(Holes(i)') \in Nat /\ Cardinality(Holes(i)') <= Cardinality(Holes(s)) + 1
      <4>1. IsFiniteSet(Holes(s)) /\ Cardinality(Holes(s)) \in Nat
        BY <1>5, <3>1
      <4>2. /\ IsFiniteSet(Holes(i)')
            /\ Cardinality(Holes(i)') = Cardinality(Holes(s)) \/
               Cardinality(Holes(i)') = Cardinality(Holes(s)) + 1
        BY <3>1, <4>1, FS_AddElement
      <4> QED
        BY <4>1, <4>2
    <3>4. i > s - 1 /\ Cardinality(Holes(s)) \in Nat
      BY <1>2, <1>5, <2>4, <3>1
    <3> HIDE DEF s
    <3> QED
      BY <1>2, <2>4, <3>2, <3>3, <3>4
  <2>5. CASE i = s + 1 /\ s = 0
    <3>1. Holes(i)' = {}
      BY <2>5 DEF Holes
    <3> QED
      BY <1>2, <3>1, FS_EmptySet
  <2>6. CASE i > s + 1
    <3>1. Reached(i)
      BY <1>1, <1>2, <2>1, <2>6 DEF Reached
    <3>2. Cardinality(Holes(i)) <= setbacks + 1
      BY <1>2, <1>4, <2>6, <3>1
    <3>3. s + 1 \in Holes(i)
      BY <1>2, <2>6 DEF Holes
    <3>4. /\ IsFiniteSet(Holes(i) \ {s + 1})
          /\ Cardinality(Holes(i) \ {s + 1}) = Cardinality(Holes(i)) - 1
      BY <1>5, <3>3, FS_RemoveElement
    <3>5. CASE s = 0
      <4>1. Holes(i)' = Holes(i) \ {s + 1}
        BY <1>2, <1>7, <2>1, <2>6, <3>5 DEF Holes
      <4> QED
        BY <1>2, <1>5, <3>2, <3>4, <3>5, <4>1
    <3>6. CASE s # 0
      <4>1. Holes(i)' = (Holes(i) \ {s + 1}) \cup {s}
        BY <1>2, <1>7, <2>1, <2>6, <3>6 DEF Holes
      <4>2. s \notin Holes(i)
        BY <1>7 DEF Holes
      <4>3. Cardinality(Holes(i)') = Cardinality(Holes(i))
        <5>1. s \notin Holes(i) \ {s + 1}
          BY <4>2
        <5>2. Cardinality(Holes(i)') = Cardinality(Holes(i) \ {s + 1}) + 1
          BY <3>4, <4>1, <5>1, FS_AddElement
        <5> QED
          BY <1>5, <3>4, <5>2
      <4> QED
        BY <1>2, <1>5, <2>6, <3>2, <3>6, <4>3
    <3> QED
      BY <3>5, <3>6
  <2> QED
    BY <1>2, <2>2, <2>3, <2>4, <2>5, <2>6
<1> QED
  BY <1>6, <1>7

LEMMA NothingIsRead == ReadableIn(<<>>) = {}
BY EmptySeq, LenProperties DEF ReadableIn

\* The oldest file is the last of no pair of lines but its own.
LEMMA UnlinkKeepsChain ==
    ASSUME JournalInv, RotateUnlink
    PROVE  /\ EvidenceIsOneChain' /\ (\A prev : MayFollow(prev) => MayFollow(prev)')
           /\ Recorded' \subseteq Recorded /\ LossIsObservable'
<1> USE DEF JournalInv
<1> DEFINE o == MaxFiles - 1
<1>1. /\ files' = [files EXCEPT ![o] = NoFile]
      /\ rotatedOut' = IF files[o] = NoFile THEN rotatedOut
                       ELSE rotatedOut \cup ReadableIn(files[o].lines)
      /\ written' = written /\ restarts' = restarts /\ failing' = failing /\ found' = found
  BY DEF RotateUnlink, OldestSlot
<1>2. /\ DOMAIN files = 0..o /\ o \in DOMAIN files /\ DOMAIN files' = DOMAIN files /\ o \in Nat
      /\ files'[o] = NoFile /\ \A k \in DOMAIN files : k # o => files'[k] = files[k]
  BY <1>1, BoundFacts
<1>3. LinesOf(o)' = <<>> /\ \A k \in DOMAIN files : k # o => LinesOf(k)' = LinesOf(k)
  BY <1>2 DEF LinesOf
<1>4. \A later, e : Follows(later, e)' <=> Follows(later, e)
  BY <1>1 DEF Follows, Linked
<1>5. \A e, prev : Linked(e, prev)' <=> Linked(e, prev)
  BY <1>1 DEF Linked
<1>6. EvidenceIsOneChain'
  <2> SUFFICES ASSUME NEW i \in DOMAIN files, LinesOf(i)' # <<>>
               PROVE  /\ \A n \in 1..(Len(LinesOf(i)') - 1) :
                            Follows(LinesOf(i)'[n + 1], LinesOf(i)'[n])
                      /\ \A j \in DOMAIN files :
                            Adjoin(i, j)' /\ LinesOf(j)' # <<>> =>
                                Follows(LinesOf(j)'[1], Last(LinesOf(i)'))
    BY <1>2, <1>4 DEF EvidenceIsOneChain
  <2>1. i # o /\ LinesOf(i)' = LinesOf(i) /\ i < o
    BY <1>2, <1>3
  <2>2. ASSUME NEW j \in DOMAIN files, Adjoin(i, j)'
        PROVE  Adjoin(i, j) /\ LinesOf(j)' = LinesOf(j)
    <3>1. \A k \in DOMAIN files : k < i => k # o
      BY <1>2, <2>1
    <3> QED
      BY <1>2, <1>3, <2>2, <3>1 DEF Adjoin
  <2> QED
    BY <2>1, <2>2 DEF EvidenceIsOneChain
<1>7. ASSUME NEW prev, MayFollow(prev) PROVE MayFollow(prev)'
  <2> SUFFICES ASSUME NEW i \in DOMAIN files, LinesOf(i)' # <<>>,
                      \A k \in DOMAIN files : k < i => LinesOf(k)' = <<>>
               PROVE  Linked(Last(LinesOf(i)'), prev)
    BY <1>2, <1>5 DEF MayFollow
  <2>1. i # o /\ LinesOf(i)' = LinesOf(i) /\ i < o
    BY <1>2, <1>3
  <2>2. \A k \in DOMAIN files : k < i => LinesOf(k) = <<>>
    BY <1>2, <1>3, <2>1
  <2> QED
    BY <1>7, <2>1, <2>2 DEF MayFollow
<1>8. Recorded' \subseteq Recorded
  <2>1. rotatedOut' \subseteq rotatedOut \cup ReadableIn(LinesOf(o))
    BY <1>1 DEF LinesOf
  <2>3. \A k \in DOMAIN files : ReadableIn(LinesOf(k)') \subseteq ReadableIn(LinesOf(k))
    BY <1>3, NothingIsRead
  <2>4. Recorded' = written \cup rotatedOut'
                        \cup UNION {ReadableIn(LinesOf(k)') : k \in DOMAIN files}
    BY <1>1, <1>2 DEF Recorded, ReadableIn
  <2> QED
    BY <1>2, <2>1, <2>3, <2>4 DEF Recorded
<1>9. LossIsObservable'
  <2> SUFFICES ASSUME ~failing, found # "no newline"
               PROVE  written \subseteq
                          rotatedOut' \cup UNION {ReadableIn(LinesOf(k)') : k \in DOMAIN files}
    BY <1>1, <1>2 DEF LossIsObservable, ReadableIn
  <2> SUFFICES ASSUME NEW r \in written
               PROVE  r \in rotatedOut' \/ \E k \in DOMAIN files : r \in ReadableIn(LinesOf(k)')
    OBVIOUS
  <2>1. r \in rotatedOut \/ \E k \in DOMAIN files : r \in ReadableIn(LinesOf(k))
    BY DEF LossIsObservable
  <2>2. rotatedOut \subseteq rotatedOut'
    BY <1>1
  <2>3. CASE r \in ReadableIn(LinesOf(o))
    <3>1. LinesOf(o) # <<>> /\ files[o] # NoFile
      BY NothingIsRead, <2>3 DEF LinesOf
    <3> QED
      BY <1>1, <2>3, <3>1 DEF LinesOf
  <2> QED
    BY <1>3, <2>1, <2>2, <2>3
<1> QED
  BY <1>6, <1>7, <1>8, <1>9

LEMMA RotateUnlinkKeeps ==
    ASSUME JournalInv, RotateUnlink
    PROVE  JournalInv'
<1> USE DEF JournalInv
<1>1. CorruptStays'
  BY CorruptKeeps DEF Next, ChainStep
<1>2. /\ EvidenceIsOneChain' /\ (\A prev : MayFollow(prev) => MayFollow(prev)')
      /\ Recorded' \subseteq Recorded /\ LossIsObservable'
  BY UnlinkKeepsChain
<1> DEFINE o == MaxFiles - 1
<1>3. /\ step.pc = "unlink" /\ files' = [files EXCEPT ![o] = NoFile]
      /\ rotatedOut' = IF files[o] = NoFile THEN rotatedOut
                       ELSE rotatedOut \cup ReadableIn(files[o].lines)
      /\ UNCHANGED <<queue, initialized, failing, written, setbacks, found, next, restarts>>
      /\ MaxFiles = 1 => head' = Null /\ step' = [step EXCEPT !.pc = "append"]
      /\ MaxFiles # 1 => head' = head /\ step' = [step EXCEPT !.pc = "rename", !.slot = @ - 1]
  BY DEF RotateUnlink, OldestSlot
<1>4. /\ MaxFiles \in 1..10 /\ DOMAIN files = 0..o /\ o \in Nat /\ step.slot = o
      /\ files'[o] = NoFile /\ DOMAIN files' = DOMAIN files
      /\ \A k \in DOMAIN files : k # o => files'[k] = files[k]
      /\ files[0] # NoFile /\ files[0].size = FileRecords /\ FileRecords \in Nat \ {0}
  BY <1>3, TypedFacts DEF RotationInPlace
<1>5. /\ step' \in Steps /\ step'.line = step.line
      /\ MaxFiles = 1 => step'.pc = "append"
      /\ MaxFiles # 1 => step'.pc = "rename" /\ step'.slot = MaxFiles - 2
      /\ head' \in Seq(1..MaxRecords) /\ step'.pc # "idle"
  <2>1. step \in Steps /\ Null \in Seq(1..MaxRecords) /\ head \in Seq(1..MaxRecords)
    BY TypedFacts, EmptySeq DEF JournalTyped, Null
  <2>2. CASE MaxFiles = 1
    BY <1>3, <2>1, <2>2 DEF Steps
  <2>3. CASE MaxFiles # 1
    <3>1. step.slot - 1 \in 0..(MaxFiles - 1) /\ step.slot - 1 = MaxFiles - 2
      BY <1>4, <2>3
    <3> QED
      BY <1>3, <2>1, <2>3, <3>1 DEF Steps
  <2> QED
    BY <2>2, <2>3
<1>6. JournalTyped'
  <2>1. rotatedOut' \subseteq 1..MaxRecords
    <3>1. CASE files[o] = NoFile
      BY <1>3, <3>1 DEF JournalTyped, AuditTypeOK
    <3>2. CASE files[o] # NoFile
      <4>1. ReadableIn(LinesOf(o)) \subseteq Recorded
        BY <1>4 DEF Recorded
      <4> QED
        BY <1>3, <3>2, <4>1, RecordedAreNumbers DEF JournalTyped, AuditTypeOK, LinesOf
    <3> QED
      BY <3>1, <3>2
  <2>2. \A i \in DOMAIN files : files'[i] # NoFile => files'[i] = files[i]
    BY <1>4
  <2>3. queue # <<>> /\ initialized
    BY <1>3 DEF JournalTyped, AuditTypeOK
  <2>4. AuditTypeOK'
    BY <1>3, <1>4, <1>5, <2>1, <2>2, <2>3 DEF JournalTyped, AuditTypeOK, Steps
  <2> QED
    BY <1>3, <1>4, <1>5, <2>2, <2>4 DEF JournalTyped
<1>7. Active' = (IF MaxFiles = 1 THEN EmptyFile ELSE Active)
  BY <1>4 DEF Active
<1>8. RotationInPlace'
  <2>1. CASE MaxFiles = 1
    <3>1. Active'.size < FileRecords
      BY <1>4, <1>7, <2>1 DEF EmptyFile
    <3> QED
      BY <1>4, <1>5, <2>1, <3>1 DEF RotationInPlace
  <2>2. CASE MaxFiles # 1
    <3>1. files'[0] = files[0] /\ step'.slot \in 0..(MaxFiles - 2) /\ step'.slot + 1 = o
      BY <1>4, <1>5, <2>2
    <3>2. \A i \in 1..(MaxFiles - 1) : files'[i] # NoFile => files'[i] = files[i]
      BY <1>4
    <3> QED
      BY <1>4, <1>5, <2>2, <3>1, <3>2 DEF RotationInPlace
  <2> QED
    BY <2>1, <2>2
<1>9. HolesAreSetbacks'
  <2>1. CASE MaxFiles = 1
    <3>1. \A i \in 1..MaxFiles : Holes(i)' = {} /\ i = 1
      BY <2>1 DEF Holes
    <3>2. setbacks' \in Nat
      BY <1>3, TypedFacts
    <3>3. \A i \in 1..MaxFiles : Cardinality(Holes(i)') = 0
      BY <3>1, FS_EmptySet
    <3>4. step'.pc # "rename"
      BY <1>5, <2>1
    <3> QED
      BY <3>2, <3>3, <3>4 DEF HolesAreSetbacks
  <2> QED
    BY <2>1, UnlinkCountsHoles
<1>10. NumbersRise'
  BY <1>2, <1>3, <1>5 DEF NumbersRise
<1>11. HeadsFit'
  <2>1. initialized /\ initialized' = initialized
    BY <1>3 DEF JournalTyped, AuditTypeOK
  <2>2. CASE MaxFiles = 1
    <3>1. \A i \in DOMAIN files : LinesOf(i)' = <<>>
      BY <1>4, <2>2 DEF LinesOf
    <3>2. \A prev : MayFollow(prev)'
      BY <1>4, <3>1 DEF MayFollow
    <3> QED
      BY <2>1, <2>2, <3>2 DEF HeadsFit
  <2>3. CASE MaxFiles # 1
    <3>1. MaxFiles > 1
      BY <1>4, <2>3
    <3>2. MayFollow(head) /\ MayFollow(step.line.prev) /\ step.line.prev = head
      BY <1>3, <2>1, <3>1 DEF HeadsFit
    <3> QED
      BY <1>2, <1>3, <1>5, <2>1, <2>3, <3>2 DEF HeadsFit
  <2> QED
    BY <2>2, <2>3
<1>12. EndsAreKnown'
  BY <1>3, <1>7 DEF EndsAreKnown, EmptyFile
<1> QED
  BY <1>1, <1>2, <1>6, <1>8, <1>9, <1>10, <1>11, <1>12

\* Where the lines of file i were before the rename from slot s.
Before(i, s) == IF i = s + 1 THEN s ELSE i

\* A file that moves behind an empty place keeps its neighbours.
LEMMA RenameKeepsChain ==
    ASSUME JournalInv, RotateRename, NEW s, s = step.slot
    PROVE  /\ EvidenceIsOneChain' /\ (\A prev : MayFollow(prev) => MayFollow(prev)')
           /\ Recorded' \subseteq Recorded /\ LossIsObservable'
<1> USE DEF JournalInv
<1>1. /\ step.pc = "rename" /\ rotatedOut' = rotatedOut /\ written' = written
      /\ restarts' = restarts /\ failing' = failing /\ found' = found
      /\ files' = IF files[s] = NoFile THEN files
                  ELSE [files EXCEPT ![s + 1] = files[s], ![s] = NoFile]
  BY DEF RotateRename, processVars
<1>2. /\ MaxFiles \in 1..10 /\ DOMAIN files = 0..(MaxFiles - 1)
      /\ s \in 0..(MaxFiles - 2) /\ files[s + 1] = NoFile
  BY <1>1, TypedFacts DEF RotationInPlace
<1>3. /\ s \in DOMAIN files /\ s + 1 \in DOMAIN files /\ DOMAIN files' = DOMAIN files
      /\ files'[s + 1] = files[s] /\ files'[s] = NoFile
      /\ \A k \in DOMAIN files : k # s /\ k # s + 1 => files'[k] = files[k]
  <2>1. s \in DOMAIN files /\ s + 1 \in DOMAIN files /\ s # s + 1
    BY <1>2
  <2> QED
    BY <1>1, <1>2, <2>1
<1>4. /\ LinesOf(s)' = <<>> /\ LinesOf(s + 1) = <<>>
      /\ \A k \in DOMAIN files : k # s => LinesOf(k)' = LinesOf(Before(k, s))
  BY <1>2, <1>3 DEF LinesOf, Before
<1>5. \A k \in DOMAIN files : k # s => Before(k, s) \in DOMAIN files
  BY <1>3 DEF Before
<1>6. \A later, e : Follows(later, e)' <=> Follows(later, e)
  BY <1>1 DEF Follows, Linked
<1>7. \A e, prev : Linked(e, prev)' <=> Linked(e, prev)
  BY <1>1 DEF Linked
\* What is empty between two files was so before.
<1>8. ASSUME NEW i \in DOMAIN files, i # s, NEW b \in Int, b # s + 1,
             \A k \in DOMAIN files : b < k /\ k < i => LinesOf(k)' = <<>>
      PROVE  \A k \in DOMAIN files : Before(b, s) < k /\ k < Before(i, s) => LinesOf(k) = <<>>
  <2> SUFFICES ASSUME NEW k \in DOMAIN files, b < k, k < Before(i, s), LinesOf(k) # <<>>
               PROVE  FALSE
    BY <1>8 DEF Before
  <2>1. /\ i \in Int /\ k \in Int /\ s \in Int /\ k < i
    BY <1>2 DEF Before
  <2>2. k # s + 1
    BY <1>4
  <2>3. CASE k # s
    <3>1. LinesOf(k)' = LinesOf(k)
      BY <1>4, <2>2, <2>3 DEF Before
    <3> QED
      BY <1>8, <2>1, <3>1
  <2>4. CASE k = s
    <3>1. s + 1 < i
      BY <1>8, <2>1, <2>4 DEF Before
    <3>2. LinesOf(s + 1)' = LinesOf(s)
      BY <1>3, <1>4, <2>1 DEF Before
    <3> QED
      BY <1>3, <1>8, <2>1, <2>4, <3>1, <3>2
  <2> QED
    BY <2>3, <2>4
<1>9. EvidenceIsOneChain'
  <2> SUFFICES ASSUME NEW i \in DOMAIN files, LinesOf(i)' # <<>>
               PROVE  /\ \A n \in 1..(Len(LinesOf(i)') - 1) :
                            Follows(LinesOf(i)'[n + 1], LinesOf(i)'[n])
                      /\ \A j \in DOMAIN files :
                            Adjoin(i, j)' /\ LinesOf(j)' # <<>> =>
                                Follows(LinesOf(j)'[1], Last(LinesOf(i)'))
    BY <1>3, <1>6 DEF EvidenceIsOneChain
  <2>1. /\ i # s /\ Before(i, s) \in DOMAIN files /\ LinesOf(i)' = LinesOf(Before(i, s))
        /\ LinesOf(Before(i, s)) # <<>>
    BY <1>4, <1>5
  <2>2. ASSUME NEW j \in DOMAIN files, Adjoin(i, j)', LinesOf(j)' # <<>>
        PROVE  Follows(LinesOf(j)'[1], Last(LinesOf(i)'))
    <3>1. /\ j # s /\ Before(j, s) \in DOMAIN files /\ LinesOf(j)' = LinesOf(Before(j, s))
          /\ LinesOf(Before(j, s)) # <<>>
      BY <1>4, <1>5, <2>2
    <3>2. i \in Int /\ j \in Int /\ s \in Int /\ j < i
          /\ \A k \in DOMAIN files : j < k /\ k < i => LinesOf(k)' = <<>>
      BY <1>2, <1>3, <2>2 DEF Adjoin
    <3>3. Before(j, s) < Before(i, s)
      BY <2>1, <3>1, <3>2 DEF Before
    <3>4. \A k \in DOMAIN files : Before(j, s) < k /\ k < Before(i, s) => LinesOf(k) = <<>>
      <4>1. CASE j # s + 1
        BY <1>8, <2>1, <3>2, <4>1
      <4>2. CASE j = s + 1
        <5> SUFFICES ASSUME NEW k \in DOMAIN files, s < k, k < i, LinesOf(k) # <<>>
                     PROVE  FALSE
          BY <3>2, <4>2 DEF Before
        <5>1. k \in Int /\ k # s + 1 /\ k # s
          BY <1>2, <1>4
        <5>2. LinesOf(k)' = LinesOf(k) /\ j < k
          BY <1>4, <3>2, <4>2, <5>1 DEF Before
        <5> QED
          BY <3>2, <5>2
      <4> QED
        BY <4>1, <4>2
    <3>5. Adjoin(Before(i, s), Before(j, s))
      BY <3>3, <3>4 DEF Adjoin
    <3> QED
      BY <2>1, <3>1, <3>5 DEF EvidenceIsOneChain
  <2> QED
    BY <2>1, <2>2 DEF EvidenceIsOneChain
<1>10. ASSUME NEW prev, MayFollow(prev) PROVE MayFollow(prev)'
  <2> SUFFICES ASSUME NEW i \in DOMAIN files, LinesOf(i)' # <<>>,
                      \A k \in DOMAIN files : k < i => LinesOf(k)' = <<>>
               PROVE  Linked(Last(LinesOf(i)'), prev)
    BY <1>3, <1>7 DEF MayFollow
  <2>1. /\ i # s /\ Before(i, s) \in DOMAIN files /\ LinesOf(i)' = LinesOf(Before(i, s))
        /\ LinesOf(Before(i, s)) # <<>>
    BY <1>4, <1>5
  <2>2. \A k \in DOMAIN files : k \in Int /\ -1 < k
    BY <1>2
  <2>3. \A k \in DOMAIN files : Before(-1, s) < k /\ k < Before(i, s) => LinesOf(k) = <<>>
    <3>1. -1 # s + 1
      BY <1>2
    <3> QED
      BY <1>8, <2>1, <3>1
  <2>4. Before(-1, s) = -1
    BY <1>2 DEF Before
  <2> QED
    BY <1>10, <2>1, <2>2, <2>3, <2>4 DEF MayFollow
<1>11. UNION {ReadableIn(LinesOf(k)') : k \in DOMAIN files}
           = UNION {ReadableIn(LinesOf(k)) : k \in DOMAIN files}
  <2>1. ASSUME NEW k \in DOMAIN files, NEW r \in ReadableIn(LinesOf(k)')
        PROVE  \E m \in DOMAIN files : r \in ReadableIn(LinesOf(m))
    BY <1>4, <1>5, <2>1, NothingIsRead
  <2>2. ASSUME NEW k \in DOMAIN files, NEW r \in ReadableIn(LinesOf(k))
        PROVE  \E m \in DOMAIN files : r \in ReadableIn(LinesOf(m)')
    <3>1. k # s + 1
      BY <1>4, <2>2, NothingIsRead
    <3>2. CASE k = s
      <4>1. LinesOf(s + 1)' = LinesOf(s)
        BY <1>2, <1>3, <1>4 DEF Before
      <4> QED
        BY <1>3, <2>2, <3>2, <4>1
    <3>3. CASE k # s
      BY <1>4, <2>2, <3>1, <3>3 DEF Before
    <3> QED
      BY <3>2, <3>3
  <2> QED
    BY <2>1, <2>2
<1>12. Recorded' \subseteq Recorded /\ LossIsObservable'
  <2>1. /\ Recorded' = written \cup rotatedOut
                           \cup UNION {ReadableIn(LinesOf(k)') : k \in DOMAIN files}
        /\ LossIsObservable' <=>
              (~failing /\ found # "no newline" =>
                  written \subseteq
                      rotatedOut \cup UNION {ReadableIn(LinesOf(k)') : k \in DOMAIN files})
    BY <1>1, <1>3 DEF Recorded, LossIsObservable, ReadableIn
  <2> QED
    BY <1>11, <2>1 DEF Recorded, LossIsObservable
<1> QED
  BY <1>9, <1>10, <1>12

LEMMA RotateRenameKeeps ==
    ASSUME JournalInv, RotateRename
    PROVE  JournalInv'
<1> USE DEF JournalInv
<1>1. CorruptStays' /\ HolesAreSetbacks'
  BY CorruptKeeps, RenameCountsHoles DEF Next, ChainStep
<1>2. /\ EvidenceIsOneChain' /\ (\A prev : MayFollow(prev) => MayFollow(prev)')
      /\ Recorded' \subseteq Recorded /\ LossIsObservable'
  BY RenameKeepsChain
<1> DEFINE s == step.slot
<1>3. /\ step.pc = "rename"
      /\ files' = IF files[s] = NoFile THEN files
                  ELSE [files EXCEPT ![s + 1] = files[s], ![s] = NoFile]
      /\ step' = IF s = 0 THEN [step EXCEPT !.pc = "append"] ELSE [step EXCEPT !.slot = s - 1]
      /\ UNCHANGED <<rotatedOut, queue, head, initialized, failing, written, setbacks, found,
                     restarts, next>>
  BY DEF RotateRename, processVars
<1>4. /\ MaxFiles \in 1..10 /\ DOMAIN files = 0..(MaxFiles - 1) /\ FileRecords \in Nat \ {0}
      /\ s \in 0..(MaxFiles - 2) /\ files[s + 1] = NoFile
      /\ files[0] # NoFile /\ files[0].size = FileRecords
  BY <1>3, TypedFacts DEF RotationInPlace
<1>5. /\ s \in DOMAIN files /\ s + 1 \in DOMAIN files /\ DOMAIN files' = DOMAIN files
      /\ files'[s + 1] = files[s] /\ files'[s] = NoFile
      /\ \A k \in DOMAIN files : k # s /\ k # s + 1 => files'[k] = files[k]
  <2>1. s \in DOMAIN files /\ s + 1 \in DOMAIN files /\ s # s + 1
    BY <1>4
  <2> HIDE DEF s
  <2> QED
    BY <1>3, <1>4, <2>1
<1>6. /\ step' \in Steps /\ step'.line = step.line /\ step'.pc # "idle"
      /\ s = 0 => step'.pc = "append"
      /\ s # 0 => step'.pc = "rename" /\ step'.slot = s - 1
  <2>1. step \in Steps
    BY DEF JournalTyped
  <2>2. CASE s = 0
    BY <1>3, <2>1, <2>2 DEF Steps
  <2>3. CASE s # 0
    <3>1. s - 1 \in 0..(MaxFiles - 1)
      BY <1>4, <2>3
    <3> QED
      BY <1>3, <2>1, <2>3, <3>1 DEF Steps
  <2> QED
    BY <2>2, <2>3
<1>7. queue # <<>> /\ initialized
  BY <1>3 DEF JournalTyped, AuditTypeOK
<1>8. JournalTyped'
  <2>1. \A k \in DOMAIN files : files'[k] # NoFile =>
            \E m \in DOMAIN files : files[m] # NoFile /\ files'[k] = files[m]
    BY <1>5
  <2>2. AuditTypeOK'
    <3>1. step'.pc \in {"idle", "unlink", "rename", "append"}
      BY <1>6
    <3>2. \A k \in DOMAIN files : files'[k] = NoFile \/ files'[k] \in Files
      BY <2>1 DEF JournalTyped, AuditTypeOK
    <3> QED
      BY <1>3, <1>5, <1>7, <3>1, <3>2 DEF JournalTyped, AuditTypeOK
  <2> QED
    BY <1>3, <1>5, <1>6, <2>1, <2>2 DEF JournalTyped
<1>9. RotationInPlace'
  <2>1. files[0].lines # <<>>
    BY <1>4 DEF RotationInPlace
  <2>2. \A i \in 1..(MaxFiles - 1) :
            files'[i] # NoFile => files'[i].size = FileRecords /\ files'[i].lines # <<>>
    <3> SUFFICES ASSUME NEW i \in 1..(MaxFiles - 1), files'[i] # NoFile
                 PROVE  files'[i].size = FileRecords /\ files'[i].lines # <<>>
      OBVIOUS
    <3>1. CASE i = s + 1
      BY <1>4, <1>5, <2>1, <3>1 DEF RotationInPlace
    <3>2. CASE i # s + 1
      BY <1>4, <1>5, <3>2 DEF RotationInPlace
    <3> QED
      BY <3>1, <3>2
  <2>3. CASE s = 0
    <3>1. Active' = EmptyFile
      BY <1>5, <2>3 DEF Active
    <3>2. Active'.size < FileRecords
      BY <1>4, <3>1 DEF EmptyFile
    <3> QED
      BY <1>4, <1>5, <1>6, <2>2, <2>3, <3>2 DEF RotationInPlace
  <2>4. CASE s # 0
    <3>1. files'[0] = files[0] /\ step'.slot \in 0..(MaxFiles - 2) /\ step'.slot + 1 = s
      BY <1>4, <1>5, <1>6, <2>4
    <3> QED
      BY <1>4, <1>5, <1>6, <2>1, <2>2, <2>4, <3>1 DEF RotationInPlace
  <2> QED
    BY <2>3, <2>4
<1>10. NumbersRise'
  BY <1>2, <1>3, <1>6 DEF NumbersRise
<1>11. HeadsFit'
  <2>1. MaxFiles > 1
    BY <1>4
  <2>2. MayFollow(head) /\ MayFollow(step.line.prev) /\ step.line.prev = head
    BY <1>3, <1>7, <2>1 DEF HeadsFit
  <2> QED
    BY <1>2, <1>3, <1>6, <1>7, <2>2 DEF HeadsFit
<1>12. EndsAreKnown'
  <2>1. Active' = EmptyFile \/ Active' = Active
    BY <1>4, <1>5 DEF Active
  <2> QED
    BY <1>3, <2>1 DEF EndsAreKnown, EmptyFile
<1> QED
  BY <1>1, <1>2, <1>8, <1>9, <1>10, <1>11, <1>12

(***************************************************************************)
(* The journal: an append, complete, failed or interrupted.                *)
(***************************************************************************)
LEMMA LineIsRecorded ==
    ASSUME JournalTyped, NEW i \in DOMAIN files, NEW n \in 1..Len(LinesOf(i)),
           LinesOf(i)[n] # Unreadable
    PROVE  LinesOf(i)[n].rec \in Recorded
<1>1. LinesOf(i)[n].rec \in ReadableIn(LinesOf(i))
  BY LinesAre DEF ReadableIn
<1> QED
  BY <1>1 DEF Recorded

\* The active file has grown: the line written may follow the last one, and a line that is
\* continued is not read any more.
LEMMA GrowthKeepsChain ==
    ASSUME JournalInv, NEW line \in Entries, NEW g, Grown(Active, g, line),
           files' = [files EXCEPT ![0] = g], Active.ended => MayFollow(line.prev),
           restarts > 0 => restarts' > 0, \A r \in Recorded : r \in written' => r \in written
    PROVE  /\ EvidenceIsOneChain'
           /\ Recorded' \subseteq written' \cup rotatedOut' \cup Recorded \cup {line.rec}
           /\ Active' = g
           /\ \A prev : (g.lines # <<>> => Linked(Last(g.lines), prev)')
                        /\ (g.lines = <<>> => MayFollow(prev)) => MayFollow(prev)'
<1> USE DEF JournalInv
<1>1. /\ MaxFiles \in 1..10 /\ DOMAIN files = 0..(MaxFiles - 1) /\ DOMAIN files' = DOMAIN files
      /\ 0 \in DOMAIN files /\ files'[0] = g
      /\ \A k \in DOMAIN files : k # 0 => files'[k] = files[k]
      /\ \A k \in DOMAIN files : k \in Int /\ 0 <= k
  BY TypedFacts
<1>2. g \in Files /\ g # NoFile
  BY JournalAssumption DEF Grown, Whole
<1>3. LinesOf(0)' = g.lines /\ \A k \in DOMAIN files : k # 0 => LinesOf(k)' = LinesOf(k)
  BY <1>1, <1>2 DEF LinesOf
<1>4. /\ Active.lines = LinesOf(0) /\ Len(LinesOf(0)) \in Nat /\ Len(g.lines) \in Nat
      /\ g.lines # <<>> => Len(g.lines) \in Nat \ {0}
      /\ LinesOf(0) # <<>> => Len(LinesOf(0)) \in Nat \ {0}
  BY <1>1, <1>2, ActiveIs, LinesAre, FileFields
<1>5. ASSUME NEW e, NEW prev, Linked(e, prev), e # Unreadable => e.rec \in Recorded
      PROVE  Linked(e, prev)'
  BY <1>5, LinkedStays
<1>6. ASSUME NEW later, NEW e, Follows(later, e), e # Unreadable => e.rec \in Recorded
      PROVE  Follows(later, e)'
  BY <1>5, <1>6 DEF Follows
<1>7. \A i \in DOMAIN files : \A n \in 1..Len(LinesOf(i)) :
          LinesOf(i)[n] # Unreadable => LinesOf(i)[n].rec \in Recorded
  BY LineIsRecorded
<1>8. \A i \in DOMAIN files : LinesOf(i) # <<>> /\ Last(LinesOf(i)) # Unreadable =>
          Last(LinesOf(i)).rec \in Recorded
  BY <1>7, LinesAre DEF Last
\* The line written follows the last line of the active file, and of the nearest file that is
\* not empty when it is empty.
<1>9. /\ g # Active => /\ \A n \in 1..(Len(g.lines) - 1) : n \in 1..Len(LinesOf(0))
                                                    /\ g.lines[n] = LinesOf(0)[n]
                       /\ \/ /\ Active.ended /\ Len(g.lines) = Len(LinesOf(0)) + 1
                             /\ g.lines[Len(g.lines)] \in {line, Unreadable}
                          \/ /\ ~Active.ended /\ Len(g.lines) = Len(LinesOf(0))
                             /\ g.lines[Len(g.lines)] = Unreadable
      /\ g = Active => LinesOf(0)' = LinesOf(0)
      /\ Len(LinesOf(0)') = Len(g.lines)
  BY <1>3, <1>4 DEF Grown, Last
<1>10. ASSUME NEW e, Linked(e, line.prev), e # Unreadable => e.rec \in Recorded
       PROVE  Follows(line, e)'
  <2>1. Linked(e, line.prev)'
    BY <1>5, <1>10
  <2> QED
    BY <2>1 DEF Follows
<1>11. ASSUME NEW i \in DOMAIN files, LinesOf(i)' # <<>>
      PROVE  \A n \in 1..(Len(LinesOf(i)') - 1) : Follows(LinesOf(i)[n + 1], LinesOf(i)[n])'
  <2>1. CASE LinesOf(i)' = LinesOf(i)
    <3> SUFFICES ASSUME NEW n \in 1..(Len(LinesOf(i)) - 1)
                 PROVE  Follows(LinesOf(i)[n + 1], LinesOf(i)[n])'
      BY <2>1
    <3>1. Follows(LinesOf(i)[n + 1], LinesOf(i)[n])
      BY <1>11, <2>1 DEF EvidenceIsOneChain
    <3>2. n \in 1..Len(LinesOf(i))
      BY LinesAre
    <3> QED
      BY <1>6, <1>7, <2>1, <3>1, <3>2
  <2>2. CASE LinesOf(i)' # LinesOf(i)
    <3>1. i = 0 /\ g # Active
      BY <1>3, <1>9, <2>2
    <3> SUFFICES ASSUME NEW n \in 1..(Len(g.lines) - 1)
                 PROVE  Follows(LinesOf(0)[n + 1], LinesOf(0)[n])'
      BY <1>9, <3>1
    <3>2. n \in 1..Len(LinesOf(0)) /\ g.lines[n] = LinesOf(0)[n] /\ n \in Nat
      BY <1>9, <3>1
    <3>3. CASE n + 1 # Len(g.lines)
      <4>1. n + 1 \in 1..(Len(g.lines) - 1)
        BY <1>4, <3>3
      <4>2. n + 1 \in 1..Len(LinesOf(0)) /\ g.lines[n + 1] = LinesOf(0)[n + 1]
        BY <1>9, <3>1, <4>1
      <4>3. n \in 1..(Len(LinesOf(0)) - 1) /\ LinesOf(0) # <<>>
        BY <1>4, <3>2, <4>2, EmptySeq
      <4>4. Follows(LinesOf(0)[n + 1], LinesOf(0)[n])
        BY <1>1, <4>3 DEF EvidenceIsOneChain
      <4> QED
        BY <1>1, <1>3, <1>6, <1>7, <3>2, <4>2, <4>4
    <3>4. CASE n + 1 = Len(g.lines) /\ g.lines[n + 1] = Unreadable
      BY <1>3, <3>4 DEF Follows
    <3>5. CASE n + 1 = Len(g.lines) /\ g.lines[n + 1] # Unreadable
      <4>1. /\ Active.ended /\ n = Len(LinesOf(0)) /\ g.lines[n + 1] = line
            /\ LinesOf(0) # <<>>
        BY <1>4, <1>9, <3>1, <3>2, <3>5, EmptySeq
      <4>2. Linked(LinesOf(0)[n], line.prev)
        <5>1. MayFollow(line.prev) /\ \A k \in DOMAIN files : ~(k < 0)
          BY <1>1, <4>1
        <5> QED
          BY <1>1, <4>1, <5>1 DEF MayFollow, Last
      <4> QED
        BY <1>1, <1>3, <1>7, <1>10, <3>2, <4>1, <4>2
    <3> QED
      BY <3>3, <3>4, <3>5
  <2> QED
    BY <2>1, <2>2
<1>12. ASSUME NEW i \in DOMAIN files, LinesOf(i)' # <<>>, NEW j \in DOMAIN files, Adjoin(i, j)',
              LinesOf(j)' # <<>>
       PROVE  Follows(LinesOf(j)[1], Last(LinesOf(i)))'
  <2>1. i # 0 /\ LinesOf(i)' = LinesOf(i) /\ j < i
    BY <1>1, <1>3, <1>12 DEF Adjoin
  <2>2. CASE LinesOf(j)' = LinesOf(j) /\ Adjoin(i, j)
    <3>2. Follows(LinesOf(j)[1], Last(LinesOf(i)))
      BY <1>12, <2>1, <2>2 DEF EvidenceIsOneChain
    <3> QED
      BY <1>6, <1>8, <1>12, <2>1, <2>2, <3>2
  <2>3. CASE j # 0
    BY <1>1, <1>3, <1>12, <2>1, <2>2, <2>3 DEF Adjoin
  <2>4. CASE j = 0
    <3>1. /\ LinesOf(i) # <<>> /\ g.lines # <<>>
          /\ \A k \in DOMAIN files : 0 < k /\ k < i => LinesOf(k) = <<>>
      BY <1>1, <1>3, <1>12, <2>1, <2>4 DEF Adjoin
    <3>2. Adjoin(i, 0)
      BY <2>1, <2>4, <3>1 DEF Adjoin
    <3>3. CASE g = Active
      BY <1>9, <2>2, <2>4, <3>2, <3>3
    <3>4. CASE g.lines[1] = Unreadable
      BY <1>3, <2>4, <3>4 DEF Follows
    <3>5. CASE g # Active /\ g.lines[1] # Unreadable /\ LinesOf(0) = <<>>
      <4>1. Len(LinesOf(0)) = 0
        BY <3>5, EmptySeq
      <4>2. Active.ended /\ g.lines[1] = line
        BY <1>4, <1>9, <3>1, <3>5, <4>1
      <4>3. \A k \in DOMAIN files : k < i => LinesOf(k) = <<>>
        BY <1>1, <3>1, <3>5
      <4>4. Linked(Last(LinesOf(i)), line.prev)
        BY <3>1, <4>2, <4>3 DEF MayFollow
      <4> QED
        BY <1>3, <1>8, <1>10, <2>1, <2>4, <3>1, <4>2, <4>4
    <3>6. CASE g # Active /\ g.lines[1] # Unreadable /\ LinesOf(0) # <<>>
      <4>1. Len(g.lines) # 1
        BY <1>4, <1>9, <3>6
      <4>2. 1 \in 1..(Len(g.lines) - 1)
        <5> DEFINE m == Len(g.lines)
        <5>1. m \in Nat \ {0} /\ m # 1
          BY <1>4, <3>1, <4>1
        <5> HIDE DEF m
        <5>2. 1 \in 1..(m - 1)
          BY <5>1
        <5> QED
          BY <5>2 DEF m
      <4>3. LinesOf(0)'[1] = LinesOf(0)[1]
        BY <1>3, <1>9, <3>6, <4>2
      <4>4. Follows(LinesOf(0)[1], Last(LinesOf(i)))
        BY <1>1, <3>1, <3>2, <3>6 DEF EvidenceIsOneChain
      <4> QED
        BY <1>6, <1>8, <2>1, <2>4, <3>1, <4>3, <4>4
    <3> QED
      BY <3>3, <3>4, <3>5, <3>6
  <2> QED
    BY <2>3, <2>4
<1>13. EvidenceIsOneChain'
  BY <1>1, <1>11, <1>12 DEF EvidenceIsOneChain
<1>14. Recorded' \subseteq written' \cup rotatedOut' \cup Recorded \cup {line.rec}
  <2>1. ReadableIn(g.lines) \subseteq ReadableIn(LinesOf(0)) \cup {line.rec}
    BY <1>4, ActiveIs, GrownReads DEF Whole
  <2>2. Recorded' = written' \cup rotatedOut'
                        \cup UNION {ReadableIn(LinesOf(k)') : k \in DOMAIN files}
    BY <1>1 DEF Recorded, ReadableIn
  <2>3. \A k \in DOMAIN files :
            ReadableIn(LinesOf(k)') \subseteq ReadableIn(LinesOf(k)) \cup {line.rec}
    BY <1>3, <2>1
  <2> QED
    BY <2>2, <2>3 DEF Recorded
<1>15. Active' = g
  BY <1>1, <1>2 DEF Active
<1>16. ASSUME NEW prev, g.lines # <<>> => Linked(Last(g.lines), prev)',
              g.lines = <<>> => MayFollow(prev)
       PROVE  MayFollow(prev)'
  <2> SUFFICES ASSUME NEW i \in DOMAIN files, LinesOf(i)' # <<>>,
                      \A k \in DOMAIN files : k < i => LinesOf(k)' = <<>>
               PROVE  Linked(Last(LinesOf(i)), prev)'
    BY <1>1 DEF MayFollow
  <2>1. CASE i = 0
    BY <1>3, <1>16, <2>1
  <2>2. CASE i # 0
    <3>1. g.lines = <<>>
      BY <1>1, <1>3, <2>2
    <3>2. g = Active /\ LinesOf(0) = <<>>
      BY <1>4, <3>1 DEF Grown
    <3>3. LinesOf(i) # <<>> /\ \A k \in DOMAIN files : k < i => LinesOf(k) = <<>>
      BY <1>1, <1>3, <2>2, <3>2
    <3>4. Linked(Last(LinesOf(i)), prev)
      BY <1>16, <3>1, <3>3 DEF MayFollow
    <3> QED
      BY <1>3, <1>5, <1>8, <2>2, <3>3, <3>4
  <2> QED
    BY <2>1, <2>2
<1> QED
  BY <1>13, <1>14, <1>15, <1>16

\* The files once the active one has grown.
LEMMA GrowthKeepsFiles ==
    ASSUME JournalInv, NEW line \in Entries, NEW g, Grown(Active, g, line),
           files' = [files EXCEPT ![0] = g]
    PROVE  /\ DOMAIN files' = DOMAIN files
           /\ \A i \in DOMAIN files : files'[i] # NoFile => files'[i] \in Files /\ Whole(files'[i])
           /\ \A i \in 1..(MaxFiles - 1) : files'[i] = files[i]
           /\ \A i \in 1..(MaxFiles - 1) :
                 files'[i] # NoFile => files'[i].size = FileRecords /\ files'[i].lines # <<>>
           /\ files'[0] # NoFile /\ files'[0].size > 0 => files'[0].lines # <<>>
<1> USE DEF JournalInv
<1>1. /\ DOMAIN files = 0..(MaxFiles - 1) /\ DOMAIN files' = DOMAIN files
      /\ 0 \in DOMAIN files /\ files'[0] = g
      /\ \A k \in DOMAIN files : k # 0 => files'[k] = files[k]
      /\ \A i \in 1..(MaxFiles - 1) : i \in DOMAIN files /\ i # 0
  BY BoundFacts
<1>2. g \in Files /\ Whole(g)
  BY DEF Grown, Whole
<1>3. g.size > 0 => g.lines # <<>>
  <2>1. CASE g = Active
    <3>1. CASE files[0] = NoFile
      BY <2>1, <3>1 DEF Active, EmptyFile
    <3>2. CASE files[0] # NoFile
      BY <2>1, <3>2, ActiveIs DEF RotationInPlace
    <3> QED
      BY <3>1, <3>2
  <2> QED
    BY <2>1 DEF Grown
<1>4. \A i \in DOMAIN files : files[i] # NoFile => files[i] \in Files /\ Whole(files[i])
  <2>1. \A i \in DOMAIN files : files[i] # NoFile => Whole(files[i])
    BY DEF JournalTyped
  <2>2. \A f : Whole(f) => f \in Files
    BY DEF Whole
  <2> QED
    BY <2>1, <2>2
<1>5. \A i \in 1..(MaxFiles - 1) :
          files[i] # NoFile => files[i].size = FileRecords /\ files[i].lines # <<>>
  BY DEF RotationInPlace
<1> QED
  BY <1>1, <1>2, <1>3, <1>4, <1>5

\* The line to append is that of the first of the queue, and newer than all that is recorded.
LEMMA LineIsNew ==
    ASSUME JournalInv, step.pc = "append"
    PROVE  /\ queue # <<>> /\ initialized /\ step.line \in Entries
           /\ step.line.rec = Head(queue) /\ step.line.rec \in 1..MaxRecords
           /\ step.line.rec < next /\ step.line.rec \notin Recorded
           /\ Whole(Active) /\ Active.size < FileRecords /\ Active.size \in Nat
           /\ Active.ended \/ MaxFiles > 1 => MayFollow(step.line.prev)
           /\ found \in {"sound", "no newline"}
<1> USE DEF JournalInv
<1>1. queue # <<>> /\ initialized /\ step.line.rec = Head(queue)
  BY DEF JournalTyped, AuditTypeOK, NumbersRise
<1>2. /\ Head(queue) \in 1..MaxRecords /\ Head(queue) < next /\ \A r \in Recorded : r < Head(queue)
  BY <1>1, QueueFacts
<1>3. Head(queue) \notin Recorded
  BY <1>2, JournalAssumption
<1>4. step.line \in Entries
  BY <1>1, <1>2 DEF JournalTyped, Steps, Entries
<1>5. /\ Whole(Active) /\ Active.size < FileRecords /\ Active.size \in Nat
      /\ Active.ended \/ MaxFiles > 1 => MayFollow(step.line.prev)
      /\ found \in {"sound", "no newline"}
  BY ActiveIs DEF RotationInPlace, HeadsFit, CorruptStays, JournalTyped, AuditTypeOK
<1> QED
  BY <1>1, <1>2, <1>3, <1>4, <1>5

\* What could be read of a file is read after a whole line was appended, and so is the line.
LEMMA AppendReads ==
    ASSUME NEW lines \in Lines, NEW line \in Entries
    PROVE  ReadableIn(lines) \cup {line.rec} \subseteq ReadableIn(Append(lines, line))
<1> DEFINE g == Append(lines, line)
<1>1. /\ Len(lines) \in Nat /\ DOMAIN lines = 1..Len(lines) /\ DOMAIN g = 1..(Len(lines) + 1)
      /\ \A n \in 1..Len(lines) : g[n] = lines[n]
      /\ g[Len(lines) + 1] = line
  BY LenProperties, AppendProperties DEF Lines
<1>2. line # Unreadable
  BY JournalAssumption
<1>3. Len(lines) + 1 \in DOMAIN g /\ \A n \in DOMAIN lines : n \in DOMAIN g
  BY <1>1
<1> HIDE DEF g
<1>4. line.rec \in ReadableIn(g)
  BY <1>1, <1>2, <1>3 DEF ReadableIn
<1>5. ASSUME NEW j \in DOMAIN lines, lines[j] # Unreadable PROVE lines[j].rec \in ReadableIn(g)
  BY <1>1, <1>3, <1>5 DEF ReadableIn
<1>6. ReadableIn(lines) \subseteq ReadableIn(g)
  BY <1>5 DEF ReadableIn
<1> QED
  BY <1>4, <1>6 DEF g

\* appendFile succeeds.
LEMMA AppendFileKeeps ==
    ASSUME JournalInv, AppendFile
    PROVE  JournalInv'
<1> USE DEF JournalInv
<1>1. CorruptStays'
  BY CorruptKeeps DEF Next, ChainStep
<1>2. /\ step.pc = "append" /\ files' = [files EXCEPT ![0] = Extended(Active, step.line, TRUE)]
      /\ head' = Hash(step.line) /\ queue' = Tail(queue) /\ step' = Idle /\ step'.pc = "idle"
      /\ written' = written \cup {Head(queue)} /\ failing' = failing
      /\ UNCHANGED <<rotatedOut, initialized, setbacks, found, next, restarts>>
  BY IdleIsAStep DEF AppendFile, Settle, JournalTyped, AuditTypeOK
<1>3. PICK line : line = step.line
  OBVIOUS
<1>4. PICK g : g = Extended(Active, step.line, TRUE)
  OBVIOUS
<1>5. /\ queue # <<>> /\ initialized /\ line \in Entries /\ line.rec = Head(queue)
      /\ line.rec \in 1..MaxRecords /\ line.rec < next /\ line.rec \notin Recorded
      /\ Whole(Active) /\ Active.size < FileRecords /\ Active.size \in Nat
      /\ Active.ended \/ MaxFiles > 1 => MayFollow(line.prev)
      /\ found \in {"sound", "no newline"}
  BY <1>2, <1>3, LineIsNew
<1>6. /\ Grown(Active, g, line) /\ g.ended = TRUE
      /\ Active.ended => g.lines = Append(Active.lines, line)
  BY <1>3, <1>4, <1>5, ExtendedGrows
<1>7. g # Active /\ g.lines # <<>> /\ Last(g.lines) \in {line, Unreadable}
  <2>1. g.size = Active.size + 1 /\ Active.size \in Nat
    BY <1>4, <1>5 DEF Extended
  <2>2. g # Active
    BY <2>1
  <2> QED
    BY <1>6, <2>2 DEF Grown
<1>8. files' = [files EXCEPT ![0] = g]
  BY <1>2, <1>4
<1>9. /\ EvidenceIsOneChain'
      /\ Recorded' \subseteq written' \cup rotatedOut' \cup Recorded \cup {line.rec}
      /\ Active' = g
      /\ \A prev : (g.lines # <<>> => Linked(Last(g.lines), prev)')
                   /\ (g.lines = <<>> => MayFollow(prev)) => MayFollow(prev)'
  <2>1. /\ Active.ended => MayFollow(line.prev)
        /\ restarts > 0 => restarts' > 0
        /\ \A r \in Recorded : r \in written' => r \in written
    BY <1>2, <1>5
  <2> QED
    BY <1>5, <1>6, <1>8, <2>1, GrowthKeepsChain
<1>10. /\ DOMAIN files' = DOMAIN files
       /\ \A i \in DOMAIN files : files'[i] # NoFile => files'[i] \in Files /\ Whole(files'[i])
       /\ \A i \in 1..(MaxFiles - 1) : files'[i] = files[i]
       /\ \A i \in 1..(MaxFiles - 1) :
             files'[i] # NoFile => files'[i].size = FileRecords /\ files'[i].lines # <<>>
       /\ files'[0] # NoFile /\ files'[0].size > 0 => files'[0].lines # <<>>
  BY <1>5, <1>6, <1>8, GrowthKeepsFiles
<1>11. Recorded' \subseteq Recorded \cup {Head(queue)}
  BY <1>2, <1>5, <1>9 DEF Recorded
<1>12. NumbersRise' /\ queue' \in Seq(1..MaxRecords)
  BY <1>2, <1>5, <1>11, SettleKeepsNumbers
<1>13. JournalTyped'
  <2>1. head' \in Seq(1..MaxRecords)
    BY <1>2, <1>3, <1>5, AppendProperties DEF Hash, Entries
  <2>2. AuditTypeOK'
    BY <1>2, <1>5, <1>10, <1>12, <2>1 DEF JournalTyped, AuditTypeOK
  <2> QED
    BY <1>2, <1>10, <2>2, IdleIsAStep DEF JournalTyped
<1>14. RotationInPlace'
  BY <1>2, <1>10 DEF RotationInPlace
<1>15. HolesAreSetbacks'
  BY <1>2, <1>10, SetbacksCountHoles DEF CountSetback
<1>16. HeadsFit'
  <2>1. Linked(Last(g.lines), Hash(line))'
    BY <1>7 DEF Linked
  <2>2. MayFollow(Hash(line))'
    BY <1>7, <1>9, <2>1
  <2> QED
    BY <1>2, <1>3, <1>5, <2>2 DEF HeadsFit
<1>17. EndsAreKnown'
  BY <1>6, <1>9 DEF EndsAreKnown
<1>18. LossIsObservable'
  <2> SUFFICES ASSUME ~failing, found # "no newline"
               PROVE  written' \subseteq rotatedOut'
                                 \cup UNION {ReadableIn(LinesOf(i)') : i \in DOMAIN files}
    BY <1>2, <1>10 DEF LossIsObservable, ReadableIn
  <2>1. ReadableIn(LinesOf(0)) \cup {line.rec} \subseteq ReadableIn(LinesOf(0)')
    <3>1. Active.ended
      BY <1>5 DEF EndsAreKnown
    <3>2. LinesOf(0)' = Append(LinesOf(0), line)
      <4>1. 0 \in DOMAIN files /\ Active.lines = LinesOf(0) /\ g # NoFile
        BY <1>6, ActiveIs, JournalAssumption DEF Grown, Whole
      <4> QED
        BY <1>6, <1>8, <3>1, <4>1 DEF LinesOf
    <3> QED
      BY <1>5, <3>2, ActiveIs, LinesAre, AppendReads
  <2>2. \A i \in DOMAIN files : i # 0 => LinesOf(i)' = LinesOf(i)
    BY <1>8 DEF LinesOf
  <2>3. written \subseteq rotatedOut \cup UNION {ReadableIn(LinesOf(i)) : i \in DOMAIN files}
    BY DEF LossIsObservable
  <2> QED
    BY <1>2, <1>5, <2>1, <2>2, <2>3, ActiveIs
<1> QED
  BY <1>1, <1>9, <1>12, <1>13, <1>14, <1>15, <1>16, <1>17, <1>18

\* appendFile fails.
LEMMA AppendFileFailsKeeps ==
    ASSUME JournalInv, AppendFileFails
    PROVE  JournalInv'
<1> USE DEF JournalInv
<1>1. CorruptStays'
  BY CorruptKeeps DEF Next, ChainStep
<1>2. PICK g \in Interrupted(Active, step.line) \ {Extended(Active, step.line, TRUE)} :
          files' = [files EXCEPT ![0] = g]
  BY DEF AppendFileFails
<1>3. /\ step.pc = "append" /\ head' = head /\ queue' = Tail(queue) /\ step' = Idle
      /\ step'.pc = "idle" /\ written' = written /\ failing' = TRUE
      /\ UNCHANGED <<rotatedOut, initialized, setbacks, found, next, restarts>>
  BY IdleIsAStep DEF AppendFileFails, HeadAfterFailure, Settle, JournalTyped, AuditTypeOK
<1>4. PICK line : line = step.line
  OBVIOUS
<1>5. /\ queue # <<>> /\ initialized /\ line \in Entries /\ line.rec = Head(queue)
      /\ line.rec \in 1..MaxRecords /\ line.rec < next /\ line.rec \notin Recorded
      /\ Whole(Active) /\ Active.size < FileRecords /\ Active.size \in Nat
      /\ Active.ended \/ MaxFiles > 1 => MayFollow(line.prev)
      /\ found \in {"sound", "no newline"}
  BY <1>3, <1>4, LineIsNew
<1>6. Grown(Active, g, line)
  BY <1>2, <1>4, <1>5, InterruptedGrows
<1>7. /\ EvidenceIsOneChain'
      /\ Recorded' \subseteq written' \cup rotatedOut' \cup Recorded \cup {line.rec}
      /\ Active' = g
      /\ \A prev : (g.lines # <<>> => Linked(Last(g.lines), prev)')
                   /\ (g.lines = <<>> => MayFollow(prev)) => MayFollow(prev)'
  <2>1. /\ Active.ended => MayFollow(line.prev)
        /\ restarts > 0 => restarts' > 0
        /\ \A r \in Recorded : r \in written' => r \in written
    BY <1>3, <1>5
  <2> QED
    BY <1>2, <1>5, <1>6, <2>1, GrowthKeepsChain
<1>8. /\ DOMAIN files' = DOMAIN files
      /\ \A i \in DOMAIN files : files'[i] # NoFile => files'[i] \in Files /\ Whole(files'[i])
      /\ \A i \in 1..(MaxFiles - 1) : files'[i] = files[i]
      /\ \A i \in 1..(MaxFiles - 1) :
            files'[i] # NoFile => files'[i].size = FileRecords /\ files'[i].lines # <<>>
      /\ files'[0] # NoFile /\ files'[0].size > 0 => files'[0].lines # <<>>
  BY <1>2, <1>5, <1>6, GrowthKeepsFiles
<1>9. Recorded' \subseteq Recorded \cup {Head(queue)}
  BY <1>3, <1>5, <1>7 DEF Recorded
<1>10. NumbersRise' /\ queue' \in Seq(1..MaxRecords)
  BY <1>3, <1>5, <1>9, SettleKeepsNumbers
<1>11. JournalTyped'
  <2>1. AuditTypeOK'
    BY <1>3, <1>5, <1>8, <1>10 DEF JournalTyped, AuditTypeOK
  <2> QED
    BY <1>3, <1>8, <2>1, IdleIsAStep DEF JournalTyped
<1>12. RotationInPlace'
  BY <1>3, <1>8 DEF RotationInPlace
<1>13. HolesAreSetbacks'
  BY <1>3, <1>8, SetbacksCountHoles DEF CountSetback
<1>14. HeadsFit'
  <2> SUFFICES ASSUME g.ended \/ MaxFiles > 1
               PROVE  MayFollow(head)'
    BY <1>3, <1>5, <1>7 DEF HeadsFit
  <2>1. PICK h : h = head
    OBVIOUS
  <2>2. CASE g = Active
    <3>1. MayFollow(h)
      BY <1>5, <2>1, <2>2 DEF HeadsFit
    <3>2. ASSUME g.lines # <<>> PROVE Linked(Last(g.lines), h)'
      <4>1. Linked(Last(g.lines), h)
        <5>1. /\ 0 \in DOMAIN files /\ g.lines = LinesOf(0)
              /\ \A k \in DOMAIN files : ~(k < 0)
          BY <2>2, ActiveIs, TypedFacts
        <5> QED
          BY <3>1, <3>2, <5>1 DEF MayFollow
      <4>2. Last(g.lines) # Unreadable => Last(g.lines).rec \in Recorded
        BY <2>2, <3>2, ActiveIs, LinesAre, LineIsRecorded DEF Last
      <4> QED
        BY <1>3, <4>1, <4>2, LinkedStays
    <3> QED
      BY <1>3, <1>7, <2>1, <3>1, <3>2
  <2>3. CASE g # Active
    <3>1. ~g.ended
      <4>1. \E l : g = Extended(Active, l, FALSE)
        BY <1>2, <2>3 DEF Interrupted
      <4> QED
        BY <4>1 DEF Extended
    <3>2. h = line.prev
      BY <1>3, <1>4, <2>1, <3>1 DEF HeadsFit
    <3>3. g.lines # <<>> /\ Last(g.lines) \in {line, Unreadable}
      BY <1>6, <2>3 DEF Grown
    <3>4. line.rec \notin written'
      BY <1>3, <1>5 DEF Recorded
    <3>5. Linked(Last(g.lines), h)'
      BY <3>2, <3>3, <3>4 DEF Linked
    <3> QED
      BY <1>3, <1>7, <2>1, <3>3, <3>5
  <2> QED
    BY <2>2, <2>3
<1>15. EndsAreKnown' /\ LossIsObservable'
  BY <1>3 DEF EndsAreKnown, LossIsObservable
<1> QED
  BY <1>1, <1>7, <1>10, <1>11, <1>12, <1>13, <1>14, <1>15

\* The process dies and starts again.
LEMMA RestartKeeps ==
    ASSUME JournalInv, Restart
    PROVE  JournalInv'
<1> USE DEF JournalInv
<1>1. CorruptStays'
  BY CorruptKeeps DEF Next
<1>2. /\ restarts' = restarts + 1 /\ queue' = <<>> /\ step' = Idle /\ step'.pc = "idle"
      /\ head' = Null /\ initialized' = FALSE /\ failing' = FALSE /\ written' = {}
      /\ CountSetback /\ rotatedOut' = rotatedOut /\ next' = next
      /\ found' = IF ~Verified(Active'.lines) THEN "corrupt"
                  ELSE IF Active'.ended THEN "sound" ELSE "no newline"
  BY IdleIsAStep DEF Restart
<1>3. restarts' > 0 /\ restarts' \in Nat
  <2>1. restarts \in Nat
    BY DEF JournalTyped
  <2>2. restarts' = restarts + 1
    BY <1>2
  <2> QED
    BY <2>1, <2>2
<1>4. /\ EvidenceIsOneChain' /\ \A r \in Recorded' : r < next
      /\ DOMAIN files' = DOMAIN files
      /\ \A i \in DOMAIN files : files'[i] # NoFile => files'[i] \in Files /\ Whole(files'[i])
      /\ \A i \in 1..(MaxFiles - 1) : files'[i] = files[i]
      /\ \A i \in 1..(MaxFiles - 1) :
            files'[i] # NoFile => files'[i].size = FileRecords /\ files'[i].lines # <<>>
      /\ files'[0] # NoFile /\ files'[0].size > 0 => files'[0].lines # <<>>
  <2>1. \A r \in Recorded : r < next
    BY DEF NumbersRise
  <2>2. CASE step.pc # "append"
    <3>1. files' = files
      BY <2>2 DEF Restart
    <3>2. EvidenceIsOneChain' /\ Recorded' \subseteq Recorded
      BY <1>2, <1>3, <3>1, SameFilesSameChain
    <3>3. \A f : Whole(f) => f \in Files
      BY DEF Whole
    <3>4. \A i \in DOMAIN files : files[i] # NoFile => Whole(files[i])
      BY DEF JournalTyped
    <3>5. \A r \in Recorded' : r < next
      BY <2>1, <3>2
    <3> QED
      BY <3>1, <3>2, <3>3, <3>4, <3>5 DEF RotationInPlace
  <2>3. CASE step.pc = "append"
    <3>1. PICK g \in Interrupted(Active, step.line) : files' = [files EXCEPT ![0] = g]
      BY <2>3 DEF Restart
    <3>2. PICK line : line = step.line
      OBVIOUS
    <3>3. /\ line \in Entries /\ line.rec < next /\ Whole(Active) /\ Active.size < FileRecords
          /\ Active.ended => MayFollow(line.prev)
      BY <2>3, <3>2, LineIsNew
    <3>4. Grown(Active, g, line)
      BY <3>1, <3>2, <3>3, InterruptedGrows
    <3>5. /\ EvidenceIsOneChain'
          /\ Recorded' \subseteq written' \cup rotatedOut' \cup Recorded \cup {line.rec}
      BY <1>2, <1>3, <3>1, <3>3, <3>4, GrowthKeepsChain
    <3>6. \A r \in Recorded' : r < next
      BY <1>2, <2>1, <3>3, <3>5 DEF Recorded
    <3> QED
      BY <3>1, <3>3, <3>4, <3>5, <3>6, GrowthKeepsFiles
  <2> QED
    BY <2>2, <2>3
<1>5. HolesAreSetbacks' /\ setbacks' \in 0..MaxFiles
  BY <1>2, <1>4, SetbacksCountHoles
<1>6. JournalTyped'
  <2>1. <<>> \in Seq(1..MaxRecords)
    BY EmptySeq
  <2>2. AuditTypeOK'
    BY <1>2, <1>4, <1>5, <2>1 DEF JournalTyped, AuditTypeOK, Null
  <2> QED
    BY <1>2, <1>3, <1>4, <2>2, IdleIsAStep DEF JournalTyped
<1>7. RotationInPlace'
  BY <1>2, <1>4 DEF RotationInPlace
<1>8. NumbersRise'
  <2>1. Len(queue') = 0
    BY <1>2, EmptySeq
  <2>2. \A i \in 1..Len(queue') : FALSE
    BY <2>1
  <2> QED
    BY <1>2, <1>4, <2>2 DEF NumbersRise
<1>9. HeadsFit'
  <2>1. restarts' # 0
    BY <1>3
  <2> QED
    BY <1>2, <2>1 DEF HeadsFit
<1>10. EndsAreKnown' /\ LossIsObservable'
  BY <1>2 DEF EndsAreKnown, LossIsObservable
<1> QED
  BY <1>1, <1>4, <1>5, <1>6, <1>7, <1>8, <1>9, <1>10

\* What rotation has removed leaves the files full, but for a hole for each setback.
LEMMA FullButForHoles ==
    ASSUME JournalInv
    PROVE  RetainsRecentEvidence
<1> USE DEF JournalInv
<1> SUFFICES ASSUME rotatedOut # {}
             PROVE  Cardinality(FullFiles) + setbacks >= MaxFiles - 1
  BY DEF RetainsRecentEvidence
<1> DEFINE M == MaxFiles
           full == (1..(M - 1)) \ Holes(M)
<1>1. /\ M \in 1..10 /\ M \in Nat /\ DOMAIN files = 0..(M - 1) /\ setbacks \in Nat
      /\ step.slot \in 0..(M - 1)
  BY TypedFacts
<1>2. /\ IsFiniteSet(1..(M - 1)) /\ Cardinality(1..(M - 1)) = M - 1
      /\ IsFiniteSet(Holes(M)) /\ Cardinality(Holes(M)) \in Nat
  <2>1. M \in 1..MaxFiles
    BY <1>1
  <2> QED
    BY <1>1, <2>1, FS_Interval, HolesAreFew
<1>3. Cardinality(Holes(M)) <= setbacks + (IF step.pc = "rename" THEN 1 ELSE 0)
  <2>1. Reached(M) /\ M \in 1..MaxFiles /\ M > step.slot
    BY <1>1 DEF Reached
  <2> QED
    BY <2>1 DEF HolesAreSetbacks
<1>4. IsFiniteSet(full) /\ Cardinality(full) = (M - 1) - Cardinality(Holes(M))
  <2>1. (1..(M - 1)) \cap Holes(M) = Holes(M)
    BY DEF Holes
  <2>2. /\ IsFiniteSet(full)
        /\ Cardinality(full) = Cardinality(1..(M - 1)) - Cardinality((1..(M - 1)) \cap Holes(M))
    BY <1>2, FS_Difference
  <2> QED
    BY <1>2, <2>1, <2>2
<1>5. IsFiniteSet(FullFiles) /\ Cardinality(FullFiles) \in Nat
  <2>1. IsFiniteSet(0..(M - 1)) /\ FullFiles \in SUBSET (0..(M - 1))
    BY <1>1, FS_Interval DEF FullFiles
  <2> QED
    BY <2>1, FS_Subset, FS_CardinalityType
<1>6. \A i \in full : /\ i \in DOMAIN files /\ i # 0
                    /\ files[i] # NoFile /\ files[i].size = FileRecords
  <2>1. \A i \in full : i \in 1..(M - 1) /\ files[i] # NoFile
    BY DEF Holes
  <2> QED
    BY <1>1, <2>1 DEF RotationInPlace
<1>7. CASE step.pc # "rename"
  <2>1. full \in SUBSET FullFiles
    BY <1>6 DEF FullFiles
  <2>2. Cardinality(full) <= Cardinality(FullFiles)
    BY <1>5, <2>1, FS_Subset
  <2> QED
    BY <1>1, <1>2, <1>3, <1>4, <1>5, <1>7, <2>2
<1>8. CASE step.pc = "rename"
  <2>1. 0 \in FullFiles /\ 0 \notin full
    BY <1>1, <1>6, <1>8 DEF RotationInPlace, FullFiles
  <2>2. full \cup {0} \in SUBSET FullFiles
    BY <1>6, <2>1 DEF FullFiles
  <2>3. Cardinality(full \cup {0}) = Cardinality(full) + 1
    BY <1>4, <2>1, FS_AddElement
  <2>4. Cardinality(full \cup {0}) <= Cardinality(FullFiles)
    BY <1>5, <2>2, FS_Subset
  <2> QED
    BY <1>1, <1>2, <1>3, <1>4, <1>5, <1>8, <2>3, <2>4
<1> QED
  BY <1>7, <1>8

\* The journal starts without a file.
LEMMA JournalStarts ==
    ASSUME Init
    PROVE  JournalInv
<1>1. /\ files = [i \in 0..(MaxFiles - 1) |-> NoFile] /\ queue = <<>> /\ step = Idle
      /\ step.pc = "idle" /\ head = Null /\ initialized = FALSE /\ failing = FALSE
      /\ written = {} /\ rotatedOut = {} /\ setbacks = 0 /\ found = "sound" /\ next = 1
      /\ restarts = 0
  BY DEF Init, Idle
<1>2. /\ MaxFiles \in 1..10 /\ DOMAIN files = 0..(MaxFiles - 1) /\ 0 \in DOMAIN files
      /\ \A i \in DOMAIN files : files[i] = NoFile /\ LinesOf(i) = <<>>
      /\ \A i \in 0..(MaxFiles - 1) : files[i] = NoFile
      /\ Active = EmptyFile
  <2>1. MaxFiles \in 1..10 /\ 0 \in 0..(MaxFiles - 1)
    BY JournalAssumption
  <2> QED
    BY <1>1, <2>1 DEF LinesOf, Active
<1>3. Recorded = {}
  BY <1>1, <1>2, NothingIsRead DEF Recorded
<1>4. JournalTyped
  <2>1. /\ <<>> \in Seq(1..MaxRecords) /\ Idle \in Steps
    BY EmptySeq, IdleIsAStep
  <2>2. setbacks \in 0..MaxFiles /\ next \in Nat \ {0} /\ restarts \in Nat
    BY <1>1, <1>2
  <2>3. AuditTypeOK
    BY <1>1, <1>2, <2>1, <2>2 DEF AuditTypeOK, Null
  <2> QED
    BY <1>1, <1>2, <2>1, <2>2, <2>3 DEF JournalTyped
<1>5. RotationInPlace
  BY <1>1, <1>2 DEF RotationInPlace
<1>6. HolesAreSetbacks
  <2>1. \A i \in 1..MaxFiles : ~Reached(i)
    <3>1. \A i \in 1..MaxFiles : i = MaxFiles \/ i \in 0..(MaxFiles - 1)
      BY <1>2
    <3> QED
      BY <1>1, <1>2, <3>1 DEF Reached
  <2> QED
    BY <2>1 DEF HolesAreSetbacks
<1>7. NumbersRise
  <2>1. \A i \in 1..Len(queue) : FALSE
    <3>1. Len(queue) = 0
      BY <1>1, EmptySeq
    <3> QED
      BY <3>1
  <2> QED
    BY <1>1, <1>3, <2>1 DEF NumbersRise
<1>8. HeadsFit
  BY <1>1, <1>2 DEF HeadsFit
<1>9. EndsAreKnown /\ EvidenceIsOneChain /\ LossIsObservable
  BY <1>1, <1>2 DEF EndsAreKnown, EmptyFile, EvidenceIsOneChain, LossIsObservable
<1>10. CorruptStays
  BY <1>1 DEF CorruptStays
<1> QED
  BY <1>4, <1>5, <1>6, <1>7, <1>8, <1>9, <1>10 DEF JournalInv

LEMMA JournalKeeps ==
    ASSUME JournalInv, [Next]_vars
    PROVE  JournalInv'
<1>1. CASE UNCHANGED vars
  <2> USE DEF JournalInv
  <2>1. /\ files' = files /\ queue' = queue /\ step' = step /\ head' = head
        /\ initialized' = initialized /\ failing' = failing /\ written' = written
        /\ rotatedOut' = rotatedOut /\ setbacks' = setbacks /\ found' = found
        /\ next' = next /\ restarts' = restarts
    BY <1>1 DEF vars
  <2>2. /\ JournalTyped' /\ RotationInPlace' /\ HolesAreSetbacks'
    BY <2>1 DEF JournalTyped, AuditTypeOK, RotationInPlace, Active, HolesAreSetbacks, Holes, Reached
  <2>3. /\ EvidenceIsOneChain' /\ (\A prev : MayFollow(prev) => MayFollow(prev)')
        /\ Active' = Active /\ Recorded' \subseteq Recorded
    BY <2>1, SameFilesSameChain
  <2>4. NumbersRise' /\ HeadsFit' /\ EndsAreKnown'
    BY <2>1, <2>3 DEF NumbersRise, HeadsFit, EndsAreKnown
  <2>5. CorruptStays' /\ LossIsObservable'
    BY <1>1, <2>1, CorruptKeeps DEF LossIsObservable, LinesOf
  <2> QED
    BY <2>2, <2>3, <2>4, <2>5
<1> QED
  BY <1>1, AppendRecordKeeps, InitializeKeeps, WriteLineKeeps, RotateUnlinkKeeps,
     RotateRenameKeeps, AppendFileKeeps, AppendFileFailsKeeps, FileOperationFailsKeeps,
     RestartKeeps DEF Next, ChainStep

(***************************************************************************)
(* The parts of the run together.                                          *)
(***************************************************************************)
CommitIsKnown == commit \in Commits \cup {NoCommit}

RecordsInv ==
    /\ IndexInv /\ CalibrationInv /\ AgentInv /\ ObservationInv
    /\ CommitIsKnown /\ JournalInv

LEMMA InitiallyRecorded == RecordsInit => RecordsInv
<1> SUFFICES ASSUME RecordsInit PROVE RecordsInv
  OBVIOUS
<1> USE NoneAssumption, ValidationAssumption DEF RecordsInit, ValidationInit
<1>1. IndexInv
  <2>1. Registered = {}
    BY DEF Registered
  <2> QED
    BY <2>1, FS_EmptySet DEF IndexInv, EvidenceIsIndexedOnce, BuildP0P6Portfolio
<1>2. CalibrationInv
  BY DEF CalibrationInv, CalibrationRecords, CalibrationStates, Rounds
<1>3. AgentInv
  BY DEF AgentInv, Agents
<1>4. ObservationInv
  BY DEF ObservationInv
<1>5. CommitIsKnown
  BY DEF ReadinessInit, CommitIsKnown
<1>6. JournalInv
  BY JournalStarts DEF RecordsInit
<1> QED
  BY <1>1, <1>2, <1>3, <1>4, <1>5, <1>6 DEF RecordsInv

\* A step of the run is one of its parts, and leaves the others alone.
LEMMA RecordStepsAreOfOne ==
    ASSUME [RecordsNext]_recordVars
    PROVE  /\ [IndexNext]_indexVars /\ [CalibrationNext]_calibrationVars
           /\ [AgentNext]_agentVars /\ [ObservationNext]_observationVars
           /\ [ReadinessNext]_readinessVars /\ [Next]_vars
<1> USE DEF Of, recordVars
<1>1. [IndexNext]_indexVars /\ [CalibrationNext]_calibrationVars
  BY DEF RecordsNext, validationVars, IndexNext, Register, CalibrationNext, Provision,
     BeginCalibration, Capture, Review, Invalidate, Retry, AgentNext, Evaluate,
     CaptureScenario, ObservationNext, Observe, SnapshotRead, ReadFails
<1>2. [AgentNext]_agentVars /\ [ObservationNext]_observationVars
  BY DEF RecordsNext, validationVars, IndexNext, Register, CalibrationNext, Provision,
     BeginCalibration, Capture, Review, Invalidate, Retry, AgentNext, Evaluate,
     CaptureScenario, ObservationNext, Observe, SnapshotRead, ReadFails
<1>3. [ReadinessNext]_readinessVars /\ [Next]_vars
  BY DEF RecordsNext, Next
<1> QED
  BY <1>1, <1>2, <1>3

LEMMA RecordsInvariant == RecordsSpec => []RecordsInv
<1>1. RecordsInv /\ [RecordsNext]_recordVars => RecordsInv'
  <2> SUFFICES ASSUME RecordsInv, [RecordsNext]_recordVars PROVE RecordsInv'
    OBVIOUS
  <2>1. IndexInv'
    <3>1. CASE UNCHANGED indexVars
      BY <3>1 DEF RecordsInv, indexVars, IndexInv, EvidenceIsIndexedOnce, Registered,
         BuildP0P6Portfolio
    <3> QED
      BY <3>1, RecordStepsAreOfOne, RegisterKeeps DEF RecordsInv, IndexNext
  <2>2. CalibrationInv'
    <3>1. CASE UNCHANGED calibrationVars
      BY <3>1 DEF RecordsInv, calibrationVars, CalibrationInv
    <3> QED
      BY <3>1, RecordStepsAreOfOne, CalibrationKeeps DEF RecordsInv
  <2>3. AgentInv'
    <3>1. CASE UNCHANGED agentVars
      BY <3>1 DEF RecordsInv, agentVars, AgentInv
    <3> QED
      BY <3>1, RecordStepsAreOfOne, AgentKeeps DEF RecordsInv
  <2>4. ObservationInv'
    <3>1. CASE UNCHANGED observationVars
      BY <3>1 DEF RecordsInv, observationVars, ObservationInv
    <3> QED
      BY <3>1, RecordStepsAreOfOne, ObservationKeeps DEF RecordsInv
  <2>5. CommitIsKnown'
    BY RecordStepsAreOfOne DEF RecordsInv, CommitIsKnown, readinessVars, ReadinessNext, Freeze,
       HarnessReviewed, EquipmentReviewed, Provisioned, Calibrated, SessionReviewed,
       SessionWithdrawn, ThresholdsReviewed, EvidenceCompleted, ContractChanges
  <2>6. JournalInv'
    BY RecordStepsAreOfOne, JournalKeeps DEF RecordsInv
  <2> QED
    BY <2>1, <2>2, <2>3, <2>4, <2>5, <2>6 DEF RecordsInv
<1> QED
  BY InitiallyRecorded, <1>1, PTL DEF RecordsSpec

\* What is shown ready rests on records of the one build that is frozen.
LEMMA ReadyIsOfTheBuild == CommitIsKnown => ReadyIsOfOneBuild
<1> SUFFICES ASSUME CommitIsKnown, NEW s \in Scenarios, Ready(s)
             PROVE  /\ commit \in Commits /\ commit \in sessions
                    /\ \A t \in Needs[s].targets : provisioned[t] = commit
                    /\ \A g \in Needs[s].groups : calibrated[g] = commit
  BY DEF ReadyIsOfOneBuild
<1>1. /\ ~(commit = NoCommit) /\ TimeSyncReady
      /\ \A t \in Needs[s].targets : OfTheBuild(provisioned[t])
      /\ \A g \in Needs[s].groups : OfTheBuild(calibrated[g])
  BY DEF Ready, PreExecutionBlockers
<1> QED
  BY <1>1 DEF CommitIsKnown, TimeSyncReady, SelectedTimeSession, OfTheBuild

\* For any people, records, packages, builds and scenarios, and whatever order reviews,
\* captures, retries and registrations come in: evidence is indexed once and within the
\* bound, a verdict is independent and of the last capture, what counts as captured was
\* ready, and what is shown ready is of one build.
THEOREM EvidenceStaysReviewed == RecordsSpec => []EvidenceIsReviewed
<1>1. RecordsInv => EvidenceIsReviewed
  <2> SUFFICES ASSUME RecordsInv PROVE EvidenceIsReviewed
    OBVIOUS
  <2>1. EvidenceIsIndexedOnce
    BY DEF RecordsInv, IndexInv
  <2>2. VerdictsAreIndependent
    BY NoneAssumption DEF RecordsInv, CalibrationInv, VerdictsAreIndependent
  <2>3. CapturesAreReady
    BY NoneAssumption DEF RecordsInv, AgentInv, CapturesAreReady, BuildP0P6Portfolio
  <2>4. ValidationTypeOK
    <3>1. digests \subseteq Packages
      BY NoneAssumption DEF RecordsInv, IndexInv, Registered, Evidence
    <3> QED
      BY <3>1 DEF RecordsInv, IndexInv, CalibrationInv, AgentInv, Agents, ObservationInv,
         Events, ValidationTypeOK
  <2> QED
    BY <2>1, <2>2, <2>3, <2>4, ReadyIsOfTheBuild DEF RecordsInv, EvidenceIsReviewed
<1> QED
  BY RecordsInvariant, <1>1, PTL

\* For any number of files, sizes, records and restarts, and whatever fails or is cut short
\* between two file operations: the files that are retained are one chain, within maxBytes,
\* rotation removes no more than the files it has no room for, and a record that counts as
\* written can be read back or was rotated out unless the status shows a failure.
THEOREM JournalStaysKept == RecordsSpec => []JournalIsKept
<1>1. RecordsInv => JournalIsKept
  BY FullButForHoles DEF RecordsInv, JournalInv, JournalTyped, JournalIsKept, JournalIsOneChain,
     EvidenceIsKept
<1> QED
  BY RecordsInvariant, <1>1, PTL

\* Of the reviews that say nothing against a scenario, fewer say no more.
LEMMA FewerReviewsMakeNothingReady ==
    ASSUME NEW s \in Scenarios, Ready(s)', ~More
    PROVE  Ready(s)
<1>1. /\ ~(commit' = NoCommit) /\ harness' /\ TimeSyncReady'
      /\ \A r \in Needs[s].roles : equipment'[r]
      /\ \A t \in Needs[s].targets : OfTheBuild(provisioned[t])'
      /\ \A g \in Needs[s].groups : OfTheBuild(calibrated[g])'
  BY DEF Ready, PreExecutionBlockers
<1>2. commit = commit' /\ harness /\ thresholds /\ sessions' \subseteq sessions
  BY <1>1 DEF More, TimeSyncReady
<1>3. \A r \in Needs[s].roles : equipment[r]
  BY <1>1, ReadinessAssumption DEF More
<1>4. \A t \in Needs[s].targets : OfTheBuild(provisioned[t])
  BY <1>1, <1>2, ReadinessAssumption DEF More, OfTheBuild
<1>5. \A g \in Needs[s].groups : OfTheBuild(calibrated[g])
  BY <1>1, <1>2, ReadinessAssumption DEF More, OfTheBuild
<1>6. TimeSyncReady
  BY <1>1, <1>2 DEF TimeSyncReady, SelectedTimeSession
<1> QED
  BY <1>1, <1>2, <1>3, <1>4, <1>5, <1>6 DEF Ready, PreExecutionBlockers

\* What has been recorded stands: a corrupt journal is left as it was found, registered
\* evidence and approved calibrations do not change, and no scenario becomes ready by a
\* review that is taken back.
THEOREM RecordsDoStand == RecordsSpec => RecordsStand
<1>1. RecordsInv /\ [RecordsNext]_recordVars => [found = "corrupt" => files' = files]_vars
  BY RecordStepsAreOfOne, CorruptKeeps DEF RecordsInv, JournalInv
<1>2. RecordsInv /\ [RecordsNext]_recordVars =>
          [/\ \A id \in Registered : store'[id] = store[id]
           /\ calibration.state = "approved" =>
                 calibration'.artifact = calibration.artifact]_validationVars
  <2> SUFFICES ASSUME RecordsInv, [RecordsNext]_recordVars
               PROVE  /\ \A id \in Registered : store'[id] = store[id]
                      /\ calibration.state = "approved" =>
                            calibration'.artifact = calibration.artifact
    OBVIOUS
  <2>1. \A id \in Registered : store'[id] = store[id]
    BY RecordStepsAreOfOne DEF RecordsInv, IndexInv, IndexNext, indexVars, Register,
       RegistrationCode, Registered
  <2>2. ASSUME calibration.state = "approved"
        PROVE  calibration'.artifact = calibration.artifact
    BY <2>2, RecordStepsAreOfOne DEF RecordsInv, CalibrationInv, CalibrationRecords,
       calibrationVars, CalibrationNext, Provision, BeginCalibration, Transition, Capture,
       Review, Invalidate, Retry
  <2> QED
    BY <2>1, <2>2
<1>3. RecordsInv /\ [RecordsNext]_recordVars =>
          [(\E s \in Scenarios : Ready(s)' /\ ~Ready(s)) => More]_readinessVars
  BY FewerReviewsMakeNothingReady
<1> QED
  BY RecordsInvariant, <1>1, <1>2, <1>3, PTL
     DEF RecordsSpec, RecordsStand, CorruptJournalIsLeftAlone, EvidenceStands, ReadinessIsEarned
=============================================================================

---------------------------- MODULE AuditJournal ----------------------------
(***************************************************************************)
(* The audit journal of the risk engine (services/risk-engine/src/         *)
(* audit-journal.ts, class BoundedAuditJournal): events queued on a promise *)
(* chain are appended, one after the other, to a hash-chained JSONL file   *)
(* that is rotated over a bounded number of files.  Every await of a file  *)
(* operation is a step: the operation may fail, and the process may die    *)
(* before or during it.                                                    *)
(*                                                                         *)
(* A record is its number.  entryHash is collision-free, so that the hash  *)
(* of an entry is the sequence of records of the chain that leads to it,   *)
(* and null is <<>>.  Legacy v1 lines and the counters integrityErrors and *)
(* rotations are left out; pending is Len(queue).                          *)
(***************************************************************************)
EXTENDS Naturals, SequencesExt, FiniteSets

CONSTANTS MaxFiles,      \* maxFiles
          FileRecords,   \* maxBytes, in records
          NoFile,        \* a path that does not exist
          Unreadable,    \* a line that is not valid JSON
          MaxRecords,    \* bound: events
          MaxRestarts    \* bound: restarts of the process

Entries == [prev : Seq(1..MaxRecords), rec : 1..MaxRecords]
Files == [lines : Seq(Entries \cup {Unreadable}), ended : BOOLEAN, size : 0..FileRecords]

ASSUME JournalAssumption ==
    /\ MaxFiles \in 1..10
    /\ FileRecords \in Nat \ {0}
    /\ MaxRecords \in Nat
    /\ MaxRestarts \in Nat
    /\ NoFile \notin Files /\ Unreadable \notin Entries

VARIABLES files,        \* path, path.1, ...: files[0], files[1], ...
          queue,        \* the appends that have not settled
          step,         \* where the first of them is
          head,         \* integrityHead
          initialized,
          failing,      \* writeErrors > 0
          written,      \* history: the records this process counts as written
          rotatedOut,   \* history: records in files that rotation removed
          setbacks,     \* history: rotations cut short between two renames,
                        \* counted up to MaxFiles
          found,        \* history: the active file this process started on
          next,         \* number of the next event
          restarts

fileVars == <<files, rotatedOut>>
processVars == <<head, initialized, failing, written, setbacks, found,
                 restarts>>
vars == <<files, queue, step, head, initialized, failing, written, rotatedOut,
          setbacks, found, next, restarts>>

Null == <<>>

Entry(prev, rec) == [prev |-> prev, rec |-> rec]

Hash(entry) == Append(entry.prev, entry.rec)

\* `size' counts the lines ever written to the file, `ended' says that its
\* last line has its newline.
EmptyFile == [lines |-> <<>>, ended |-> TRUE, size |-> 0]

Idle == [pc |-> "idle", line |-> Entry(Null, 0), slot |-> 0]

Init ==
    /\ files = [i \in 0..(MaxFiles - 1) |-> NoFile]
    /\ queue = <<>>
    /\ step = Idle
    /\ head = Null
    /\ initialized = FALSE
    /\ failing = FALSE
    /\ written = {}
    /\ rotatedOut = {}
    /\ setbacks = 0
    /\ found = "sound"
    /\ next = 1
    /\ restarts = 0

Active == IF files[0] = NoFile THEN EmptyFile ELSE files[0]

ReadableIn(lines) ==
    {lines[i].rec : i \in {j \in DOMAIN lines : lines[j] # Unreadable}}

\* verifyAuditJournalText
Verified(lines) ==
    \A i \in DOMAIN lines :
        /\ lines[i] # Unreadable
        /\ i > 1 => lines[i].prev = Hash(lines[i - 1])

\* The text of a file after a line, or a part of it, is added at its end: a
\* line that has no newline yet is continued, and does not parse then.
Extended(file, line, ended) ==
    [lines |-> IF file.ended THEN Append(file.lines, line)
               ELSE Front(file.lines) \o <<Unreadable>>,
     ended |-> ended,
     size  |-> file.size + 1]

\* What an append may leave in the file before it fails or the process dies:
\* nothing, a part of the line, the line without its newline, all of it.
Interrupted(file, line) ==
    {file, Extended(file, Unreadable, FALSE), Extended(file, line, FALSE),
     Extended(file, line, TRUE)}

-----------------------------------------------------------------------------

\* Mutant: a failed append stays at the head of the queue.
SettleOrRetry(ok) ==
    /\ queue' = IF ok THEN Tail(queue) ELSE queue
    /\ step' = Idle
    /\ written' = IF ok THEN written \cup {Head(queue)} ELSE written
    /\ failing' = (failing \/ ~ok)

\* The two reactions at the end of append: the chain goes on in both cases.
Settle(ok) ==
    /\ queue' = Tail(queue)
    /\ step' = Idle
    /\ written' = IF ok THEN written \cup {Head(queue)} ELSE written
    /\ failing' = (failing \/ ~ok)

\* append, called by EdgeEventBuffer.ingest
AppendRecord ==
    /\ next <= MaxRecords
    /\ queue' = Append(queue, next)
    /\ next' = next + 1
    /\ UNCHANGED <<fileVars, step, processVars>>

\* Mutant: the flag is set before the file is verified.
InitializeFirst ==
    /\ step.pc = "idle" /\ queue # <<>>
    /\ ~initialized
    /\ initialized' = TRUE
    /\ IF Verified(Active.lines)
       THEN /\ head' = IF Active.lines = <<>> THEN head
                       ELSE Hash(Last(Active.lines))
            /\ UNCHANGED <<queue, step, written, failing>>
       ELSE Settle(FALSE) /\ UNCHANGED head
    /\ UNCHANGED <<fileVars, setbacks, found, next, restarts>>

\* initializeIntegrityHead: it is tried again by every append until it
\* succeeds.
InitializeIntegrityHead ==
    /\ step.pc = "idle" /\ queue # <<>>
    /\ ~initialized
    /\ IF Verified(Active.lines)
       THEN /\ initialized' = TRUE
            /\ head' = IF Active.lines = <<>> THEN head
                       ELSE Hash(Last(Active.lines))
            /\ UNCHANGED <<queue, step, written, failing>>
       ELSE Settle(FALSE) /\ UNCHANGED <<initialized, head>>
    /\ UNCHANGED <<fileVars, setbacks, found, next, restarts>>

MustRotate == Active.size + 1 > FileRecords

\* Mutant: the most recent rotated file is removed.
OldestSlotIsOne == 1

OldestSlot == MaxFiles - 1

\* append and writeLine up to the decision to rotate: the line is made, with
\* the head of this moment, before the rotation.
WriteLine ==
    /\ step.pc = "idle" /\ queue # <<>>
    /\ initialized
    /\ step' = [pc |-> IF MustRotate THEN "unlink" ELSE "append",
                line |-> Entry(head, Head(queue)), slot |-> MaxFiles - 1]
    /\ UNCHANGED <<fileVars, queue, processVars, next>>

\* rotate: the oldest file goes; with a single file that is all.
RotateUnlink ==
    LET oldest == files[OldestSlot]
    IN  /\ step.pc = "unlink"
        /\ files' = [files EXCEPT ![OldestSlot] = NoFile]
        /\ rotatedOut' = IF oldest = NoFile THEN rotatedOut
                         ELSE rotatedOut \cup ReadableIn(oldest.lines)
        /\ IF MaxFiles = 1
           THEN head' = Null /\ step' = [step EXCEPT !.pc = "append"]
           ELSE /\ step' = [step EXCEPT !.pc = "rename", !.slot = @ - 1]
                /\ UNCHANGED head
        /\ UNCHANGED <<queue, initialized, failing, written, setbacks, found,
                       next, restarts>>

\* rotate: one rename, from the oldest file that stays to the active one.
RotateRename ==
    /\ step.pc = "rename"
    /\ files' = IF files[step.slot] = NoFile THEN files
                ELSE [files EXCEPT ![step.slot + 1] = files[step.slot],
                                   ![step.slot] = NoFile]
    /\ step' = IF step.slot = 0 THEN [step EXCEPT !.pc = "append"]
               ELSE [step EXCEPT !.slot = @ - 1]
    /\ UNCHANGED <<rotatedOut, queue, processVars, next>>

\* appendFile succeeds
AppendFile ==
    /\ step.pc = "append"
    /\ files' = [files EXCEPT ![0] = Extended(Active, step.line, TRUE)]
    /\ head' = Hash(step.line)
    /\ Settle(TRUE)
    /\ UNCHANGED <<rotatedOut, initialized, setbacks, found, next, restarts>>

\* Mutant: the head moves on before the line is written.
HeadAfterFailureMoved == Hash(step.line)

HeadAfterFailure == head

\* appendFile fails (the disk is full) after a part of the line.
AppendFileFails ==
    /\ step.pc = "append"
    /\ \E file \in Interrupted(Active, step.line) \
                     {Extended(Active, step.line, TRUE)} :
          files' = [files EXCEPT ![0] = file]
    /\ head' = HeadAfterFailure
    /\ Settle(FALSE)
    /\ UNCHANGED <<rotatedOut, initialized, setbacks, found, next, restarts>>

CountSetback ==
    setbacks' = IF step.pc = "rename" /\ setbacks < MaxFiles
                THEN setbacks + 1 ELSE setbacks

\* mkdir, stat, readFile, unlink or rename fails.
FileOperationFails ==
    /\ queue # <<>>
    /\ step.pc # "append"
    /\ Settle(FALSE)
    /\ CountSetback
    /\ UNCHANGED <<fileVars, head, initialized, found, next, restarts>>

\* The process dies and starts again, with the queue lost and nothing checked.
Restart ==
    /\ restarts < MaxRestarts
    /\ IF step.pc = "append"
       THEN \E file \in Interrupted(Active, step.line) :
               files' = [files EXCEPT ![0] = file]
       ELSE UNCHANGED files
    /\ found' = IF ~Verified(Active'.lines) THEN "corrupt"
                ELSE IF Active'.ended THEN "sound" ELSE "no newline"
    /\ restarts' = restarts + 1
    /\ queue' = <<>>
    /\ step' = Idle
    /\ head' = Null
    /\ initialized' = FALSE
    /\ failing' = FALSE
    /\ written' = {}
    /\ CountSetback
    /\ UNCHANGED <<rotatedOut, next>>

ChainStep ==
    \/ InitializeIntegrityHead
    \/ WriteLine
    \/ RotateUnlink
    \/ RotateRename
    \/ AppendFile
    \/ AppendFileFails
    \/ FileOperationFails

Next == AppendRecord \/ ChainStep \/ Restart

Spec == Init /\ [][Next]_vars

\* Every file operation returns, with a result or with an error.
FairSpec == Spec /\ WF_vars(ChainStep)

-----------------------------------------------------------------------------
(* Properties *)

\* The journal's variables have the shapes the code gives them, and no file
\* grows beyond maxBytes.
AuditTypeOK ==
    /\ DOMAIN files = 0..(MaxFiles - 1)
    /\ \A i \in DOMAIN files : files[i] = NoFile \/ files[i] \in Files
    /\ queue \in Seq(1..MaxRecords)
    /\ step.pc \in {"idle", "unlink", "rename", "append"}
    /\ step.pc # "idle" => queue # <<>> /\ initialized
    /\ head \in Seq(1..MaxRecords)
    /\ initialized \in BOOLEAN /\ failing \in BOOLEAN
    /\ written \cup rotatedOut \subseteq 1..MaxRecords
    /\ setbacks \in 0..MaxFiles
    /\ found \in {"sound", "no newline", "corrupt"}

\* What is read of a path.
LinesOf(i) == IF files[i] = NoFile THEN <<>> ELSE files[i].lines

\* Nothing is retained between the files i and j, of which i is the older one.
Adjoin(i, j) == j < i /\ \A k \in DOMAIN files : j < k /\ k < i => LinesOf(k) = <<>>

\* A line of the hash chain may follow another one.  Only a restart that found no
\* active file starts a new chain, and only an entry whose append was reported as
\* failed is passed over.
Linked(earlier, prev) ==
    \/ earlier = Unreadable
    \/ prev = Hash(earlier)
    \/ prev = Null /\ restarts > 0
    \/ prev = earlier.prev /\ earlier.rec \notin written

Follows(later, earlier) == later = Unreadable \/ Linked(earlier, later.prev)

\* The retained files are one chain: across files and across failed, partial
\* and interrupted appends and rotations, an entry that follows another links
\* to it.
EvidenceIsOneChain ==
    \A i \in DOMAIN files :
        LinesOf(i) # <<>> =>
            /\ \A n \in 1..(Len(LinesOf(i)) - 1) : Follows(LinesOf(i)[n + 1], LinesOf(i)[n])
            /\ \A j \in DOMAIN files :
                  Adjoin(i, j) /\ LinesOf(j) # <<>> =>
                      Follows(LinesOf(j)[1], Last(LinesOf(i)))

\* The journal: files within maxBytes that are one chain.
JournalIsOneChain == AuditTypeOK /\ EvidenceIsOneChain

FullFiles == {i \in DOMAIN files : files[i] # NoFile /\ files[i].size = FileRecords}

\* Once rotation has removed anything, maxFiles - 1 full files are retained;
\* a rotation that fails or is interrupted, and is done again on files it has
\* already moved, costs one file more and no other evidence.
RetainsRecentEvidence ==
    rotatedOut # {} => Cardinality(FullFiles) + setbacks >= MaxFiles - 1

\* While auditStatus() shows no write error, every record it counts as written
\* can be read back or has been rotated out, unless this process continued a
\* last line that had lost its newline.
LossIsObservable ==
    ~failing /\ found # "no newline" =>
        written \subseteq rotatedOut \cup UNION {ReadableIn(LinesOf(i)) : i \in DOMAIN files}

\* No evidence goes away but by rotation, and that no faster than the files allow,
\* without the status showing it.
EvidenceIsKept == RetainsRecentEvidence /\ LossIsObservable

\* A process that starts on a corrupt active file leaves the journal as it is
\* (AUDIT_JOURNAL_V006.md: "degrades evidence persistence rather than silently
\* appending trusted-looking data").
CorruptJournalIsLeftAlone == [][found = "corrupt" => files' = files]_vars

\* Every queued append settles: a failure, or a journal that can no longer be
\* written, does not hold up the appends behind it.
AppendsSettle == (queue # <<>>) ~> (queue = <<>>)

=============================================================================

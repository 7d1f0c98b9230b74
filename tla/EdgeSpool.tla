----------------------------- MODULE EdgeSpool ------------------------------
(***************************************************************************)
(* The store-and-forward spool of the ESP32 firmware                       *)
(* (edge/esp32/kingmast_edge/kingmast_edge.ino): packets whose live POST   *)
(* failed are appended to segments on the SD card, and the oldest segment  *)
(* is posted to the Pi history gateway after a live POST succeeded.  The   *)
(* firmware runs one loop; a POST blocks it.  Power may fail at any time   *)
(* and the card may fail at any file operation.                            *)
(*                                                                         *)
(* A packet is its number; timestamps grow with it, so that segment names  *)
(* (timestamp, sequence) sort as the packets that created the segments.    *)
(***************************************************************************)
EXTENDS Segments

CONSTANTS SegmentRecords,   \* SD_SPOOL_SEGMENT_MAX_RECORDS
          Quota,            \* sdSpoolQuotaBytes, in records
          CardTotal,        \* SD.totalBytes, in records
          OtherUse,         \* what else the card holds
          Reserve,          \* SD_RESERVE_PERCENT of the card
          WriteFaults,      \* card faults: subset of Faults
          MaxPackets        \* bound: packets that fail live delivery

Faults == {"no-open", "empty", "short"}

ASSUME SpoolAssumption ==
    /\ {SegmentRecords, Quota, MaxPackets} \subseteq Nat \ {0}
    /\ {CardTotal, OtherUse, Reserve} \subseteq Nat
    /\ WriteFaults \subseteq Faults

VARIABLES segs,      \* the files in /kingmast/spool
          current,   \* currentSpoolPath
          count,     \* currentSpoolRecords
          sdReady,
          posting,   \* the history POST under way, or <<>>
          next       \* number of the next packet

spoolVars == <<segs, current, count, sdReady, posting, next>>

SpoolInit ==
    /\ segs = NoFiles
    /\ current = NoSegment
    /\ count = 0
    /\ sdReady = TRUE
    /\ posting = <<>>
    /\ next = 1

\* pruneSpool's stopping condition.
Fits(files, incoming) ==
    /\ Used(files) + incoming <= Quota
    /\ OtherUse + Used(files) + Reserve + incoming <= CardTotal

PruneSpool(files, cur, incoming) ==
    LET left == Pruned(files, cur)
    IN  LeastPruned(left, {f \in left : Fits(f, incoming)})

CurrentIn(files, cur) == IF cur \in DOMAIN files THEN cur ELSE NoSegment

\* markSdUnavailable
MarkSdUnavailable ==
    /\ sdReady' = FALSE
    /\ current' = NoSegment
    /\ count' = 0

\* The directory once the file to append to is open: pruned for one record,
\* with a new segment when there is no current one or it is full.
Kept == PruneSpool(segs, current, 1)

MustRoll ==
    LET cur == CurrentIn(Kept, current)
    IN  \/ cur = NoSegment
        \/ Len(Kept[cur]) + 1 > SegmentRecords
        \/ count >= SegmentRecords

Target == IF MustRoll THEN next ELSE current

Opened == IF MustRoll THEN Create(Kept, next) ELSE Kept

HasRoom == OtherUse + Used(Opened) < CardTotal

\* What an append that succeeds may have written.
LineWritten == {next} \cup {Torn : fault \in WriteFaults \cap {"short"}}

\* spoolHistoryRecord when the write goes through, whole or short of its end:
\* println reports how much it wrote, and only 0 counts as a failure.
SpoolRecord(line) ==
    LET written == AppendTo(Opened, Target, line)
        files   == PruneSpool(written, Target, 0)
    IN  /\ sdReady /\ posting = <<>> /\ next <= MaxPackets
        /\ HasRoom
        /\ segs' = files
        /\ current' = CurrentIn(files, Target)
        /\ count' = IF Target \notin DOMAIN files THEN 0
                    ELSE IF MustRoll THEN 1 ELSE count + 1
        /\ next' = next + 1
        /\ UNCHANGED <<sdReady, posting>>

\* The file cannot be opened, or the append writes nothing to the file that
\* opening it has created.
SpoolFails(fault) ==
    /\ sdReady /\ posting = <<>> /\ next <= MaxPackets
    /\ fault \in WriteFaults \ {"short"}
    /\ segs' = IF fault = "no-open" THEN Kept ELSE Opened
    /\ MarkSdUnavailable
    /\ next' = next + 1
    /\ UNCHANGED posting

\* The packet is lost while the card is not mounted.
SpoolUnavailable ==
    /\ ~sdReady /\ posting = <<>> /\ next <= MaxPackets
    /\ next' = next + 1
    /\ UNCHANGED <<segs, current, count, sdReady, posting>>

\* Mutant: the newest file is taken up again as the current segment.
RebootResumes ==
    /\ current' = IF DOMAIN segs = {} THEN NoSegment ELSE Max(DOMAIN segs)
    /\ count' = IF DOMAIN segs = {} THEN 0 ELSE Len(segs[Max(DOMAIN segs)])
    /\ posting' = <<>>
    /\ sdReady' \in BOOLEAN

\* RAM is lost: initBootId and initSdSpool start with no current segment.
Reboot ==
    /\ current' = NoSegment
    /\ count' = 0
    /\ posting' = <<>>
    /\ sdReady' \in BOOLEAN

PowerLoss == Reboot /\ UNCHANGED <<segs, next>>

\* Power fails during the append: nothing, a part or all of the line is in
\* the file, which exists as soon as the part or the fault "empty" says so.
PowerLossInWrite(line) ==
    /\ sdReady /\ posting = <<>> /\ next <= MaxPackets
    /\ HasRoom
    /\ \/ line \in {next, Torn} /\ segs' = AppendTo(Opened, Target, line)
       \/ line = NoSegment /\ "empty" \in WriteFaults /\ segs' = Opened
    /\ next' = next + 1
    /\ Reboot

\* A failed enumeration, prune or remove.
SdFails ==
    /\ sdReady /\ posting = <<>>
    /\ "no-open" \in WriteFaults
    /\ MarkSdUnavailable
    /\ UNCHANGED <<segs, posting, next>>

\* maintainSdSpool
Remount ==
    /\ ~sdReady /\ posting = <<>>
    /\ sdReady' = TRUE
    /\ UNCHANGED <<segs, current, count, posting, next>>

RemoveSegment(id) ==
    /\ segs' = Drop(segs, id)
    /\ current' = CurrentIn(segs', current)
    /\ count' = IF current' = NoSegment THEN 0 ELSE count

\* Mutant: a full segment does not fit.
BatchFitsStrictly(batch) == Len(batch) < SegmentRecords

BatchFits(batch) == Len(batch) <= SegmentRecords

\* drainOldestSpoolSegment up to the POST: buildHistoryBatch stops at the
\* first line that does not parse, and gives up on more records than a batch
\* holds.
DrainStart ==
    LET batch == ValidPrefix(segs[Oldest(segs)])
    IN  /\ sdReady /\ posting = <<>> /\ DOMAIN segs # {}
        /\ batch # <<>>
        /\ BatchFits(batch)
        /\ posting' = [id |-> Oldest(segs), batch |-> batch]
        /\ UNCHANGED <<segs, current, count, sdReady, next>>

\* The oldest segment starts with a line that does not parse: it is removed.
DrainDiscard ==
    /\ sdReady /\ posting = <<>> /\ DOMAIN segs # {}
    /\ segs[Oldest(segs)] # <<>>
    /\ ValidPrefix(segs[Oldest(segs)]) = <<>>
    /\ RemoveSegment(Oldest(segs))
    /\ UNCHANGED <<sdReady, posting, next>>

\* The rest of drainOldestSpoolSegment once the POST returns.
HistoryAnswer(success, removed) ==
    /\ posting # <<>>
    /\ posting' = <<>>
    /\ CASE ~success -> UNCHANGED <<segs, current, count, sdReady>>
         [] success /\ removed ->
              RemoveSegment(posting.id) /\ UNCHANGED sdReady
         [] OTHER -> MarkSdUnavailable /\ UNCHANGED segs
    /\ UNCHANGED next

RemoveOutcomes == IF "no-open" \in WriteFaults THEN BOOLEAN ELSE {TRUE}

DeviceStep ==
    \/ \E line \in LineWritten : SpoolRecord(line)
    \/ \E fault \in Faults : SpoolFails(fault)
    \/ SpoolUnavailable
    \/ PowerLoss
    \/ \E line \in {next, Torn, NoSegment} : PowerLossInWrite(line)
    \/ SdFails
    \/ Remount
    \/ DrainStart
    \/ DrainDiscard

SpoolNext ==
    \/ DeviceStep
    \/ \E success \in BOOLEAN, removed \in RemoveOutcomes :
          HistoryAnswer(success, removed)

SpoolSpec == SpoolInit /\ [][SpoolNext]_spoolVars

\* Connectivity has returned and the card works: live POSTs succeed, each
\* followed by a drain, the gateway answers, and power and card fail only
\* finitely often while packets that need the spool are finitely many.
FairSpec ==
    /\ SpoolSpec
    /\ SF_spoolVars(DrainStart)
    /\ SF_spoolVars(DrainDiscard)
    /\ SF_spoolVars(HistoryAnswer(TRUE, TRUE))
    /\ WF_spoolVars(Remount)

-----------------------------------------------------------------------------
(* Properties *)

Lines == 1..MaxPackets \cup {Torn}

\* The spool's files and the firmware's globals have the shapes the firmware
\* gives them; the current segment is a file on the card.
SpoolTypeOK ==
    /\ DOMAIN segs \subseteq 1..MaxPackets /\ segs \in [DOMAIN segs -> Seq(Lines)]
    /\ current \in DOMAIN segs \cup {NoSegment}
    /\ count \in 0..SegmentRecords
    /\ sdReady \in BOOLEAN
    /\ posting = <<>> \/ posting \in [id : 1..MaxPackets, batch : Seq(Nat)]
    /\ next \in 1..(MaxPackets + 1)

\* No segment outgrows what buildHistoryBatch can send, across reboots,
\* remounts and prunes: a larger one would be refused for ever and wedge the
\* queue behind it.
SegmentFitsBatch ==
    \A id \in DOMAIN segs : Len(segs[id]) <= SegmentRecords

\* The spool stays within its quota whatever is interrupted.
WithinQuota == Used(segs) <= Quota

\* A segment leaves the card, pruned, drained or discarded, only when no
\* older one stays ("the oldest segment is removed first").
OldestLeavesFirst ==
    [][\A gone \in DOMAIN segs \ DOMAIN segs', kept \in DOMAIN segs \cap DOMAIN segs' :
          gone < kept]_spoolVars

\* Only the last line of a segment can be incomplete, so that all complete
\* records before an interrupted write are sent.
OnlyTheTailIsTorn ==
    \A id \in DOMAIN segs : \A i \in 1..(Len(segs[id]) - 1) : segs[id][i] # Torn

\* Whatever is interrupted, the spool keeps its shapes and bounds, and is torn only
\* where reading expects it.
SpoolIsSound == SpoolTypeOK /\ SegmentFitsBatch /\ WithinQuota /\ OnlyTheTailIsTorn

\* With connectivity back the backlog drains, whatever torn lines and resets
\* it has been through, unless its oldest segment is an empty file.
BacklogDrainsOrWedges ==
    <>[](DOMAIN segs = {} \/ segs[Oldest(segs)] = <<>>)

\* Documented, and refuted: no partial record wedges the queue for ever
\* (drainOldestSpoolSegment when buildHistoryBatch finds no record).
BacklogDrains == <>[](DOMAIN segs = {})

=============

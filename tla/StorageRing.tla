---------------------------- MODULE StorageRing -----------------------------
(***************************************************************************)
(* The Pi history store (edge/pi-storage/storage_runtime.py, class         *)
(* AdaptiveJsonlRingStore): a bounded directory of JSONL segments.  The    *)
(* gateway calls append from the threads of a ThreadingHTTPServer and the  *)
(* store has no lock, so that the capacity check, the choice of the        *)
(* current segment, its opening and the write interleave.                  *)
(***************************************************************************)
EXTENDS Segments

CONSTANTS Threads,       \* request threads
          RingSegment,   \* segment_bytes, in records
          RingQuota,     \* quota_bytes, in records
          ShortWrites,   \* whether a write may raise OSError half-way
          MaxSegments,   \* bound: segments created
          MaxRestarts    \* bound: restarts of the service

ASSUME RingAssumption ==
    /\ {RingSegment, RingQuota} \subseteq Nat \ {0}
    /\ {MaxSegments, MaxRestarts} \subseteq Nat
    /\ ShortWrites \in BOOLEAN
    /\ IsFiniteSet(Threads) /\ NoSegment \notin Threads

VARIABLES ring,       \* the segment files
          ringCur,    \* _current
          repaired,   \* _recovery_checked
          pressure,   \* environment: free space is below the reserve
          thread,     \* per thread: step of append, its line and open file
          lastId,     \* name given to the latest segment
          restarts

ringVars == <<ring, ringCur, repaired, pressure, thread, lastId, restarts>>

IdleThread == [pc |-> "idle", line |-> Torn, path |-> NoSegment]

RingInit ==
    /\ ring = NoFiles
    /\ ringCur = NoSegment
    /\ repaired = FALSE
    /\ pressure = FALSE
    /\ thread = [t \in Threads |-> IdleThread]
    /\ lastId = 0
    /\ restarts = 0

\* _repair_interrupted_segments: every segment is cut at its first bad line.
Repair(files) ==
    [id \in DOMAIN files |-> ValidPrefix(files[id])]

Repaired == IF repaired THEN ring ELSE Repair(ring)

\* The stopping condition of _ensure_capacity for one record.
RingFits(files) == ~pressure /\ Used(files) + 1 <= RingQuota

At(t, pc) == thread[t].pc = pc

Goto(t, pc) == thread' = [thread EXCEPT ![t].pc = pc]

StartAppend(t, line) ==
    thread' = [thread EXCEPT ![t] = [IdleThread EXCEPT !.pc = "check",
                                                       !.line = line]]

\* Mutant: _current outlives its file.
CurrentKept(files) == ringCur

CurrentAfterPrune(files) ==
    IF ringCur \in DOMAIN files THEN ringCur ELSE NoSegment

\* The repair before the first append, then _ensure_capacity: when pruning
\* everything is not enough, RuntimeError('storage-capacity-reserved').
EnsureCapacity(t) ==
    LET left == Pruned(Repaired, ringCur)
        files == LeastPruned(left, {f \in left : RingFits(f)})
    IN  /\ At(t, "check")
        /\ ring' = files
        /\ ringCur' = CurrentAfterPrune(files)
        /\ repaired' = TRUE
        /\ Goto(t, IF RingFits(files) THEN "segment" ELSE "reserved")
        /\ UNCHANGED <<pressure, lastId, restarts>>

\* _new_segment, unless the current one has room.
ChooseSegment(t) ==
    LET fresh == \/ ringCur \notin DOMAIN ring
                 \/ Len(ring[ringCur]) + 1 > RingSegment
    IN  /\ At(t, "segment")
        /\ IF fresh
           THEN /\ lastId < MaxSegments
                /\ lastId' = lastId + 1
                /\ ring' = Create(ring, lastId')
                /\ ringCur' = lastId'
           ELSE UNCHANGED <<ring, ringCur, lastId>>
        /\ Goto(t, "open")
        /\ UNCHANGED <<repaired, pressure, restarts>>

\* assert self._current is not None, and open('ab') on it.
OpenSegment(t) ==
    /\ At(t, "open")
    /\ thread' = IF ringCur = NoSegment
                 THEN [thread EXCEPT ![t].pc = "broken"]
                 ELSE [thread EXCEPT ![t].pc = "write", ![t].path = ringCur]
    /\ UNCHANGED <<ring, ringCur, repaired, pressure, lastId, restarts>>

\* The lines that reach the directory: none if the open file was unlinked.
Written(t, line) ==
    IF thread[t].path \in DOMAIN ring THEN AppendTo(ring, thread[t].path, line)
    ELSE ring

WriteRecord(t) ==
    /\ At(t, "write")
    /\ ring' = Written(t, thread[t].line)
    /\ Goto(t, "stored")
    /\ UNCHANGED <<ringCur, repaired, pressure, lastId, restarts>>

\* OSError (no space, I/O) after part of the line: nothing undoes it.
WriteShort(t) ==
    /\ ShortWrites
    /\ At(t, "write")
    /\ ring' = Written(t, Torn)
    /\ Goto(t, "broken")
    /\ UNCHANGED <<ringCur, repaired, pressure, lastId, restarts>>

\* The service or the Pi restarts; a write under way may leave a torn line.
RestartWith(files) ==
    /\ restarts < MaxRestarts
    /\ restarts' = restarts + 1
    /\ ring' = files
    /\ ringCur' = NoSegment
    /\ repaired' = FALSE
    /\ thread' = [t \in Threads |-> IdleThread]
    /\ UNCHANGED <<pressure, lastId>>

RingRestart ==
    \/ RestartWith(ring)
    \/ \E t \in Threads : At(t, "write") /\ RestartWith(Written(t, Torn))

\* Other files come and go on the same filesystem.
PressureChanges ==
    /\ pressure' = ~pressure
    /\ UNCHANGED <<ring, ringCur, repaired, thread, lastId, restarts>>

AppendStep(t) ==
    \/ EnsureCapacity(t)
    \/ ChooseSegment(t)
    \/ OpenSegment(t)
    \/ WriteRecord(t)
    \/ WriteShort(t)

-----------------------------------------------------------------------------
(* Properties *)

ThreadTypes ==
    [pc : {"idle", "check", "segment", "open", "write", "stored", "reserved",
           "broken"},
     line : Nat \cup {Torn}, path : 1..MaxSegments \cup {NoSegment}]

\* The directory, the store's fields and the threads' positions; _current
\* is a file of the directory.
RingTypeOK ==
    /\ DOMAIN ring \subseteq 1..MaxSegments
    /\ ring \in [DOMAIN ring -> Seq(Nat \cup {Torn})]
    /\ ringCur \in DOMAIN ring \cup {NoSegment}
    /\ {repaired, pressure} \subseteq BOOLEAN
    /\ thread \in [Threads -> ThreadTypes]
    /\ lastId \in 0..MaxSegments
    /\ restarts \in 0..MaxRestarts

\* Records written on the word of the same capacity check can exceed the
\* quota, by one record per further thread and no more.
QuotaExceededByThreadsOnly ==
    Used(ring) <= RingQuota + Cardinality(Threads) - 1

=============

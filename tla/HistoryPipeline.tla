-------------------------- MODULE HistoryPipeline ---------------------------
(***************************************************************************)
(* Store-and-forward history end to end: the ESP32 spool (EdgeSpool), the  *)
(* Pi history gateway (edge/pi-storage/history_gateway.py, modelled here)  *)
(* and its ring store (StorageRing).  A POST that the device has given up  *)
(* may still be served by its thread while the same segment is posted      *)
(* again.                                                                  *)
(***************************************************************************)
EXTENDS EdgeSpool, StorageRing

CONSTANTS RecentCapacity,   \* MAX_RECENT_IDS
          PressureMayRise   \* whether the Pi's disk may fill up

ASSUME PipelineAssumption == RecentCapacity \in Nat \ {0} /\ PressureMayRise \in BOOLEAN

VARIABLES recent,    \* RecentIdentitySet._items, oldest first
          job,       \* per thread: the records prepared and still to store
          asked,     \* the thread serving the device's POST, or NoSegment
          copies,    \* history: times a record was written out
          failed,    \* history: records whose append failed or was cut off
          drained    \* history: records deleted from the card on a 2xx

historyVars == <<copies, failed, drained>>
gatewayVars == <<ringVars, recent, job, copies, failed>>
pipelineVars == <<spoolVars, gatewayVars, asked, drained>>

PipelineInit ==
    /\ SpoolInit
    /\ RingInit
    /\ recent = <<>>
    /\ job = [t \in Threads |-> <<>>]
    /\ asked = NoSegment
    /\ copies = [p \in 1..MaxPackets |-> 0]
    /\ failed = {}
    /\ drained = {}

-----------------------------------------------------------------------------
(* The gateway *)

Finished(t) == thread[t].pc \in {"stored", "reserved", "broken"}

\* The records remembered and not yet written.
InHand == {thread[t].line : t \in {u \in Threads :
             thread[u].pc \in {"check", "segment", "open", "write"}}}

\* Mutant: the identity is not kept.
RememberedNot(id) == recent

\* RecentIdentitySet.remember on a new identity.
Remembered(id) ==
    IF Len(recent) + 1 > RecentCapacity THEN Append(Tail(recent), id)
    ELSE Append(recent, id)

\* ingest_batch, one record: a duplicate is skipped, a new identity is
\* remembered before the record is appended.
Remember(t) ==
    /\ thread[t].pc \in {"idle", "stored"}
    /\ job[t] # <<>>
    /\ IF Contains(recent, Head(job[t]))
       THEN /\ thread' = [thread EXCEPT ![t] =
                            [IdleThread EXCEPT !.pc = "stored"]]
            /\ UNCHANGED recent
       ELSE /\ recent' = Remembered(Head(job[t]))
            /\ StartAppend(t, Head(job[t]))
    /\ job' = [job EXCEPT ![t] = Tail(@)]
    /\ UNCHANGED <<spoolVars, ring, ringCur, repaired, pressure, lastId,
                   restarts, asked, historyVars>>

IngestStep(t) ==
    /\ AppendStep(t)
    /\ copies' = IF thread'[t].pc = "stored"
                 THEN [copies EXCEPT ![thread[t].line] = @ + 1] ELSE copies
    /\ failed' = IF thread'[t].pc \in {"reserved", "broken"}
                 THEN failed \cup {thread[t].line} ELSE failed
    /\ UNCHANGED <<spoolVars, recent, job, asked, drained>>

\* Mutant: the answer does not wait for the last append.
ServedEarly(t) ==
    job[t] = <<>> /\ thread[t].pc \in {"check", "segment", "open", "write",
                                       "stored"}

\* The batch is through (200), the store is full (507) or the handler died
\* of another error (no answer): the thread ends.
Served(t) == thread[t].pc = "stored" /\ job[t] = <<>>

EndHandler(t) ==
    /\ thread' = [thread EXCEPT ![t] = IdleThread]
    /\ job' = [job EXCEPT ![t] = <<>>]
    /\ UNCHANGED <<ring, ringCur, repaired, pressure, lastId, restarts, recent,
                   copies, failed>>

\* Nobody waits for the answer any more.
HandlerEnds(t) ==
    /\ asked # t
    /\ Served(t) \/ thread[t].pc \in {"reserved", "broken"}
    /\ EndHandler(t)
    /\ UNCHANGED <<spoolVars, asked, drained>>

\* The recent identities are only in memory.
GatewayRestart ==
    /\ RingRestart
    /\ recent' = <<>>
    /\ job' = [t \in Threads |-> <<>>]
    /\ failed' = failed \cup InHand
    /\ UNCHANGED <<spoolVars, copies, asked, drained>>

Pressure ==
    /\ PressureMayRise
    /\ PressureChanges
    /\ UNCHANGED <<spoolVars, recent, job, asked, historyVars>>

-----------------------------------------------------------------------------
(* The device's POST *)

\* The request reaches a thread of the gateway.
PostReaches(t) ==
    /\ DrainStart
    /\ At(t, "idle") /\ job[t] = <<>>
    /\ job' = [job EXCEPT ![t] = posting'.batch]
    /\ asked' = t
    /\ UNCHANGED <<ringVars, recent, historyVars>>

PostLost ==
    /\ DrainStart
    /\ asked' = NoSegment
    /\ UNCHANGED <<gatewayVars, drained>>

\* The answer arrives in time.
Answered(t) ==
    /\ asked = t
    /\ Served(t) \/ thread[t].pc = "reserved"
    /\ HistoryAnswer(Served(t), TRUE)
    /\ drained' = IF Served(t) THEN drained \cup ToSet(posting.batch)
                  ELSE drained
    /\ asked' = NoSegment
    /\ EndHandler(t)

\* No answer within the timeout, whatever the gateway does with the request.
TimedOut ==
    /\ HistoryAnswer(FALSE, TRUE)
    /\ asked' = NoSegment
    /\ UNCHANGED <<gatewayVars, drained>>

\* Everything else the device does; a reset forgets the POST under way.
DeviceAlone ==
    /\ DeviceStep
    /\ posting' = posting \/ posting' = <<>>
    /\ asked' = IF posting' = <<>> THEN NoSegment ELSE asked
    /\ UNCHANGED <<gatewayVars, drained>>

PipelineNext ==
    \/ DeviceAlone
    \/ \E t \in Threads : PostReaches(t)
    \/ PostLost
    \/ \E t \in Threads : Answered(t)
    \/ TimedOut
    \/ \E t \in Threads : Remember(t)
    \/ \E t \in Threads : IngestStep(t)
    \/ \E t \in Threads : HandlerEnds(t)
    \/ GatewayRestart
    \/ Pressure

PipelineSpec == PipelineInit /\ [][PipelineNext]_pipelineVars

-----------------------------------------------------------------------------
(* Properties *)

\* The state of the gateway and its store; EdgeSpool types the device's.  A
\* thread is asked only while the device waits for an answer.
PipelineTypeOK ==
    /\ RingTypeOK
    /\ ToSet(recent) \subseteq 1..MaxPackets
    /\ Len(recent) <= RecentCapacity
    /\ job \in [Threads -> Seq(1..MaxPackets)]
    /\ asked \in Threads \cup {NoSegment}
    /\ asked # NoSegment => posting # <<>>
    /\ copies \in [1..MaxPackets -> Nat]
    /\ failed \cup drained \subseteq 1..MaxPackets

\* Threads that serve the same segment twice, because the device timed out
\* and posted it again, store no record twice; only a restart, which forgets
\* the recent identities, lets one more copy in.
StoredOncePerRun ==
    \A p \in 1..MaxPackets : copies[p] <= 1 + restarts

\* The store has its shape, no more in it than its quota and one record per further
\* thread, and no record twice.
StoreIsSound == PipelineTypeOK /\ QuotaExceededByThreadsOnly /\ StoredOncePerRun

\* A record the device has deleted on a 2xx was written to the store, or a
\* thread that is still alive is about to write it, or an append of it has
\* failed: no timeout, retry or reset of the device loses a record.
DrainedIsStoredOrFailed ==
    \A p \in drained : copies[p] > 0 \/ p \in InHand \cup failed

\* Documented, and refuted: a segment is deleted on a successful answer only,
\* so that the records the device deletes are those the store holds.
DrainedIsStoredOrInHand ==
    \A p \in drained : copies[p] > 0 \/ p \in InHand

=============

------------------------------ MODULE EdgeGuard -----------------------------
(***************************************************************************)
(* The packet guard in front of /v3/edge/frame (edge-guard.ts), and the      *)
(* devices and the network it guards against: a device numbers its packets   *)
(* from zero at each boot and stamps them with a clock of its own; the       *)
(* network delays, reorders, repeats and loses them.  A packet of another      *)
(* protocol version, or whose GNSS stamp is far from its own, is refused         *)
(* without effect and left out.                                                *)
(***************************************************************************)
EXTENDS Clock, Sequences, FiniteSets

CONSTANTS Devices,
          MaxBoot, MaxSequence,     \* bounds on what a device sends
          MaxInFlight,              \* a bound on the packets in the network
          ClockErrors,              \* by how much the clock of a device is off
          MAX_PAST_SKEW, MAX_FUTURE_SKEW, MAX_REGRESSION,
          SessionTTL, PruneInterval, MaxSessions

ASSUME EdgeGuardAssumption ==
    /\ MaxBoot \in Nat /\ MaxSequence \in Nat /\ MaxInFlight \in Nat
    /\ ClockErrors \subseteq Int
    /\ MAX_PAST_SKEW \in Nat /\ MAX_FUTURE_SKEW \in Nat /\ MAX_REGRESSION \in Nat
    /\ PruneInterval \in Nat /\ MaxSessions \in Nat \ {0}
    /\ SessionTTL \in Nat /\ SessionTTL >= MAX_PAST_SKEW + MAX_FUTURE_SKEW

Packet == [device : Devices, boot : 0..MaxBoot, sequence : 0..MaxSequence,
           timestamp : Int]

Session == [boot : 0..MaxBoot, sequence : 0..MaxSequence, timestamp : Int, seen : Nat]

VARIABLES source,      \* per device: its boot and the next sequence number
          network,     \* the packets that may still arrive, any number of times
          sessions,    \* the guard: a session for some of the devices
          lastPrune,
          taken,       \* history: the sequence numbers accepted since the guard last
                       \* saw the device change its boot
          verdict      \* what the guard answered in this step, or "none"

edgeVars == <<now, source, network, sessions, lastPrune, taken, verdict>>

SendPacket(d, err) ==
    /\ source[d].next <= MaxSequence
    /\ Cardinality(network) < MaxInFlight
    /\ network' = network \cup
          {[device |-> d, boot |-> source[d].boot, sequence |-> source[d].next,
            timestamp |-> now + err]}
    /\ source' = [source EXCEPT ![d].next = @ + 1]
    /\ verdict' = "none"
    /\ UNCHANGED <<now, sessions, lastPrune, taken>>

RebootDevice(d) ==
    /\ source[d].boot < MaxBoot
    /\ source' = [source EXCEPT ![d] = [boot |-> @.boot + 1, next |-> 0]]
    /\ verdict' = "none"
    /\ UNCHANGED <<now, network, sessions, lastPrune, taken>>

\* pruneExpired: at intervals, or at each packet while the guard is full.
PruneDue == Cardinality(DOMAIN sessions) >= MaxSessions \/ now - lastPrune >= PruneInterval

Live(s) == now - s.seen <= SessionTTL

\* Mutant: the sessions are pruned by the age of the packets they hold.
PrunedOnSkew ==
    IF PruneDue
    THEN [d \in {e \in DOMAIN sessions : now - sessions[e].seen < MAX_PAST_SKEW} |-> sessions[d]]
    ELSE sessions

\* Mutant: a full guard waits for the interval.
PrunedAtIntervals ==
    IF now - lastPrune >= PruneInterval
    THEN [d \in {e \in DOMAIN sessions : Live(sessions[e])} |-> sessions[d]]
    ELSE sessions

Pruned ==
    IF PruneDue
    THEN [d \in {e \in DOMAIN sessions : Live(sessions[e])} |-> sessions[d]]
    ELSE sessions

Judge(p, open) ==
    LET skew == p.timestamp - now
        known == p.device \in DOMAIN open /\ open[p.device].boot = p.boot
    IN  IF skew > MAX_FUTURE_SKEW \/ skew < -MAX_PAST_SKEW THEN "clock-skew"
        ELSE IF p.device \notin DOMAIN open /\ Cardinality(DOMAIN open) >= MaxSessions
        THEN "session-capacity"
        ELSE IF known /\ p.sequence <= open[p.device].sequence THEN "sequence-replay"
        ELSE IF known /\ p.timestamp < open[p.device].timestamp - MAX_REGRESSION
        THEN "clock-regression" ELSE "ok"

AcceptPacket(p) ==
    LET open == Pruned
        d == p.device
    IN  /\ lastPrune' = IF PruneDue THEN now ELSE lastPrune
        /\ verdict' = Judge(p, open)
        /\ IF verdict' # "ok"
           THEN sessions' = open /\ UNCHANGED taken
           ELSE /\ sessions' = [e \in DOMAIN open \cup {d} |->
                      IF e = d THEN [boot |-> p.boot, sequence |-> p.sequence,
                                     timestamp |-> p.timestamp, seen |-> now]
                      ELSE open[e]]
                /\ taken' = [taken EXCEPT ![d] =
                      [boot |-> p.boot,
                       sequences |-> IF @.boot = p.boot THEN Append(@.sequences, p.sequence)
                                     ELSE <<p.sequence>>]]
        /\ UNCHANGED <<now, source, network>>

DeliverPacket == \E p \in network : AcceptPacket(p)

LosePacket ==
    /\ \E p \in network : network' = network \ {p}
    /\ verdict' = "none"
    /\ UNCHANGED <<now, source, sessions, lastPrune, taken>>

\* Packets that the skew check refuses from now on leave the network.
EdgeTick ==
    /\ Pass
    /\ network' = {p \in network : p.timestamp >= now' - MAX_PAST_SKEW}
    /\ verdict' = "none"
    /\ UNCHANGED <<source, sessions, lastPrune, taken>>

EdgeInit ==
    /\ now = 0
    /\ source = [d \in Devices |-> [boot |-> 0, next |-> 0]]
    /\ network = {} /\ lastPrune = 0 /\ verdict = "none"
    /\ sessions = [d \in {} |-> {}]
    /\ taken = [d \in Devices |-> [boot |-> 0, sequences |-> << >>]]

EdgeNext ==
    \/ \E d \in Devices, err \in ClockErrors : SendPacket(d, err)
    \/ \E d \in Devices : RebootDevice(d)
    \/ DeliverPacket
    \/ LosePacket
    \/ EdgeTick

EdgeSpec == EdgeInit /\ [][EdgeNext]_edgeVars

(***************************************************************************)
(* Properties.                                                             *)
(***************************************************************************)
EdgeTypeOK ==
    /\ now \in Nat /\ lastPrune \in Nat
    /\ source \in [Devices -> [boot : 0..MaxBoot, next : 0..MaxSequence + 1]]
    /\ network \subseteq Packet
    /\ DOMAIN sessions \subseteq Devices
    /\ \A d \in DOMAIN sessions : sessions[d] \in Session
    /\ taken \in [Devices -> [boot : 0..MaxBoot, sequences : Seq(0..MaxSequence)]]

\* Between two changes of its boot a device is never taken back: whatever the
\* network repeats or reorders, and although sessions expire, the numbers that
\* reach the display only rise, so that no packet is used twice.
SequencesRise ==
    \A d \in Devices : LET s == taken[d].sequences
                       IN  \A i, j \in DOMAIN s : i < j => s[i] < s[j]

\* A device is refused for want of a session only if every session belongs to a
\* device that was heard within the time to live.
FullOfTheLiving ==
    verdict = "session-capacity" =>
        /\ Cardinality(DOMAIN sessions) >= MaxSessions
        /\ \A d \in DOMAIN sessions : Live(sessions[d])
=============================================================================

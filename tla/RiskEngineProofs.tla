--------------------------- MODULE RiskEngineProofs --------------------------
(***************************************************************************)
(* What the components of the risk engine promise, each by itself, for all     *)
(* values of its constants.  First the guards at its ingress, for any number of  *)
(* devices, packets, sessions, callers and streams: each forgets only what is     *)
(* refused for its age by then, and turns away only whom it must.  Then the         *)
(* operators and the audit of what they change, the road providers, the update       *)
(* path and the registry of keys, and what is held of a person: keys by                *)
(* delegation and memory by privacy.                                                    *)
(*                                                                                        *)
(* Last the engine as a whole: a step of it, seen through the variables of one             *)
(* component, is a step of that component or leaves it alone, so that what is proved        *)
(* of the components holds of the engine.                                                    *)
(***************************************************************************)
EXTENDS MCRiskEngine, SequenceTheorems, FiniteSetTheorems, WellFoundedInduction, TLAPS

(***************************************************************************)
(* The packet guard never takes a device back: a session may expire because     *)
(* every packet it would have refused is by then refused for its clock.          *)
(***************************************************************************)

\* No clock is so far ahead that its packets outlive a session (in the code: by
\* 24 hours less the 30 seconds of MAX_PAST_SKEW_MS).
ClocksAreSane == \A err \in ClockErrors : err + MAX_PAST_SKEW <= SessionTTL

\* The types the argument needs.
EdgeTypes ==
    /\ now \in Nat
    /\ source \in [Devices -> [boot : 0..MaxBoot, next : 0..MaxSequence + 1]]
    /\ network \subseteq Packet
    /\ DOMAIN sessions \subseteq Devices
    /\ \A d \in DOMAIN sessions : sessions[d] \in Session
    /\ taken \in [Devices -> [boot : 0..MaxBoot, sequences : Seq(0..MaxSequence)]]

\* Device d has counted past sequence number n of boot b.
Passed(d, b, n) == b < source[d].boot \/ (b = source[d].boot /\ n < source[d].next)

\* A packet in the network was sent, and is too old one time to live from now.
PacketsWereSent ==
    \A p \in network : /\ Passed(p.device, p.boot, p.sequence)
                       /\ p.timestamp + MAX_PAST_SKEW <= now + SessionTTL

\* What the display was given was sent.
TakenWasSent ==
    \A d \in Devices : \A i \in DOMAIN taken[d].sequences :
        Passed(d, taken[d].boot, taken[d].sequences[i])

\* A session is about the last packet that was taken, and the packets it refuses are
\* too old when it expires.
SessionsCover ==
    \A d \in DOMAIN sessions :
        /\ sessions[d].boot = taken[d].boot /\ sessions[d].seen <= now
        /\ Passed(d, sessions[d].boot, sessions[d].sequence)
        /\ \A i \in DOMAIN taken[d].sequences : taken[d].sequences[i] <= sessions[d].sequence
        /\ \A p \in network :
              p.device = d /\ p.boot = sessions[d].boot /\ p.sequence <= sessions[d].sequence =>
                  p.timestamp + MAX_PAST_SKEW <= sessions[d].seen + SessionTTL

\* Of a device without a session only packets that were not yet taken are still young
\* enough.
ForgottenAreOld ==
    \A d \in Devices \ DOMAIN sessions : \A i \in DOMAIN taken[d].sequences :
        \A p \in network :
            p.device = d /\ p.boot = taken[d].boot /\ p.sequence <= taken[d].sequences[i] =>
                p.timestamp + MAX_PAST_SKEW < now

EdgeInv ==
    /\ EdgeTypes
    /\ PacketsWereSent
    /\ TakenWasSent
    /\ SessionsCover
    /\ ForgottenAreOld
    /\ SequencesRise

Rises(s) == \A i, j \in DOMAIN s : i < j => s[i] < s[j]

\* A number above all others may follow them.
LEMMA RisesFurther ==
    ASSUME NEW s \in Seq(Nat), NEW n \in Nat, Rises(s), \A i \in DOMAIN s : s[i] < n
    PROVE  /\ Rises(Append(s, n))
           /\ \A i \in DOMAIN Append(s, n) : Append(s, n)[i] <= n
  BY DEF Rises

\* What pruneExpired leaves: some of the sessions, and none is dropped before its time.
LEMMA PrunedDropsTheExpired ==
    ASSUME EdgeTypes
    PROVE  /\ DOMAIN Pruned \subseteq DOMAIN sessions
           /\ \A d \in DOMAIN Pruned : Pruned[d] = sessions[d]
           /\ \A d \in DOMAIN sessions \ DOMAIN Pruned : now - sessions[d].seen > SessionTTL
<1>1. CASE PruneDue
  <2>1. Pruned = [d \in {e \in DOMAIN sessions : Live(sessions[e])} |-> sessions[d]]
    BY <1>1 DEF Pruned
  <2>2. ASSUME NEW d \in DOMAIN sessions, ~Live(sessions[d])
        PROVE  now - sessions[d].seen > SessionTTL
    <3>1. now \in Nat /\ sessions[d].seen \in Nat /\ SessionTTL \in Nat
      BY EdgeGuardAssumption DEF EdgeTypes, Session
    <3> QED
      BY <2>2, <3>1 DEF Live
  <2> QED
    BY <2>1, <2>2
<1>2. CASE ~PruneDue
  BY <1>2 DEF Pruned
<1> QED
  BY <1>1, <1>2

\* A packet that is taken follows those taken before, whether there is a session or not.
LEMMA TakenFollows ==
    ASSUME EdgeInv, NEW p \in network, Judge(p, Pruned) = "ok", taken[p.device].boot = p.boot
    PROVE  \A i \in DOMAIN taken[p.device].sequences : taken[p.device].sequences[i] < p.sequence
<1> DEFINE d == p.device
<1>1. /\ p \in Packet /\ d \in Devices
      /\ taken[d].sequences \in Seq(0..MaxSequence)
  BY DEF EdgeInv, EdgeTypes, Packet
<1>2. p.timestamp + MAX_PAST_SKEW >= now
  BY SMTT(30), <1>1, EdgeGuardAssumption DEF Judge, EdgeInv, EdgeTypes, Packet
<1>3. SUFFICES ASSUME NEW i \in DOMAIN taken[d].sequences
               PROVE  ~(p.sequence <= taken[d].sequences[i])
  BY SMTT(30), <1>1, EdgeGuardAssumption DEF Packet
<1>4. CASE d \in DOMAIN Pruned
  <2>1. d \in DOMAIN sessions /\ Pruned[d] = sessions[d] /\ sessions[d] \in Session
    BY <1>4, PrunedDropsTheExpired DEF EdgeInv, EdgeTypes
  <2>2. sessions[d].boot = p.boot /\ taken[d].sequences[i] <= sessions[d].sequence
    BY <2>1 DEF EdgeInv, SessionsCover
  <2>3. ~(p.sequence <= sessions[d].sequence)
    BY <1>4, <2>1, <2>2 DEF Judge
  <2> QED
    BY SMTT(30), <1>1, <2>1, <2>2, <2>3, EdgeGuardAssumption DEF Session, Packet
<1>5. CASE d \in DOMAIN sessions \ DOMAIN Pruned
  <2>1. now - sessions[d].seen > SessionTTL /\ sessions[d] \in Session
    BY <1>5, PrunedDropsTheExpired DEF EdgeInv, EdgeTypes
  <2>2. sessions[d].boot = p.boot /\ taken[d].sequences[i] <= sessions[d].sequence
    BY <1>5 DEF EdgeInv, SessionsCover
  <2>3. p.sequence <= sessions[d].sequence =>
            p.timestamp + MAX_PAST_SKEW <= sessions[d].seen + SessionTTL
    BY <1>5, <2>2 DEF EdgeInv, SessionsCover
  <2>4. ~(p.sequence <= sessions[d].sequence)
    <3>1. /\ p.timestamp \in Int /\ sessions[d].seen \in Nat /\ now \in Nat
          /\ SessionTTL \in Nat /\ MAX_PAST_SKEW \in Nat
      BY <1>1, <2>1, EdgeGuardAssumption DEF Session, Packet, EdgeInv, EdgeTypes
    <3> QED
      BY <1>2, <2>1, <2>3, <3>1
  <2>5. /\ p.sequence \in Int /\ sessions[d].sequence \in Int
        /\ taken[d].sequences[i] \in Int
    BY SMTT(30), <1>1, <2>1, EdgeGuardAssumption DEF Session, Packet
  <2> QED
    BY <2>2, <2>4, <2>5
<1>6. CASE d \notin DOMAIN sessions
  <2>1. p.sequence <= taken[d].sequences[i] => p.timestamp + MAX_PAST_SKEW < now
    BY <1>1, <1>6 DEF EdgeInv, ForgottenAreOld
  <2> QED
    BY <1>1, <1>2, <2>1, EdgeGuardAssumption DEF Packet, EdgeInv, EdgeTypes
<1> QED
  BY <1>4, <1>5, <1>6

\* A device sends: a packet that is new to every session, and young.
LEMMA SendKeeps ==
    ASSUME ClocksAreSane, EdgeInv, NEW d \in Devices, NEW err \in ClockErrors, SendPacket(d, err)
    PROVE  EdgeInv'
<1> USE EdgeGuardAssumption
<1> PICK q : q = [device |-> d, boot |-> source[d].boot, sequence |-> source[d].next,
                  timestamp |-> now + err]
  OBVIOUS
<1>0. EdgeTypes /\ PacketsWereSent /\ TakenWasSent /\ SessionsCover /\ ForgottenAreOld
  BY DEF EdgeInv
<1>1. /\ network' = network \cup {q}
      /\ source' = [source EXCEPT ![d].next = @ + 1]
      /\ source[d].next <= MaxSequence
      /\ now' = now /\ sessions' = sessions /\ taken' = taken
  BY DEF SendPacket
<1>2. /\ q \in Packet /\ q.device = d /\ q.boot = source[d].boot
      /\ q.sequence = source[d].next
      /\ q.timestamp + MAX_PAST_SKEW <= now + SessionTTL
  <2>1. /\ now \in Nat /\ err \in Int /\ SessionTTL \in Nat /\ MAX_PAST_SKEW \in Nat
        /\ err + MAX_PAST_SKEW <= SessionTTL
    BY <1>0 DEF EdgeTypes, ClocksAreSane
  <2>2. source[d].boot \in 0..MaxBoot /\ source[d].next \in 0..MaxSequence
    BY SMTT(30), <1>0, <1>1 DEF EdgeTypes
  <2> QED
    BY <2>1, <2>2 DEF Packet
<1>3. \A e \in Devices :
        /\ source[e].boot \in 0..MaxBoot /\ source[e].next \in Nat
        /\ source'[e].boot = source[e].boot
        /\ source'[e].next = IF e = d THEN source[d].next + 1 ELSE source[e].next
        /\ source'[e] \in [boot : 0..MaxBoot, next : 0..MaxSequence + 1]
  <2>1. source \in [Devices -> [boot : 0..MaxBoot, next : 0..MaxSequence + 1]]
    BY <1>0 DEF EdgeTypes
  <2>2. \A e \in Devices :
          source'[e] = IF e = d THEN [source[d] EXCEPT !.next = source[d].next + 1]
                       ELSE source[e]
    BY <1>1, <2>1
  <2>3. TAKE e \in Devices
  <2>4. CASE e = d
    <3>1. source'[d] = [source[d] EXCEPT !.next = source[d].next + 1]
      BY <2>2
    <3>2. source[d] \in [boot : 0..MaxBoot, next : 0..MaxSequence + 1]
      BY <2>1
    <3> QED
      BY <1>1, <2>4, <3>1, <3>2
  <2>5. CASE e # d
    BY <2>1, <2>2, <2>5
  <2> QED
    BY <2>4, <2>5
<1>4. EdgeTypes'
  <2>1. source' \in [Devices -> [boot : 0..MaxBoot, next : 0..MaxSequence + 1]]
    BY <1>0, <1>1, <1>3 DEF EdgeTypes
  <2> QED
    BY <1>0, <1>1, <1>2, <2>1 DEF EdgeTypes
<1>5. \A e \in Devices, b \in Nat, n \in Nat : Passed(e, b, n) => Passed(e, b, n)'
  BY <1>3 DEF Passed
<1>6. Passed(d, q.boot, q.sequence)'
  BY <1>2, <1>3 DEF Passed
<1>7. PacketsWereSent'
  <2>1. ASSUME NEW p \in network PROVE Passed(p.device, p.boot, p.sequence)'
    <3>1. p.device \in Devices /\ p.boot \in Nat /\ p.sequence \in Nat
      BY SMTT(30), <1>0 DEF EdgeTypes, Packet
    <3> QED
      BY <1>0, <1>5, <3>1 DEF PacketsWereSent
  <2> QED
    BY <1>0, <1>1, <1>2, <1>6, <2>1 DEF PacketsWereSent
<1>8. TakenWasSent'
  <2>1. ASSUME NEW e \in Devices, NEW i \in DOMAIN taken[e].sequences
        PROVE  Passed(e, taken[e].boot, taken[e].sequences[i])'
    <3>1. taken[e].boot \in Nat /\ taken[e].sequences[i] \in Nat
      BY SMTT(30), <1>0 DEF EdgeTypes
    <3> QED
      BY <1>0, <1>1, <1>5, <3>1 DEF TakenWasSent
  <2> QED
    BY <1>1, <2>1 DEF TakenWasSent
<1>9. SessionsCover'
  <2>1. ASSUME NEW e \in DOMAIN sessions
        PROVE  /\ Passed(e, sessions[e].boot, sessions[e].sequence)'
               /\ q.device = e /\ q.boot = sessions[e].boot =>
                     ~(q.sequence <= sessions[e].sequence)
    <3>1. /\ e \in Devices /\ sessions[e].boot \in Nat /\ sessions[e].sequence \in Nat
          /\ Passed(e, sessions[e].boot, sessions[e].sequence)
      BY <1>0 DEF EdgeTypes, Session, SessionsCover
    <3>2. Passed(e, sessions[e].boot, sessions[e].sequence)'
      BY <1>1, <1>5, <3>1
    <3> QED
      BY <1>2, <1>3, <3>1, <3>2 DEF Passed
  <2> QED
    BY <1>0, <1>1, <2>1 DEF SessionsCover
<1>10. ForgottenAreOld'
  <2>1. ASSUME NEW e \in Devices, NEW i \in DOMAIN taken[e].sequences,
               q.device = e, q.boot = taken[e].boot
        PROVE  ~(q.sequence <= taken[e].sequences[i])
    <3>1. taken[e].boot \in Nat /\ taken[e].sequences[i] \in Nat
      BY SMTT(30), <1>0 DEF EdgeTypes
    <3> QED
      BY <1>0, <1>2, <1>3, <2>1, <3>1 DEF TakenWasSent, Passed
  <2> QED
    BY <1>0, <1>1, <2>1 DEF ForgottenAreOld
<1>11. SequencesRise'
  BY <1>1 DEF EdgeInv, SequencesRise
<1> QED
  BY <1>4, <1>7, <1>8, <1>9, <1>10, <1>11 DEF EdgeInv

\* A device starts again: it has counted past every packet of its last boot.
LEMMA RebootKeeps ==
    ASSUME EdgeInv, NEW d \in Devices, RebootDevice(d)
    PROVE  EdgeInv'
<1> USE EdgeGuardAssumption
<1>0. EdgeTypes /\ PacketsWereSent /\ TakenWasSent /\ SessionsCover /\ ForgottenAreOld
  BY DEF EdgeInv
<1>1. /\ source' = [source EXCEPT ![d] = [boot |-> @.boot + 1, next |-> 0]]
      /\ source[d].boot < MaxBoot
      /\ UNCHANGED <<now, network, sessions, taken>>
  BY DEF RebootDevice
<1>2. EdgeTypes'
  BY <1>0, <1>1 DEF EdgeTypes
<1>3. \A e \in Devices, b \in Nat, n \in Nat : Passed(e, b, n) => Passed(e, b, n)'
  BY <1>0, <1>1 DEF Passed, EdgeTypes
<1>4. PacketsWereSent' /\ TakenWasSent'
  <2>1. PacketsWereSent'
    BY SMTT(30), <1>0, <1>1, <1>3 DEF PacketsWereSent, EdgeTypes, Packet
  <2>2. ASSUME NEW e \in Devices, NEW i \in DOMAIN taken[e].sequences
        PROVE  Passed(e, taken[e].boot, taken[e].sequences[i])'
    <3>1. taken[e].boot \in Nat /\ taken[e].sequences[i] \in Nat
      BY <1>0 DEF EdgeTypes
    <3> QED
      BY <1>0, <1>1, <1>3, <3>1 DEF TakenWasSent
  <2> QED
    BY <1>1, <2>1, <2>2 DEF TakenWasSent
<1>5. SessionsCover'
  <2>1. \A e \in DOMAIN sessions : Passed(e, sessions[e].boot, sessions[e].sequence)'
    BY <1>0, <1>1, <1>3 DEF SessionsCover, EdgeTypes, Session
  <2> QED
    BY <1>0, <1>1, <2>1 DEF SessionsCover
<1>6. ForgottenAreOld' /\ SequencesRise'
  BY <1>1 DEF EdgeInv, ForgottenAreOld, SequencesRise
<1> QED
  BY <1>2, <1>4, <1>5, <1>6 DEF EdgeInv

\* Time passing keeps it: the packets that leave the network are those the clock refuses.
LEMMA TickKeeps == ASSUME EdgeInv, EdgeTick PROVE EdgeInv'
<1> USE EdgeGuardAssumption
<1>0. EdgeTypes /\ PacketsWereSent /\ TakenWasSent /\ SessionsCover /\ ForgottenAreOld
  BY DEF EdgeInv
<1>1. /\ now' = now + 1 /\ network' \subseteq network
      /\ UNCHANGED <<source, sessions, taken>>
  BY DEF EdgeTick, Pass
<1>2. EdgeTypes'
  BY <1>0, <1>1 DEF EdgeTypes
<1>3. \A p \in network : p.timestamp \in Int
  BY <1>0 DEF EdgeTypes, Packet
<1>4. now \in Nat /\ now' \in Nat /\ SessionTTL \in Nat /\ MAX_PAST_SKEW \in Nat
  BY <1>0, <1>2 DEF EdgeTypes
<1>5. PacketsWereSent'
  BY <1>0, <1>1, <1>3, <1>4 DEF PacketsWereSent, Passed
<1>6. TakenWasSent' /\ SequencesRise'
  BY <1>1 DEF EdgeInv, TakenWasSent, SequencesRise, Passed
<1>7. SessionsCover'
  <2>1. \A d \in DOMAIN sessions : sessions[d].seen \in Nat
    BY <1>0 DEF EdgeTypes, Session
  <2> QED
    BY <1>0, <1>1, <1>4, <2>1 DEF SessionsCover, Passed
<1>8. ForgottenAreOld'
  BY <1>0, <1>1, <1>3, <1>4 DEF ForgottenAreOld
<1> QED
  BY <1>2, <1>5, <1>6, <1>7, <1>8 DEF EdgeInv

\* Of a device whose session pruneExpired drops, what was taken is too old by now.
LEMMA DroppedAreOld ==
    ASSUME EdgeInv, NEW d \in DOMAIN sessions \ DOMAIN Pruned,
           NEW i \in DOMAIN taken[d].sequences, NEW p \in network,
           p.device = d, p.boot = taken[d].boot, p.sequence <= taken[d].sequences[i]
    PROVE  p.timestamp + MAX_PAST_SKEW < now
<1> USE EdgeGuardAssumption
<1>0. EdgeTypes /\ SessionsCover
  BY DEF EdgeInv
<1>1. /\ sessions[d] \in Session /\ d \in Devices /\ p \in Packet /\ now \in Nat
      /\ taken[d].sequences[i] \in Int
  BY <1>0 DEF EdgeTypes
<1>2. /\ p.timestamp \in Int /\ p.sequence \in Int /\ sessions[d].seen \in Nat
      /\ sessions[d].sequence \in Int /\ SessionTTL \in Nat /\ MAX_PAST_SKEW \in Nat
  BY <1>1 DEF Session, Packet
<1>3. now - sessions[d].seen > SessionTTL
  BY <1>0, PrunedDropsTheExpired
<1>4. sessions[d].boot = p.boot /\ taken[d].sequences[i] <= sessions[d].sequence
  BY <1>0 DEF SessionsCover
<1>5. p.sequence <= sessions[d].sequence
  BY <1>1, <1>2, <1>4
<1>6. p.timestamp + MAX_PAST_SKEW <= sessions[d].seen + SessionTTL
  BY <1>0, <1>4, <1>5 DEF SessionsCover
<1> QED
  BY <1>1, <1>2, <1>3, <1>6

\* pruneExpired alone, as when the packet is refused.
LEMMA RefusalKeeps ==
    ASSUME EdgeInv, sessions' = Pruned, UNCHANGED <<now, source, network, taken>>
    PROVE  EdgeInv'
<1>0. EdgeTypes /\ PacketsWereSent /\ TakenWasSent /\ SessionsCover /\ ForgottenAreOld
  BY DEF EdgeInv
<1>1. /\ DOMAIN sessions' \subseteq DOMAIN sessions
      /\ \A d \in DOMAIN sessions' : sessions'[d] = sessions[d]
  BY <1>0, PrunedDropsTheExpired
<1>2. EdgeTypes' /\ PacketsWereSent' /\ TakenWasSent' /\ SequencesRise'
  BY <1>0, <1>1 DEF EdgeInv, EdgeTypes, PacketsWereSent, TakenWasSent, SequencesRise, Passed
<1>3. SessionsCover'
  BY <1>0, <1>1 DEF SessionsCover, Passed
<1>4. ForgottenAreOld'
  BY <1>0, DroppedAreOld DEF ForgottenAreOld
<1> QED
  BY <1>2, <1>3, <1>4 DEF EdgeInv

\* A packet that is taken becomes the last of its device's, and all that is in the
\* network is younger than the session it opens lasts.
LEMMA TakingKeeps ==
    ASSUME EdgeInv, NEW p \in network, Judge(p, Pruned) = "ok",
           sessions' = [e \in DOMAIN Pruned \cup {p.device} |->
               IF e = p.device THEN [boot |-> p.boot, sequence |-> p.sequence,
                                     timestamp |-> p.timestamp, seen |-> now]
               ELSE Pruned[e]],
           taken' = [taken EXCEPT ![p.device] =
               [boot |-> p.boot,
                sequences |-> IF @.boot = p.boot THEN Append(@.sequences, p.sequence)
                              ELSE <<p.sequence>>]],
           UNCHANGED <<now, source, network>>
    PROVE  EdgeInv'
<1> USE EdgeGuardAssumption
<1>0. EdgeTypes /\ PacketsWereSent /\ TakenWasSent /\ SessionsCover /\ ForgottenAreOld
  BY DEF EdgeInv
<1> PICK d : d = p.device
  OBVIOUS
<1>1. /\ d \in Devices /\ p.device = d /\ p.boot \in 0..MaxBoot
      /\ p.sequence \in 0..MaxSequence /\ p.timestamp \in Int /\ now \in Nat
  BY <1>0 DEF EdgeTypes, Packet
<1>2. /\ taken[d].boot \in 0..MaxBoot /\ taken[d].sequences \in Seq(0..MaxSequence)
      /\ taken[d] \in [boot : 0..MaxBoot, sequences : Seq(0..MaxSequence)]
  BY <1>0, <1>1 DEF EdgeTypes
<1>3. /\ DOMAIN sessions' = DOMAIN Pruned \cup {d}
      /\ sessions'[d] = [boot |-> p.boot, sequence |-> p.sequence,
                         timestamp |-> p.timestamp, seen |-> now]
      /\ \A e \in DOMAIN sessions' \ {d} : e \in DOMAIN sessions /\ sessions'[e] = sessions[e]
      /\ d \in DOMAIN sessions'
  BY <1>0, <1>1, PrunedDropsTheExpired
<1>4. /\ taken'[d].boot = p.boot
      /\ taken'[d].sequences = IF taken[d].boot = p.boot
                               THEN Append(taken[d].sequences, p.sequence)
                               ELSE <<p.sequence>>
      /\ \A e \in Devices \ {d} : taken'[e] = taken[e]
      /\ taken'[d].sequences \in Seq(0..MaxSequence)
      /\ taken' \in [Devices -> [boot : 0..MaxBoot, sequences : Seq(0..MaxSequence)]]
  <2>1. taken \in [Devices -> [boot : 0..MaxBoot, sequences : Seq(0..MaxSequence)]]
    BY <1>0 DEF EdgeTypes
  <2> DEFINE more == IF taken[d].boot = p.boot THEN Append(taken[d].sequences, p.sequence)
                     ELSE <<p.sequence>>
  <2>2. more \in Seq(0..MaxSequence)
    <3>1. Append(taken[d].sequences, p.sequence) \in Seq(0..MaxSequence)
      BY <1>1, <1>2
    <3>2. <<p.sequence>> \in Seq(0..MaxSequence)
      BY <1>1
    <3> QED
      BY <3>1, <3>2
  <2>3. taken' = [taken EXCEPT ![d] = [boot |-> p.boot, sequences |-> more]]
    BY <1>1
  <2>4. taken'[d] = [boot |-> p.boot, sequences |-> more]
    BY <1>1, <2>1, <2>3
  <2>5. taken'[d].sequences = more
    BY <2>4
  <2> HIDE DEF more
  <2>6. /\ \A e \in Devices \ {d} : taken'[e] = taken[e]
        /\ taken' \in [Devices -> [boot : 0..MaxBoot, sequences : Seq(0..MaxSequence)]]
    <3>1. [boot |-> p.boot, sequences |-> more]
             \in [boot : 0..MaxBoot, sequences : Seq(0..MaxSequence)]
      BY <1>1, <2>2
    <3>2. d \in Devices
      BY <1>1
    <3> QED
      BY ONLY SMTT(30), <2>1, <2>3, <3>1, <3>2
  <2>7. taken'[d].boot = p.boot
    BY <2>4
  <2> QED
    BY <2>2, <2>5, <2>6, <2>7 DEF more
<1>5. /\ Rises(taken'[d].sequences)
      /\ \A i \in DOMAIN taken'[d].sequences : taken'[d].sequences[i] <= p.sequence
  <2>1. CASE taken[d].boot = p.boot
    <3>1. \A i \in DOMAIN taken[d].sequences : taken[d].sequences[i] < p.sequence
      BY <1>1, <2>1, TakenFollows
    <3>2. Rises(taken[d].sequences)
      BY <1>1 DEF EdgeInv, SequencesRise, Rises
    <3> PICK s : s = taken[d].sequences
      OBVIOUS
    <3>3. s \in Seq(Nat) /\ p.sequence \in Nat /\ taken'[d].sequences = Append(s, p.sequence)
      BY <1>1, <1>2, <1>4, <2>1
    <3>4. /\ Rises(Append(s, p.sequence))
          /\ \A i \in DOMAIN Append(s, p.sequence) : Append(s, p.sequence)[i] <= p.sequence
      BY <3>1, <3>2, <3>3, RisesFurther
    <3> QED
      BY <3>3, <3>4
  <2>2. CASE taken[d].boot # p.boot
    BY <1>1, <1>4, <2>2 DEF Rises
  <2> QED
    BY <2>1, <2>2
<1>6. /\ Passed(d, p.boot, p.sequence)
      /\ \A e, b, n : Passed(e, b, n)' <=> Passed(e, b, n)
  BY <1>0, <1>1 DEF PacketsWereSent, Passed
<1>7. EdgeTypes'
  <2>1. sessions'[d] \in Session
    BY <1>1, <1>3 DEF Session
  <2> QED
    BY <1>0, <1>1, <1>3, <1>4, <2>1 DEF EdgeTypes
<1>8. PacketsWereSent'
  BY <1>0 DEF PacketsWereSent, Passed
<1>9. TakenWasSent'
  <2> PICK s : s = taken'[d].sequences
    OBVIOUS
  <2>1. ASSUME NEW i \in DOMAIN s
        PROVE  Passed(d, p.boot, s[i])
    <3>1. s \in Seq(0..MaxSequence) /\ s[i] <= p.sequence
      BY <1>4, <1>5
    <3>2. s[i] \in 0..MaxSequence
      <4>1. s \in Seq(0..MaxSequence) /\ i \in 1..Len(s)
        BY <3>1, <2>1
      <4> QED
        BY <4>1, ElementOfSeq
    <3>3. source[d].next \in Nat
      BY <1>0, <1>1 DEF EdgeTypes
    <3> PICK n, m, k : n = s[i] /\ m = p.sequence /\ k = source[d].next
      OBVIOUS
    <3>4. n \in Nat /\ m \in Nat /\ k \in Nat /\ n <= m
      BY SMTT(30), <1>1, <3>1, <3>2, <3>3
    <3>5. p.boot < source[d].boot \/ (p.boot = source[d].boot /\ m < k)
      BY <1>6 DEF Passed
    <3>6. p.boot < source[d].boot \/ (p.boot = source[d].boot /\ n < k)
      BY <3>4, <3>5
    <3> QED
      BY <3>6 DEF Passed
  <2>2. ASSUME NEW e \in Devices, NEW i \in DOMAIN taken'[e].sequences
        PROVE  Passed(e, taken'[e].boot, taken'[e].sequences[i])
    <3>1. CASE e = d
      BY <1>4, <2>1, <3>1
    <3>2. CASE e # d
      BY <1>0, <1>4, <3>2 DEF TakenWasSent
    <3> QED
      BY <3>1, <3>2
  <2> QED
    BY <1>6, <2>2 DEF TakenWasSent
<1>10. SessionsCover'
  <2>1. /\ sessions'[d].boot = p.boot /\ sessions'[d].seen = now
        /\ sessions'[d].sequence = p.sequence
    BY <1>3
  <2>2. \A q \in network : q.timestamp + MAX_PAST_SKEW <= now + SessionTTL
    BY <1>0 DEF PacketsWereSent
  <2>3. ASSUME NEW e \in DOMAIN sessions', e # d
        PROVE  e \in DOMAIN sessions /\ sessions'[e] = sessions[e] /\ taken'[e] = taken[e]
    BY <1>0, <1>3, <1>4, <2>3 DEF EdgeTypes
  <2>4. SUFFICES ASSUME NEW e \in DOMAIN sessions'
                 PROVE  /\ sessions'[e].boot = taken'[e].boot /\ sessions'[e].seen <= now
                        /\ Passed(e, sessions'[e].boot, sessions'[e].sequence)
                        /\ \A i \in DOMAIN taken'[e].sequences :
                              taken'[e].sequences[i] <= sessions'[e].sequence
                        /\ \A q \in network :
                              q.device = e /\ q.boot = sessions'[e].boot
                              /\ q.sequence <= sessions'[e].sequence =>
                                  q.timestamp + MAX_PAST_SKEW <= sessions'[e].seen + SessionTTL
    BY <1>6, <2>4 DEF SessionsCover
  <2>5. CASE e = d
    <3>1. /\ sessions'[e].boot = taken'[e].boot /\ sessions'[e].seen <= now
          /\ Passed(e, sessions'[e].boot, sessions'[e].sequence)
      BY <1>1, <1>4, <1>6, <2>1, <2>5
    <3>2. \A i \in DOMAIN taken'[e].sequences :
             taken'[e].sequences[i] <= sessions'[e].sequence
      BY <1>5, <2>1, <2>5
    <3> QED
      BY <2>1, <2>2, <2>5, <3>1, <3>2
  <2>6. CASE e # d
    <3>1. e \in DOMAIN sessions /\ sessions'[e] = sessions[e] /\ taken'[e] = taken[e]
      BY <2>3, <2>6
    <3>2. /\ sessions[e].boot = taken[e].boot /\ sessions[e].seen <= now
          /\ Passed(e, sessions[e].boot, sessions[e].sequence)
          /\ \A i \in DOMAIN taken[e].sequences :
                taken[e].sequences[i] <= sessions[e].sequence
          /\ \A q \in network :
                q.device = e /\ q.boot = sessions[e].boot
                /\ q.sequence <= sessions[e].sequence =>
                    q.timestamp + MAX_PAST_SKEW <= sessions[e].seen + SessionTTL
      BY <1>0, <3>1 DEF SessionsCover
    <3> QED
      BY <3>1, <3>2
  <2> QED
    BY <2>5, <2>6
<1>11. ForgottenAreOld'
  <2>1. SUFFICES ASSUME NEW e \in Devices \ DOMAIN sessions',
                        NEW i \in DOMAIN taken[e].sequences, NEW q \in network,
                        q.device = e, q.boot = taken[e].boot,
                        q.sequence <= taken[e].sequences[i]
                 PROVE  q.timestamp + MAX_PAST_SKEW < now
    BY <1>3, <1>4 DEF ForgottenAreOld
  <2>2. CASE e \in DOMAIN sessions
    BY <1>3, <2>1, <2>2, DroppedAreOld
  <2>3. CASE e \notin DOMAIN sessions
    BY <1>0, <2>1, <2>3 DEF ForgottenAreOld
  <2> QED
    BY <2>2, <2>3
<1>12. SequencesRise'
  <2>1. \A e \in Devices \ {d} : Rises(taken'[e].sequences)
    BY <1>4 DEF EdgeInv, SequencesRise, Rises
  <2> QED
    BY <1>5, <2>1 DEF SequencesRise, Rises
<1> QED
  BY <1>7, <1>8, <1>9, <1>10, <1>11, <1>12 DEF EdgeInv

\* Every step of the guard, its devices and its network keeps the invariant.
LEMMA EdgeStepInv == ASSUME ClocksAreSane PROVE EdgeInv /\ [EdgeNext]_edgeVars => EdgeInv'
<1> SUFFICES ASSUME EdgeInv, [EdgeNext]_edgeVars PROVE EdgeInv'
  OBVIOUS
<1>1. CASE \E d \in Devices, err \in ClockErrors : SendPacket(d, err)
  BY <1>1, SendKeeps
<1>2. CASE \E d \in Devices : RebootDevice(d)
  BY <1>2, RebootKeeps
<1>3. CASE DeliverPacket
  <2>1. PICK p \in network : AcceptPacket(p)
    BY <1>3 DEF DeliverPacket
  <2>2. CASE Judge(p, Pruned) # "ok"
    BY <2>1, <2>2, RefusalKeeps DEF AcceptPacket
  <2>3. CASE Judge(p, Pruned) = "ok"
    BY <2>1, <2>3, TakingKeeps DEF AcceptPacket
  <2> QED
    BY <2>2, <2>3
<1>4. CASE LosePacket
  <2>1. network' \subseteq network /\ UNCHANGED <<now, source, sessions, taken>>
    BY <1>4 DEF LosePacket
  <2> QED
    BY <2>1 DEF EdgeInv, EdgeTypes, PacketsWereSent, TakenWasSent, SessionsCover,
       ForgottenAreOld, SequencesRise, Passed
<1>5. CASE EdgeTick
  BY <1>5, TickKeeps
<1>6. CASE UNCHANGED edgeVars
  BY <1>6 DEF edgeVars, EdgeInv, EdgeTypes, PacketsWereSent, TakenWasSent, SessionsCover,
     ForgottenAreOld, SequencesRise, Passed
<1> QED
  BY <1>1, <1>2, <1>3, <1>4, <1>5, <1>6 DEF EdgeNext

\* Between two changes of its boot no device is ever taken back, whatever the network
\* repeats, delays or reorders and whenever its session expires, if no clock is further
\* ahead than a session lasts beyond MAX_PAST_SKEW_MS.
THEOREM DevicesAreNotTakenBack == ASSUME ClocksAreSane PROVE EdgeSpec => []SequencesRise
<1>1. EdgeInit => EdgeInv
  BY EdgeGuardAssumption DEF EdgeInit, EdgeInv, EdgeTypes, PacketsWereSent, TakenWasSent,
     SessionsCover, ForgottenAreOld, SequencesRise
<1>2. EdgeInv /\ [EdgeNext]_edgeVars => EdgeInv'
  BY EdgeStepInv
<1>3. EdgeInv => SequencesRise
  BY DEF EdgeInv
<1> QED
  BY <1>1, <1>2, <1>3, PTL DEF EdgeSpec

(***************************************************************************)
(* The types of the packet guard, and what its refusals for want of a session   *)
(* mean; neither depends on the clocks of the devices.                            *)
(***************************************************************************)
EdgeShape ==
    /\ EdgeTypes /\ lastPrune \in Nat
    /\ FullOfTheLiving

\* A packet is a record, and a session is one.
LEMMA AcceptKeepsShape ==
    ASSUME EdgeShape, NEW p \in network, AcceptPacket(p)
    PROVE  EdgeShape'
<1> USE DEF EdgeShape, EdgeTypes
<1> DEFINE open == Pruned
           d == p.device
<1>1. /\ p \in Packet /\ d \in Devices /\ p.boot \in 0..MaxBoot
      /\ p.sequence \in 0..MaxSequence /\ p.timestamp \in Int
  BY DEF Packet
<1>2. /\ DOMAIN open \subseteq DOMAIN sessions
      /\ \A e \in DOMAIN open : open[e] = sessions[e]
  BY DEF Pruned
<1>3. /\ lastPrune' \in {now, lastPrune} /\ verdict' = Judge(p, open)
      /\ UNCHANGED <<now, source, network>>
  BY DEF AcceptPacket
<1>4. CASE verdict' # "ok"
  <2>1. sessions' = open /\ taken' = taken
    BY <1>4 DEF AcceptPacket
  <2>2. EdgeTypes' /\ lastPrune' \in Nat
    BY <1>2, <1>3, <2>1
  <2>3. ASSUME verdict' = "session-capacity"
        PROVE  Cardinality(DOMAIN open) >= MaxSessions /\ \A e \in DOMAIN open : Live(sessions[e])
    <3>1. Cardinality(DOMAIN open) >= MaxSessions
      BY <1>3, <2>3 DEF Judge
    <3>2. PruneDue
      BY <3>1 DEF Pruned, PruneDue
    <3>3. open = [e \in {f \in DOMAIN sessions : Live(sessions[f])} |-> sessions[e]]
      BY <3>2 DEF Pruned
    <3> HIDE DEF open
    <3> QED
      BY <3>1, <3>3
  <2>4. FullOfTheLiving'
    BY <1>2, <1>3, <2>1, <2>3 DEF FullOfTheLiving, Live
  <2> QED
    BY <2>2, <2>4
<1>5. CASE verdict' = "ok"
  <2> DEFINE s == [boot |-> p.boot, sequence |-> p.sequence, timestamp |-> p.timestamp, seen |-> now]
             old == taken[d]
             t == [boot |-> p.boot,
                   sequences |-> IF old.boot = p.boot THEN Append(old.sequences, p.sequence)
                                 ELSE <<p.sequence>>]
  <2>1. /\ sessions' = [e \in DOMAIN open \cup {d} |-> IF e = d THEN s ELSE open[e]]
        /\ taken' = [taken EXCEPT ![d] = t]
    BY <1>5 DEF AcceptPacket
  <2>2. s \in Session
    BY <1>1 DEF Session
  <2>3. t \in [boot : 0..MaxBoot, sequences : Seq(0..MaxSequence)]
    <3>1. old.sequences \in Seq(0..MaxSequence)
      BY <1>1
    <3>2. /\ Append(old.sequences, p.sequence) \in Seq(0..MaxSequence)
          /\ <<p.sequence>> \in Seq(0..MaxSequence)
      BY <1>1, <3>1
    <3> QED
      BY <1>1, <3>2
  <2> HIDE DEF s, t, open
  <2>4. taken' \in [Devices -> [boot : 0..MaxBoot, sequences : Seq(0..MaxSequence)]]
    BY <1>1, <2>1, <2>3
  <2>5. DOMAIN sessions' \subseteq Devices /\ \A e \in DOMAIN sessions' : sessions'[e] \in Session
    BY <1>1, <1>2, <2>1, <2>2
  <2> QED
    BY <1>3, <1>5, <2>4, <2>5 DEF FullOfTheLiving
<1> QED
  BY <1>4, <1>5

\* Every step keeps the types.
LEMMA EdgeShapeStep == EdgeShape /\ [EdgeNext]_edgeVars => EdgeShape'
<1> SUFFICES ASSUME EdgeShape, [EdgeNext]_edgeVars PROVE EdgeShape'
  OBVIOUS
<1> USE EdgeGuardAssumption DEF EdgeShape, EdgeTypes
<1>1. ASSUME NEW d \in Devices, NEW err \in ClockErrors, SendPacket(d, err) PROVE EdgeShape'
  <2> DEFINE p == [device |-> d, boot |-> source[d].boot, sequence |-> source[d].next,
                   timestamp |-> now + err]
             src == [boot |-> source[d].boot, next |-> source[d].next + 1]
  <2>1. /\ source[d] \in [boot : 0..MaxBoot, next : 0..MaxSequence + 1]
        /\ MaxSequence \in Nat /\ now \in Int /\ err \in Int
    OBVIOUS
  <2>2. source[d].next <= MaxSequence /\ source' = [source EXCEPT ![d].next = @ + 1]
        /\ network' = network \cup {p} /\ verdict' = "none"
        /\ UNCHANGED <<now, sessions, lastPrune, taken>>
    BY <1>1 DEF SendPacket
  <2>3. source[d].boot \in 0..MaxBoot /\ source[d].next \in 0..MaxSequence
    BY ONLY <2>1, <2>2
  <2>4. p \in Packet
    <3>1. now + err \in Int
      BY ONLY <2>1
    <3> QED
      BY <2>3, <3>1 DEF Packet
  <2>5. src \in [boot : 0..MaxBoot, next : 0..MaxSequence + 1]
    <3>1. source[d].next + 1 \in 0..MaxSequence + 1
      BY ONLY <2>1, <2>3
    <3> QED
      BY <2>3, <3>1
  <2>6. [source[d] EXCEPT !.next = source[d].next + 1] = src
    BY ONLY <2>1
  <2>7. source' = [source EXCEPT ![d] = [source[d] EXCEPT !.next = source[d].next + 1]]
    BY <2>2
  <2> HIDE DEF p, src
  <2>8. source' \in [Devices -> [boot : 0..MaxBoot, next : 0..MaxSequence + 1]]
    BY <2>5, <2>6, <2>7
  <2> QED
    BY <2>2, <2>4, <2>8 DEF FullOfTheLiving
<1>2. ASSUME NEW d \in Devices, RebootDevice(d) PROVE EdgeShape'
  <2> DEFINE src == [boot |-> source[d].boot + 1, next |-> 0]
  <2>1. src \in [boot : 0..MaxBoot, next : 0..MaxSequence + 1]
    BY <1>2 DEF RebootDevice
  <2>2. source' = [source EXCEPT ![d] = src] /\ verdict' = "none"
        /\ UNCHANGED <<now, network, sessions, lastPrune, taken>>
    BY <1>2 DEF RebootDevice
  <2> HIDE DEF src
  <2> QED
    BY <2>1, <2>2 DEF FullOfTheLiving
<1>3. CASE DeliverPacket
  BY <1>3, AcceptKeepsShape DEF DeliverPacket
<1>4. CASE LosePacket
  BY <1>4 DEF LosePacket, FullOfTheLiving
<1>5. CASE EdgeTick
  BY <1>5 DEF EdgeTick, Pass, FullOfTheLiving
<1>6. CASE UNCHANGED edgeVars
  BY <1>6 DEF edgeVars, FullOfTheLiving, Live
<1> QED
  BY <1>1, <1>2, <1>3, <1>4, <1>5, <1>6 DEF EdgeNext

\* The types hold at the start.
LEMMA EdgeShapeInit == EdgeInit => EdgeShape
  BY EdgeGuardAssumption DEF EdgeInit, EdgeShape, EdgeTypes, FullOfTheLiving

\* A guard turns a device away for want of a session only while every session is of a device
\* that was heard within the time to live, for any devices, limits and intervals.
THEOREM SessionsAreOfTheLiving == EdgeSpec => []FullOfTheLiving
<1>1. EdgeShape => FullOfTheLiving
  BY DEF EdgeShape
<1> QED
  BY <1>1, EdgeShapeInit, EdgeShapeStep, PTL DEF EdgeSpec

(***************************************************************************)
(* A legacy stream is never taken back, for any number of keys, any capacity  *)
(* and any limits: a swept entry outlived every frame it would have refused.   *)
(***************************************************************************)

\* Every frame of stream k was taken at or before timestamp t.
UpTo(k, t) == \A i \in DOMAIN frames[k] : frames[k][i] <= t

StreamInv ==
    /\ now \in Nat
    /\ frames \in [Keys -> Seq(Int)]
    /\ DOMAIN streams \subseteq Keys
    /\ \A k \in DOMAIN streams :
          /\ streams[k].timestamp \in Int /\ streams[k].seen \in Nat
          /\ streams[k].seen <= now
          /\ streams[k].timestamp <= streams[k].seen + MaxFuture
          /\ UpTo(k, streams[k].timestamp)
    /\ \A k \in Keys \ DOMAIN streams : UpTo(k, now - MaxPast - 1)
    /\ FramesRise

\* accept of the timestamp store: a frame that is taken follows those before it, and what
\* a sweep forgets is too old to come again.
LEMMA AcceptKeeps ==
    ASSUME StreamInv, NEW k \in Keys, NEW t \in 0..MaxTime, AcceptFrame(k, t)
    PROVE  StreamInv'
<1> USE BoundedStateAssumption
<1> PICK kept : kept = IF k \notin DOMAIN streams /\ Full(streams)
                       THEN Only(streams, {j \in DOMAIN streams : Fresh(streams[j])})
                       ELSE streams
  OBVIOUS
<1>1. /\ now \in Nat /\ now' = now /\ t \in Int /\ MaxPast \in Nat /\ MaxFuture \in Nat
      /\ StreamTTL \in Nat /\ StreamTTL > MaxPast + MaxFuture
      /\ t <= now + MaxFuture /\ now - t <= MaxPast
      /\ k \in DOMAIN streams => t > streams[k].timestamp
      /\ frames \in [Keys -> Seq(Int)]
  BY ClockAssumption DEF AcceptFrame, StreamInv
<1>2. /\ \A j \in DOMAIN kept : j \in DOMAIN streams /\ kept[j] = streams[j]
      /\ \A j \in DOMAIN streams \ DOMAIN kept : ~Fresh(streams[j])
  BY DEF Only
<1>3. \A j \in Keys \ DOMAIN kept : UpTo(j, now - MaxPast - 1)
  <2>1. SUFFICES ASSUME NEW j \in DOMAIN streams \ DOMAIN kept, NEW i \in DOMAIN frames[j]
                 PROVE  frames[j][i] <= now - MaxPast - 1
    BY DEF StreamInv, UpTo
  <2>2. /\ streams[j].seen \in Nat /\ streams[j].timestamp \in Int /\ j \in Keys
        /\ streams[j].timestamp <= streams[j].seen + MaxFuture
        /\ frames[j][i] <= streams[j].timestamp
    BY <2>1 DEF StreamInv, UpTo
  <2>3. now - streams[j].seen >= StreamTTL
    <3>1. ~(now - streams[j].seen < StreamTTL)
      BY <1>2, <2>1 DEF Fresh
    <3>2. now \in Nat /\ streams[j].seen \in Nat /\ StreamTTL \in Nat
      BY <1>1, <2>2
    <3> QED
      BY ONLY <3>1, <3>2
  <2>4. frames[j][i] \in Int
    BY <1>1, <2>2, ElementOfSeq
  <2> QED
    BY SMTT(30), <1>1, <2>2, <2>3, <2>4
<1>4. CASE k \notin DOMAIN streams /\ Full(kept)
  <2>1. streams' = kept /\ frames' = frames
    BY <1>4 DEF AcceptFrame
  <2>2. \A j \in Keys \ DOMAIN streams' : UpTo(j, now - MaxPast - 1)'
    BY <1>1, <1>3, <2>1 DEF UpTo
  <2> QED
    BY <1>1, <1>2, <2>1, <2>2 DEF StreamInv, UpTo, FramesRise
<1>5. CASE ~(k \notin DOMAIN streams /\ Full(kept))
  <2>1. /\ streams' = [j \in DOMAIN kept \cup {k} |->
                          IF j = k THEN [timestamp |-> t, seen |-> now] ELSE kept[j]]
        /\ frames' = [frames EXCEPT ![k] = Append(@, t)]
    BY <1>5 DEF AcceptFrame, Stored
  <2> PICK s : s = frames[k]
    OBVIOUS
  <2>2. /\ s \in Seq(Int) /\ frames'[k] = Append(s, t)
        /\ frames' \in [Keys -> Seq(Int)]
        /\ \A j \in Keys \ {k} : frames'[j] = frames[j]
    BY <1>1, <2>1
  <2>3. \A i \in DOMAIN s : s[i] \in Int /\ s[i] < t
    <3>1. SUFFICES ASSUME NEW i \in DOMAIN s PROVE s[i] \in Int /\ s[i] < t
      OBVIOUS
    <3>2. s[i] \in Int
      BY <2>2, ElementOfSeq
    <3>3. CASE k \in DOMAIN streams
      <4>1. streams[k].timestamp \in Int /\ s[i] <= streams[k].timestamp
        BY <3>3 DEF StreamInv, UpTo
      <4> QED
        BY <1>1, <3>2, <3>3, <4>1
    <3>4. CASE k \notin DOMAIN streams
      <4>1. s[i] <= now - MaxPast - 1
        BY <3>4 DEF StreamInv, UpTo
      <4> QED
        BY <1>1, <3>2, <4>1
    <3> QED
      BY <3>2, <3>3, <3>4
  <2>4. /\ \A i \in DOMAIN Append(s, t) : Append(s, t)[i] <= t
        /\ \A i, j \in DOMAIN Append(s, t) : i < j => Append(s, t)[i] < Append(s, t)[j]
    <3>1. \A i, j \in DOMAIN s : i < j => s[i] < s[j]
      BY DEF StreamInv, FramesRise
    <3>2. /\ DOMAIN Append(s, t) = 1..Len(s) + 1 /\ DOMAIN s = 1..Len(s)
          /\ Append(s, t)[Len(s) + 1] = t /\ Len(s) \in Nat
          /\ \A i \in 1..Len(s) : Append(s, t)[i] = s[i]
      BY <1>1, <2>2, AppendProperties
    <3>3. \A i \in 1..Len(s) + 1 : i \in 1..Len(s) \/ i = Len(s) + 1
      BY <3>2
    <3>4. ASSUME NEW i \in 1..Len(s) + 1 PROVE Append(s, t)[i] <= t
      BY <1>1, <2>3, <3>2, <3>3
    <3>5. ASSUME NEW i \in 1..Len(s) + 1, NEW j \in 1..Len(s) + 1, i < j
          PROVE  Append(s, t)[i] < Append(s, t)[j]
      <4>1. i \in 1..Len(s)
        BY <3>2, <3>5
      <4> QED
        BY <2>3, <3>1, <3>2, <3>3, <3>5, <4>1
    <3> QED
      BY <3>2, <3>4, <3>5
  <2>5. FramesRise'
    <3>1. \A j \in Keys : j # k => \A a, b \in DOMAIN frames'[j] :
             a < b => frames'[j][a] < frames'[j][b]
      BY <2>2 DEF StreamInv, FramesRise
    <3> QED
      BY <2>2, <2>4, <3>1 DEF FramesRise
  <2>6. ASSUME NEW j \in DOMAIN streams'
        PROVE  /\ streams'[j].timestamp \in Int /\ streams'[j].seen \in Nat
               /\ streams'[j].seen <= now
               /\ streams'[j].timestamp <= streams'[j].seen + MaxFuture
               /\ \A i \in DOMAIN frames'[j] : frames'[j][i] <= streams'[j].timestamp
    <3>1. CASE j = k
      <4>1. streams'[j].timestamp = t /\ streams'[j].seen = now
        BY <2>1, <3>1
      <4>2. \A i \in DOMAIN frames'[j] : frames'[j][i] <= t
        BY <2>2, <2>4, <3>1
      <4>3. t <= now + MaxFuture /\ now <= now /\ t \in Int
        BY <1>1
      <4> QED
        BY <1>1, <4>1, <4>2, <4>3
    <3>2. CASE j # k
      <4>1. j \in DOMAIN streams /\ streams'[j] = streams[j] /\ j \in Keys
        BY <1>2, <2>1, <3>2 DEF StreamInv
      <4> QED
        BY <2>2, <3>2, <4>1 DEF StreamInv, UpTo
    <3> QED
      BY <3>1, <3>2
  <2>7. \A j \in Keys \ DOMAIN streams' : \A i \in DOMAIN frames'[j] :
            frames'[j][i] <= now - MaxPast - 1
    BY <1>3, <2>1, <2>2 DEF UpTo
  <2>8. DOMAIN streams' \subseteq Keys
    BY <1>2, <2>1 DEF StreamInv
  <2> QED
    BY <1>1, <2>2, <2>5, <2>6, <2>7, <2>8 DEF StreamInv, UpTo
<1> QED
  BY <1>4, <1>5

\* Time passing leaves what the streams promise.
LEMMA PassKeeps ==
    ASSUME StreamInv, Pass, streams' = streams, frames' = frames
    PROVE  StreamInv'
<1>1. now' = now + 1 /\ streams' = streams /\ frames' = frames
  BY DEF Pass
<1>2. now \in Nat /\ MaxPast \in Nat /\ frames \in [Keys -> Seq(Int)]
  BY BoundedStateAssumption DEF StreamInv
<1>3. ASSUME NEW k \in Keys \ DOMAIN streams, NEW i \in DOMAIN frames[k]
      PROVE  frames[k][i] <= now' - MaxPast - 1
  <2>1. frames[k][i] \in Int
    BY <1>2, ElementOfSeq
  <2>2. frames[k][i] <= now - MaxPast - 1
    BY DEF StreamInv, UpTo
  <2> QED
    BY <1>1, <1>2, <2>1, <2>2
<1>4. \A k \in DOMAIN streams : streams[k].seen \in Nat /\ streams[k].seen <= now + 1
  BY <1>2 DEF StreamInv
<1> QED
  BY <1>1, <1>2, <1>3, <1>4 DEF StreamInv, UpTo, FramesRise

\* Every step of the bounded stores keeps the streams in order.
LEMMA BoundedStepInv == StreamInv /\ [BoundedNext]_boundedVars => StreamInv'
<1> SUFFICES ASSUME StreamInv, [BoundedNext]_boundedVars PROVE StreamInv'
  OBVIOUS
<1>1. CASE \E k \in Keys, t \in 0..MaxTime : AcceptFrame(k, t)
  BY <1>1, AcceptKeeps
<1>2. CASE (\E k \in Keys : Consume(k)) \/ UNCHANGED boundedVars
  BY <1>2 DEF Consume, boundedVars, StreamInv, UpTo, FramesRise
<1>3. CASE BoundedTick
  BY <1>3, PassKeeps DEF BoundedTick
<1> QED
  BY <1>1, <1>2, <1>3 DEF BoundedNext

\* No legacy frame is used twice or after a later one, although its stream may be swept
\* while the store is full.
THEOREM StreamsAreNotTakenBack == BoundedSpec => []FramesRise
<1>1. BoundedInit => StreamInv
  BY DEF BoundedInit, StreamInv, UpTo, FramesRise
<1>2. StreamInv => FramesRise
  BY DEF StreamInv
<1> QED
  BY <1>1, <1>2, BoundedStepInv, PTL DEF BoundedSpec

(***************************************************************************)
(* A caller is not let through more often for a window that was swept, for     *)
(* any keys, capacity, limit and window: the invariant says how long ago the    *)
(* calls came that the present window does not count.                           *)
(***************************************************************************)

\* The first n calls of s came at time t or before.
CameBy(s, n, t) == \A i \in DOMAIN s : i <= n => s[i] <= t

\* A call comes a window or more after the one 2 * RateLimit before it.
Spaced(s) ==
    \A i \in DOMAIN s : i + 2 * RateLimit \in DOMAIN s =>
        s[i + 2 * RateLimit] - s[i] >= RateWindow

\* Of the calls s, those before window w came when it started or earlier, and before the
\* last of those, as many as a window may count, a window length earlier.
WindowCovers(w, s) ==
    /\ w.started \in Nat /\ w.started <= now /\ w.count \in 1..RateLimit
    /\ CameBy(s, Len(s) - w.count, w.started)
    /\ CameBy(s, Len(s) - w.count - RateLimit, w.started - RateWindow)

\* What the calls s must be like for the next one to start a window.
MayStart(s) == CameBy(s, Len(s) - RateLimit, now - RateWindow)

RateInv ==
    /\ now \in Nat
    /\ calls \in [Keys -> Seq(Nat)]
    /\ DOMAIN windows \subseteq Keys /\ IsFiniteSet(DOMAIN windows)
    /\ Cardinality(DOMAIN windows) <= MaxKeys
    /\ IsFiniteSet(DOMAIN streams) /\ Cardinality(DOMAIN streams) <= MaxKeys
    /\ \A k \in Keys : CameBy(calls[k], Len(calls[k]), now) /\ Spaced(calls[k])
    /\ \A k \in DOMAIN windows : WindowCovers(windows[k], calls[k])
    /\ \A k \in Keys \ DOMAIN windows : MayStart(calls[k])

\* A window that is over covers what no window has to cover any more.
LEMMA OverCovers ==
    ASSUME now \in Nat, NEW w, NEW s \in Seq(Nat), WindowCovers(w, s), ~Running(w)
    PROVE  MayStart(s)
<1>1. /\ w.started \in Nat /\ w.count \in 1..RateLimit
      /\ \A i \in DOMAIN s : i <= Len(s) - w.count => s[i] <= w.started
  BY DEF WindowCovers, CameBy
<1>2. /\ RateLimit \in Nat \ {0} /\ RateWindow \in Nat
      /\ DOMAIN s = 1..Len(s) /\ Len(s) \in Nat
      /\ \A i \in DOMAIN s : s[i] \in Nat
  BY BoundedStateAssumption, LenProperties, ElementOfSeq
<1>3. w.started <= now - RateWindow
  BY <1>1, <1>2 DEF Running
<1>4. ASSUME NEW i \in DOMAIN s, i <= Len(s) - RateLimit
      PROVE  s[i] <= now - RateWindow
  <2>1. i <= Len(s) - w.count
    BY <1>1, <1>2, <1>4
  <2> QED
    BY <1>1, <1>2, <1>3, <2>1
<1> QED
  BY <1>4 DEF MayStart, CameBy

\* One more call at this time: what came before is in its place, and the limit holds for
\* the new call if the one 2 * RateLimit before it is a window old.
LEMMA OneMoreCall ==
    ASSUME now \in Nat, NEW s \in Seq(Nat), CameBy(s, Len(s), now), Spaced(s),
           CameBy(s, Len(s) + 1 - 2 * RateLimit, now - RateWindow)
    PROVE  /\ Append(s, now) \in Seq(Nat) /\ Len(Append(s, now)) = Len(s) + 1
           /\ CameBy(Append(s, now), Len(s) + 1, now)
           /\ Spaced(Append(s, now))
           /\ \A n \in Int, t \in Int :
                 n <= Len(s) /\ CameBy(s, n, t) => CameBy(Append(s, now), n, t)
<1> DEFINE u == Append(s, now)
<1>1. RateLimit \in Nat \ {0} /\ RateWindow \in Nat /\ now \in Nat
  BY BoundedStateAssumption
<1>2. /\ u \in Seq(Nat) /\ Len(u) = Len(s) + 1 /\ Len(s) \in Nat
      /\ DOMAIN s = 1..Len(s)
      /\ \A i \in 1..Len(s) : u[i] = s[i] /\ s[i] \in Nat
      /\ u[Len(s) + 1] = now
  BY AppendProperties, LenProperties, ElementOfSeq
<1> HIDE DEF u
<1>3. DOMAIN u = 1..Len(s) + 1
  BY <1>2, LenProperties
<1>4. \A i \in 1..Len(s) + 1 : i \in 1..Len(s) \/ i = Len(s) + 1
  BY <1>2
<1>5. CameBy(u, Len(s) + 1, now)
  BY <1>1, <1>2, <1>3, <1>4 DEF CameBy
<1>6. ASSUME NEW i \in DOMAIN u, i + 2 * RateLimit \in DOMAIN u
      PROVE  u[i + 2 * RateLimit] - u[i] >= RateWindow
  <2>1. i \in 1..Len(s) /\ u[i] = s[i] /\ s[i] \in Nat
    <3>1. i \in 1..Len(s) + 1 /\ i + 2 * RateLimit \in 1..Len(s) + 1
      BY <1>3, <1>6
    <3>2. i \in 1..Len(s)
      BY ONLY <1>1, <1>2, <3>1
    <3> QED
      BY <1>2, <3>2
  <2>2. CASE i + 2 * RateLimit = Len(s) + 1
    <3>1. i <= Len(s) + 1 - 2 * RateLimit
      BY <1>1, <1>2, <2>1, <2>2
    <3>2. s[i] <= now - RateWindow
      BY <1>2, <2>1, <3>1 DEF CameBy
    <3>3. u[i + 2 * RateLimit] = now
      BY <1>2, <2>2
    <3> QED
      BY <1>1, <2>1, <3>2, <3>3
  <2>3. CASE i + 2 * RateLimit # Len(s) + 1
    <3>1. i + 2 * RateLimit \in 1..Len(s)
      BY <1>1, <1>2, <1>3, <1>6, <2>1, <2>3
    <3> QED
      BY <1>2, <2>1, <3>1 DEF Spaced
  <2> QED
    BY <2>2, <2>3
<1>7. ASSUME NEW n \in Int, NEW t \in Int, n <= Len(s), CameBy(s, n, t)
      PROVE  CameBy(u, n, t)
  BY <1>2, <1>3, <1>7 DEF CameBy
<1> QED
  BY <1>2, <1>5, <1>6, <1>7 DEF Spaced, u

\* The same window after one more call of it.
LEMMA CountedCall ==
    ASSUME now \in Nat, NEW s \in Seq(Nat), CameBy(s, Len(s), now), Spaced(s),
           NEW w, NEW v, WindowCovers(w, s), w.count < RateLimit,
           v.started = w.started, v.count = w.count + 1
    PROVE  /\ Append(s, now) \in Seq(Nat) /\ WindowCovers(v, Append(s, now))
           /\ CameBy(Append(s, now), Len(Append(s, now)), now) /\ Spaced(Append(s, now))
<1>1. RateLimit \in Nat \ {0} /\ RateWindow \in Nat /\ now \in Nat
  BY BoundedStateAssumption
<1>2. /\ w.started \in Nat /\ w.started <= now /\ w.count \in 1..RateLimit
      /\ CameBy(s, Len(s) - w.count, w.started)
      /\ CameBy(s, Len(s) - w.count - RateLimit, w.started - RateWindow)
  BY DEF WindowCovers
<1>3. Len(s) \in Nat /\ DOMAIN s = 1..Len(s) /\ \A i \in DOMAIN s : s[i] \in Nat
  BY LenProperties, ElementOfSeq
<1>4. CameBy(s, Len(s) + 1 - 2 * RateLimit, now - RateWindow)
  <2>1. ASSUME NEW i \in DOMAIN s, i <= Len(s) + 1 - 2 * RateLimit
        PROVE  s[i] <= now - RateWindow
    <3>1. i <= Len(s) - w.count - RateLimit
      BY SMTT(30), <1>1, <1>2, <1>3, <2>1
    <3>2. s[i] <= w.started - RateWindow
      BY <1>2, <3>1 DEF CameBy
    <3> QED
      BY <1>1, <1>2, <1>3, <3>2
  <2> QED
    BY <2>1 DEF CameBy
<1>5. /\ Append(s, now) \in Seq(Nat) /\ Len(Append(s, now)) = Len(s) + 1
      /\ CameBy(Append(s, now), Len(s) + 1, now)
      /\ Spaced(Append(s, now))
      /\ \A n \in Int, t \in Int :
            n <= Len(s) /\ CameBy(s, n, t) => CameBy(Append(s, now), n, t)
  BY <1>4, OneMoreCall
<1> DEFINE earlier == Len(s) - w.count
<1>6. /\ earlier \in Int /\ earlier <= Len(s)
      /\ earlier - RateLimit \in Int /\ earlier - RateLimit <= Len(s)
      /\ w.started \in Int /\ w.started - RateWindow \in Int
      /\ v.started \in Nat /\ v.started <= now
  BY SMTT(30), <1>1, <1>2, <1>3
<1>7. v.count \in 1..RateLimit
  BY SMTT(30), <1>1, <1>2
<1>8. Len(Append(s, now)) - v.count = earlier
  BY SMTT(30), <1>2, <1>3, <1>5
<1> HIDE DEF earlier
<1>9. CameBy(Append(s, now), earlier, w.started)
  BY <1>2, <1>5, <1>6 DEF earlier
<1>10. CameBy(Append(s, now), earlier - RateLimit, w.started - RateWindow)
  BY <1>2, <1>5, <1>6 DEF earlier
<1> QED
  BY <1>5, <1>6, <1>7, <1>8, <1>9, <1>10 DEF WindowCovers

\* A new window with its first call.
LEMMA FirstCall ==
    ASSUME now \in Nat, NEW s \in Seq(Nat), CameBy(s, Len(s), now), Spaced(s), MayStart(s)
    PROVE  /\ Append(s, now) \in Seq(Nat)
           /\ WindowCovers([started |-> now, count |-> 1], Append(s, now))
           /\ CameBy(Append(s, now), Len(Append(s, now)), now) /\ Spaced(Append(s, now))
<1>1. RateLimit \in Nat \ {0} /\ RateWindow \in Nat /\ now \in Nat
  BY BoundedStateAssumption
<1>2. Len(s) \in Nat /\ DOMAIN s = 1..Len(s)
  BY LenProperties
<1>3. CameBy(s, Len(s) + 1 - 2 * RateLimit, now - RateWindow)
  BY <1>1, <1>2 DEF MayStart, CameBy
<1>4. /\ Append(s, now) \in Seq(Nat) /\ Len(Append(s, now)) = Len(s) + 1
      /\ CameBy(Append(s, now), Len(s) + 1, now)
      /\ Spaced(Append(s, now))
      /\ \A n \in Int, t \in Int :
            n <= Len(s) /\ CameBy(s, n, t) => CameBy(Append(s, now), n, t)
  BY <1>3, OneMoreCall
<1>5. /\ Len(s) \in Int /\ Len(s) <= Len(s) /\ Len(s) - RateLimit \in Int
      /\ Len(s) - RateLimit <= Len(s) /\ now \in Int /\ now - RateWindow \in Int
      /\ Len(s) + 1 - 1 = Len(s) /\ 1 \in 1..RateLimit /\ now <= now
  BY <1>1, <1>2
<1>6. CameBy(Append(s, now), Len(s), now)
  BY <1>4, <1>5
<1>7. CameBy(Append(s, now), Len(s) - RateLimit, now - RateWindow)
  BY <1>4, <1>5 DEF MayStart
<1> QED
  BY <1>1, <1>4, <1>5, <1>6, <1>7 DEF WindowCovers

\* What a sweep before a call of k leaves of the windows: those that run, and at capacity
\* no others.
LEMMA SweptKeeps ==
    ASSUME RateInv, NEW k \in Keys, ~(k \in DOMAIN windows /\ Running(windows[k]))
    PROVE  /\ DOMAIN Swept(k) \subseteq DOMAIN windows \ {k}
           /\ \A j \in DOMAIN Swept(k) : Swept(k)[j] = windows[j]
           /\ IsFiniteSet(DOMAIN Swept(k)) /\ Cardinality(DOMAIN Swept(k)) <= MaxKeys
           /\ \A j \in DOMAIN windows \ DOMAIN Swept(k) : ~Running(windows[j])
<1> DEFINE others == Only(windows, DOMAIN windows \ {k})
<1>1. others = [j \in DOMAIN windows \ {k} |-> windows[j]]
  BY DEF Only
<1> HIDE DEF others
<1>2. Swept(k) = IF Full(others) THEN [j \in {i \in DOMAIN others : Running(others[i])} |-> others[j]]
                 ELSE others
  BY DEF Swept, Only, others
<1>3. /\ DOMAIN Swept(k) \subseteq DOMAIN windows \ {k}
      /\ \A j \in DOMAIN Swept(k) : Swept(k)[j] = windows[j]
      /\ \A j \in DOMAIN windows \ DOMAIN Swept(k) : ~Running(windows[j])
  BY <1>1, <1>2
<1>4. /\ IsFiniteSet(DOMAIN Swept(k))
      /\ Cardinality(DOMAIN Swept(k)) <= Cardinality(DOMAIN windows)
  BY <1>3, FS_Subset DEF RateInv
<1>5. /\ Cardinality(DOMAIN windows) \in Nat /\ Cardinality(DOMAIN Swept(k)) \in Nat
      /\ Cardinality(DOMAIN windows) <= MaxKeys /\ MaxKeys \in Nat
  BY <1>4, FS_CardinalityType, BoundedStateAssumption DEF RateInv
<1> QED
  BY <1>3, <1>4, <1>5

\* What is known of a caller without a window that runs.
LEMMA IdleCallerMayStart ==
    ASSUME RateInv, NEW k \in Keys, k \in DOMAIN windows => ~Running(windows[k])
    PROVE  MayStart(calls[k])
<1>1. now \in Nat /\ calls[k] \in Seq(Nat)
  BY DEF RateInv
<1>2. CASE k \in DOMAIN windows
  BY <1>1, <1>2, OverCovers DEF RateInv
<1>3. CASE k \notin DOMAIN windows
  BY <1>3 DEF RateInv
<1> QED
  BY <1>2, <1>3

\* consume, in the window that runs, in a new one, or turned away.
LEMMA ConsumeKeeps ==
    ASSUME RateInv, NEW k \in Keys, Consume(k)
    PROVE  RateInv'
<1> DEFINE s == calls[k]
           c == calls'
<1>1. now \in Nat /\ now' = now /\ streams' = streams
  BY DEF RateInv, Consume
<1>2. s \in Seq(Nat) /\ CameBy(s, Len(s), now) /\ Spaced(s) /\ calls \in [Keys -> Seq(Nat)]
  BY DEF RateInv
<1>3. CASE k \in DOMAIN windows /\ Running(windows[k])
  <2> DEFINE w == windows[k]
             v == windows'[k]
  <2>1. /\ w.count < RateLimit
        /\ windows' = [windows EXCEPT ![k].count = @ + 1]
        /\ c = [calls EXCEPT ![k] = Append(@, now)]
    BY <1>3 DEF Consume
  <2>2. WindowCovers(w, s) /\ DOMAIN windows \subseteq Keys
    BY <1>3 DEF RateInv
  <2>3. /\ DOMAIN windows' = DOMAIN windows
        /\ v = [w EXCEPT !.count = @ + 1]
        /\ \A j \in DOMAIN windows \ {k} : windows'[j] = windows[j]
    BY <1>3, <2>1
  <2>4. c[k] = Append(s, now) /\ \A j \in Keys \ {k} : c[j] = calls[j]
    BY <1>2, <2>1
  <2>5. v.started = w.started /\ v.count = w.count + 1
    BY <2>3
  <2>6. /\ Append(s, now) \in Seq(Nat) /\ WindowCovers(v, Append(s, now))
        /\ CameBy(Append(s, now), Len(Append(s, now)), now) /\ Spaced(Append(s, now))
    BY <1>1, <1>2, <2>1, <2>2, <2>5, CountedCall
  <2>7. c \in [Keys -> Seq(Nat)]
    BY <1>2, <2>1, <2>6
  <2> HIDE DEF s, w, v, c
  <2>8. /\ \A j \in Keys : CameBy(c[j], Len(c[j]), now) /\ Spaced(c[j])
        /\ \A j \in DOMAIN windows' : WindowCovers(windows'[j], c[j])
        /\ \A j \in Keys \ DOMAIN windows' : MayStart(c[j])
    BY <1>3, <2>2, <2>3, <2>4, <2>6 DEF RateInv, v
  <2> QED
    BY <1>1, <2>2, <2>3, <2>7, <2>8 DEF RateInv, c, CameBy, Spaced, WindowCovers, MayStart
<1>4. CASE ~(k \in DOMAIN windows /\ Running(windows[k]))
  <2> DEFINE left == Swept(k)
  <2>1. /\ DOMAIN left \subseteq DOMAIN windows \ {k}
        /\ \A j \in DOMAIN left : left[j] = windows[j]
        /\ IsFiniteSet(DOMAIN left) /\ Cardinality(DOMAIN left) <= MaxKeys
        /\ \A j \in DOMAIN windows \ DOMAIN left : ~Running(windows[j])
    BY <1>4, SweptKeeps
  <2>2. /\ \A j \in DOMAIN left : WindowCovers(left[j], calls[j])
        /\ \A j \in Keys \ DOMAIN left : MayStart(calls[j])
        /\ DOMAIN left \subseteq Keys
    <3>1. ASSUME NEW j \in Keys \ DOMAIN left PROVE MayStart(calls[j])
      BY <2>1, IdleCallerMayStart
    <3> QED
      BY <2>1, <3>1 DEF RateInv
  <2>3. CASE Full(left)
    <3>1. windows' = left /\ calls' = calls
      BY <1>4, <2>3 DEF Consume
    <3> QED
      BY <1>1, <2>1, <2>2, <3>1 DEF RateInv, CameBy, Spaced, WindowCovers, MayStart
  <2>4. CASE ~Full(left)
    <3> DEFINE first == [started |-> now, count |-> 1]
    <3>1. /\ windows' = [j \in DOMAIN left \cup {k} |-> IF j = k THEN first ELSE left[j]]
          /\ c = [calls EXCEPT ![k] = Append(@, now)]
      BY <1>4, <2>4 DEF Consume, Stored
    <3>2. c[k] = Append(s, now) /\ \A j \in Keys \ {k} : c[j] = calls[j]
      BY <1>2, <3>1
    <3>3. /\ Append(s, now) \in Seq(Nat)
          /\ WindowCovers(first, Append(s, now))
          /\ CameBy(Append(s, now), Len(Append(s, now)), now) /\ Spaced(Append(s, now))
      BY <1>1, <1>2, <2>1, <2>2, FirstCall
    <3>4. c \in [Keys -> Seq(Nat)]
      BY <1>2, <3>1, <3>3
    <3>5. /\ IsFiniteSet(DOMAIN windows') /\ Cardinality(DOMAIN windows') <= MaxKeys
          /\ DOMAIN windows' \subseteq Keys
      <4>1. /\ DOMAIN windows' = DOMAIN left \cup {k} /\ IsFiniteSet(DOMAIN left)
            /\ k \notin DOMAIN left
        BY <2>1, <3>1
      <4>2. Cardinality(DOMAIN left) < MaxKeys /\ Cardinality(DOMAIN left) \in Nat
        BY <2>1, <2>4, FS_CardinalityType, BoundedStateAssumption DEF Full
      <4>3. IsFiniteSet(DOMAIN windows') /\ Cardinality(DOMAIN windows') = Cardinality(DOMAIN left) + 1
        BY <4>1, FS_AddElement
      <4> QED
        BY <2>2, <4>1, <4>2, <4>3, BoundedStateAssumption
    <3> HIDE DEF s, c, left, first
    <3>6. /\ \A j \in Keys : CameBy(c[j], Len(c[j]), now) /\ Spaced(c[j])
          /\ \A j \in DOMAIN windows' : WindowCovers(windows'[j], c[j])
          /\ \A j \in Keys \ DOMAIN windows' : MayStart(c[j])
      <4>1. \A j \in DOMAIN windows' : windows'[j] = IF j = k THEN first ELSE left[j]
        BY <3>1
      <4>2. DOMAIN windows' = DOMAIN left \cup {k}
        BY <3>1
      <4> QED
        BY <2>2, <3>2, <3>3, <4>1, <4>2 DEF RateInv
    <3> QED
      BY <1>1, <3>4, <3>5, <3>6 DEF RateInv, c, CameBy, Spaced, WindowCovers, MayStart
  <2> QED
    BY <2>3, <2>4
<1> QED
  BY <1>3, <1>4

\* The timestamp store keeps within its capacity too.
LEMMA AcceptKeepsCount ==
    ASSUME RateInv, NEW k \in Keys, NEW t \in 0..MaxTime, AcceptFrame(k, t)
    PROVE  RateInv'
<1> PICK kept : kept = IF k \notin DOMAIN streams /\ Full(streams)
                       THEN Only(streams, {j \in DOMAIN streams : Fresh(streams[j])})
                       ELSE streams
  OBVIOUS
<1>1. UNCHANGED <<now, windows, calls>>
  BY DEF AcceptFrame
<1>2. DOMAIN kept \subseteq DOMAIN streams
  BY DEF Only
<1>3. /\ IsFiniteSet(DOMAIN kept) /\ Cardinality(DOMAIN kept) <= Cardinality(DOMAIN streams)
      /\ Cardinality(DOMAIN streams) \in Nat /\ Cardinality(DOMAIN streams) <= MaxKeys
      /\ MaxKeys \in Nat
  BY <1>2, FS_Subset, FS_CardinalityType, BoundedStateAssumption DEF RateInv
<1>4. Cardinality(DOMAIN kept) \in Nat
  BY <1>3, FS_CardinalityType
<1>5. IsFiniteSet(DOMAIN streams') /\ Cardinality(DOMAIN streams') <= MaxKeys
  <2>1. CASE k \notin DOMAIN streams /\ Full(kept)
    <3>1. streams' = kept
      BY <2>1 DEF AcceptFrame
    <3> QED
      BY <1>3, <1>4, <3>1
  <2>2. CASE ~(k \notin DOMAIN streams /\ Full(kept))
    <3>1. DOMAIN streams' = DOMAIN kept \cup {k}
      BY <2>2 DEF AcceptFrame, Stored
    <3>2. CASE k \in DOMAIN streams
      <4>1. DOMAIN streams' = DOMAIN streams
        BY <3>1, <3>2
      <4> QED
        BY <4>1 DEF RateInv
    <3>3. CASE k \notin DOMAIN streams
      <4>1. Cardinality(DOMAIN kept) < MaxKeys
        BY <1>3, <1>4, <2>2, <3>3 DEF Full
      <4>2. /\ IsFiniteSet(DOMAIN streams')
            /\ Cardinality(DOMAIN streams') = Cardinality(DOMAIN kept) + 1
        <5>1. k \notin DOMAIN kept /\ IsFiniteSet(DOMAIN kept)
          BY <1>2, <1>3, <3>3
        <5>2. /\ IsFiniteSet(DOMAIN kept \cup {k})
              /\ Cardinality(DOMAIN kept \cup {k}) = Cardinality(DOMAIN kept) + 1
          <6> DEFINE keys == DOMAIN kept
          <6>1. IsFiniteSet(keys) /\ k \notin keys
            BY <5>1
          <6> HIDE DEF keys
          <6>2. IsFiniteSet(keys \cup {k}) /\ Cardinality(keys \cup {k}) = Cardinality(keys) + 1
            BY <6>1, FS_AddElement
          <6> QED
            BY <6>2 DEF keys
        <5> QED
          BY <3>1, <5>2
      <4> QED
        BY <1>3, <1>4, <4>1, <4>2
    <3> QED
      BY <3>2, <3>3
  <2> QED
    BY <2>1, <2>2
<1> QED
  BY <1>1, <1>5 DEF RateInv, WindowCovers, MayStart

\* Nobody has called yet.
LEMMA RateInitInv == BoundedInit => RateInv
<1> SUFFICES ASSUME BoundedInit PROVE RateInv
  OBVIOUS
<1>1. /\ now = 0 /\ DOMAIN windows = {} /\ DOMAIN streams = {}
      /\ calls = [k \in Keys |-> << >>]
  BY DEF BoundedInit
<1>2. IsFiniteSet({}) /\ Cardinality({}) = 0 /\ 0 <= MaxKeys
  BY FS_EmptySet, BoundedStateAssumption
<1>3. \A k \in Keys : calls[k] = << >> /\ DOMAIN calls[k] = {}
  BY <1>1
<1> QED
  BY <1>1, <1>2, <1>3 DEF RateInv, CameBy, Spaced, MayStart

\* Every step of the bounded stores keeps the account of the calls.
LEMMA RateStepInv == RateInv /\ [BoundedNext]_boundedVars => RateInv'
<1> SUFFICES ASSUME RateInv, [BoundedNext]_boundedVars PROVE RateInv'
  OBVIOUS
<1>1. CASE \E k \in Keys : Consume(k)
  BY <1>1, ConsumeKeeps
<1>2. CASE \E k \in Keys, t \in 0..MaxTime : AcceptFrame(k, t)
  BY <1>2, AcceptKeepsCount
<1>3. CASE BoundedTick
  <2>1. now' = now + 1 /\ UNCHANGED <<windows, streams, calls>>
    BY <1>3 DEF BoundedTick, Pass
  <2>2. now \in Nat /\ calls \in [Keys -> Seq(Nat)] /\ RateWindow \in Nat
    BY BoundedStateAssumption DEF RateInv
  <2>3. \A k \in Keys : \A i \in DOMAIN calls[k] : calls[k][i] \in Nat
    BY <2>2, ElementOfSeq, LenProperties
  <2>4. \A k \in Keys : CameBy(calls[k], Len(calls[k]), now + 1)
    BY <2>2, <2>3 DEF RateInv, CameBy
  <2>5. \A k \in DOMAIN windows : windows[k].started <= now + 1
    BY <2>2 DEF RateInv, WindowCovers
  <2>6. \A k \in Keys \ DOMAIN windows :
            CameBy(calls[k], Len(calls[k]) - RateLimit, now + 1 - RateWindow)
    BY <2>2, <2>3 DEF RateInv, MayStart, CameBy
  <2> QED
    BY <2>1, <2>2, <2>4, <2>5, <2>6 DEF RateInv, WindowCovers, MayStart
<1>4. CASE UNCHANGED boundedVars
  BY <1>4 DEF boundedVars, RateInv, WindowCovers, MayStart
<1> QED
  BY <1>1, <1>2, <1>3, <1>4 DEF BoundedNext

\* The account says what the property asks.
LEMMA RateInvBounds == RateInv => RateIsBounded
  BY DEF RateInv, Spaced, RateIsBounded

\* No stretch of one window length carries more than twice the limit, for any keys, limits,
\* windows and capacity, although a full store sweeps the windows of the others and starts
\* them again when they call.
THEOREM CallsAreBounded == BoundedSpec => []RateIsBounded
  BY RateInitInv, RateStepInv, RateInvBounds, PTL DEF BoundedSpec

-----------------------------------------------------------------------------
(***************************************************************************)
(* Facts about finite sets and numbers.                                      *)
(***************************************************************************)
\* A function with a finite domain has finitely many values.
LEMMA ImageIsFinite ==
    ASSUME NEW f, IsFiniteSet(DOMAIN f)
    PROVE  IsFiniteSet({f[x] : x \in DOMAIN f})
<1> DEFINE T == {f[x] : x \in DOMAIN f}
           g == [x \in DOMAIN f |-> f[x]]
<1>1. g \in Surjection(DOMAIN f, T)
  BY DEF Surjection
<1> QED
  BY <1>1, FS_Surjection

\* One element more makes a set larger by one at most.
LEMMA AtMostOneMore ==
    ASSUME NEW S, IsFiniteSet(S), NEW x
    PROVE  /\ IsFiniteSet(S \cup {x})
           /\ Cardinality(S \cup {x}) <= Cardinality(S) + 1
<1>1. IsFiniteSet(S \cup {x})
      /\ Cardinality(S \cup {x}) = (IF x \in S THEN Cardinality(S) ELSE Cardinality(S) + 1)
  BY FS_AddElement
<1>2. Cardinality(S) \in Nat
  BY FS_CardinalityType
<1> QED
  BY <1>1, <1>2

\* Of some natural numbers one is the least.
LEMMA LeastExists ==
    ASSUME NEW T \in SUBSET Nat, T # {}
    PROVE  \E x \in T : \A y \in T : x <= y
<1>1. IsWellFoundedOn(OpToRel(<, Nat), Nat)
  BY NatLessThanWellFounded
<1>2. PICK x \in T : \A y \in T : ~(<<y, x>> \in OpToRel(<, Nat))
  BY <1>1, WFMin
<1>3. ASSUME NEW y \in T, y < x PROVE FALSE
  <2>1. y \in Nat /\ x \in Nat
    OBVIOUS
  <2>2. <<y, x>> \in OpToRel(<, Nat)
    BY <2>1, <1>3, Zenon DEF OpToRel
  <2> QED
    BY <1>2, <2>2
<1> QED
  BY <1>3

(***************************************************************************)
(* A signed operator request is let through once, for any keys, requests and  *)
(* limits: a nonce may be forgotten because its timestamp is refused by then.  *)
(***************************************************************************)

\* The clock no longer lets r through, or the guard knows its nonce for as long as the
\* clock does.
Spent(r) ==
    \/ now > r.timestamp + MAX_CLOCK_SKEW
    \/ /\ Identity(r) \in DOMAIN nonces
       /\ nonces[Identity(r)] > r.timestamp + MAX_CLOCK_SKEW

OperatorInv ==
    /\ now \in Nat /\ honoured \subseteq Requests
    /\ \A n \in DOMAIN nonces : nonces[n] \in Nat
    /\ \A r \in honoured : r.timestamp <= now + MAX_CLOCK_SKEW /\ Spent(r)
    /\ ~repeated

\* verifyOperatorRequest keeps every honoured request spent, and lets no spent one through.
LEMMA ExamineKeeps ==
    ASSUME OperatorInv, NEW r \in Requests, Examine(r), now' = now
    PROVE  OperatorInv'
<1> USE OperatorAssumption
<1>1. /\ now \in Nat /\ r.timestamp \in Int /\ MAX_CLOCK_SKEW \in Nat /\ NonceTTL \in Nat
      /\ NonceTTL > 2 * MAX_CLOCK_SKEW
      /\ \A h \in honoured : h.timestamp \in Int
  BY DEF OperatorInv
<1>2. ASSUME NEW h \in honoured, Identity(h) \in DOMAIN nonces, Identity(h) \notin Remembered,
             Spent(h)
      PROVE  now > h.timestamp + MAX_CLOCK_SKEW
  BY <1>1, <1>2 DEF OperatorInv, Spent, Remembered
<1>3. CASE ~Verified(r)
  BY <1>3 DEF Examine, OperatorInv, Spent
<1>4. CASE Verified(r) /\ ~NotReplayed(r)
  <2>1. /\ nonces' = [n \in Remembered |-> nonces[n]]
        /\ honoured' = honoured /\ repeated' = repeated
    BY <1>4 DEF Examine
  <2>2. \A h \in honoured : Spent(h)'
    BY <1>2, <2>1 DEF OperatorInv, Spent, Remembered
  <2> QED
    BY <2>1, <2>2 DEF OperatorInv, Remembered
<1>5. CASE Verified(r) /\ NotReplayed(r)
  <2>1. /\ nonces' = [n \in Remembered \cup {Identity(r)} |->
                         IF n = Identity(r) THEN now + NonceTTL ELSE nonces[n]]
        /\ honoured' = honoured \cup {r}
        /\ repeated' = (repeated \/ r \in honoured)
        /\ Identity(r) \notin Remembered
    BY <1>5 DEF Examine, Expiry, NotReplayed
  <2>2. r.timestamp <= now + MAX_CLOCK_SKEW /\ now <= r.timestamp + MAX_CLOCK_SKEW
    BY <1>1, <1>5 DEF Verified
  <2>3. r \notin honoured
    <3>1. SUFFICES ASSUME r \in honoured PROVE FALSE
      OBVIOUS
    <3>2. Identity(r) \in DOMAIN nonces /\ nonces[Identity(r)] > r.timestamp + MAX_CLOCK_SKEW
      BY <1>1, <2>2, <3>1 DEF OperatorInv, Spent
    <3>3. nonces[Identity(r)] > now
      BY <1>1, <2>2, <3>2 DEF OperatorInv
    <3> QED
      BY <2>1, <3>2, <3>3 DEF Remembered
  <2>4. ASSUME NEW h \in honoured' PROVE h.timestamp <= now + MAX_CLOCK_SKEW /\ Spent(h)'
    <3>1. h.timestamp \in Int /\ h.timestamp <= now + MAX_CLOCK_SKEW
      BY <1>1, <2>1, <2>2 DEF OperatorInv
    <3>2. CASE Identity(h) = Identity(r)
      <4>1. Identity(h) \in DOMAIN nonces' /\ nonces'[Identity(h)] = now + NonceTTL
        BY <2>1, <3>2
      <4>2. now + NonceTTL > h.timestamp + MAX_CLOCK_SKEW
        BY <1>1, <3>1
      <4> QED
        BY <3>1, <4>1, <4>2 DEF Spent, Identity
    <3>3. CASE Identity(h) # Identity(r)
      <4>1. h \in honoured /\ Spent(h)
        BY <2>1, <3>3 DEF OperatorInv
      <4>2. CASE Identity(h) \in Remembered
        <5>1. Identity(h) \in DOMAIN nonces' /\ nonces'[Identity(h)] = nonces[Identity(h)]
          BY <2>1, <3>3, <4>2
        <5> QED
          BY <3>1, <4>1, <5>1 DEF Spent, Identity
      <4>3. CASE Identity(h) \notin Remembered
        BY <1>2, <3>1, <4>1, <4>3 DEF Spent
      <4> QED
        BY <4>2, <4>3
    <3> QED
      BY <3>2, <3>3
  <2>5. \A n \in DOMAIN nonces' : nonces'[n] \in Nat
    BY <1>1, <2>1 DEF OperatorInv, Remembered
  <2> QED
    BY <2>1, <2>3, <2>4, <2>5 DEF OperatorInv
<1> QED
  BY <1>3, <1>4, <1>5

\* Every step keeps what was honoured spent.
LEMMA OperatorStepInv == OperatorInv /\ [OperatorNext]_operatorVars => OperatorInv'
<1> SUFFICES ASSUME OperatorInv, [OperatorNext]_operatorVars PROVE OperatorInv'
  OBVIOUS
<1>1. CASE \E r \in Requests, t \in BOOLEAN : PostGeofences(r, t)
  BY <1>1, ExamineKeeps DEF PostGeofences
<1>2. CASE \E r \in Requests : PostNextgen(r)
  BY <1>2, ExamineKeeps DEF PostNextgen
<1>3. CASE OperatorTick
  <2>1. /\ now' = now + 1 /\ honoured' \subseteq honoured
        /\ nonces' = nonces /\ repeated' = repeated
    BY <1>3 DEF OperatorTick, Pass
  <2>2. /\ now \in Nat /\ MAX_CLOCK_SKEW \in Nat
        /\ \A h \in honoured : h.timestamp \in Int
    BY OperatorAssumption DEF OperatorInv
  <2>3. \A h \in honoured' : h.timestamp <= now' + MAX_CLOCK_SKEW /\ Spent(h)'
    <3>1. TAKE h \in honoured'
    <3>2. h.timestamp \in Int /\ h.timestamp <= now + MAX_CLOCK_SKEW /\ Spent(h)
      BY <2>1, <2>2 DEF OperatorInv
    <3>3. CASE now > h.timestamp + MAX_CLOCK_SKEW
      BY <2>1, <2>2, <3>2, <3>3 DEF Spent
    <3>4. CASE ~(now > h.timestamp + MAX_CLOCK_SKEW)
      BY <2>1, <2>2, <3>2, <3>4 DEF Spent, Identity
    <3> QED
      BY <3>3, <3>4
  <2> QED
    BY <2>1, <2>2, <2>3 DEF OperatorInv
<1>4. CASE UNCHANGED operatorVars
  BY <1>4 DEF operatorVars, OperatorInv, Spent, Identity
<1> QED
  BY <1>1, <1>2, <1>3, <1>4 DEF OperatorNext

\* A signed request has its effect at most once, however often and however late the
\* network brings it, while the guard forgets nonces and is pruned.
THEOREM OperatorRequestsOnce == OperatorSpec => []RequestsAreHonouredOnce
<1>1. OperatorInit => OperatorInv
  BY DEF OperatorInit, OperatorInv
<1>2. OperatorInv => RequestsAreHonouredOnce
  BY DEF OperatorInv, RequestsAreHonouredOnce
<1> QED
  BY <1>1, <1>2, OperatorStepInv, PTL DEF OperatorSpec

(***************************************************************************)
(* The audit explains the configuration, for any requests, bodies and capacity. *)
(***************************************************************************)
AuditRecord == [sequence : Nat, actor : OperatorKeys \cup {"config-token"},
                previous : Bodies, new : Bodies]

AuditInv ==
    /\ geofences \in Bodies /\ sequence \in Nat /\ dropped \in Nat
    /\ audit \in Seq(AuditRecord) /\ Len(audit) <= AuditCapacity
    /\ AuditExplainsGeofences

\* One record more, the first one leaving a full ring.
LEMMA ReplaceKeepsAudit ==
    ASSUME AuditInv, NEW actor \in OperatorKeys \cup {"config-token"},
           NEW body \in Bodies \cup {Invalid}, ReplaceGeofences(actor, body)
    PROVE  AuditInv'
<1> USE OperatorAssumption
<1>1. CASE body = Invalid
  BY <1>1 DEF ReplaceGeofences, AuditInv, AuditExplainsGeofences
<1>2. CASE body # Invalid
  <2> DEFINE kept == IF Len(audit) >= AuditCapacity THEN Tail(audit) ELSE audit
             gone == IF Len(audit) >= AuditCapacity THEN 1 ELSE 0
             r == Recorded(actor, body)
  <2>1. /\ geofences' = body /\ sequence' = sequence + 1
        /\ audit' = Append(kept, r) /\ dropped' = dropped + gone
    BY <1>2 DEF ReplaceGeofences, AuditInv
  <2>2. r \in AuditRecord /\ r.sequence = sequence + 1 /\ r.previous = geofences /\ r.new = body
    BY <1>2 DEF Recorded, AuditInv, AuditRecord
  <2>3. /\ audit \in Seq(AuditRecord) /\ Len(audit) \in Nat /\ DOMAIN audit = 1..Len(audit)
        /\ sequence \in Nat /\ dropped \in Nat /\ dropped + Len(audit) = sequence
        /\ Len(audit) <= AuditCapacity /\ AuditCapacity \in Nat \ {0}
    BY LenProperties DEF AuditInv, AuditExplainsGeofences
  <2>4. /\ \A i \in 1..Len(audit) : audit[i].sequence = dropped + i
        /\ \A i \in 2..Len(audit) : audit[i].previous = audit[i - 1].new
        /\ Len(audit) > 0 => audit[Len(audit)].new = geofences
    <3>1. Len(audit) > 0 => audit # << >>
      BY EmptySeq
    <3> QED
      BY <2>3, <3>1 DEF AuditInv, AuditExplainsGeofences
  <2>5. /\ kept \in Seq(AuditRecord) /\ Len(kept) = Len(audit) - gone
        /\ gone \in {0, 1} /\ Len(kept) < AuditCapacity
        /\ \A i \in 1..Len(kept) : kept[i] = audit[i + gone]
    <3>1. CASE Len(audit) >= AuditCapacity
      <4>1. audit # << >>
        BY <2>3, <3>1, EmptySeq
      <4> QED
        BY <2>3, <3>1, <4>1, HeadTailProperties
    <3>2. CASE ~(Len(audit) >= AuditCapacity)
      BY <2>3, <3>2
    <3> QED
      BY <3>1, <3>2
  <2> HIDE DEF kept, gone, r
  <2>6. Len(kept) \in Nat
    BY <2>3, <2>5
  <2>7. /\ audit' \in Seq(AuditRecord) /\ Len(audit') = Len(kept) + 1
        /\ \A i \in 1..Len(kept) : audit'[i] = kept[i]
        /\ audit'[Len(kept) + 1] = r
    BY <2>1, <2>2, <2>5, AppendProperties
  <2>8. DOMAIN audit' = 1..Len(kept) + 1 /\ Len(audit') <= AuditCapacity
    BY <2>3, <2>5, <2>6, <2>7, LenProperties
  <2>9. dropped' + Len(audit') = sequence' /\ dropped' \in Nat /\ sequence' \in Nat
    <3>1. /\ gone \in Nat /\ Len(kept) = Len(audit) - gone /\ Len(audit') = Len(kept) + 1
          /\ dropped' = dropped + gone /\ sequence' = sequence + 1
      BY <2>1, <2>5, <2>7
    <3> QED
      BY ONLY <2>3, <3>1
  <2>10. ASSUME NEW i \in DOMAIN audit' PROVE audit'[i].sequence = dropped' + i
    <3>1. CASE i = Len(kept) + 1
      BY <2>1, <2>2, <2>3, <2>5, <2>7, <3>1
    <3>2. CASE i # Len(kept) + 1
      <4>1. i \in 1..Len(kept) /\ i + gone \in 1..Len(audit)
        BY <2>3, <2>5, <2>6, <2>8, <3>2
      <4>2. audit'[i] = audit[i + gone]
        BY <2>5, <2>7, <4>1
      <4>3. audit[i + gone].sequence = dropped + (i + gone)
        BY <2>4, <4>1
      <4>4. i \in Nat /\ gone \in Nat /\ dropped \in Nat /\ dropped' = dropped + gone
        BY <2>1, <2>3, <2>5, <4>1
      <4>5. dropped + (i + gone) = dropped' + i
        BY ONLY <4>4
      <4> QED
        BY <4>2, <4>3, <4>5
    <3> QED
      BY <3>1, <3>2
  <2>11. ASSUME NEW i \in 2..Len(audit') PROVE audit'[i].previous = audit'[i - 1].new
    <3>1. i - 1 \in 1..Len(kept) /\ audit'[i - 1] = audit[(i - 1) + gone]
      <4>1. i - 1 \in 1..Len(kept)
        BY <2>6, <2>7
      <4> QED
        BY <2>5, <2>7, <4>1
    <3>2. CASE i = Len(kept) + 1
      <4>1. (i - 1) + gone = Len(audit) /\ Len(audit) > 0
        BY <2>3, <2>5, <3>1, <3>2
      <4> QED
        BY <2>2, <2>4, <2>7, <3>1, <3>2, <4>1
    <3>3. CASE i # Len(kept) + 1
      <4>1. i \in 1..Len(kept) /\ i + gone \in 2..Len(audit) /\ (i + gone) - 1 = (i - 1) + gone
        BY <2>3, <2>5, <2>6, <2>7, <3>3
      <4>2. audit'[i] = audit[i + gone]
        BY <2>5, <2>7, <4>1
      <4>3. audit[i + gone].previous = audit[(i + gone) - 1].new
        BY <2>4, <4>1
      <4> QED
        BY <3>1, <4>1, <4>2, <4>3
    <3> QED
      BY <3>2, <3>3
  <2>12. audit'[Len(audit')].new = geofences' /\ geofences' \in Bodies
    BY <1>2, <2>1, <2>2, <2>7
  <2> QED
    BY <2>7, <2>8, <2>9, <2>10, <2>11, <2>12 DEF AuditInv, AuditExplainsGeofences
<1> QED
  BY <1>1, <1>2

\* An empty audit explains the empty configuration.
LEMMA AuditInitInv == OperatorInit => AuditInv
<1> SUFFICES ASSUME OperatorInit PROVE AuditInv
  OBVIOUS
<1>1. audit = << >> /\ sequence = 0 /\ dropped = 0 /\ geofences = NoGeofences
  BY DEF OperatorInit
<1>2. audit \in Seq(AuditRecord) /\ Len(audit) = 0 /\ DOMAIN audit = {}
  BY <1>1, EmptySeq
<1> QED
  BY <1>1, <1>2, OperatorAssumption DEF AuditInv, AuditExplainsGeofences

\* Every step keeps the audit in line with the configuration.
LEMMA AuditStepInv == AuditInv /\ [OperatorNext]_operatorVars => AuditInv'
<1> SUFFICES ASSUME AuditInv, [OperatorNext]_operatorVars PROVE AuditInv'
  OBVIOUS
<1>1. ASSUME NEW r \in Requests, NEW t \in BOOLEAN, PostGeofences(r, t) PROVE AuditInv'
  <2>1. r.key \in OperatorKeys /\ r.body \in Bodies \cup {Invalid}
    BY OperatorAssumption
  <2>2. \/ \E a \in OperatorKeys \cup {"config-token"} : ReplaceGeofences(a, r.body)
        \/ UNCHANGED <<geofences, audit, sequence, dropped>>
    BY <1>1, <2>1 DEF PostGeofences
  <2> QED
    BY <2>1, <2>2, ReplaceKeepsAudit DEF AuditInv, AuditExplainsGeofences
<1>2. CASE (\E r \in Requests : PostNextgen(r)) \/ OperatorTick \/ UNCHANGED operatorVars
  BY <1>2 DEF PostNextgen, OperatorTick, operatorVars, AuditInv, AuditExplainsGeofences
<1> QED
  BY <1>1, <1>2 DEF OperatorNext

\* The guard holds MaxEntries nonces at most.
NoncesInv ==
    /\ IsFiniteSet(DOMAIN nonces) /\ Cardinality(DOMAIN nonces) <= MaxEntries
    /\ repeated \in BOOLEAN

\* verifyOperatorRequest prunes before it asks whether there is room.
LEMMA ExamineKeepsBound ==
    ASSUME NoncesInv, NEW r \in Requests, Examine(r)
    PROVE  NoncesInv'
<1>1. /\ Remembered \in SUBSET DOMAIN nonces /\ IsFiniteSet(DOMAIN nonces)
      /\ Cardinality(DOMAIN nonces) <= MaxEntries /\ MaxEntries \in Nat
  BY OperatorAssumption DEF NoncesInv, Remembered
<1> DEFINE R == Remembered
<1>2. IsFiniteSet(R) /\ Cardinality(R) <= Cardinality(DOMAIN nonces)
  BY <1>1, FS_Subset
<1>3. /\ Cardinality(R) \in Nat /\ Cardinality(DOMAIN nonces) \in Nat
  BY <1>1, <1>2, FS_CardinalityType
<1>4. repeated' \in BOOLEAN
  BY DEF Examine, NoncesInv
<1>5. CASE ~Verified(r)
  BY <1>4, <1>5 DEF Examine, NoncesInv
<1>6. CASE Verified(r) /\ ~NotReplayed(r)
  <2>1. DOMAIN nonces' = R
    BY <1>6 DEF Examine
  <2> HIDE DEF R
  <2> QED
    BY <1>1, <1>2, <1>3, <1>4, <2>1 DEF NoncesInv
<1>7. CASE Verified(r) /\ NotReplayed(r)
  <2>1. DOMAIN nonces' = R \cup {Identity(r)} /\ Cardinality(R) < MaxEntries /\ Identity(r) \notin R
    BY <1>7 DEF Examine, NotReplayed
  <2> HIDE DEF R
  <2>2. IsFiniteSet(R \cup {Identity(r)}) /\ Cardinality(R \cup {Identity(r)}) = Cardinality(R) + 1
    BY <1>2, <2>1, FS_AddElement
  <2> QED
    BY <1>1, <1>3, <1>4, <2>1, <2>2 DEF NoncesInv
<1> QED
  BY <1>5, <1>6, <1>7

\* The guard starts empty.
LEMMA NoncesInitInv == OperatorInit => NoncesInv
<1> SUFFICES ASSUME OperatorInit PROVE NoncesInv
  OBVIOUS
<1>1. DOMAIN nonces = {} /\ repeated = FALSE
  BY DEF OperatorInit
<1>2. IsFiniteSet({}) /\ Cardinality({}) = 0 /\ 0 <= MaxEntries
  BY FS_EmptySet, OperatorAssumption
<1> QED
  BY <1>1, <1>2 DEF NoncesInv

\* Every step keeps the guard within its limit.
LEMMA NoncesStepInv == NoncesInv /\ [OperatorNext]_operatorVars => NoncesInv'
<1> SUFFICES ASSUME NoncesInv, [OperatorNext]_operatorVars PROVE NoncesInv'
  OBVIOUS
<1>1. CASE \E r \in Requests : Examine(r)
  BY <1>1, ExamineKeepsBound
<1>2. CASE UNCHANGED <<nonces, repeated>>
  BY <1>2 DEF NoncesInv
<1> QED
  BY <1>1, <1>2 DEF OperatorNext, PostGeofences, PostNextgen, OperatorTick, operatorVars

\* The audit of the configuration has no gap, ends in the value in force and counts what it
\* dropped, for any requests, bodies and capacity.
THEOREM TheAuditExplains == OperatorSpec => []AuditExplainsGeofences
<1>1. AuditInv => AuditExplainsGeofences
  BY DEF AuditInv
<1> QED
  BY <1>1, AuditInitInv, AuditStepInv, PTL DEF OperatorSpec

\* What the operators' part of the engine keeps of its types.
LEMMA OperatorTypesFollow == OperatorInv /\ NoncesInv /\ AuditInv => OperatorTypeOK
  BY DEF OperatorInv, NoncesInv, AuditInv, OperatorTypeOK

(***************************************************************************)
(* A signed provider request is applied once, for any providers, requests and  *)
(* limits, although the replay guard forgets what has expired.                  *)
(***************************************************************************)

\* The clock no longer lets r through, or the guard knows it for as long as the clock
\* does.
Used(r) ==
    \/ now > r.stamp + PROVIDER_MAX_SKEW
    \/ r \in DOMAIN replays /\ replays[r] > r.stamp + PROVIDER_MAX_SKEW

RoadInv ==
    /\ now \in Nat /\ applied \subseteq ProviderRequests
    /\ \A f \in DOMAIN replays : replays[f] \in Nat
    /\ \A r \in applied : Used(r)
    /\ ~reapplied

\* What the guard keeps when r comes: nothing that r is about, and of the others all that
\* has not expired.
LEMMA GuardKeeps ==
    ASSUME RoadInv, NEW r
    PROVE  /\ \A f \in DOMAIN GuardFor(r) : f \in DOMAIN replays
           /\ \A f \in DOMAIN replays \ {r} : replays[f] > now => f \in DOMAIN GuardFor(r)
           /\ \A f \in DOMAIN GuardFor(r) : GuardFor(r)[f] = replays[f]
  BY DEF GuardFor, RoadInv

\* PostSigned keeps every applied request used, and applies no used one.
LEMMA SignedKeeps ==
    ASSUME RoadInv, NEW r \in ProviderRequests, PostSigned(r)
    PROVE  RoadInv'
<1> USE RoadAssumption
<1>1. /\ now \in Nat /\ r.stamp \in Int /\ PROVIDER_MAX_SKEW \in Nat /\ ReplayTTL \in Nat
      /\ ReplayTTL > 2 * PROVIDER_MAX_SKEW
      /\ \A f \in applied : f.stamp \in Int
      /\ now' = now
  BY DEF RoadInv, PostSigned
<1>2. r.stamp <= now + PROVIDER_MAX_SKEW /\ now <= r.stamp + PROVIDER_MAX_SKEW
  BY <1>1 DEF PostSigned, ProviderVerified
<1>3. CASE Known(r)
  BY <1>1, <1>3 DEF PostSigned, RoadInv, Used
<1>4. CASE ~Known(r) /\ ~HasRoom(r)
  <2>1. replays' = GuardFor(r) /\ applied' = applied /\ reapplied' = reapplied
    BY <1>4 DEF PostSigned
  <2>2. ASSUME NEW f \in applied PROVE Used(f)'
    <3>1. f.stamp \in Int /\ Used(f)
      BY <1>1 DEF RoadInv
    <3>2. CASE f \in DOMAIN replays /\ replays[f] > now
      <4>1. f # r
        BY <1>4, <3>2 DEF Known
      <4>2. f \in DOMAIN replays' /\ replays'[f] = replays[f]
        BY <2>1, <3>2, <4>1, GuardKeeps
      <4> QED
        BY <1>1, <3>1, <4>2 DEF Used
    <3>3. CASE ~(f \in DOMAIN replays /\ replays[f] > now)
      <4>1. now > f.stamp + PROVIDER_MAX_SKEW
        BY <1>1, <3>1, <3>3 DEF Used, RoadInv
      <4> QED
        BY <1>1, <4>1 DEF Used
    <3> QED
      BY <3>2, <3>3
  <2> QED
    BY <1>1, <2>1, <2>2, GuardKeeps DEF RoadInv
<1>5. CASE ~Known(r) /\ HasRoom(r)
  <2>1. /\ replays' = [f \in DOMAIN GuardFor(r) \cup {r} |->
                          IF f = r THEN now + ReplayTTL ELSE replays[f]]
        /\ applied' = applied \cup {r}
        /\ reapplied' = (reapplied \/ r \in applied)
    BY <1>5 DEF PostSigned, ReplayEnd
  <2>2. r \notin applied
    <3>1. SUFFICES ASSUME r \in applied PROVE FALSE
      OBVIOUS
    <3>2. r \in DOMAIN replays /\ replays[r] > r.stamp + PROVIDER_MAX_SKEW
      BY <1>1, <1>2, <3>1 DEF RoadInv, Used
    <3>3. replays[r] > now
      BY <1>1, <1>2, <3>2 DEF RoadInv
    <3> QED
      BY <1>5, <3>2, <3>3 DEF Known
  <2>3. ASSUME NEW f \in applied' PROVE Used(f)'
    <3>1. CASE f = r
      BY <1>1, <1>2, <2>1, <3>1 DEF Used
    <3>2. CASE f # r
      <4>1. f \in applied /\ f.stamp \in Int /\ Used(f)
        BY <1>1, <2>1, <3>2 DEF RoadInv
      <4>2. CASE f \in DOMAIN replays /\ replays[f] > now
        <5>1. f \in DOMAIN replays' /\ replays'[f] = replays[f]
          BY <2>1, <3>2, <4>2, GuardKeeps
        <5> QED
          BY <1>1, <4>1, <5>1 DEF Used
      <4>3. CASE ~(f \in DOMAIN replays /\ replays[f] > now)
        <5>1. now > f.stamp + PROVIDER_MAX_SKEW
          BY <1>1, <4>1, <4>3 DEF Used, RoadInv
        <5> QED
          BY <1>1, <5>1 DEF Used
      <4> QED
        BY <4>2, <4>3
    <3> QED
      BY <3>1, <3>2
  <2>4. \A f \in DOMAIN replays' : replays'[f] \in Nat
    BY <1>1, <2>1, GuardKeeps DEF RoadInv
  <2> QED
    BY <1>1, <2>1, <2>2, <2>3, <2>4 DEF RoadInv
<1> QED
  BY <1>3, <1>4, <1>5

\* Every step keeps what was applied used.
LEMMA RoadStepInv == RoadInv /\ [RoadNext]_roadVars => RoadInv'
<1> SUFFICES ASSUME RoadInv, [RoadNext]_roadVars PROVE RoadInv'
  OBVIOUS
<1>1. CASE \E r \in ProviderRequests : PostSigned(r)
  BY <1>1, SignedKeeps
<1>2. CASE \E r \in ProviderRequests : PostByToken(r)
  BY <1>2 DEF PostByToken, RoadInv, Used
<1>3. CASE RoadTick
  <2>1. /\ now' = now + 1 /\ applied' \subseteq applied
        /\ replays' = replays /\ reapplied' = reapplied
    BY <1>3 DEF RoadTick, Pass
  <2>2. /\ now \in Nat /\ PROVIDER_MAX_SKEW \in Nat
        /\ \A f \in applied : f.stamp \in Int
    BY RoadAssumption DEF RoadInv
  <2>3. ASSUME NEW f \in applied' PROVE Used(f)'
    <3>1. f.stamp \in Int /\ Used(f)
      BY <2>1, <2>2 DEF RoadInv
    <3>2. CASE now > f.stamp + PROVIDER_MAX_SKEW
      BY <2>1, <2>2, <3>1, <3>2 DEF Used
    <3>3. CASE ~(now > f.stamp + PROVIDER_MAX_SKEW)
      BY <2>1, <2>2, <3>1, <3>3 DEF Used
    <3> QED
      BY <3>2, <3>3
  <2> QED
    BY <2>1, <2>2, <2>3 DEF RoadInv
<1>4. CASE UNCHANGED roadVars
  BY <1>4 DEF roadVars, RoadInv, Used
<1> QED
  BY <1>1, <1>2, <1>3, <1>4 DEF RoadNext

\* A signed request replaces the provider's snapshot once, however often it comes.
THEOREM ProviderRequestsAreAppliedOnce == RoadSpec => []ProviderRequestsOnce
<1>1. RoadInit => RoadInv
  BY DEF RoadInit, RoadInv
<1>2. RoadInv => ProviderRequestsOnce
  BY DEF RoadInv, ProviderRequestsOnce
<1> QED
  BY <1>1, <1>2, RoadStepInv, PTL DEF RoadSpec

(***************************************************************************)
(* Of what the providers report, the worst is shown, for any providers, items,   *)
(* ages and number of advisories.                                                *)
(***************************************************************************)
RoadShape ==
    /\ DOMAIN road \subseteq Providers /\ IsFiniteSet(DOMAIN road)
    /\ \A p \in DOMAIN road : \E r \in ProviderRequests : road[p].items = r.items
    /\ DOMAIN replays \subseteq ProviderRequests /\ IsFiniteSet(DOMAIN replays)
    /\ Cardinality(DOMAIN replays) <= MaxReplayEntries
    /\ reapplied \in BOOLEAN

\* A snapshot replaces that of its provider.
LEMMA ReplaceKeepsShape ==
    ASSUME RoadShape, NEW r \in ProviderRequests, Replace(r)
    PROVE  /\ DOMAIN road' \subseteq Providers /\ IsFiniteSet(DOMAIN road')
           /\ \A p \in DOMAIN road' : \E q \in ProviderRequests : road'[p].items = q.items
<1>1. /\ DOMAIN road' = DOMAIN road \cup {r.provider}
      /\ \A p \in DOMAIN road' : IF p = r.provider THEN road'[p].items = r.items
                                 ELSE p \in DOMAIN road /\ road'[p] = road[p]
  BY DEF Replace
<1>2. r.provider \in Providers
  BY RoadAssumption
<1>3. IsFiniteSet(DOMAIN road')
  <2>1. IsFiniteSet(DOMAIN road)
    BY DEF RoadShape
  <2> QED
    BY <1>1, <2>1, FS_AddElement
<1> QED
  BY <1>1, <1>2, <1>3 DEF RoadShape

\* The replay guard stays within its limit.
LEMMA GuardIsBounded ==
    ASSUME RoadShape, NEW r \in ProviderRequests
    PROVE  /\ DOMAIN GuardFor(r) \subseteq DOMAIN replays \ {r}
           /\ IsFiniteSet(DOMAIN GuardFor(r))
           /\ Cardinality(DOMAIN GuardFor(r)) \in Nat
           /\ Cardinality(DOMAIN GuardFor(r)) <= MaxReplayEntries
<1>1. DOMAIN GuardFor(r) \subseteq DOMAIN replays \ {r}
  BY DEF GuardFor
<1>2. /\ IsFiniteSet(DOMAIN GuardFor(r))
      /\ Cardinality(DOMAIN GuardFor(r)) <= Cardinality(DOMAIN replays)
  BY <1>1, FS_Subset DEF RoadShape
<1>3. /\ Cardinality(DOMAIN GuardFor(r)) \in Nat /\ Cardinality(DOMAIN replays) \in Nat
      /\ MaxReplayEntries \in Nat /\ Cardinality(DOMAIN replays) <= MaxReplayEntries
  BY <1>2, FS_CardinalityType, RoadAssumption DEF RoadShape
<1> QED
  BY <1>1, <1>2, <1>3

\* Every step keeps the shape of the snapshots and the limit of the guard.
LEMMA RoadShapeStep == RoadShape /\ [RoadNext]_roadVars => RoadShape'
<1> SUFFICES ASSUME RoadShape, [RoadNext]_roadVars PROVE RoadShape'
  OBVIOUS
<1>1. ASSUME NEW r \in ProviderRequests, PostSigned(r) PROVE RoadShape'
  <2>1. CASE Known(r)
    BY <1>1, <2>1 DEF PostSigned, RoadShape
  <2>2. CASE ~Known(r) /\ ~HasRoom(r)
    <3>1. replays' = GuardFor(r) /\ road' = road /\ reapplied' = reapplied
      BY <1>1, <2>2 DEF PostSigned
    <3> QED
      BY <3>1, GuardIsBounded DEF RoadShape
  <2>3. CASE ~Known(r) /\ HasRoom(r)
    <3>1. DOMAIN replays' = DOMAIN GuardFor(r) \cup {r} /\ Replace(r)
      BY <1>1, <2>3 DEF PostSigned
    <3>2. /\ Cardinality(DOMAIN GuardFor(r)) < MaxReplayEntries
          /\ Cardinality(DOMAIN GuardFor(r)) \in Nat /\ MaxReplayEntries \in Nat
      BY <2>3, GuardIsBounded, RoadAssumption DEF HasRoom
    <3>3. /\ IsFiniteSet(DOMAIN replays')
          /\ Cardinality(DOMAIN replays') = Cardinality(DOMAIN GuardFor(r)) + 1
      <4>1. r \notin DOMAIN GuardFor(r) /\ IsFiniteSet(DOMAIN GuardFor(r))
        BY GuardIsBounded
      <4> QED
        BY <3>1, <4>1, FS_AddElement
    <3>4. DOMAIN replays' \subseteq ProviderRequests
      BY <3>1, GuardIsBounded DEF RoadShape
    <3>5. reapplied' \in BOOLEAN
      BY <1>1, <2>3 DEF PostSigned, RoadShape
    <3> QED
      BY <3>1, <3>2, <3>3, <3>4, <3>5, ReplaceKeepsShape DEF RoadShape
  <2> QED
    BY <2>1, <2>2, <2>3
<1>2. ASSUME NEW r \in ProviderRequests, PostByToken(r) PROVE RoadShape'
  <2>1. Replace(r) /\ replays' = replays /\ reapplied' = reapplied
    BY <1>2 DEF PostByToken
  <2> QED
    BY <2>1, ReplaceKeepsShape DEF RoadShape
<1>3. CASE RoadTick \/ UNCHANGED roadVars
  BY <1>3 DEF RoadTick, roadVars, RoadShape
<1> QED
  BY <1>1, <1>2, <1>3 DEF RoadNext

\* No provider has reported yet.
LEMMA RoadShapeInit == RoadInit => RoadShape
<1> SUFFICES ASSUME RoadInit PROVE RoadShape
  OBVIOUS
<1>1. DOMAIN road = {} /\ DOMAIN replays = {} /\ reapplied = FALSE
  BY DEF RoadInit
<1>2. IsFiniteSet({}) /\ Cardinality({}) = 0 /\ 0 <= MaxReplayEntries
  BY FS_EmptySet, RoadAssumption
<1> QED
  BY <1>1, <1>2 DEF RoadShape

\* What is merged was reported; it is finite.
LEMMA MergedIsReported ==
    ASSUME RoadShape
    PROVE  /\ \A i \in Merged : i.kind \in DOMAIN PriorityOf /\ i.severity \in 0..2
           /\ IsFiniteSet(Merged)
<1> DEFINE ok(p, i) == CASE i.kind = "emergency" -> FreshAt(i.stamp, EmergencyAge)
                         [] i.kind \in {"spat", "clearing"} -> FreshAt(i.stamp, SpatAge)
                         [] OTHER -> FreshAt(road[p].made, TopologyAge)
           part == [p \in DOMAIN road |-> {i \in road[p].items : ok(p, i)}]
<1>1. Merged = UNION {part[p] : p \in DOMAIN part}
  BY Zenon DEF Merged
<1> HIDE DEF ok
<1>2. \A p \in DOMAIN part : part[p] \subseteq road[p].items
  OBVIOUS
<1>3. DOMAIN part = DOMAIN road
  OBVIOUS
<1> HIDE DEF part
<1>4. ASSUME NEW p \in DOMAIN part
      PROVE  /\ IsFiniteSet(part[p])
             /\ \A i \in part[p] : i.kind \in DOMAIN PriorityOf /\ i.severity \in 0..2
  <2>1. PICK r \in ProviderRequests : road[p].items = r.items
    BY <1>3, <1>4 DEF RoadShape
  <2>2. part[p] \subseteq r.items
    BY <1>2, <1>4, <2>1
  <2> QED
    BY <2>1, <2>2, RoadAssumption, FS_Subset
<1>5. IsFiniteSet({part[p] : p \in DOMAIN part})
  BY <1>3, ImageIsFinite DEF RoadShape
<1>6. IsFiniteSet(UNION {part[p] : p \in DOMAIN part})
  BY <1>4, <1>5, FS_UNION
<1> QED
  BY <1>1, <1>4, <1>6

\* The shape of a candidate: its priority follows from its kind, except that a near exit
\* has more of both.
AdvisoryShape(a) ==
    /\ a.kind \in DOMAIN PriorityOf
    /\ a.severity \in 0..2
    /\ a.priority \in 0..100
    /\ a.kind = "exit" => \/ a.severity = 1 /\ a.priority = 58
                          \/ a.severity = 0 /\ a.priority = 36
    /\ a.kind \in {"spat", "clearing"} => a.severity = 1
    /\ a.kind \notin {"exit", "spat", "clearing"} => a.priority = PriorityOf[a.kind]

\* A candidate has a kind, a severity and a priority of its kind.
LEMMA CandidatesHaveShape ==
    ASSUME RoadShape
    PROVE  /\ \A a \in Candidates : AdvisoryShape(a)
           /\ IsFiniteSet(Candidates)
<1> DEFINE C(i) == [kind |-> i.kind, id |-> i.id, severity |-> SeverityOf(i),
                    priority |-> IF i.kind = "exit" /\ i.band # "near" THEN 36
                                 ELSE PriorityOf[i.kind]]
           relevant == {j \in Merged : Relevant(j)}
           image == [i \in relevant |-> C(i)]
<1>1. Candidates = {C(i) : i \in relevant}
  BY DEF Candidates
<1>2. ASSUME NEW i \in Merged PROVE AdvisoryShape(C(i))
  <2>1. i.kind \in DOMAIN PriorityOf /\ i.severity \in 0..2
    BY MergedIsReported
  <2>2. C(i).kind = i.kind /\ C(i).severity = SeverityOf(i)
        /\ C(i).priority = IF i.kind = "exit" /\ i.band # "near" THEN 36 ELSE PriorityOf[i.kind]
    OBVIOUS
  <2>3. i.kind \in {"emergency", "spat", "clearing", "hazard", "works", "school", "weather",
                    "exit", "lane"}
    BY <2>1 DEF PriorityOf
  <2> HIDE DEF C
  <2>4. CASE i.kind = "emergency"
    BY <2>2, <2>4 DEF AdvisoryShape, SeverityOf, PriorityOf
  <2>5. CASE i.kind = "hazard"
    BY <2>1, <2>2, <2>5 DEF AdvisoryShape, SeverityOf, PriorityOf
  <2>6. CASE i.kind = "exit"
    BY <2>2, <2>6 DEF AdvisoryShape, SeverityOf, PriorityOf
  <2>7. CASE i.kind \in {"works", "school"}
    BY <2>2, <2>7 DEF AdvisoryShape, SeverityOf, PriorityOf
  <2>8. CASE i.kind \in {"spat", "clearing"}
    BY <2>2, <2>8 DEF AdvisoryShape, SeverityOf, PriorityOf
  <2>9. CASE i.kind \in {"weather", "lane"}
    BY <2>2, <2>9 DEF AdvisoryShape, SeverityOf, PriorityOf
  <2> QED
    BY <2>3, <2>4, <2>5, <2>6, <2>7, <2>8, <2>9
<1>3. IsFiniteSet(relevant)
  BY MergedIsReported, FS_Subset
<1>4. DOMAIN image = relevant /\ \A i \in relevant : image[i] = C(i)
  OBVIOUS
<1> HIDE DEF C, image
<1>5. Candidates = {image[i] : i \in DOMAIN image}
  BY <1>1, <1>4
<1>6. IsFiniteSet(Candidates)
  BY <1>3, <1>4, <1>5, ImageIsFinite
<1> QED
  BY <1>1, <1>2, <1>6

\* A worse report of one thing never has the lower priority.
LEMMA WorseIsNotBelow ==
    ASSUME NEW a, NEW b, AdvisoryShape(a), AdvisoryShape(b), SameKey(a, b),
           b.severity > a.severity
    PROVE  b.priority >= a.priority
<1>1. \/ a.kind = b.kind
      \/ a.kind \in {"spat", "clearing"} /\ b.kind \in {"spat", "clearing"}
  BY DEF SameKey, KeyKind
<1>2. CASE a.kind \in {"spat", "clearing"} /\ b.kind \in {"spat", "clearing"}
  BY <1>2 DEF AdvisoryShape
<1>3. CASE a.kind = b.kind /\ a.kind = "exit"
  BY <1>3 DEF AdvisoryShape
<1>4. CASE a.kind = b.kind /\ a.kind \notin {"exit", "spat", "clearing"}
  BY <1>4 DEF AdvisoryShape
<1> QED
  BY <1>1, <1>2, <1>3, <1>4

\* Candidates without the weather beside a hazard.
LiveCandidates ==
    {a \in Candidates : ~(a.kind = "weather" /\ \E b \in Candidates : b.kind = "hazard")}

\* How bad an advisory is, as one number.
Weight(a) == 101 * a.severity + a.priority

\* The weight orders by severity, then by priority.
LEMMA WeightsCompare ==
    ASSUME NEW s \in 0..2, NEW t \in 0..2, NEW p \in 0..100, NEW q \in 0..100,
           101 * s + p <= 101 * t + q
    PROVE  s <= t /\ (p > q => s < t)
  OBVIOUS

\* Of the candidates of one key, the heaviest is kept.
LEMMA HeaviestIsKept ==
    ASSUME \A c \in Candidates : AdvisoryShape(c), NEW a \in LiveCandidates
    PROVE  \E b \in Kept : SameKey(a, b) /\ b.severity >= a.severity
<1> DEFINE same == {b \in LiveCandidates : SameKey(a, b)}
           lack == {303 - Weight(b) : b \in same}
<1>1. ASSUME NEW b \in same
      PROVE  /\ b.severity \in 0..2 /\ b.priority \in 0..100 /\ Weight(b) \in 0..302
             /\ 303 - Weight(b) \in Nat
  BY DEF AdvisoryShape, LiveCandidates, Weight
<1>2. a \in same
  BY DEF SameKey
<1>3. lack \subseteq Nat /\ lack # {}
  BY <1>1, <1>2
<1>4. PICK m \in lack : \A n \in lack : m <= n
  BY <1>3, LeastExists
<1>5. PICK b \in same : m = 303 - Weight(b)
  BY <1>4
<1> HIDE DEF same
<1>6. ASSUME NEW c \in same PROVE Weight(c) <= Weight(b) /\ b.severity >= c.severity
  <2>1. 303 - Weight(b) <= 303 - Weight(c)
    BY <1>4, <1>5, <1>6
  <2>2. Weight(b) \in Int /\ Weight(c) \in Int
    BY <1>1, <1>5, <1>6
  <2>3. Weight(c) <= Weight(b)
    BY ONLY <2>1, <2>2
  <2>4. /\ b.severity \in 0..2 /\ b.priority \in 0..100
        /\ c.severity \in 0..2 /\ c.priority \in 0..100
    BY <1>1, <1>5, <1>6
  <2>5. b.severity >= c.severity
    BY <2>3, <2>4, WeightsCompare DEF Weight
  <2> QED
    BY <2>3, <2>5
<1>7. \A c \in LiveCandidates : SameKey(b, c) /\ Replaces(c, b) => Replaces(b, c)
  <2>1. SUFFICES ASSUME NEW c \in LiveCandidates, SameKey(b, c), Replaces(c, b)
                 PROVE  Replaces(b, c)
    OBVIOUS
  <2>2. c \in same
    BY <2>1 DEF SameKey, same
  <2>3. Weight(c) <= Weight(b) /\ b.severity >= c.severity
    BY <1>6, <2>2
  <2>4. /\ b.severity \in 0..2 /\ b.priority \in 0..100
        /\ c.severity \in 0..2 /\ c.priority \in 0..100
    BY <1>1, <2>2
  <2>5. c.severity > b.severity \/ c.priority > b.priority
    BY <2>1 DEF Replaces
  <2>6. b.severity > c.severity \/ b.priority > c.priority
    <3>1. c.priority > b.priority => c.severity < b.severity
      BY <2>3, <2>4, WeightsCompare DEF Weight
    <3> QED
      BY <2>3, <2>4, <2>5, <3>1
  <2> QED
    BY <2>6 DEF Replaces
<1>8. b \in Kept
  BY <1>7 DEF Kept, LiveCandidates, same
<1> QED
  BY <1>2, <1>6, <1>8 DEF same

\* Whatever the providers reported, the heaviest candidate of each key is kept, and it is
\* the worst of its key.
LEMMA ShapeShowsTheWorst == RoadShape => WorstIsShown
<1> SUFFICES ASSUME RoadShape PROVE WorstIsShown
  OBVIOUS
<1>1. (\A a \in Candidates : AdvisoryShape(a)) /\ IsFiniteSet(Candidates)
  BY CandidatesHaveShape
<1>2. /\ Kept \subseteq LiveCandidates /\ LiveCandidates \subseteq Candidates
      /\ \A a \in Kept : \A b \in LiveCandidates : SameKey(a, b) /\ Replaces(b, a) => Replaces(a, b)
  BY DEF Kept, LiveCandidates
<1>3. ASSUME NEW a \in Candidates, a.kind # "weather"
      PROVE  \E b \in Kept : SameKey(a, b) /\ b.severity >= a.severity
  BY <1>1, <1>3, HeaviestIsKept DEF LiveCandidates
<1>4. ASSUME NEW a \in Kept, NEW b \in Candidates, SameKey(a, b)
      PROVE  a.severity >= b.severity
  <2>1. b \in LiveCandidates
    <3>1. a.kind = "weather" <=> b.kind = "weather"
      BY <1>4 DEF SameKey, KeyKind
    <3> QED
      BY <1>2, <1>4, <3>1 DEF LiveCandidates
  <2>2. AdvisoryShape(a) /\ AdvisoryShape(b)
    BY <1>1, <1>2
  <2>3. SUFFICES ASSUME b.severity > a.severity PROVE FALSE
    BY <2>2 DEF AdvisoryShape
  <2>4. b.priority >= a.priority
    BY <1>4, <2>2, <2>3, WorseIsNotBelow
  <2>5. Replaces(b, a) /\ ~Replaces(a, b)
    BY SMTT(30), <2>2, <2>3, <2>4 DEF Replaces, AdvisoryShape
  <2> QED
    BY <1>2, <1>4, <2>1, <2>5
<1>5. LET near == {a \in Kept : a.kind = "emergency" /\ a.severity = 2}
      IN  Cardinality(near) <= MaxShown => near \subseteq CertainlyShown
  <2> DEFINE near == {a \in Kept : a.kind = "emergency" /\ a.severity = 2}
  <2>1. SUFFICES ASSUME Cardinality(near) <= MaxShown, NEW a \in near PROVE a \in CertainlyShown
    OBVIOUS
  <2> DEFINE rivals == {b \in Kept \ {a} : ~Above(a, b)}
  <2>2. rivals \subseteq near \ {a}
    <3>1. SUFFICES ASSUME NEW b \in rivals PROVE b \in near
      OBVIOUS
    <3>2. AdvisoryShape(a) /\ AdvisoryShape(b)
      BY <1>1, <1>2
    <3>3. a.severity = 2 /\ a.priority = 100
      BY <2>1, <3>2 DEF AdvisoryShape, PriorityOf
    <3>4. b.severity = 2 /\ b.priority = 100
      BY <3>2, <3>3 DEF Above, AdvisoryShape
    <3>5. b.kind \notin {"exit", "spat", "clearing"} /\ PriorityOf[b.kind] = 100
      BY <3>2, <3>4 DEF AdvisoryShape
    <3>6. b.kind = "emergency"
      BY <3>2, <3>5 DEF AdvisoryShape, PriorityOf
    <3> QED
      BY <3>4, <3>6
  <2>3. IsFiniteSet(near)
    BY <1>1, <1>2, FS_Subset
  <2>4. IsFiniteSet(near \ {a}) /\ Cardinality(near \ {a}) = Cardinality(near) - 1
    BY <2>1, <2>3, FS_RemoveElement
  <2>5. Cardinality(rivals) <= Cardinality(near \ {a}) /\ IsFiniteSet(rivals)
    BY <2>2, <2>4, FS_Subset
  <2>6. Cardinality(rivals) < MaxShown
    <3>1. /\ Cardinality(near) \in Nat /\ Cardinality(rivals) \in Nat /\ MaxShown \in Nat
      BY <2>3, <2>5, FS_CardinalityType, RoadAssumption
    <3> HIDE DEF near, rivals
    <3> QED
      BY <2>1, <2>4, <2>5, <3>1
  <2> QED
    BY <2>1, <2>6 DEF CertainlyShown
<1> QED
  BY <1>3, <1>4, <1>5 DEF WorstIsShown

\* Of two reports of one thing the worse is shown, and a near emergency vehicle unless as
\* many others are near, whatever the providers send and in whatever order.
THEOREM TheWorstIsShown == RoadSpec => []WorstIsShown
  BY RoadShapeInit, RoadShapeStep, ShapeShowsTheWorst, PTL DEF RoadSpec

(***************************************************************************)
(* What the update path promises whatever packages are on offer and in        *)
(* whatever order the installer calls it: nothing passes the verifier, and     *)
(* the rollback floor only rises, to indexes of updates that have booted.      *)
(***************************************************************************)

\* A package that has been verified has an index that the floor can take.
ClearedAreValid == \A p \in cleared : ValidIndex(p.index)

\* The snapshot that commitAcceptedUpdate is given is of an update that booted.
AcceptedHasBooted == state = "accepted" => package.index \in accepted

\* The invariant every operation preserves.  The history of healthy boots needs
\* valid indexes to be well typed, and a commit needs the accepted package to be
\* in that history.
UpdateInv ==
    /\ UpdateTypeOK
    /\ UpdatesAreEarned
    /\ ClearedAreValid
    /\ AcceptedHasBooted

\* The store never takes a lower index, whatever was checked before the await: what it
\* holds afterwards is the greater of the two.
LEMMA RaisedIsTheGreater ==
    ASSUME NEW old \in Int, NEW new \in Int
    PROVE  Raised(old, new) \in {old, new} /\ Raised(old, new) >= old
  BY DEF Raised

\* Nothing is staged yet.
LEMMA UpdateInitInv == UpdateInit => UpdateInv
<1> SUFFICES ASSUME UpdateInit PROVE UpdateInv
  OBVIOUS
<1>1. fit \in BOOLEAN
  BY DEF UpdateInit
<1> QED
  BY <1>1, UpdateAssumption DEF UpdateInit, UpdateInv, UpdateTypeOK, UpdatesAreEarned,
     ClearedAreValid, AcceptedHasBooted, States

\* A transition of the lifecycle alone keeps the invariant if its target has no
\* more to show for itself than its source.
LEMMA MoveKeepsInv ==
    ASSUME UpdateInv, NEW next \in States \ {"accepted"}, MoveTo(next),
           next \in {"verified", "ready", "installing", "pending-boot"} =>
               package \in cleared
    PROVE  UpdateInv'
  BY DEF UpdateInv, UpdateTypeOK, UpdatesAreEarned, ClearedAreValid, AcceptedHasBooted, MoveTo,
         ValidIndex

\* Every operation of the lifecycle, of the store and of the vehicle keeps the invariant.
LEMMA UpdateStepInv == UpdateInv /\ [UpdateNext]_updateVars => UpdateInv'
<1> SUFFICES ASSUME UpdateInv, [UpdateNext]_updateVars PROVE UpdateInv'
  OBVIOUS
<1> USE DEF UpdateInv
<1>1. ASSUME NEW p \in Offered, Stage(p) PROVE UpdateInv'
  BY <1>1 DEF Stage, UpdateTypeOK, UpdatesAreEarned, ClearedAreValid, AcceptedHasBooted, States,
     ValidIndex
<1>2. CASE MarkVerified
  <2>1. package \in Offered /\ ValidIndex(package.index)
    BY <1>2 DEF MarkVerified, Verifies, UpdateTypeOK, NoPackage
  <2> QED
    BY <1>2, <2>1 DEF MarkVerified, UpdateTypeOK, UpdatesAreEarned, ClearedAreValid,
       AcceptedHasBooted, States, ValidIndex
<1>3. CASE MarkReady
  <2>1. package \in cleared
    BY <1>3 DEF MarkReady, ReadyFrom, UpdatesAreEarned
  <2> QED
    BY <1>3, <2>1, MoveKeepsInv DEF MarkReady, States
<1>4. CASE BeginInstall
  BY <1>4, MoveKeepsInv DEF BeginInstall, UpdatesAreEarned, States
<1>5. CASE MarkInstalled
  BY <1>5, MoveKeepsInv DEF MarkInstalled, UpdatesAreEarned, States
<1>6. CASE ReportBootHealthy
  <2>1. package \in cleared /\ ValidIndex(package.index)
    BY <1>6 DEF ReportBootHealthy, UpdatesAreEarned, ClearedAreValid
  <2> QED
    BY <1>6, <2>1 DEF ReportBootHealthy, UpdateTypeOK, UpdatesAreEarned, ClearedAreValid,
       AcceptedHasBooted, States, ValidIndex
<1>7. CASE ReportBootFailure
  BY <1>7, MoveKeepsInv DEF ReportBootFailure, States
<1>8. CASE Fail
  BY <1>8, MoveKeepsInv DEF Fail, States
<1>9. CASE BeginCommit
  BY <1>9 DEF BeginCommit, MayCommit, UpdateTypeOK, UpdatesAreEarned, ClearedAreValid,
     AcceptedHasBooted, ValidIndex
<1>10. ASSUME NEW i \in commits, FinishCommit(i) PROVE UpdateInv'
  <2>1. floor' \in {floor, i}
    BY <1>10, RaisedIsTheGreater DEF FinishCommit, UpdateTypeOK, ValidIndex
  <2> QED
    BY <1>10, <2>1 DEF FinishCommit, UpdateTypeOK, UpdatesAreEarned, ClearedAreValid,
       AcceptedHasBooted, ValidIndex
<1>11. CASE VehicleChanges
  BY <1>11 DEF VehicleChanges, UpdateTypeOK, UpdatesAreEarned, ClearedAreValid, AcceptedHasBooted,
     ValidIndex
<1>12. CASE PowerLoss
  BY <1>12 DEF PowerLoss, UpdateTypeOK, UpdatesAreEarned, ClearedAreValid, AcceptedHasBooted,
     States, ValidIndex
<1>13. CASE UNCHANGED updateVars
  BY <1>13 DEF updateVars, UpdateTypeOK, UpdatesAreEarned, ClearedAreValid, AcceptedHasBooted,
     ValidIndex
<1> QED
  BY <1>1, <1>2, <1>3, <1>4, <1>5, <1>6, <1>7, <1>8, <1>9, <1>10, <1>11, <1>12, <1>13
     DEF UpdateNext

\* It holds of every behaviour.
LEMMA UpdateInvariant == UpdateSpec => []UpdateInv
  BY UpdateInitInv, UpdateStepInv, PTL DEF UpdateSpec

\* No order of calls, failures, restarts and new packages installs, boots or accepts a
\* package that verifyUpdatePackage has not passed, or moves the rollback floor to
\* anything but the index of an update that booted healthily.
THEOREM NothingPassesTheVerifier == UpdateSpec => []UpdatesAreEarned
<1>1. UpdateInv => UpdatesAreEarned
  BY DEF UpdateInv
<1> QED
  BY <1>1, UpdateInvariant, PTL

\* Only commitAcceptedUpdate writes the floor.
LEMMA FloorRises == UpdateInv /\ [UpdateNext]_updateVars => [floor' >= floor]_updateVars
<1> SUFFICES ASSUME UpdateInv, [UpdateNext]_updateVars, floor' # floor PROVE floor' >= floor
  BY DEF updateVars, UpdateInv, UpdateTypeOK
<1>1. PICK i \in commits : FinishCommit(i)
  BY DEF UpdateNext, updateVars, Stage, MoveTo, MarkVerified, MarkReady, BeginInstall,
     MarkInstalled, ReportBootHealthy, ReportBootFailure, Fail, BeginCommit, VehicleChanges,
     PowerLoss
<1> QED
  BY <1>1, RaisedIsTheGreater DEF FinishCommit, UpdateInv, UpdateTypeOK

\* RollbackIndexStore.commit never lowers the floor, although each call of
\* commitAcceptedUpdate checks it before an await.
THEOREM TheFloorNeverFalls == UpdateSpec => FloorNeverFalls
  BY FloorRises, UpdateInvariant, PTL DEF UpdateSpec, FloorNeverFalls

(***************************************************************************)
(* A revocation is final, whatever is enrolled, activated, exported or         *)
(* deployed by hand, for any devices, key names, limits and periods.            *)
(***************************************************************************)

KeyShape == [holder : Holders, name : KeyNames, state : {"pending", "active", "revoked"},
             from : Nat, until : Nat, revokedAt : Nat \cup {NotRevoked}]

\* No two keys of a device have one name.
NamesAreUnique ==
    \A k, l \in provisioned : k.holder = l.holder /\ k.name = l.name => k = l

\* Only a revoked key has a time of revocation: none of them leaves that state.
RevokedIsStamped == \A k \in provisioned : k.revokedAt # NotRevoked => k.state = "revoked"

\* The running server knows the keys that were withdrawn as revoked, if at all.
WithdrawnIsServedRevoked ==
    \A s \in served : <<s.holder, s.name>> \in withdrawn => s.state = "revoked"

\* What the server serves depends on what was provisioned when it was exported, so
\* that the invariant speaks of both.
KeyInv ==
    /\ now \in Nat
    /\ provisioned \subseteq KeyShape
    /\ NamesAreUnique
    /\ RevokedIsStamped
    /\ WithdrawnIsServedRevoked

\* The parser keeps holder, name and state of a record that spells its state out.
LEMMA ParsedKeepsState ==
    ASSUME NEW raws, NEW s \in Parsed(raws), \A r \in raws : r.state # "absent"
    PROVE  \E r \in raws : s.holder = r.holder /\ s.name = r.name /\ s.state = r.state
  BY DEF Parsed

\* A record of the export is a provisioned key that is not pending.
LEMMA ExportedIsProvisioned ==
    ASSUME NEW r \in Exported
    PROVE  \E k \in provisioned : /\ k.state # "pending"
                                  /\ r.holder = k.holder /\ r.name = k.name /\ r.state = k.state
  BY DEF Exported

\* No key is enrolled yet.
LEMMA KeyInitInv == KeyInit => KeyInv
  BY DEF KeyInit, KeyInv, NamesAreUnique, RevokedIsStamped, WithdrawnIsServedRevoked

\* Every operation on the registry and every deployment keeps the invariant.
LEMMA KeyStepInv == KeyInv /\ [KeyNext]_keyVars => KeyInv'
<1> SUFFICES ASSUME KeyInv, [KeyNext]_keyVars PROVE KeyInv'
  OBVIOUS
<1> USE DEF KeyInv
<1>1. ASSUME NEW h \in Holders, NEW n \in KeyNames, NEW w \in Validities, Enroll(h, n, w)
      PROVE  KeyInv'
  <2> DEFINE k == [holder |-> h, name |-> n, state |-> "pending", from |-> w[1], until |-> w[2],
                   revokedAt |-> NotRevoked]
  <2>1. k \in KeyShape
    BY KeyAssumption DEF KeyShape
  <2>2. provisioned' = provisioned \cup {k} /\ Named(h, n) = {}
    BY <1>1 DEF Enroll
  <2>3. UNCHANGED <<now, served, withdrawn>>
    BY <1>1 DEF Enroll
  <2>4. NamesAreUnique'
    BY <2>2 DEF NamesAreUnique, Named
  <2>5. RevokedIsStamped'
    BY <2>2 DEF RevokedIsStamped
  <2> QED
    BY <2>1, <2>2, <2>3, <2>4, <2>5 DEF WithdrawnIsServedRevoked
<1>2. ASSUME NEW k \in provisioned, Activate(k) PROVE KeyInv'
  <2> DEFINE l == [k EXCEPT !.state = "active"]
  <2>1. k \in KeyShape /\ k.revokedAt = NotRevoked
    BY <1>2 DEF Activate, MayActivate, RevokedIsStamped
  <2>2. /\ l \in KeyShape /\ l.holder = k.holder /\ l.name = k.name
        /\ l.revokedAt = NotRevoked
    BY <2>1 DEF KeyShape
  <2>3. provisioned' = (provisioned \ {k}) \cup {l} /\ UNCHANGED <<now, served, withdrawn>>
    BY <1>2 DEF Activate
  <2> HIDE DEF l
  <2>4. NamesAreUnique'
    BY <2>2, <2>3 DEF NamesAreUnique
  <2>5. RevokedIsStamped'
    BY <2>2, <2>3 DEF RevokedIsStamped
  <2> QED
    BY <2>2, <2>3, <2>4, <2>5 DEF WithdrawnIsServedRevoked
<1>3. ASSUME NEW k \in provisioned, Revoke(k) PROVE KeyInv'
  <2> DEFINE l == [k EXCEPT !.state = "revoked", !.revokedAt = now]
  <2>1. k \in KeyShape
    OBVIOUS
  <2>2. /\ l \in KeyShape /\ l.holder = k.holder /\ l.name = k.name
        /\ l.state = "revoked"
    BY <2>1 DEF KeyShape
  <2>3. provisioned' = (provisioned \ {k}) \cup {l} /\ UNCHANGED <<now, served, withdrawn>>
    BY <1>3 DEF Revoke
  <2> HIDE DEF l
  <2>4. NamesAreUnique'
    BY <2>2, <2>3 DEF NamesAreUnique
  <2>5. RevokedIsStamped'
    BY <2>2, <2>3 DEF RevokedIsStamped
  <2> QED
    BY <2>2, <2>3, <2>4, <2>5 DEF WithdrawnIsServedRevoked
<1>4. CASE Deploy
  <2>1. UNCHANGED <<now, provisioned>> /\ served' \subseteq Parsed(Exported)
    BY <1>4 DEF Deploy, Start
  <2>2. ASSUME NEW s \in served', <<s.holder, s.name>> \in withdrawn'
        PROVE  s.state = "revoked"
    <3>1. \A r \in Exported : r.state # "absent"
      BY ExportedIsProvisioned DEF KeyShape
    <3>2. PICK r \in Exported : s.holder = r.holder /\ s.name = r.name /\ s.state = r.state
      BY <2>1, <3>1, ParsedKeepsState
    <3>3. PICK k \in provisioned : r.holder = k.holder /\ r.name = k.name /\ r.state = k.state
      BY ExportedIsProvisioned
    <3>4. PICK p \in provisioned : /\ p.revokedAt # NotRevoked
                                   /\ p.holder = s.holder /\ p.name = s.name
      BY <1>4, <2>2 DEF Deploy
    <3>5. p = k
      BY <3>2, <3>3, <3>4 DEF NamesAreUnique
    <3> QED
      BY <3>2, <3>3, <3>4, <3>5 DEF RevokedIsStamped
  <2> QED
    BY <2>1, <2>2 DEF NamesAreUnique, RevokedIsStamped, WithdrawnIsServedRevoked
<1>5. ASSUME NEW raws \in HandWritten, DeployByHand(raws) PROVE KeyInv'
  BY <1>5 DEF DeployByHand, NamesAreUnique, RevokedIsStamped, WithdrawnIsServedRevoked
<1>6. CASE KeyTick
  BY <1>6 DEF KeyTick, Pass, NamesAreUnique, RevokedIsStamped, WithdrawnIsServedRevoked
<1>7. CASE UNCHANGED keyVars
  BY <1>7 DEF keyVars, NamesAreUnique, RevokedIsStamped, WithdrawnIsServedRevoked
<1> QED
  BY <1>1, <1>2, <1>3, <1>4, <1>5, <1>6, <1>7 DEF KeyNext

\* What a server accepts it holds as active, and what was withdrawn it holds as revoked.
LEMMA RevokedAreRefused == KeyInv => RevocationIsFinal
<1>1. \A s \in Accepted : s \in served /\ s.state # "revoked"
  BY DEF Accepted, DeviceVerdict
<1> QED
  BY <1>1 DEF KeyInv, RevocationIsFinal, WithdrawnIsServedRevoked

\* A key that was revoked when the registry was exported is never accepted by a server
\* that runs on that export: activate() refuses it, enroll() does not give its name
\* again, and the verifier takes no revoked key.
THEOREM RevocationsAreFinal == KeySpec => []RevocationIsFinal
  BY RevokedAreRefused, KeyInitInv, KeyStepInv, PTL DEF KeySpec

(***************************************************************************)
(* Status page, provisioning registry and verifier agree on which keys count.   *)
(***************************************************************************)

\* A key is served with the material of its algorithm; an active one has begun.
ServedFits == \A k \in served : k.algorithm \in k.material
ActiveHasBegun == \A k \in provisioned : k.state = "active" => k.from <= now

StandingInv ==
    /\ KeyInv /\ ServedFits /\ ActiveHasBegun

\* What parses has the material of its algorithm.
LEMMA ParsedFits ==
    ASSUME NEW raws, Parses(raws), NEW k \in Parsed(raws)
    PROVE  /\ k.algorithm \in k.material /\ k.algorithm \in Algorithms
           /\ k.state \in {"active", "revoked"}
<1>1. PICK r \in raws :
         k = [holder |-> r.holder, name |-> r.name, algorithm |-> AlgorithmOf(r),
              material |-> (IF r.pem = "good" THEN {"ed25519"} ELSE {}) \cup
                           (IF r.secret = "long" THEN {"hmac-sha256"} ELSE {}),
              state |-> IF r.state = "absent" THEN "active" ELSE r.state,
              from |-> r.from, until |-> r.until]
  BY DEF Parsed
<1>2. MaterialFits(r) /\ r.state \in {"absent", "active", "revoked"}
  BY DEF Parses
<1>3. k.state \in {"active", "revoked"} /\ k.algorithm = AlgorithmOf(r)
  BY <1>1, <1>2
<1>4. k.material = (IF r.pem = "good" THEN {"ed25519"} ELSE {}) \cup
                   (IF r.secret = "long" THEN {"hmac-sha256"} ELSE {})
  BY <1>1
<1>5. CASE AlgorithmOf(r) = "hmac-sha256" /\ r.secret = "long"
  BY <1>3, <1>4, <1>5 DEF Algorithms
<1>6. CASE AlgorithmOf(r) = "ed25519" /\ r.pem = "good"
  BY <1>3, <1>4, <1>6 DEF Algorithms
<1> QED
  BY <1>2, <1>3, <1>5, <1>6 DEF MaterialFits

\* Every step keeps the served keys fit and the active ones begun.
LEMMA StandingStepInv == StandingInv /\ [KeyNext]_keyVars => StandingInv'
<1> SUFFICES ASSUME StandingInv, [KeyNext]_keyVars PROVE StandingInv'
  OBVIOUS
<1>1. KeyInv'
  BY KeyStepInv DEF StandingInv
<1>2. ServedFits'
  <2>1. \/ served' = served \/ served' = {}
        \/ \E raws : Parses(raws) /\ served' = Parsed(raws)
    BY DEF KeyNext, keyVars, Enroll, Activate, Revoke, Deploy, DeployByHand, Start, KeyTick
  <2> QED
    BY <2>1, ParsedFits DEF StandingInv, ServedFits
<1>3. ActiveHasBegun'
  <2>1. now \in Nat /\ provisioned \subseteq KeyShape /\ ActiveHasBegun
    BY DEF StandingInv, KeyInv
  <2>2. CASE UNCHANGED <<now, provisioned>>
    BY <2>1, <2>2 DEF ActiveHasBegun
  <2>3. CASE KeyTick
    BY <2>1, <2>3 DEF KeyTick, Pass, ActiveHasBegun, KeyShape
  <2>4. ASSUME NEW h \in Holders, NEW n \in KeyNames, NEW w \in Validities, Enroll(h, n, w)
        PROVE  ActiveHasBegun'
    <3>1. /\ now' = now
          /\ \A k \in provisioned' : k \in provisioned \/ k.state = "pending"
      BY <2>4 DEF Enroll
    <3> QED
      BY <2>1, <3>1 DEF ActiveHasBegun
  <2>5. ASSUME NEW k \in provisioned, Activate(k) PROVE ActiveHasBegun'
    <3> DEFINE l == [k EXCEPT !.state = "active"]
    <3>1. k \in KeyShape /\ k.from \in Nat /\ k.until \in Nat
      BY <2>1 DEF KeyShape
    <3>2. l.from = k.from /\ k.from <= now
      BY <2>1, <2>5, <3>1 DEF Activate, MayActivate, KeyShape
    <3>3. now' = now /\ provisioned' = (provisioned \ {k}) \cup {l}
      BY <2>5 DEF Activate
    <3> QED
      BY <2>1, <3>2, <3>3 DEF ActiveHasBegun
  <2>6. ASSUME NEW k \in provisioned, Revoke(k) PROVE ActiveHasBegun'
    <3> DEFINE l == [k EXCEPT !.state = "revoked", !.revokedAt = now]
    <3>1. k \in KeyShape
      BY <2>1
    <3>2. l.state = "revoked"
      BY <3>1 DEF KeyShape
    <3>3. now' = now /\ provisioned' = (provisioned \ {k}) \cup {l}
      BY <2>6 DEF Revoke
    <3> QED
      BY <2>1, <3>2, <3>3 DEF ActiveHasBegun
  <2> QED
    BY <2>2, <2>3, <2>4, <2>5, <2>6 DEF KeyNext, keyVars, Deploy, DeployByHand
<1> QED
  BY <1>1, <1>2, <1>3 DEF StandingInv

\* A served key counts as active exactly if a signature with it verifies.
LEMMA CountedIsAccepted == ServedFits => CountedActive(served) = Accepted
  BY DEF ServedFits, CountedActive, StandingOf, Accepted, DeviceVerdict

\* Then the three places that count keys agree.
LEMMA StandingsFollow == StandingInv => StandingsAgree
<1> SUFFICES ASSUME StandingInv PROVE StandingsAgree
  OBVIOUS
<1>1. CountedActive(served) = Accepted
  BY CountedIsAccepted DEF StandingInv
<1>2. ASSUME served = Parsed(Exported)
      PROVE  {<<k.holder, k.name>> : k \in ProvisionedActive} =
                 {<<k.holder, k.name>> : k \in Accepted}
  <2> USE DEF StandingInv, KeyInv
  <2> DEFINE E(k) == [holder |-> k.holder, name |-> k.name, algorithm |-> "ed25519",
                      secret |-> "none", pem |-> "good", state |-> k.state,
                      from |-> k.from, until |-> k.until]
             S(k) == [holder |-> k.holder, name |-> k.name, algorithm |-> "ed25519",
                      material |-> {"ed25519"}, state |-> k.state,
                      from |-> k.from, until |-> k.until]
  <2>1. Exported = {E(k) : k \in {p \in provisioned : p.state # "pending"}}
    BY DEF Exported
  <2>2. served = {S(k) : k \in {p \in provisioned : p.state # "pending"}}
    <3>1. \A r \in Exported : r.state # "absent" /\ r.algorithm = "ed25519"
                              /\ r.pem = "good" /\ r.secret = "none"
      BY <2>1 DEF KeyShape
    <3>2. \A r \in Exported :
             [holder |-> r.holder, name |-> r.name, algorithm |-> AlgorithmOf(r),
              material |-> (IF r.pem = "good" THEN {"ed25519"} ELSE {}) \cup
                           (IF r.secret = "long" THEN {"hmac-sha256"} ELSE {}),
              state |-> IF r.state = "absent" THEN "active" ELSE r.state,
              from |-> r.from, until |-> r.until]
             = [holder |-> r.holder, name |-> r.name, algorithm |-> "ed25519",
                material |-> {"ed25519"}, state |-> r.state,
                from |-> r.from, until |-> r.until]
      BY <3>1 DEF AlgorithmOf
    <3>3. served = {[holder |-> r.holder, name |-> r.name, algorithm |-> "ed25519",
                     material |-> {"ed25519"}, state |-> r.state,
                     from |-> r.from, until |-> r.until] : r \in Exported}
      BY <1>2, <3>2 DEF Parsed
    <3> DEFINE P(r) == [holder |-> r.holder, name |-> r.name, algorithm |-> "ed25519",
                        material |-> {"ed25519"}, state |-> r.state,
                        from |-> r.from, until |-> r.until]
    <3>4. served = {P(r) : r \in Exported}
      BY <3>3
    <3>5. \A k : P(E(k)) = S(k)
      OBVIOUS
    <3> HIDE DEF P, E, S
    <3> QED
      BY <2>1, <3>4, <3>5
  <2>3. ASSUME NEW k \in provisioned, k.state # "pending"
        PROVE  k \in ProvisionedActive <=> S(k) \in Accepted
    <3>1. S(k) \in served
      BY <2>2, <2>3
    <3>2. /\ S(k).state = k.state /\ S(k).from = k.from /\ S(k).until = k.until
          /\ S(k).algorithm \in S(k).material
      OBVIOUS
    <3>3. /\ k.from \in Nat /\ k.until \in Nat /\ now \in Nat
          /\ k.state \in {"active", "revoked"}
          /\ k.state = "active" => k.from <= now
      BY <2>3 DEF KeyShape, ActiveHasBegun
    <3> HIDE DEF S
    <3> QED
      BY <3>1, <3>2, <3>3 DEF ProvisionedActive, Accepted, DeviceVerdict
  <2>4. \A k : S(k).holder = k.holder /\ S(k).name = k.name
    OBVIOUS
  <2>5. \A k \in ProvisionedActive : k \in provisioned /\ k.state # "pending"
    BY DEF ProvisionedActive
  <2>6. \A s \in Accepted : \E k \in provisioned : k.state # "pending" /\ s = S(k)
    BY <2>2 DEF Accepted
  <2> HIDE DEF S
  <2> QED
    BY <2>3, <2>4, <2>5, <2>6
<1> QED
  BY <1>1, <1>2 DEF StandingsAgree

\* The registry is within its limits, and what is served is what was parsed.
HoldersOf(reg) == {k.holder : k \in reg}

KeyBounds ==
    /\ \A k \in provisioned : <<k.from, k.until>> \in Validities
    /\ IsFiniteSet(HoldersOf(provisioned))
    /\ Cardinality(HoldersOf(provisioned)) <= MaxHolders
    /\ \A k \in served : k.algorithm \in Algorithms /\ k.state \in {"active", "revoked"}

\* The empty registry is within its limits.
LEMMA KeyBoundsInit == KeyInit => KeyBounds
<1> SUFFICES ASSUME KeyInit PROVE KeyBounds
  OBVIOUS
<1>1. provisioned = {} /\ served = {} /\ HoldersOf({}) = {}
  BY DEF KeyInit, HoldersOf
<1>2. IsFiniteSet({}) /\ Cardinality({}) = 0 /\ 0 <= MaxHolders
  BY FS_EmptySet, KeyAssumption
<1> QED
  BY <1>1, <1>2 DEF KeyBounds

\* Every step keeps it within them.
LEMMA KeyBoundsStep == KeyInv /\ KeyBounds /\ [KeyNext]_keyVars => KeyBounds'
<1> SUFFICES ASSUME KeyInv, KeyBounds, [KeyNext]_keyVars PROVE KeyBounds'
  OBVIOUS
<1>1. \A k \in served' : k.algorithm \in Algorithms /\ k.state \in {"active", "revoked"}
  <2>1. \/ served' = served \/ served' = {}
        \/ \E raws : Parses(raws) /\ served' = Parsed(raws)
    BY DEF KeyNext, keyVars, Enroll, Activate, Revoke, Deploy, DeployByHand, Start, KeyTick
  <2> QED
    BY <2>1, ParsedFits DEF KeyBounds
<1>2. /\ \A k \in provisioned' : <<k.from, k.until>> \in Validities
      /\ IsFiniteSet(HoldersOf(provisioned')) /\ Cardinality(HoldersOf(provisioned')) <= MaxHolders
  <2>1. CASE provisioned' = provisioned
    BY <2>1 DEF KeyBounds
  <2>2. ASSUME NEW h \in Holders, NEW n \in KeyNames, NEW w \in Validities, Enroll(h, n, w)
        PROVE  /\ \A k \in provisioned' : <<k.from, k.until>> \in Validities
               /\ IsFiniteSet(HoldersOf(provisioned'))
               /\ Cardinality(HoldersOf(provisioned')) <= MaxHolders
    <3> DEFINE k == [holder |-> h, name |-> n, state |-> "pending", from |-> w[1], until |-> w[2],
                     revokedAt |-> NotRevoked]
               old == HoldersOf(provisioned)
    <3>1. provisioned' = provisioned \cup {k}
          /\ (HeldBy(provisioned, h) = {} => Cardinality(old) < MaxHolders)
      BY <2>2 DEF Enroll, HoldersOf
    <3>2. k.holder = h /\ k.from = w[1] /\ k.until = w[2] /\ <<w[1], w[2]>> = w
      BY KeyAssumption
    <3> HIDE DEF k
    <3>3. \A l \in provisioned' : <<l.from, l.until>> \in Validities
      BY <3>1, <3>2 DEF KeyBounds
    <3>4. HoldersOf(provisioned') = old \cup {h}
      BY <3>1, <3>2 DEF HoldersOf
    <3>5. h \notin old => Cardinality(old) < MaxHolders
      BY <3>1 DEF HeldBy, HoldersOf
    <3>6. IsFiniteSet(old) /\ Cardinality(old) <= MaxHolders /\ MaxHolders \in Nat
      BY KeyAssumption DEF KeyBounds
    <3> HIDE DEF old
    <3>7. /\ IsFiniteSet(old \cup {h}) /\ Cardinality(old) \in Nat
          /\ Cardinality(old \cup {h}) = (IF h \in old THEN Cardinality(old) ELSE Cardinality(old) + 1)
      BY <3>6, FS_AddElement, FS_CardinalityType
    <3> QED
      BY <3>3, <3>4, <3>5, <3>6, <3>7
  <2>3. ASSUME NEW k \in provisioned, NEW l, provisioned' = (provisioned \ {k}) \cup {l},
               l.holder = k.holder, l.from = k.from, l.until = k.until
        PROVE  /\ \A m \in provisioned' : <<m.from, m.until>> \in Validities
               /\ IsFiniteSet(HoldersOf(provisioned'))
               /\ Cardinality(HoldersOf(provisioned')) <= MaxHolders
    <3>1. HoldersOf(provisioned') = HoldersOf(provisioned)
      BY <2>3 DEF HoldersOf
    <3>2. \A m \in provisioned' : <<m.from, m.until>> \in Validities
      BY <2>3 DEF KeyBounds
    <3> QED
      BY <3>1, <3>2 DEF KeyBounds
  <2>4. ASSUME NEW k \in provisioned, Activate(k) \/ Revoke(k)
        PROVE  \E l : /\ provisioned' = (provisioned \ {k}) \cup {l}
                      /\ l.holder = k.holder /\ l.from = k.from /\ l.until = k.until
    <3>1. k \in KeyShape
      BY DEF KeyInv
    <3>2. CASE Activate(k)
      <4> DEFINE l == [k EXCEPT !.state = "active"]
      <4>1. l.holder = k.holder /\ l.from = k.from /\ l.until = k.until
        BY <3>1 DEF KeyShape
      <4>2. provisioned' = (provisioned \ {k}) \cup {l}
        BY <3>2 DEF Activate
      <4> QED
        BY <4>1, <4>2, Zenon
    <3>3. CASE Revoke(k)
      <4> DEFINE l == [k EXCEPT !.state = "revoked", !.revokedAt = now]
      <4>1. l.holder = k.holder /\ l.from = k.from /\ l.until = k.until
        BY <3>1 DEF KeyShape
      <4>2. provisioned' = (provisioned \ {k}) \cup {l}
        BY <3>3 DEF Revoke
      <4> QED
        BY <4>1, <4>2, Zenon
    <3> QED
      BY <2>4, <3>2, <3>3
  <2>5. CASE \E k \in provisioned : Activate(k) \/ Revoke(k)
    <3>1. PICK k \in provisioned : Activate(k) \/ Revoke(k)
      BY <2>5
    <3>2. PICK l : /\ provisioned' = (provisioned \ {k}) \cup {l}
                   /\ l.holder = k.holder /\ l.from = k.from /\ l.until = k.until
      BY <2>4, <3>1
    <3> QED
      BY <2>3, <3>2
  <2>6. \/ provisioned' = provisioned
        \/ \E h \in Holders, n \in KeyNames, w \in Validities : Enroll(h, n, w)
        \/ \E k \in provisioned : Activate(k) \/ Revoke(k)
    BY DEF KeyNext, keyVars, Deploy, DeployByHand, KeyTick
  <2> QED
    BY <2>1, <2>2, <2>5, <2>6
<1> QED
  BY <1>1, <1>2 DEF KeyBounds

\* What the registry keeps of its types.
LEMMA KeyTypesFollow == KeyInv /\ KeyBounds => KeyTypeOK
  BY DEF KeyInv, KeyShape, KeyBounds, HoldersOf, KeyTypeOK

\* Nothing is served yet.
LEMMA StandingInitInv == KeyInit => StandingInv
  BY KeyInitInv DEF KeyInit, StandingInv, ServedFits, ActiveHasBegun

\* Status page, provisioning registry and verifier give one answer about every key, whatever
\* is enrolled, activated, revoked, deployed or written by hand, and at any time.
THEOREM TheStandingsAgree == KeySpec => []StandingsAgree
  BY StandingInitInv, StandingStepInv, StandingsFollow, PTL DEF KeySpec

(***************************************************************************)
(* Digital keys: delegation adds nothing, and the two stores hold the same     *)
(* grants, for any vehicles, profiles, roles, windows and limits.               *)
(***************************************************************************)

\* A grant has one identity, and one place in the registry.
GrantsAreNumbered == \A g, h \in grants : g.id = h.id => g = h
NumberedIn(reg) == \A i, j \in DOMAIN reg : reg[i].id = reg[j].id => i = j

\* The registry holds the grants of the repository, each once, so that it is never
\* fuller than the repository.
RegistryIsOfGrants ==
    /\ registry \in Seq(Grant) /\ NumberedIn(registry)
    /\ ToSet(registry) = grants
    /\ IsFiniteSet(grants) /\ Len(registry) = Cardinality(grants)

AccessInv ==
    /\ grants \subseteq Grant /\ roots \subseteq Grant
    /\ Cardinality(grants) <= MaxGrants
    /\ day \in Days
    /\ GrantsAreNumbered
    /\ RegistryIsOfGrants
    /\ AtMostOneOwner
    /\ DelegationIsBounded

\* upsert with an identity in use changes the grant in its place.
LEMMA UpsertedInPlace ==
    ASSUME NEW reg \in Seq(Grant), NumberedIn(reg), NEW g \in Grant,
           NEW k \in DOMAIN reg, reg[k].id = g.id
    PROVE  /\ Upserted(reg, g) \in Seq(Grant) /\ NumberedIn(Upserted(reg, g))
           /\ Len(Upserted(reg, g)) = Len(reg)
           /\ ToSet(Upserted(reg, g)) = {h \in ToSet(reg) : h.id # g.id} \cup {g}
<1> DEFINE new == [i \in DOMAIN reg |-> IF reg[i].id = g.id THEN g ELSE reg[i]]
<1>1. Upserted(reg, g) = new
  BY DEF Upserted
<1>2. /\ DOMAIN reg = 1..Len(reg) /\ Len(reg) \in Nat
      /\ \A i \in DOMAIN reg : reg[i] \in Grant
  BY LenProperties, ElementOfSeq
<1>3. new \in [1..Len(reg) -> Grant]
  BY <1>2
<1>4. new \in Seq(Grant) /\ Len(new) = Len(reg) /\ DOMAIN new = DOMAIN reg
  BY <1>2, <1>3
<1>5. \A i \in DOMAIN reg : new[i] = (IF i = k THEN g ELSE reg[i]) /\ new[i].id = reg[i].id
  BY DEF NumberedIn
<1> HIDE DEF new
<1>6. NumberedIn(new)
  BY <1>4, <1>5 DEF NumberedIn
<1>7. ToSet(new) = {h \in ToSet(reg) : h.id # g.id} \cup {g}
  BY <1>4, <1>5 DEF ToSet, NumberedIn
<1> QED
  BY <1>1, <1>4, <1>6, <1>7

\* Below the limit, a new identity comes last.
LEMMA UpsertedLast ==
    ASSUME NEW reg \in Seq(Grant), NumberedIn(reg), NEW g \in Grant, Len(reg) < MaxGrants,
           \A i \in DOMAIN reg : reg[i].id # g.id
    PROVE  /\ Upserted(reg, g) \in Seq(Grant) /\ NumberedIn(Upserted(reg, g))
           /\ Len(Upserted(reg, g)) = Len(reg) + 1
           /\ ToSet(Upserted(reg, g)) = ToSet(reg) \cup {g}
<1> DEFINE new == Append(reg, g)
<1>1. Upserted(reg, g) = new
  BY DEF Upserted
<1>2. DOMAIN reg = 1..Len(reg) /\ Len(reg) \in Nat
  BY LenProperties
<1>3. /\ new \in Seq(Grant) /\ Len(new) = Len(reg) + 1
      /\ \A i \in 1..Len(reg) : new[i] = reg[i]
      /\ new[Len(reg) + 1] = g
  BY AppendProperties
<1>4. DOMAIN new = 1..Len(reg) + 1
  BY <1>3, LenProperties
<1> HIDE DEF new
<1>5. \A i \in DOMAIN new : i \in DOMAIN reg \/ i = Len(reg) + 1
  BY <1>2, <1>4
<1>6. NumberedIn(new)
  BY <1>2, <1>3, <1>5 DEF NumberedIn
<1>7. ToSet(new) = ToSet(reg) \cup {g}
  <2>1. \A i \in DOMAIN reg : i \in DOMAIN new /\ new[i] = reg[i]
    BY <1>2, <1>3, <1>4
  <2>2. Len(reg) + 1 \in DOMAIN new
    BY <1>2, <1>4
  <2> QED
    BY <1>3, <1>5, <2>1, <2>2 DEF ToSet
<1> QED
  BY <1>1, <1>3, <1>6, <1>7

\* saveGrant of the repository and upsert of the registry keep the two alike.
LEMMA SavedAndUpserted ==
    ASSUME AccessInv, NEW g \in Grant, CanSave(g), SaveGrant(g),
           registry' = Upserted(registry, g)
    PROVE  /\ RegistryIsOfGrants' /\ GrantsAreNumbered'
           /\ grants' \subseteq Grant /\ Cardinality(grants') <= MaxGrants
<1> USE AccessAssumption
<1>1. grants' = {h \in grants : h.id # g.id} \cup {g}
  BY DEF SaveGrant
<1>2. /\ registry \in Seq(Grant) /\ NumberedIn(registry) /\ ToSet(registry) = grants
      /\ IsFiniteSet(grants) /\ Len(registry) = Cardinality(grants)
      /\ grants \subseteq Grant /\ Cardinality(grants) <= MaxGrants
  BY DEF AccessInv, RegistryIsOfGrants
<1>3. GrantsAreNumbered' /\ grants' \subseteq Grant
  BY <1>1, <1>2 DEF AccessInv, GrantsAreNumbered
<1>4. CASE \E h \in grants : h.id = g.id
  <2>1. PICK k \in DOMAIN registry : registry[k].id = g.id
    BY <1>2, <1>4 DEF ToSet
  <2>2. /\ registry' \in Seq(Grant) /\ NumberedIn(registry') /\ Len(registry') = Len(registry)
        /\ ToSet(registry') = grants'
    BY <1>1, <1>2, <2>1, UpsertedInPlace
  <2>3. PICK h \in grants : h.id = g.id
    BY <1>4
  <2>4. grants' = (grants \ {h}) \cup {g} /\ g \notin grants \ {h}
    BY <1>1, <2>3 DEF AccessInv, GrantsAreNumbered
  <2>5. IsFiniteSet(grants \ {h}) /\ Cardinality(grants \ {h}) = Cardinality(grants) - 1
    BY <1>2, <2>3, FS_RemoveElement
  <2>6. IsFiniteSet(grants') /\ Cardinality(grants') = Cardinality(grants \ {h}) + 1
    BY <2>4, <2>5, FS_AddElement
  <2>7. Cardinality(grants') = Cardinality(grants)
    BY <1>2, <2>5, <2>6, FS_CardinalityType
  <2> QED
    BY <1>2, <1>3, <2>2, <2>6, <2>7 DEF RegistryIsOfGrants
<1>5. CASE ~\E h \in grants : h.id = g.id
  <2>1. Cardinality(grants) < MaxGrants
    BY <1>5 DEF CanSave
  <2>2. \A i \in DOMAIN registry : registry[i].id # g.id
    BY <1>2, <1>5 DEF ToSet
  <2>3. grants' = grants \cup {g} /\ g \notin grants
    BY <1>1, <1>5
  <2>4. /\ registry' \in Seq(Grant) /\ NumberedIn(registry') /\ Len(registry') = Len(registry) + 1
        /\ ToSet(registry') = grants'
    BY <1>2, <2>1, <2>2, <2>3, UpsertedLast
  <2>5. IsFiniteSet(grants') /\ Cardinality(grants') = Cardinality(grants) + 1
    BY <1>2, <2>3, FS_AddElement
  <2>6. Cardinality(grants') <= MaxGrants
    BY <1>2, <2>1, <2>5, FS_CardinalityType
  <2> QED
    BY <1>2, <1>3, <2>4, <2>5, <2>6 DEF RegistryIsOfGrants
<1> QED
  BY <1>4, <1>5

\* What a proposal becomes.
LEMMA ProposedIsGrant ==
    ASSUME NEW p \in Proposals
    PROVE  Proposed(p) \in Grant
  BY AccessAssumption DEF Proposals, Proposed, Grant

\* Below its issuer, a grant is bounded by what the issuer is bounded by; no issuer
\* issues an owner's grant.
LEMMA IssuedIsBelow ==
    ASSUME NEW g \in Grant, NEW h \in Grant, NEW r \in Grant,
           h.vehicle = g.vehicle, IssuerMayIssue(h, g), BoundedBy(h, r)
    PROVE  BoundedBy(g, r) /\ g.role # "owner"
<1>1. g.permissions \subseteq h.permissions
  BY DEF IssuerMayIssue, PermissionsOf
<1>2. /\ g.from \in Nat /\ h.from \in Nat /\ r.from \in Nat
      /\ g.until \in Nat \cup {-1} /\ h.until \in Nat \cup {-1} /\ r.until \in Nat \cup {-1}
  BY DEF Grant, Never
<1>3. g.from >= r.from /\ r.vehicle = g.vehicle /\ g.permissions \subseteq r.permissions
  BY <1>1, <1>2 DEF IssuerMayIssue, BoundedBy
<1>4. r.until # Never => g.until # Never /\ g.until <= r.until
  BY <1>2 DEF IssuerMayIssue, BoundedBy, Never
<1>5. g.role # "owner"
  <2>1. ROLE_RANK[h.role] \in 1..6
    BY DEF Grant, DriverRoles, ROLE_RANK
  <2> QED
    BY <2>1 DEF IssuerMayIssue, ROLE_RANK
<1> QED
  BY <1>3, <1>4, <1>5 DEF BoundedBy

\* Issuing a grant keeps the invariant.
LEMMA IssueKeeps ==
    ASSUME AccessInv, NEW g \in Grant, IssueGrant(g)
    PROVE  AccessInv'
<1>1. /\ MayIssue(g) /\ CanSave(g) /\ SaveGrant(g) /\ registry' = Upserted(registry, g)
      /\ roots' = (IF Bootstrapping(g) THEN roots \cup {g} ELSE roots)
      /\ day' = day
  BY DEF IssueGrant
<1>2. /\ RegistryIsOfGrants' /\ GrantsAreNumbered'
      /\ grants' \subseteq Grant /\ Cardinality(grants') <= MaxGrants
  BY <1>1, SavedAndUpserted
<1>3. /\ grants' = {h \in grants : h.id # g.id} \cup {g}
      /\ grants \subseteq Grant /\ roots \subseteq Grant
      /\ AtMostOneOwner /\ DelegationIsBounded
  BY <1>1 DEF SaveGrant, AccessInv
<1>4. CASE Bootstrapping(g)
  <2>1. BoundedBy(g, g)
    BY DEF BoundedBy, Grant, Never
  <2>2. DelegationIsBounded'
    BY <1>1, <1>3, <1>4, <2>1 DEF DelegationIsBounded
  <2>3. AtMostOneOwner'
    BY <1>3, <1>4 DEF AtMostOneOwner, Bootstrapping
  <2> QED
    BY <1>1, <1>2, <1>3, <1>4, <2>2, <2>3 DEF AccessInv
<1>5. CASE ~Bootstrapping(g)
  <2>1. PICK h \in grants : h.vehicle = g.vehicle /\ IssuerMayIssue(h, g)
    BY <1>1, <1>5 DEF MayIssue, Current, FirstListed, ActiveAt
  <2>2. PICK r \in roots : BoundedBy(h, r)
    BY <1>3 DEF DelegationIsBounded
  <2>3. BoundedBy(g, r) /\ g.role # "owner"
    BY <1>3, <2>1, <2>2, IssuedIsBelow
  <2>4. DelegationIsBounded'
    BY <1>1, <1>3, <1>5, <2>3 DEF DelegationIsBounded
  <2>5. AtMostOneOwner'
    BY <1>3, <2>3 DEF AtMostOneOwner
  <2> QED
    BY <1>1, <1>2, <1>3, <1>5, <2>4, <2>5 DEF AccessInv
<1> QED
  BY <1>4, <1>5

\* So does revoking one, with the grants below it.
LEMMA RevokeKeeps ==
    ASSUME AccessInv, NEW a \in Profiles, NEW g \in grants, RevokeGrant(a, g)
    PROVE  AccessInv'
<1> DEFINE r == [g EXCEPT !.revoked = day]
<1>1. g \in Grant /\ day \in Nat
  BY AccessAssumption DEF AccessInv
<1>2. /\ r \in Grant /\ r.id = g.id /\ r.vehicle = g.vehicle /\ r.role = g.role
      /\ r.permissions = g.permissions /\ r.from = g.from /\ r.until = g.until
  BY <1>1 DEF Grant
<1>3. SaveGrant(r) /\ registry' = Upserted(registry, r) /\ day' = day /\ roots' = roots
  BY DEF RevokeGrant
<1> HIDE DEF r
<1>4. CanSave(r)
  BY <1>2 DEF CanSave
<1>5. /\ RegistryIsOfGrants' /\ GrantsAreNumbered'
      /\ grants' \subseteq Grant /\ Cardinality(grants') <= MaxGrants
  BY <1>2, <1>3, <1>4, SavedAndUpserted
<1>6. grants' = (grants \ {g}) \cup {r}
  BY <1>2, <1>3 DEF SaveGrant, AccessInv, GrantsAreNumbered
<1>7. DelegationIsBounded'
  <2>1. \A q \in roots : BoundedBy(g, q) => BoundedBy(r, q)
    BY <1>2 DEF BoundedBy
  <2> QED
    BY <1>3, <1>6, <2>1 DEF AccessInv, DelegationIsBounded
<1>8. AtMostOneOwner'
  BY <1>2, <1>6 DEF AccessInv, AtMostOneOwner
<1> QED
  BY <1>3, <1>5, <1>7, <1>8 DEF AccessInv

\* A decision changes nothing that the invariant is about.
LEMMA DecideKeeps ==
    ASSUME AccessInv, NEW v \in Vehicles, NEW p \in Profiles, DecideAccess(v, p)
    PROVE  AccessInv'
<1>1. PICK g \in grants : registry' = Upserted(registry, g)
  BY DEF DecideAccess, FirstListed
<1>2. UNCHANGED <<grants, day, roots>>
  BY DEF DecideAccess
<1>3. /\ registry \in Seq(Grant) /\ NumberedIn(registry) /\ ToSet(registry) = grants
      /\ g \in Grant
  BY DEF AccessInv, RegistryIsOfGrants
<1>4. PICK k \in DOMAIN registry : registry[k].id = g.id
  BY <1>3 DEF ToSet
<1>5. /\ registry' \in Seq(Grant) /\ NumberedIn(registry') /\ Len(registry') = Len(registry)
      /\ ToSet(registry') = {h \in grants : h.id # g.id} \cup {g}
  BY <1>1, <1>3, <1>4, UpsertedInPlace
<1>6. ToSet(registry') = grants
  BY <1>5 DEF AccessInv, GrantsAreNumbered
<1> QED
  BY <1>2, <1>5, <1>6 DEF AccessInv, RegistryIsOfGrants, GrantsAreNumbered, AtMostOneOwner,
     DelegationIsBounded

\* No grant is issued yet.
LEMMA AccessInitInv == AccessInit => AccessInv
<1> SUFFICES ASSUME AccessInit PROVE AccessInv
  OBVIOUS
<1>1. grants = {} /\ registry = << >> /\ day = 0 /\ roots = {}
  BY DEF AccessInit
<1>2. RegistryIsOfGrants
  BY <1>1, FS_EmptySet DEF RegistryIsOfGrants, NumberedIn, ToSet
<1>3. Cardinality(grants) <= MaxGrants
  BY <1>1, FS_EmptySet, AccessAssumption
<1> QED
  BY <1>1, <1>2, <1>3, AccessAssumption DEF AccessInv, GrantsAreNumbered, AtMostOneOwner,
     DelegationIsBounded

\* Every step keeps the delegation bounded and the two stores alike.
LEMMA AccessStepInv == AccessInv /\ [AccessNext]_accessVars => AccessInv'
<1> SUFFICES ASSUME AccessInv, [AccessNext]_accessVars PROVE AccessInv'
  OBVIOUS
<1>1. CASE \E p \in Proposals : IssueGrant(Proposed(p))
  BY <1>1, ProposedIsGrant, IssueKeeps
<1>2. CASE \E a \in Profiles, g \in grants : RevokeGrant(a, g)
  BY <1>2, RevokeKeeps
<1>3. CASE \E v \in Vehicles, p \in Profiles : DecideAccess(v, p)
  BY <1>3, DecideKeeps
<1>4. CASE AccessRestart
  <2>1. grants' = {} /\ registry' = << >> /\ roots' = {} /\ day' = day
    BY <1>4 DEF AccessRestart
  <2>2. RegistryIsOfGrants'
    BY <2>1, FS_EmptySet DEF RegistryIsOfGrants, NumberedIn, ToSet
  <2>3. Cardinality(grants') <= MaxGrants
    BY <2>1, FS_EmptySet, AccessAssumption
  <2> QED
    BY <2>1, <2>2, <2>3 DEF AccessInv, GrantsAreNumbered, AtMostOneOwner, DelegationIsBounded
<1>5. CASE NextDay
  BY <1>5 DEF NextDay, AccessInv, RegistryIsOfGrants, GrantsAreNumbered, AtMostOneOwner,
     DelegationIsBounded
<1>6. CASE UNCHANGED accessVars
  BY <1>6 DEF accessVars, AccessInv, RegistryIsOfGrants, GrantsAreNumbered, AtMostOneOwner,
     DelegationIsBounded
<1> QED
  BY <1>1, <1>2, <1>3, <1>4, <1>5, <1>6 DEF AccessNext

\* Which of several active grants decides depends on when each starts, not on where it
\* is kept.
LEMMA StoresDecideAlike == AccessInv => RoutesAgree
<1> SUFFICES ASSUME AccessInv, NEW v \in Vehicles, NEW p \in Profiles
             PROVE  LET act == {g \in grants : ActiveAt(g, v, p, day)}
                    IN  (\A g, h \in act : g.from = h.from => g = h) => Found(v, p) = Current(v, p)
  BY DEF RoutesAgree
<1> DEFINE act == {g \in grants : ActiveAt(g, v, p, day)}
<1> SUFFICES ASSUME \A g, h \in act : g.from = h.from => g = h
             PROVE  Found(v, p) = Current(v, p)
  OBVIOUS
<1> DEFINE latest == {g \in act : \A h \in act : g.from > h.from \/ g = h}
<1>1. /\ ToSet(registry) = grants /\ NumberedIn(registry) /\ registry \in Seq(Grant)
      /\ grants \subseteq Grant
  BY DEF AccessInv, RegistryIsOfGrants
<1>2. \A g \in grants : g.from \in Nat /\ g.id \in Nat
  BY <1>1, AccessAssumption DEF Grant
<1>3. Current(v, p) = latest
  BY <1>2 DEF Current, FirstListed
<1>4. DOMAIN registry \subseteq Nat
  BY <1>1, LenProperties
<1>5. \A i \in DOMAIN registry : registry[i] \in grants
  BY <1>1 DEF ToSet
<1>6. \A g \in grants : \E i \in DOMAIN registry : registry[i] = g
  BY <1>1 DEF ToSet
<1>7. ASSUME NEW g \in Found(v, p) PROVE g \in latest
  <2>1. PICK i \in DOMAIN registry :
           /\ g = registry[i] /\ ActiveAt(registry[i], v, p, day)
           /\ \A j \in DOMAIN registry : ActiveAt(registry[j], v, p, day) =>
                 registry[i].from > registry[j].from
                 \/ (registry[i].from = registry[j].from /\ i <= j)
    BY <1>7 DEF Found
  <2>2. g \in act
    BY <1>5, <2>1
  <2>3. ASSUME NEW h \in act PROVE g.from > h.from \/ g = h
    <3>1. PICK j \in DOMAIN registry : registry[j] = h
      BY <1>6
    <3> QED
      BY <2>1, <2>2, <3>1
  <2> QED
    BY <2>2, <2>3
<1>8. ASSUME NEW g \in latest PROVE g \in Found(v, p)
  <2>1. PICK i \in DOMAIN registry : registry[i] = g
    BY <1>6
  <2>2. ASSUME NEW j \in DOMAIN registry, ActiveAt(registry[j], v, p, day)
        PROVE  g.from > registry[j].from \/ (g.from = registry[j].from /\ i <= j)
    <3>1. registry[j] \in act
      BY <1>5, <2>2
    <3>2. CASE registry[j] = g
      <4>1. j = i
        BY <1>1, <2>1, <3>2 DEF NumberedIn
      <4> QED
        BY <1>4, <3>2, <4>1
    <3>3. CASE registry[j] # g
      BY <3>1, <3>3
    <3> QED
      BY <3>2, <3>3
  <2> QED
    BY <2>1, <2>2 DEF Found
<1> QED
  BY <1>3, <1>7, <1>8

(***************************************************************************)
(* What is remembered of a driver, for any profiles, entries and limits.        *)
(***************************************************************************)

\* f lists the numbers of T in their order.
Lists(f, T) ==
    /\ f \in [1..Cardinality(T) -> T]
    /\ \A i, j \in DOMAIN f : i < j => f[i] < f[j]

\* Numbers up to n can be listed: if not for some n, then not for a smaller one.
LEMMA NumbersCanBeListed ==
    ASSUME NEW n \in Nat, NEW T \in SUBSET (1..n)
    PROVE  \E f : Lists(f, T)
<1> DEFINE Bad == {m \in Nat : \E S \in SUBSET (1..m) : \A f : ~Lists(f, S)}
<1>1. SUFFICES ASSUME Bad # {} PROVE FALSE
  OBVIOUS
<1>2. PICK m \in Bad : \A k \in Bad : m <= k
  BY <1>1, LeastExists
<1>3. PICK S \in SUBSET (1..m) : \A f : ~Lists(f, S)
  BY <1>2
<1>4. m \in Nat /\ \A k \in Nat : k < m => k \notin Bad
  BY <1>2
<1>5. CASE m = 0
  <2>0. 1..m = {}
    BY <1>5
  <2>1. S = {} /\ Cardinality(S) = 0
    BY <1>3, <2>0, FS_EmptySet
  <2>2. Lists([x \in 1..0 |-> x], S)
    BY <2>1 DEF Lists
  <2> QED
    BY <1>3, <2>2
<1>6. CASE m # 0
  <2> DEFINE R == S \ {m}
  <2>1. m - 1 \in Nat /\ m - 1 < m /\ R \in SUBSET (1..m - 1)
    BY <1>3, <1>4, <1>6
  <2> HIDE DEF R
  <2>2. PICK g : Lists(g, R)
    BY <1>4, <2>1
  <2>3. m \in S
    BY <1>3, <2>2 DEF R
  <2>a. IsFiniteSet(1..m - 1)
    BY <2>1, FS_Interval
  <2>4. /\ IsFiniteSet(R) /\ Cardinality(R) \in Nat
    BY <2>1, <2>a, FS_Subset, FS_CardinalityType
  <2>5. S = R \cup {m} /\ Cardinality(S) = Cardinality(R) + 1
    <3>1. S = R \cup {m} /\ m \notin R
      BY <2>3 DEF R
    <3> QED
      BY <2>4, <3>1, FS_AddElement
  <2> DEFINE c == Cardinality(R)
             f == [i \in 1..c + 1 |-> IF i = c + 1 THEN m ELSE g[i]]
  <2>b. DOMAIN g = 1..c
    BY <2>2 DEF Lists
  <2>6. \A i \in 1..c : g[i] \in R /\ g[i] \in Nat /\ g[i] < m
    <3>1. g \in [1..c -> R]
      BY <2>2 DEF Lists
    <3>2. \A t \in R : t \in Nat /\ t < m
      BY <2>1, <1>4
    <3> HIDE DEF c
    <3> QED
      BY <3>1, <3>2
  <2>7. \A i, j \in 1..c : i < j => g[i] < g[j]
    BY <2>2, <2>b DEF Lists
  <2>c. c \in Nat /\ Cardinality(S) = c + 1
    BY <2>4, <2>5
  <2> HIDE DEF c
  <2>8. Lists(f, S)
    <3>0. \A i \in 1..c + 1 : i = c + 1 \/ i \in 1..c
      BY <2>c
    <3>1. f \in [1..c + 1 -> S]
      BY <2>3, <2>5, <2>6, <3>0
    <3>2. ASSUME NEW i \in 1..c + 1, NEW j \in 1..c + 1, i < j PROVE f[i] < f[j]
      <4>1. i \in 1..c /\ i # c + 1
        BY <2>c, <3>2
      <4> QED
        BY <2>c, <2>6, <2>7, <3>2, <3>0, <4>1
    <3> QED
      BY <3>1, <3>2, <2>c DEF Lists
  <2> QED
    BY <1>3, <2>8
<1> QED
  BY <1>5, <1>6

\* A list of T names each of its numbers, once.
LEMMA ListsName ==
    ASSUME NEW n \in Nat, NEW T \in SUBSET (1..n), NEW f, Lists(f, T)
    PROVE  /\ IsFiniteSet(T) /\ Cardinality(T) \in Nat /\ Cardinality(T) <= n
           /\ \A i, j \in DOMAIN f : f[i] = f[j] => i = j
           /\ \A t \in T : \E i \in DOMAIN f : f[i] = t
           /\ Cardinality(T) = n => T = 1..n
<1>a. \A k \in Nat : IsFiniteSet(1..k) /\ Cardinality(1..k) = k
  <2> TAKE k \in Nat
  <2>1. IsFiniteSet(1..k) /\ Cardinality(1..k) = IF 1 > k THEN 0 ELSE k - 1 + 1
    BY FS_Interval
  <2> QED
    BY <2>1
<1>b. /\ IsFiniteSet(1..n) /\ Cardinality(1..n) = n
  BY <1>a
<1>c. IsFiniteSet(T) /\ Cardinality(T) <= Cardinality(1..n)
      /\ (Cardinality(T) = Cardinality(1..n) => T = 1..n)
  BY <1>b, FS_Subset
<1>1. /\ IsFiniteSet(1..n) /\ Cardinality(1..n) = n
      /\ IsFiniteSet(T) /\ Cardinality(T) \in Nat /\ Cardinality(T) <= n
      /\ Cardinality(T) = n => T = 1..n
  BY <1>b, <1>c, FS_CardinalityType
<1> DEFINE c == Cardinality(T)
<1>2. IsFiniteSet(1..c) /\ Cardinality(1..c) = c
  BY <1>1, <1>a
<1>3. \A i, j \in DOMAIN f : f[i] = f[j] => i = j
  <2>a. \A t \in T : t \in Nat
    OBVIOUS
  <2>b. f \in [1..c -> T]
    BY DEF Lists
  <2>1. DOMAIN f = 1..c /\ \A i \in DOMAIN f : f[i] \in Nat
    BY <2>a, <2>b, Zenon
  <2>2. \A i, j \in DOMAIN f : i < j => f[i] < f[j]
    BY DEF Lists
  <2>3. \A i, j \in 1..c : i < j \/ j < i \/ i = j
    BY <1>1
  <2> QED
    BY <2>1, <2>2, <2>3
<1>d. f \in [1..c -> T]
  BY DEF Lists
<1>4. f \in Injection(1..c, T)
  BY <1>3, <1>d, Zenon DEF Injection, IsInjective
<1>5. f \in Surjection(1..c, T)
  BY <1>1, <1>2, <1>4, FS_Injection
<1>6. \A t \in T : \E i \in DOMAIN f : f[i] = t
  BY <1>5 DEF Surjection, Lists
<1> QED
  BY <1>1, <1>3, <1>6

UniqueIn(recs) == \A i, j \in DOMAIN recs : recs[i].key = recs[j].key => i = j

\* What is left keeps its order and is what it says.
LEMMA WithoutKeeps ==
    ASSUME NEW R, NEW recs \in Seq(R), NEW keys
    PROVE  /\ Without(recs, keys) \in Seq(R)
           /\ ToSet(Without(recs, keys)) = {r \in ToSet(recs) : r.key \notin keys}
           /\ Len(Without(recs, keys)) <= Len(recs)
           /\ (\E r \in ToSet(recs) : r.key \in keys) => Len(Without(recs, keys)) < Len(recs)
           /\ UniqueIn(recs) => UniqueIn(Without(recs, keys))
<1> DEFINE kept == {i \in DOMAIN recs : recs[i].key \notin keys}
           c == Cardinality(kept)
           nth == CHOOSE f \in [1..c -> kept] : \A i, j \in DOMAIN f : i < j => f[i] < f[j]
           left == [i \in DOMAIN nth |-> recs[nth[i]]]
<1>1. /\ Len(recs) \in Nat /\ DOMAIN recs = 1..Len(recs)
      /\ \A i \in DOMAIN recs : recs[i] \in R
  BY LenProperties, ElementOfSeq
<1>2. kept \in SUBSET (1..Len(recs))
  BY <1>1
<1>3. \E f \in [1..c -> kept] : \A i, j \in DOMAIN f : i < j => f[i] < f[j]
  BY <1>1, <1>2, NumbersCanBeListed DEF Lists
<1>4. Lists(nth, kept)
  BY <1>3, Zenon DEF Lists
<1>5. Without(recs, keys) = left
  BY DEF Without
<1>6. \A i \in DOMAIN recs : i \in kept <=> recs[i].key \notin keys
  OBVIOUS
<1> HIDE DEF kept, nth
<1>7. /\ c \in Nat /\ c <= Len(recs)
      /\ \A i, j \in DOMAIN nth : nth[i] = nth[j] => i = j
      /\ \A t \in kept : \E i \in DOMAIN nth : nth[i] = t
      /\ c = Len(recs) => kept = 1..Len(recs)
  BY <1>1, <1>2, <1>4, ListsName
<1>8. DOMAIN nth = 1..c /\ \A i \in 1..c : nth[i] \in kept /\ nth[i] \in DOMAIN recs
  BY <1>1, <1>2, <1>4 DEF Lists
<1>9. left \in [1..c -> R]
  BY <1>1, <1>8
<1>10. left \in Seq(R) /\ Len(left) = c /\ DOMAIN left = 1..c
  BY <1>7, <1>8, <1>9
<1>11. \A i \in 1..c : left[i] = recs[nth[i]]
  BY <1>8
<1> HIDE DEF left, c
<1>12. ToSet(left) = {r \in ToSet(recs) : r.key \notin keys}
  BY <1>6, <1>7, <1>8, <1>10, <1>11 DEF ToSet
<1>13. (\E r \in ToSet(recs) : r.key \in keys) => c < Len(recs)
  BY <1>1, <1>6, <1>7 DEF ToSet
<1>14. UniqueIn(recs) => UniqueIn(left)
  BY <1>7, <1>8, <1>10, <1>11 DEF UniqueIn
<1> QED
  BY <1>5, <1>7, <1>10, <1>12, <1>13, <1>14

\* Putting a record replaces the one of its key, and at the limit another makes room.
LEMMA PutKeeps ==
    ASSUME NEW R, NEW recs \in Seq(R), UniqueIn(recs), Len(recs) <= MAX_MEMORY_KEYS,
           NEW key, NEW value, [key |-> key, value |-> value] \in R
    PROVE  /\ Put(recs, key, value) \in Seq(R) /\ UniqueIn(Put(recs, key, value))
           /\ Len(Put(recs, key, value)) <= MAX_MEMORY_KEYS
           /\ \A r \in ToSet(Put(recs, key, value)) :
                 \/ r = [key |-> key, value |-> value]
                 \/ r \in ToSet(recs) /\ r.key # key
<1> DEFINE new == [key |-> key, value |-> value]
           room == IF Find(recs, key) = {} /\ Len(recs) >= MAX_MEMORY_KEYS
                   THEN Tail(recs) ELSE Without(recs, {key})
<1>1. Len(recs) \in Nat /\ DOMAIN recs = 1..Len(recs) /\ MAX_MEMORY_KEYS \in Nat /\ MAX_MEMORY_KEYS > 0
  BY LenProperties, MemoryAssumption
<1>2. /\ room \in Seq(R) /\ UniqueIn(room) /\ Len(room) < MAX_MEMORY_KEYS
      /\ \A r \in ToSet(room) : r \in ToSet(recs) /\ r.key # key
  <2>1. CASE Find(recs, key) = {} /\ Len(recs) >= MAX_MEMORY_KEYS
    <3>1. room = Tail(recs) /\ recs # << >>
      BY <1>1, <2>1
    <3> HIDE DEF room
    <3>2. room \in Seq(R) /\ Len(room) = Len(recs) - 1
          /\ \A i \in 1..Len(room) : room[i] = recs[i + 1]
      BY <3>1, HeadTailProperties
    <3>3. DOMAIN room = 1..Len(room) /\ Len(room) \in Nat
      BY <3>2, LenProperties
    <3>4. \A i \in 1..Len(room) : i + 1 \in DOMAIN recs
      BY <1>1, <3>2, <3>3
    <3>5. UniqueIn(room)
      <4> SUFFICES ASSUME NEW i \in DOMAIN room, NEW j \in DOMAIN room, room[i].key = room[j].key
                   PROVE  i = j
        BY DEF UniqueIn
      <4>1. recs[i + 1].key = recs[j + 1].key /\ i + 1 \in DOMAIN recs /\ j + 1 \in DOMAIN recs
        BY <3>2, <3>3, <3>4
      <4>2. i + 1 = j + 1
        BY <4>1 DEF UniqueIn
      <4> QED
        BY <3>3, <4>2
    <3>6. \A r \in ToSet(room) : r \in ToSet(recs) /\ r.key # key
      BY <2>1, <3>2, <3>3, <3>4 DEF ToSet, Find
    <3> QED
      BY <1>1, <3>2, <3>3, <3>5, <3>6
  <2>2. CASE ~(Find(recs, key) = {} /\ Len(recs) >= MAX_MEMORY_KEYS)
    <3>1. room = Without(recs, {key})
      BY <2>2
    <3> HIDE DEF room
    <3>2. /\ room \in Seq(R)
          /\ ToSet(room) = {r \in ToSet(recs) : r.key \notin {key}}
          /\ Len(room) <= Len(recs)
          /\ (\E r \in ToSet(recs) : r.key \in {key}) => Len(room) < Len(recs)
          /\ UniqueIn(room)
      BY <3>1, WithoutKeeps
    <3>3. Find(recs, key) # {} => Len(room) < Len(recs)
      BY <3>2 DEF Find
    <3>4. Len(room) \in Nat
      BY <3>2, LenProperties
    <3> QED
      BY <1>1, <2>2, <3>2, <3>3, <3>4
  <2> QED
    BY <2>1, <2>2
<1>3. Put(recs, key, value) = Append(room, new)
  BY DEF Put
<1> HIDE DEF room
<1>4. Len(room) \in Nat /\ DOMAIN room = 1..Len(room)
  BY <1>2, LenProperties
<1> DEFINE put == Append(room, new)
<1>5. /\ put \in Seq(R) /\ Len(put) = Len(room) + 1
      /\ \A i \in 1..Len(room) : put[i] = room[i]
      /\ put[Len(room) + 1] = new
  BY <1>2, AppendProperties
<1> HIDE DEF put
<1>6. DOMAIN put = 1..Len(room) + 1
  BY <1>5, LenProperties
<1>7. \A i \in DOMAIN put : i \in 1..Len(room) \/ i = Len(room) + 1
  BY <1>4, <1>6
<1>8. \A i \in 1..Len(room) : room[i].key # key
  BY <1>2, <1>4 DEF ToSet
<1>9. UniqueIn(put)
  <2> SUFFICES ASSUME NEW i \in DOMAIN put, NEW j \in DOMAIN put, put[i].key = put[j].key
               PROVE  i = j
    BY DEF UniqueIn
  <2>1. CASE i \in 1..Len(room) /\ j \in 1..Len(room)
    BY <1>2, <1>4, <1>5, <2>1 DEF UniqueIn
  <2>2. new.key = key
    OBVIOUS
  <2> HIDE DEF new
  <2> QED
    BY <1>5, <1>7, <1>8, <2>1, <2>2
<1>10. \A r \in ToSet(put) : r = new \/ r \in ToSet(room)
  BY <1>4, <1>5, <1>7 DEF ToSet
<1>11. Len(put) <= MAX_MEMORY_KEYS
  BY <1>1, <1>2, <1>4, <1>5
<1> QED
  BY <1>2, <1>3, <1>5, <1>9, <1>10, <1>11 DEF put

-----------------------------------------------------------------------------
\* The name of a profile comes before those of its entries, and what comes before the
\* name of an entry is related to its owner.
LEMMA OwnersComeFirst ==
    ASSUME NEW p \in ProfileNames, NEW e \in EntryNames
    PROVE  /\ IsStrictPrefix(p, p \o e)
           /\ \A q \in ProfileNames : IsStrictPrefix(q, p \o e) => Related(q, p)
<1>1. p \in Seq(STRING) /\ e \in Seq(STRING) /\ e # << >>
  BY MemoryAssumption
<1> DEFINE t == p \o e
<1>2. /\ t \in Seq(STRING) /\ Len(t) = Len(p) + Len(e)
      /\ \A i \in 1..Len(p) : t[i] = p[i]
      /\ Len(p) \in Nat /\ Len(e) \in Nat
  BY <1>1, ConcatProperties, LenProperties
<1>3. p # t
  BY <1>1, ConcatEqualIffEmpty
<1> HIDE DEF t
<1>4. IsPrefix(p, t)
  <2>1. SubSeq(p, 1, Len(p)) = SubSeq(t, 1, Len(p))
    BY <1>1, <1>2
  <2> QED
    BY <1>2, <2>1 DEF IsPrefix
<1>5. ASSUME NEW q \in ProfileNames, IsPrefix(q, t) PROVE Related(q, p)
  <2>1. q \in Seq(STRING) /\ Len(q) \in Nat
    BY MemoryAssumption, LenProperties
  <2>2. Len(q) <= Len(t) /\ SubSeq(q, 1, Len(q)) = SubSeq(t, 1, Len(q))
    BY <1>5 DEF IsPrefix
  <2>3. \A i \in 1..Len(q) : q[i] = t[i]
    <3> SUFFICES ASSUME NEW i \in 1..Len(q) PROVE q[i] = t[i]
      OBVIOUS
    <3>1. SubSeq(q, 1, Len(q))[i] = q[i]
      BY <2>1
    <3>2. SubSeq(t, 1, Len(q))[i] = t[i]
      BY <1>2, <2>1, <2>2
    <3> QED
      BY <2>2, <3>1, <3>2
  <2>4. CASE Len(q) <= Len(p)
    <3>1. SubSeq(q, 1, Len(q)) = SubSeq(p, 1, Len(q))
      BY <1>1, <1>2, <2>1, <2>3, <2>4
    <3> QED
      BY <2>4, <3>1 DEF Related, IsPrefix
  <2>5. CASE Len(p) <= Len(q)
    <3>1. SubSeq(p, 1, Len(p)) = SubSeq(q, 1, Len(p))
      BY <1>1, <1>2, <2>1, <2>3, <2>5
    <3> QED
      BY <2>5, <3>1 DEF Related, IsPrefix
  <2> QED
    BY <1>2, <2>1, <2>4, <2>5
<1> QED
  BY <1>3, <1>4, <1>5 DEF t, IsStrictPrefix

ProfileRecords ==
    {[key |-> ProfileKey(p), value |-> [privacy |-> x]] : p \in ProfileNames, x \in Privacy}

EntryRecords ==
    {[key |-> MemoryKey(p, e), value |-> [owner |-> p, name |-> e, kind |-> k, used |-> u]] :
        p \in ProfileNames, e \in EntryNames, k \in Kinds, u \in Uses}

\* What the records are.
LEMMA RecordsAre ==
    /\ \A r \in ProfileRecords :
          r.key.space = "profile" /\ r.key.path \in ProfileNames /\ r.value.privacy \in Privacy
          /\ r.key = ProfileKey(r.key.path)
    /\ \A r \in EntryRecords :
          /\ r.key.space = "memory" /\ r.key = MemoryKey(r.value.owner, r.value.name)
          /\ r.value.owner \in ProfileNames /\ r.value.name \in EntryNames
          /\ r.value.kind \in Kinds /\ r.value.used \in Uses
          /\ r.key.path = r.value.owner \o r.value.name
<1>1. ASSUME NEW r \in ProfileRecords
      PROVE  /\ r.key.space = "profile" /\ r.key.path \in ProfileNames /\ r.value.privacy \in Privacy
             /\ r.key = ProfileKey(r.key.path)
  <2>1. PICK p \in ProfileNames, x \in Privacy :
           r = [key |-> ProfileKey(p), value |-> [privacy |-> x]]
    BY <1>1 DEF ProfileRecords
  <2> QED
    BY <2>1 DEF ProfileKey
<1>2. ASSUME NEW r \in EntryRecords
      PROVE  /\ r.key.space = "memory" /\ r.key = MemoryKey(r.value.owner, r.value.name)
             /\ r.value.owner \in ProfileNames /\ r.value.name \in EntryNames
             /\ r.value.kind \in Kinds /\ r.value.used \in Uses
             /\ r.key.path = r.value.owner \o r.value.name
  <2>1. PICK p \in ProfileNames, e \in EntryNames, k \in Kinds, u \in Uses :
           r = [key |-> MemoryKey(p, e), value |-> [owner |-> p, name |-> e, kind |-> k, used |-> u]]
    BY <1>2 DEF EntryRecords
  <2> QED
    BY <2>1 DEF MemoryKey
<1> QED
  BY <1>1, <1>2

StoredRecords == ProfileRecords \cup EntryRecords

\* The two properties, of any records.
PermittedIn(recs) ==
    \A r \in ToSet(recs) : r.key.space = "memory" =>
        \A profile \in ToSet(recs) : profile.key = ProfileKey(r.value.owner) =>
            Permitted(profile.value.privacy, r.value.kind)

Alone(p) == \A q \in ProfileNames \ {p} : ~Related(p, q)

BoundedIn(recs) ==
    \A p \in ProfileNames : Alone(p) => Cardinality(EntriesUnder(recs, p)) <= MAX_ENTRIES

SoundMemory(recs) ==
    /\ recs \in Seq(StoredRecords) /\ UniqueIn(recs)
    /\ Len(recs) <= MAX_MEMORY_KEYS
    /\ PermittedIn(recs)
    /\ BoundedIn(recs)

MemoryInv == SoundMemory(records)

\* The invariant implies what the runs check.
LEMMA MemoryInvShows ==
    ASSUME MemoryInv PROVE MemoryTypeOK /\ MemoryIsPermitted /\ ProfilesAreApart
<1>1. \A r \in ToSet(records) : r \in StoredRecords
  BY ElementOfSeq, LenProperties DEF ToSet, MemoryInv, SoundMemory
<1>2. MemoryTypeOK
  <2>1. \A r \in ProfilesIn(records) : r.key.path \in ProfileNames /\ r.value.privacy \in Privacy
    BY <1>1, RecordsAre DEF StoredRecords, ProfilesIn
  <2> QED
    BY <2>1 DEF MemoryTypeOK, MemoryInv, SoundMemory, UniqueIn
<1>3. MemoryIsPermitted
  BY DEF MemoryInv, SoundMemory, PermittedIn, MemoryIsPermitted, Entries, Find
<1>4. ASSUME NEW p \in ProfileNames, NEW r \in EntriesUnder(records, p)
      PROVE  Related(p, r.value.owner)
  <2>1. r \in EntryRecords /\ IsStrictPrefix(p, r.key.path)
    BY <1>1, <1>4, RecordsAre DEF EntriesUnder, StoredRecords
  <2>2. /\ r.value.owner \in ProfileNames /\ r.value.name \in EntryNames
        /\ IsStrictPrefix(p, r.value.owner \o r.value.name)
    BY <2>1, RecordsAre
  <2> QED
    BY <2>2, OwnersComeFirst
<1>5. ProfilesAreApart
  BY <1>4 DEF ProfilesAreApart, MemoryInv, SoundMemory, BoundedIn, Alone
<1> QED
  BY <1>2, <1>3, <1>5

\* What is stored is stored as a profile or as an entry, and there is an end to it.
LEMMA StoredIsFinite ==
    ASSUME NEW recs \in Seq(StoredRecords)
    PROVE  /\ \A r \in ToSet(recs) : r \in StoredRecords
           /\ \A p : IsFiniteSet(EntriesUnder(recs, p))
<1>1. DOMAIN recs = 1..Len(recs) /\ Len(recs) \in Nat
  BY LenProperties
<1>2. IsFiniteSet(DOMAIN recs)
  BY <1>1, FS_Interval
<1>3. IsFiniteSet(ToSet(recs))
  BY <1>2, ImageIsFinite DEF ToSet
<1>4. \A p : EntriesUnder(recs, p) \in SUBSET ToSet(recs)
  BY DEF EntriesUnder
<1>5. \A p : IsFiniteSet(EntriesUnder(recs, p))
  BY <1>3, <1>4, FS_Subset
<1>6. \A r \in ToSet(recs) : r \in StoredRecords
  BY <1>1, ElementOfSeq DEF ToSet
<1> QED
  BY <1>5, <1>6

\* A profile that sees no more entries than before sees few enough.
LEMMA FewerIsBounded ==
    ASSUME NEW recs \in Seq(StoredRecords), NEW p, NEW S, S \subseteq EntriesUnder(recs, p),
           Cardinality(EntriesUnder(recs, p)) <= MAX_ENTRIES
    PROVE  Cardinality(S) <= MAX_ENTRIES
<1>1. IsFiniteSet(EntriesUnder(recs, p))
  BY StoredIsFinite
<1>2. IsFiniteSet(S) /\ Cardinality(S) <= Cardinality(EntriesUnder(recs, p))
  BY <1>1, FS_Subset
<1>3. Cardinality(S) \in Nat /\ Cardinality(EntriesUnder(recs, p)) \in Nat /\ MAX_ENTRIES \in Nat
  BY <1>1, <1>2, FS_CardinalityType, MemoryAssumption
<1> QED
  BY <1>2, <1>3

\* Records may be taken out.
LEMMA WithoutIsSound ==
    ASSUME NEW recs, SoundMemory(recs), NEW keys
    PROVE  SoundMemory(Without(recs, keys))
<1> DEFINE left == Without(recs, keys)
<1>1. /\ left \in Seq(StoredRecords) /\ ToSet(left) = {r \in ToSet(recs) : r.key \notin keys}
      /\ Len(left) <= Len(recs) /\ UniqueIn(left)
  BY WithoutKeeps DEF SoundMemory
<1>2. recs \in Seq(StoredRecords) /\ PermittedIn(recs) /\ BoundedIn(recs) /\ Len(recs) <= MAX_MEMORY_KEYS
  BY DEF SoundMemory
<1> HIDE DEF left
<1>3. Len(left) <= MAX_MEMORY_KEYS
  BY <1>1, <1>2, LenProperties, MemoryAssumption
<1>4. PermittedIn(left)
  BY <1>1, <1>2 DEF PermittedIn
<1>5. ASSUME NEW p \in ProfileNames, Alone(p)
      PROVE  Cardinality(EntriesUnder(left, p)) <= MAX_ENTRIES
  <2>1. EntriesUnder(left, p) \subseteq EntriesUnder(recs, p)
    BY <1>1 DEF EntriesUnder
  <2>2. Cardinality(EntriesUnder(recs, p)) <= MAX_ENTRIES
    BY <1>2, <1>5 DEF BoundedIn
  <2> QED
    BY <1>2, <2>1, <2>2, FewerIsBounded
<1> QED
  BY <1>1, <1>3, <1>4, <1>5 DEF SoundMemory, BoundedIn, left

\* A purge takes out records.
LEMMA PurgedIsSound ==
    ASSUME NEW recs, SoundMemory(recs), NEW p, NEW privacy
    PROVE  SoundMemory(Purged(recs, p, privacy))
<1> QED
  BY WithoutIsSound DEF Purged

\* Saving a profile leaves no entry of its own that it does not permit.
LEMMA SavedProfileIsSound ==
    ASSUME NEW recs, SoundMemory(recs), NEW p \in ProfileNames, NEW x \in Privacy
    PROVE  SoundMemory(Purged(Put(recs, ProfileKey(p), [privacy |-> x]), p, x))
<1> DEFINE key == ProfileKey(p)
           new == [key |-> key, value |-> [privacy |-> x]]
           put == Put(recs, key, [privacy |-> x])
           keys == {r.key : r \in {r \in EntriesUnder(put, p) : ~Permitted(x, r.value.kind)}}
           left == Without(put, keys)
<1>1. new \in ProfileRecords /\ new \in StoredRecords
  BY DEF ProfileRecords, StoredRecords
<1>2. /\ put \in Seq(StoredRecords) /\ UniqueIn(put) /\ Len(put) <= MAX_MEMORY_KEYS
      /\ \A r \in ToSet(put) : r = new \/ (r \in ToSet(recs) /\ r.key # key)
  BY <1>1, PutKeeps DEF SoundMemory
<1>3. /\ new.key = key /\ new.key.space = "profile" /\ new.value.privacy = x
  BY DEF ProfileKey
<1>4. recs \in Seq(StoredRecords) /\ PermittedIn(recs) /\ BoundedIn(recs)
  BY DEF SoundMemory
<1>5. \A q \in ProfileNames : q # p => ProfileKey(q) # key
  BY DEF ProfileKey
<1> HIDE DEF put, new, key
<1>6. /\ left \in Seq(StoredRecords) /\ ToSet(left) = {r \in ToSet(put) : r.key \notin keys}
      /\ Len(left) <= Len(put) /\ UniqueIn(left)
  BY <1>2, WithoutKeeps
<1>7. \A r \in EntriesUnder(put, p) : r.key \notin keys => Permitted(x, r.value.kind)
  OBVIOUS
<1> HIDE DEF left, keys
<1>8. PermittedIn(left)
  <2> SUFFICES ASSUME NEW r \in ToSet(left), r.key.space = "memory",
                      NEW profile \in ToSet(left), profile.key = ProfileKey(r.value.owner)
               PROVE  Permitted(profile.value.privacy, r.value.kind)
    BY DEF PermittedIn
  <2>1. r # new /\ r \in ToSet(put) /\ r \in ToSet(recs) /\ r.key \notin keys /\ profile \in ToSet(put)
    BY <1>2, <1>3, <1>6
  <2>2. r \in EntryRecords
    BY <1>4, <2>1, StoredIsFinite, RecordsAre DEF StoredRecords
  <2>3. /\ r.value.owner \in ProfileNames /\ r.value.name \in EntryNames
        /\ r.key.path = r.value.owner \o r.value.name
    BY <2>2, RecordsAre
  <2>4. CASE r.value.owner = p
    <3>1. IsStrictPrefix(p, r.key.path)
      BY <2>3, <2>4, OwnersComeFirst
    <3>2. Permitted(x, r.value.kind)
      BY <1>7, <2>1, <3>1 DEF EntriesUnder
    <3>3. profile = new
      BY <1>2, <2>1, <2>4 DEF key
    <3> QED
      BY <1>3, <3>2, <3>3
  <2>5. CASE r.value.owner # p
    <3>1. profile \in ToSet(recs)
      BY <1>2, <1>3, <1>5, <2>1, <2>3, <2>5
    <3> QED
      BY <1>4, <2>1, <3>1 DEF PermittedIn
  <2> QED
    BY <2>4, <2>5
<1>9. ASSUME NEW q \in ProfileNames, Alone(q)
      PROVE  Cardinality(EntriesUnder(left, q)) <= MAX_ENTRIES
  <2>1. EntriesUnder(left, q) \subseteq EntriesUnder(recs, q)
    BY <1>2, <1>3, <1>6 DEF EntriesUnder
  <2>2. Cardinality(EntriesUnder(recs, q)) <= MAX_ENTRIES
    BY <1>4, <1>9 DEF BoundedIn
  <2> QED
    BY <1>4, <2>1, <2>2, FewerIsBounded
<1>10. Len(left) <= MAX_MEMORY_KEYS
  BY <1>2, <1>6, LenProperties, MemoryAssumption
<1>11. SoundMemory(left)
  BY <1>6, <1>8, <1>9, <1>10 DEF SoundMemory, BoundedIn
<1> QED
  BY <1>11 DEF Purged, left, keys, put, key

\* Saving an entry that its profile permits, where there is room for it.
LEMMA SavedEntryIsSound ==
    ASSUME NEW recs, SoundMemory(recs),
           NEW p \in ProfileNames, NEW e \in EntryNames, NEW kind \in Kinds, NEW used \in Uses,
           \A profile \in Find(recs, ProfileKey(p)) : Permitted(profile.value.privacy, kind),
           Alone(p) => \/ Find(recs, MemoryKey(p, e)) # {}
                       \/ Cardinality(EntriesUnder(recs, p)) < MAX_ENTRIES
    PROVE  SoundMemory(Put(recs, MemoryKey(p, e),
                           [owner |-> p, name |-> e, kind |-> kind, used |-> used]))
<1> DEFINE key == MemoryKey(p, e)
           value == [owner |-> p, name |-> e, kind |-> kind, used |-> used]
           new == [key |-> key, value |-> value]
           put == Put(recs, key, value)
<1>1. new \in EntryRecords /\ new \in StoredRecords
  BY DEF EntryRecords, StoredRecords
<1>2. /\ put \in Seq(StoredRecords) /\ UniqueIn(put) /\ Len(put) <= MAX_MEMORY_KEYS
      /\ \A r \in ToSet(put) : r = new \/ (r \in ToSet(recs) /\ r.key # key)
  BY <1>1, PutKeeps DEF SoundMemory
<1>3. /\ new.key = key /\ new.key.space = "memory" /\ new.key.path = p \o e
      /\ new.value.owner = p /\ new.value.kind = kind
      /\ key.space = "memory" /\ key.path = p \o e
  BY DEF MemoryKey
<1>4. recs \in Seq(StoredRecords) /\ PermittedIn(recs) /\ BoundedIn(recs)
  BY DEF SoundMemory
<1>5. \A q : ProfileKey(q).space = "profile"
  BY DEF ProfileKey
<1>6. \A r \in Find(recs, key) : r \in ToSet(recs) /\ r.key = key
  BY DEF Find
<1>7. Alone(p) => Find(recs, key) # {} \/ Cardinality(EntriesUnder(recs, p)) < MAX_ENTRIES
  OBVIOUS
<1> HIDE DEF put, new, key
<1>8. PermittedIn(put)
  <2> SUFFICES ASSUME NEW r \in ToSet(put), r.key.space = "memory",
                      NEW profile \in ToSet(put), profile.key = ProfileKey(r.value.owner)
               PROVE  Permitted(profile.value.privacy, r.value.kind)
    BY DEF PermittedIn
  <2>1. profile \in ToSet(recs)
    BY <1>2, <1>3, <1>5
  <2> QED
    BY <1>2, <1>3, <1>4, <2>1 DEF PermittedIn, Find
<1>9. ASSUME NEW q \in ProfileNames, Alone(q)
      PROVE  Cardinality(EntriesUnder(put, q)) <= MAX_ENTRIES
  <2> DEFINE S == EntriesUnder(recs, q)
             T == EntriesUnder(put, q)
  <2>1. Cardinality(S) <= MAX_ENTRIES /\ IsFiniteSet(S) /\ Cardinality(S) \in Nat /\ MAX_ENTRIES \in Nat
    BY <1>4, <1>9, StoredIsFinite, FS_CardinalityType, MemoryAssumption DEF BoundedIn
  <2>2. \A r \in T : r = new \/ (r \in S /\ r.key # key)
    BY <1>2 DEF EntriesUnder
  <2>3. CASE q # p
    <3>1. ~IsStrictPrefix(q, new.key.path)
      BY <1>3, <1>9, <2>3, OwnersComeFirst DEF Alone
    <3>2. T \subseteq S
      BY <2>2, <3>1 DEF EntriesUnder
    <3> QED
      BY <1>4, <2>1, <3>2, FewerIsBounded
  <2>4. CASE q = p /\ Cardinality(S) < MAX_ENTRIES
    <3>1. T \in SUBSET (S \cup {new})
      BY <2>2
    <3> HIDE DEF S, T
    <3>2. IsFiniteSet(S \cup {new}) /\ Cardinality(S \cup {new}) <= Cardinality(S) + 1
      BY <2>1, AtMostOneMore
    <3>3. IsFiniteSet(T) /\ Cardinality(T) <= Cardinality(S \cup {new})
      BY <3>1, <3>2, FS_Subset
    <3>4. Cardinality(T) \in Nat /\ Cardinality(S \cup {new}) \in Nat
      BY <3>2, <3>3, FS_CardinalityType
    <3>5. Cardinality(T) <= MAX_ENTRIES
      BY <2>1, <2>4, <3>2, <3>3, <3>4
    <3> QED
      BY <3>5 DEF T
  <2>5. CASE q = p /\ ~(Cardinality(S) < MAX_ENTRIES)
    <3>1. PICK old \in Find(recs, key) : TRUE
      BY <1>7, <1>9, <2>5
    <3>2. old \in S /\ old.key = key
      BY <1>3, <1>6, <2>5, <3>1, OwnersComeFirst DEF EntriesUnder
    <3>3. T \in SUBSET ((S \ {old}) \cup {new})
      BY <2>2, <3>2
    <3> HIDE DEF S, T
    <3> DEFINE R == S \ {old}
    <3>4. IsFiniteSet(R) /\ Cardinality(R) = Cardinality(S) - 1
      BY <2>1, <3>2, FS_RemoveElement
    <3> HIDE DEF R
    <3>5. IsFiniteSet(R \cup {new}) /\ Cardinality(R \cup {new}) <= Cardinality(R) + 1
      BY <3>4, AtMostOneMore
    <3>6. IsFiniteSet(T) /\ Cardinality(T) <= Cardinality(R \cup {new})
      BY <3>3, <3>5, FS_Subset DEF R
    <3>7. Cardinality(T) \in Nat /\ Cardinality(R \cup {new}) \in Nat /\ Cardinality(R) \in Nat
      BY <3>4, <3>5, <3>6, FS_CardinalityType
    <3>8. Cardinality(T) <= MAX_ENTRIES
      BY <2>1, <3>4, <3>5, <3>6, <3>7
    <3> QED
      BY <3>8 DEF T
  <2> QED
    BY <2>3, <2>4, <2>5
<1> QED
  BY <1>2, <1>4, <1>8, <1>9 DEF SoundMemory, BoundedIn, put, key

\* Nothing is remembered yet.
LEMMA MemoryInitInv == MemoryInit => MemoryInv
<1> SUFFICES ASSUME MemoryInit PROVE SoundMemory(records)
  BY DEF MemoryInv
<1>1. records = << >> /\ DOMAIN records = {} /\ ToSet(records) = {}
  BY DEF MemoryInit, ToSet
<1>2. \A p : EntriesUnder(records, p) = {}
  BY <1>1 DEF EntriesUnder
<1>3. BoundedIn(records)
  BY <1>2, FS_EmptySet, MemoryAssumption DEF BoundedIn
<1> QED
  BY <1>1, <1>3, MemoryAssumption DEF SoundMemory, UniqueIn, PermittedIn

Latest(before, used) == CHOOSE u \in before \cup {used} : \A w \in before \cup {used} : u >= w

\* Of a list in which a key is once, at most one record is found.
LEMMA LatestUseIsAUse ==
    ASSUME NEW recs, SoundMemory(recs), NEW p \in ProfileNames, NEW e \in EntryNames,
           NEW used \in Uses
    PROVE  Latest({r.value.used : r \in Find(recs, MemoryKey(p, e))}, used) \in Uses
<1> DEFINE key == MemoryKey(p, e)
           before == {r.value.used : r \in Find(recs, key)}
<1>1. recs \in Seq(StoredRecords) /\ UniqueIn(recs)
  BY DEF SoundMemory
<1>2. \A r \in Find(recs, key) : r \in EntryRecords
  BY <1>1, StoredIsFinite, RecordsAre DEF Find, StoredRecords, MemoryKey
<1>3. \A r, s \in Find(recs, key) : r = s
  BY <1>1 DEF Find, ToSet, UniqueIn
<1>4. \A u \in before : u \in Uses
  BY <1>2, RecordsAre
<1>5. \A u, w \in before : u = w
  BY <1>3
<1>6. Uses \subseteq Nat
  BY MemoryAssumption
<1> HIDE DEF before
<1>7. \E u \in before \cup {used} : \A w \in before \cup {used} : u >= w
  <2>1. CASE before = {}
    BY <1>6, <2>1
  <2>2. CASE before # {}
    <3>1. PICK a \in before : \A w \in before : w = a
      BY <1>5, <2>2
    <3>2. a \in Nat /\ used \in Nat
      BY <1>4, <1>6
    <3>3. \A w \in before \cup {used} : w = a \/ w = used
      BY <3>1
    <3>4. a >= used \/ used >= a
      BY <3>2
    <3> QED
      BY <3>1, <3>2, <3>3, <3>4
  <2> QED
    BY <2>1, <2>2
<1>8. Latest(before, used) \in before \cup {used}
  BY <1>7 DEF Latest
<1> QED
  BY <1>4, <1>8 DEF before

\* Every route keeps the memory permitted and the profiles apart.
LEMMA MemoryStepInv == MemoryInv /\ [MemoryNext]_records => MemoryInv'
<1> SUFFICES ASSUME MemoryInv, [MemoryNext]_records PROVE SoundMemory(records')
  BY DEF MemoryInv
<1>1. SoundMemory(records)
  BY DEF MemoryInv
<1>2. CASE UNCHANGED records
  BY <1>1, <1>2
<1>3. ASSUME NEW p \in ProfileNames, NEW privacy \in Privacy, SaveProfile(p, privacy)
      PROVE  SoundMemory(records')
  BY <1>1, <1>3, SavedProfileIsSound DEF SaveProfile
<1>4. ASSUME NEW p \in ProfileNames, NEW e \in EntryNames, NEW kind \in Kinds, NEW used \in Uses,
             SaveEntry(p, e, kind, used)
      PROVE  SoundMemory(records')
  <2> DEFINE key == MemoryKey(p, e)
             listed(profile) == Purged(records, p, profile.value.privacy)
  <2>1. PICK profile \in Find(records, ProfileKey(p)) :
           LET full == /\ Find(records, key) = {}
                       /\ Cardinality(EntriesUnder(records, p)) >= MAX_ENTRIES
           IN  /\ Permitted(profile.value.privacy, kind)
               /\ \E recs \in IF ~full THEN {records}
                              ELSE IF Cardinality(EntriesUnder(listed(profile), p)) < MAX_ENTRIES
                                   THEN {listed(profile)} ELSE Evicted(listed(profile), p) :
                    LET before == {r.value.used : r \in Find(recs, key)}
                        value == [owner |-> p, name |-> e, kind |-> kind,
                                  used |-> CHOOSE u \in before \cup {used} :
                                              \A w \in before \cup {used} : u >= w]
                    IN  records' = Put(recs, key, value)
    BY <1>4 DEF SaveEntry
  <2> DEFINE full == /\ Find(records, key) = {}
                     /\ Cardinality(EntriesUnder(records, p)) >= MAX_ENTRIES
             purged == listed(profile)
  <2>2. PICK recs \in IF ~full THEN {records}
                      ELSE IF Cardinality(EntriesUnder(purged, p)) < MAX_ENTRIES
                           THEN {purged} ELSE Evicted(purged, p) :
           LET before == {r.value.used : r \in Find(recs, key)}
               value == [owner |-> p, name |-> e, kind |-> kind,
                         used |-> CHOOSE u \in before \cup {used} :
                                     \A w \in before \cup {used} : u >= w]
           IN  records' = Put(recs, key, value)
    BY <2>1
  <2>3. SoundMemory(purged)
    BY <1>1, PurgedIsSound
  <2>a. \A r \in ToSet(purged) : r \in ToSet(records)
    BY <1>1, WithoutKeeps DEF Purged, SoundMemory
  <2> HIDE DEF purged
  <2>b. records \in Seq(StoredRecords) /\ purged \in Seq(StoredRecords) /\ UniqueIn(records) /\ BoundedIn(purged)
        /\ MAX_ENTRIES \in Nat
    BY <1>1, <2>3, MemoryAssumption DEF SoundMemory
  <2>4. /\ SoundMemory(recs)
        /\ \A r \in ToSet(recs) : r \in ToSet(records)
        /\ Alone(p) => \/ Find(recs, key) # {}
                       \/ Cardinality(EntriesUnder(recs, p)) < MAX_ENTRIES
    <3>1. CASE ~full
      <4>1. recs = records
        BY <2>2, <3>1
      <4>2. Cardinality(EntriesUnder(records, p)) \in Nat
        BY <2>b, StoredIsFinite, FS_CardinalityType
      <4> QED
        BY <1>1, <2>b, <3>1, <4>1, <4>2
    <3>2. CASE full /\ Cardinality(EntriesUnder(purged, p)) < MAX_ENTRIES
      BY <2>2, <2>3, <2>a, <3>2
    <3>3. CASE full /\ ~(Cardinality(EntriesUnder(purged, p)) < MAX_ENTRIES)
      <4>1. recs \in Evicted(purged, p)
        BY <2>2, <3>3
      <4>2. PICK o \in EntriesUnder(purged, p) : recs = Without(purged, {MemoryKey(p, o.value.name)})
        BY <4>1 DEF Evicted
      <4>3. SoundMemory(recs) /\ ToSet(recs) = {r \in ToSet(purged) : r.key \notin {MemoryKey(p, o.value.name)}}
        BY <2>3, <2>b, <4>2, WithoutIsSound, WithoutKeeps
      <4>4. o \in EntryRecords /\ o \in ToSet(purged)
        BY <2>b, StoredIsFinite, RecordsAre DEF EntriesUnder, StoredRecords
      <4>5. ASSUME Alone(p) PROVE Cardinality(EntriesUnder(recs, p)) < MAX_ENTRIES
        <5>1. o.value.owner = p
          <6>1. /\ o.value.owner \in ProfileNames /\ o.value.name \in EntryNames
                /\ IsStrictPrefix(p, o.value.owner \o o.value.name)
            BY <4>4, RecordsAre DEF EntriesUnder
          <6>2. Related(p, o.value.owner)
            BY <6>1, OwnersComeFirst
          <6> QED
            BY <4>5, <6>1, <6>2 DEF Alone
        <5>2. o.key = MemoryKey(p, o.value.name)
          BY <4>4, <5>1, RecordsAre
        <5> DEFINE S == EntriesUnder(purged, p)
                   T == EntriesUnder(recs, p)
        <5>3. T \in SUBSET (S \ {o})
          BY <4>3, <5>2 DEF EntriesUnder
        <5>4. IsFiniteSet(S) /\ Cardinality(S) <= MAX_ENTRIES /\ o \in S
          BY <2>b, <4>5, StoredIsFinite DEF BoundedIn
        <5> HIDE DEF S, T
        <5> DEFINE Q == S \ {o}
        <5>5. IsFiniteSet(Q) /\ Cardinality(Q) = Cardinality(S) - 1
          BY <5>4, FS_RemoveElement
        <5>6. T \in SUBSET Q
          BY <5>3
        <5> HIDE DEF Q
        <5>7. IsFiniteSet(T) /\ Cardinality(T) <= Cardinality(Q)
          BY <5>5, <5>6, FS_Subset
        <5>8. Cardinality(T) \in Nat /\ Cardinality(Q) \in Nat /\ Cardinality(S) \in Nat
          BY <5>4, <5>5, <5>7, FS_CardinalityType
        <5>9. Cardinality(T) < MAX_ENTRIES
          BY <2>b, <5>4, <5>5, <5>7, <5>8
        <5> QED
          BY <5>9 DEF T
      <4> QED
        BY <2>a, <4>3, <4>5
    <3> QED
      BY <3>1, <3>2, <3>3
  <2>5. \A q \in Find(recs, ProfileKey(p)) : Permitted(q.value.privacy, kind)
    <3>1. \A q \in Find(recs, ProfileKey(p)) : q \in Find(records, ProfileKey(p))
      BY <2>4 DEF Find
    <3>2. \A q \in Find(records, ProfileKey(p)) : q = profile
      BY <2>b DEF Find, ToSet, UniqueIn
    <3> QED
      BY <2>1, <3>1, <3>2
  <2> DEFINE before == {r.value.used : r \in Find(recs, key)}
             latest == Latest(before, used)
  <2>6. latest \in Uses
    BY <2>4, LatestUseIsAUse
  <2>7. records' = Put(recs, key, [owner |-> p, name |-> e, kind |-> kind, used |-> latest])
    BY <2>2 DEF Latest
  <2> HIDE DEF latest, full
  <2> QED
    BY <2>4, <2>5, <2>6, <2>7, SavedEntryIsSound
<1>5. ASSUME NEW p \in ProfileNames, ListMemory(p) PROVE SoundMemory(records')
  BY <1>1, <1>5, PurgedIsSound DEF ListMemory
<1>6. ASSUME NEW p \in ProfileNames, NEW e \in EntryNames, RemoveEntry(p, e)
      PROVE  SoundMemory(records')
  BY <1>1, <1>6, WithoutIsSound DEF RemoveEntry
<1>7. CASE ForgetAll
  <2>1. MemoryInit'
    BY <1>7 DEF ForgetAll, MemoryInit
  <2>2. MemoryInv'
    BY <2>1, MemoryInitInv, PTL
  <2> QED
    BY <2>2 DEF MemoryInv
<1> QED
  BY <1>2, <1>3, <1>4, <1>5, <1>6, <1>7 DEF MemoryNext

(***************************************************************************)
(* The engine.                                                                *)
(***************************************************************************)

\* A component whose turn it is not has had nothing to lose when the clock moves.
Idle ==
    /\ subject \in Subjects
    /\ subject # "edge" => network = {} /\ verdict = "none"
    /\ subject # "operator" => honoured = {}
    /\ subject # "road" => applied = {}

\* The next-state relation of the engine, ordered by component.
StepOf(s) ==
    CASE s = "edge" -> EdgeNext
      [] s = "bounded" -> BoundedNext
      [] s = "operator" -> OperatorNext
      [] s = "update" -> UpdateNext
      [] s = "keys" -> KeyNext
      [] s = "road" -> RoadNext
      [] s = "memory" -> MemoryNext
      [] s = "access" -> AccessNext

\* Every step of the engine is a step of the subject.
LEMMA EngineStepsAreOfOne ==
    ASSUME EngineNext
    PROVE  \E s \in Subjects : Of(s) /\ StepOf(s)
<1>1. CASE Of("edge") /\ EdgeNext
  BY <1>1 DEF StepOf, Subjects
<1>2. CASE Of("bounded") /\ BoundedNext
  BY <1>2 DEF StepOf, Subjects
<1>3. CASE Of("operator") /\ OperatorNext
  BY <1>3 DEF StepOf, Subjects
<1>4. CASE Of("update") /\ UpdateNext
  BY <1>4 DEF StepOf, Subjects
<1>5. CASE Of("keys") /\ KeyNext
  BY <1>5 DEF StepOf, Subjects
<1>6. CASE Of("road") /\ RoadNext
  BY <1>6 DEF StepOf, Subjects
<1>7. CASE Of("memory") /\ MemoryNext
  BY <1>7 DEF StepOf, Subjects
<1>8. CASE Of("access") /\ AccessNext
  BY <1>8 DEF StepOf, Subjects
<1>9. \/ Of("edge") /\ EdgeNext
      \/ Of("bounded") /\ BoundedNext
      \/ Of("operator") /\ OperatorNext
      \/ Of("update") /\ UpdateNext
      \/ Of("keys") /\ KeyNext
      \/ Of("road") /\ RoadNext
      \/ Of("memory") /\ MemoryNext
      \/ Of("access") /\ AccessNext
  BY DEF EngineNext, EdgeNext, BoundedNext, OperatorNext, UpdateNext, KeyNext, RoadNext,
     MemoryNext, AccessNext
<1> QED
  BY <1>1, <1>2, <1>3, <1>4, <1>5, <1>6, <1>7, <1>8, <1>9

\* Seen through the variables of one component, a step of the engine is one of the
\* component: of the others it sees no more than that time passes.
LEMMA EachSeesItsOwn ==
    ASSUME Idle, [EngineNext]_engineVars
    PROVE  /\ Idle'
           /\ [EdgeNext]_edgeVars /\ [OperatorNext]_operatorVars /\ [RoadNext]_roadVars
           /\ [KeyNext]_keyVars /\ [UpdateNext]_updateVars
           /\ [BoundedNext]_boundedVars /\ [MemoryNext]_records /\ [AccessNext]_accessVars
<1>1. CASE UNCHANGED engineVars
  BY <1>1 DEF engineVars, edgeVars, operatorVars, roadVars, keyVars, updateVars, boundedVars, accessVars, Idle
<1>2. CASE EngineNext
  <2>1. PICK s \in Subjects : Of(s) /\ StepOf(s)
    BY <1>2, EngineStepsAreOfOne
  <2>2. subject = s /\ subject' = s
    BY <2>1 DEF Of
  <2>3. now' = now \/ Pass
    <3>1. CASE s \in Timeless \/ s \notin {"edge", "bounded", "operator", "keys", "road"}
      BY <2>1, <3>1 DEF Of, Timeless, Subjects
    <3>2. CASE s = "edge"
      BY <2>1, <3>2 DEF StepOf, EdgeNext, SendPacket, RebootDevice, DeliverPacket, AcceptPacket,
         LosePacket, EdgeTick
    <3>3. CASE s = "bounded"
      BY <2>1, <3>3 DEF StepOf, BoundedNext, Consume, AcceptFrame, BoundedTick
    <3>4. CASE s = "operator"
      BY <2>1, <3>4 DEF StepOf, OperatorNext, PostGeofences, PostNextgen, OperatorTick
    <3>5. CASE s = "keys"
      BY <2>1, <3>5 DEF StepOf, KeyNext, Enroll, Activate, Revoke, Deploy, DeployByHand, KeyTick
    <3>6. CASE s = "road"
      BY <2>1, <3>6 DEF StepOf, RoadNext, PostSigned, PostByToken, RoadTick
    <3> QED
      BY <3>1, <3>2, <3>3, <3>4, <3>5, <3>6
  <2>4. [EdgeNext]_edgeVars /\ (s # "edge" => network' = {} /\ verdict' = "none")
    <3>1. CASE s = "edge"
      BY <2>1, <3>1 DEF StepOf
    <3>2. CASE s # "edge"
      <4>1. UNCHANGED <<source, network, sessions, lastPrune, taken, verdict>>
        BY <2>1, <3>2 DEF Of
      <4>2. network = {} /\ verdict = "none"
        BY <2>2, <3>2 DEF Idle
      <4> QED
        BY <2>3, <4>1, <4>2 DEF edgeVars, EdgeNext, EdgeTick
    <3> QED
      BY <3>1, <3>2
  <2>5. [OperatorNext]_operatorVars /\ (s # "operator" => honoured' = {})
    <3>1. CASE s = "operator"
      BY <2>1, <3>1 DEF StepOf
    <3>2. CASE s # "operator"
      <4>1. UNCHANGED <<nonces, geofences, audit, sequence, dropped, honoured, repeated>>
        BY <2>1, <3>2 DEF Of
      <4>2. honoured = {}
        BY <2>2, <3>2 DEF Idle
      <4> QED
        BY <2>3, <4>1, <4>2 DEF operatorVars, OperatorNext, OperatorTick
    <3> QED
      BY <3>1, <3>2
  <2>6. [RoadNext]_roadVars /\ (s # "road" => applied' = {})
    <3>1. CASE s = "road"
      BY <2>1, <3>1 DEF StepOf
    <3>2. CASE s # "road"
      <4>1. UNCHANGED <<replays, road, applied, reapplied>>
        BY <2>1, <3>2 DEF Of
      <4>2. applied = {}
        BY <2>2, <3>2 DEF Idle
      <4> QED
        BY <2>3, <4>1, <4>2 DEF roadVars, RoadNext, RoadTick
    <3> QED
      BY <3>1, <3>2
  <2>7. [KeyNext]_keyVars
    <3>1. CASE s = "keys"
      BY <2>1, <3>1 DEF StepOf
    <3>2. CASE s # "keys"
      BY <2>1, <2>3, <3>2 DEF Of, keyVars, KeyNext, KeyTick
    <3> QED
      BY <3>1, <3>2
  <2>8. [UpdateNext]_updateVars
    <3>1. CASE s = "update"
      BY <2>1, <3>1 DEF StepOf
    <3>2. CASE s # "update"
      BY <2>1, <3>2 DEF Of
    <3> QED
      BY <3>1, <3>2
  <2>9. [BoundedNext]_boundedVars
    <3>1. CASE s = "bounded"
      BY <2>1, <3>1 DEF StepOf
    <3>2. CASE s # "bounded"
      BY <2>1, <2>3, <3>2 DEF Of, boundedVars, BoundedNext, BoundedTick
    <3> QED
      BY <3>1, <3>2
  <2>10. [MemoryNext]_records
    <3>1. CASE s = "memory"
      BY <2>1, <3>1 DEF StepOf
    <3>2. CASE s # "memory"
      BY <2>1, <3>2 DEF Of
    <3> QED
      BY <3>1, <3>2
  <2>11. [AccessNext]_accessVars
    <3>1. CASE s = "access"
      BY <2>1, <3>1 DEF StepOf
    <3>2. CASE s # "access"
      BY <2>1, <3>2 DEF Of
    <3> QED
      BY <3>1, <3>2
  <2>12. Idle'
    BY <2>2, <2>4, <2>5, <2>6 DEF Idle
  <2> QED
    BY <2>4, <2>5, <2>6, <2>7, <2>8, <2>9, <2>10, <2>11, <2>12
<1> QED
  BY <1>1, <1>2

-----------------------------------------------------------------------------
\* The invariants of the components together.
EngineInv ==
    /\ Idle
    /\ EdgeShape /\ StreamInv /\ RateInv
    /\ OperatorInv /\ NoncesInv /\ AuditInv
    /\ RoadInv /\ RoadShape
    /\ UpdateInv /\ KeyInv /\ KeyBounds /\ StandingInv
    /\ MemoryInv /\ AccessInv

\* The engine starts with all of them.
LEMMA EngineInitInv == EngineInit => EngineInv
<1> SUFFICES ASSUME EngineInit PROVE EngineInv
  OBVIOUS
<1>1. Idle
  BY DEF EngineInit, Idle, EdgeInit, OperatorInit, RoadInit
<1>2. StreamInv
  BY DEF EngineInit, BoundedInit, StreamInv, UpTo, FramesRise
<1>3. OperatorInv /\ RoadInv
  BY DEF EngineInit, OperatorInit, OperatorInv, RoadInit, RoadInv
<1>4. EdgeShape /\ RateInv /\ NoncesInv /\ AuditInv /\ RoadShape
  BY EdgeShapeInit, RateInitInv, NoncesInitInv, AuditInitInv, RoadShapeInit DEF EngineInit
<1>5. UpdateInv /\ KeyInv /\ KeyBounds /\ StandingInv /\ MemoryInv /\ AccessInv
  BY UpdateInitInv, KeyInitInv, KeyBoundsInit, StandingInitInv, MemoryInitInv, AccessInitInv
     DEF EngineInit
<1> QED
  BY <1>1, <1>2, <1>3, <1>4, <1>5 DEF EngineInv

\* Each step keeps all of them, as it is a step of one component at most.
LEMMA EngineStepInv == EngineInv /\ [EngineNext]_engineVars => EngineInv'
<1> SUFFICES ASSUME EngineInv, [EngineNext]_engineVars PROVE EngineInv'
  OBVIOUS
<1>1. /\ Idle'
      /\ [EdgeNext]_edgeVars /\ [OperatorNext]_operatorVars /\ [RoadNext]_roadVars
      /\ [KeyNext]_keyVars /\ [UpdateNext]_updateVars
      /\ [BoundedNext]_boundedVars /\ [MemoryNext]_records /\ [AccessNext]_accessVars
  BY EachSeesItsOwn DEF EngineInv
<1>2. EdgeShape' /\ StreamInv' /\ RateInv'
  BY <1>1, EdgeShapeStep, BoundedStepInv, RateStepInv DEF EngineInv
<1>3. OperatorInv' /\ NoncesInv' /\ AuditInv'
  BY <1>1, OperatorStepInv, NoncesStepInv, AuditStepInv DEF EngineInv
<1>4. RoadInv' /\ RoadShape' /\ UpdateInv'
  BY <1>1, RoadStepInv, RoadShapeStep, UpdateStepInv DEF EngineInv
<1>5. KeyInv' /\ KeyBounds' /\ StandingInv'
  BY <1>1, KeyStepInv, KeyBoundsStep, StandingStepInv DEF EngineInv
<1>6. MemoryInv' /\ AccessInv'
  BY <1>1, MemoryStepInv, AccessStepInv DEF EngineInv
<1> QED
  BY <1>1, <1>2, <1>3, <1>4, <1>5, <1>6 DEF EngineInv

\* They hold of every behaviour, whatever the clocks of the devices say.
LEMMA EngineInvariant == EngineSpec => []EngineInv
  BY EngineInitInv, EngineStepInv, PTL DEF EngineSpec

\* Nothing is taken twice or out of its order, for any devices, keys, requests, limits and
\* sizes of the stores: each forgets only what the clock refuses by then.  The clocks of
\* the devices must not be further ahead than a session lasts beyond MAX_PAST_SKEW_MS.
THEOREM EngineTakesNothingTwice ==
    ASSUME ClocksAreSane PROVE EngineSpec => []NothingIsTakenTwice
<1>1. EngineInit => EdgeInv
  BY EdgeGuardAssumption DEF EngineInit, EdgeInit, EdgeInv, EdgeTypes, PacketsWereSent,
     TakenWasSent, SessionsCover, ForgottenAreOld, SequencesRise
<1>2. EngineInv /\ EdgeInv /\ [EngineNext]_engineVars => EdgeInv'
  BY EachSeesItsOwn, EdgeStepInv DEF EngineInv
<1>3. EngineInv /\ EdgeInv => NothingIsTakenTwice
  BY DEF EngineInv, EdgeInv, StreamInv, OperatorInv, RoadInv, NothingIsTakenTwice,
     RequestsAreHonouredOnce, ProviderRequestsOnce
<1> QED
  BY <1>1, <1>2, <1>3, EngineInvariant, PTL DEF EngineSpec

\* What the two legacy stores keep of their types.
LEMMA BoundedTypesFollow == StreamInv /\ RateInv => BoundedTypeOK
  BY DEF StreamInv, RateInv, WindowCovers, BoundedTypeOK

\* The types of the whole engine, with the limits of its stores.
LEMMA EngineTypesFollow == EngineInv => RiskEngineTypeOK
<1> SUFFICES ASSUME EngineInv PROVE RiskEngineTypeOK
  OBVIOUS
<1>1. subject \in Subjects
  BY DEF EngineInv, Idle
<1>2. EdgeTypeOK
  BY DEF EngineInv, EdgeShape, EdgeTypes, EdgeTypeOK
<1>3. BoundedTypeOK /\ OperatorTypeOK
  BY BoundedTypesFollow, OperatorTypesFollow DEF EngineInv
<1>4. MemoryTypeOK /\ UpdateTypeOK /\ KeyTypeOK
  BY MemoryInvShows, KeyTypesFollow DEF EngineInv, UpdateInv
<1>5. RoadTypeOK
  BY DEF EngineInv, RoadInv, RoadShape, RoadTypeOK
<1>6. AccessTypeOK
  BY DEF EngineInv, AccessInv, RegistryIsOfGrants, AccessTypeOK
<1> QED
  BY <1>1, <1>2, <1>3, <1>4, <1>5, <1>6 DEF RiskEngineTypeOK

\* Every store keeps its types and its limit, the packet guard is full of the living only,
\* and no caller gains by a window that was swept, for any keys, limits, windows and sizes.
THEOREM TheEngineKeepsItsLimits == EngineSpec => []LimitsAreKept
<1>1. EngineInv => LimitsAreKept
  BY EngineTypesFollow, RateInvBounds DEF EngineInv, EdgeShape, LimitsAreKept
<1> QED
  BY <1>1, EngineInvariant, PTL

\* No order of issuing, delegating, revoking and deciding gives a person more of a vehicle
\* than an owner granted, and nothing is remembered that the profile of its owner does not
\* permit, for any vehicles, profiles, names, entries and limits.
THEOREM WhatIsHeldIsContained == EngineSpec => []ProfilesAreContained
<1>1. EngineInv => ProfilesAreContained
  BY MemoryInvShows DEF EngineInv, AccessInv, ProfilesAreContained, DelegationIsContained,
     MemoryStaysPrivate
<1> QED
  BY <1>1, EngineInvariant, PTL

\* Places that answer the same question agree, for any grants, keys, requests and reports:
\* decision and self route, status page and verifier, audit and configuration in force; and
\* of two reports of one thing the worse is shown.
THEOREM TheEngineAgreesWithItself == EngineSpec => []AnswersAgree
<1>1. EngineInv => AnswersAgree
  BY StoresDecideAlike, StandingsFollow, ShapeShowsTheWorst DEF EngineInv, AuditInv, AnswersAgree
<1> QED
  BY <1>1, EngineInvariant, PTL

\* In the engine, too, nothing is installed, booted or accepted that the verifier has not
\* passed, the rollback floor never falls, and a key stays revoked, for any packages, keys
\* and periods.
THEOREM TheEngineTakesNothingBack ==
    EngineSpec => [](UpdatesAreEarned /\ RevocationIsFinal) /\ FloorNeverFalls
<1>1. EngineInv => UpdatesAreEarned /\ RevocationIsFinal
  BY RevokedAreRefused DEF EngineInv, UpdateInv
<1>2. EngineInv /\ [EngineNext]_engineVars => [floor' >= floor]_updateVars
  BY EachSeesItsOwn, FloorRises DEF EngineInv
<1> QED
  BY <1>1, <1>2, EngineInvariant, PTL DEF EngineSpec, FloorNeverFalls
=============================================================================

-------------------------- MODULE PerceptionProofs --------------------------
(***************************************************************************)
(* What the run Perception checks, for all values of the constants.  The parts  *)
(* of JudgementProofs are followed by those that sense and show: the gap ahead,   *)
(* the health of sensors, the cameras, the driver, what radar and camera saw, and   *)
(* what assists the driver.  Last, all of it together: no step moves two of the      *)
(* parts, so that the invariants of the parts make the invariant of the whole.        *)
(***************************************************************************)
EXTENDS MCPerception, JudgementProofs

-----------------------------------------------------------------------------
(* SensorFusion: the gap ahead *)

\* A gap that is no better, and known no worse, is judged no less severe.
LEMMA NoBetterIsNoSafer ==
    ASSUME RiskAssumption, NEW s \in Samples, NEW t \in Samples, NoBetter(s, t)
    PROVE  RiskRank(AssessRisk(t)) >= RiskRank(AssessRisk(s))
<1>1. /\ {s.ego, s.target, s.range, s.confidence, t.ego, t.target, t.range, t.confidence} \subseteq Nat
      /\ {s.can, t.can} \subseteq BOOLEAN
  <2>1. /\ s.ego \in Speeds /\ s.target \in Speeds /\ s.range \in Ranges
        /\ s.confidence \in Confidences /\ s.can \in BOOLEAN
    BY DEF Samples
  <2>2. /\ t.ego \in Speeds /\ t.target \in Speeds /\ t.range \in Ranges
        /\ t.confidence \in Confidences /\ t.can \in BOOLEAN
    BY DEF Samples
  <2>3. Speeds \subseteq Nat /\ Ranges \subseteq Nat /\ Confidences \subseteq Nat
    BY DEF RiskAssumption
  <2> QED
    BY <2>1, <2>2, <2>3
<1>2. Closing(s) <= Closing(t) /\ Closing(s) \in Nat /\ Closing(t) \in Nat
  BY <1>1 DEF NoBetter, Closing
<1> HIDE DEF Closing
<1>3. (CriticalGap(s) => CriticalGap(t)) /\ (CautionGap(s) => CautionGap(t))
      /\ (ShortHeadway(s) => ShortHeadway(t))
  BY <1>1, <1>2 DEF NoBetter, CriticalGap, CautionGap, ShortHeadway
<1>4. ~Rejected(s) /\ ~Rejected(t) /\ (s.can => t.can)
  BY DEF NoBetter
<1> QED
  BY <1>3, <1>4 DEF AssessRisk, RiskRank

\* RiskIsMonotone for two samples, whichever they are.
LEMMA RiskStep ==
    ASSUME RiskAssumption, sample \in Samples, sample' \in Samples
    PROVE  /\ NoBetter(sample, sample') => RiskRank(AssessRisk(sample')) >= RiskRank(AssessRisk(sample))
           /\ ~sample'.can => AssessRisk(sample') # "critical"
<1>1. ~sample'.can => AssessRisk(sample') # "critical"
  BY DEF AssessRisk
<1> QED
  BY <1>1, NoBetterIsNoSafer

-----------------------------------------------------------------------------
(* SensorFusion: the health of sensors *)

\* The age of what sensor s sent last.
SentAges == [s \in Sensors |->
    CASE s = "radar" -> latestRadar.age [] s = "camera" -> latestCamera.age
      [] s = "gnss" -> latestVehicle.age]

\* While what a sensor sent is not stale, the sensor was heard no longer ago than that is
\* old, and what its stamp may have been ahead.
HeardInv ==
    /\ latestRadar = [age |-> latestRadar.age, seen |-> latestRadar.seen]
    /\ latestCamera = [age |-> latestCamera.age, seen |-> latestCamera.seen]
    /\ latestVehicle = [age |-> latestVehicle.age, accuracy |-> latestVehicle.accuracy]
    /\ \A s \in Sensors : SentAges[s] \in Int
    /\ heard \in [Sensors -> [age : Nat, ahead : Nat]]
    /\ \A s \in Sensors :
          SentAges[s] <= StaleAfter[s] => heard[s].age <= SentAges[s] + heard[s].ahead

\* What is very old is stale for every sensor.
LEMMA VeryOldIsStale ==
    ASSUME FusionAssumption
    PROVE  VeryOld \in Nat /\ \A s \in Sensors : VeryOld > StaleAfter[s]
<1> DEFINE ages == {StaleAfter[s] : s \in Sensors}
<1>1. /\ StaleAfter["radar"] \in Nat /\ StaleAfter["camera"] \in Nat /\ StaleAfter["gnss"] \in Nat
      /\ ages = {StaleAfter["radar"], StaleAfter["camera"], StaleAfter["gnss"]}
  BY DEF FusionAssumption, Sensors
<1>2. \E x \in ages : \A y \in ages : x >= y
  <2> HIDE DEF ages
  <2> DEFINE a == StaleAfter["radar"]
             b == StaleAfter["camera"]
             c == StaleAfter["gnss"]
  <2>1. CASE a >= b /\ a >= c
    BY <2>1, <1>1
  <2>2. CASE b >= a /\ b >= c
    BY <2>2, <1>1
  <2>3. CASE c >= a /\ c >= b
    BY <2>3, <1>1
  <2> QED
    BY <2>1, <2>2, <2>3, <1>1
<1>3. Max(ages) \in ages /\ \A y \in ages : Max(ages) >= y
  <2> HIDE DEF ages
  <2> QED
    BY <1>2 DEF Max
<1>4. StampAhead \in Nat /\ PositionAhead \in Nat
  BY DEF FusionAssumption
<1>5. FarAhead \in Int
  BY DEF FusionAssumption
<1>6. Max({FarAhead, PositionAhead}) \in Nat
  BY <1>4, <1>5, MaxOfTwo
<1>7. Max(ages) \in Nat /\ \A s \in Sensors : Max(ages) >= StaleAfter[s]
  BY <1>1, <1>3
<1>8. VeryOld = Max(ages) + Max({FarAhead, PositionAhead}) + 1
  BY DEF VeryOld
<1> HIDE DEF ages
<1>9. \A s \in Sensors : StaleAfter[s] \in Nat
  BY DEF FusionAssumption
<1> QED
  BY <1>6, <1>7, <1>8, <1>9

\* At first nothing has been heard of any sensor.
LEMMA HeardInvInit ==
    ASSUME FusionAssumption, FusionInit
    PROVE  HeardInv
<1>1. VeryOld \in Nat /\ \A s \in Sensors : VeryOld > StaleAfter[s]
  BY VeryOldIsStale
<1>2. \A s \in Sensors : SentAges[s] = VeryOld
  BY DEF FusionInit, SentAges, Sensors
<1>3. \A s \in Sensors : StaleAfter[s] \in Nat
  BY DEF FusionAssumption
<1>4. heard \in [Sensors -> [age : Nat, ahead : Nat]]
  BY <1>1 DEF FusionInit
<1> QED
  BY <1>1, <1>2, <1>3, <1>4 DEF HeardInv, FusionInit

\* Of a sensor that sends, and of one that does not.
LEMMA HeardInvStep ==
    ASSUME FusionAssumption, HeardInv,
           \/ \E age \in FrameStamps, f \in Seq(Tracks) : PostRadar(age, f)
           \/ \E age \in FrameStamps, f \in Seq(Detections) : PostDetections(age, f)
           \/ \E accuracy : PostPosition(0, accuracy)
           \/ \E age \in FrameStamps, accuracy \in Accuracies, report \in Reports, frame \in Embedded :
                 PostPacket(age, accuracy, report, {}, frame)
           \/ FusionTick
           \/ UNCHANGED fusionVars
    PROVE  HeardInv'
<1>0. /\ StampAhead \in Nat /\ PositionAhead \in Nat /\ FarAhead \in Nat
      /\ PositionAhead >= StampAhead /\ FarAhead >= StampAhead
      /\ FrameStamps \subseteq Int /\ \A age \in FrameStamps : age >= -StampAhead
      /\ \A s \in Sensors : StaleAfter[s] \in Nat
  BY DEF FusionAssumption
<1>1. ASSUME NEW age \in FrameStamps, NEW f, PostRadar(age, f) PROVE HeardInv'
  <2>1. heard' = [heard EXCEPT !["radar"] = [age |-> 0, ahead |-> StampAhead]]
    BY <1>1 DEF PostRadar
  <2>2. heard' \in [Sensors -> [age : Nat, ahead : Nat]]
    BY <1>0, <2>1 DEF HeardInv
  <2>3. \A s \in Sensors : SentAges'[s] = IF s = "radar" THEN age ELSE SentAges[s]
    BY <1>1 DEF PostRadar, SentAges, Sensors
  <2>4. \A s \in Sensors :
          heard'[s] = IF s = "radar" THEN [age |-> 0, ahead |-> StampAhead] ELSE heard[s]
    BY <2>1 DEF HeardInv
  <2>5. age \in Int /\ 0 <= age + StampAhead
    BY <1>0
  <2>6. \A s \in Sensors :
         /\ SentAges'[s] \in Int
         /\ SentAges'[s] <= StaleAfter[s] => heard'[s].age <= SentAges'[s] + heard'[s].ahead
    <3> SUFFICES ASSUME NEW s \in Sensors
                 PROVE  /\ SentAges'[s] \in Int
                        /\ SentAges'[s] <= StaleAfter[s] =>
                             heard'[s].age <= SentAges'[s] + heard'[s].ahead
      OBVIOUS
    <3>1. /\ SentAges[s] \in Int /\ heard[s] \in [age : Nat, ahead : Nat]
          /\ SentAges[s] <= StaleAfter[s] => heard[s].age <= SentAges[s] + heard[s].ahead
      BY DEF HeardInv
    <3>2. \/ heard'[s] = [age |-> 0, ahead |-> StampAhead] /\ SentAges'[s] = age
          \/ heard'[s] = heard[s] /\ SentAges'[s] = SentAges[s]
      BY <2>3, <2>4
    <3>3. StampAhead \in Nat /\ age \in Int /\ age >= -StampAhead
      BY <1>0
    <3>4. CASE heard'[s] = heard[s] /\ SentAges'[s] = SentAges[s]
      BY <3>1, <3>4, Zenon
    <3>5. CASE heard'[s] = [age |-> 0, ahead |-> StampAhead] /\ SentAges'[s] = age
      BY <3>3, <3>5
    <3> QED
      BY <3>2, <3>4, <3>5
  <2>7. /\ latestRadar' = [age |-> latestRadar'.age, seen |-> latestRadar'.seen]
        /\ latestCamera' = [age |-> latestCamera'.age, seen |-> latestCamera'.seen]
        /\ latestVehicle' = [age |-> latestVehicle'.age, accuracy |-> latestVehicle'.accuracy]
    BY <1>1 DEF PostRadar, HeardInv
  <2> QED
    BY <2>2, <2>6, <2>7 DEF HeardInv
<1>2. ASSUME NEW age \in FrameStamps, NEW f, PostDetections(age, f) PROVE HeardInv'
  <2>1. heard' = [heard EXCEPT !["camera"] = [age |-> 0, ahead |-> StampAhead]]
    BY <1>2 DEF PostDetections
  <2>2. heard' \in [Sensors -> [age : Nat, ahead : Nat]]
    BY <1>0, <2>1 DEF HeardInv
  <2>3. \A s \in Sensors : SentAges'[s] = IF s = "camera" THEN age ELSE SentAges[s]
    BY <1>2 DEF PostDetections, SentAges, Sensors
  <2>4. \A s \in Sensors :
          heard'[s] = IF s = "camera" THEN [age |-> 0, ahead |-> StampAhead] ELSE heard[s]
    BY <2>1 DEF HeardInv
  <2>5. age \in Int /\ 0 <= age + StampAhead
    BY <1>0
  <2>6. \A s \in Sensors :
         /\ SentAges'[s] \in Int
         /\ SentAges'[s] <= StaleAfter[s] => heard'[s].age <= SentAges'[s] + heard'[s].ahead
    <3> SUFFICES ASSUME NEW s \in Sensors
                 PROVE  /\ SentAges'[s] \in Int
                        /\ SentAges'[s] <= StaleAfter[s] =>
                             heard'[s].age <= SentAges'[s] + heard'[s].ahead
      OBVIOUS
    <3>1. /\ SentAges[s] \in Int /\ heard[s] \in [age : Nat, ahead : Nat]
          /\ SentAges[s] <= StaleAfter[s] => heard[s].age <= SentAges[s] + heard[s].ahead
      BY DEF HeardInv
    <3>2. \/ heard'[s] = [age |-> 0, ahead |-> StampAhead] /\ SentAges'[s] = age
          \/ heard'[s] = heard[s] /\ SentAges'[s] = SentAges[s]
      BY <2>3, <2>4
    <3>3. StampAhead \in Nat /\ age \in Int /\ age >= -StampAhead
      BY <1>0
    <3>4. CASE heard'[s] = heard[s] /\ SentAges'[s] = SentAges[s]
      BY <3>1, <3>4, Zenon
    <3>5. CASE heard'[s] = [age |-> 0, ahead |-> StampAhead] /\ SentAges'[s] = age
      BY <3>3, <3>5
    <3> QED
      BY <3>2, <3>4, <3>5
  <2>7. /\ latestRadar' = [age |-> latestRadar'.age, seen |-> latestRadar'.seen]
        /\ latestCamera' = [age |-> latestCamera'.age, seen |-> latestCamera'.seen]
        /\ latestVehicle' = [age |-> latestVehicle'.age, accuracy |-> latestVehicle'.accuracy]
    BY <1>2 DEF PostDetections, HeardInv
  <2> QED
    BY <2>2, <2>6, <2>7 DEF HeardInv
<1>3. ASSUME NEW accuracy, PostPosition(0, accuracy) PROVE HeardInv'
  <2>1. heard' = [heard EXCEPT !["gnss"] = [age |-> 0, ahead |-> PositionAhead]]
    BY <1>3 DEF PostPosition
  <2>2. heard' \in [Sensors -> [age : Nat, ahead : Nat]]
    BY <1>0, <2>1 DEF HeardInv
  <2>3. \A s \in Sensors : SentAges'[s] = IF s = "gnss" THEN 0 ELSE SentAges[s]
    BY <1>3 DEF PostPosition, SentAges, Sensors
  <2>4. \A s \in Sensors :
          heard'[s] = IF s = "gnss" THEN [age |-> 0, ahead |-> PositionAhead] ELSE heard[s]
    BY <2>1 DEF HeardInv
  <2>5. 0 \in Int /\ 0 <= 0 + PositionAhead
    BY <1>0
  <2>6. \A s \in Sensors :
         /\ SentAges'[s] \in Int
         /\ SentAges'[s] <= StaleAfter[s] => heard'[s].age <= SentAges'[s] + heard'[s].ahead
    <3> SUFFICES ASSUME NEW s \in Sensors
                 PROVE  /\ SentAges'[s] \in Int
                        /\ SentAges'[s] <= StaleAfter[s] =>
                             heard'[s].age <= SentAges'[s] + heard'[s].ahead
      OBVIOUS
    <3>1. /\ SentAges[s] \in Int /\ heard[s] \in [age : Nat, ahead : Nat]
          /\ SentAges[s] <= StaleAfter[s] => heard[s].age <= SentAges[s] + heard[s].ahead
      BY DEF HeardInv
    <3>2. \/ heard'[s] = [age |-> 0, ahead |-> PositionAhead] /\ SentAges'[s] = 0
          \/ heard'[s] = heard[s] /\ SentAges'[s] = SentAges[s]
      BY <2>3, <2>4
    <3>3. PositionAhead \in Nat /\ 0 \in Int /\ 0 >= -PositionAhead
      BY <1>0
    <3>4. CASE heard'[s] = heard[s] /\ SentAges'[s] = SentAges[s]
      BY <3>1, <3>4, Zenon
    <3>5. CASE heard'[s] = [age |-> 0, ahead |-> PositionAhead] /\ SentAges'[s] = 0
      BY <3>3, <3>5
    <3> QED
      BY <3>2, <3>4, <3>5
  <2>7. /\ latestRadar' = [age |-> latestRadar'.age, seen |-> latestRadar'.seen]
        /\ latestCamera' = [age |-> latestCamera'.age, seen |-> latestCamera'.seen]
        /\ latestVehicle' = [age |-> latestVehicle'.age, accuracy |-> latestVehicle'.accuracy]
    BY <1>3 DEF PostPosition, HeardInv
  <2> QED
    BY <2>2, <2>6, <2>7 DEF HeardInv
<1>4. ASSUME NEW age \in FrameStamps, NEW accuracy \in Accuracies, NEW report \in Reports,
             NEW frame \in Embedded,
             PostPacket(age, accuracy, report, {}, frame)
      PROVE  HeardInv'
  <2>1. latestRadar' = latestRadar
    BY <1>4 DEF PostPacket
  <2>2. latestVehicle' = [age |-> age, accuracy |-> accuracy]
    BY <1>4 DEF PostPacket
  <2>3. heard' = [s \in Sensors |->
            CASE s = "gnss" -> [age |-> 0, ahead |-> PositionAhead]
              [] s = "camera" /\ frame # {} -> [age |-> 0, ahead |-> FarAhead]
              [] OTHER -> heard[s]]
    BY <1>4 DEF PostPacket, Sensors
  <2>4. CASE frame = {}
    <3>1. latestCamera' = latestCamera
      BY <1>4, <2>4 DEF PostPacket
    <3>2. \A s \in Sensors : SentAges'[s] = IF s = "gnss" THEN age ELSE SentAges[s]
      BY <2>1, <2>2, <3>1 DEF SentAges, Sensors
    <3>3. \A s \in Sensors :
            heard'[s] = IF s = "gnss" THEN [age |-> 0, ahead |-> PositionAhead] ELSE heard[s]
      BY <2>3, <2>4
    <3>4. heard' \in [Sensors -> [age : Nat, ahead : Nat]]
      BY <1>0, <2>3, <3>3 DEF HeardInv
    <3>5. \A s \in Sensors :
           /\ SentAges'[s] \in Int
           /\ SentAges'[s] <= StaleAfter[s] => heard'[s].age <= SentAges'[s] + heard'[s].ahead
      <4> SUFFICES ASSUME NEW s \in Sensors
                   PROVE  /\ SentAges'[s] \in Int
                          /\ SentAges'[s] <= StaleAfter[s] =>
                               heard'[s].age <= SentAges'[s] + heard'[s].ahead
        OBVIOUS
      <4>1. /\ SentAges[s] \in Int /\ heard[s] \in [age : Nat, ahead : Nat]
            /\ SentAges[s] <= StaleAfter[s] => heard[s].age <= SentAges[s] + heard[s].ahead
        BY DEF HeardInv
      <4>2. \/ heard'[s] = [age |-> 0, ahead |-> PositionAhead] /\ SentAges'[s] = age
            \/ heard'[s] = heard[s] /\ SentAges'[s] = SentAges[s]
        BY <3>2, <3>3
      <4>3. PositionAhead \in Nat /\ age \in Int /\ age >= -PositionAhead
        BY <1>0
      <4>4. CASE heard'[s] = heard[s] /\ SentAges'[s] = SentAges[s]
        BY <4>1, <4>4, Zenon
      <4>5. CASE heard'[s] = [age |-> 0, ahead |-> PositionAhead] /\ SentAges'[s] = age
        BY <4>3, <4>5
      <4> QED
        BY <4>2, <4>4, <4>5
    <3> QED
      BY <2>1, <2>2, <3>1, <3>4, <3>5 DEF HeardInv
  <2>5. CASE frame # {}
    <3>1. PICK a \in {-FarAhead, 0} : frame = {[age |-> a, seen |-> <<>>]}
      BY <2>5 DEF Embedded
    <3>2. latestCamera' = [age |-> a, seen |-> <<>>]
      BY <1>4, <3>1 DEF PostPacket
    <3>3. a \in Int /\ a >= -FarAhead
      BY <1>0
    <3>4. \A s \in Sensors :
            SentAges'[s] = IF s = "gnss" THEN age ELSE IF s = "camera" THEN a ELSE SentAges[s]
      BY <2>1, <2>2, <3>2 DEF SentAges, Sensors
    <3>5. \A s \in Sensors :
            heard'[s] = IF s = "gnss" THEN [age |-> 0, ahead |-> PositionAhead]
                        ELSE IF s = "camera" THEN [age |-> 0, ahead |-> FarAhead] ELSE heard[s]
      BY <2>3, <2>5
    <3>6. heard' \in [Sensors -> [age : Nat, ahead : Nat]]
      BY <1>0, <2>3, <3>5 DEF HeardInv
    <3>7. \A s \in Sensors :
           /\ SentAges'[s] \in Int
           /\ SentAges'[s] <= StaleAfter[s] => heard'[s].age <= SentAges'[s] + heard'[s].ahead
      <4> SUFFICES ASSUME NEW s \in Sensors
                   PROVE  /\ SentAges'[s] \in Int
                          /\ SentAges'[s] <= StaleAfter[s] =>
                               heard'[s].age <= SentAges'[s] + heard'[s].ahead
        OBVIOUS
      <4>1. /\ SentAges[s] \in Int /\ heard[s] \in [age : Nat, ahead : Nat]
            /\ SentAges[s] <= StaleAfter[s] => heard[s].age <= SentAges[s] + heard[s].ahead
        BY DEF HeardInv
      <4>2. \/ heard'[s] = [age |-> 0, ahead |-> PositionAhead] /\ SentAges'[s] = age
            \/ heard'[s] = [age |-> 0, ahead |-> FarAhead] /\ SentAges'[s] = a
            \/ heard'[s] = heard[s] /\ SentAges'[s] = SentAges[s]
        BY <3>4, <3>5
      <4>3. PositionAhead \in Nat /\ age \in Int /\ age >= -PositionAhead
        BY <1>0
      <4>4. CASE heard'[s] = heard[s] /\ SentAges'[s] = SentAges[s]
        BY <4>1, <4>4, Zenon
      <4>5. CASE heard'[s] = [age |-> 0, ahead |-> PositionAhead] /\ SentAges'[s] = age
        BY <4>3, <4>5
      <4>6. CASE heard'[s] = [age |-> 0, ahead |-> FarAhead] /\ SentAges'[s] = a
        BY <1>0, <3>3, <4>6
      <4> QED
        BY <4>2, <4>4, <4>5, <4>6
    <3> QED
      BY <2>1, <2>2, <3>2, <3>6, <3>7 DEF HeardInv
  <2> QED
    BY <2>4, <2>5
<1>5. CASE FusionTick
  <2>1. VeryOld \in Nat /\ \A s \in Sensors : VeryOld > StaleAfter[s]
    BY VeryOldIsStale
  <2>2. \A s \in Sensors : SentAges'[s] = Elapsed(SentAges[s])
    BY <1>5 DEF FusionTick, SentAges, Sensors, HeardInv
  <2>3. \A s \in Sensors :
          heard'[s] = [age |-> Elapsed(heard[s].age), ahead |-> heard[s].ahead]
    BY <1>5 DEF FusionTick, HeardInv
  <2>4. heard' \in [Sensors -> [age : Nat, ahead : Nat]]
    BY <1>5, <2>1 DEF FusionTick, HeardInv, Elapsed
  <2>5. \A s \in Sensors :
         /\ SentAges'[s] \in Int
         /\ SentAges'[s] <= StaleAfter[s] => heard'[s].age <= SentAges'[s] + heard'[s].ahead
    <3> SUFFICES ASSUME NEW s \in Sensors
                 PROVE  /\ SentAges'[s] \in Int
                        /\ SentAges'[s] <= StaleAfter[s] =>
                             heard'[s].age <= SentAges'[s] + heard'[s].ahead
      OBVIOUS
    <3>1. /\ SentAges[s] \in Int /\ heard[s] \in [age : Nat, ahead : Nat]
          /\ SentAges[s] <= StaleAfter[s] => heard[s].age <= SentAges[s] + heard[s].ahead
      BY DEF HeardInv
    <3>2. /\ heard'[s].age = Elapsed(heard[s].age) /\ heard'[s].ahead = heard[s].ahead
          /\ SentAges'[s] = Elapsed(SentAges[s])
      <4>1. heard'[s] = [age |-> Elapsed(heard[s].age), ahead |-> heard[s].ahead]
        BY <2>3, Zenon
      <4>2. SentAges'[s] = Elapsed(SentAges[s])
        BY <2>2, Zenon
      <4> QED
        BY <4>1, <4>2
    <3>3. /\ heard[s].age \in Nat /\ heard[s].ahead \in Nat /\ StaleAfter[s] \in Nat
          /\ VeryOld > StaleAfter[s] /\ VeryOld \in Nat
      BY <1>0, <2>1, <3>1
    <3>4. ASSUME NEW a \in Int, NEW h \in Nat, NEW d \in Nat, NEW limit \in Nat,
                 VeryOld > limit, VeryOld \in Nat, a <= limit => h <= a + d
          PROVE  Elapsed(a) \in Int /\ (Elapsed(a) <= limit => Elapsed(h) <= Elapsed(a) + d)
      BY <3>4 DEF Elapsed
    <3>5. /\ Elapsed(SentAges[s]) \in Int
          /\ Elapsed(SentAges[s]) <= StaleAfter[s] =>
               Elapsed(heard[s].age) <= Elapsed(SentAges[s]) + heard[s].ahead
      BY <3>1, <3>3, <3>4
    <3> QED
      BY <3>2, <3>5, Zenon
  <2>6. /\ latestRadar' = [age |-> latestRadar'.age, seen |-> latestRadar'.seen]
        /\ latestCamera' = [age |-> latestCamera'.age, seen |-> latestCamera'.seen]
        /\ latestVehicle' = [age |-> latestVehicle'.age, accuracy |-> latestVehicle'.accuracy]
    BY <1>5 DEF FusionTick, HeardInv
  <2> QED
    BY <2>4, <2>5, <2>6 DEF HeardInv
<1>6. CASE UNCHANGED fusionVars
  BY <1>6 DEF fusionVars, HeardInv, SentAges
<1> QED
  BY <1>1, <1>2, <1>3, <1>4, <1>5, <1>6

\* A sensor that is shown as ok is not stale, and so was heard.
LEMMA HealthIsHeardHolds ==
    ASSUME FusionAssumption, HeardInv
    PROVE  HealthIsHeard
<1> SUFFICES ASSUME NEW s \in Sensors, Health(s) = "ok"
             PROVE  heard[s].age <= StaleAfter[s] + heard[s].ahead
  BY DEF HealthIsHeard
<1>1. SentAges[s] \in Int /\ SensorAge(s) = (IF SentAges[s] >= 0 THEN SentAges[s] ELSE 0)
  BY MaxOfTwo DEF SensorAge, SentAges, HeardInv, Sensors
<1>2. StaleAfter[s] \in Nat
  BY DEF FusionAssumption
<1>3. ~(SensorAge(s) > StaleAfter[s])
  BY DEF Health
<1>4. SentAges[s] <= StaleAfter[s]
  BY <1>1, <1>2, <1>3
<1>5. heard[s].age <= SentAges[s] + heard[s].ahead /\ heard[s] \in [age : Nat, ahead : Nat]
  BY <1>4 DEF HeardInv
<1> QED
  BY <1>1, <1>2, <1>4, <1>5

-----------------------------------------------------------------------------
(* NextgenRuntime: calibrated cameras and the view they make *)

\* The greatest of finitely many integers.
LEMMA MaxOfFinite ==
    ASSUME NEW S \in SUBSET Int, IsFiniteSet(S), S # {}
    PROVE  Max(S) \in S /\ \A y \in S : Max(S) >= y
<1> DEFINE n == Cardinality(S)
<1>1. n \in Nat /\ n # 0
  BY FS_CardinalityType, FS_EmptySet
<1>2. PICK f \in Bijection(1..n, S) : TRUE
  BY FS_CardinalityType DEF ExistsBijection
<1>3. f \in [1..n -> S] /\ \A y \in S : \E i \in 1..n : f[i] = y
  BY <1>2 DEF Bijection, Surjection
<1> HIDE DEF n
<1> DEFINE P == {k \in 0..n : k = 0 \/ \E m \in 1..k : \A i \in 1..k : f[m] >= f[i]}
<1>4. 0 \in P
  BY <1>1
<1>5. ASSUME NEW k \in 1..n, k - 1 \in P PROVE k \in P
  <2>1. \A i \in 1..n : f[i] \in Int
    BY <1>3
  <2>2. CASE k = 1
    <3>1. 1 \in 1..1 /\ \A i \in 1..1 : f[1] >= f[i]
      BY <2>1, <1>1, <2>2
    <3> QED
      BY <3>1, <2>2
  <2>3. CASE k # 1
    <3>1. PICK m \in 1..(k - 1) : \A i \in 1..(k - 1) : f[m] >= f[i]
      BY <1>5, <2>3
    <3>2. m \in 1..k /\ k \in 1..k /\ f[m] \in Int /\ f[k] \in Int
      BY <2>1, <1>1
    <3>3. \A i \in 1..k : i = k \/ i \in 1..(k - 1)
      OBVIOUS
    <3>4. CASE f[m] >= f[k]
      <4>1. \A i \in 1..k : f[m] >= f[i]
        BY <3>1, <3>3, <3>4
      <4> QED
        BY <3>2, <4>1
    <3>5. CASE ~(f[m] >= f[k])
      <4>1. \A i \in 1..k : i \in 1..n /\ f[i] \in Int
        BY <2>1, <1>1
      <4>2. \A i \in 1..k : f[k] >= f[i]
        BY <3>1, <3>2, <3>3, <3>5, <4>1
      <4> QED
        BY <3>2, <4>2
    <3> QED
      BY <3>4, <3>5
  <2> QED
    BY <2>2, <2>3
<1>6. n \in P
  <2> HIDE DEF P
  <2>1. \A i \in 0..n : i \in P
    BY <1>1, <1>4, <1>5, StepByStep
  <2> QED
    BY <1>1, <2>1
<1>7. PICK m \in 1..n : \A i \in 1..n : f[m] >= f[i]
  BY <1>1, <1>6
<1>8. f[m] \in S /\ \A y \in S : f[m] >= y
  BY <1>3, <1>7
<1>9. \E x \in S : \A y \in S : x >= y
  BY <1>8, Zenon
<1> QED
  BY <1>9 DEF Max

\* A feed grows old only after everything a surround view may rest on.
LEMMA OldFeedIsOld ==
    ASSUME NextgenAssumption
    PROVE  OldFeed \in Int /\ OldFeed > SurroundAge + ShownFor
<1> DEFINE S == {FrameAge, SurroundAge + ShownFor} \cup Delays
<1>1. /\ FrameAge \in Nat /\ SurroundAge \in Nat /\ ShownFor \in Nat
      /\ SurroundAge + ShownFor \in Int /\ Delays \subseteq Int /\ IsFiniteSet(Delays)
  BY DEF NextgenAssumption
<1>2. S \in SUBSET Int /\ S # {} /\ SurroundAge + ShownFor \in S
  BY <1>1
<1>3. IsFiniteSet(S)
  <2>1. IsFiniteSet({FrameAge, SurroundAge + ShownFor})
    <3>1. IsFiniteSet({FrameAge}) /\ {FrameAge, SurroundAge + ShownFor} = {FrameAge} \cup {SurroundAge + ShownFor}
      BY FS_Singleton
    <3> QED
      BY <3>1, FS_AddElement
  <2> QED
    BY <1>1, <2>1, FS_Union
<1> HIDE DEF S
<1>4. Max(S) \in S /\ \A y \in S : Max(S) >= y
  BY <1>2, <1>3, MaxOfFinite
<1>5. OldFeed = Max(S) + 1
  BY DEF OldFeed, S
<1>6. SurroundAge \in Nat /\ ShownFor \in Nat
  BY <1>1
<1>7. Max(S) \in Int /\ Max(S) >= SurroundAge + ShownFor
  BY <1>2, <1>4
<1> QED
  BY <1>5, <1>6, <1>7

\* Cameras that a surround view of an age may rest on.
Evidenced(fs, age, cameras) ==
    /\ Cardinality(cameras) >= Cardinality(RequiredMounts)
    /\ cameras \subseteq DOMAIN fs
    /\ \A c \in cameras : fs[c] \in 0..(SurroundAge + age)
    /\ \A c, d \in cameras : fs[c] - fs[d] <= SyncSpread

\* The feeds agree; a live view grows old with the frames it was made of; and what a camera
\* without calibration sees is not trusted.
VisionInv ==
    /\ IsFiniteSet(DOMAIN frames) /\ frames \in [DOMAIN frames -> Int]
    /\ scene = frames
    /\ sphere = [age |-> sphere.age, live |-> sphere.live, cameras |-> sphere.cameras]
    /\ sphere.age \in Nat
    /\ sphere.live /\ sphere.age <= ShownFor => Evidenced(frames, sphere.age, sphere.cameras)
    /\ UncalibratedIsUntrusted

\* VisionInv holds at first: no camera has sent anything.
LEMMA VisionInvInit ==
    ASSUME NextgenAssumption, NextgenInit
    PROVE  VisionInv
<1>1. DOMAIN frames = {} /\ scene = frames
  BY DEF NextgenInit
<1>2. frames \in [DOMAIN frames -> Int]
  BY <1>1 DEF NextgenInit
<1>3. IsFiniteSet(DOMAIN frames)
  BY <1>1, FS_EmptySet
<1>4. ShownFor \in Nat
  BY DEF NextgenAssumption
<1> QED
  BY <1>1, <1>2, <1>3, <1>4 DEF NextgenInit, VisionInv, UncalibratedIsUntrusted

\* A view that is made now and live rests on what it was made of.
LEMMA BuiltIsEvidenced ==
    ASSUME NextgenAssumption, NEW fs, IsFiniteSet(DOMAIN fs), fs \in [DOMAIN fs -> Int],
           BuildSurround(fs).live
    PROVE  Evidenced(fs, 0, BuildSurround(fs).cameras)
<1> DEFINE cameras == {c \in DOMAIN fs : fs[c] \in 0..SurroundAge}
           image == {calibrations[c].mount : c \in cameras}
           f == [c \in cameras |-> calibrations[c].mount]
<1>1. /\ BuildSurround(fs).cameras = cameras /\ RequiredMounts \subseteq image
      /\ \A c, d \in cameras : fs[c] - fs[d] <= SyncSpread
  BY DEF BuildSurround, InTime
<1>2. IsFiniteSet(cameras)
  BY FS_Subset
<1>3. f \in Surjection(cameras, image)
  BY DEF Surjection
<1>4. /\ IsFiniteSet(image) /\ Cardinality(image) <= Cardinality(cameras)
      /\ Cardinality(image) \in Nat /\ Cardinality(cameras) \in Nat
  <2> HIDE DEF f, image, cameras
  <2> QED
    BY <1>2, <1>3, FS_Surjection, FS_CardinalityType
<1>5. Cardinality(RequiredMounts) <= Cardinality(image) /\ Cardinality(RequiredMounts) \in Nat
  <2> HIDE DEF image, cameras
  <2> QED
    BY <1>1, <1>4, FS_Subset, FS_CardinalityType
<1>6. SurroundAge \in Nat /\ SurroundAge + 0 = SurroundAge
  BY DEF NextgenAssumption
<1>7. \A c \in cameras : fs[c] \in 0..(SurroundAge + 0)
  BY <1>6
<1>8. cameras \subseteq DOMAIN fs
  OBVIOUS
<1> HIDE DEF cameras, image, f
<1> QED
  BY <1>1, <1>4, <1>5, <1>7, <1>8 DEF Evidenced

\* A frame that a camera sends, whatever is made of it.
LEMMA IngestKeepsVision ==
    ASSUME NextgenAssumption, VisionInv, NEW v, NEW c, NEW age, NEW s, NEW clocked,
           IngestCalibrated(v, c, age, s, clocked)
    PROVE  VisionInv'
<1>1. CASE ~Accepted(c, age, s, clocked)
  BY <1>1 DEF IngestCalibrated, VisionInv, UncalibratedIsUntrusted
<1>2. CASE Accepted(c, age, s, clocked)
  <2>1. /\ frames' = Put(frames, c, age) /\ sphere' = BuildSurround(frames')
        /\ scene' = (IF c \in DOMAIN scene \/ Cardinality(DOMAIN scene) < MaxCalibrated
                     THEN Put(scene, c, age) ELSE scene)
        /\ perception' = perception /\ calibrations' = calibrations
    BY <1>2 DEF IngestCalibrated
  <2>2. age \in Int /\ (c \in DOMAIN frames \/ Cardinality(DOMAIN frames) < MaxCalibrated)
    BY <1>2 DEF Accepted, NextgenAssumption
  <2>3. scene' = frames'
    BY <2>1, <2>2 DEF VisionInv
  <2>4. /\ DOMAIN frames' = DOMAIN frames \cup {c}
        /\ frames' \in [DOMAIN frames' -> Int]
    BY <2>1, <2>2 DEF Put, VisionInv
  <2>5. IsFiniteSet(DOMAIN frames')
    BY <2>4, FS_AddElement DEF VisionInv
  <2>6. /\ sphere' = [age |-> sphere'.age, live |-> sphere'.live, cameras |-> sphere'.cameras]
        /\ sphere'.age = 0
    BY <2>1 DEF BuildSurround
  <2>7. sphere'.live => Evidenced(frames', 0, sphere'.cameras)
    BY <2>1, <2>4, <2>5, BuiltIsEvidenced
  <2>8. (sphere'.live /\ sphere'.age <= ShownFor => Evidenced(frames', sphere'.age, sphere'.cameras))
    BY <2>6, <2>7
  <2>9. UncalibratedIsUntrusted'
    BY <2>1 DEF VisionInv, UncalibratedIsUntrusted
  <2>10. sphere'.age \in Nat
    BY <2>6
  <2>11. Evidenced(frames, sphere.age, sphere.cameras)' = Evidenced(frames', sphere'.age, sphere'.cameras)
    BY DEF Evidenced
  <2> QED
    BY <2>3, <2>4, <2>5, <2>6, <2>8, <2>9, <2>10, <2>11 DEF VisionInv
<1> QED
  BY <1>1, <1>2

\* Frames grow old together, and a view with them.
LEMMA TickKeepsVision ==
    ASSUME NextgenAssumption, VisionInv, NextgenTick
    PROVE  VisionInv'
<1>1. /\ frames' = [k \in DOMAIN frames |-> Grown(frames[k], OldFeed)]
      /\ scene' = [k \in DOMAIN scene |-> Grown(scene[k], OldFeed)]
      /\ sphere' = [sphere EXCEPT !.age = Grown(sphere.age, ShownFor + 1)]
      /\ perception' = perception
  BY DEF NextgenTick
<1>2. /\ ShownFor \in Nat /\ SurroundAge \in Nat /\ SyncSpread \in Nat
      /\ OldFeed \in Int /\ OldFeed > SurroundAge + ShownFor
  BY OldFeedIsOld DEF NextgenAssumption
<1>3. DOMAIN frames' = DOMAIN frames /\ scene' = frames'
  BY <1>1 DEF VisionInv
<1>4. frames' \in [DOMAIN frames' -> Int]
  BY <1>1, <1>2 DEF VisionInv, Grown
<1>5. /\ sphere' = [age |-> sphere'.age, live |-> sphere'.live, cameras |-> sphere'.cameras]
      /\ sphere'.age = Grown(sphere.age, ShownFor + 1) /\ sphere'.live = sphere.live
      /\ sphere'.cameras = sphere.cameras
  BY <1>1 DEF VisionInv
<1>6. sphere'.age \in Nat /\ (sphere'.age <= ShownFor => sphere'.age = sphere.age + 1)
  BY <1>2, <1>5 DEF VisionInv, Grown
<1>7. ASSUME sphere'.live, sphere'.age <= ShownFor
      PROVE  Evidenced(frames', sphere'.age, sphere'.cameras)
  <2>1. sphere.live /\ sphere.age \in Nat /\ sphere.age + 1 <= ShownFor /\ sphere.age <= ShownFor
    BY <1>2, <1>5, <1>6, <1>7 DEF VisionInv
  <2>2. Evidenced(frames, sphere.age, sphere.cameras)
    BY <2>1 DEF VisionInv
  <2>3. \A c \in sphere.cameras : frames[c] \in Int /\ 0 <= frames[c] /\ frames[c] <= SurroundAge + sphere.age
    BY <1>2, <2>1, <2>2 DEF Evidenced, VisionInv
  <2>4. \A c \in sphere.cameras : frames'[c] = frames[c] + 1
    BY <1>1, <1>2, <2>1, <2>2, <2>3 DEF Evidenced, Grown
  <2>5. \A c \in sphere.cameras : frames'[c] \in 0..(SurroundAge + sphere'.age)
    BY <1>2, <1>6, <1>7, <2>1, <2>3, <2>4
  <2>6. \A c, d \in sphere.cameras : frames'[c] - frames'[d] <= SyncSpread
    <3> SUFFICES ASSUME NEW c \in sphere.cameras, NEW d \in sphere.cameras
                 PROVE  frames'[c] - frames'[d] <= SyncSpread
      OBVIOUS
    <3>1. frames[c] \in Int /\ frames[d] \in Int /\ frames[c] - frames[d] <= SyncSpread
      BY <2>2, <2>3 DEF Evidenced
    <3> QED
      BY <1>2, <2>4, <3>1
  <2> QED
    BY <1>3, <1>5, <2>2, <2>5, <2>6 DEF Evidenced
<1>8. Evidenced(frames, sphere.age, sphere.cameras)' = Evidenced(frames', sphere'.age, sphere'.cameras)
  BY DEF Evidenced
<1>9. UncalibratedIsUntrusted'
  BY <1>1 DEF VisionInv, UncalibratedIsUntrusted
<1>10. IsFiniteSet(DOMAIN frames')
  BY <1>3 DEF VisionInv
<1> QED
  BY <1>3, <1>4, <1>5, <1>6, <1>7, <1>8, <1>9, <1>10 DEF VisionInv

\* A frame by the route for cameras without calibration.
LEMMA LegacyKeepsVision ==
    ASSUME NextgenAssumption, VisionInv, NEW v, NEW c, NEW age, NEW objects,
           PostLegacy(v, c, age, objects)
    PROVE  VisionInv'
<1>1. CASE c \in DOMAIN calibrations
  <2>1. IngestCalibrated(v, c, age, Stamped(age), age >= 0)
    BY <1>1 DEF PostLegacy
  <2> QED
    BY <2>1, IngestKeepsVision
<1>2. CASE c \notin DOMAIN calibrations
  <2>1. /\ perception' = [eligible |-> Trusted(age, objects),
                          objects |-> {o \in objects : o.sure /\ o.fresh}]
        /\ UNCHANGED <<frames, scene, sphere>>
    BY <1>2 DEF PostLegacy
  <2>2. UncalibratedIsUntrusted'
    BY <2>1 DEF UncalibratedIsUntrusted, Trusted
  <2> QED
    BY <2>1, <2>2 DEF VisionInv, Evidenced
<1> QED
  BY <1>1, <1>2

\* What VisionInv is for: what is shown of the surround rests on frames, and feeds agree.
LEMMA VisionInvHolds ==
    ASSUME NextgenAssumption, VisionInv
    PROVE  SurroundIsEvidenced /\ FeedsAgree /\ UncalibratedIsUntrusted
<1>1. ASSUME SurroundShown, sphere.live PROVE SurroundIsEvidenced
  <2>1. sphere.age \in Nat /\ sphere.age <= ShownFor /\ Evidenced(frames, sphere.age, sphere.cameras)
    BY <1>1 DEF SurroundShown, VisionInv
  <2>2. ShownFor \in Nat /\ SurroundAge \in Nat
    BY DEF NextgenAssumption
  <2>3. \A c \in sphere.cameras : frames[c] \in 0..(SurroundAge + ShownFor)
    BY <2>1, <2>2 DEF Evidenced
  <2> QED
    BY <2>1, <2>3 DEF SurroundIsEvidenced, Evidenced
<1> QED
  BY <1>1 DEF SurroundIsEvidenced, VisionInv, FeedsAgree

-----------------------------------------------------------------------------
(* NextgenRuntime: the driver *)

FaceSamples == [face : Faces, age : Int]

\* The list of samples, and what was made of it.
DriverInv == faces \in Seq(FaceSamples) /\ DriverIsJudgedInWindow

\* Part of a list, from one of its places on.
LEMMA RestOfList ==
    ASSUME NEW X, NEW list \in Seq(X), NEW m \in Nat \ {0}
    PROVE  SubSeq(list, m, Len(list)) \in Seq(X)
<1>1. \A i \in m..Len(list) : list[i] \in X
  BY ElementOfSeq
<1>2. Len(list) \in Int
  BY LenProperties
<1> QED
  BY <1>1, <1>2, SubSeqProperties

\* Leaving out the old ones keeps a list.
LEMMA WithoutOldIsList ==
    ASSUME NEW list \in Seq(FaceSamples)
    PROVE  WithoutOld(list) \in Seq(FaceSamples)
<1> DEFINE keep == {i \in DOMAIN list : list[i].age <= StateWindow}
<1>1. CASE keep = {}
  BY <1>1 DEF WithoutOld
<1>2. CASE keep # {}
  <2>1. DOMAIN list = 1..Len(list) /\ Len(list) \in Nat
    BY LenProperties
  <2>2. keep \in SUBSET Nat /\ \A i \in keep : i # 0
    BY <2>1
  <2>3. PICK m \in keep : \A y \in keep : m <= y
    <3> HIDE DEF keep
    <3> QED
      BY <1>2, <2>2, LeastExists
  <2>4. Min(keep) \in keep
    <3> HIDE DEF keep
    <3> QED
      BY <2>3, Zenon DEF Min
  <2>5. WithoutOld(list) = SubSeq(list, Min(keep), Len(list))
    BY <1>2 DEF WithoutOld
  <2> HIDE DEF keep
  <2> QED
    BY <2>2, <2>4, <2>5, RestOfList
<1> QED
  BY <1>1, <1>2

\* A driver found drowsy or distracted was seen so more than once.
LEMMA AssessedInWindow ==
    ASSUME NEW list \in Seq(FaceSamples), NEW face \in {"closed", "away"},
           Assess(list) = IF face = "closed" THEN "drowsy" ELSE "distracted"
    PROVE  Cardinality({i \in DOMAIN list : list[i].age <= StateWindow /\ list[i].face = face}) >= 2
<1> DEFINE valid == {i \in DOMAIN list : list[i].age <= StateWindow /\ list[i].face # "faceless"}
           such == {i \in valid : list[i].face = face}
           pct == IF face = "closed" THEN 48 ELSE 60
<1>1. valid = Evidence(list)
  BY DEF Evidence
<1>2. /\ Cardinality(valid) >= 3
      /\ 100 * Cardinality(such) >= pct * Cardinality(valid)
  BY <1>1 DEF Assess
<1>3. such = {i \in DOMAIN list : list[i].age <= StateWindow /\ list[i].face = face}
  OBVIOUS
<1>4. IsFiniteSet(DOMAIN list)
  <2>1. DOMAIN list = 1..Len(list) /\ Len(list) \in Int
    BY LenProperties
  <2> QED
    BY <2>1, FS_Interval
<1>5. Cardinality(valid) \in Nat /\ Cardinality(such) \in Nat
  <2>1. valid \in SUBSET DOMAIN list /\ such \in SUBSET DOMAIN list
    OBVIOUS
  <2> HIDE DEF valid, such
  <2> QED
    BY <1>4, <2>1, FS_Subset, FS_CardinalityType
<1>6. pct \in 48..60
  OBVIOUS
<1>7. ASSUME NEW a \in Nat, NEW b \in Nat, NEW p \in 48..60, a >= 3, 100 * b >= p * a
      PROVE  b >= 2
  <2>1. p * a >= 48 * 3
    BY <1>7
  <2> QED
    BY <1>7, <2>1
<1> HIDE DEF valid, such, pct
<1>8. Cardinality(such) >= 2
  BY <1>2, <1>5, <1>6, <1>7
<1> QED
  BY <1>3, <1>8

\* DriverInv holds at first: no face was sampled.
LEMMA DriverInvInit ==
    ASSUME NextgenInit
    PROVE  DriverInv
BY DEF NextgenInit, DriverInv, DriverIsJudgedInWindow

\* DriverInv is kept by a sample of a face.
LEMMA SampleKeepsDriver ==
    ASSUME NextgenAssumption, DriverInv, NEW face \in Faces, NEW age \in Delays,
           IngestSample(face, age)
    PROVE  DriverInv'
<1> DEFINE kept == WithoutOld(Append(faces, [face |-> face, age |-> age]))
<1>1. kept \in Seq(FaceSamples)
  <2>1. [face |-> face, age |-> age] \in FaceSamples
    BY DEF FaceSamples, NextgenAssumption
  <2>2. Append(faces, [face |-> face, age |-> age]) \in Seq(FaceSamples)
    BY <2>1, AppendProperties DEF DriverInv
  <2> QED
    BY <2>2, WithoutOldIsList
<1>2. /\ faces' = SubSeq(kept, Max({1, Len(kept) - MaxSamples + 1}), Len(kept))
      /\ driver' = IF faces' = <<>> THEN "driver-unavailable" ELSE Assess(faces')
  BY DEF IngestSample
<1> HIDE DEF kept
<1>3. Max({1, Len(kept) - MaxSamples + 1}) \in Nat \ {0}
  <2>1. Len(kept) - MaxSamples + 1 \in Int
    BY <1>1, LenProperties DEF NextgenAssumption
  <2> QED
    BY <2>1, MaxOfTwo
<1>4. faces' \in Seq(FaceSamples)
  BY <1>1, <1>2, <1>3, RestOfList
<1>5. ASSUME driver' \in {"drowsy", "distracted"}
      PROVE  Cardinality({i \in DOMAIN faces' :
                 /\ faces'[i].age <= StateWindow
                 /\ faces'[i].face = IF driver' = "drowsy" THEN "closed" ELSE "away"}) >= 2
  <2>1. driver' = Assess(faces')
    BY <1>2, <1>5
  <2>2. CASE driver' = "drowsy"
    <3>1. Cardinality({i \in DOMAIN faces' :
                          faces'[i].age <= StateWindow /\ faces'[i].face = "closed"}) >= 2
      BY <1>4, <2>1, <2>2, AssessedInWindow
    <3> QED
      BY <2>2, <3>1
  <2>3. CASE driver' = "distracted"
    <3>1. Cardinality({i \in DOMAIN faces' :
                          faces'[i].age <= StateWindow /\ faces'[i].face = "away"}) >= 2
      BY <1>4, <2>1, <2>3, AssessedInWindow
    <3> QED
      BY <2>3, <3>1
  <2> QED
    BY <1>5, <2>2, <2>3
<1> QED
  BY <1>4, <1>5 DEF DriverInv, DriverIsJudgedInWindow

\* DriverInv is kept as samples grow old.
LEMMA TickKeepsDriver ==
    ASSUME NextgenAssumption, DriverInv, NextgenTick
    PROVE  DriverInv'
<1>1. /\ faces' = [i \in DOMAIN faces |-> [faces[i] EXCEPT !.age = Grown(@, OldSample)]]
      /\ assessed' = FALSE
  BY DEF NextgenTick
<1>2. OldSample \in Int
  BY DEF NextgenAssumption, OldSample
<1>3. faces \in [1..Len(faces) -> FaceSamples] /\ DOMAIN faces = 1..Len(faces) /\ Len(faces) \in Nat
  BY LenProperties DEF DriverInv
<1>4. \A x \in FaceSamples : [x EXCEPT !.age = Grown(@, OldSample)] \in FaceSamples
  BY <1>2 DEF FaceSamples, Grown
<1>5. faces' \in [1..Len(faces) -> FaceSamples]
  BY <1>1, <1>3, <1>4
<1>6. faces' \in Seq(FaceSamples)
  BY <1>3, <1>5, SeqDef
<1> QED
  BY <1>1, <1>6 DEF DriverInv, DriverIsJudgedInWindow

-----------------------------------------------------------------------------
(* SensorFusion: what is made of a radar and a camera frame *)

\* What radar and camera may have seen.
SeenInv == latestRadar.seen \in Seq(Tracks) /\ latestCamera.seen \in Seq(Detections)

\* The observations that are used are some of the frame, each fresh and in a fresh frame.
LEMMA UsableIs ==
    ASSUME NEW X, NEW frame, frame.seen \in Seq(X), NEW limit
    PROVE  /\ Usable(frame, limit) \in Seq(X)
           /\ \A k \in DOMAIN Usable(frame, limit) :
                 /\ ObservedWithin(frame.age, limit)
                 /\ \E i \in DOMAIN frame.seen :
                       /\ Usable(frame, limit)[k] = frame.seen[i]
                       /\ ObservedWithin(Stamp(frame, frame.seen[i]), limit)
<1> DEFINE list == frame.seen
           I == {i \in DOMAIN list : ObservedWithin(Stamp(frame, list[i]), limit)}
<1>1. CASE ~ObservedWithin(frame.age, limit)
  <2>1. Usable(frame, limit) = <<>>
    BY <1>1 DEF Usable
  <2> QED
    BY <2>1
<1>2. CASE ObservedWithin(frame.age, limit)
  <2>1. Usable(frame, limit) = Kept(list, I)
    BY <1>2 DEF Usable
  <2>2. I \in SUBSET DOMAIN list
    OBVIOUS
  <2>3. /\ Cardinality(I) \in Nat
        /\ Kept(list, I) \in Seq(X) /\ Len(Kept(list, I)) = Cardinality(I)
        /\ \E p : Upwards(p, Cardinality(I), I)
                  /\ \A k \in 1..Cardinality(I) : Kept(list, I)[k] = list[p[k]]
    <3> HIDE DEF I
    <3> QED
      BY <2>2, KeptIs
  <2>4. PICK p : Upwards(p, Cardinality(I), I)
                 /\ \A k \in 1..Cardinality(I) : Kept(list, I)[k] = list[p[k]]
    BY <2>3
  <2>5. DOMAIN Kept(list, I) = 1..Cardinality(I)
    BY <2>3, LenProperties
  <2>6. \A k \in 1..Cardinality(I) : p[k] \in I
    BY <2>4 DEF Upwards
  <2>7. \A i \in I : i \in DOMAIN list /\ ObservedWithin(Stamp(frame, list[i]), limit)
    OBVIOUS
  <2> HIDE DEF I
  <2> QED
    BY <1>2, <2>1, <2>3, <2>4, <2>5, <2>6, <2>7
<1> QED
  BY <1>1, <1>2

\* The usable ones of both.
LEMMA UsableAre ==
    ASSUME SeenInv
    PROVE  /\ UsableTracks \in Seq(Tracks) /\ UsableDetections \in Seq(Detections)
           /\ \A i \in DOMAIN UsableTracks : UsableTracks[i] \in Tracks
           /\ \A i \in DOMAIN UsableDetections : UsableDetections[i] \in Detections
           /\ ToSet(UsableDetections) \subseteq Detections
           /\ IsFiniteSet(DOMAIN UsableDetections) /\ DOMAIN UsableDetections \subseteq Nat
<1>1. UsableTracks \in Seq(Tracks) /\ UsableDetections \in Seq(Detections)
  BY UsableIs DEF UsableTracks, UsableDetections, SeenInv
<1>2. /\ \A i \in DOMAIN UsableTracks : UsableTracks[i] \in Tracks
      /\ \A i \in DOMAIN UsableDetections : UsableDetections[i] \in Detections
  BY <1>1, ElementOfSeq, LenProperties
<1>3. DOMAIN UsableDetections = 1..Len(UsableDetections) /\ Len(UsableDetections) \in Nat
  BY <1>1, LenProperties
<1>4. IsFiniteSet(DOMAIN UsableDetections) /\ DOMAIN UsableDetections \subseteq Nat
  BY <1>3, FS_Interval
<1> QED
  BY <1>1, <1>2, <1>4 DEF ToSet

\* How well a track and a detection fit is a number.
LEMMA ScoreIsNumber ==
    ASSUME FusionAssumption, HeardInv, NEW t \in Tracks, NEW d \in Detections
    PROVE  Score(t, d) \in Int
<1>1. /\ t.bearing \in Int /\ t.distance \in Int /\ t.lag \in Int
      /\ d.bearing \in Int /\ d.distance \in Int /\ d.lag \in Int
      /\ CrossSkew \in Nat \ {0}
  BY DEF FusionAssumption
<1>2. latestRadar.age \in Int /\ latestCamera.age \in Int
  <2>1. SentAges["radar"] \in Int /\ SentAges["camera"] \in Int
    BY DEF HeardInv, Sensors
  <2> QED
    BY <2>1 DEF SentAges, Sensors
<1>3. \A n \in Int : Magnitude(n) \in Int
  BY DEF Magnitude
<1>4. SkewOf(t, d) \in Int
  BY <1>1, <1>2, <1>3 DEF SkewOf, Stamp
<1>5. AngleDelta(t.bearing, d.bearing) \in Int
  BY <1>1, <1>3 DEF AngleDelta
<1>6. Magnitude(t.distance - d.distance) \in Int
  BY <1>1, <1>3
<1>7. \A n \in Int : (200 * n) \div CrossSkew \in Int
  BY <1>1
<1>8. (200 * SkewOf(t, d)) \div CrossSkew \in Int
  BY <1>4, <1>7
<1> QED
  BY <1>5, <1>6, <1>8 DEF Score

\* The best of the candidates is one of them.
LEMMA MatchIsCandidate ==
    ASSUME FusionAssumption, HeardInv, SeenInv, NEW t \in Tracks, NEW used, Candidates(t, used) # {}
    PROVE  \E d \in ToSet(UsableDetections) :
               Match(t, used) = d /\ d.id \notin used /\ Compatible(t, d)
<1> DEFINE C == Candidates(t, used)
           score == [i \in C |-> Score(t, UsableDetections[i])]
           S == {-score[i] : i \in C}
<1>1. C \subseteq DOMAIN UsableDetections /\ C \subseteq Nat /\ IsFiniteSet(C)
  <2>1. C \subseteq DOMAIN UsableDetections
    BY DEF Candidates
  <2> QED
    BY <2>1, UsableAre, FS_Subset
<1>2. \A i \in C : UsableDetections[i] \in Detections
  BY <1>1, UsableAre
<1>3. \A i \in C : score[i] \in Int
  BY <1>2, ScoreIsNumber
<1>4. S \in SUBSET Int /\ S # {}
  BY <1>3
<1>5. IsFiniteSet(S)
  <2> DEFINE f == [i \in C |-> -score[i]]
  <2>1. f \in Surjection(C, S)
    BY DEF Surjection
  <2> QED
    BY <1>1, <2>1, FS_Surjection
<1>6. Max(S) \in S /\ \A y \in S : Max(S) >= y
  <2> HIDE DEF S
  <2> QED
    BY <1>4, <1>5, MaxOfFinite
<1>7. PICK m \in C : \A i \in C : score[m] <= score[i]
  <2>1. PICK m \in C : Max(S) = -score[m]
    BY <1>6
  <2>2. \A i \in C : -score[m] >= -score[i]
    BY <1>6, <2>1
  <2>3. \A i \in C : score[m] <= score[i]
    <3> HIDE DEF score, C, S
    <3> QED
      BY <1>3, <2>2
  <2> QED
    BY <2>3
<1> DEFINE T == {i \in C : score[i] = score[m]}
<1>8. T \in SUBSET Nat /\ T # {}
  BY <1>1, <1>7
<1>9. PICK b \in T : \A i \in T : b <= i
  BY <1>8, LeastExists
<1>10. \A j \in C : score[b] < score[j] \/ (score[b] = score[j] /\ b <= j)
  <2> HIDE DEF score, C
  <2> QED
    BY <1>3, <1>7, <1>9
<1>11. \E i \in C : \A j \in C :
           \/ Score(t, UsableDetections[i]) < Score(t, UsableDetections[j])
           \/ Score(t, UsableDetections[i]) = Score(t, UsableDetections[j]) /\ i <= j
  BY <1>9, <1>10
<1> DEFINE c == CHOOSE i \in C : \A j \in C :
                   \/ Score(t, UsableDetections[i]) < Score(t, UsableDetections[j])
                   \/ Score(t, UsableDetections[i]) = Score(t, UsableDetections[j]) /\ i <= j
<1>12. c \in C
  <2> HIDE DEF C
  <2> QED
    BY <1>11
<1>13. Match(t, used) = UsableDetections[c]
  BY DEF Match
<1> HIDE DEF c
<1>14. UsableDetections[c] \in ToSet(UsableDetections)
  BY <1>1, <1>12 DEF ToSet
<1>15. UsableDetections[c].id \notin used /\ Compatible(t, UsableDetections[c])
  BY <1>12 DEF Candidates
<1> QED
  BY <1>13, <1>14, <1>15

\* What may stand for a track, and what may have been fused so far.
OfTracks == {RadarObject(t) : t \in Tracks} \cup {FusedObject(t, d) : t \in Tracks, d \in Detections}
Names == {d.id : d \in Detections}
FusedSoFar == [used : SUBSET Names, objects : Seq(OfTracks), disagreements : Nat]
NothingFused == [used |-> {}, objects |-> <<>>, disagreements |-> 0]

\* The object that stands for a track, if the detections used before it and after it are these.
Placed(o, t, before, after) ==
    \/ o = RadarObject(t) /\ after = before /\ Candidates(t, before) = {}
    \/ \E d \in ToSet(UsableDetections) :
          /\ o = FusedObject(t, d) /\ Compatible(t, d)
          /\ d.id \notin before /\ after = before \cup {d.id}

\* A track adds the one object that stands for it.
LEMMA TrackAdds ==
    ASSUME FusionAssumption, HeardInv, SeenInv, NEW x \in FusedSoFar, NEW t \in Tracks
    PROVE  /\ WithTrack(x, t) \in FusedSoFar
           /\ \E o \in OfTracks : /\ WithTrack(x, t).objects = Append(x.objects, o)
                                  /\ Placed(o, t, x.used, WithTrack(x, t).used)
<1>1. /\ x = [used |-> x.used, objects |-> x.objects, disagreements |-> x.disagreements]
      /\ x.used \in SUBSET Names /\ x.objects \in Seq(OfTracks) /\ x.disagreements \in Nat
  BY DEF FusedSoFar
<1>2. CASE Candidates(t, x.used) = {}
  <2>1. RadarObject(t) \in OfTracks
    BY DEF OfTracks
  <2>2. /\ WithTrack(x, t).used = x.used
        /\ WithTrack(x, t).objects = Append(x.objects, RadarObject(t))
    BY <1>1, <1>2 DEF WithTrack
  <2>3. \E n \in Nat : WithTrack(x, t) = [used |-> x.used, disagreements |-> n,
                                          objects |-> Append(x.objects, RadarObject(t))]
    <3> DEFINE n == IF \E i \in DOMAIN UsableDetections :
                           LET d == UsableDetections[i]
                           IN  d.id \notin x.used /\ NearBearing(t, d) /\ ~Compatible(t, d)
                    THEN x.disagreements + 1 ELSE x.disagreements
    <3>1. n \in Nat
      BY <1>1
    <3>2. WithTrack(x, t) = [x EXCEPT !.objects = Append(@, RadarObject(t)), !.disagreements = n]
      BY <1>2 DEF WithTrack
    <3> HIDE DEF n
    <3> QED
      BY <1>1, <3>1, <3>2
  <2>4. Append(x.objects, RadarObject(t)) \in Seq(OfTracks)
    BY <1>1, <2>1
  <2>5. WithTrack(x, t) \in FusedSoFar
    BY <1>1, <2>3, <2>4 DEF FusedSoFar
  <2>6. Placed(RadarObject(t), t, x.used, WithTrack(x, t).used)
    BY <1>2, <2>2 DEF Placed
  <2> QED
    BY <2>1, <2>2, <2>5, <2>6
<1>3. CASE Candidates(t, x.used) # {}
  <2>1. PICK d \in ToSet(UsableDetections) :
            Match(t, x.used) = d /\ d.id \notin x.used /\ Compatible(t, d)
    BY <1>3, MatchIsCandidate
  <2>2. WithTrack(x, t) = [x EXCEPT !.used = @ \cup {d.id}, !.objects = Append(@, FusedObject(t, d))]
    BY <1>3, <2>1 DEF WithTrack
  <2>3. d \in Detections
    BY <2>1, UsableAre
  <2>4. FusedObject(t, d) \in OfTracks /\ d.id \in Names
    BY <2>3 DEF OfTracks, Names
  <2>5. Append(x.objects, FusedObject(t, d)) \in Seq(OfTracks)
    BY <1>1, <2>4
  <2>6. WithTrack(x, t) = [used |-> x.used \cup {d.id}, objects |-> Append(x.objects, FusedObject(t, d)),
                           disagreements |-> x.disagreements]
    BY <1>1, <2>2
  <2>7. WithTrack(x, t) \in FusedSoFar
    BY <1>1, <2>4, <2>5, <2>6 DEF FusedSoFar
  <2>8. Placed(FusedObject(t, d), t, x.used, WithTrack(x, t).used)
    BY <2>1, <2>6 DEF Placed
  <2> QED
    BY <2>4, <2>6, <2>7, <2>8
<1> QED
  BY <1>2, <1>3

\* The tracks are fused one after the other.
LEMMA TracksFold ==
    ASSUME FusionAssumption, HeardInv, SeenInv
    PROVE  \E g \in [0..Len(UsableTracks) -> FusedSoFar] :
               /\ g[0] = NothingFused /\ g[Len(UsableTracks)] = FusedTracks
               /\ \A i \in 1..Len(UsableTracks) : g[i] = WithTrack(g[i - 1], UsableTracks[i])
<1> DEFINE h == UsableTracks
           n == Len(h)
           Q(g) == g = [s \in SUBSET DOMAIN h |->
                          IF s = {} THEN NothingFused ELSE WithTrack(g[s \ {Max(s)}], h[Max(s)])]
           next == [i \in 1..n |-> [x \in FusedSoFar |-> WithTrack(x, h[i])]]
<1>1. n \in Nat /\ DOMAIN h = 1..n /\ \A i \in 1..n : h[i] \in Tracks
  BY UsableAre, LenProperties
<1> HIDE DEF h
<1>2. next \in [1..n -> [FusedSoFar -> FusedSoFar]]
  BY <1>1, TrackAdds
<1>3. NothingFused \in FusedSoFar
  BY DEF FusedSoFar, NothingFused
<1>4. PICK g : IsFold(g, n, FusedSoFar, NothingFused, next)
  <2> HIDE DEF next, n
  <2> QED
    BY <1>1, <1>2, <1>3, FoldExists
<1>5. Q(g)
  <2> SUFFICES ASSUME NEW s \in SUBSET (1..n)
               PROVE  g[s] = IF s = {} THEN NothingFused ELSE WithTrack(g[s \ {Max(s)}], h[Max(s)])
    BY <1>1, <1>4 DEF IsFold
  <2>1. CASE s = {}
    BY <1>4, <2>1 DEF IsFold
  <2>2. CASE s # {}
    <3>1. Max(s) \in s
      BY <1>1, <2>2, GreatestIsMax
    <3>2. g[s \ {Max(s)}] \in FusedSoFar
      BY <1>4 DEF IsFold
    <3>3. next[Max(s)][g[s \ {Max(s)}]] = WithTrack(g[s \ {Max(s)}], h[Max(s)])
      BY <3>1, <3>2
    <3> QED
      BY <1>4, <2>2, <3>3 DEF IsFold
  <2> QED
    BY <2>1, <2>2
<1> DEFINE f == CHOOSE x : Q(x)
<1>6. Q(f)
  <2> HIDE DEF Q
  <2> QED
    BY <1>5
<1>7. FusedTracks = f[DOMAIN h]
  <2>1. FusedTracks = FoldLeft(WithTrack, NothingFused, h)
    BY Zenon DEF FusedTracks, NothingFused, h
  <2>2. FoldLeft(WithTrack, NothingFused, h) = f[DOMAIN h]
    <3> HIDE DEF NothingFused
    <3> QED
      BY DEF FoldLeft, MapThenFoldSet
  <2> QED
    BY <2>1, <2>2
<1> HIDE DEF f
<1>8. f[{}] = NothingFused
  BY <1>6
<1>9. ASSUME NEW s \in SUBSET (1..n), s # {}, f[s \ {Max(s)}] \in FusedSoFar
      PROVE  f[s] = next[Max(s)][f[s \ {Max(s)}]]
  <2>1. f[s] = WithTrack(f[s \ {Max(s)}], h[Max(s)])
    BY <1>1, <1>6, <1>9
  <2>2. Max(s) \in 1..n
    BY <1>1, <1>9, GreatestIsMax
  <2> QED
    BY <1>9, <2>1, <2>2
<1> HIDE DEF Q
<1>10. Follows(f, n, FusedSoFar, NothingFused, next)
  BY <1>8, <1>9 DEF Follows
<1>11. PICK r : IsRun(r, n, FusedSoFar, NothingFused, next) /\ r[n] = f[1..n]
  <2> HIDE DEF next, n
  <2>1. n \in Nat
    BY <1>1
  <2>2. NothingFused \in FusedSoFar
    BY <1>3
  <2>3. next \in [1..n -> [FusedSoFar -> FusedSoFar]]
    BY <1>2
  <2>4. Follows(f, n, FusedSoFar, NothingFused, next)
    BY <1>10
  <2>8. FoldsOf(f, n, FusedSoFar, NothingFused, next)
    BY <2>1, <2>2, <2>3, <2>4 DEF FoldsOf
  <2>9. MadeBySteps(f, n, FusedSoFar, NothingFused, next)
    BY <2>8, FoldsAreMade
  <2> QED
    BY <2>9 DEF MadeBySteps
<1>12. \A i \in 1..n : r[i] = WithTrack(r[i - 1], h[i])
  <2> SUFFICES ASSUME NEW i \in 1..n PROVE r[i] = WithTrack(r[i - 1], h[i])
    OBVIOUS
  <2>1. i - 1 \in 0..n
    BY <1>1
  <2>2. r[i - 1] \in FusedSoFar
    BY <1>11, <2>1 DEF IsRun
  <2> QED
    BY <1>11, <2>2 DEF IsRun
<1>13. r \in [0..n -> FusedSoFar] /\ r[0] = NothingFused /\ f[DOMAIN h] = r[n]
  BY <1>1, <1>11 DEF IsRun
<1> HIDE DEF next
<1> QED
  BY <1>7, <1>12, <1>13 DEF h

\* Every track has the object that stands for it in its place; u[i] are the detections that are
\* used by the first i of them.
LEMMA TracksArePlaced ==
    ASSUME FusionAssumption, HeardInv, SeenInv
    PROVE  /\ FusedTracks.objects \in Seq(OfTracks)
           /\ Len(FusedTracks.objects) = Len(UsableTracks)
           /\ \E u : /\ u[Len(UsableTracks)] = FusedTracks.used
                     /\ \A i \in 1..Len(UsableTracks) :
                           Placed(FusedTracks.objects[i], UsableTracks[i], u[i - 1], u[i])
<1> DEFINE h == UsableTracks
           n == Len(h)
<1>1. n \in Nat /\ DOMAIN h = 1..n /\ \A i \in 1..n : h[i] \in Tracks
  BY UsableAre, LenProperties
<1>2. PICK g \in [0..n -> FusedSoFar] :
          /\ g[0] = NothingFused /\ g[n] = FusedTracks
          /\ \A i \in 1..n : g[i] = WithTrack(g[i - 1], h[i])
  BY TracksFold
<1> HIDE DEF h, n
<1> DEFINE u == [i \in 0..n |-> g[i].used]
           Stands(i, k) == Placed(g[i].objects[k], h[k], u[k - 1], u[k])
           P == {i \in 0..n : Len(g[i].objects) = i /\ \A k \in 1..i : Stands(i, k)}
<1>3. \A i \in 0..n : g[i].objects \in Seq(OfTracks) /\ u[i] = g[i].used
  BY <1>2 DEF FusedSoFar
<1> HIDE DEF u
<1>4. 0 \in P
  <2>1. g[0].objects = <<>>
    BY <1>2 DEF NothingFused
  <2>2. 0 \in 0..n /\ 1..0 = {} /\ Len(g[0].objects) = 0
    BY <1>1, <2>1
  <2> HIDE DEF Stands
  <2> QED
    BY <2>2
<1>5. ASSUME NEW i \in 1..n, i - 1 \in P PROVE i \in P
  <2>1. i \in 0..n /\ i - 1 \in 0..n /\ Len(g[i - 1].objects) = i - 1
    BY <1>1, <1>5
  <2>2. PICK o \in OfTracks : /\ g[i].objects = Append(g[i - 1].objects, o)
                              /\ Placed(o, h[i], g[i - 1].used, g[i].used)
    <3>1. g[i - 1] \in FusedSoFar /\ h[i] \in Tracks /\ g[i] = WithTrack(g[i - 1], h[i])
      BY <1>1, <1>2, <2>1
    <3> QED
      BY <3>1, TrackAdds
  <2>3. /\ Len(g[i].objects) = i /\ g[i].objects[i] = o
        /\ \A k \in 1..(i - 1) : g[i].objects[k] = g[i - 1].objects[k]
    BY <1>3, <2>1, <2>2, AppendProperties
  <2>4. Stands(i, i)
    BY <1>3, <2>1, <2>2, <2>3
  <2>5. ASSUME NEW k \in 1..(i - 1) PROVE Stands(i, k)
    <3>1. Stands(i - 1, k)
      <4> HIDE DEF Stands
      <4> QED
        BY <1>5
    <3> QED
      BY <2>3, <3>1
  <2>6. \A k \in 1..i : k = i \/ k \in 1..(i - 1)
    BY <1>1
  <2> HIDE DEF Stands
  <2> QED
    BY <2>1, <2>3, <2>4, <2>5, <2>6
<1>6. n \in P
  <2> HIDE DEF P
  <2>1. \A i \in 0..n : i \in P
    BY <1>1, <1>4, <1>5, StepByStep
  <2> QED
    BY <1>1, <2>1
<1>7. /\ FusedTracks.objects \in Seq(OfTracks) /\ Len(FusedTracks.objects) = n
      /\ u[n] = FusedTracks.used
      /\ \A k \in 1..n : Placed(FusedTracks.objects[k], h[k], u[k - 1], u[k])
  <2>1. n \in 0..n /\ g[n] = FusedTracks
    BY <1>1, <1>2
  <2>2. \A k \in 1..n : Stands(n, k)
    <3> HIDE DEF Stands
    <3> QED
      BY <1>6
  <2> QED
    BY <1>3, <1>6, <2>1, <2>2
<1> QED
  BY <1>7 DEF h, n

\* What stands for a detection that no track is matched with.
LeftOver == {d \in ToSet(UsableDetections) : d.id \notin FusedTracks.used}
OfCameras == {CameraObject(d) : d \in LeftOver}

\* A detection that is left over adds one object, a weak or aside one none.
LEMMA DetectionAdds ==
    ASSUME NEW objects \in Seq(OfCameras), NEW d \in ToSet(UsableDetections)
    PROVE  WithDetection(objects, d) \in Seq(OfCameras)
<1>1. CASE d.id \in FusedTracks.used \/ d.distance = Unknown \/ d.confidence < 72
  BY <1>1 DEF WithDetection
<1>2. CASE ~(d.id \in FusedTracks.used \/ d.distance = Unknown \/ d.confidence < 72)
  <2>1. WithDetection(objects, d) = Append(objects, CameraObject(d))
    BY <1>2 DEF WithDetection
  <2>2. d \in LeftOver
    BY <1>2 DEF LeftOver
  <2>3. CameraObject(d) \in OfCameras
    BY <2>2 DEF OfCameras
  <2> QED
    BY <2>1, <2>3
<1> QED
  BY <1>1, <1>2

\* The detections are taken one after the other.
LEMMA CamerasFold ==
    ASSUME SeenInv
    PROVE  FoldLeft(WithDetection, <<>>, UsableDetections) \in Seq(OfCameras)
<1> DEFINE h == UsableDetections
           n == Len(h)
           St == Seq(OfCameras)
           Q(g) == g = [s \in SUBSET DOMAIN h |->
                          IF s = {} THEN <<>> ELSE WithDetection(g[s \ {Max(s)}], h[Max(s)])]
           next == [i \in 1..n |-> [x \in St |-> WithDetection(x, h[i])]]
<1>1. n \in Nat /\ DOMAIN h = 1..n /\ \A i \in 1..n : h[i] \in ToSet(UsableDetections)
  BY UsableAre, LenProperties DEF ToSet
<1> HIDE DEF h
<1>2. next \in [1..n -> [St -> St]]
  BY <1>1, DetectionAdds
<1>3. <<>> \in St
  OBVIOUS
<1> HIDE DEF St
<1>4. PICK g : IsFold(g, n, St, <<>>, next)
  <2> HIDE DEF next, n
  <2>1. n \in Nat
    BY <1>1
  <2>2. next \in [1..n -> [St -> St]]
    BY <1>2
  <2> QED
    BY <1>3, <2>1, <2>2, FoldExists
<1>5. Q(g)
  <2> SUFFICES ASSUME NEW s \in SUBSET (1..n)
               PROVE  g[s] = IF s = {} THEN <<>> ELSE WithDetection(g[s \ {Max(s)}], h[Max(s)])
    BY <1>1, <1>4 DEF IsFold
  <2>1. CASE s = {}
    BY <1>4, <2>1 DEF IsFold
  <2>2. CASE s # {}
    <3>1. Max(s) \in s
      BY <1>1, <2>2, GreatestIsMax
    <3>2. g[s \ {Max(s)}] \in St
      BY <1>4 DEF IsFold
    <3>3. next[Max(s)][g[s \ {Max(s)}]] = WithDetection(g[s \ {Max(s)}], h[Max(s)])
      BY <3>1, <3>2
    <3> QED
      BY <1>4, <2>2, <3>3 DEF IsFold
  <2> QED
    BY <2>1, <2>2
<1> DEFINE f == CHOOSE x : Q(x)
<1>6. Q(f)
  <2> HIDE DEF Q
  <2> QED
    BY <1>5
<1>7. FoldLeft(WithDetection, <<>>, h) = f[DOMAIN h]
  BY DEF FoldLeft, MapThenFoldSet
<1> HIDE DEF f
<1>8. f[{}] = <<>>
  BY <1>6
<1>9. ASSUME NEW s \in SUBSET (1..n), s # {}, f[s \ {Max(s)}] \in St
      PROVE  f[s] = next[Max(s)][f[s \ {Max(s)}]]
  <2>1. f[s] = WithDetection(f[s \ {Max(s)}], h[Max(s)])
    BY <1>1, <1>6, <1>9
  <2>2. Max(s) \in 1..n
    BY <1>1, <1>9, GreatestIsMax
  <2> QED
    BY <1>9, <2>1, <2>2
<1> HIDE DEF Q
<1>10. Follows(f, n, St, <<>>, next)
  BY <1>8, <1>9 DEF Follows
<1>11. PICK r : IsRun(r, n, St, <<>>, next) /\ r[n] = f[1..n]
  <2> HIDE DEF next, n
  <2>1. n \in Nat
    BY <1>1
  <2>2. next \in [1..n -> [St -> St]]
    BY <1>2
  <2>3. Follows(f, n, St, <<>>, next)
    BY <1>10
  <2>8. FoldsOf(f, n, St, <<>>, next)
    BY <1>3, <2>1, <2>2, <2>3 DEF FoldsOf
  <2>9. MadeBySteps(f, n, St, <<>>, next)
    BY <2>8, FoldsAreMade
  <2> QED
    BY <2>9 DEF MadeBySteps
<1>12. r[n] \in St /\ f[DOMAIN h] = r[n]
  BY <1>1, <1>11 DEF IsRun
<1> QED
  BY <1>7, <1>12 DEF h, St

\* The list of all objects: first those of the tracks, then those of what is left over.
LEMMA AllAre ==
    ASSUME FusionAssumption, HeardInv, SeenInv
    PROVE  /\ IsFiniteSet(DOMAIN AllObjects)
           /\ \A i \in DOMAIN UsableTracks : /\ i \in DOMAIN AllObjects
                                             /\ AllObjects[i] = FusedTracks.objects[i]
           /\ \A i \in DOMAIN AllObjects : i \in DOMAIN UsableTracks \/ AllObjects[i] \in OfCameras
           /\ DOMAIN UsableTracks = 1..Len(UsableTracks) /\ Len(UsableTracks) \in Nat
           /\ DOMAIN AllObjects \subseteq Nat
<1> DEFINE a == FusedTracks.objects
           b == FoldLeft(WithDetection, <<>>, UsableDetections)
           X == OfTracks \cup OfCameras
<1>1. a \in Seq(OfTracks) /\ Len(a) = Len(UsableTracks) /\ Len(a) \in Nat
  BY TracksArePlaced, LenProperties
<1>2. b \in Seq(OfCameras) /\ Len(b) \in Nat
  BY CamerasFold, LenProperties
<1>3. DOMAIN UsableTracks = 1..Len(UsableTracks)
  BY UsableAre, LenProperties
<1>4. AllObjects = a \o b
  BY DEF AllObjects
<1> HIDE DEF a, b
<1>5. a \in Seq(X) /\ b \in Seq(X)
  BY <1>1, <1>2
<1>6. /\ a \o b \in Seq(X) /\ Len(a \o b) = Len(a) + Len(b)
      /\ \A i \in 1..Len(a) + Len(b) : (a \o b)[i] = IF i <= Len(a) THEN a[i] ELSE b[i - Len(a)]
  <2> HIDE DEF X
  <2> QED
    BY <1>5, ConcatProperties
<1>7. DOMAIN AllObjects = 1..(Len(a) + Len(b))
  BY <1>4, <1>6, LenProperties
<1>8. IsFiniteSet(DOMAIN AllObjects) /\ DOMAIN AllObjects \subseteq Nat
  <2>1. Len(a) + Len(b) \in Nat
    BY <1>1, <1>2
  <2>2. \A m \in Nat : IsFiniteSet(1..m) /\ 1..m \subseteq Nat
    <3>1. 1 \in Int /\ \A m \in Nat : m \in Int /\ 1..m \subseteq Nat
      OBVIOUS
    <3> QED
      BY <3>1, FS_Interval
  <2> HIDE DEF X
  <2> QED
    BY <1>7, <2>1, <2>2
<1>9. ASSUME NEW i \in 1..Len(a) PROVE i \in DOMAIN AllObjects /\ AllObjects[i] = a[i]
  <2>1. i <= Len(a) /\ i \in 1..(Len(a) + Len(b))
    BY <1>1, <1>2
  <2> QED
    BY <1>4, <1>6, <1>7, <2>1
<1>10. ASSUME NEW i \in DOMAIN AllObjects, i \notin 1..Len(a) PROVE AllObjects[i] \in OfCameras
  <2>1. i - Len(a) \in 1..Len(b) /\ ~(i <= Len(a)) /\ i \in 1..(Len(a) + Len(b))
    BY <1>1, <1>2, <1>7, <1>10
  <2>2. AllObjects[i] = b[i - Len(a)]
    BY <1>4, <1>6, <2>1
  <2>3. b[i - Len(a)] \in OfCameras
    BY <1>2, <2>1, ElementOfSeq
  <2> QED
    BY <2>2, <2>3
<1> QED
  BY <1>1, <1>3, <1>8, <1>9, <1>10 DEF a

\* What the three kinds of objects say of themselves.
LEMMA ObjectsSay ==
    ASSUME NEW t, NEW d
    PROVE  /\ /\ RadarObject(t).source = "radar-only" /\ RadarObject(t).track = t.id
              /\ RadarObject(t).distance = t.distance /\ RadarObject(t).zone = Zone(t.bearing)
              /\ RadarObject(t).kind = "unknown"
           /\ /\ FusedObject(t, d).source = "radar-camera" /\ FusedObject(t, d).track = t.id
              /\ FusedObject(t, d).detection = d.id /\ FusedObject(t, d).distance = t.distance
              /\ FusedObject(t, d).zone = Zone(t.bearing)
           /\ CameraObject(d).source = "camera-only" /\ CameraObject(d).detection = d.id
BY DEF RadarObject, FusedObject, CameraObject

\* Sets that only grow.
Growing(u, n) == \A i \in 1..n : u[i - 1] \subseteq u[i]

\* Of lists that only grow, what is at a place stays there.
LEMMA UsedStay ==
    ASSUME NEW n \in Nat, NEW u, Growing(u, n)
    PROVE  \A i \in 0..n, j \in 0..n : i <= j => u[i] \subseteq u[j]
<1> SUFFICES ASSUME NEW i \in 0..n PROVE \A j \in 0..n : i <= j => u[i] \subseteq u[j]
  OBVIOUS
<1>1. \A j \in 1..n : u[j - 1] \subseteq u[j]
  BY DEF Growing
<1> DEFINE P == {j \in 0..n : i <= j => u[i] \subseteq u[j]}
<1>2. 0 \in P
  BY Z3
<1>3. ASSUME NEW j \in 1..n, j - 1 \in P PROVE j \in P
  <2>1. u[j - 1] \subseteq u[j]
    BY <1>1
  <2>2. CASE i <= j - 1
    BY <1>3, <2>1, <2>2
  <2>3. CASE ~(i <= j - 1)
    <3>1. i <= j => i = j
      BY <2>3
    <3> QED
      BY <3>1
  <2> QED
    BY <2>2, <2>3
<1>4. \A j \in 0..n : j \in P
  <2> HIDE DEF P
  <2> QED
    BY <1>2, <1>3, StepByStep
<1> QED
  BY <1>4

\* MatchesAreFair, whatever was seen.
LEMMA MatchesAreFairHolds ==
    ASSUME FusionAssumption, HeardInv, SeenInv
    PROVE  MatchesAreFair
<1> DEFINE n == Len(UsableTracks)
           all == AllObjects
           a == FusedTracks.objects
<1>1. /\ n \in Nat /\ DOMAIN UsableTracks = 1..n
      /\ \A i \in DOMAIN UsableTracks : i \in DOMAIN all /\ all[i] = a[i]
      /\ \A i \in DOMAIN all : i \in DOMAIN UsableTracks \/ all[i] \in OfCameras
  BY AllAre
<1>2. PICK u : /\ u[n] = FusedTracks.used
               /\ \A i \in 1..n : Placed(a[i], UsableTracks[i], u[i - 1], u[i])
  BY TracksArePlaced
<1> HIDE DEF n, all, a
<1>3. \A i \in 0..n, j \in 0..n : i <= j => u[i] \subseteq u[j]
  <2>1. n \in Nat
    BY <1>1
  <2>2. Growing(u, n)
    BY <1>2 DEF Growing, Placed
  <2> QED
    BY <2>1, <2>2, UsedStay
<1>4. \A i \in 1..n : /\ u[i] \subseteq FusedTracks.used /\ i - 1 \in 0..n /\ i \in 0..n
                      /\ u[i - 1] \subseteq FusedTracks.used
  <2>1. \A i \in 1..n : i \in 0..n /\ i - 1 \in 0..n /\ n \in 0..n /\ i <= n /\ i - 1 <= n
    BY <1>1
  <2> QED
    BY <1>2, <1>3, <2>1
\* The detection that a matched object stands for is used from there on, and not before.
<1>5. ASSUME NEW i \in 1..n, a[i].source = "radar-camera"
      PROVE  /\ a[i].detection \notin u[i - 1] /\ a[i].detection \in u[i]
             /\ \E d \in ToSet(UsableDetections) :
                   a[i].detection = d.id /\ Compatible(UsableTracks[i], d)
             /\ a[i].track = UsableTracks[i].id
  <2>1. a[i] # RadarObject(UsableTracks[i])
    BY <1>5, ObjectsSay
  <2>2. PICK d \in ToSet(UsableDetections) :
            /\ a[i] = FusedObject(UsableTracks[i], d) /\ Compatible(UsableTracks[i], d)
            /\ d.id \notin u[i - 1] /\ u[i] = u[i - 1] \cup {d.id}
    BY <1>2, <2>1 DEF Placed
  <2>3. a[i].detection = d.id /\ a[i].track = UsableTracks[i].id
    BY <2>2, ObjectsSay
  <2> QED
    BY <2>2, <2>3
<1>6. ASSUME NEW i \in 1..n, a[i].source # "radar-camera"
      PROVE  /\ a[i].source = "radar-only" /\ a[i].track = UsableTracks[i].id
             /\ \A d \in ToSet(UsableDetections) :
                   d.id \notin FusedTracks.used => ~Compatible(UsableTracks[i], d)
  <2>1. a[i] = RadarObject(UsableTracks[i]) /\ Candidates(UsableTracks[i], u[i - 1]) = {}
    BY <1>2, <1>6, ObjectsSay, SMTT(30) DEF Placed
  <2>2. ASSUME NEW d \in ToSet(UsableDetections), d.id \notin FusedTracks.used
        PROVE  ~Compatible(UsableTracks[i], d)
    <3>1. PICK k \in DOMAIN UsableDetections : d = UsableDetections[k]
      BY DEF ToSet
    <3>2. d.id \notin u[i - 1]
      BY <1>4, <2>2
    <3> QED
      BY <2>1, <3>1, <3>2 DEF Candidates
  <2>3. /\ RadarObject(UsableTracks[i]).source = "radar-only"
        /\ RadarObject(UsableTracks[i]).track = UsableTracks[i].id
    BY ObjectsSay
  <2> QED
    BY <2>1, <2>2, <2>3
<1>7. ASSUME NEW o \in OfCameras
      PROVE  o.source = "camera-only" /\ o.detection \notin FusedTracks.used
  <2>1. PICK d \in LeftOver : o = CameraObject(d)
    BY DEF OfCameras
  <2> QED
    BY <2>1, ObjectsSay DEF LeftOver
\* Two objects of the same detection are one, the first in the list say.
<1>8. ASSUME NEW i \in 1..n, NEW j \in 1..n, a[i].source = "radar-camera",
             a[j].source = "radar-camera", i < j
      PROVE  a[i].detection # a[j].detection
  <2>1. i \in 0..n /\ j - 1 \in 0..n /\ i <= j - 1
    BY <1>1, <1>8
  <2>2. u[i] \subseteq u[j - 1]
    BY <1>3, <2>1
  <2> QED
    BY <1>5, <1>8, <2>2
<1>9. ASSUME NEW i \in DOMAIN all, NEW j \in DOMAIN all, all[i].source = "radar-camera",
             all[j].source # "radar-only", all[i].detection = all[j].detection
      PROVE  i = j
  <2>1. i \in 1..n /\ all[i] = a[i]
    BY <1>1, <1>7, <1>9
  <2>2. all[i].detection \in FusedTracks.used
    BY <1>4, <1>5, <1>9, <2>1
  <2>3. j \in 1..n /\ all[j] = a[j]
    BY <1>1, <1>7, <1>9, <2>2
  <2>4. a[j].source = "radar-camera"
    BY <1>6, <1>9, <2>3
  <2>5. ~(i < j) /\ ~(j < i)
    BY <1>8, <1>9, <2>1, <2>3, <2>4
  <2> QED
    BY <1>1, <2>1, <2>3, <2>5
<1>10. ASSUME NEW i \in DOMAIN UsableTracks
       PROVE  LET o == all[i]  t == UsableTracks[i]
              IN  /\ o.track = t.id /\ o.source \in {"radar-camera", "radar-only"}
                  /\ o.source = "radar-camera" =>
                        \E d \in ToSet(UsableDetections) : o.detection = d.id /\ Compatible(t, d)
                  /\ o.source = "radar-only" => \A d \in ToSet(UsableDetections) :
                        d.id \notin FusedTracks.used => ~Compatible(t, d)
  BY <1>1, <1>5, <1>6
<1> QED
  BY <1>9, <1>10 DEF MatchesAreFair, all

\* What an object of a track rests on, and how sure and how severe it is.
LEMMA TracksSay ==
    ASSUME FusionAssumption, HeardInv, SeenInv, NEW i \in DOMAIN UsableTracks
    PROVE  /\ \/ AllObjects[i] = RadarObject(UsableTracks[i])
              \/ \E d \in ToSet(UsableDetections) : AllObjects[i] = FusedObject(UsableTracks[i], d)
           /\ AllObjects[i].track = UsableTracks[i].id
           /\ AllObjects[i].distance = UsableTracks[i].distance
           /\ AllObjects[i].zone = Zone(UsableTracks[i].bearing)
           /\ AllObjects[i].source \in {"radar-camera", "radar-only"}
<1>1. /\ DOMAIN UsableTracks = 1..Len(UsableTracks)
      /\ AllObjects[i] = FusedTracks.objects[i]
  BY AllAre
<1>2. PICK u : Placed(FusedTracks.objects[i], UsableTracks[i], u[i - 1], u[i])
  BY <1>1, TracksArePlaced
<1>3. \/ AllObjects[i] = RadarObject(UsableTracks[i])
      \/ \E d \in ToSet(UsableDetections) : AllObjects[i] = FusedObject(UsableTracks[i], d)
  BY <1>1, <1>2 DEF Placed
<1> DEFINE o == AllObjects[i]
           t == UsableTracks[i]
           Says == /\ o.track = t.id /\ o.distance = t.distance /\ o.zone = Zone(t.bearing)
                   /\ o.source \in {"radar-camera", "radar-only"}
<1>4. ASSUME o = RadarObject(t) PROVE Says
  <2> HIDE DEF t
  <2> QED
    BY <1>4, ObjectsSay
<1>5. ASSUME NEW d \in ToSet(UsableDetections), o = FusedObject(t, d) PROVE Says
  <2> HIDE DEF t
  <2> QED
    BY <1>5, ObjectsSay
<1> QED
  BY <1>3, <1>4, <1>5

\* How far away an object is, is a number.
LEMMA DistancesAreNumbers ==
    ASSUME FusionAssumption, HeardInv, SeenInv, NEW i \in DOMAIN AllObjects
    PROVE  AllObjects[i].distance \in Int
<1>1. \A o \in Tracks \cup Detections : o.distance \in Int
  BY DEF FusionAssumption
<1>2. CASE i \in DOMAIN UsableTracks
  <2>1. AllObjects[i].distance = UsableTracks[i].distance /\ UsableTracks[i] \in Tracks
    BY <1>2, TracksSay, UsableAre
  <2> QED
    BY <1>1, <2>1
<1>3. CASE i \notin DOMAIN UsableTracks
  <2>1. AllObjects[i] \in OfCameras
    BY <1>3, AllAre
  <2>2. PICK d \in ToSet(UsableDetections) : AllObjects[i] = CameraObject(d)
    BY <2>1 DEF OfCameras, LeftOver
  <2>3. d \in Detections
    BY UsableAre
  <2>4. CameraObject(d).distance = d.distance
    BY DEF CameraObject
  <2> QED
    BY <1>1, <2>2, <2>3, <2>4
<1> QED
  BY <1>2, <1>3

\* An alert is about the object it is made of.
LEMMA AlertIsOf ==
    ASSUME NEW o
    PROVE  AlertOf(o).of = o
<1>1. \A type, severity : Alert(type, severity, o).of = o
  BY DEF Alert
<1> QED
  BY <1>1 DEF AlertOf

\* WarningsAreBacked, whatever was seen.
LEMMA WarningsAreBackedHolds ==
    ASSUME FusionAssumption, HeardInv, SeenInv
    PROVE  WarningsAreBacked
<1> SUFFICES ASSUME NEW a \in ObjectAlerts
             PROVE  /\ \E t \in ToSet(latestRadar.seen) :
                          /\ t.id = a.of.track /\ t.distance = a.of.distance
                          /\ Stamp(latestRadar, t) <= RadarMaxAge
                    /\ heard["radar"].age <= RadarMaxAge + heard["radar"].ahead
  BY DEF WarningsAreBacked
<1>1. PICK o \in FusedObjects : Warrants(o) /\ a = AlertOf(o)
  BY DEF ObjectAlerts
<1>2. a.of = o /\ o.source # "camera-only"
  BY <1>1, AlertIsOf DEF Warrants
<1>3. PICK i \in DOMAIN AllObjects : o = AllObjects[i]
  BY <1>1 DEF FusedObjects
<1>4. i \in DOMAIN UsableTracks
  <2>1. ASSUME AllObjects[i] \in OfCameras PROVE FALSE
    <3>1. \A d : CameraObject(d).source = "camera-only"
      BY ObjectsSay
    <3> QED
      BY <1>2, <1>3, <2>1, <3>1 DEF OfCameras
  <2> QED
    BY <2>1, AllAre
<1> DEFINE t == UsableTracks[i]
<1>5. t.id = o.track /\ t.distance = o.distance
  BY <1>3, <1>4, TracksSay
<1>6. /\ ObservedWithin(latestRadar.age, RadarMaxAge)
      /\ \E k \in DOMAIN latestRadar.seen :
            t = latestRadar.seen[k] /\ ObservedWithin(Stamp(latestRadar, latestRadar.seen[k]), RadarMaxAge)
  BY <1>4, UsableIs DEF UsableTracks, SeenInv
<1> HIDE DEF t
<1>7. t \in ToSet(latestRadar.seen) /\ Stamp(latestRadar, t) <= RadarMaxAge
  BY <1>6 DEF ToSet, ObservedWithin
<1>8. heard["radar"].age <= RadarMaxAge + heard["radar"].ahead
  <2>1. /\ RadarMaxAge \in Nat /\ StaleAfter["radar"] \in Nat /\ RadarMaxAge <= StaleAfter["radar"]
    BY DEF FusionAssumption, Sensors
  <2>2. /\ latestRadar.age \in Int /\ heard["radar"].age \in Nat /\ heard["radar"].ahead \in Nat
        /\ latestRadar.age <= StaleAfter["radar"]
              => heard["radar"].age <= latestRadar.age + heard["radar"].ahead
    <3>1. "radar" \in Sensors /\ SentAges["radar"] = latestRadar.age
      BY DEF Sensors, SentAges
    <3> QED
      BY <3>1 DEF HeardInv
  <2>3. latestRadar.age \in 0..RadarMaxAge
    BY <1>6 DEF ObservedWithin
  <2> QED
    BY <2>1, <2>2, <2>3
<1> QED
  BY <1>2, <1>5, <1>7, <1>8

\* What is close enough is warned of, if it is taken for sure.
LEMMA CloseIsCritical ==
    ASSUME NEW o, o.distance \in Int, o.distance <= 8,
           o.severity = SeverityFor(o.kind, o.distance, TRUE)
    PROVE  /\ AlertOf(o).type # "none"
           /\ o.distance <= 7 => AlertOf(o).severity = "critical"
<1> DEFINE n == o.distance
<1>1. n \in Int /\ n <= 8 /\ n <= 22 /\ n <= 10 /\ n <= 16 /\ n <= 12 /\ n <= 9
  OBVIOUS
<1>2. \A type, severity : /\ Alert(type, severity, o).type = type
                          /\ Alert(type, severity, o).severity = severity
  BY DEF Alert
<1>3. /\ o.kind \in Vulnerable /\ n <= 7 => o.severity = "critical"
      /\ o.kind \notin Vulnerable => o.severity = "critical"
  BY <1>1 DEF SeverityFor
<1>4. CASE o.kind = "person" /\ o.zone \in AheadZones
  <2>1. AlertOf(o) = Alert("pedestrian", "critical", o)
    BY <1>1, <1>4 DEF AlertOf
  <2> QED
    BY <1>2, <2>1
<1>5. CASE ~(o.kind = "person" /\ o.zone \in AheadZones)
  <2>1. CASE o.kind \in VehicleKinds /\ o.zone \in AheadZones
    <3>1. AlertOf(o) = Alert("vehicle", "critical", o)
      BY <1>1, <1>5, <2>1 DEF AlertOf
    <3> QED
      BY <1>2, <3>1
  <2>2. CASE ~(o.kind \in VehicleKinds /\ o.zone \in AheadZones) /\ o.kind \in Vulnerable
    <3> DEFINE grade == IF n <= 6 \/ o.severity = "critical" THEN "critical" ELSE "caution"
    <3>1. AlertOf(o) = Alert("road-user", grade, o)
      BY <1>1, <1>5, <2>2 DEF AlertOf
    <3>2. n <= 7 => grade = "critical"
      BY <1>3, <2>2
    <3> HIDE DEF grade
    <3> QED
      BY <1>2, <3>1, <3>2
  <2>3. CASE ~(o.kind \in VehicleKinds /\ o.zone \in AheadZones) /\ o.kind \notin Vulnerable
    <3>1. AlertOf(o) = Alert("danger-zone", "critical", o)
      BY <1>1, <1>3, <1>5, <2>3 DEF AlertOf
    <3> QED
      BY <1>2, <3>1
  <2> QED
    BY <2>1, <2>2, <2>3
<1> QED
  BY <1>4, <1>5

\* NearTracksWarn, whatever was seen.
LEMMA NearTracksWarnHolds ==
    ASSUME FusionAssumption, HeardInv, SeenInv
    PROVE  NearTracksWarn
<1> SUFFICES ASSUME NEW i \in DOMAIN UsableTracks, SureAlone(UsableTracks[i]),
                    UsableTracks[i].distance <= 8,
                    Zone(UsableTracks[i].bearing) \notin {"left", "right"},
                    ~(AllObjects[i].source = "radar-camera" /\ ~AllObjects[i].sure),
                    ~(Cardinality({j \in DOMAIN AllObjects \ {i} :
                          AllObjects[j].distance <= UsableTracks[i].distance}) >= MaxObjects)
             PROVE  \E a \in ObjectAlerts : /\ a.of = AllObjects[i]
                                            /\ UsableTracks[i].distance <= 7 => a.severity = "critical"
  BY DEF NearTracksWarn
<1> DEFINE t == UsableTracks[i]
           all == AllObjects
           o == all[i]
           Before(j) == \/ all[j].distance < all[i].distance
                        \/ all[j].distance = all[i].distance /\ j < i
           near == {j \in DOMAIN all \ {i} : all[j].distance <= t.distance}
           nearer == {j \in DOMAIN all : Before(j)}
<1>1. /\ i \in DOMAIN all /\ IsFiniteSet(DOMAIN all) /\ DOMAIN all \subseteq Nat
      /\ \A j \in DOMAIN all : all[j].distance \in Int
  BY AllAre, DistancesAreNumbers
<1>2. /\ \/ o = RadarObject(t)
         \/ \E d \in ToSet(UsableDetections) : o = FusedObject(t, d)
      /\ o.distance = t.distance /\ o.zone = Zone(t.bearing)
      /\ o.source \in {"radar-camera", "radar-only"}
  BY TracksSay
<1>3. o \in FusedObjects
  <2>1. nearer \subseteq near /\ IsFiniteSet(near)
    <3>1. near \subseteq DOMAIN all
      OBVIOUS
    <3>2. IsFiniteSet(near)
      <4> HIDE DEF near, all
      <4> QED
        BY <1>1, <3>1, FS_Subset
    <3>3. ASSUME NEW j \in nearer PROVE j \in near
      <4>1. j \in DOMAIN all /\ Before(j)
        OBVIOUS
      <4>2. j \in Nat /\ i \in Nat /\ all[j].distance \in Int /\ all[i].distance \in Int
            /\ all[i].distance = t.distance
        BY <1>1, <1>2, <4>1
      <4>3. j # i /\ all[j].distance <= t.distance
        <5> HIDE DEF all, t
        <5> QED
          BY <4>1, <4>2
      <4> QED
        BY <4>1, <4>3
    <3> QED
      BY <3>2, <3>3
  <2>2. Cardinality(nearer) <= Cardinality(near) /\ Cardinality(nearer) \in Nat /\ Cardinality(near) \in Nat
    <3> HIDE DEF near, nearer
    <3> QED
      BY <2>1, FS_Subset, FS_CardinalityType
  <2>3. ~(Cardinality(near) >= MaxObjects) /\ MaxObjects \in Nat
    BY DEF FusionAssumption
  <2>4. Cardinality(nearer) < MaxObjects
    <3> HIDE DEF near, nearer
    <3> QED
      BY <2>2, <2>3
  <2> QED
    BY <1>1, <2>4 DEF FusedObjects
<1>4. o.sure
  <2>1. CASE o = RadarObject(t)
    <3>1. RadarObject(t).sure = SureAlone(t)
      BY Zenon DEF RadarObject
    <3>2. SureAlone(t)
      OBVIOUS
    <3> QED
      BY <2>1, <3>1, <3>2, Zenon
  <2>2. CASE \E d \in ToSet(UsableDetections) : o = FusedObject(t, d)
    <3>1. o.source = "radar-camera"
      BY <2>2, ObjectsSay
    <3> QED
      BY <3>1
  <2> QED
    BY <1>2, <2>1, <2>2
<1>5. o.severity = SeverityFor(o.kind, o.distance, TRUE)
  <2>1. CASE o = RadarObject(t)
    <3>1. /\ RadarObject(t).kind = "unknown" /\ RadarObject(t).distance = t.distance
          /\ RadarObject(t).severity = SeverityFor("unknown", t.distance, SureAlone(t))
      BY Zenon DEF RadarObject
    <3>2. SureAlone(t) = TRUE
      <4>1. SureAlone(t) \in BOOLEAN
        BY SMT DEF SureAlone
      <4> QED
        BY <4>1
    <3> QED
      BY <2>1, <3>1, <3>2, Zenon
  <2>2. ASSUME NEW d \in ToSet(UsableDetections), o = FusedObject(t, d)
        PROVE  o.severity = SeverityFor(o.kind, o.distance, TRUE)
    <3>1. /\ o.kind = d.kind /\ o.distance = t.distance /\ o.sure = SureTogether(t, d)
          /\ o.severity = SeverityFor(d.kind, t.distance, SureTogether(t, d))
      <4>1. /\ FusedObject(t, d).kind = d.kind /\ FusedObject(t, d).distance = t.distance
            /\ FusedObject(t, d).sure = SureTogether(t, d)
            /\ FusedObject(t, d).severity = SeverityFor(d.kind, t.distance, SureTogether(t, d))
        <5> HIDE DEF t
        <5> QED
          BY Zenon DEF FusedObject
      <4> HIDE DEF o, t
      <4> QED
        BY <2>2, <4>1, Zenon
    <3>2. SureTogether(t, d) = TRUE
      <4>1. SureTogether(t, d) \in BOOLEAN
        BY SMT DEF SureTogether
      <4> QED
        BY <1>4, <3>1, <4>1, Zenon
    <3> QED
      BY <3>1, <3>2, Zenon
  <2> QED
    BY <1>2, <2>1, <2>2
<1>6. o.distance \in Int /\ o.distance <= 8
  BY <1>1, <1>2
<1> HIDE DEF o
<1>7. AlertOf(o).type # "none" /\ (o.distance <= 7 => AlertOf(o).severity = "critical")
  BY <1>5, <1>6, CloseIsCritical
<1>8. Warrants(o)
  <2>1. o.source # "camera-only" /\ o.zone \notin {"left", "right"}
    BY <1>2
  <2> QED
    BY <1>4, <2>1 DEF Warrants
<1>9. AlertOf(o) \in ObjectAlerts
  BY <1>3, <1>7, <1>8 DEF ObjectAlerts
<1>10. AlertOf(o).of = o /\ o = AllObjects[i] /\ o.distance = t.distance
  BY <1>2, AlertIsOf DEF o
<1> QED
  BY <1>7, <1>9, <1>10

\* FusionIsSound, whatever was seen.
LEMMA FusionIsSoundHolds ==
    ASSUME FusionAssumption, HeardInv, SeenInv
    PROVE  FusionIsSound
BY MatchesAreFairHolds, WarningsAreBackedHolds, NearTracksWarnHolds DEF FusionIsSound

-----------------------------------------------------------------------------
(* DriverAssist: lists with the newest last *)

\* Places with every place behind them.
ToTheEnd(I, n) == I \subseteq 1..n /\ \A i \in I, j \in 1..n : i < j => j \in I

\* The list without its first c elements.
EndOf(list, I, c, kept) ==
    /\ \A i \in 1..Len(list) : i \in I <=> i > c
    /\ Len(kept) = Len(list) - c
    /\ \A m \in 1..(Len(list) - c) : kept[m] = list[c + m]

\* What is kept of the end of a list is that end.
LEMMA KeptIsTheEnd ==
    ASSUME NEW X, NEW list \in Seq(X), NEW I, ToTheEnd(I, Len(list))
    PROVE  /\ Kept(list, I) \in Seq(X)
           /\ \E c \in 0..Len(list) : EndOf(list, I, c, Kept(list, I))
<1> DEFINE n == Len(list)
           kept == Kept(list, I)
<1>1. n \in Nat /\ DOMAIN list = 1..n /\ I \in SUBSET DOMAIN list /\ I \in SUBSET (1..n)
  BY LenProperties DEF ToTheEnd
<1>2. /\ Cardinality(I) \in Nat /\ kept \in Seq(X) /\ Len(kept) = Cardinality(I)
      /\ \E p : Upwards(p, Cardinality(I), I) /\ \A k \in 1..Cardinality(I) : kept[k] = list[p[k]]
  <2>1. I \in SUBSET DOMAIN list
    BY <1>1
  <2> QED
    BY <2>1, KeptIs
<1>3. \A i \in I, j \in 1..n : i < j => j \in I
  BY DEF ToTheEnd
<1> HIDE DEF n, kept
<1>4. PICK c \in 0..n : I = (c + 1)..n
  <2>1. CASE I = {}
    <3>1. I = (n + 1)..n /\ n \in 0..n
      BY <1>1, <2>1
    <3> QED
      BY <3>1
  <2>2. CASE I # {}
    <3>1. I \in SUBSET Nat
      BY <1>1
    <3>2. PICK b \in I : \A i \in I : b <= i
      BY <2>2, <3>1, LeastExists
    <3>3. b \in 1..n /\ b - 1 \in 0..n
      BY <1>1
    <3>4. \A i \in 1..n : i \in I <=> i >= b
      <4>1. ASSUME NEW i \in 1..n, i \in I PROVE i >= b
        BY <3>2, <3>3, <4>1
      <4>2. ASSUME NEW i \in 1..n, i >= b PROVE i \in I
        <5>1. CASE i = b
          BY <5>1
        <5>2. CASE i # b
          <6>1. b < i
            BY <3>3, <4>2, <5>2
          <6> QED
            BY <1>3, <6>1
        <5> QED
          BY <5>1, <5>2
      <4> QED
        BY <4>1, <4>2
    <3>5. I = ((b - 1) + 1)..n
      <4>1. \A i \in I : i \in 1..n
        BY <1>1
      <4>2. \A i \in b..n : i \in 1..n
        BY <1>1, <3>3
      <4>3. \A i \in 1..n : i \in b..n <=> i >= b
        BY <1>1, <3>3
      <4>4. I = b..n
        BY <3>4, <4>1, <4>2, <4>3
      <4>5. (b - 1) + 1 = b
        BY <3>3
      <4> QED
        BY <4>4, <4>5
    <3> QED
      BY <3>3, <3>5
  <2> QED
    BY <2>1, <2>2
<1> DEFINE N == n - c
<1>5. N \in Nat /\ c \in Nat /\ \A m \in 1..N : c + m \in I
  BY <1>1, <1>4
<1>6. Cardinality(I) = N
  <2>1. c + 1 \in Int /\ n \in Int
    BY <1>1
  <2>2. Cardinality((c + 1)..n) = IF c + 1 > n THEN 0 ELSE n - (c + 1) + 1
    BY <2>1, FS_Interval
  <2> QED
    BY <1>1, <1>4, <2>2
<1>7. PICK p : Upwards(p, N, I) /\ \A k \in 1..N : kept[k] = list[p[k]]
  BY <1>2, <1>6
<1>8. /\ \A k \in 1..N : p[k] \in I /\ p[k] \in Int /\ p[k] >= c + 1
      /\ \A i \in I : \E k \in 1..N : p[k] = i
      /\ \A k, l \in 1..N : k < l <=> p[k] < p[l]
  <2>1. p \in [1..N -> I]
    BY <1>7 DEF Upwards
  <2>2. \A i \in I : i \in Int /\ i >= c + 1
    BY <1>1, <1>4
  <2>3. \A k \in 1..N : p[k] \in I
    BY <2>1
  <2>4. /\ \A i \in I : \E k \in 1..N : p[k] = i
        /\ \A k, l \in 1..N : k < l <=> p[k] < p[l]
    BY <1>7 DEF Upwards
  <2> QED
    BY <2>2, <2>3, <2>4
<1> HIDE DEF N
<1> DEFINE P == {m \in 0..N : m = 0 \/ p[m] = c + m}
<1>9. 0 \in P
  BY <1>5
<1>10. ASSUME NEW m \in 1..N, m - 1 \in P PROVE m \in P
  <2>1. m \in 1..N /\ c + m \in I
    BY <1>5
  <2>2. PICK k \in 1..N : p[k] = c + m
    BY <1>8, <2>1
  <2>3. CASE k = m
    BY <1>5, <2>2, <2>3
  <2>4. CASE k > m
    <3>1. p[m] < c + m /\ p[m] \in Int /\ p[m] >= c + 1
      BY <1>8, <2>2, <2>4
    <3>2. m - 1 \in 1..N /\ m - 1 # 0
      BY <1>5, <3>1
    <3>3. p[m - 1] = c + (m - 1)
      BY <1>10, <3>2
    <3>4. p[m - 1] < p[m]
      BY <1>5, <1>8, <3>2
    <3> QED
      BY <1>5, <3>1, <3>3, <3>4
  <2>5. CASE k < m
    <3>1. m - 1 \in 1..N /\ m - 1 # 0 /\ k <= m - 1
      BY <1>5, <2>5
    <3>2. p[m - 1] = c + (m - 1)
      BY <1>10, <3>1
    <3>3. ~(m - 1 < k)
      BY <1>5, <3>1
    <3>4. ~(p[m - 1] < p[k])
      BY <1>8, <3>1, <3>3
    <3> QED
      BY <1>5, <2>2, <3>2, <3>4
  <2> QED
    BY <1>5, <2>3, <2>4, <2>5
<1>11. \A m \in 1..N : p[m] = c + m
  <2>1. \A m \in 0..N : m \in P
    <3> HIDE DEF P
    <3> QED
      BY <1>5, <1>9, <1>10, StepByStep
  <2> QED
    BY <2>1
<1>12. \A m \in 1..N : kept[m] = list[c + m]
  BY <1>7, <1>11
<1>13. \A i \in 1..n : i \in I <=> i > c
  BY <1>1, <1>4
<1> QED
  BY <1>2, <1>6, <1>12, <1>13 DEF N, n, kept, EndOf

\* Ages beyond everything that is told from something else.
LEMMA AssistOldIs ==
    ASSUME AssistAssumption
    PROVE  /\ AssistOld \in Nat
           /\ AssistOld > DmsWindow + StaleAge /\ AssistOld > DmsWindow + MaxLate
           /\ AssistOld > ConfirmWindow + MaxLate /\ AssistOld > ConfirmWindow + StaleAge
           /\ AssistOld > SignHistory
<1> DEFINE S == {DmsWindow + StaleAge, DmsWindow + MaxLate, ConfirmWindow + MaxLate,
                 ConfirmWindow + StaleAge, SignHistory}
<1>1. /\ DmsWindow \in Nat /\ StaleAge \in Nat /\ MaxLate \in Nat /\ ConfirmWindow \in Nat
      /\ SignHistory \in Nat
  BY DEF AssistAssumption
<1> DEFINE a == DmsWindow + StaleAge
           b == DmsWindow + MaxLate
           d == ConfirmWindow + MaxLate
           e == ConfirmWindow + StaleAge
           g == SignHistory
<1>2. a \in Nat /\ b \in Nat /\ d \in Nat /\ e \in Nat /\ g \in Nat /\ S = {a, b, d, e, g}
  BY <1>1
<1> HIDE DEF a, b, d, e, g, S
<1>3. \E x \in S : \A y \in S : x >= y
  <2>1. CASE a >= b /\ a >= d /\ a >= e /\ a >= g
    BY <1>2, <2>1
  <2>2. CASE b >= a /\ b >= d /\ b >= e /\ b >= g
    BY <1>2, <2>2
  <2>3. CASE d >= b /\ d >= a /\ d >= e /\ d >= g
    BY <1>2, <2>3
  <2>4. CASE e >= b /\ e >= d /\ e >= a /\ e >= g
    BY <1>2, <2>4
  <2>5. CASE g >= b /\ g >= d /\ g >= e /\ g >= a
    BY <1>2, <2>5
  <2> QED
    BY <1>2, <2>1, <2>2, <2>3, <2>4, <2>5
<1>4. Max(S) \in S /\ \A y \in S : Max(S) >= y
  BY <1>3 DEF Max
<1>5. AssistOld = Max(S) + 1
  BY DEF AssistOld, S
<1>6. Max(S) \in Nat /\ Max(S) >= a /\ Max(S) >= b /\ Max(S) >= d /\ Max(S) >= e /\ Max(S) >= g
  BY <1>2, <1>4
<1> HIDE DEF S
<1> QED
  BY <1>2, <1>5, <1>6 DEF a, b, d, e, g

\* Lists of what has an age, each but the very old older than what comes after it.
Falling(list) ==
    /\ \A i \in DOMAIN list : list[i].age \in 0..AssistOld
    /\ \A i, j \in DOMAIN list : i < j => list[i].age > list[j].age \/ list[i].age = AssistOld

\* The places of what is within a window when something so late comes.
Within(list, late, window) == {i \in DOMAIN list : list[i].age - late <= window}

\* A list without its first c elements, which are out of the window, and x behind the rest.
Windowed(list, late, window, x, new, c) ==
    /\ \A i \in 1..Len(list) : list[i].age - late <= window <=> i > c
    /\ Len(new) = Len(list) - c + 1 /\ new[Len(new)] = x
    /\ \A m \in 1..(Len(list) - c) : new[m] = list[c + m]
    /\ \A m \in 1..Len(new) : new[m].age - late \in 0..window

\* What is within a window when something newer comes is the end of the list, and with the
\* newer one at its end it falls again.
LEMMA WindowKeepsTheEnd ==
    ASSUME AssistAssumption, NEW X, NEW list \in Seq(X), Falling(list), NEW late \in 0..MaxLate,
           NEW window \in Nat, window + MaxLate < AssistOld, NEW x \in X, x.age = late,
           list # <<>> => late < list[Len(list)].age
    PROVE  LET new == Append(Kept(list, Within(list, late, window)), x)
           IN  /\ new \in Seq(X) /\ Falling(new)
               /\ \E c \in 0..Len(list) : Windowed(list, late, window, x, new, c)
<1> DEFINE n == Len(list)
           I == Within(list, late, window)
           new == Append(Kept(list, I), x)
<1>1. /\ n \in Nat /\ DOMAIN list = 1..n /\ AssistOld \in Nat /\ MaxLate \in Nat
      /\ \A i \in 1..n : list[i] \in X /\ list[i].age \in 0..AssistOld
      /\ \A i, j \in 1..n : i < j => list[i].age > list[j].age \/ list[i].age = AssistOld
      /\ late \in Nat /\ late <= MaxLate /\ late < AssistOld
  <2>1. n \in Nat /\ DOMAIN list = 1..n /\ \A i \in 1..n : list[i] \in X
    BY LenProperties, ElementOfSeq
  <2>2. AssistOld \in Nat /\ MaxLate \in Nat
    BY AssistOldIs DEF AssistAssumption
  <2>3. /\ \A i \in 1..n : list[i].age \in 0..AssistOld
        /\ \A i, j \in 1..n : i < j => list[i].age > list[j].age \/ list[i].age = AssistOld
    BY <2>1 DEF Falling
  <2>4. late \in Nat /\ late <= MaxLate /\ late < AssistOld
    BY <2>2
  <2> QED
    BY <2>1, <2>2, <2>3, <2>4
<1> HIDE DEF n
<1>2. \A i \in 1..n : list[i].age > late
  <2> SUFFICES ASSUME NEW i \in 1..n PROVE list[i].age > late
    OBVIOUS
  <2>1. n \in 1..n /\ list # <<>> /\ late < list[n].age
    BY <1>1 DEF n
  <2>2. CASE i = n
    BY <2>1, <2>2
  <2>3. CASE i < n
    <3>1. list[i].age > list[n].age \/ list[i].age = AssistOld
      BY <1>1, <2>1, <2>3
    <3>2. list[i].age \in Int /\ list[n].age \in Int /\ AssistOld \in Int /\ late \in Int
      BY <1>1, <2>1
    <3>3. late < AssistOld
      BY <1>1
    <3> QED
      BY <2>1, <3>1, <3>2, <3>3
  <2> QED
    BY <1>1, <2>2, <2>3
<1>3. ToTheEnd(I, n)
  <2>1. I = {i \in 1..n : list[i].age - late <= window}
    BY <1>1 DEF Within
  <2>2. ASSUME NEW i \in I, NEW j \in 1..n, i < j PROVE j \in I
    <3>1. i \in 1..n /\ list[i].age - late <= window /\ list[i].age \in Int /\ list[j].age \in Int
      <4>1. i \in 1..n /\ list[i].age - late <= window
        BY <2>1
      <4> QED
        BY <1>1, <4>1
    <3>2. list[i].age # AssistOld
      BY <1>1, <3>1
    <3>3. list[i].age > list[j].age
      BY <1>1, <2>2, <3>1, <3>2
    <3>4. list[j].age - late <= window
      BY <1>1, <3>1, <3>3
    <3> QED
      BY <2>1, <3>4
  <2> HIDE DEF I
  <2> QED
    BY <2>1, <2>2 DEF ToTheEnd
<1>4. \A i \in 1..n : i \in I <=> list[i].age - late <= window
  BY <1>1 DEF Within
<1> HIDE DEF I
<1>5. PICK c \in 0..n :
         /\ \A i \in 1..n : i \in I <=> i > c
         /\ Kept(list, I) \in Seq(X) /\ Len(Kept(list, I)) = n - c
         /\ \A m \in 1..(n - c) : Kept(list, I)[m] = list[c + m]
  <2>1. ToTheEnd(I, Len(list))
    BY <1>3 DEF n
  <2>2. Kept(list, I) \in Seq(X) /\ \E c \in 0..Len(list) : EndOf(list, I, c, Kept(list, I))
    BY <2>1, KeptIsTheEnd
  <2> QED
    BY <2>2 DEF n, EndOf
<1>6. /\ new \in Seq(X) /\ Len(new) = n - c + 1 /\ new[Len(new)] = x
      /\ \A m \in 1..(n - c) : new[m] = list[c + m]
  <2> DEFINE kept == Kept(list, I)
  <2>1. /\ kept \in Seq(X) /\ Len(kept) = n - c
        /\ \A m \in 1..(n - c) : kept[m] = list[c + m]
    BY <1>5
  <2>2. new = Append(kept, x)
    OBVIOUS
  <2> HIDE DEF kept, new
  <2>3. /\ new \in Seq(X) /\ Len(new) = Len(kept) + 1 /\ new[Len(kept) + 1] = x
        /\ \A m \in 1..Len(kept) : new[m] = kept[m]
    BY <2>1, <2>2, AppendProperties
  <2> QED
    BY <2>1, <2>3
<1> HIDE DEF new
<1>7. /\ n - c \in Nat /\ DOMAIN new = 1..Len(new) /\ new[n - c + 1] = x
      /\ \A m \in 1..Len(new) : m = n - c + 1 \/ m \in 1..(n - c)
  <2>1. n - c \in Nat
    BY <1>1
  <2>2. DOMAIN new = 1..Len(new)
    BY <1>6, LenProperties
  <2>3. new[n - c + 1] = x /\ Len(new) = n - c + 1
    BY <1>6
  <2>4. \A m \in 1..(n - c + 1) : m = n - c + 1 \/ m \in 1..(n - c)
    BY <2>1
  <2> QED
    BY <2>1, <2>2, <2>3, <2>4
<1>8. ASSUME NEW m \in 1..(n - c)
      PROVE  /\ c + m \in 1..n /\ new[m].age = list[c + m].age
             /\ new[m].age \in 0..AssistOld /\ new[m].age - late \in 0..window /\ new[m].age > late
  <2>1. c + m \in 1..n /\ c + m > c /\ new[m] = list[c + m]
    BY <1>1, <1>6
  <2>2. list[c + m].age \in 0..AssistOld /\ list[c + m].age - late <= window /\ list[c + m].age > late
    BY <1>1, <1>2, <1>4, <1>5, <2>1
  <2> QED
    BY <1>1, <2>1, <2>2
<1>9. Falling(new)
  <2>1. \A m \in 1..Len(new) : new[m].age \in 0..AssistOld
    BY <1>1, <1>7, <1>8
  <2>2. ASSUME NEW l \in 1..Len(new), NEW m \in 1..Len(new), l < m
        PROVE  new[l].age > new[m].age \/ new[l].age = AssistOld
    <3>1. l \in 1..(n - c) /\ l \in Int /\ m \in Int
      BY <1>6, <1>7, <2>2
    <3>2. CASE m = n - c + 1
      <4>1. new[m].age = late
        BY <1>7, <3>2
      <4> QED
        BY <1>8, <3>1, <4>1
    <3>3. CASE m \in 1..(n - c)
      <4>1. c + l \in 1..n /\ c + m \in 1..n /\ c + l < c + m
        BY <1>1, <1>8, <2>2, <3>1, <3>3
      <4>2. list[c + l].age > list[c + m].age \/ list[c + l].age = AssistOld
        BY <1>1, <4>1
      <4> QED
        BY <1>8, <3>1, <3>3, <4>2
    <3> QED
      BY <1>7, <3>2, <3>3
  <2> QED
    BY <1>7, <2>1, <2>2 DEF Falling
<1>10. \A m \in 1..Len(new) : new[m].age - late \in 0..window
  <2> SUFFICES ASSUME NEW m \in 1..Len(new) PROVE new[m].age - late \in 0..window
    OBVIOUS
  <2>1. CASE m = n - c + 1
    <3>1. new[m].age = late
      BY <1>7, <2>1
    <3> QED
      BY <1>1, <3>1
  <2>2. CASE m \in 1..(n - c)
    BY <1>8, <2>2
  <2> QED
    BY <1>7, <2>1, <2>2
<1> QED
  BY <1>4, <1>5, <1>6, <1>9, <1>10 DEF new, I, n, Windowed

\* Lists grow old together.
Aged(list, new) == \A i \in DOMAIN list : new[i].age = Later(list[i].age)

\* A list that falls still falls when all of it grows older.
LEMMA AgingKeepsFalling ==
    ASSUME AssistAssumption, NEW list, Falling(list), NEW new, DOMAIN new = DOMAIN list,
           DOMAIN list \subseteq Nat, Aged(list, new)
    PROVE  Falling(new)
<1>1. AssistOld \in Nat
  BY AssistOldIs
<1>2. \A i \in DOMAIN list : list[i].age \in 0..AssistOld /\ new[i].age = Later(list[i].age)
  BY DEF Falling, Aged
<1>3. \A a \in 0..AssistOld : Later(a) = IF a = AssistOld THEN a ELSE a + 1
  BY <1>1 DEF Later
<1>4. \A i \in DOMAIN new : new[i].age \in 0..AssistOld
  BY <1>1, <1>2, <1>3
<1>5. ASSUME NEW i \in DOMAIN new, NEW j \in DOMAIN new, i < j
      PROVE  new[i].age > new[j].age \/ new[i].age = AssistOld
  <2>1. list[i].age > list[j].age \/ list[i].age = AssistOld
    BY <1>5 DEF Falling
  <2>2. /\ list[i].age \in 0..AssistOld /\ new[i].age = Later(list[i].age)
        /\ list[j].age \in 0..AssistOld /\ new[j].age = Later(list[j].age)
    BY <1>2
  <2>3. /\ new[i].age = IF list[i].age = AssistOld THEN list[i].age ELSE list[i].age + 1
        /\ new[j].age = IF list[j].age = AssistOld THEN list[j].age ELSE list[j].age + 1
    BY <1>3, <2>2
  <2> QED
    BY <1>1, <2>1, <2>2, <2>3
<1> QED
  BY <1>4, <1>5 DEF Falling

-----------------------------------------------------------------------------
(* DriverAssist: the lane *)

\* Two of a set, counted.
LEMMA TwoAreTwo ==
    ASSUME NEW S, IsFiniteSet(S)
    PROVE  Cardinality(S) >= 2 <=> \E x, y \in S : x # y
<1>1. ASSUME Cardinality(S) >= 2 PROVE \E x, y \in S : x # y
  <2>1. Cardinality(S) \in Nat /\ Cardinality(S) # 0
    BY <1>1, FS_CardinalityType
  <2>2. PICK x \in S : TRUE
    BY <2>1, FS_EmptySet
  <2>3. IsFiniteSet(S \ {x}) /\ Cardinality(S \ {x}) = Cardinality(S) - 1
    BY <2>2, FS_RemoveElement
  <2>4. S \ {x} # {}
    BY <1>1, <2>1, <2>3, FS_EmptySet
  <2> QED
    BY <2>4
<1>2. ASSUME NEW x \in S, NEW y \in S, x # y PROVE Cardinality(S) >= 2
  <2>1. IsFiniteSet(S \ {x}) /\ Cardinality(S \ {x}) = Cardinality(S) - 1
    BY FS_RemoveElement
  <2>2. Cardinality(S \ {x}) # 0
    BY <1>2, <2>1, FS_EmptySet
  <2>3. Cardinality(S) \in Nat /\ Cardinality(S \ {x}) \in Nat
    BY <2>1, FS_CardinalityType
  <2> QED
    BY <2>1, <2>2, <2>3
<1> QED
  BY <1>1, <1>2

LaneSeverities == {"safe", "caution", "critical"}
LaneEntries == [age : Nat, severity : LaneSeverities, side : Sides \cup {"none"}]
Reasons == {"none", "slow", "unreliable", "stable", "intended", "departure", "pending"}
Assessments == [severity : LaneSeverities, side : Sides \cup {"none"}, reason : Reasons]

\* What is kept in mind of alarms, and how long.
WarnedFor == ConfirmWindow + LiveAge + MaxLate

\* The alarms of the lane history are remembered, and what is shown of the lane rests on them.
LaneInv ==
    /\ lanes \in Seq(LaneEntries) /\ Falling(lanes)
    /\ lane \in [age : 0..AssistOld, assessment : Assessments]
    /\ lanes # <<>> => lanes[Len(lanes)].age = lane.age
    /\ warned \subseteq Sides \X (0..WarnedFor)
    /\ \A i \in DOMAIN lanes : Alarming(lanes[i]) /\ lanes[i].age <= WarnedFor
          => <<lanes[i].side, lanes[i].age>> \in warned
    /\ lane.age <= LiveAge =>
          /\ lane.assessment.severity = "caution" =>
                \E m, n \in 0..ConfirmWindow :
                   /\ m # n /\ <<lane.assessment.side, lane.age + m>> \in warned
                   /\ <<lane.assessment.side, lane.age + n>> \in warned
          /\ lane.assessment.severity = "critical" => 
                <<lane.assessment.side, lane.age>> \in warned

\* LaneInv holds at first: nothing was observed.
LEMMA LaneInvInit == AssistAssumption /\ AssistInit => LaneInv
<1> SUFFICES ASSUME AssistAssumption, AssistInit PROVE LaneInv
  OBVIOUS
<1>1. AssistOld \in Nat /\ AssistOld > StaleAge /\ StaleAge >= LiveAge
  BY AssistOldIs DEF AssistAssumption
<1>2. lanes = <<>> /\ lanes \in Seq(LaneEntries) /\ DOMAIN lanes = {}
  BY DEF AssistInit
<1>3. Falling(lanes)
  BY <1>2 DEF Falling
<1>4. lane \in [age : 0..AssistOld, assessment : Assessments] /\ lane.age = AssistOld
      /\ lane.assessment.severity = "safe"
  <2>1. lane = [age |-> AssistOld,
                assessment |-> [severity |-> "safe", side |-> "none", reason |-> "none"]]
    BY DEF AssistInit
  <2>2. [severity |-> "safe", side |-> "none", reason |-> "none"] \in Assessments
    BY DEF Assessments, LaneSeverities, Reasons
  <2> QED
    BY <1>1, <2>1, <2>2
<1>5. warned = {}
  BY DEF AssistInit
<1> QED
  BY <1>2, <1>3, <1>4, <1>5 DEF LaneInv

\* Anything said of a lane.
LEMMA Said ==
    ASSUME NEW s \in LaneSeverities, NEW side \in Sides \cup {"none"}, NEW r \in Reasons
    PROVE  /\ [severity |-> s, side |-> side, reason |-> r] \in Assessments
           /\ [severity |-> s, side |-> side, reason |-> r].severity = s
           /\ [severity |-> s, side |-> side, reason |-> r].side = side
BY DEF Assessments

\* What is said of a lane: something critical is about a side.
LEMMA AssessedIs ==
    ASSUME NEW o \in LaneObservations
    PROVE  /\ AssessLane(o) \in Assessments
           /\ AssessLane(o).severity = "critical" => AssessLane(o).side \in Sides
<1>1. /\ o.drift \in Sides \cup {"none"} /\ o.speed \in {"slow", "fast"}
      /\ o.model \in {"reliable", "unreliable"} /\ o.crossing \in {"imminent", "soon", "far"}
  BY DEF LaneObservations
<1>2. CASE o.speed = "slow"
  <2>1. AssessLane(o) = [severity |-> "safe", side |-> "none", reason |-> "slow"]
    BY <1>2 DEF AssessLane
  <2> QED
    BY <2>1 DEF Assessments, LaneSeverities, Reasons
<1>3. CASE o.speed = "fast" /\ o.model = "unreliable"
  <2>1. AssessLane(o) = [severity |-> "safe", side |-> "none", reason |-> "unreliable"]
    BY <1>3 DEF AssessLane
  <2> QED
    BY <2>1 DEF Assessments, LaneSeverities, Reasons
<1>4. CASE o.speed = "fast" /\ o.model = "reliable" /\ o.drift = "none"
  <2>1. AssessLane(o) = [severity |-> "safe", side |-> "none", reason |-> "stable"]
    BY <1>4 DEF AssessLane
  <2> QED
    BY <2>1 DEF Assessments, LaneSeverities, Reasons
<1>5. CASE o.speed = "fast" /\ o.model = "reliable" /\ o.drift # "none"
  <2> DEFINE s == IF o.signal \in {o.drift, "hazard"} THEN "safe"
                  ELSE CASE o.crossing = "imminent" -> "critical"
                         [] o.crossing = "soon" -> "caution"
                         [] OTHER -> "safe"
             r == IF o.signal \in {o.drift, "hazard"} THEN "intended" ELSE "departure"
  <2>1. s \in LaneSeverities /\ r \in Reasons
    <3>1. CASE o.signal \in {o.drift, "hazard"}
      BY <3>1 DEF LaneSeverities, Reasons
    <3>2. CASE o.signal \notin {o.drift, "hazard"}
      BY <3>2 DEF LaneSeverities, Reasons
    <3> QED
      BY <3>1, <3>2
  <2>2. AssessLane(o) = [severity |-> s, side |-> o.drift, reason |-> r]
    BY <1>5 DEF AssessLane
  <2>3. o.drift \in Sides \cup {"none"} /\ (s = "critical" => o.drift \in Sides)
    BY <1>1, <1>5
  <2> HIDE DEF s, r
  <2> QED
    BY <2>1, <2>2, <2>3, Said
<1> QED
  BY <1>1, <1>2, <1>3, <1>4, <1>5

\* An observation of the lane.
LEMMA IngestKeepsLane ==
    ASSUME AssistAssumption, LaneInv, NEW o \in LaneObservations, NEW late \in 0..MaxLate,
           IngestLane(o, late)
    PROVE  LaneInv'
<1> DEFINE a == AssessLane(o)
           x == [age |-> late, severity |-> a.severity, side |-> a.side]
           new == Append(Kept(lanes, Within(lanes, late, ConfirmWindow)), x)
<1>1. /\ late < lane.age /\ lanes' = new
      /\ lane' = [age |-> late, assessment |-> Stabilized(new, a)]
      /\ warned' = (IF Alarming(a) THEN warned \cup {<<a.side, late>>} ELSE warned)
  BY DEF IngestLane, Within
<1>2. a \in Assessments /\ (a.severity = "critical" => a.side \in Sides)
  BY AssessedIs
<1>3. /\ late \in Nat /\ late <= MaxLate /\ MaxLate \in Nat /\ ConfirmWindow \in Nat
      /\ LiveAge \in Nat /\ AssistOld \in Nat /\ ConfirmWindow + MaxLate < AssistOld
      /\ WarnedFor \in Nat /\ ConfirmWindow + MaxLate <= WarnedFor /\ late <= WarnedFor
  BY AssistOldIs DEF AssistAssumption, WarnedFor
<1> HIDE DEF a
<1>4. x \in LaneEntries /\ x.age = late
  BY <1>2, <1>3 DEF LaneEntries, Assessments
<1>5. lanes \in Seq(LaneEntries) /\ Falling(lanes) /\ (lanes # <<>> => late < lanes[Len(lanes)].age)
  BY <1>1 DEF LaneInv
<1>5a. /\ new \in Seq(LaneEntries) /\ Falling(new)
       /\ \E c \in 0..Len(lanes) : Windowed(lanes, late, ConfirmWindow, x, new, c)
  <2> HIDE DEF x
  <2> QED
    BY <1>3, <1>4, <1>5, WindowKeepsTheEnd
<1>6. PICK c \in 0..Len(lanes) :
          /\ new \in Seq(LaneEntries) /\ Len(new) = Len(lanes) - c + 1 /\ new[Len(new)] = x
          /\ \A m \in 1..(Len(lanes) - c) : new[m] = lanes[c + m]
          /\ Falling(new)
          /\ \A m \in 1..Len(new) : new[m].age - late \in 0..ConfirmWindow
  <2> HIDE DEF new, x
  <2> QED
    BY <1>5a DEF Windowed
<1>7. /\ Len(lanes) \in Nat /\ DOMAIN lanes = 1..Len(lanes) /\ DOMAIN new = 1..Len(new)
      /\ Len(new) \in Nat /\ Len(new) >= 1 /\ new # <<>>
  <2> HIDE DEF new
  <2>1. /\ Len(lanes) \in Nat /\ DOMAIN lanes = 1..Len(lanes) /\ DOMAIN new = 1..Len(new)
    BY <1>5, <1>6, LenProperties
  <2>2. Len(new) \in Nat /\ Len(new) >= 1
    BY <1>6, <2>1
  <2> QED
    BY <2>1, <2>2
<1> HIDE DEF new
<1>8. warned \subseteq warned' /\ (Alarming(a) => <<a.side, late>> \in warned')
  BY <1>1
<1>9. warned' \subseteq Sides \X (0..WarnedFor)
  <2>1. Alarming(a) => <<a.side, late>> \in Sides \X (0..WarnedFor)
    BY <1>3 DEF Alarming
  <2> QED
    BY <1>1, <2>1 DEF LaneInv
<1>10. ASSUME NEW m \in 1..Len(new), Alarming(new[m])
       PROVE  <<new[m].side, new[m].age>> \in warned'
  <2>1. CASE m = Len(new)
    <3>1. new[m] = x
      BY <1>6, <2>1
    <3>2. x.severity = a.severity /\ x.side = a.side /\ x.age = late
      OBVIOUS
    <3>3. Alarming(a)
      BY <1>10, <3>1, <3>2 DEF Alarming
    <3> QED
      BY <1>8, <3>1, <3>2, <3>3
  <2>2. CASE m # Len(new)
    <3>1. m \in 1..(Len(lanes) - c) /\ c + m \in DOMAIN lanes
      BY <1>6, <1>7, <2>2
    <3>2. new[m] = lanes[c + m]
      BY <1>6, <3>1
    <3>3. new[m].age <= WarnedFor
      <4>1. new[m].age - late <= ConfirmWindow
        BY <1>6
      <4>2. new[m].age \in Int
        BY <1>6, <1>7 DEF Falling
      <4> QED
        BY <1>3, <4>1, <4>2
    <3>4. <<new[m].side, new[m].age>> \in warned
      BY <1>10, <3>1, <3>2, <3>3 DEF LaneInv
    <3> QED
      BY <1>8, <3>4
  <2> QED
    BY <2>1, <2>2
<1> DEFINE s == Stabilized(new, a)
<1>11. s \in Assessments
  <2>1. CASE s = a
    BY <1>2, <2>1
  <2>2. CASE s = [a EXCEPT !.severity = "safe", !.reason = "pending"]
    BY <1>2, <2>2 DEF Assessments, LaneSeverities, Reasons
  <2> QED
    BY <2>1, <2>2 DEF Stabilized
<1>12. ASSUME s.severity = "caution"
       PROVE  \E m, n \in 0..ConfirmWindow :
                 m # n /\ <<s.side, late + m>> \in warned' /\ <<s.side, late + n>> \in warned'
  <2>1. s = a /\ a.severity = "caution" /\ ~(Confirmations(new, a) < 2)
    BY <1>2, <1>12 DEF Stabilized, Assessments
  <2> DEFINE S == {i \in DOMAIN new : Alarming(new[i]) /\ new[i].side = a.side}
  <2>2. IsFiniteSet(S) /\ Cardinality(S) \in Nat
    <3>1. S \subseteq 1..Len(new) /\ IsFiniteSet(1..Len(new))
      BY <1>7, FS_Interval
    <3> HIDE DEF S
    <3> QED
      BY <3>1, FS_Subset, FS_CardinalityType
  <2>3. Cardinality(S) >= 2
    <3>1. Confirmations(new, a) = Cardinality(S)
      BY DEF Confirmations
    <3> HIDE DEF S
    <3> QED
      BY <2>1, <2>2, <3>1
  <2>4. PICK i \in S, j \in S : i # j
    <3> HIDE DEF S
    <3> QED
      BY <2>2, <2>3, TwoAreTwo
  <2>5. /\ i \in 1..Len(new) /\ Alarming(new[i]) /\ new[i].side = a.side
        /\ j \in 1..Len(new) /\ Alarming(new[j]) /\ new[j].side = a.side
    BY <1>7, <2>4
  <2>6. /\ <<a.side, new[i].age>> \in warned' /\ new[i].age - late \in 0..ConfirmWindow
        /\ <<a.side, new[j].age>> \in warned' /\ new[j].age - late \in 0..ConfirmWindow
    BY <1>6, <1>10, <2>5
  <2>7. /\ new[i].age \in Int /\ new[j].age \in Int
        /\ new[i].age # AssistOld /\ new[j].age # AssistOld
    <3>1. new[i].age \in Int /\ new[j].age \in Int
      BY <1>6, <1>7, <2>5 DEF Falling
    <3> QED
      BY <1>3, <2>6, <3>1, SMTT(30)
  <2>8. new[i].age # new[j].age
    <3>1. i < j \/ j < i
      BY <1>7, <2>4, <2>5
    <3>2. new[i].age > new[j].age \/ new[j].age > new[i].age
      BY <1>6, <1>7, <2>5, <2>7, <3>1 DEF Falling
    <3> QED
      BY <2>7, <3>2
  <2> DEFINE m == new[i].age - late
             n == new[j].age - late
  <2>9. /\ m \in 0..ConfirmWindow /\ n \in 0..ConfirmWindow /\ m # n
        /\ late + m = new[i].age /\ late + n = new[j].age
    <3>1. late \in Nat /\ m \in 0..ConfirmWindow /\ n \in 0..ConfirmWindow
      BY <1>3, <2>6
    <3> HIDE DEF x, s, S
    <3> QED
      BY <2>7, <2>8, <3>1, SMTT(30)
  <2> HIDE DEF m, n, s
  <2>10. <<s.side, late + m>> \in warned' /\ <<s.side, late + n>> \in warned'
    <3>1. late + m = new[i].age /\ late + n = new[j].age /\ s.side = a.side
      BY <2>1, <2>9
    <3>2. /\ <<s.side, late + m>> = <<a.side, new[i].age>>
          /\ <<s.side, late + n>> = <<a.side, new[j].age>>
      BY <3>1, Zenon
    <3> QED
      BY <2>6, <3>2, Zenon
  <2> QED
    BY <2>9, <2>10
<1>13. ASSUME s.severity = "critical"
       PROVE  <<s.side, late>> \in warned'
  <2>1. s = a /\ a.severity = "critical"
    BY <1>2, <1>13 DEF Stabilized, Assessments
  <2>2. Alarming(a)
    BY <1>2, <2>1 DEF Alarming
  <2> QED
    BY <1>8, <2>1, <2>2
<1> HIDE DEF s
<1>14. lane' = [age |-> late, assessment |-> s]
  BY <1>1 DEF s
<1>15. lane'.age = late /\ lane'.assessment = s
  BY <1>14
<1>16. lane' \in [age : 0..AssistOld, assessment : Assessments]
  <2>1. late \in 0..AssistOld
    BY <1>3
  <2> QED
    BY <1>11, <1>14, <2>1
<1>17. lanes' # <<>> => lanes'[Len(lanes')].age = lane'.age
  BY <1>1, <1>4, <1>6, <1>15
<1>18. /\ lanes' \in Seq(LaneEntries) /\ Falling(lanes')
       /\ \A i \in DOMAIN lanes' : Alarming(lanes'[i]) => <<lanes'[i].side, lanes'[i].age>> \in warned'
  BY <1>1, <1>6, <1>7, <1>10
<1>19. /\ s.severity = "caution" => \E m, n \in 0..ConfirmWindow :
                /\ m # n /\ <<s.side, lane'.age + m>> \in warned'
                /\ <<s.side, lane'.age + n>> \in warned'
       /\ s.severity = "critical" => <<s.side, lane'.age>> \in warned'
  BY <1>12, <1>13, <1>15
<1> QED
  BY <1>9, <1>15, <1>16, <1>17, <1>18, <1>19 DEF LaneInv, Falling

\* An age, one tick on.
LEMMA LaterIsOn ==
    ASSUME AssistAssumption, NEW a \in Nat
    PROVE  /\ Later(a) \in Nat /\ a <= Later(a)
           /\ a < AssistOld => Later(a) = a + 1
           /\ a \in 0..AssistOld => Later(a) \in 0..AssistOld
           /\ a >= AssistOld => Later(a) = a
<1>1. AssistOld \in Nat
  BY AssistOldIs
<1> QED
  BY <1>1 DEF Later

\* What remains remembered of an alarm, a tick later.
LEMMA AlarmsAge ==
    ASSUME AssistAssumption, AssistTick, warned \subseteq Sides \X (0..WarnedFor),
           NEW s, NEW a, <<s, a>> \in warned, Later(a) <= WarnedFor
    PROVE  <<s, Later(a)>> \in warned'
<1>1. warned' = {w \in {<<v[1], Later(v[2])>> : v \in warned} : w[2] <= WarnedFor}
  BY DEF AssistTick, WarnedFor
<1>2. <<s, Later(a)>> \in {<<v[1], Later(v[2])>> : v \in warned}
  OBVIOUS
<1>3. <<s, Later(a)>>[2] <= WarnedFor
  OBVIOUS
<1> QED
  BY <1>1, <1>2, <1>3

\* LaneInv is kept as observations and alarms grow old.
LEMMA TickKeepsLane ==
    ASSUME AssistAssumption, LaneInv, AssistTick
    PROVE  LaneInv'
<1>1. /\ lanes' = [i \in DOMAIN lanes |-> [lanes[i] EXCEPT !.age = Later(@)]]
      /\ lane' = [lane EXCEPT !.age = Later(@)]
      /\ warned' = {w \in {<<v[1], Later(v[2])>> : v \in warned} : w[2] <= WarnedFor}
  BY DEF AssistTick, WarnedFor
<1>2. /\ lanes \in Seq(LaneEntries) /\ Falling(lanes)
      /\ lane \in [age : 0..AssistOld, assessment : Assessments]
      /\ warned \subseteq Sides \X (0..WarnedFor)
  BY DEF LaneInv
<1>3. /\ AssistOld \in Nat /\ ConfirmWindow \in Nat /\ LiveAge \in Nat /\ MaxLate \in Nat
      /\ StaleAge \in Nat /\ LiveAge <= StaleAge /\ ConfirmWindow + StaleAge < AssistOld
      /\ WarnedFor = ConfirmWindow + LiveAge + MaxLate /\ WarnedFor \in Nat
  BY AssistOldIs DEF AssistAssumption, WarnedFor
<1>4. /\ Len(lanes) \in Nat /\ DOMAIN lanes = 1..Len(lanes)
      /\ \A i \in 1..Len(lanes) : lanes[i] \in LaneEntries
  BY <1>2, LenProperties, ElementOfSeq
<1>5. /\ DOMAIN lanes' = 1..Len(lanes)
      /\ \A i \in 1..Len(lanes) :
            /\ lanes'[i] \in LaneEntries /\ lanes'[i].age = Later(lanes[i].age)
            /\ lanes'[i].severity = lanes[i].severity /\ lanes'[i].side = lanes[i].side
  <2>1. DOMAIN lanes' = 1..Len(lanes)
    BY <1>1, <1>4
  <2>2. ASSUME NEW i \in 1..Len(lanes)
        PROVE  /\ lanes'[i] \in LaneEntries /\ lanes'[i].age = Later(lanes[i].age)
               /\ lanes'[i].severity = lanes[i].severity /\ lanes'[i].side = lanes[i].side
    <3>1. lanes[i] \in LaneEntries /\ lanes[i].age \in Nat
      BY <1>4 DEF LaneEntries
    <3>2. lanes'[i] = [lanes[i] EXCEPT !.age = Later(@)]
      BY <1>1, <1>4
    <3>3. Later(lanes[i].age) \in Nat
      BY <3>1, LaterIsOn
    <3> QED
      BY <3>1, <3>2, <3>3 DEF LaneEntries
  <2> QED
    BY <2>1, <2>2
<1>6. lanes' \in Seq(LaneEntries) /\ Len(lanes') = Len(lanes)
  <2>1. lanes' \in [1..Len(lanes) -> LaneEntries]
    BY <1>1, <1>4, <1>5
  <2> QED
    BY <1>4, <2>1, SeqDef, LenProperties
<1>7. Falling(lanes')
  <2>1. Aged(lanes, lanes') /\ DOMAIN lanes \subseteq Nat /\ DOMAIN lanes' = DOMAIN lanes
    BY <1>4, <1>5 DEF Aged
  <2> QED
    BY <1>2, <2>1, AgingKeepsFalling
<1>8. /\ lane.age \in 0..AssistOld /\ lane.assessment \in Assessments
      /\ lane'.age = Later(lane.age) /\ lane'.assessment = lane.assessment
      /\ lane' \in [age : 0..AssistOld, assessment : Assessments]
  <2>1. lane.age \in 0..AssistOld /\ lane.assessment \in Assessments
    BY <1>2
  <2>2. Later(lane.age) \in 0..AssistOld
    BY <1>3, <2>1, LaterIsOn
  <2> QED
    BY <1>1, <1>2, <2>1, <2>2
<1>9. lanes' # <<>> => lanes'[Len(lanes')].age = lane'.age
  <2> SUFFICES ASSUME lanes' # <<>> PROVE lanes'[Len(lanes')].age = lane'.age
    OBVIOUS
  <2>1. Len(lanes) # 0
    <3>1. CASE Len(lanes) = 0
      <4>1. lanes' = <<>>
        BY <1>6, <3>1, EmptySeq
      <4> QED
        BY <4>1
    <3> QED
      BY <3>1
  <2>2. Len(lanes) \in 1..Len(lanes) /\ lanes # <<>>
    BY <1>4, <2>1
  <2>3. lanes[Len(lanes)].age = lane.age
    BY <2>2 DEF LaneInv
  <2> QED
    BY <1>5, <1>6, <1>8, <2>2, <2>3
<1>10. warned' \subseteq Sides \X (0..WarnedFor)
  <2> SUFFICES ASSUME NEW v \in warned, Later(v[2]) <= WarnedFor
               PROVE  <<v[1], Later(v[2])>> \in Sides \X (0..WarnedFor)
    BY <1>1
  <2>1. v[1] \in Sides /\ v[2] \in Nat
    BY <1>2, <1>3
  <2>2. Later(v[2]) \in Nat
    BY <2>1, LaterIsOn
  <2> QED
    BY <1>3, <2>1, <2>2
<1>11. ASSUME NEW i \in 1..Len(lanes), Alarming(lanes'[i]), lanes'[i].age <= WarnedFor
       PROVE  <<lanes'[i].side, lanes'[i].age>> \in warned'
  <2>1. lanes[i].age \in Nat
    BY <1>4 DEF LaneEntries
  <2>2. Alarming(lanes[i])
    BY <1>5, <1>11 DEF Alarming
  <2> DEFINE a == lanes[i].age
  <2>3. lanes[i].age <= WarnedFor
    <3>1. Later(a) <= WarnedFor /\ a \in Nat
      BY <1>5, <1>11, <2>1
    <3> HIDE DEF a
    <3>2. a <= Later(a) /\ Later(a) \in Nat
      BY <3>1, LaterIsOn
    <3>3. a <= WarnedFor
      BY <1>3, <3>1, <3>2
    <3> QED
      BY <3>3 DEF a
  <2>4. <<lanes[i].side, lanes[i].age>> \in warned
    BY <1>4, <2>2, <2>3 DEF LaneInv
  <2>5. Later(lanes[i].age) <= WarnedFor
    BY <1>5, <1>11
  <2>6. <<lanes[i].side, Later(lanes[i].age)>> \in warned'
    BY <1>2, <2>4, <2>5, AlarmsAge
  <2> QED
    BY <1>5, <2>6
<1>12. ASSUME lane'.age <= LiveAge
       PROVE  /\ lane.age <= LiveAge /\ lane'.age = lane.age + 1
              /\ \A m \in 0..ConfirmWindow : <<lane.assessment.side, lane.age + m>> \in warned
                    => <<lane'.assessment.side, lane'.age + m>> \in warned'
  <2>1. lane.age \in Nat /\ lane.age <= LiveAge /\ lane'.age = lane.age + 1
    <3>1. lane.age \in Nat /\ lane'.age \in Nat
      BY <1>3, <1>8
    <3>2. lane.age <= LiveAge
      BY <1>3, <1>8, <1>12, <3>1, LaterIsOn
    <3>3. lane.age < AssistOld
      BY <1>3, <3>1, <3>2
    <3> QED
      BY <1>8, <3>1, <3>2, <3>3, LaterIsOn
  <2>2. ASSUME NEW m \in 0..ConfirmWindow, <<lane.assessment.side, lane.age + m>> \in warned
        PROVE  <<lane'.assessment.side, lane'.age + m>> \in warned'
    <3> DEFINE a == lane.age + m
    <3>1. a \in Nat /\ a < AssistOld /\ a + 1 <= WarnedFor /\ lane'.age + m = a + 1
      BY <1>3, <1>12, <2>1
    <3>2. <<lane.assessment.side, a>> \in warned
      BY <2>2
    <3> HIDE DEF a
    <3>3. Later(a) = a + 1
      BY <3>1, LaterIsOn
    <3>4. Later(a) <= WarnedFor
      BY <3>1, <3>3
    <3>5. <<lane.assessment.side, Later(a)>> \in warned'
      BY <1>2, <3>2, <3>4, AlarmsAge
    <3>6. lane'.age + m = Later(a) /\ lane'.assessment.side = lane.assessment.side
      BY <1>8, <3>1, <3>3
    <3> QED
      BY <3>5, <3>6
  <2> QED
    BY <2>1, <2>2
<1>13. ASSUME lane'.age <= LiveAge, lane'.assessment.severity = "caution"
       PROVE  \E m, n \in 0..ConfirmWindow :
                 /\ m # n /\ <<lane'.assessment.side, lane'.age + m>> \in warned'
                 /\ <<lane'.assessment.side, lane'.age + n>> \in warned'
  <2>1. lane.age <= LiveAge /\ lane.assessment.severity = "caution"
    BY <1>8, <1>12, <1>13
  <2>2. PICK m \in 0..ConfirmWindow, n \in 0..ConfirmWindow :
           /\ m # n /\ <<lane.assessment.side, lane.age + m>> \in warned
           /\ <<lane.assessment.side, lane.age + n>> \in warned
    BY <2>1 DEF LaneInv
  <2>3. /\ <<lane'.assessment.side, lane'.age + m>> \in warned'
        /\ <<lane'.assessment.side, lane'.age + n>> \in warned'
    BY <1>12, <1>13, <2>2
  <2> QED
    BY <2>2, <2>3
<1>14. ASSUME lane'.age <= LiveAge, lane'.assessment.severity = "critical"
       PROVE  <<lane'.assessment.side, lane'.age>> \in warned'
  <2>1. lane.age <= LiveAge /\ lane.assessment.severity = "critical"
    BY <1>8, <1>12, <1>14
  <2>2. <<lane.assessment.side, lane.age>> \in warned
    BY <2>1 DEF LaneInv
  <2>3. 0 \in 0..ConfirmWindow /\ lane.age + 0 = lane.age /\ lane'.age + 0 = lane'.age
    <3>1. lane.age \in Nat /\ lane'.age \in Nat
      BY <1>3, <1>8
    <3> QED
      BY <1>3, <3>1
  <2>4. <<lane.assessment.side, lane.age + 0>> \in warned
    BY <2>2, <2>3
  <2>5. <<lane'.assessment.side, lane'.age + 0>> \in warned'
    BY <1>12, <1>14, <2>3, <2>4
  <2> QED
    BY <2>3, <2>5
<1>15. \A i \in DOMAIN lanes' : Alarming(lanes'[i]) /\ lanes'[i].age <= WarnedFor
          => <<lanes'[i].side, lanes'[i].age>> \in warned'
  BY <1>5, <1>11
<1> QED
  BY <1>6, <1>7, <1>8, <1>9, <1>10, <1>13, <1>14, <1>15 DEF LaneInv, Falling

\* What is shown of the lane was raised.
LEMMA LaneInvHolds ==
    ASSUME AssistAssumption, LaneInv
    PROVE  LaneCautionsAreConfirmed
<1> DEFINE a == lane.assessment
           raised == {w \in warned : w[1] = a.side /\ w[2] - lane.age \in 0..ConfirmWindow}
<1> SUFFICES ASSUME LaneAvailability = "live"
             PROVE  /\ a.severity = "caution" => Cardinality(raised) >= 2
                    /\ a.severity = "critical" => raised # {}
  BY DEF LaneCautionsAreConfirmed
<1>1. lane.age <= LiveAge /\ lane.age \in Nat
  <2>1. Freshness(lane.age) = "live"
    BY DEF LaneAvailability
  <2>2. lane.age \in Nat
    BY AssistOldIs DEF LaneInv
  <2> QED
    BY <2>1, <2>2 DEF Freshness
<1>2. warned \subseteq Sides \X (0..WarnedFor) /\ WarnedFor \in Nat /\ ConfirmWindow \in Nat
  BY SMTT(30) DEF LaneInv, AssistAssumption, WarnedFor
<1>3. IsFiniteSet(raised)
  <2>1. IsFiniteSet(Sides) /\ IsFiniteSet(0..WarnedFor)
    <3>1. IsFiniteSet({"left"} \cup {"right"}) /\ {"left"} \cup {"right"} = Sides
      BY FS_Singleton, FS_Union DEF Sides
    <3>2. IsFiniteSet(0..WarnedFor)
      BY <1>2, FS_Interval
    <3> QED
      BY <3>1, <3>2
  <2>2. IsFiniteSet(Sides \X (0..WarnedFor))
    BY <2>1, FS_Product
  <2>3. raised \subseteq Sides \X (0..WarnedFor)
    BY <1>2
  <2> HIDE DEF raised
  <2> QED
    BY <2>2, <2>3, FS_Subset
<1>4. \A m \in 0..ConfirmWindow : <<a.side, lane.age + m>> \in warned => <<a.side, lane.age + m>> \in raised
  BY <1>1, <1>2
<1>5. ASSUME a.severity = "caution" PROVE Cardinality(raised) >= 2
  <2>1. PICK m \in 0..ConfirmWindow, n \in 0..ConfirmWindow :
           /\ m # n /\ <<a.side, lane.age + m>> \in warned /\ <<a.side, lane.age + n>> \in warned
    BY <1>1, <1>5 DEF LaneInv
  <2>2. <<a.side, lane.age + m>> \in raised /\ <<a.side, lane.age + n>> \in raised
    BY <1>4, <2>1
  <2>3. <<a.side, lane.age + m>> # <<a.side, lane.age + n>>
    BY <1>1, <1>2, <2>1
  <2> HIDE DEF raised, a
  <2> QED
    BY <1>3, <2>2, <2>3, TwoAreTwo
<1>6. ASSUME a.severity = "critical" PROVE raised # {}
  <2>1. <<a.side, lane.age>> \in warned
    BY <1>1, <1>6 DEF LaneInv
  <2>2. <<a.side, lane.age>> \in raised
    BY <1>1, <1>2, <2>1
  <2> QED
    BY <2>2
<1> QED
  BY <1>5, <1>6

-----------------------------------------------------------------------------
(* DriverAssist: surround view, signs and lights *)

SurroundInv == surround \in [cameras : Seq(SurroundCameras), age : 0..AssistOld]

\* SurroundInv holds at first.
LEMMA SurroundInvInit == AssistAssumption /\ AssistInit => SurroundInv
<1> SUFFICES ASSUME AssistAssumption, AssistInit PROVE SurroundInv
  OBVIOUS
<1>1. AssistOld \in 0..AssistOld
  BY AssistOldIs
<1>2. surround = [cameras |-> <<>>, age |-> AssistOld] /\ <<>> \in Seq(SurroundCameras)
  BY DEF AssistInit
<1> QED
  BY <1>1, <1>2 DEF SurroundInv

\* The surround view, for any step.
LEMMA SurroundInvStep ==
    ASSUME AssistAssumption, SurroundInv,
           \/ \E cs \in Seq(SurroundCameras), late \in 0..MaxLate : IngestSurround(cs, late)
           \/ AssistTick
           \/ surround' = surround
    PROVE  SurroundInv'
<1>0. AssistOld \in Nat /\ MaxLate \in Nat /\ MaxLate < AssistOld
  BY AssistOldIs, SMTT(30) DEF AssistAssumption
<1>1. ASSUME NEW cs \in Seq(SurroundCameras), NEW late \in 0..MaxLate, IngestSurround(cs, late)
      PROVE  SurroundInv'
  <2>1. late \in 0..AssistOld
    BY <1>0
  <2>2. surround' = [cameras |-> cs, age |-> late]
    BY <1>1 DEF IngestSurround
  <2> QED
    BY <2>1, <2>2 DEF SurroundInv
<1>2. CASE AssistTick
  <2>1. surround.age \in 0..AssistOld
    BY DEF SurroundInv
  <2>2. Later(surround.age) \in 0..AssistOld
    BY <1>0, <2>1, LaterIsOn, SMTT(30)
  <2>3. surround' = [surround EXCEPT !.age = Later(surround.age)]
    BY <1>2 DEF AssistTick
  <2> QED
    BY <2>2, <2>3 DEF SurroundInv
<1>3. CASE surround' = surround
  BY <1>3 DEF SurroundInv
<1> QED
  BY <1>1, <1>2, <1>3

\* What is shown of the surround is of enough cameras.
LEMMA SurroundInvHolds ==
    ASSUME AssistAssumption, SurroundInv
    PROVE  SurroundIsComplete
<1> DEFINE cs == surround.cameras
           n == Len(cs)
           shown == {cs[i] : i \in DOMAIN cs}
           ids == {c.camera : c \in shown}
<1> SUFFICES ASSUME SurroundAvailability = "live"
             PROVE  Cardinality(ids) >= MinCameras /\ \A c \in shown : c.fit
  BY DEF SurroundIsComplete
<1>1. FullyReady
  BY DEF SurroundAvailability
<1>2. n \in Nat /\ DOMAIN cs = 1..n /\ MinCameras \in Nat
  BY LenProperties DEF SurroundInv, AssistAssumption
<1>3. /\ n >= MinCameras
      /\ \A i, j \in 1..n : i # j => cs[i].camera # cs[j].camera
      /\ \A i \in 1..n : cs[i].fit
  BY <1>1, <1>2 DEF FullyReady
<1>4. Cardinality(ids) >= n
  <2> DEFINE f == [i \in 1..n |-> cs[i].camera]
  <2>1. ids = {cs[i].camera : i \in 1..n}
    BY <1>2
  <2>2. f \in Surjection(1..n, ids)
    BY <2>1 DEF Surjection
  <2>3. f \in Injection(1..n, ids)
    <3>1. f \in [1..n -> ids]
      BY <2>1
    <3>2. \A i, j \in 1..n : f[i] = f[j] => i = j
      BY <1>3
    <3> QED
      BY <3>1, <3>2 DEF Injection, IsInjective
  <2>4. IsFiniteSet(1..n) /\ Cardinality(1..n) = n
    BY <1>2, FS_Interval
  <2> HIDE DEF f, ids, n
  <2>5. Cardinality(ids) = Cardinality(1..n)
    BY <2>2, <2>3, <2>4, FS_Surjection
  <2> QED
    BY <1>2, <2>4, <2>5
<1>5. \A c \in shown : c.fit
  BY <1>2, <1>3
<1>6. Cardinality(ids) >= MinCameras
  <2>1. IsFiniteSet(ids)
    <3> DEFINE f == [i \in 1..n |-> cs[i].camera]
    <3>1. f \in Surjection(1..n, ids)
      <4>1. ids = {cs[i].camera : i \in 1..n}
        BY <1>2
      <4> QED
        BY <4>1 DEF Surjection
    <3>2. IsFiniteSet(1..n)
      BY <1>2, FS_Interval
    <3> HIDE DEF f, ids, n
    <3> QED
      BY <3>1, <3>2, FS_Surjection
  <2> HIDE DEF ids, n
  <2>2. Cardinality(ids) \in Nat
    BY <2>1, FS_CardinalityType
  <2> QED
    BY <1>2, <1>3, <1>4, <2>2
<1> QED
  BY <1>5, <1>6

Signs == [age : Nat, value : {"red", "green"}, sure : {"low", "fair", "high"}]

\* A light that was seen in time is remembered as seen since.
SeenSince(list, l) == \A i \in DOMAIN list : list[i].sure # "low" => l[list[i].value] <= list[i].age

SignInv ==
    /\ signs \in Seq(Signs) /\ lit \in [{"red", "green"} -> Nat]
    /\ SeenSince(signs, lit)

\* SignInv holds at first.
LEMMA SignInvInit == AssistAssumption /\ AssistInit => SignInv
<1> SUFFICES ASSUME AssistAssumption, AssistInit PROVE SignInv
  OBVIOUS
<1>1. AssistOld \in Nat
  BY AssistOldIs
<1>2. signs = <<>> /\ signs \in Seq(Signs) /\ DOMAIN signs = {}
  BY DEF AssistInit
<1>3. lit \in [{"red", "green"} -> Nat]
  BY <1>1 DEF AssistInit
<1> QED
  BY <1>2, <1>3 DEF SignInv, SeenSince

\* What is kept of a history is of that history.
LEMMA PrunedIs ==
    ASSUME SignInv
    PROVE  Pruned(signs) \in Seq(Signs) /\ SeenSince(Pruned(signs), lit)
<1> DEFINE I == {i \in DOMAIN signs : signs[i].age <= SignHistory}
           kept == Kept(signs, I)
           n == Cardinality(I)
<1>1. signs \in Seq(Signs) /\ I \in SUBSET DOMAIN signs
  BY DEF SignInv
<1> HIDE DEF I
<1>2. /\ n \in Nat /\ kept \in Seq(Signs) /\ Len(kept) = n
      /\ \E p : Upwards(p, n, I) /\ \A k \in 1..n : kept[k] = signs[p[k]]
  BY <1>1, KeptIs
<1>3. PICK p : Upwards(p, n, I) /\ \A k \in 1..n : kept[k] = signs[p[k]]
  BY <1>2
<1>4. DOMAIN kept = 1..n
  BY <1>2, LenProperties
<1>5. Pruned(signs) = kept
  BY DEF Pruned, I
<1> HIDE DEF kept, n
<1>6. \A k \in 1..n : p[k] \in DOMAIN signs /\ kept[k] = signs[p[k]]
  BY <1>1, <1>3 DEF Upwards
<1>7. SeenSince(kept, lit)
  BY <1>4, <1>6 DEF SignInv, SeenSince
<1> QED
  BY <1>2, <1>5, <1>7

\* The lesser of two numbers.
LEMMA MinOfTwo ==
    ASSUME NEW a \in Int, NEW b \in Int
    PROVE  Min({a, b}) = IF a <= b THEN a ELSE b
BY DEF Min

\* A sign that is seen.
LEMMA IngestKeepsSigns ==
    ASSUME AssistAssumption, SignInv, NEW o \in SignObservations, NEW late \in 0..MaxLate,
           NEW again \in BOOLEAN, IngestSign(o, late, again)
    PROVE  SignInv'
<1> DEFINE s == [age |-> late, value |-> o.value, sure |-> o.sure]
           kept == IF UsableSign(s) /\ ~(again /\ \E i \in DOMAIN signs : signs[i] = s)
                   THEN Append(Pruned(signs), s) ELSE Pruned(signs)
           first == Max({1, Len(kept) - MaxSigns + 1})
           l == IF UsableSign(s) THEN [lit EXCEPT ![o.value] = Min({lit[o.value], late})] ELSE lit
<1>1. signs' = SubSeq(kept, first, Len(kept)) /\ lit' = l
  BY DEF IngestSign
<1>2. /\ s \in Signs /\ o.value \in {"red", "green"} /\ late \in Nat /\ MaxSigns \in Nat
      /\ s.value = o.value /\ s.age = late /\ s.sure = o.sure
  BY DEF SignObservations, Signs, AssistAssumption
<1>3. lit \in [{"red", "green"} -> Nat]
  BY DEF SignInv
<1>4. /\ l \in [{"red", "green"} -> Nat] /\ \A v \in {"red", "green"} : l[v] <= lit[v]
      /\ UsableSign(s) => l[o.value] <= late
  <2>1. CASE UsableSign(s)
    <3> DEFINE m == Min({lit[o.value], late})
    <3>1. m = (IF lit[o.value] <= late THEN lit[o.value] ELSE late) /\ lit[o.value] \in Nat
      BY <1>2, <1>3, MinOfTwo
    <3>2. m \in Nat /\ m <= lit[o.value] /\ m <= late
      BY <1>2, <3>1
    <3>3. l = [lit EXCEPT ![o.value] = m]
      BY <2>1
    <3> HIDE DEF m, l
    <3> QED
      BY <1>2, <1>3, <3>2, <3>3
  <2>2. CASE ~UsableSign(s)
    <3>1. l = lit
      BY <2>2
    <3> HIDE DEF l
    <3> QED
      BY <1>3, <2>2, <3>1
  <2> QED
    BY <2>1, <2>2
<1> HIDE DEF l
<1>5. Pruned(signs) \in Seq(Signs) /\ SeenSince(Pruned(signs), lit)
  BY PrunedIs
<1>6. ASSUME NEW list \in Seq(Signs), SeenSince(list, lit) PROVE SeenSince(list, l)
  <2> SUFFICES ASSUME NEW i \in DOMAIN list, list[i].sure # "low"
               PROVE  l[list[i].value] <= list[i].age
    BY DEF SeenSince
  <2>1. list[i] \in Signs
    BY ElementOfSeq, LenProperties
  <2>2. lit[list[i].value] <= list[i].age
    BY <1>6 DEF SeenSince
  <2>3. list[i].value \in {"red", "green"} /\ list[i].age \in Nat
    BY <2>1 DEF Signs
  <2> QED
    BY <1>3, <1>4, <2>2, <2>3
<1>7. kept \in Seq(Signs) /\ SeenSince(kept, l)
  <2>1. CASE kept = Pruned(signs)
    BY <1>5, <1>6, <2>1
  <2>2. CASE UsableSign(s) /\ kept = Append(Pruned(signs), s)
    <3> DEFINE h == Pruned(signs)
    <3>1. h \in Seq(Signs) /\ SeenSince(h, l)
      BY <1>5, <1>6
    <3> HIDE DEF h, s
    <3>2. /\ Append(h, s) \in Seq(Signs) /\ Len(h) \in Nat /\ DOMAIN h = 1..Len(h)
          /\ DOMAIN Append(h, s) = 1..(Len(h) + 1)
          /\ Append(h, s)[Len(h) + 1] = s
          /\ \A i \in 1..Len(h) : Append(h, s)[i] = h[i]
      BY <1>2, <3>1, AppendProperties, LenProperties
    <3>3. ASSUME NEW i \in 1..(Len(h) + 1), Append(h, s)[i].sure # "low"
          PROVE  l[Append(h, s)[i].value] <= Append(h, s)[i].age
      <4>1. CASE i = Len(h) + 1
        BY <1>2, <1>4, <2>2, <3>2, <4>1
      <4>2. CASE i # Len(h) + 1
        <5>1. i \in 1..Len(h)
          BY <3>2, <4>2
        <5> QED
          BY <3>1, <3>2, <3>3, <5>1 DEF SeenSince
      <4> QED
        BY <4>1, <4>2
    <3>4. SeenSince(Append(h, s), l)
      BY <3>2, <3>3 DEF SeenSince
    <3>5. kept = Append(h, s)
      BY <2>2 DEF h
    <3> QED
      BY <3>2, <3>4, <3>5
  <2> QED
    BY <2>1, <2>2
<1> HIDE DEF kept, s
<1>8. first \in Int /\ first >= 1 /\ Len(kept) \in Nat /\ DOMAIN kept = 1..Len(kept)
  <2>1. Len(kept) \in Nat /\ DOMAIN kept = 1..Len(kept)
    BY <1>7, LenProperties
  <2>2. first = IF 1 >= Len(kept) - MaxSigns + 1 THEN 1 ELSE Len(kept) - MaxSigns + 1
    BY <1>2, <2>1, MaxOfTwo
  <2> QED
    BY <1>2, <2>1, <2>2
<1> HIDE DEF first
<1>9. /\ SubSeq(kept, first, Len(kept)) \in Seq(Signs)
      /\ Len(SubSeq(kept, first, Len(kept))) = IF first <= Len(kept) THEN Len(kept) - first + 1 ELSE 0
      /\ \A i \in 1..(Len(kept) - first + 1) : SubSeq(kept, first, Len(kept))[i] = kept[first + i - 1]
  <2>1. \A i \in first..Len(kept) : kept[i] \in Signs
    BY <1>7, <1>8, ElementOfSeq
  <2> QED
    BY <1>8, <2>1, SubSeqProperties
<1> DEFINE new == SubSeq(kept, first, Len(kept))
<1>10. /\ DOMAIN new = 1..Len(new)
       /\ \A i \in 1..Len(new) : first + i - 1 \in DOMAIN kept /\ new[i] = kept[first + i - 1]
  <2>1. DOMAIN new = 1..Len(new)
    BY <1>9, LenProperties
  <2>2. \A i \in 1..Len(new) : i \in 1..(Len(kept) - first + 1) /\ first + i - 1 \in DOMAIN kept
    BY <1>8, <1>9
  <2> QED
    BY <1>9, <2>1, <2>2
<1>11. new \in Seq(Signs)
  BY <1>9
<1> HIDE DEF new
<1>12. SeenSince(new, l)
  BY <1>7, <1>10 DEF SeenSince
<1> QED
  BY <1>1, <1>4, <1>11, <1>12 DEF SignInv, new

\* SignInv is kept as signs grow old.
LEMMA TickKeepsSigns ==
    ASSUME AssistAssumption, SignInv, AssistTick
    PROVE  SignInv'
<1>1. /\ signs' = [i \in DOMAIN signs |-> [signs[i] EXCEPT !.age = Later(@)]]
      /\ lit' = [v \in DOMAIN lit |-> Later(lit[v])]
  BY DEF AssistTick
<1>2. /\ Len(signs) \in Nat /\ DOMAIN signs = 1..Len(signs)
      /\ \A i \in 1..Len(signs) : signs[i] \in Signs
      /\ lit \in [{"red", "green"} -> Nat]
  BY LenProperties, ElementOfSeq DEF SignInv
<1>3. \A v \in {"red", "green"} : lit'[v] = Later(lit[v]) /\ lit'[v] \in Nat
  BY <1>1, <1>2, LaterIsOn
<1>4. lit' \in [{"red", "green"} -> Nat]
  BY <1>1, <1>2, <1>3
<1>5. \A i \in 1..Len(signs) :
         /\ signs'[i] \in Signs /\ signs'[i].age = Later(signs[i].age)
         /\ signs'[i].value = signs[i].value /\ signs'[i].sure = signs[i].sure
  <2> SUFFICES ASSUME NEW i \in 1..Len(signs)
               PROVE  /\ signs'[i] \in Signs /\ signs'[i].age = Later(signs[i].age)
                      /\ signs'[i].value = signs[i].value /\ signs'[i].sure = signs[i].sure
    OBVIOUS
  <2>1. signs[i] \in Signs /\ signs[i].age \in Nat
    BY <1>2 DEF Signs
  <2>2. signs'[i] = [signs[i] EXCEPT !.age = Later(@)]
    BY <1>1, <1>2
  <2>3. Later(signs[i].age) \in Nat
    BY <2>1, LaterIsOn
  <2> QED
    BY <2>1, <2>2, <2>3 DEF Signs
<1>6. signs' \in Seq(Signs) /\ DOMAIN signs' = 1..Len(signs)
  <2>1. signs' \in [1..Len(signs) -> Signs]
    BY <1>1, <1>2, <1>5
  <2> QED
    BY <1>2, <2>1, SeqDef
<1>7. ASSUME NEW i \in 1..Len(signs), signs'[i].sure # "low"
      PROVE  lit'[signs'[i].value] <= signs'[i].age
  <2>1. lit[signs[i].value] <= signs[i].age
    BY <1>2, <1>5, <1>7 DEF SignInv, SeenSince
  <2>2. signs[i].value \in {"red", "green"} /\ signs[i].age \in Nat /\ lit[signs[i].value] \in Nat
    BY <1>2 DEF Signs
  <2>3. Later(lit[signs[i].value]) <= Later(signs[i].age)
    <3> DEFINE a == lit[signs[i].value]
               b == signs[i].age
    <3>1. a \in Nat /\ b \in Nat /\ a <= b /\ AssistOld \in Nat
      BY <2>1, <2>2, AssistOldIs
    <3> HIDE DEF a, b
    <3>2. Later(a) <= Later(b)
      BY <3>1 DEF Later
    <3> QED
      BY <3>2 DEF a, b
  <2> QED
    BY <1>3, <1>5, <2>2, <2>3
<1> QED
  BY <1>4, <1>6, <1>7 DEF SignInv, SeenSince

\* Signs and lights, for any step.
LEMMA SignInvStep ==
    ASSUME AssistAssumption, SignInv,
           \/ \E o \in SignObservations, late \in 0..MaxLate, again \in BOOLEAN :
                 IngestSign(o, late, again)
           \/ ReadSigns \/ AssistTick \/ UNCHANGED signVars
    PROVE  SignInv'
<1>1. CASE ReadSigns
  BY <1>1, PrunedIs DEF ReadSigns, SignInv
<1>2. CASE UNCHANGED signVars
  BY <1>2 DEF signVars, SignInv
<1> QED
  BY <1>1, <1>2, IngestKeepsSigns, TickKeepsSigns

\* A light that is shown was seen in time.
LEMMA SignInvHolds ==
    ASSUME AssistAssumption, SignInv
    PROVE  LightsAreRecent
<1> SUFFICES ASSUME NEW v \in StableSigns PROVE lit[v] <= SignAge
  BY DEF LightsAreRecent
<1>1. PICK i \in Supporters(v) : v \in {"red", "green"}
  BY DEF StableSigns
<1>2. i \in DOMAIN signs /\ signs[i].age <= SignAge /\ signs[i].sure # "low" /\ signs[i].value = v
  BY <1>1 DEF Supporters, UsableSign
<1>3. lit[v] <= signs[i].age
  BY <1>2 DEF SignInv, SeenSince
<1>4. lit[v] \in Nat /\ signs[i].age \in Nat /\ SignAge \in Nat
  <2>1. signs[i] \in Signs
    BY <1>2, ElementOfSeq, LenProperties DEF SignInv
  <2> QED
    BY <1>1, <2>1 DEF Signs, SignInv, AssistAssumption
<1> QED
  BY <1>2, <1>3, <1>4

-----------------------------------------------------------------------------
(* DriverAssist: the driver *)

DmsSamples == [age : Nat, look : Looks]
Sees(list, h) == list[h].look \in {"attentive", "closed", "away"}

\* A run, said of places.
Runs(list, look, i, k) ==
    /\ \A h \in i..k : Sees(list, h) => list[h].look = look
    /\ \A g, h \in i..k :
          Sees(list, g) /\ Sees(list, h) /\ g < h /\ (\A f \in (g + 1)..(h - 1) : ~Sees(list, f))
             => list[g].age - list[h].age <= MaxGap

\* What is a run said of places is a run of the samples that show the driver.
LEMMA RunIs ==
    ASSUME NEW X, NEW list \in Seq(X), NEW i \in 1..Len(list), NEW k \in 1..Len(list), NEW look,
           Runs(list, look, i, k)
    PROVE  Run(list, look, i, k)
<1> DEFINE part == Visible(list) \cap (i..k)
<1>1. Len(list) \in Nat /\ DOMAIN list = 1..Len(list)
  BY LenProperties
<1>2. \A h : h \in part <=> h \in i..k /\ Sees(list, h)
  BY <1>1 DEF Visible, WithLook, Sees
<1> HIDE DEF part
<1>3. \A h \in part : list[h].look = look
  BY <1>2 DEF Runs
<1>4. ASSUME NEW g \in part, NEW h \in part, g < h, part \cap ((g + 1)..(h - 1)) = {}
      PROVE  list[g].age - list[h].age <= MaxGap
  <2>1. g \in i..k /\ h \in i..k /\ Sees(list, g) /\ Sees(list, h)
    BY <1>2
  <2>2. ASSUME NEW f \in (g + 1)..(h - 1) PROVE ~Sees(list, f)
    <3>1. f \notin part
      BY <1>4
    <3>2. f \in i..k
      BY <2>1
    <3> QED
      BY <1>2, <3>1, <3>2
  <2> QED
    BY <1>4, <2>1, <2>2 DEF Runs
<1> QED
  BY <1>3, <1>4 DEF Run, part

\* The end of a run is a run.
LEMMA RunsLater ==
    ASSUME NEW list, NEW look, NEW i \in Int, NEW k \in Int, NEW g \in Int, i <= g,
           Runs(list, look, i, k)
    PROVE  Runs(list, look, g, k)
<1>1. \A h \in g..k : h \in i..k
  OBVIOUS
<1> QED
  BY <1>1 DEF Runs

\* What is kept of a list has the runs it had.
LEMMA RunsMove ==
    ASSUME NEW list, NEW new, NEW look, NEW N \in Nat, NEW c \in Nat,
           \A m \in 1..N : new[m] = list[c + m],
           NEW j \in 1..N, NEW k \in 1..N, Runs(list, look, c + j, c + k)
    PROVE  Runs(new, look, j, k)
<1>1. \A h \in j..k : h \in 1..N /\ c + h \in (c + j)..(c + k) /\ new[h] = list[c + h]
  OBVIOUS
<1>2. \A h \in j..k : Sees(new, h) <=> Sees(list, c + h)
  BY <1>1 DEF Sees
<1>3. \A h \in j..k : Sees(new, h) => new[h].look = look
  BY <1>1, <1>2 DEF Runs
<1>4. ASSUME NEW g \in j..k, NEW h \in j..k, Sees(new, g), Sees(new, h), g < h,
             \A f \in (g + 1)..(h - 1) : ~Sees(new, f)
      PROVE  new[g].age - new[h].age <= MaxGap
  <2>1. /\ c + g \in (c + j)..(c + k) /\ c + h \in (c + j)..(c + k) /\ c + g < c + h
        /\ Sees(list, c + g) /\ Sees(list, c + h)
    BY <1>1, <1>2, <1>4
  <2>2. ASSUME NEW f \in (c + g + 1)..(c + h - 1) PROVE ~Sees(list, f)
    <3>1. f - c \in (g + 1)..(h - 1) /\ f - c \in j..k /\ c + (f - c) = f
      OBVIOUS
    <3> QED
      BY <1>2, <1>4, <3>1
  <2>3. list[c + g].age - list[c + h].age <= MaxGap
    BY <2>1, <2>2 DEF Runs
  <2> QED
    BY <1>1, <2>3
<1> QED
  BY <1>3, <1>4 DEF Runs

\* A run goes on when the same is seen soon enough.
LEMMA RunsOn ==
    ASSUME NEW list, NEW look, NEW j \in Nat, NEW k \in Nat, NEW n \in Nat, j <= k, k < n,
           Runs(list, look, j, k), Sees(list, k), \A h \in (k + 1)..(n - 1) : ~Sees(list, h),
           list[n].look = look, list[k].age - list[n].age <= MaxGap
    PROVE  Runs(list, look, j, n)
<1>1. \A h \in j..n : h \in j..k \/ h \in (k + 1)..(n - 1) \/ h = n
  OBVIOUS
<1>2. \A h \in j..n : Sees(list, h) => list[h].look = look
  BY <1>1 DEF Runs
<1>3. ASSUME NEW g \in j..n, NEW h \in j..n, Sees(list, g), Sees(list, h), g < h,
             \A f \in (g + 1)..(h - 1) : ~Sees(list, f)
      PROVE  list[g].age - list[h].age <= MaxGap
  <2>1. g \in j..k
    BY <1>1, <1>3
  <2>2. CASE h \in j..k
    BY <1>3, <2>1, <2>2 DEF Runs
  <2>3. CASE h = n
    <3>1. g = k
      <4>1. ~(g < k)
        <5>1. g < k => k \in (g + 1)..(h - 1)
          BY <2>1, <2>3
        <5> QED
          BY <1>3, <5>1
      <4> QED
        BY <2>1, <4>1
    <3> QED
      BY <2>3, <3>1
  <2> QED
    BY <1>1, <1>3, <2>2, <2>3
<1> QED
  BY <1>2, <1>3 DEF Runs

\* Everything up to place c is older than that; what is left begins at place j, not much newer.
AllBeyond(list, c, edge) == \A m \in 1..c : list[m].age > edge
AgesUpTo(list, k) == \A m \in 1..k : list[m].age \in Int
NearTheEdge(list, i, j, edge) ==
    i <= j /\ Sees(list, j) /\ (j # i => list[j].age > edge - MaxGap)

\* Of a run whose beginning is dropped, the first sample that is left is close to the edge.
LEMMA FirstOfTheRest ==
    ASSUME NEW list, NEW i \in Nat, NEW k \in Nat, i >= 1, i <= k,
           AgesUpTo(list, k),
           Sees(list, i), Sees(list, k), Runs(list, "closed", i, k), MaxGap \in Nat,
           NEW c \in 0..(k - 1), NEW edge \in Int, AllBeyond(list, c, edge)
    PROVE  \E j \in (c + 1)..k : NearTheEdge(list, i, j, edge)
<1>1. CASE i > c
  <2>1. i \in (c + 1)..k /\ i <= i
    BY <1>1
  <2> QED
    BY <2>1 DEF NearTheEdge
<1>2. CASE i <= c
  <2> DEFINE P == {m \in (c + 1)..k : Sees(list, m)}
             Q == {m \in i..c : Sees(list, m)}
  <2>1. P \in SUBSET Nat /\ k \in P
    OBVIOUS
  <2>2. PICK b \in P : \A m \in P : b <= m
    <3> HIDE DEF P
    <3>1. P # {}
      BY <2>1
    <3> QED
      BY <2>1, <3>1, LeastExists
  <2>3. Q \in SUBSET (1..c) /\ i \in Q /\ c \in Nat
    BY <1>2
  <2> DEFINE g == Max(Q)
  <2>4. g \in Q /\ \A m \in Q : g >= m
    <3> HIDE DEF Q
    <3>1. Q # {}
      BY <2>3
    <3> QED
      BY <2>3, <3>1, GreatestIsMax
  <2> HIDE DEF g
  <2>5. /\ b \in (c + 1)..k /\ Sees(list, b) /\ g \in i..c /\ Sees(list, g)
        /\ \A m \in (c + 1)..k : Sees(list, m) => b <= m
        /\ \A m \in i..c : Sees(list, m) => g >= m
    BY <2>2, <2>4
  <2> HIDE DEF P, Q
  <2>6. \A f \in (g + 1)..(b - 1) : ~Sees(list, f)
    <3> SUFFICES ASSUME NEW f \in (g + 1)..(b - 1), Sees(list, f) PROVE FALSE
      OBVIOUS
    <3>1. f \in i..c \/ f \in (c + 1)..k
      BY <2>5
    <3> QED
      BY <2>5, <3>1
  <2>7. g \in i..k /\ b \in i..k /\ g < b
    BY <1>2, <2>5
  <2>8. list[g].age - list[b].age <= MaxGap
    BY <2>5, <2>6, <2>7 DEF Runs
  <2>9. list[g].age > edge /\ list[g].age \in Int /\ list[b].age \in Int
    <3>1. g \in 1..c /\ g \in 1..k /\ b \in 1..k
      BY <2>5
    <3> QED
      BY <3>1 DEF AllBeyond, AgesUpTo
  <2>10. list[b].age > edge - MaxGap
    BY <2>8, <2>9
  <2> QED
    BY <2>5, <2>7, <2>10 DEF NearTheEdge
<1> QED
  BY <1>1, <1>2

\* From place i to place k nothing was seen but closed eyes, the last of them of that age, for
\* at least that long.
RunUpTo(list, i, k, span, age) ==
    /\ list[i].look = "closed" /\ list[k].look = "closed" /\ list[k].age = age
    /\ Runs(list, "closed", i, k)
    /\ list[i].age - age >= span \/ list[i].age = AssistOld

\* Closed eyes that are remembered, and nothing seen since.
Slept(list, span, age) ==
    \E k \in 1..Len(list) :
        /\ \A h \in (k + 1)..Len(list) : ~Sees(list, h)
        /\ \E i \in 1..k : RunUpTo(list, i, k, span, age)

\* A run that ended a short while ago is still in the window, as much of it as counts.
LEMMA RunKept ==
    ASSUME AssistAssumption, NEW list \in Seq(DmsSamples), Falling(list),
           NEW late \in 0..MaxLate, NEW x, NEW new, NEW c \in 0..Len(list),
           Windowed(list, late, DmsWindow, x, new, c),
           NEW k \in 1..Len(list), NEW i \in 1..k, NEW span \in 0..Microsleep, NEW age \in Nat,
           RunUpTo(list, i, k, span, age), age - late <= MaxGap
    PROVE  k > c /\ \E j \in 1..(k - c) : RunUpTo(new, j, k - c, span, age)
<1> DEFINE n == Len(list)
           edge == late + DmsWindow
<1>1. /\ n \in Nat /\ DOMAIN list = 1..n /\ late \in Nat /\ MaxGap \in Nat /\ Microsleep \in Nat
      /\ DmsWindow \in Nat /\ 2 * MaxGap + Microsleep <= DmsWindow
  BY LenProperties DEF AssistAssumption
<1>2. \A m \in 1..n : list[m].age \in Nat
  BY <1>1, AssistOldIs DEF Falling
<1>3. /\ \A m \in 1..n : list[m].age - late <= DmsWindow <=> m > c
      /\ \A m \in 1..(n - c) : new[m] = list[c + m]
  BY DEF Windowed
<1>4. /\ list[i].look = "closed" /\ list[k].look = "closed" /\ list[k].age = age
      /\ Runs(list, "closed", i, k) /\ (list[i].age - age >= span \/ list[i].age = AssistOld)
  BY DEF RunUpTo
<1>5. Sees(list, i) /\ Sees(list, k)
  BY <1>4 DEF Sees
<1> HIDE DEF n
<1>6. k \in 1..n /\ i \in 1..n /\ i <= k
  BY <1>1 DEF n
<1>7. k > c
  <2>1. list[k].age - late <= DmsWindow
    BY <1>1, <1>4
  <2> QED
    BY <1>3, <1>6, <2>1
<1>8. AllBeyond(list, c, edge)
  <2> SUFFICES ASSUME NEW m \in 1..c PROVE list[m].age > edge
    BY DEF AllBeyond
  <2>1. m \in 1..n /\ ~(m > c)
    BY DEF n
  <2>2. ~(list[m].age - late <= DmsWindow) /\ list[m].age \in Nat
    BY <1>2, <1>3, <2>1
  <2> QED
    BY <1>1, <2>2, SMTT(30)
<1>9. PICK j \in (c + 1)..k : NearTheEdge(list, i, j, edge)
  <2>1. i \in Nat /\ k \in Nat /\ i >= 1 /\ c \in 0..(k - 1) /\ edge \in Int
    BY <1>1, <1>6, <1>7
  <2>2. AgesUpTo(list, k)
    BY <1>1, <1>2, <1>6 DEF AgesUpTo
  <2>3. Runs(list, "closed", i, k) /\ MaxGap \in Nat
    BY <1>1, <1>4
  <2> HIDE DEF edge
  <2>4. i \in Nat /\ k \in Nat /\ i >= 1 /\ i <= k /\ c \in 0..(k - 1) /\ edge \in Int
    BY <1>6, <2>1
  <2> QED
    BY <1>5, <1>8, <2>2, <2>3, <2>4, FirstOfTheRest
<1> HIDE DEF edge
<1>9a. /\ j \in Int /\ j > c /\ j <= k /\ i <= j /\ Sees(list, j)
       /\ j # i => list[j].age > edge - MaxGap
  BY <1>6, <1>9 DEF NearTheEdge
<1>10. j \in i..k /\ list[j].look = "closed" /\ j \in 1..n
  <2>1. j \in i..k /\ j \in 1..n
    BY <1>1, <1>6, <1>9a
  <2> QED
    BY <1>4, <1>9a, <2>1 DEF Runs
<1>11. list[j].age - age >= span \/ list[j].age = AssistOld
  <2>1. CASE j = i
    BY <1>4, <2>1
  <2>2. CASE j # i
    <3>1. list[j].age > late + DmsWindow - MaxGap /\ list[j].age \in Nat
      <4>1. list[j].age > edge - MaxGap
        BY <1>9a, <2>2
      <4> QED
        BY <1>1, <1>2, <1>10, <4>1 DEF edge
    <3>2. span \in Nat /\ span <= Microsleep
      BY <1>1
    <3> QED
      BY <1>1, <3>1, <3>2
  <2> QED
    BY <2>1, <2>2
<1>12. Runs(list, "closed", j, k)
  BY <1>4, <1>6, <1>9a, RunsLater
<1>13. /\ j - c \in 1..(k - c) /\ k - c \in 1..(n - c) /\ j - c \in 1..(n - c)
       /\ c + (j - c) = j /\ c + (k - c) = k /\ n - c \in Nat /\ c \in Nat
  BY <1>1, <1>6, <1>7, <1>9a
<1>14. Runs(new, "closed", j - c, k - c)
  <2> DEFINE a == j - c
             b == k - c
             N == n - c
  <2>1. Runs(list, "closed", c + a, c + b)
    BY <1>12, <1>13
  <2>2. a \in 1..N /\ b \in 1..N /\ N \in Nat /\ c \in Nat /\ \A m \in 1..N : new[m] = list[c + m]
    BY <1>3, <1>13
  <2> HIDE DEF a, b, N
  <2>3. Runs(new, "closed", a, b)
    BY <2>1, <2>2, RunsMove
  <2> QED
    BY <2>3 DEF a, b
<1>15. new[j - c] = list[j] /\ new[k - c] = list[k]
  BY <1>3, <1>13
<1>16. RunUpTo(new, j - c, k - c, span, age)
  BY <1>4, <1>10, <1>11, <1>14, <1>15 DEF RunUpTo
<1> QED
  BY <1>7, <1>13, <1>16

\* So closed eyes are remembered with what is kept of the list and one more sample, whether
\* that shows nothing, or closed eyes again.
LEMMA SleptOn ==
    ASSUME AssistAssumption, NEW list \in Seq(DmsSamples), Falling(list),
           NEW late \in 0..MaxLate, NEW x, x.age = late, NEW new, DOMAIN new = 1..Len(new),
           NEW c \in 0..Len(list), Windowed(list, late, DmsWindow, x, new, c),
           NEW span \in 0..Microsleep, NEW age \in Nat,
           Slept(list, span, age), late < age, age - late <= MaxGap
    PROVE  /\ x.look \in {"faceless", "unreliable"} => Slept(new, span, age)
           /\ x.look = "closed" => Slept(new, Min({span + age - late, Microsleep}), late)
<1> DEFINE n == Len(list)
           N == Len(new)
<1>1. n \in Nat /\ late \in Nat /\ Microsleep \in Nat /\ span \in Nat
  BY LenProperties DEF AssistAssumption
<1>2. /\ N = n - c + 1 /\ new[N] = x
      /\ \A m \in 1..(n - c) : new[m] = list[c + m]
  BY DEF Windowed
<1>3. PICK k \in 1..n : /\ \A h \in (k + 1)..n : ~Sees(list, h)
                        /\ \E i \in 1..k : RunUpTo(list, i, k, span, age)
  BY DEF Slept
<1>4. k > c /\ \E j \in 1..(k - c) : RunUpTo(new, j, k - c, span, age)
  BY <1>3, RunKept
<1>5. PICK j \in 1..(k - c) : RunUpTo(new, j, k - c, span, age)
  BY <1>4
<1> DEFINE b == k - c
<1> HIDE DEF n, N
<1>6. /\ b \in Nat /\ b >= 1 /\ b <= N - 1 /\ N \in Nat /\ j \in Nat /\ j >= 1 /\ j <= b
      /\ k = c + b /\ c \in Nat
  BY <1>1, <1>2, <1>3, <1>4, <1>5
<1>7. \A h \in (b + 1)..(N - 1) : ~Sees(new, h)
  <2> SUFFICES ASSUME NEW h \in (b + 1)..(N - 1) PROVE ~Sees(new, h)
    OBVIOUS
  <2>1. h \in 1..(n - c) /\ c + h \in (k + 1)..n
    BY <1>1, <1>2, <1>6
  <2>2. new[h] = list[c + h] /\ ~Sees(list, c + h)
    BY <1>2, <1>3, <2>1
  <2> QED
    BY <2>2 DEF Sees
<1>8. RunUpTo(new, j, b, span, age)
  BY <1>5
<1> HIDE DEF b
<1>9. /\ new[j].look = "closed" /\ new[b].look = "closed" /\ new[b].age = age
      /\ Runs(new, "closed", j, b) /\ (new[j].age - age >= span \/ new[j].age = AssistOld)
  BY <1>8 DEF RunUpTo
<1>10. ASSUME x.look \in {"faceless", "unreliable"} PROVE Slept(new, span, age)
  <2>1. ~Sees(new, N)
    BY <1>2, <1>10 DEF Sees
  <2>2. \A h \in (b + 1)..N : ~Sees(new, h)
    <3>1. \A h \in (b + 1)..N : h = N \/ h \in (b + 1)..(N - 1)
      BY <1>6
    <3> QED
      BY <1>7, <2>1, <3>1
  <2>3. b \in 1..N /\ j \in 1..b
    BY <1>6
  <2> QED
    BY <1>8, <2>2, <2>3 DEF Slept, N
<1>11. ASSUME x.look = "closed"
       PROVE  Slept(new, Min({span + age - late, Microsleep}), late)
  <2> DEFINE s == Min({span + age - late, Microsleep})
  <2>1. s \in Int /\ s <= span + age - late
    <3>1. s = IF span + age - late <= Microsleep THEN span + age - late ELSE Microsleep
      BY <1>1, MinOfTwo
    <3> QED
      BY <1>1, <3>1
  <2> HIDE DEF s
  <2>2. new[N].look = "closed" /\ new[N].age = late
    BY <1>2, <1>11
  <2>3. Runs(new, "closed", j, N)
    <3>1. Sees(new, b) /\ new[b].age - new[N].age <= MaxGap
      BY <1>9, <2>2 DEF Sees
    <3>2. j <= b /\ b < N
      BY <1>6
    <3> QED
      BY <1>6, <1>7, <1>9, <2>2, <3>1, <3>2, RunsOn
  <2>4. new[j].age - late >= s \/ new[j].age = AssistOld
    <3>1. CASE new[j].age - age >= span
      <4>1. new[j].age \in Int
        <5>1. j \in 1..(n - c) /\ c + j \in 1..n
          BY <1>1, <1>2, <1>6
        <5>2. new[j] = list[c + j]
          BY <1>2, <5>1
        <5>3. list[c + j].age \in 0..AssistOld
          BY <5>1, LenProperties DEF Falling, n
        <5> QED
          BY <5>2, <5>3
      <4> QED
        BY <1>1, <2>1, <3>1, <4>1, SMTT(30)
    <3>2. CASE new[j].age = AssistOld
      BY <3>2
    <3> QED
      BY <1>9, <3>1, <3>2
  <2>5. RunUpTo(new, j, N, s, late)
    BY <1>9, <2>2, <2>3, <2>4 DEF RunUpTo
  <2>6. N \in 1..N /\ j \in 1..N /\ (N + 1)..N = {}
    BY <1>6
  <2>7. Slept(new, s, late)
    BY <2>5, <2>6 DEF Slept, N
  <2> QED
    BY <2>7 DEF s
<1> QED
  BY <1>10, <1>11

\* One closed look is a run of its own.
LEMMA FallsAsleep ==
    ASSUME NEW new, NEW late \in Nat, Len(new) \in Nat, Len(new) >= 1,
           new[Len(new)].look = "closed", new[Len(new)].age = late
    PROVE  Slept(new, 0, late)
<1> DEFINE N == Len(new)
<1>1. N \in 1..N /\ (N + 1)..N = {} /\ N \in Nat
  OBVIOUS
<1> HIDE DEF N
<1>2. Runs(new, "closed", N, N)
  <2>1. \A h \in N..N : h = N
    BY <1>1
  <2>2. \A h \in N..N : new[h].look = "closed"
    BY <2>1 DEF N
  <2>3. \A g, h \in N..N : ~(g < h)
    BY <1>1
  <2> QED
    BY <2>2, <2>3 DEF Runs
<1>3. new[N].look = "closed" /\ new[N].age = late
  BY DEF N
<1>4. RunUpTo(new, N, N, 0, late)
  BY <1>2, <1>3 DEF RunUpTo
<1> QED
  BY <1>1, <1>4 DEF Slept, N

\* Everything is within the window that ends with the newest.
InWindow(list) == \A i \in DOMAIN list : list[i].age - list[Len(list)].age <= DmsWindow

\* A gap between two that follow one another is known.
GapsKnown(list, gap) ==
    \A i \in 2..Len(list) : list[i - 1].age - list[i].age > MaxGap => gap <= list[i].age

\* Closed eyes are remembered unless that is too long ago.
Dozes(list, span, age) ==
    age < AssistOld =>
        /\ list # <<>> /\ list[Len(list)].age <= age
        /\ age - list[Len(list)].age <= MaxGap => Slept(list, span, age)

DmsInv ==
    /\ samples \in Seq(DmsSamples) /\ Falling(samples)
    /\ closed \in [span : 0..Microsleep, age : 0..AssistOld] /\ gapAge \in Nat
    /\ InWindow(samples) /\ GapsKnown(samples, gapAge) /\ Dozes(samples, closed.span, closed.age)

\* DmsInv holds at first: nothing was sampled.
LEMMA DmsInvInit == AssistAssumption /\ AssistInit => DmsInv
<1> SUFFICES ASSUME AssistAssumption, AssistInit PROVE DmsInv
  OBVIOUS
<1>1. AssistOld \in Nat /\ Microsleep \in Nat
  BY AssistOldIs DEF AssistAssumption
<1>2. samples = <<>> /\ samples \in Seq(DmsSamples) /\ DOMAIN samples = {} /\ Len(samples) = 0
  BY DEF AssistInit
<1>3. closed = [span |-> 0, age |-> AssistOld] /\ gapAge = AssistOld
  BY DEF AssistInit
<1>4. closed \in [span : 0..Microsleep, age : 0..AssistOld] /\ closed.age = AssistOld
  BY <1>1, <1>3
<1>5. Falling(samples) /\ InWindow(samples) /\ GapsKnown(samples, gapAge)
  BY <1>2 DEF Falling, InWindow, GapsKnown
<1>6. Dozes(samples, closed.span, closed.age)
  BY <1>1, <1>4 DEF Dozes
<1> QED
  BY <1>1, <1>2, <1>3, <1>4, <1>5, <1>6 DEF DmsInv

\* The gaps of what is kept, and the one before the newest.
LEMMA GapsStayKnown ==
    ASSUME NEW list \in Seq(DmsSamples), NEW late \in Nat, NEW window, NEW x, x.age = late, NEW new,
           NEW c \in 0..Len(list), Windowed(list, late, window, x, new, c),
           NEW gap \in Nat, GapsKnown(list, gap), NEW later, later \in {gap, late},
           list # <<>> /\ list[Len(list)].age - late > MaxGap => later = late,
           \A m \in 1..Len(new) : new[m].age - late \in Nat /\ new[m].age \in Int
    PROVE  GapsKnown(new, later)
<1> DEFINE n == Len(list)
           N == Len(new)
<1>1. n \in Nat /\ DOMAIN list = 1..n
  BY LenProperties
<1>2. N = n - c + 1 /\ new[N] = x /\ \A m \in 1..(n - c) : new[m] = list[c + m]
  BY DEF Windowed
<1>3. list # <<>> /\ list[n].age - late > MaxGap => later = late
  OBVIOUS
<1>4. \A m \in 1..N : new[m].age - late \in Nat /\ new[m].age \in Int
  OBVIOUS
<1>5. \A i \in 2..n : list[i - 1].age - list[i].age > MaxGap => gap <= list[i].age
  BY DEF GapsKnown
<1>6. n # 0 => list # <<>>
  BY <1>1
<1> HIDE DEF n, N
<1> SUFFICES ASSUME NEW i \in 2..N, new[i - 1].age - new[i].age > MaxGap PROVE later <= new[i].age
  BY DEF GapsKnown, N
<1>7. i \in 1..N /\ new[i].age >= late /\ new[i].age \in Int
  <2>1. i \in 1..N
    BY <1>1, <1>2
  <2>2. new[i].age - late \in Nat /\ new[i].age \in Int
    BY <1>4, <2>1
  <2> QED
    BY <2>1, <2>2
<1>8. CASE later = late
  BY <1>7, <1>8
<1>9. CASE later = gap /\ later # late
  <2>1. CASE i = N
    <3>1. N - 1 \in 1..(n - c) /\ c + (N - 1) = n /\ n # 0
      BY <1>1, <1>2, <2>1
    <3>2. new[N - 1] = list[n]
      BY <1>2, <3>1
    <3>3. new[N].age = late
      BY <1>2
    <3>4. list[n].age - late > MaxGap
      BY <2>1, <3>2, <3>3
    <3> QED
      BY <1>3, <1>6, <1>9, <3>1, <3>4
  <2>2. CASE i # N
    <3>1. /\ i \in 1..(n - c) /\ i - 1 \in 1..(n - c) /\ c + i \in 2..n /\ c + (i - 1) = (c + i) - 1
      BY <1>1, <1>2, <2>2
    <3>2. new[i] = list[c + i] /\ new[i - 1] = list[(c + i) - 1]
      <4>1. new[i - 1] = list[c + (i - 1)]
        BY <1>2, <3>1
      <4> QED
        BY <1>2, <3>1, <4>1
    <3>3. gap <= list[c + i].age
      BY <1>5, <3>1, <3>2
    <3> QED
      BY <1>9, <3>2, <3>3
  <2> QED
    BY <2>1, <2>2
<1> QED
  BY <1>8, <1>9

\* DmsInv is kept by a sample.
LEMMA IngestKeepsDms ==
    ASSUME AssistAssumption, DmsInv, NEW look \in Looks, NEW late \in 0..MaxLate,
           IngestDriver(look, late)
    PROVE  DmsInv'
<1> DEFINE x == [age |-> late, look |-> look]
           new == Append(Kept(samples, Within(samples, late, DmsWindow)), x)
           newest == samples[Len(samples)]
<1>1. /\ samples # <<>> => late < newest.age
      /\ samples' = new
      /\ gapAge' = IF samples # <<>> /\ newest.age - late > MaxGap THEN late ELSE gapAge
  BY DEF IngestDriver, RecentSamples, Within
<1>2. /\ late \in Nat /\ late <= MaxLate /\ MaxLate \in Nat /\ AssistOld \in Nat /\ DmsWindow \in Nat
      /\ DmsWindow + MaxLate < AssistOld /\ MaxGap \in Nat /\ Microsleep \in Nat
      /\ 2 * MaxGap + Microsleep <= DmsWindow
  BY AssistOldIs DEF AssistAssumption
<1>3. x \in DmsSamples /\ x.age = late /\ x.look = look
  BY <1>2 DEF DmsSamples
<1>4. samples \in Seq(DmsSamples) /\ Falling(samples) /\ closed.span \in 0..Microsleep
      /\ closed.age \in 0..AssistOld /\ gapAge \in Nat /\ GapsKnown(samples, gapAge)
      /\ Dozes(samples, closed.span, closed.age)
  BY DEF DmsInv
<1> HIDE DEF x
<1>5. /\ new \in Seq(DmsSamples) /\ Falling(new)
      /\ \E c \in 0..Len(samples) : Windowed(samples, late, DmsWindow, x, new, c)
  BY <1>1, <1>2, <1>3, <1>4, WindowKeepsTheEnd
<1> HIDE DEF new
<1>6. PICK c \in 0..Len(samples) : Windowed(samples, late, DmsWindow, x, new, c)
  BY <1>5
<1>7. /\ DOMAIN new = 1..Len(new) /\ Len(new) \in Nat /\ Len(new) >= 1 /\ new # <<>>
      /\ new[Len(new)] = x /\ new[Len(new)].age = late
  <2>1. DOMAIN new = 1..Len(new) /\ Len(samples) \in Nat
    BY <1>4, <1>5, LenProperties
  <2>2. Len(new) = Len(samples) - c + 1 /\ new[Len(new)] = x
    BY <1>6 DEF Windowed
  <2>3. Len(new) \in Nat /\ Len(new) >= 1
    BY <2>1, <2>2
  <2> QED
    BY <1>3, <2>1, <2>2, <2>3
<1>8. \A m \in 1..Len(new) : /\ new[m].age - late \in Nat /\ new[m].age - late <= DmsWindow
                             /\ new[m].age \in Int
  <2> SUFFICES ASSUME NEW m \in 1..Len(new)
               PROVE  /\ new[m].age - late \in Nat /\ new[m].age - late <= DmsWindow
                      /\ new[m].age \in Int
    OBVIOUS
  <2>1. new[m].age - late \in 0..DmsWindow
    BY <1>6 DEF Windowed
  <2>2. new[m].age \in 0..AssistOld
    BY <1>5, <1>7 DEF Falling
  <2> QED
    BY <1>2, <2>1, <2>2
<1>9. InWindow(new)
  BY <1>7, <1>8 DEF InWindow
<1>10. gapAge' \in Nat /\ GapsKnown(new, gapAge')
  <2>1. gapAge' \in {gapAge, late} /\ gapAge' \in Nat
    BY <1>1, <1>2, <1>4
  <2>2. samples # <<>> /\ samples[Len(samples)].age - late > MaxGap => gapAge' = late
    BY <1>1
  <2>3. \A m \in 1..Len(new) : new[m].age - late \in Nat /\ new[m].age \in Int
    BY <1>8
  <2> DEFINE g == gapAge'
  <2>4. g \in {gapAge, late} /\ (samples # <<>> /\ samples[Len(samples)].age - late > MaxGap => g = late)
    BY <2>1, <2>2
  <2> HIDE DEF g
  <2>5. GapsKnown(new, g)
    BY <1>2, <1>3, <1>4, <1>6, <2>3, <2>4, GapsStayKnown
  <2> QED
    BY <2>1, <2>5 DEF g
\* Eyes that were closed a short while ago are remembered.
<1>11. ASSUME closed.age - late <= MaxGap
       PROVE  /\ closed.age \in Nat /\ late < closed.age
              /\ Slept(samples, closed.span, closed.age)
  <2>1. closed.age \in Nat /\ closed.age < AssistOld
    BY <1>2, <1>4, <1>11
  <2>2. samples # <<>> /\ newest.age <= closed.age
    BY <1>4, <2>1 DEF Dozes
  <2>3. newest.age \in Nat
    <3>1. Len(samples) \in DOMAIN samples
      BY <1>4, <2>2, LenProperties, EmptySeq
    <3> QED
      BY <1>2, <1>4, <3>1 DEF Falling
  <2>4. late < newest.age
    BY <1>1, <2>2
  <2>5. closed.age - newest.age <= MaxGap /\ late < closed.age
    BY <1>2, <1>11, <2>1, <2>2, <2>3, <2>4
  <2> HIDE DEF newest
  <2> QED
    BY <1>4, <2>1, <2>5 DEF Dozes, newest
<1>12. ASSUME closed.age - late <= MaxGap
       PROVE  /\ look \in {"faceless", "unreliable"} => Slept(new, closed.span, closed.age)
              /\ look = "closed" => Slept(new, Min({closed.span + closed.age - late, Microsleep}), late)
  <2> DEFINE s == closed.span
             a == closed.age
  <2>1. s \in 0..Microsleep /\ a \in Nat /\ late < a /\ a - late <= MaxGap /\ Slept(samples, s, a)
    BY <1>4, <1>11, <1>12
  <2>2. DOMAIN new = 1..Len(new)
    BY <1>7
  <2> HIDE DEF s, a
  <2>3. /\ x.look \in {"faceless", "unreliable"} => Slept(new, s, a)
        /\ x.look = "closed" => Slept(new, Min({s + a - late, Microsleep}), late)
    BY <1>3, <1>4, <1>6, <2>1, <2>2, SleptOn
  <2> QED
    BY <1>3, <2>3 DEF s, a
<1>13. CASE look = "closed"
  <2>1. closed' = [span |-> IF closed.age - late <= MaxGap
                            THEN Min({closed.span + closed.age - late, Microsleep}) ELSE 0,
                   age |-> late]
    BY <1>13 DEF IngestDriver
  <2>2. CASE closed.age - late <= MaxGap
    <3> DEFINE s == Min({closed.span + closed.age - late, Microsleep})
    <3>1. closed' = [span |-> s, age |-> late] /\ Slept(new, s, late)
      BY <1>12, <1>13, <2>1, <2>2
    <3>2. s \in 0..Microsleep
      <4>1. closed.age \in Nat /\ late < closed.age /\ closed.span \in Nat
        BY <1>2, <1>4, <1>11, <2>2
      <4>2. s = IF closed.span + closed.age - late <= Microsleep
                THEN closed.span + closed.age - late ELSE Microsleep
        BY <1>2, <4>1, MinOfTwo
      <4> QED
        BY <1>2, <4>1, <4>2
    <3> HIDE DEF s
    <3>3. /\ closed'.span = s /\ closed'.age = late
          /\ closed' \in [span : 0..Microsleep, age : 0..AssistOld]
      <4>1. late \in 0..AssistOld
        BY <1>2
      <4> QED
        BY <3>1, <3>2, <4>1
    <3>4. Dozes(new, s, late)
      BY <1>2, <1>7, <3>1 DEF Dozes
    <3>5. Dozes(new, closed'.span, closed'.age)
      BY <3>3, <3>4
    <3> QED
      BY <1>1, <1>5, <1>9, <1>10, <3>3, <3>5 DEF DmsInv
  <2>3. CASE ~(closed.age - late <= MaxGap)
    <3>1. closed' = [span |-> 0, age |-> late]
      BY <2>1, <2>3
    <3>2. Slept(new, 0, late)
      <4>1. new[Len(new)].look = "closed"
        BY <1>3, <1>7, <1>13
      <4> QED
        BY <1>2, <1>7, <4>1, FallsAsleep
    <3>3. /\ closed'.span = 0 /\ closed'.age = late
          /\ closed' \in [span : 0..Microsleep, age : 0..AssistOld]
      <4>1. late \in 0..AssistOld /\ 0 \in 0..Microsleep
        BY <1>2
      <4> QED
        BY <3>1, <4>1
    <3>4. Dozes(new, 0, late)
      BY <1>2, <1>7, <3>2 DEF Dozes
    <3>5. Dozes(new, closed'.span, closed'.age)
      BY <3>3, <3>4
    <3> QED
      BY <1>1, <1>5, <1>9, <1>10, <3>3, <3>5 DEF DmsInv
  <2> QED
    BY <2>2, <2>3
<1>14. CASE look \in {"attentive", "away"}
  <2>1. closed' = [span |-> 0, age |-> AssistOld]
    BY <1>14 DEF IngestDriver
  <2>2. closed' \in [span : 0..Microsleep, age : 0..AssistOld] /\ closed'.age = AssistOld
    BY <1>2, <2>1
  <2>3. Dozes(new, closed'.span, closed'.age)
    BY <1>2, <2>2 DEF Dozes
  <2> QED
    BY <1>1, <1>5, <1>9, <1>10, <2>2, <2>3 DEF DmsInv
<1>15. CASE look \in {"faceless", "unreliable"}
  <2>1. closed' = closed
    BY <1>15 DEF IngestDriver
  <2>2. Dozes(new, closed.span, closed.age)
    <3> SUFFICES ASSUME closed.age < AssistOld
                 PROVE  /\ new # <<>> /\ new[Len(new)].age <= closed.age
                        /\ closed.age - new[Len(new)].age <= MaxGap => Slept(new, closed.span, closed.age)
      BY DEF Dozes
    <3>1. late <= closed.age
      <4>1. closed.age \in Nat
        BY <1>2, <1>4
      <4>2. CASE closed.age - late <= MaxGap
        BY <1>2, <1>11, <4>1, <4>2
      <4>3. CASE ~(closed.age - late <= MaxGap)
        BY <1>2, <4>1, <4>3
      <4> QED
        BY <4>2, <4>3
    <3> QED
      BY <1>7, <1>12, <1>15, <3>1
  <2>3. Dozes(new, closed'.span, closed'.age)
    BY <2>1, <2>2
  <2>4. closed' \in [span : 0..Microsleep, age : 0..AssistOld]
    BY <2>1 DEF DmsInv
  <2> QED
    BY <1>1, <1>5, <1>9, <1>10, <2>3, <2>4 DEF DmsInv
<1> QED
  BY <1>13, <1>14, <1>15 DEF Looks

\* Two ages come no further apart.
LEMMA LaterTogether ==
    ASSUME AssistAssumption, NEW a \in 0..AssistOld, NEW b \in 0..AssistOld, a >= b
    PROVE  /\ Later(a) \in 0..AssistOld /\ Later(b) \in 0..AssistOld
           /\ Later(a) >= Later(b) /\ Later(a) - Later(b) <= a - b
           /\ a < AssistOld => Later(a) - Later(b) = a - b
           /\ a = AssistOld => Later(a) = AssistOld
BY AssistOldIs DEF Later

\* Lists that grow old keep what they are.
LEMMA SleptLater ==
    ASSUME AssistAssumption, NEW list \in Seq(DmsSamples), Falling(list),
           NEW new, Len(new) = Len(list), Aged(list, new),
           \A i \in 1..Len(list) : new[i].look = list[i].look,
           NEW span \in Nat, NEW age \in Nat, age < AssistOld, Slept(list, span, age)
    PROVE  Slept(new, span, age + 1)
<1> DEFINE n == Len(list)
<1>1. n \in Nat /\ DOMAIN list = 1..n /\ AssistOld \in Nat
  BY LenProperties, AssistOldIs
<1>2. /\ \A i \in 1..n : list[i].age \in 0..AssistOld /\ new[i].age = Later(list[i].age)
      /\ \A i, j \in 1..n : i < j => list[i].age > list[j].age \/ list[i].age = AssistOld
  BY <1>1 DEF Falling, Aged
<1>3. \A i \in 1..n : Sees(new, i) <=> Sees(list, i)
  BY DEF Sees
<1>4. \A i, j \in 1..n : i <= j => list[i].age >= list[j].age
  <2> SUFFICES ASSUME NEW i \in 1..n, NEW j \in 1..n, i <= j PROVE list[i].age >= list[j].age
    OBVIOUS
  <2>1. list[i].age \in 0..AssistOld /\ list[j].age \in 0..AssistOld
    BY <1>2
  <2>2. i < j => list[i].age > list[j].age \/ list[i].age = AssistOld
    BY <1>2
  <2> QED
    BY <1>1, <2>1, <2>2
<1>5. PICK k \in 1..n : /\ \A h \in (k + 1)..n : ~Sees(list, h)
                        /\ \E i \in 1..k : RunUpTo(list, i, k, span, age)
  BY DEF Slept
<1>6. PICK i \in 1..k : RunUpTo(list, i, k, span, age)
  BY <1>5
<1>7. /\ list[i].look = "closed" /\ list[k].look = "closed" /\ list[k].age = age
      /\ Runs(list, "closed", i, k) /\ (list[i].age - age >= span \/ list[i].age = AssistOld)
  BY <1>6 DEF RunUpTo
<1>8. new[i].look = "closed" /\ new[k].look = "closed"
  BY <1>1, <1>7
<1> HIDE DEF n
<1>9. i \in 1..n /\ \A h \in i..k : h \in 1..n
  BY <1>1
<1>10. new[k].age = age + 1
  <2>1. new[k].age = Later(age)
    BY <1>2, <1>7
  <2> QED
    BY <2>1, LaterIsOn
<1>11. new[i].age - (age + 1) >= span \/ new[i].age = AssistOld
  <2>1. list[i].age \in 0..AssistOld /\ new[i].age = Later(list[i].age)
    BY <1>2, <1>9
  <2>2. CASE list[i].age = AssistOld
    <3>1. Later(AssistOld) = AssistOld
      BY <1>1 DEF Later
    <3> QED
      BY <2>1, <2>2, <3>1
  <2>3. CASE list[i].age # AssistOld
    <3> DEFINE a == list[i].age
    <3>2. a \in Nat /\ a < AssistOld
      BY <1>1, <2>1, <2>3
    <3>1. new[i].age = list[i].age + 1
      <4>1. new[i].age = Later(a)
        BY <2>1
      <4> HIDE DEF a
      <4>2. Later(a) = a + 1
        BY <3>2, LaterIsOn
      <4> QED
        BY <4>1, <4>2 DEF a
    <3> QED
      BY <1>7, <2>1, <2>3, <3>1
  <2> QED
    BY <2>2, <2>3
<1>12. Runs(new, "closed", i, k)
  <2>1. \A h \in i..k : Sees(new, h) => new[h].look = "closed"
    <3> SUFFICES ASSUME NEW h \in i..k, Sees(new, h) PROVE new[h].look = "closed"
      OBVIOUS
    <3>1. h \in 1..n
      BY <1>9
    <3>2. list[h].look = "closed"
      BY <1>3, <1>7, <3>1 DEF Runs
    <3> QED
      BY <3>1, <3>2 DEF n
  <2>2. ASSUME NEW g \in i..k, NEW h \in i..k, Sees(new, g), Sees(new, h), g < h,
               \A f \in (g + 1)..(h - 1) : ~Sees(new, f)
        PROVE  new[g].age - new[h].age <= MaxGap
    <3>1. g \in 1..n /\ h \in 1..n /\ \A f \in (g + 1)..(h - 1) : f \in 1..n
      BY <1>9
    <3>2. Sees(list, g) /\ Sees(list, h) /\ \A f \in (g + 1)..(h - 1) : ~Sees(list, f)
      BY <1>3, <2>2, <3>1
    <3>3. list[g].age - list[h].age <= MaxGap
      BY <1>7, <2>2, <3>2 DEF Runs
    <3>4. /\ list[g].age \in 0..AssistOld /\ list[h].age \in 0..AssistOld /\ list[g].age >= list[h].age
          /\ new[g].age = Later(list[g].age) /\ new[h].age = Later(list[h].age)
      BY <1>2, <1>4, <2>2, <3>1
    <3> DEFINE a == list[g].age
               b == list[h].age
    <3>5. a \in 0..AssistOld /\ b \in 0..AssistOld /\ a >= b
      BY <3>4
    <3> HIDE DEF a, b
    <3>6. Later(a) - Later(b) <= a - b /\ Later(a) \in 0..AssistOld /\ Later(b) \in 0..AssistOld
      BY <3>5, LaterTogether
    <3>7. new[g].age = Later(a) /\ new[h].age = Later(b) /\ a - b <= MaxGap
      BY <3>3, <3>4 DEF a, b
    <3>8. Later(a) - Later(b) <= MaxGap
      <4>1. MaxGap \in Nat /\ a \in Int /\ b \in Int /\ Later(a) \in Int /\ Later(b) \in Int
        BY <1>1, <3>5, <3>6 DEF AssistAssumption
      <4>2. Later(a) - Later(b) <= a - b
        BY <3>6
      <4>3. a - b <= MaxGap
        BY <3>7
      <4> QED
        BY <4>1, <4>2, <4>3
    <3> QED
      BY <3>7, <3>8
  <2> QED
    BY <2>1, <2>2 DEF Runs
<1>13. RunUpTo(new, i, k, span, age + 1)
  BY <1>8, <1>10, <1>11, <1>12 DEF RunUpTo
<1>14. \A h \in (k + 1)..n : ~Sees(new, h)
  <2>1. \A h \in (k + 1)..n : h \in 1..n
    BY <1>1
  <2> QED
    BY <1>3, <1>5, <2>1
<1>15. Len(new) = n
  BY DEF n
<1> QED
  BY <1>13, <1>14, <1>15 DEF Slept

\* DmsInv is kept as samples grow old.
LEMMA TickKeepsDms ==
    ASSUME AssistAssumption, DmsInv, AssistTick
    PROVE  DmsInv'
<1> DEFINE n == Len(samples)
<1>1. /\ samples' = [i \in DOMAIN samples |-> [samples[i] EXCEPT !.age = Later(@)]]
      /\ closed' = [closed EXCEPT !.age = Later(@)] /\ gapAge' = Later(gapAge)
  BY DEF AssistTick
<1>2. /\ samples \in Seq(DmsSamples) /\ Falling(samples) /\ gapAge \in Nat
      /\ closed \in [span : 0..Microsleep, age : 0..AssistOld]
      /\ InWindow(samples) /\ GapsKnown(samples, gapAge)
      /\ Dozes(samples, closed.span, closed.age)
  BY DEF DmsInv
<1>3. /\ n \in Nat /\ DOMAIN samples = 1..n /\ \A i \in 1..n : samples[i] \in DmsSamples
      /\ AssistOld \in Nat /\ MaxGap \in Nat /\ DmsWindow \in Nat
  BY <1>2, LenProperties, ElementOfSeq, AssistOldIs DEF AssistAssumption
<1>4. \A i \in 1..n : /\ samples'[i] \in DmsSamples /\ samples'[i].age = Later(samples[i].age)
                      /\ samples'[i].look = samples[i].look
  <2> SUFFICES ASSUME NEW i \in 1..n
               PROVE  /\ samples'[i] \in DmsSamples /\ samples'[i].age = Later(samples[i].age)
                      /\ samples'[i].look = samples[i].look
    OBVIOUS
  <2>1. samples[i] \in DmsSamples /\ samples[i].age \in Nat
    BY <1>3 DEF DmsSamples
  <2>2. samples'[i] = [samples[i] EXCEPT !.age = Later(@)]
    BY <1>1, <1>3
  <2>3. Later(samples[i].age) \in Nat
    BY <2>1, LaterIsOn
  <2> QED
    BY <2>1, <2>2, <2>3 DEF DmsSamples
<1> DEFINE new == samples'
<1>5. new \in Seq(DmsSamples) /\ Len(new) = n /\ DOMAIN new = 1..n
  <2>1. new \in [1..n -> DmsSamples]
    BY <1>1, <1>3, <1>4
  <2> QED
    BY <1>3, <2>1, SeqDef, LenProperties
<1>6. Aged(samples, new) /\ \A i \in 1..n : new[i].look = samples[i].look
  BY <1>3, <1>4 DEF Aged
<1>7. Falling(new)
  <2>1. DOMAIN new = DOMAIN samples /\ DOMAIN samples \subseteq Nat
    BY <1>3, <1>5
  <2> HIDE DEF new
  <2> QED
    BY <1>2, <1>6, <2>1, AgingKeepsFalling
\* Of any two, the earlier one is no younger.
<1>8. ASSUME NEW i \in 1..n, NEW j \in 1..n, i <= j
      PROVE  /\ samples[i].age - samples[j].age >= new[i].age - new[j].age
             /\ samples[i].age \in 0..AssistOld /\ samples[j].age \in 0..AssistOld
             /\ new[i].age \in 0..AssistOld /\ new[j].age \in 0..AssistOld
             /\ new[j].age = Later(samples[j].age)
  <2> DEFINE a == samples[i].age
             b == samples[j].age
  <2>1. a \in 0..AssistOld /\ b \in 0..AssistOld /\ (i < j => a > b \/ a = AssistOld)
    BY <1>2, <1>3 DEF Falling
  <2>2. a >= b
    BY <1>3, <1>8, <2>1
  <2>3. new[i].age = Later(a) /\ new[j].age = Later(b)
    BY <1>4
  <2> HIDE DEF a, b, new
  <2>4. Later(a) - Later(b) <= a - b /\ Later(a) \in 0..AssistOld /\ Later(b) \in 0..AssistOld
    BY <2>1, <2>2, LaterTogether
  <2>5. a - b >= new[i].age - new[j].age
    BY <1>3, <2>1, <2>3, <2>4
  <2> QED
    BY <2>1, <2>3, <2>4, <2>5 DEF a, b
<1>9. InWindow(new)
  <2> SUFFICES ASSUME NEW i \in 1..n PROVE new[i].age - new[n].age <= DmsWindow
    BY <1>5 DEF InWindow
  <2>1. n \in 1..n /\ i <= n
    BY <1>3
  <2>2. samples[i].age - samples[n].age <= DmsWindow
    BY <1>2, <1>3 DEF InWindow
  <2>3. /\ samples[i].age - samples[n].age >= new[i].age - new[n].age
        /\ samples[i].age \in Int /\ samples[n].age \in Int /\ new[i].age \in Int /\ new[n].age \in Int
    BY <1>8, <2>1
  <2> HIDE DEF new, n
  <2> QED
    BY <1>3, <2>2, <2>3, SMTT(30)
<1>10. gapAge' \in Nat /\ GapsKnown(new, gapAge')
  <2>1. gapAge' = Later(gapAge) /\ gapAge \in Nat /\ Later(gapAge) \in Nat
    BY <1>1, <1>2, LaterIsOn
  <2>2. ASSUME NEW i \in 2..n, new[i - 1].age - new[i].age > MaxGap PROVE Later(gapAge) <= new[i].age
    <3>1. i - 1 \in 1..n /\ i \in 1..n /\ i - 1 <= i
      BY <1>3
    <3>2. /\ samples[i - 1].age - samples[i].age >= new[i - 1].age - new[i].age
          /\ samples[i - 1].age \in Int /\ samples[i].age \in 0..AssistOld
          /\ new[i - 1].age \in Int /\ new[i].age \in Int /\ new[i].age = Later(samples[i].age)
      BY <1>8, <3>1
    <3>3. samples[i - 1].age - samples[i].age > MaxGap
      BY <1>3, <2>2, <3>2, SMTT(30)
    <3>4. gapAge <= samples[i].age
      BY <1>2, <3>3 DEF GapsKnown
    <3> DEFINE a == samples[i].age
    <3>5. a \in 0..AssistOld /\ gapAge <= a /\ new[i].age = Later(a)
      BY <3>2, <3>4
    <3>6. gapAge \in 0..AssistOld
      <4> HIDE DEF a, new
      <4> QED
        BY <1>3, <2>1, <3>5
    <3>7. Later(a) >= Later(gapAge)
      <4> HIDE DEF a, new
      <4> QED
        BY <3>5, <3>6, LaterTogether
    <3>8. new[i].age = Later(a)
      BY <3>5
    <3> DEFINE y == new[i].age
    <3>9. y = Later(a)
      BY <3>8
    <3> HIDE DEF a, y
    <3>10. Later(gapAge) <= y
      BY <3>7, <3>9
    <3> QED
      BY <3>10 DEF y
  <2>3. GapsKnown(new, Later(gapAge))
    BY <1>5, <2>2 DEF GapsKnown
  <2> QED
    BY <2>1, <2>3
<1>11. /\ closed.span \in 0..Microsleep /\ closed.age \in 0..AssistOld
       /\ closed'.span = closed.span /\ closed'.age = Later(closed.age)
       /\ closed' \in [span : 0..Microsleep, age : 0..AssistOld]
  <2>1. closed.span \in 0..Microsleep /\ closed.age \in 0..AssistOld
    BY <1>2
  <2> DEFINE a == closed.age
  <2>2. Later(closed.age) \in 0..AssistOld
    <3>1. a \in 0..AssistOld /\ AssistOld \in Nat
      BY <1>3, <2>1
    <3> HIDE DEF a, new, n
    <3>2. a \in Nat
      BY <3>1
    <3>3. Later(a) \in 0..AssistOld
      BY <3>1, <3>2, LaterIsOn
    <3> QED
      BY <3>3 DEF a
  <2>3. closed \in [span : 0..Microsleep, age : 0..AssistOld]
    BY <1>2
  <2>4. closed' = [closed EXCEPT !.age = Later(@)]
    BY <1>1
  <2>5. closed'.span = closed.span /\ closed'.age = Later(closed.age)
    BY <2>3, <2>4
  <2>6. closed' \in [span : 0..Microsleep, age : 0..AssistOld]
    BY <2>1, <2>2, <2>3, <2>4
  <2> QED
    BY <2>1, <2>5, <2>6
<1>12. Dozes(new, closed.span, Later(closed.age))
  <2> DEFINE s == closed.span
             a == closed.age
  <2>1. s \in Nat /\ a \in 0..AssistOld /\ Dozes(samples, s, a)
    BY <1>2, <1>11 DEF AssistAssumption
  <2> HIDE DEF s, a
  <2> SUFFICES ASSUME Later(a) < AssistOld PROVE
                 /\ new # <<>> /\ new[Len(new)].age <= Later(a)
                 /\ Later(a) - new[Len(new)].age <= MaxGap => Slept(new, s, Later(a))
    BY DEF Dozes, s, a
  <2>2. a \in Nat /\ a < AssistOld /\ Later(a) = a + 1
    <3>1. a \in Nat
      BY <1>3, <2>1
    <3>2. ~(a >= AssistOld)
      BY <1>3, <3>1, LaterIsOn
    <3> QED
      BY <1>3, <3>1, <3>2, LaterIsOn
  <2>3. /\ samples # <<>> /\ samples[n].age <= a
        /\ a - samples[n].age <= MaxGap => Slept(samples, s, a)
    BY <2>1, <2>2 DEF Dozes
  <2>4. n \in 1..n
    <3>1. n # 0
      BY <1>2, <2>3, EmptySeq
    <3> QED
      BY <1>3, <3>1
  <2>5. new # <<>>
    <3>1. Len(new) # 0
      BY <1>3, <1>5, <2>4
    <3> QED
      BY <3>1
  <2>6. samples[n].age \in Nat /\ new[n].age = samples[n].age + 1
    <3>1. samples[n].age \in 0..AssistOld /\ new[n].age = Later(samples[n].age)
      BY <1>8, <2>4
    <3>2. samples[n].age \in Nat /\ samples[n].age < AssistOld
      BY <1>3, <2>2, <2>3, <3>1
    <3> HIDE DEF new
    <3> QED
      BY <3>1, <3>2, LaterIsOn
  <2>7. new[n].age <= Later(a)
    <3> HIDE DEF new, n
    <3> QED
      BY <2>2, <2>3, <2>6
  <2>8. ASSUME Later(a) - new[n].age <= MaxGap PROVE Slept(new, s, Later(a))
    <3>1. a - samples[n].age <= MaxGap
      <4> HIDE DEF new, n
      <4> QED
        BY <1>3, <2>2, <2>6, <2>8
    <3>2. Slept(samples, s, a)
      BY <2>3, <3>1
    <3>3. Slept(new, s, a + 1)
      <4>1. Len(new) = Len(samples) /\ Aged(samples, new) /\ \A i \in 1..Len(samples) : new[i].look = samples[i].look
        BY <1>5, <1>6
      <4> HIDE DEF new, n
      <4> QED
        BY <1>2, <2>1, <2>2, <3>2, <4>1, SleptLater
    <3> QED
      BY <2>2, <3>3
  <2>9. Len(new) = n
    BY <1>5
  <2> HIDE DEF new, n
  <2> QED
    BY <2>5, <2>7, <2>8, <2>9
<1>13. Dozes(new, closed'.span, closed'.age)
  BY <1>11, <1>12
<1> QED
  BY <1>5, <1>7, <1>9, <1>10, <1>11, <1>13 DEF DmsInv

\* A run is no longer than the longest.
LEMMA SpanIsLongest ==
    ASSUME NEW list \in Seq(DmsSamples), NEW look, NEW i \in Visible(list), NEW k \in Visible(list),
           i <= k, Run(list, look, i, k)
    PROVE  LongestSpan(list, look) \in Int /\ LongestSpan(list, look) >= list[i].age - list[k].age
<1> DEFINE n == Len(list)
           ends == {r \in Visible(list) \X Visible(list) :
                       r[1] <= r[2] /\ Run(list, look, r[1], r[2])}
           Span(r) == list[r[1]].age - list[r[2]].age
           spans == {Span(r) : r \in ends}
           f == [r \in ends |-> Span(r)]
<1>1. n \in Nat /\ DOMAIN list = 1..n /\ \A h \in 1..n : list[h].age \in Nat
  <2>1. n \in Nat /\ DOMAIN list = 1..n /\ \A h \in 1..n : list[h] \in DmsSamples
    BY LenProperties, ElementOfSeq
  <2> QED
    BY <2>1 DEF DmsSamples
<1>2. Visible(list) \subseteq 1..n
  BY <1>1 DEF Visible, WithLook
<1>3. IsFiniteSet(ends)
  <2>1. IsFiniteSet(Visible(list))
    <3>1. IsFiniteSet(1..n)
      BY <1>1, FS_Interval
    <3> QED
      BY <1>2, <3>1, FS_Subset
  <2>2. IsFiniteSet(Visible(list) \X Visible(list))
    BY <2>1, FS_Product
  <2>3. ends \subseteq Visible(list) \X Visible(list)
    OBVIOUS
  <2> QED
    BY <2>2, <2>3, FS_Subset
<1>4. IsFiniteSet(spans)
  <2>1. f \in Surjection(ends, spans)
    BY DEF Surjection
  <2> HIDE DEF f, spans, ends
  <2> QED
    BY <1>3, <2>1, FS_Surjection
<1>5. spans \subseteq Int
  <2> SUFFICES ASSUME NEW r \in ends PROVE Span(r) \in Int
    OBVIOUS
  <2>1. r[1] \in 1..n /\ r[2] \in 1..n
    BY <1>2
  <2> QED
    BY <1>1, <2>1
<1>6. list[i].age - list[k].age \in spans
  <2>1. <<i, k>> \in ends
    OBVIOUS
  <2>2. Span(<<i, k>>) = list[i].age - list[k].age
    OBVIOUS
  <2> HIDE DEF ends, Span
  <2> QED
    BY <2>1, <2>2
<1>7. LongestSpan(list, look) = Max({0} \cup spans)
  BY DEF LongestSpan
<1> HIDE DEF spans
<1> DEFINE S == {0} \cup spans
<1>8. S \in SUBSET Int /\ S # {} /\ list[i].age - list[k].age \in S
  BY <1>5, <1>6
<1>9. IsFiniteSet(S)
  BY <1>4, FS_Singleton, FS_Union
<1> HIDE DEF S
<1>10. Max(S) \in Int /\ Max(S) >= list[i].age - list[k].age
  BY <1>8, <1>9, MaxOfFinite
<1> QED
  BY <1>7, <1>10 DEF S

\* What is judged of closed eyes.
LEMMA ShutIsJudged ==
    ASSUME NEW list, Len(list) \in Nat, list[1].age - list[Len(list)].age \in Int,
           MinSpan \in Nat, LongestSpan(list, "closed") >= Microsleep,
           AssessDriver(list).reason
               \notin {"window", "discontinuous", "unreliable", "quality", "faceless"}
    PROVE  AssessDriver(list).state = "drowsiness-suspected"
<1> DEFINE span == list[1].age - list[Len(list)].age
           valid == WithLook(list, Looks \ {"unreliable"})
           visible == Visible(list)
           gaps == \E i \in 2..Len(list) : list[i - 1].age - list[i].age > MaxGap
           poor == ~AtLeast(valid, DOMAIN list, 50)
           faceless == ~AtLeast(visible, valid, 35) \/ Cardinality(visible) < 3
           shut == LongestSpan(list, "closed") >= Microsleep
           pattern == /\ span >= ClosedPattern
                      /\ AtLeast(WithLook(list, {"closed"}), visible, 42)
           away == \/ LongestSpan(list, "away") >= MinSpan
                   \/ AtLeast(WithLook(list, {"away"}), visible, 45)
           Nothing(reason) == [state |-> "driver-unavailable", reason |-> reason]
           Finding(state) == [state |-> state, reason |-> "judged"]
<1>1. shut
  OBVIOUS
<1>2. Len(list) >= 3
  <2> SUFFICES ASSUME Len(list) < 3 PROVE FALSE
    OBVIOUS
  <2>1. AssessDriver(list).reason = "window"
    BY DEF AssessDriver
  <2> QED
    BY <2>1
<1>3. span >= MinSpan
  <2> SUFFICES ASSUME span < MinSpan PROVE FALSE
    OBVIOUS
  <2>1. AssessDriver(list).reason = "window"
    BY <1>2 DEF AssessDriver
  <2> QED
    BY <2>1
<1>5. ~(Len(list) < 3) /\ ~(span < MinSpan)
  BY <1>2, <1>3
<1>4. AssessDriver(list) =
        (IF gaps THEN Nothing("discontinuous")
         ELSE IF valid = {} THEN Nothing("unreliable")
         ELSE IF poor THEN Nothing("quality")
         ELSE IF faceless THEN Nothing("faceless")
         ELSE IF shut \/ pattern THEN Finding("drowsiness-suspected")
         ELSE IF away THEN Finding("distracted")
         ELSE Finding("attentive"))
  BY <1>2, <1>3, <1>5, ZenonT(30) DEF AssessDriver
<1> HIDE DEF gaps, valid, poor, faceless, shut, pattern, away
<1> QED
  BY <1>1, <1>4

\* A driver is not judged because of a gap there is.
LEMMA GapIsThere ==
    ASSUME NEW list, Len(list) \in Nat, list[1].age - list[Len(list)].age \in Int,
           MinSpan \in Nat, AssessDriver(list).reason = "discontinuous"
    PROVE  \E i \in 2..Len(list) : list[i - 1].age - list[i].age > MaxGap
<1> SUFFICES ASSUME ~\E i \in 2..Len(list) : list[i - 1].age - list[i].age > MaxGap PROVE FALSE
  OBVIOUS
<1> QED
  BY DEF AssessDriver

\* Closed eyes are drowsiness, and a gap is forgotten.
LEMMA DmsInvHolds ==
    ASSUME AssistAssumption, DmsInv
    PROVE  DriverIsJudged
<1> DEFINE n == Len(samples)
           newest == samples[n]
<1>1. /\ samples \in Seq(DmsSamples) /\ Falling(samples) /\ InWindow(samples)
      /\ GapsKnown(samples, gapAge) /\ gapAge \in Nat
      /\ closed.span \in 0..Microsleep /\ closed.age \in 0..AssistOld
      /\ Dozes(samples, closed.span, closed.age)
  BY DEF DmsInv
<1>2. /\ AssistOld \in Nat /\ DmsWindow + StaleAge < AssistOld /\ LiveAge \in Nat
      /\ StaleAge \in Nat /\ LiveAge <= StaleAge /\ DmsWindow \in Nat /\ MinSpan \in Nat
      /\ MaxGap \in Nat /\ Microsleep \in Nat
  BY AssistOldIs DEF AssistAssumption
<1>3. /\ n \in Nat /\ DOMAIN samples = 1..n
      /\ \A i \in 1..n : samples[i].age \in 0..AssistOld
  BY <1>1, LenProperties DEF Falling
<1>4. ASSUME samples # <<>> PROVE /\ n \in 1..n /\ 1 \in 1..n
                                  /\ samples[1].age - newest.age \in Int
  <2>1. n # 0
    BY <1>1, <1>4, EmptySeq
  <2>2. n \in 1..n /\ 1 \in 1..n
    BY <1>3, <2>1
  <2> QED
    BY <1>2, <1>3, <2>2
<1>5. MicrosleepIsSeen
  <2> SUFFICES ASSUME DriverAvailability = "live", closed.span >= Microsleep,
                      closed.age = newest.age
               PROVE  Driver.state = "drowsiness-suspected"
    BY DEF MicrosleepIsSeen
  <2>1. samples # <<>>
    BY DEF DriverAvailability
  <2>2. Freshness(newest.age) = "live"
    BY <2>1 DEF DriverAvailability
  <2>3. Driver.reason \notin {"window", "discontinuous", "unreliable", "quality", "faceless"}
    BY <2>1, <2>2 DEF DriverAvailability
  <2>4. newest.age <= LiveAge /\ newest.age \in Nat
    BY <1>2, <1>3, <1>4, <2>1, <2>2 DEF Freshness
  <2>5. Slept(samples, closed.span, closed.age)
    BY <1>1, <1>2, <2>4 DEF Dozes
  <2>6. PICK k \in 1..n : \E i \in 1..k : RunUpTo(samples, i, k, closed.span, closed.age)
    BY <2>5 DEF Slept
  <2>13. PICK i \in 1..k : RunUpTo(samples, i, k, closed.span, closed.age)
    BY <2>6
  <2>7. /\ samples[i].look = "closed" /\ samples[k].look = "closed" /\ samples[k].age = newest.age
        /\ Runs(samples, "closed", i, k)
        /\ samples[i].age - newest.age >= Microsleep \/ samples[i].age = AssistOld
    <3>1. closed.span = Microsleep
      BY <1>1, <1>2
    <3> QED
      BY <2>2, <2>13, <3>1 DEF RunUpTo
  <2>8. i \in 1..n /\ k \in 1..n /\ i <= k /\ i \in Visible(samples) /\ k \in Visible(samples)
    BY <1>3, <2>7 DEF Visible, WithLook
  <2>9. samples[i].age - newest.age >= Microsleep
    <3>1. samples[i].age - newest.age <= DmsWindow
      BY <1>1, <1>3, <2>8 DEF InWindow
    <3> QED
      BY <1>2, <2>4, <2>7, <3>1
  <2>10. Run(samples, "closed", i, k)
    BY <1>1, <2>7, <2>8, RunIs
  <2>11. /\ LongestSpan(samples, "closed") \in Int
         /\ LongestSpan(samples, "closed") >= samples[i].age - samples[k].age
    BY <1>1, <2>8, <2>10, SpanIsLongest
  <2>12. LongestSpan(samples, "closed") >= Microsleep
    <3> DEFINE longest == LongestSpan(samples, "closed")
    <3>1. longest >= samples[i].age - newest.age /\ longest \in Int
      BY <2>7, <2>11
    <3>2. samples[i].age \in Int /\ newest.age \in Int
      BY <1>3, <2>4, <2>8
    <3> HIDE DEF longest, newest
    <3>3. longest >= Microsleep
      BY <1>2, <2>9, <3>1, <3>2
    <3> QED
      BY <3>3 DEF longest
  <2> QED
    BY <1>2, <1>3, <1>4, <2>1, <2>3, <2>12, ShutIsJudged DEF Driver
<1>6. GapsAreForgotten
  <2> SUFFICES ASSUME samples # <<>>, Driver.reason = "discontinuous"
               PROVE  gapAge - newest.age <= DmsWindow
    BY DEF GapsAreForgotten
  <2>1. PICK i \in 2..n : samples[i - 1].age - samples[i].age > MaxGap
    BY <1>2, <1>3, <1>4, GapIsThere DEF Driver
  <2>2. gapAge <= samples[i].age
    BY <1>1, <2>1 DEF GapsKnown
  <2>3. i \in 1..n /\ samples[i].age - newest.age <= DmsWindow
    BY <1>1, <1>3 DEF InWindow
  <2> QED
    BY <1>1, <1>2, <1>3, <1>4, <2>2, <2>3, SMTT(30)
<1> QED
  BY <1>5, <1>6 DEF DriverIsJudged

-----------------------------------------------------------------------------
(* All of it: each subject moves alone *)

\* What a step does to the alerts.
LEMMA AlertsApart ==
    ASSUME [PerceptionNext]_perceptionVars
    PROVE  (\E frame \in Frames : Publish(frame)) \/ AlertTick \/ UNCHANGED alertVars
<1>1. CASE UNCHANGED perceptionVars
  BY <1>1 DEF perceptionVars
<1>2. CASE PerceptionNext
  <2>1. ASSUME NEW s, s # "alerts", Of(s) PROVE UNCHANGED alertVars
    BY <2>1 DEF Of
  <2> QED
    BY <1>2, <2>1 DEF PerceptionNext
<1> QED
  BY <1>1, <1>2

\* What a step does to cameras, roads ahead and faces.
LEMMA VisionApart ==
    ASSUME [PerceptionNext]_perceptionVars
    PROVE  \/ \E p \in Places, e \in Errors : Calibrate(p[1], p[2], e)
           \/ \E v, c, age, s, clocked :
                 IngestCalibrated(v, c, age, s, clocked) /\ UNCHANGED driverVars
           \/ \E v, c, age, objects : PostLegacy(v, c, age, objects)
           \/ \E v \in Vehicles : StartRefresh(v)
           \/ \E r \in refreshes : FinishRefresh(r)
           \/ \E f \in Faces, age \in Delays : IngestSample(f, age)
           \/ NextgenTick \/ UNCHANGED nextgenVars
<1>1. CASE UNCHANGED perceptionVars
  BY <1>1 DEF perceptionVars
<1>2. CASE PerceptionNext
  <2>1. ASSUME NEW s, s \notin {"vision", "horizon", "driver"}, Of(s) PROVE UNCHANGED nextgenVars
    BY <2>1 DEF Of
  <2>2. ASSUME NEW v, NEW c, NEW age, NEW n, NEW clocked, PostCamera(v, c, age, n, clocked)
        PROVE  IngestCalibrated(v, c, age, Counted(n), clocked) /\ UNCHANGED driverVars
    BY <2>2 DEF PostCamera
  <2> QED
    BY <1>2, <2>1, <2>2 DEF PerceptionNext
<1> QED
  BY <1>1, <1>2

\* The frames of an instance are lists.
LEMMA FewAreLists ==
    ASSUME NEW X
    PROVE  Few(X) \subseteq Seq(X)
<1>1. BoundedSeq(X, MaxSeen) \subseteq Seq(X)
  BY SeqDef DEF BoundedSeq, SeqOf
<1> QED
  BY <1>1 DEF Few

\* What a step does to the driver assistance.
LEMMA AssistApart ==
    ASSUME [PerceptionNext]_perceptionVars
    PROVE  \/ \E o \in LaneObservations, late \in 0..MaxLate : IngestLane(o, late)
           \/ \E look \in Looks, late \in 0..MaxLate : IngestDriver(look, late)
           \/ \E cs \in Seq(SurroundCameras), late \in 0..MaxLate : IngestSurround(cs, late)
           \/ \E o \in SignObservations, late \in 0..MaxLate, again \in BOOLEAN :
                 IngestSign(o, late, again)
           \/ ReadSigns \/ AssistTick \/ UNCHANGED assistVars
<1>1. CASE UNCHANGED perceptionVars
  BY <1>1 DEF perceptionVars
<1>2. CASE PerceptionNext
  <2>1. ASSUME NEW s, s \notin {"lane", "dms", "surround", "signs"}, Of(s)
        PROVE  UNCHANGED assistVars
    BY <2>1 DEF Of
  <2>2. BoundedSeq(SurroundCameras, MinCameras) \subseteq Seq(SurroundCameras)
    BY SeqDef DEF BoundedSeq, SeqOf
  <2>3. CASE Of("surround") /\ \E cs \in BoundedSeq(SurroundCameras, MinCameras),
                                  late \in 0..MaxLate : IngestSurround(cs, late)
    BY <2>2, <2>3
  <2> QED
    BY <1>2, <2>1, <2>3 DEF PerceptionNext
<1> QED
  BY <1>1, <1>2

\* What a step does to the frames of radar and camera.
LEMMA FusionApart ==
    ASSUME [PerceptionNext]_perceptionVars
    PROVE  \/ \E age \in FrameStamps, f \in Seq(Tracks) : PostRadar(age, f)
           \/ \E age \in FrameStamps, f \in Seq(Detections) : PostDetections(age, f)
           \/ \E accuracy : PostPosition(0, accuracy)
           \/ \E age \in FrameStamps, accuracy \in Accuracies, report \in Reports, frame \in Embedded :
                 PostPacket(age, accuracy, report, {}, frame)
           \/ FusionTick
           \/ UNCHANGED fusionVars
<1>1. CASE UNCHANGED perceptionVars
  BY <1>1 DEF perceptionVars
<1>2. CASE PerceptionNext
  <2>1. ASSUME NEW s, s \notin {"fusion", "health"}, Of(s) PROVE UNCHANGED fusionVars
    BY <2>1 DEF Of
  <2>2. OnTime \subseteq FrameStamps /\ Few(Tracks) \subseteq Seq(Tracks)
        /\ Few(Detections) \subseteq Seq(Detections) /\ <<>> \in Seq(Detections)
    BY FewAreLists DEF OnTime
  <2>4. CASE Of("fusion") /\ \E age \in OnTime, f \in Few(Tracks) : PostRadar(age, f)
    BY <2>2, <2>4
  <2>5. CASE Of("fusion") /\ \E age \in OnTime, f \in Few(Detections) : PostDetections(age, f)
    BY <2>2, <2>5
  <2>6. CASE Of("health") /\ \E age \in FrameStamps : PostDetections(age, <<>>)
    BY <2>2, <2>6
  <2>7. CASE Of("health") /\ \E accuracy \in Accuracies : PostPosition(0, accuracy)
    BY <2>7
  <2>8. CASE Of("health") /\ \E age \in FrameStamps, accuracy \in Accuracies, report \in Reports, frame \in Embedded :
                PostPacket(age, accuracy, report, {}, frame)
    BY <2>8
  <2>9. CASE \E s \in {"fusion", "health"} : Of(s) /\ FusionTick
    BY <2>9
  <2>10. CASE \E s : s \notin {"fusion", "health"} /\ Of(s)
    BY <2>1, <2>10
  <2> QED
    BY <1>2, <2>4, <2>5, <2>6, <2>7, <2>8, <2>9, <2>10 DEF PerceptionNext
<1> QED
  BY <1>1, <1>2

\* What a step does to the gap ahead, the evidence, the gates and the histories.
LEMMA JudgementsApart ==
    ASSUME [PerceptionNext]_perceptionVars
    PROVE  /\ (\E s \in Samples : sample' = s) \/ UNCHANGED sample
           /\ SotifNext \/ UNCHANGED sotifVars
           /\ GatesNext \/ UNCHANGED gateVars
           /\ HistoryNext \/ UNCHANGED historyVars
<1>1. CASE UNCHANGED perceptionVars
  BY <1>1 DEF perceptionVars, riskVars
<1>2. CASE PerceptionNext
  <2>1. ASSUME NEW s, s # "risk", Of(s) PROVE UNCHANGED sample
    BY <2>1 DEF Of, riskVars
  <2>2. ASSUME NEW s, s # "sotif", Of(s) PROVE UNCHANGED sotifVars
    BY <2>2 DEF Of
  <2>3. ASSUME NEW s, s # "gates", Of(s) PROVE UNCHANGED gateVars
    BY <2>3 DEF Of
  <2>4. ASSUME NEW s, s # "history", Of(s) PROVE UNCHANGED historyVars
    BY <2>4 DEF Of
  <2>5. (\E s \in Samples : sample' = s) \/ UNCHANGED sample
    BY <1>2, <2>1 DEF PerceptionNext, Request
  <2>6. SotifNext \/ UNCHANGED sotifVars
    BY <1>2, <2>2 DEF PerceptionNext
  <2>7. GatesNext \/ UNCHANGED gateVars
    BY <1>2, <2>3 DEF PerceptionNext
  <2>8. HistoryNext \/ UNCHANGED historyVars
    BY <1>2, <2>4 DEF PerceptionNext
  <2> QED
    BY <2>5, <2>6, <2>7, <2>8
<1> QED
  BY <1>1, <1>2
\* What every part keeps.
PerceptionInv ==
    /\ LaneInv /\ DmsInv /\ SurroundInv /\ SignInv
    /\ AlertInv /\ VisionInv /\ DriverInv /\ HeardInv /\ SeenInv
    /\ Samples # {} => sample \in Samples
    /\ EvidenceOK(evidence) /\ GateOK /\ HistoryInv

\* PerceptionInv holds at first, since the invariant of each part does.
LEMMA PerceptionInvInit == PerceptionInit => PerceptionInv
<1> SUFFICES ASSUME PerceptionInit PROVE PerceptionInv
  OBVIOUS
<1>1. /\ AssistInit /\ NextgenInit /\ AlertInit /\ FusionInit /\ RiskInit
      /\ SotifInit /\ GatesInit /\ HistoryInit
  BY DEF PerceptionInit
<1>8. LaneInv /\ DmsInv /\ SurroundInv /\ SignInv
  BY <1>1, LaneInvInit, DmsInvInit, SurroundInvInit, SignInvInit, AssistAssumption
<1>2. AlertInv
  BY <1>1, AlertInvInit, PipelineAssumption
<1>3. VisionInv /\ DriverInv
  BY <1>1, VisionInvInit, DriverInvInit, NextgenAssumption
<1>4. HeardInv /\ SeenInv
  <2>1. <<>> \in Seq(Tracks) /\ <<>> \in Seq(Detections)
    OBVIOUS
  <2>2. latestRadar.seen = <<>> /\ latestCamera.seen = <<>>
    BY <1>1 DEF FusionInit
  <2> QED
    BY <1>1, <2>1, <2>2, HeardInvInit, FusionAssumption DEF SeenInv
<1>5. Samples # {} => sample \in Samples
  <2>1. sample = CHOOSE s \in Samples : TRUE
    BY <1>1 DEF RiskInit
  <2> QED
    BY <2>1
<1>6. EvidenceOK(evidence) /\ GateOK
  BY <1>1, EvidenceInit, GateOKInit
<1>7. HistoryInv
  BY <1>1, HistoryInvInit, HistoryAssumption
<1> QED
  BY <1>2, <1>3, <1>4, <1>5, <1>6, <1>7, <1>8 DEF PerceptionInv

\* Alerts, for any step.
LEMMA AlertStep ==
    ASSUME AlertInv, [PerceptionNext]_perceptionVars
    PROVE  /\ AlertInv'
           /\ alertVars' # alertVars =>
                 /\ \A k \in Keys : sighted'[k] <= Hold => k \in DOMAIN active'
                 /\ ~AlertTick => \A k \in DOMAIN active' : sighted'[k] <= Hold
                 /\ \A k \in Keys : Lowers(k, active, active') => lowered[k] >= DowngradeHold
<1>1. ASSUME NEW frame \in Frames, Publish(frame) PROVE AlertInv' /\
                 /\ \A k \in Keys : sighted'[k] <= Hold => k \in DOMAIN active'
                 /\ \A k \in DOMAIN active' : sighted'[k] <= Hold
                 /\ \A k \in Keys : Lowers(k, active, active') => lowered[k] >= DowngradeHold
  BY <1>1, AlertInvPublish, PipelineAssumption
<1>2. CASE AlertTick
  BY <1>2, AlertInvTick, PipelineAssumption
<1>3. CASE UNCHANGED alertVars
  BY <1>3 DEF alertVars, AlertInv, AlertTypeOK, HistoryHasNoDuplicates, ShownIsLogged, AlertIsNotWeakened
<1> QED
  BY <1>1, <1>2, <1>3, AlertsApart

\* Lane, driver, surround view and signs, for any step.
LEMMA AssistStep ==
    ASSUME LaneInv, DmsInv, SurroundInv, SignInv, [PerceptionNext]_perceptionVars
    PROVE  LaneInv' /\ DmsInv' /\ SurroundInv' /\ SignInv'
<1>1. ASSUME UNCHANGED laneVars PROVE LaneInv'
  BY <1>1 DEF laneVars, LaneInv
<1>2. ASSUME UNCHANGED dmsVars PROVE DmsInv'
  BY <1>2 DEF dmsVars, DmsInv
<1>3. ASSUME UNCHANGED surround PROVE SurroundInv'
  BY <1>3, SurroundInvStep, AssistAssumption
<1>4. ASSUME UNCHANGED signVars PROVE SignInv'
  BY <1>4, SignInvStep, AssistAssumption DEF signVars
<1>5. ASSUME NEW o \in LaneObservations, NEW late \in 0..MaxLate, IngestLane(o, late)
      PROVE  LaneInv' /\ DmsInv' /\ SurroundInv' /\ SignInv'
  <2>1. UNCHANGED dmsVars /\ UNCHANGED surround /\ UNCHANGED signVars
    BY <1>5 DEF IngestLane
  <2> QED
    BY <1>2, <1>3, <1>4, <1>5, <2>1, IngestKeepsLane, AssistAssumption
<1>6. ASSUME NEW look \in Looks, NEW late \in 0..MaxLate, IngestDriver(look, late)
      PROVE  LaneInv' /\ DmsInv' /\ SurroundInv' /\ SignInv'
  <2>1. UNCHANGED laneVars /\ UNCHANGED surround /\ UNCHANGED signVars
    BY <1>6 DEF IngestDriver
  <2> QED
    BY <1>1, <1>3, <1>4, <1>6, <2>1, IngestKeepsDms, AssistAssumption
<1>7. ASSUME NEW cs \in Seq(SurroundCameras), NEW late \in 0..MaxLate, IngestSurround(cs, late)
      PROVE  LaneInv' /\ DmsInv' /\ SurroundInv' /\ SignInv'
  <2>1. UNCHANGED laneVars /\ UNCHANGED dmsVars /\ UNCHANGED signVars
    BY <1>7 DEF IngestSurround
  <2> QED
    BY <1>1, <1>2, <1>4, <1>7, <2>1, SurroundInvStep, AssistAssumption
<1>8. ASSUME NEW o \in SignObservations, NEW late \in 0..MaxLate, NEW again \in BOOLEAN,
             IngestSign(o, late, again)
      PROVE  LaneInv' /\ DmsInv' /\ SurroundInv' /\ SignInv'
  <2>1. UNCHANGED laneVars /\ UNCHANGED dmsVars /\ UNCHANGED surround
    BY <1>8 DEF IngestSign
  <2> QED
    BY <1>1, <1>2, <1>3, <1>8, <2>1, IngestKeepsSigns, AssistAssumption
<1>9. CASE ReadSigns
  <2>1. UNCHANGED laneVars /\ UNCHANGED dmsVars /\ UNCHANGED surround
    BY <1>9 DEF ReadSigns
  <2>2. SignInv'
    BY <1>9, SignInvStep, AssistAssumption
  <2> QED
    BY <1>1, <1>2, <1>3, <2>1, <2>2
<1>10. CASE AssistTick
  BY <1>10, TickKeepsLane, TickKeepsDms, SurroundInvStep, TickKeepsSigns, AssistAssumption
<1>11. CASE UNCHANGED assistVars
  BY <1>1, <1>2, <1>3, <1>4, <1>11 DEF assistVars
<1> QED
  BY <1>5, <1>6, <1>7, <1>8, <1>9, <1>10, <1>11, AssistApart

\* Cameras and driver, for any step.
LEMMA NextgenStep ==
    ASSUME VisionInv, DriverInv, [PerceptionNext]_perceptionVars
    PROVE  VisionInv' /\ DriverInv'
<1>1. ASSUME UNCHANGED <<frames, scene, sphere, perception>> PROVE VisionInv'
  BY <1>1 DEF VisionInv, Evidenced, UncalibratedIsUntrusted
<1>2. ASSUME UNCHANGED driverVars PROVE DriverInv'
  BY <1>2 DEF driverVars, DriverInv, DriverIsJudgedInWindow
<1>3. ASSUME NEW p \in Places, NEW e \in Errors, Calibrate(p[1], p[2], e)
      PROVE  VisionInv' /\ DriverInv'
  BY <1>1, <1>2, <1>3 DEF Calibrate
<1>4. ASSUME NEW v, NEW c, NEW age, NEW s, NEW clocked,
             IngestCalibrated(v, c, age, s, clocked), UNCHANGED driverVars
      PROVE  VisionInv' /\ DriverInv'
  BY <1>2, <1>4, IngestKeepsVision, NextgenAssumption
<1>5. ASSUME NEW v, NEW c, NEW age, NEW objects, PostLegacy(v, c, age, objects)
      PROVE  VisionInv' /\ DriverInv'
  <2>1. UNCHANGED driverVars
    BY <1>5 DEF PostLegacy
  <2> QED
    BY <1>2, <1>5, <2>1, LegacyKeepsVision, NextgenAssumption
<1>6. ASSUME NEW v \in Vehicles, StartRefresh(v) PROVE VisionInv' /\ DriverInv'
  BY <1>1, <1>2, <1>6 DEF StartRefresh, visionVars
<1>7. ASSUME NEW r \in refreshes, FinishRefresh(r) PROVE VisionInv' /\ DriverInv'
  BY <1>1, <1>2, <1>7 DEF FinishRefresh, visionVars
<1>8. ASSUME NEW f \in Faces, NEW age \in Delays, IngestSample(f, age) PROVE VisionInv' /\ DriverInv'
  <2>1. UNCHANGED visionVars
    BY <1>8 DEF IngestSample
  <2> QED
    BY <1>1, <1>8, <2>1, SampleKeepsDriver, NextgenAssumption DEF visionVars
<1>9. CASE NextgenTick
  BY <1>9, TickKeepsVision, TickKeepsDriver, NextgenAssumption
<1>10. CASE UNCHANGED nextgenVars
  BY <1>1, <1>2, <1>10 DEF nextgenVars, visionVars
<1> QED
  BY <1>3, <1>4, <1>5, <1>6, <1>7, <1>8, <1>9, <1>10, VisionApart

\* A gap ahead, the evidence of what may be claimed, and the gates, for any step.
LEMMA JudgementsStep ==
    ASSUME PerceptionInv, [PerceptionNext]_perceptionVars
    PROVE  /\ Samples # {} => sample' \in Samples
           /\ EvidenceOK(evidence') /\ GateOK'
           /\ facts' # facts => gate \in Gates /\ gate' = gate
<1>1. (\E s \in Samples : sample' = s) \/ sample' = sample
  BY JudgementsApart
<1>2. EvidenceOK(evidence')
  <2>1. CASE SotifNext
    BY <2>1, EvidenceStep DEF PerceptionInv
  <2>2. CASE UNCHANGED sotifVars
    BY <2>2 DEF sotifVars, PerceptionInv
  <2> QED
    BY <2>1, <2>2, JudgementsApart
<1>3. GateOK' /\ (facts' # facts => gate \in Gates /\ gate' = gate)
  <2>1. CASE GatesNext
    <3>1. GateOK' /\ gate' = gate
      BY <2>1, GateOKStep DEF PerceptionInv
    <3>2. facts' # facts => gate \in Gates
      BY <2>1 DEF GatesNext, Associate, NextFrame
    <3> QED
      BY <3>1, <3>2
  <2>2. CASE UNCHANGED gateVars
    BY <2>2 DEF gateVars, PerceptionInv, GateOK
  <2> QED
    BY <2>1, <2>2, JudgementsApart
<1> QED
  BY <1>1, <1>2, <1>3 DEF PerceptionInv

\* Histories, for any step.
LEMMA HistoryStep ==
    ASSUME HistoryInv, [PerceptionNext]_perceptionVars
    PROVE  /\ HistoryInv'
           /\ level' < level /\ history' # <<>> =>
                 Cardinality({i \in DOMAIN history' :
                     history'[i].value < level /\ history'[i].age \in 0..raisedAge'}) >= MinSamples
<1>1. CASE HistoryNext
  BY <1>1, HistoryInvStep, HistoryAssumption
<1>2. CASE UNCHANGED historyVars
  <2>1. /\ policy' = policy /\ history' = history /\ level' = level /\ raisedAge' = raisedAge
        /\ level \in Nat
    BY <1>2 DEF historyVars, HistoryInv
  <2>2. HistoryInv'
    BY <2>1 DEF HistoryInv
  <2> QED
    BY <2>1, <2>2
<1> QED
  BY <1>1, <1>2, JudgementsApart

\* What was seen, for any step.
LEMMA SeenStep ==
    ASSUME HeardInv, SeenInv, [PerceptionNext]_perceptionVars
    PROVE  SeenInv'
<1>0. <<>> \in Seq(Detections)
  OBVIOUS
<1>1. ASSUME NEW age \in FrameStamps, NEW f \in Seq(Tracks), PostRadar(age, f) PROVE SeenInv'
  BY <1>1 DEF PostRadar, SeenInv
<1>2. ASSUME NEW age \in FrameStamps, NEW f \in Seq(Detections), PostDetections(age, f) PROVE SeenInv'
  BY <1>2 DEF PostDetections, SeenInv
<1>3. ASSUME NEW accuracy, PostPosition(0, accuracy) PROVE SeenInv'
  BY <1>3 DEF PostPosition, SeenInv
<1>4. ASSUME NEW age \in FrameStamps, NEW accuracy \in Accuracies, NEW report \in Reports,
             NEW frame \in Embedded, PostPacket(age, accuracy, report, {}, frame)
      PROVE  SeenInv'
  <2>1. latestRadar' = latestRadar
    BY <1>4 DEF PostPacket
  <2>2. latestCamera'.seen \in Seq(Detections)
    <3>1. CASE frame = {}
      <4>1. latestCamera' = latestCamera
        BY <1>4, <3>1 DEF PostPacket
      <4> QED
        BY <4>1 DEF SeenInv
    <3>2. CASE frame # {}
      <4>1. \A f \in frame : f.seen = <<>>
        BY <3>2 DEF Embedded
      <4>2. latestCamera' = CHOOSE f \in frame : TRUE
        BY <1>4, <3>2 DEF PostPacket
      <4>3. latestCamera' \in frame
        BY <3>2, <4>2
      <4> QED
        BY <1>0, <4>1, <4>3
    <3> QED
      BY <3>1, <3>2
  <2> QED
    BY <2>1, <2>2 DEF SeenInv
<1>5. CASE FusionTick
  <2>1. latestRadar'.seen = latestRadar.seen /\ latestCamera'.seen = latestCamera.seen
    BY <1>5 DEF FusionTick, HeardInv
  <2> QED
    BY <2>1 DEF SeenInv
<1>6. CASE UNCHANGED fusionVars
  BY <1>6 DEF fusionVars, SeenInv
<1> QED
  BY <1>1, <1>2, <1>3, <1>4, <1>5, <1>6, FusionApart

\* PerceptionInv is kept by every step, since each part moves alone.
LEMMA PerceptionInvStep == PerceptionInv /\ [PerceptionNext]_perceptionVars => PerceptionInv'
<1> SUFFICES ASSUME PerceptionInv, [PerceptionNext]_perceptionVars PROVE PerceptionInv'
  OBVIOUS
<1>1. AlertInv'
  BY AlertStep DEF PerceptionInv
<1>2. VisionInv' /\ DriverInv'
  BY NextgenStep DEF PerceptionInv
<1>3. HeardInv' /\ SeenInv'
  BY FusionApart, HeardInvStep, SeenStep, FusionAssumption DEF PerceptionInv
<1>4. (Samples # {} => sample' \in Samples) /\ EvidenceOK(evidence') /\ GateOK'
  BY JudgementsStep
<1>5. (Samples # {} => sample \in Samples)' /\ EvidenceOK(evidence)'
  BY <1>4 DEF Samples, EvidenceOK
<1>6. HistoryInv'
  BY HistoryStep DEF PerceptionInv
<1>7. LaneInv' /\ DmsInv' /\ SurroundInv' /\ SignInv'
  BY AssistStep DEF PerceptionInv
<1> QED
  BY <1>1, <1>2, <1>3, <1>4, <1>5, <1>6, <1>7 DEF PerceptionInv

\* The inductive invariant of the run: each part keeps its own, and no step moves two of them.
THEOREM PerceptionKeepsItsParts == PerceptionSpec => []PerceptionInv
<1> QED
  BY PerceptionInvInit, PerceptionInvStep, PTL DEF PerceptionSpec

\* What was shown is logged, what is listed is listed once and within its bounds, and no alert
\* is shown below its severity (AlertStabilizer.update, EdgeEventBuffer.ingest): AlertsAreKept.
THEOREM AlertsStayKept == PerceptionSpec => []AlertsAreKept
<1>1. PerceptionInv => AlertsAreKept
  BY DEF PerceptionInv, AlertInv, AlertsAreKept
<1> QED
  BY <1>1, PerceptionKeepsItsParts, PTL

\* An alert outlives the frames that miss it as long as the hold, is not lowered sooner than
\* the downgrade hold (alert-stabilizer.ts), and a warning goes down only on enough lower
\* samples of its own (the warning policy): WarningsAreSteady.
THEOREM WarningsStaySteady == PerceptionSpec => WarningsAreSteady
<1>1. ASSUME PerceptionInv, [PerceptionNext]_perceptionVars
      PROVE  /\ [\A k \in Keys :
                   /\ sighted'[k] <= Hold => k \in DOMAIN active'
                   /\ ~AlertTick /\ k \in DOMAIN active' => sighted'[k] <= Hold]_alertVars
             /\ [\A k \in Keys : Lowers(k, active, active') => lowered[k] >= DowngradeHold]_alertVars
  BY <1>1, AlertStep DEF PerceptionInv
<1>2. ASSUME PerceptionInv, [PerceptionNext]_perceptionVars
      PROVE  [level' < level /\ history' # <<>> =>
                Cardinality({i \in DOMAIN history' :
                    history'[i].value < level /\ history'[i].age \in 0..raisedAge'})
                  >= MinSamples]_historyVars
  BY <1>2, HistoryStep DEF PerceptionInv
<1> QED
  BY <1>1, <1>2, PerceptionKeepsItsParts, PTL
     DEF PerceptionSpec, WarningsAreSteady, AlertsAreSteady, DropoutsAreHeld, FlickerIsBounded,
         ReleasesAreEarned

\* What is shown of lane, driver, surround view and signs, of calibrated cameras and of faces
\* rests on observations that are recent and as many as the code demands: ShownIsEvidenced.
THEOREM ShownStaysEvidenced == PerceptionSpec => []ShownIsEvidenced
<1>1. PerceptionInv => SnapshotIsEvidenced
  BY VisionInvHolds, NextgenAssumption DEF PerceptionInv, SnapshotIsEvidenced, DriverInv
<1>2. PerceptionInv => AssistIsEvidenced
  BY LaneInvHolds, SurroundInvHolds, SignInvHolds, DmsInvHolds, AssistAssumption
     DEF PerceptionInv, AssistIsEvidenced
<1>3. PerceptionInv => ShownIsEvidenced
  BY <1>1, <1>2 DEF ShownIsEvidenced
<1> QED
  BY <1>3, PerceptionKeepsItsParts, PTL

\* Each usable track becomes one object, and a detection that is matched stands for no other;
\* an alert rests on a track that radar saw in time, and what is near and sure is warned of
\* (fuseEdgeFrames); a sensor is called well only when it was heard itself: SensingIsSound.
THEOREM SensingStaysSound == PerceptionSpec => []SensingIsSound
<1>1. PerceptionInv => SensingIsSound
  BY FusionIsSoundHolds, HealthIsHeardHolds, FusionAssumption DEF PerceptionInv, SensingIsSound
<1> QED
  BY <1>1, PerceptionKeepsItsParts, PTL

\* A gap, evidence or facts that got worse are judged no better, for any two samples, any
\* evidence and any of the gates, and without CAN evidence no gap is critical: JudgementsAreMonotone.
THEOREM JudgementsStayMonotone == PerceptionSpec => JudgementsAreMonotone
<1>1. ASSUME PerceptionInv, PerceptionInv', [PerceptionNext]_perceptionVars
      PROVE  [sample' # sample =>
                /\ NoBetter(sample, sample') => RiskRank(AssessRisk(sample')) >= RiskRank(AssessRisk(sample))
                /\ ~sample'.can => AssessRisk(sample') # "critical"]_sample
  <2> SUFFICES ASSUME sample' # sample
               PROVE  /\ NoBetter(sample, sample') => RiskRank(AssessRisk(sample')) >= RiskRank(AssessRisk(sample))
                      /\ ~sample'.can => AssessRisk(sample') # "critical"
    OBVIOUS
  <2>1. PICK s \in Samples : sample' = s
    BY <1>1, JudgementsApart
  <2>2. sample \in Samples /\ sample' \in Samples
    BY <1>1, <2>1 DEF PerceptionInv
  <2> QED
    BY <2>2, RiskStep, RiskAssumption
<1>2. ASSUME PerceptionInv, PerceptionInv', [PerceptionNext]_perceptionVars
      PROVE  [evidence' # evidence /\ Worsens(evidence, evidence') =>
                /\ Claims(evidence') \subseteq Claims(evidence)
                /\ \A f \in Features : Ceiling(f, evidence') <= Ceiling(f, evidence)
                /\ OverallCeiling(evidence') <= OverallCeiling(evidence)]_evidence
  <2>1. EvidenceOK(evidence) /\ EvidenceOK(evidence')
    BY <1>2, JudgementsStep DEF PerceptionInv
  <2> QED
    BY <2>1, ClaimsAreReducedStep
<1>3. ASSUME PerceptionInv, PerceptionInv', [PerceptionNext]_perceptionVars
      PROVE  [facts' # facts /\ Worse(facts, facts') =>
                LET before == Assessment(gate, facts)  after == Assessment(gate, facts')
                IN  after.claims \subseteq before.claims /\ after.ceiling <= before.ceiling]_facts
  <2> SUFFICES ASSUME facts' # facts, Worse(facts, facts')
               PROVE  /\ Assessment(gate, facts').claims \subseteq Assessment(gate, facts).claims
                      /\ Assessment(gate, facts').ceiling <= Assessment(gate, facts).ceiling
    OBVIOUS
  <2>1. GateOK /\ GateOK' /\ gate \in Gates /\ gate' = gate
    BY <1>3, JudgementsStep DEF PerceptionInv
  <2>2. NoMore(Assessment(gate, facts'), Assessment(gate, facts))
    BY <2>1, GatesCloseOnlyStep
  <2> QED
    BY <2>2 DEF NoMore
<1> QED
  BY <1>1, <1>2, <1>3, PerceptionKeepsItsParts, PTL
     DEF PerceptionSpec, JudgementsAreMonotone, RiskIsMonotone, ClaimsAreReduced, GatesCloseOnly

\* A refresh that ends while its horizon is fresh is seen, in whatever order refreshes end and
\* however full the store is: RefreshesAreSeen.
THEOREM RefreshesStaySeen == PerceptionSpec => RefreshesAreSeen
<1>1. ASSUME NEW r \in refreshes, FinishRefresh(r), r.age <= HorizonAge
      PROVE  HorizonShown' /\ activeVehicle' = r.vehicle
  <2>1. activeVehicle' = r.vehicle /\ horizons' \in Upserted(r)
    BY <1>1 DEF FinishRefresh
  <2>2. PICK m : horizons' = Put(m, r.vehicle, r.age)
    BY <2>1 DEF Upserted
  <2>3. r.vehicle \in DOMAIN horizons' /\ horizons'[r.vehicle] = r.age
    BY <2>2 DEF Put
  <2> QED
    BY <1>1, <2>1, <2>3 DEF HorizonShown
<1>2. [\A r \in refreshes : FinishRefresh(r) /\ r.age <= HorizonAge =>
          HorizonShown' /\ activeVehicle' = r.vehicle]_nextgenVars
  BY <1>1
<1> QED
  BY <1>2, PTL DEF RefreshesAreSeen

\* No state hides what its evidence lacks, the worst verdict of a gate opens nothing, and the
\* judges of a history agree with its newest sample: JudgementsHideNothing.
THEOREM JudgementsStayHonest == PerceptionSpec => []JudgementsHideNothing
<1>1. PerceptionInv => StatesHideNothing /\ GatesFailClosed /\ HistoriesAreWeighed
  BY StatesHideNothingHolds, GatesFailClosedHolds, TrackJudgesAgreeHolds, TheNewestSpeaksHolds,
     HistoryAssumption
     DEF PerceptionInv, HistoriesAreWeighed
<1>2. PerceptionInv => JudgementsHideNothing
  BY <1>1 DEF JudgementsHideNothing
<1> QED
  BY <1>2, PerceptionKeepsItsParts, PTL

=============================================================================

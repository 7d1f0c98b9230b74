----------------------------- MODULE SensorFusion ----------------------------
(***************************************************************************)
(* What the risk engine makes of the latest radar and camera frame, position *)
(* and sensor reports (services/risk-engine/src): the handlers that replace    *)
(* them (server.ts), the fusion of tracks and detections (edge-fusion.ts), the   *)
(* health shown for each sensor (edge-guard.ts) and the raw alerts made of both   *)
(* (object-alerts.ts).  AlertPipeline smooths and records those alerts.  At the end,  *)
(* the severity of a gap ahead (risk.ts), which is asked for and kept on its own.       *)
(*                                                                                 *)
(* A stamp is kept as its age, negative while it is ahead of the clock.  Angles      *)
(* are degrees, distances metres, confidences percent, so that the code's             *)
(* thresholds appear as they are.  The guards of the streams are modelled in            *)
(* BoundedState and EdgeGuard; every device has a stream of its own, so that a           *)
(* frame may be older than the one it replaces.                                            *)
(***************************************************************************)
EXTENDS Integers, SequencesExt, Lists

CONSTANTS RadarMaxAge, CameraMaxAge,        \* RADAR_MAX_AGE_MS, CAMERA_MAX_AGE_MS
          CrossSkew,                        \* MAX_CROSS_SENSOR_SKEW_MS
          StaleAfter,                       \* RADAR_STALE_MS, CAMERA_STALE_MS, GNSS_STALE_MS
          StampAhead,                       \* LEGACY_MAX_FUTURE_SKEW_MS
          PositionAhead,                    \* how far a position may be ahead in a packet
          MaxObjects,                       \* 64: objects of an envelope
          Tracks, Detections,               \* what radar and camera may see
          FrameStamps, FarAhead             \* bounds: ages of stamps when they come

Sensors == {"radar", "camera", "gnss"}
States == {"ok", "degraded", "unavailable"}
Accuracies == {"good", "poor", "bad"}   \* of a position: up to 15 m, up to 50 m, beyond

ASSUME FusionAssumption ==
    /\ {RadarMaxAge, CameraMaxAge, StampAhead, PositionAhead, FarAhead} \subseteq Nat
    /\ CrossSkew \in Nat \ {0} /\ MaxObjects \in Nat \ {0}
    /\ StaleAfter \in [Sensors -> Nat]
    /\ RadarMaxAge <= StaleAfter["radar"] /\ CameraMaxAge <= StaleAfter["camera"]
    /\ FrameStamps \subseteq Int /\ \A age \in FrameStamps : age >= -StampAhead
    /\ FarAhead >= StampAhead
    /\ \A o \in Tracks \cup Detections : {o.bearing, o.distance, o.confidence, o.lag} \subseteq Int
    /\ PositionAhead >= StampAhead    \* a position may be ahead of a packet that is

VARIABLES latestRadar, latestCamera,  \* age of the stamp, and what was seen
          latestVehicle,              \* of the position: age and accuracy
          latestSensors,              \* health of each sensor as last told
          heard             \* history: how long ago a sensor was heard, and how it was stamped

fusionVars == <<latestRadar, latestCamera, latestVehicle, latestSensors, heard>>

\* Ages beyond this are not told from one another.
VeryOld == Max({StaleAfter[s] : s \in Sensors}) + Max({FarAhead, PositionAhead}) + 1
Elapsed(age) == IF age >= VeryOld THEN age ELSE age + 1

Unknown == -1     \* no estimated distance

Magnitude(n) == IF n < 0 THEN -n ELSE n
AngleDelta(a, b) == Magnitude(((a - b + 540) % 360) - 180)

\* observationFresh: the clocks of a vehicle agree to less than a tick, or not at all.
ObservedWithin(age, limit) == age \in 0..limit

-----------------------------------------------------------------------------
(* Fusion: an observation is as old as its frame and its own lag together *)

Stamp(frame, o) == frame.age + o.lag

\* The observations of a frame that are used; the frame and each of them must be fresh.
Usable(frame, limit) ==
    IF ObservedWithin(frame.age, limit)
    THEN Kept(frame.seen,
              {i \in DOMAIN frame.seen : ObservedWithin(Stamp(frame, frame.seen[i]), limit)})
    ELSE <<>>

UsableTracks == Usable(latestRadar, RadarMaxAge)
UsableDetections == Usable(latestCamera, CameraMaxAge)

SkewOf(t, d) == Magnitude(Stamp(latestRadar, t) - Stamp(latestCamera, d))
NearBearing(t, d) == SkewOf(t, d) <= CrossSkew /\ AngleDelta(t.bearing, d.bearing) <= 9
Compatible(t, d) ==
    NearBearing(t, d) /\ (d.distance # Unknown => Magnitude(t.distance - d.distance) <= 8)

Score(t, d) ==
    100 * AngleDelta(t.bearing, d.bearing) + (200 * SkewOf(t, d)) \div CrossSkew
    + IF d.distance = Unknown THEN 98 ELSE 35 * Magnitude(t.distance - d.distance)

\* Mutant: a detection may be used again.
CandidatesAgain(t, used) == {i \in DOMAIN UsableDetections : Compatible(t, UsableDetections[i])}

Candidates(t, used) == {i \in DOMAIN UsableDetections :
                            UsableDetections[i].id \notin used /\ Compatible(t, UsableDetections[i])}

\* matchCamera: the best of the candidates, the first of equals.
Match(t, used) ==
    LET score(i) == Score(t, UsableDetections[i])
    IN  UsableDetections[CHOOSE i \in Candidates(t, used) : \A j \in Candidates(t, used) :
            score(i) < score(j) \/ (score(i) = score(j) /\ i <= j)]

\* associationConfidence, in percent
Association(t, d) ==
    Max({45, 5 * (9 - AngleDelta(t.bearing, d.bearing))
             + (20 * (CrossSkew - SkewOf(t, d))) \div CrossSkew
             + IF d.distance = Unknown THEN 24
               ELSE (35 * (8 - Magnitude(t.distance - d.distance))) \div 8})

\* Whether the confidence of an object reaches 0.55.
SureAlone(t) == t.confidence * 72 >= 5500
SureTogether(t, d) ==
    t.confidence * d.confidence * Association(t, d) * Association(t, d) >= 30250000

Zone(bearing) ==
    LET b == ((bearing + 540) % 360) - 180
    IN  CASE b \in -18..18 -> "front" [] b \in 19..55 -> "front-right"
          [] b \in -55..-19 -> "front-left" [] b \in 56..124 -> "right"
          [] b \in -124..-56 -> "left" [] OTHER -> "rear"

Vulnerable == {"person", "bicycle", "motorcycle"}

\* severityFor
SeverityFor(kind, distance, sure) ==
    CASE sure /\ distance <= (IF kind \in Vulnerable THEN 7 ELSE 8) -> "critical"
      [] sure /\ distance \in (IF kind \in Vulnerable THEN 8 ELSE 9)..20 -> "caution"
      [] OTHER -> "safe"

\* An object of a track, with the detection it matches.
FusedObject(t, d) ==
    [source |-> "radar-camera", track |-> t.id, detection |-> d.id, kind |-> d.kind,
     distance |-> t.distance, zone |-> Zone(t.bearing), sure |-> SureTogether(t, d),
     age |-> Min({Stamp(latestRadar, t), Stamp(latestCamera, d)}),
     severity |-> SeverityFor(d.kind, t.distance, SureTogether(t, d))]

RadarObject(t) ==
    [source |-> "radar-only", track |-> t.id, detection |-> "none", kind |-> "unknown",
     distance |-> t.distance, zone |-> Zone(t.bearing), sure |-> SureAlone(t),
     age |-> Stamp(latestRadar, t), severity |-> SeverityFor("unknown", t.distance, SureAlone(t))]

\* A detection alone has a place, but no severity: its distance is an estimate.
CameraObject(d) ==
    [source |-> "camera-only", track |-> "none", detection |-> d.id, kind |-> d.kind,
     distance |-> d.distance, zone |-> Zone(d.bearing), sure |-> d.confidence * 75 >= 5500,
     age |-> Stamp(latestCamera, d), severity |-> "safe"]

WithTrack(done, t) ==
    IF Candidates(t, done.used) # {}
    THEN LET d == Match(t, done.used)
         IN  [done EXCEPT !.used = @ \cup {d.id}, !.objects = Append(@, FusedObject(t, d))]
    ELSE [done EXCEPT
            !.objects = Append(@, RadarObject(t)),
            !.disagreements = IF \E i \in DOMAIN UsableDetections :
                                    LET d == UsableDetections[i]
                                    IN  d.id \notin done.used /\ NearBearing(t, d) /\ ~Compatible(t, d)
                              THEN @ + 1 ELSE @]

FusedTracks == FoldLeft(WithTrack, [used |-> {}, objects |-> <<>>, disagreements |-> 0], UsableTracks)

WithDetection(objects, d) ==
    IF d.id \in FusedTracks.used \/ d.distance = Unknown \/ d.confidence < 72
    THEN objects ELSE Append(objects, CameraObject(d))

\* Every object, before the list is cut to the nearest ones.
AllObjects == FusedTracks.objects \o FoldLeft(WithDetection, <<>>, UsableDetections)

\* fuseEdgePerceptionDetailed: as many of the nearest as an envelope may hold, and of those
\* that are as near the ones listed first.
FusedObjects ==
    LET all == AllObjects
        Before(i, j) == \/ all[i].distance < all[j].distance
                        \/ all[i].distance = all[j].distance /\ i < j
        nearest == {j \in DOMAIN all :
                       Cardinality({i \in DOMAIN all : Before(i, j)}) < MaxObjects}
    IN  {all[j] : j \in nearest}

-----------------------------------------------------------------------------
(* Health and raw alerts *)

\* sensorAges: a stamp ahead of the clock counts as new.
SensorAge(s) ==
    LET age == CASE s = "radar" -> latestRadar.age [] s = "camera" -> latestCamera.age
                 [] s = "gnss" -> latestVehicle.age
    IN  Max({0, age})

\* Mutant: health is shown as it was told.
HealthAsTold(s) == latestSensors[s]

\* applySensorFreshness
Health(s) ==
    CASE SensorAge(s) > StaleAfter[s] \/ (s = "gnss" /\ latestVehicle.accuracy = "bad") -> "unavailable"
      [] SensorAge(s) <= StaleAfter[s] /\ s = "gnss" /\ latestVehicle.accuracy = "poor"
            /\ latestSensors[s] # "unavailable" -> "degraded"
      [] OTHER -> latestSensors[s]

AheadZones == {"front", "front-left", "front-right"}
VehicleKinds == {"car", "truck", "bus", "motorcycle"}

Alert(type, severity, o) == [type |-> type, severity |-> severity, of |-> o]

\* objectAlert: nothing for what is unsure, known from the camera alone, or beside.
Warrants(o) == o.sure /\ o.source # "camera-only" /\ o.zone \notin {"left", "right"}

\* The alert of an object that is alarming: the first kind that applies.
AlertOf(o) ==
    LET ahead == o.zone \in AheadZones
    IN  IF o.kind = "person" /\ ahead /\ o.distance <= 22
        THEN Alert("pedestrian", IF o.distance <= 10 THEN "critical" ELSE "caution", o)
        ELSE IF o.kind \in VehicleKinds /\ ahead /\ o.distance <= 16
        THEN Alert("vehicle", IF o.distance <= 8 THEN "critical" ELSE "caution", o)
        ELSE IF o.kind \in Vulnerable /\ o.distance <= 12
        THEN Alert("road-user", IF o.distance <= 6 \/ o.severity = "critical" THEN "critical"
                                ELSE "caution", o)
        ELSE IF o.severity = "critical" /\ o.distance <= 9
        THEN Alert("danger-zone", "critical", o)
        ELSE Alert("none", "safe", o)

ObjectAlerts == {a \in {AlertOf(o) : o \in {p \in FusedObjects : Warrants(p)}} : a.type # "none"}

\* buildLocationAlerts: whether it adds the alert that some sensor is not ok.
ReducedSensing == \E s \in Sensors : Health(s) # "ok"

-----------------------------------------------------------------------------
(* The handlers, behind their guards *)

\* /v3/perception/radar
PostRadar(age, seen) ==
    /\ latestRadar' = [age |-> age, seen |-> seen]
    /\ latestSensors' = [latestSensors EXCEPT !["radar"] = "ok"]
    /\ heard' = [heard EXCEPT !["radar"] = [age |-> 0, ahead |-> StampAhead]]
    /\ UNCHANGED <<latestCamera, latestVehicle>>

\* /v3/perception/camera
PostDetections(age, seen) ==
    /\ latestCamera' = [age |-> age, seen |-> seen]
    /\ latestSensors' = [latestSensors EXCEPT !["camera"] = "ok"]
    /\ heard' = [heard EXCEPT !["camera"] = [age |-> 0, ahead |-> StampAhead]]
    /\ UNCHANGED <<latestRadar, latestVehicle>>

\* /v3/edge/gnss
PostPosition(age, accuracy) ==
    /\ latestVehicle' = [age |-> age, accuracy |-> accuracy]
    /\ latestSensors' = [latestSensors EXCEPT !["gnss"] = "ok"]
    /\ heard' = [heard EXCEPT !["gnss"] = [age |-> 0, ahead |-> PositionAhead]]
    /\ UNCHANGED <<latestRadar, latestCamera>>

\* /v3/edge/frame: a position within reach of the packet's own stamp, the health of all
\* sensors as the device reports it, and a radar and a camera frame or none of them.
\* Nothing compares the stamps of these frames with anything.
PostPacket(age, accuracy, report, radarFrame, cameraFrame) ==
    /\ latestVehicle' = [age |-> age, accuracy |-> accuracy]
    /\ latestSensors' = report
    /\ latestRadar' = IF radarFrame = {} THEN latestRadar ELSE CHOOSE f \in radarFrame : TRUE
    /\ latestCamera' = IF cameraFrame = {} THEN latestCamera ELSE CHOOSE f \in cameraFrame : TRUE
    /\ heard' = [s \in Sensors |->
            CASE s = "gnss" -> [age |-> 0, ahead |-> PositionAhead]
              [] s = "radar" /\ radarFrame # {} -> [age |-> 0, ahead |-> FarAhead]
              [] s = "camera" /\ cameraFrame # {} -> [age |-> 0, ahead |-> FarAhead]
              [] OTHER -> heard[s]]

FusionInit ==
    /\ latestRadar = [age |-> VeryOld, seen |-> <<>>] /\ latestCamera = [age |-> VeryOld, seen |-> <<>>]
    /\ latestVehicle = [age |-> VeryOld, accuracy |-> "bad"]
    /\ latestSensors = [s \in Sensors |-> "unavailable"]
    /\ heard = [s \in Sensors |-> [age |-> VeryOld, ahead |-> 0]]

FusionTick ==
    /\ latestRadar' = [latestRadar EXCEPT !.age = Elapsed(@)] /\ latestCamera' = [latestCamera EXCEPT !.age = Elapsed(@)]
    /\ latestVehicle' = [latestVehicle EXCEPT !.age = Elapsed(@)]
    /\ heard' = [s \in Sensors |-> [heard[s] EXCEPT !.age = Elapsed(@)]]
    /\ UNCHANGED latestSensors

-----------------------------------------------------------------------------
(* Properties *)

\* Each usable track becomes the object in its place.  A detection that one of them is matched
\* with stands for no other object, what is matched fits, and what is left over on both sides
\* does not: whatever the order of tracks and detections.
MatchesAreFair ==
    LET all == AllObjects
    IN  /\ \A i, j \in DOMAIN all :
              all[i].source = "radar-camera" /\ all[j].source # "radar-only"
                 /\ all[i].detection = all[j].detection => i = j
        /\ \A i \in DOMAIN UsableTracks :
              LET o == all[i]  t == UsableTracks[i]
              IN  /\ o.track = t.id /\ o.source \in {"radar-camera", "radar-only"}
                  /\ o.source = "radar-camera" =>
                        \E d \in ToSet(UsableDetections) : o.detection = d.id /\ Compatible(t, d)
                  /\ o.source = "radar-only" => \A d \in ToSet(UsableDetections) :
                        d.id \notin FusedTracks.used => ~Compatible(t, d)

\* An alert about an object rests on a track that radar saw within its limits, and so on
\* a radar that was heard that recently.
WarningsAreBacked ==
    \A a \in ObjectAlerts :
        /\ \E t \in ToSet(latestRadar.seen) :
              t.id = a.of.track /\ t.distance = a.of.distance /\ Stamp(latestRadar, t) <= RadarMaxAge
        /\ heard["radar"].age <= RadarMaxAge + heard["radar"].ahead

\* What radar alone is sure of within eight metres, ahead or behind, is warned of, within
\* seven as critical: unless a detection that it matches makes it unsure, or enough
\* other objects are as near.
NearTracksWarn ==
    \A i \in DOMAIN UsableTracks :
        LET t == UsableTracks[i]  o == AllObjects[i]
        IN  SureAlone(t) /\ t.distance <= 8 /\ Zone(t.bearing) \notin {"left", "right"} =>
                \/ \E a \in ObjectAlerts : a.of = o /\ (t.distance <= 7 => a.severity = "critical")
                \/ o.source = "radar-camera" /\ ~o.sure
                \/ Cardinality({j \in DOMAIN AllObjects \ {i} :
                                   AllObjects[j].distance <= t.distance}) >= MaxObjects

\* What is made of a radar and a camera frame is neither invented nor lost.
FusionIsSound == MatchesAreFair /\ WarningsAreBacked /\ NearTracksWarn

\* A sensor that is shown as ok was heard, itself and not only in a report, within the
\* time after which it is stale, longer only by what its stamp may have been ahead.
HealthIsHeard ==
    \A s \in Sensors : Health(s) = "ok" => heard[s].age <= StaleAfter[s] + heard[s].ahead

-----------------------------------------------------------------------------
(* assessRisk, which /v1/risk answers with: the severity of a gap to a vehicle ahead,   *)
(* from one sample.  A sample keeps nothing, so the state is the sample last assessed.   *)
(* Speeds are metres per second; the schema refuses what is not a number or out of range. *)

CONSTANTS Speeds, Ranges, Confidences, SampleAges,   \* bounds: the samples that are tried
          RiskMaxAge                                 \* MAX_AGE_MS of a sample

ASSUME RiskAssumption ==
    /\ Speeds \subseteq Nat /\ Ranges \subseteq Nat /\ Confidences \subseteq 0..100
    /\ SampleAges \subseteq Int /\ RiskMaxAge \in Nat

VARIABLE sample

riskVars == <<sample>>

Samples == [age : SampleAges, ego : Speeds, target : Speeds, range : Ranges,
            confidence : Confidences, can : BOOLEAN, radar : BOOLEAN]

\* What is not taken as evidence at all; the answer is then safe, with confidence 0.
Rejected(s) == s.age < 0 \/ s.age > RiskMaxAge \/ ~s.radar

Closing(s) == IF s.ego > s.target THEN s.ego - s.target ELSE 0

\* Time to collision below 1.6 s and below 3.2 s, time headway below 1.8 s.
CriticalGap(s) == s.confidence >= 75 /\ Closing(s) > 0 /\ 10 * s.range < 16 * Closing(s)
CautionGap(s) == s.confidence >= 55 /\ Closing(s) > 0 /\ 10 * s.range < 32 * Closing(s)
ShortHeadway(s) == s.confidence >= 55 /\ s.ego > 0 /\ 10 * s.range < 18 * s.ego

\* Mutant: the speed of the vehicle need not be trusted for a critical warning.
AssessRiskWithoutCan(s) ==
    CASE ~Rejected(s) /\ CriticalGap(s) -> "critical"
      [] ~Rejected(s) /\ ~CriticalGap(s) /\ (CautionGap(s) \/ ShortHeadway(s)) -> "caution"
      [] OTHER -> "safe"

AssessRisk(s) ==
    CASE ~Rejected(s) /\ CriticalGap(s) /\ s.can -> "critical"
      [] ~Rejected(s) /\ ~(CriticalGap(s) /\ s.can)
            /\ (CriticalGap(s) \/ CautionGap(s) \/ ShortHeadway(s)) -> "caution"
      [] OTHER -> "safe"

\* Where it starts is of no matter: any sample may follow.
RiskInit == sample = CHOOSE s \in Samples : TRUE

Request(s) == sample' = s

RiskRank(severity) == CASE severity = "safe" -> 0 [] severity = "caution" -> 1 [] OTHER -> 2

\* The same gap, but no better: nearer, or closing at least as fast towards the same vehicle.
NoBetter(s, t) ==
    /\ t.range <= s.range /\ t.ego >= s.ego /\ t.target <= s.target
    /\ t.confidence >= s.confidence /\ (s.can => t.can)
    /\ ~Rejected(s) /\ ~Rejected(t)

\* Of two samples in a row the one with the gap that is nearer, closes faster or is better
\* known is never judged less severe, and without trustworthy vehicle dynamics nothing is
\* critical.
RiskIsMonotone ==
    [][sample' # sample =>
          /\ NoBetter(sample, sample') => RiskRank(AssessRisk(sample')) >= RiskRank(AssessRisk(sample))
          /\ ~sample'.can => AssessRisk(sample') # "critical"]_sample

=============================================================================

------------------------------ MODULE MCPerception ------------------------------
(***************************************************************************)
(* The way from what is seen to the driver, for the run Perception: what      *)
(* the risk engine makes of lanes, of the driver, of surround cameras and of      *)
(* signs, of radar and camera together and of a gap ahead, the next-generation      *)
(* runtime beside it, the alerts that publish() shows, and the gates and policies     *)
(* that say what may be claimed of all this.  Each keeps a state of its own, fed by    *)
(* its own requests, and none reads another's: it is enough to let one of them, the      *)
(* subject, move while the others stay where they started.                                *)
(***************************************************************************)
EXTENDS DriverAssist, NextgenRuntime, AlertPipeline,
        SensorFusion, SotifMonitor, AssuranceGates, HistoryPolicies

CONSTANTS Places,    \* <<camera, mount>>: where the cameras may be calibrated
          Reports,   \* what a packet says of the sensors
          MaxSeen    \* bound: tracks of a radar frame, detections of a camera frame

ASSUME PerceptionAssumption ==
    /\ Places \subseteq CameraIds \X Mounts
    /\ Reports \subseteq [Sensors -> States]
    /\ MaxSeen \in Nat

VARIABLE subject

Subjects == {"lane", "dms", "surround", "signs",
             "vision", "horizon", "driver", "alerts", "fusion", "health", "risk", "sotif", "gates",
             "history"}

perceptionVars ==
    <<subject, assistVars, nextgenVars, alertVars, fusionVars, riskVars,
      sotifVars, gateVars, historyVars>>

\* A step of subject s.
Of(s) ==
    /\ subject = s /\ UNCHANGED subject
    /\ IF s \in {"lane", "dms", "surround", "signs"} THEN TRUE ELSE UNCHANGED assistVars
    /\ IF s \in {"vision", "horizon", "driver"} THEN TRUE ELSE UNCHANGED nextgenVars
    /\ IF s = "alerts" THEN TRUE ELSE UNCHANGED alertVars
    /\ IF s \in {"fusion", "health"} THEN TRUE ELSE UNCHANGED fusionVars
    /\ IF s = "risk" THEN TRUE ELSE UNCHANGED riskVars
    /\ IF s = "sotif" THEN TRUE ELSE UNCHANGED sotifVars
    /\ IF s = "gates" THEN TRUE ELSE UNCHANGED gateVars
    /\ IF s = "history" THEN TRUE ELSE UNCHANGED historyVars

\* One vehicle posts the frames: only the active vehicle depends on which.
Poster == CHOOSE v \in Vehicles : TRUE
Seen == {{}, {[sure |-> TRUE, fresh |-> TRUE]}}
\* A legacy frame takes the same way in as any other: on time or a little late is enough.
LegacyDelays == Delays \cap {0, 1}

\* Frames of radar and camera in any order, nothing seen twice in one.
Few(options) ==
    {f \in BoundedSeq(options, MaxSeen) : \A i, j \in DOMAIN f : i # j => f[i] # f[j]}
\* Frames for fusion come on time; what they grow to be is the passing of time.
OnTime == FrameStamps \cap ((-StampAhead)..0)
\* The camera frame that a packet may bring along.
Embedded == {{}} \cup {{[age |-> age, seen |-> <<>>]} : age \in {-FarAhead, 0}}

PerceptionInit ==
    /\ subject \in Subjects
    /\ AssistInit /\ NextgenInit /\ AlertInit /\ FusionInit /\ RiskInit /\ SotifInit
    /\ GatesInit /\ HistoryInit
    /\ subject # "gates" => gate = "association"    \* one gate, one policy: the others'
    /\ subject # "history" => policy = "warning"     \* states do not multiply

PerceptionNext ==
    \/ Of("lane") /\ \E o \in LaneObservations, late \in 0..MaxLate : IngestLane(o, late)
    \/ Of("dms") /\ \E look \in Looks, late \in 0..MaxLate : IngestDriver(look, late)
    \/ Of("surround") /\ \E cs \in BoundedSeq(SurroundCameras, MinCameras), late \in 0..MaxLate :
          IngestSurround(cs, late)
    \/ Of("signs") /\ \E o \in SignObservations, late \in 0..MaxLate, again \in BOOLEAN :
          IngestSign(o, late, again)
    \/ Of("signs") /\ ReadSigns
    \/ \E s \in {"lane", "dms", "surround", "signs"} : Of(s) /\ AssistTick
    \/ Of("vision") /\ \E p \in Places, e \in Errors : Calibrate(p[1], p[2], e)
    \/ Of("vision") /\ \E c \in CameraIds, age \in Delays, n \in 0..MaxCount :
          PostCamera(Poster, c, age, n, TRUE)
    \/ Of("vision") /\ \E c \in CameraIds : PostCamera(Poster, c, 0, 0, FALSE)
    \/ Of("vision") /\ \E c \in CameraIds, age \in LegacyDelays, objects \in Seen :
          PostLegacy(Poster, c, age, objects)
    \/ Of("horizon") /\ \E v \in Vehicles, c \in CameraIds : PostLegacy(v, c, 0, {})
    \/ Of("horizon") /\ \E v \in Vehicles : StartRefresh(v)
    \/ Of("horizon") /\ \E r \in refreshes : FinishRefresh(r)
    \/ Of("driver") /\ \E f \in Faces, age \in Delays : IngestSample(f, age)
    \/ \E s \in {"vision", "horizon", "driver"} : Of(s) /\ NextgenTick
    \/ Of("alerts") /\ \E frame \in Frames : Publish(frame)
    \/ Of("alerts") /\ AlertTick
    \/ Of("fusion") /\ \E age \in OnTime, f \in Few(Tracks) : PostRadar(age, f)
    \/ Of("fusion") /\ \E age \in OnTime, f \in Few(Detections) :
          PostDetections(age, f)
    \/ Of("health") /\ \E age \in FrameStamps : PostDetections(age, <<>>)
    \/ Of("health") /\ \E accuracy \in Accuracies : PostPosition(0, accuracy)
    \/ Of("health") /\ \E age \in FrameStamps, accuracy \in Accuracies, report \in Reports, frame \in Embedded :
          PostPacket(age, accuracy, report, {}, frame)
    \/ \E s \in {"fusion", "health"} : Of(s) /\ FusionTick
    \/ Of("risk") /\ \E s \in Samples : Request(s)
    \/ Of("sotif") /\ SotifNext
    \/ Of("gates") /\ GatesNext
    \/ Of("history") /\ HistoryNext

PerceptionSpec == PerceptionInit /\ [][PerceptionNext]_perceptionVars

\* What is judged of one sample, the gap ahead, the claims the evidence supports or the claims
\* a gate lets through, gets no better when the sample gets worse.
JudgementsAreMonotone == RiskIsMonotone /\ ClaimsAreReduced /\ GatesCloseOnly

\* No feature and no snapshot is called better than the claims its evidence supports
\* (assessSotifRuntime, buildSotifAssuranceSnapshot), the worst verdict of a gate opens nothing,
\* and of a history the newest sample speaks, to all who judge it alike.
JudgementsHideNothing ==
    /\ subject = "sotif" => StatesHideNothing
    /\ subject = "gates" => GatesFailClosed
    /\ subject = "history" => HistoriesAreWeighed

\* What is made of radar and camera is neither invented nor lost, and no sensor is called
\* well for want of news.
SensingIsSound == FusionIsSound /\ HealthIsHeard

\* What is shown of the road, of the cameras and of the driver rests on what was seen.
ShownIsEvidenced == AssistIsEvidenced /\ SnapshotIsEvidenced

\* What the driver is shown neither flickers nor falls for want of evidence: alerts are held
\* (publish) and the level of a warning goes down only on enough samples of its own.
WarningsAreSteady == AlertsAreSteady /\ ReleasesAreEarned

(***************************************************************************)
(* The instance.                                                             *)
(***************************************************************************)
\* Both cameras may change places; cameras are alike, so that one place is left out.
MCPlaces == (CameraIds \X Mounts) \ {<<"c1", "rear">>}

\* A stamp ahead of the clock, one that is late, and one too late for everything.
MCDelays == {-1, 0, 1, 3}

\* Radar, camera and position: stamps ahead, new and late, and when they are stale.
MCStamps == {-1, 0, 2}
MCStaleAfter == [s \in Sensors |-> IF s = "radar" THEN 1 ELSE 2]

\* Two tracks ahead that the same detection may match, and one behind.
MCTracks ==
    {[id |-> "t1", bearing |-> 0, distance |-> 7, confidence |-> 90, lag |-> 0],
     [id |-> "t2", bearing |-> 6, distance |-> 14, confidence |-> 80, lag |-> 1],
     [id |-> "t3", bearing |-> 170, distance |-> 8, confidence |-> 80, lag |-> 0]}

\* One that fits both, a weak one without a distance, one behind that fits t3, one aside.
MCDetections ==
    {[id |-> "d1", kind |-> "person", bearing |-> 4, distance |-> 10, confidence |-> 90, lag |-> 0],
     [id |-> "d2", kind |-> "car", bearing |-> 8, distance |-> Unknown, confidence |-> 30, lag |-> 0],
     [id |-> "d3", kind |-> "bicycle", bearing |-> 175, distance |-> 5, confidence |-> 80, lag |-> 1],
     [id |-> "d4", kind |-> "car", bearing |-> 60, distance |-> 3, confidence |-> 90, lag |-> 0]}

AllWell == [s \in Sensors |-> "ok"]
MCReports == {AllWell, [AllWell EXCEPT !["camera"] = "degraded"],
              [AllWell EXCEPT !["radar"] = "unavailable"]}

\* Samples of a gap on both sides of each threshold.
MCSampleAges == {0, 2}

\* A sample may come ahead of its time, in time or late.
MCLateness == {-1, 0, 1}
=============================================================================

--------------------------- MODULE NextgenRuntime ---------------------------
(***************************************************************************)
(* Class NextgenRuntime of the risk engine (services/risk-engine/src,       *)
(* nextgen-runtime.ts): calibrated cameras behind MultiCameraRuntime and      *)
(* VisionSceneRuntime, the surround view built from them, the perception frame  *)
(* of a camera without calibration, the navigation horizons that refreshes in     *)
(* flight bring back, and the state of the driver (driver-state-estimator.ts).     *)
(*                                                                                *)
(* A time is an age in ticks; it is negative for a stamp ahead of the clock.         *)
(***************************************************************************)
EXTENDS Integers, FiniteSetsExt, Functions, SequencesExt

CONSTANTS CameraIds, Mounts, RequiredMounts,  \* "front" is a required mount
          Errors,          \* reprojection errors of a calibration, in pixels
          MaxCalibrated,   \* MAX_CAMERAS of registry and runtime
          FrameAge,        \* MAX_FRAME_AGE_MS
          Ahead,           \* MAX_FUTURE_SKEW_MS
          SurroundAge,     \* MAX_CAMERA_AGE_MS of the surround view
          SyncSpread,      \* MAX_SYNC_SPREAD_MS
          ShownFor,        \* a surround view is shown for 1_000 ms
          MaxCount,        \* bound: sequence numbers of a camera
          Vehicles,
          MaxHorizons,     \* MAX_VEHICLES
          HorizonAge,      \* MAX_AGE_MS of a horizon
          MaxRefreshes,    \* bound: refreshes in flight
          StateWindow,     \* WINDOW_MS of the driver's state
          SampleAge,       \* MAX_SAMPLE_AGE_MS
          MaxSamples,      \* maxSamples
          Delays           \* bound: how late an observation comes, or early if negative

NextgenAssumption ==
    /\ "front" \in RequiredMounts /\ RequiredMounts \subseteq Mounts
    /\ Errors \subseteq 0..4
    /\ {MaxCalibrated, MaxHorizons, MaxSamples} \subseteq Nat \ {0}
    /\ {FrameAge, Ahead, SurroundAge, SyncSpread, ShownFor, MaxCount, HorizonAge,
        MaxRefreshes, StateWindow, SampleAge} \subseteq Nat
    /\ Delays \subseteq Int /\ 0 \in Delays /\ IsFiniteSet(Delays)

ASSUME NextgenAssumption

VARIABLES calibrations,  \* the registry: camera -> mount and error
          frames,        \* MultiCameraRuntime: camera -> age of its last frame
          last,          \* lastSequence: camera -> sequence
          scene,         \* VisionSceneRuntime: camera -> age
          sphere,        \* the last surround view: its age, whether live, its cameras
          perception,    \* the perception of an uncalibrated camera, and its trust
          horizons,      \* NavigationHorizonStore: vehicle -> age
          refreshes,     \* refreshes in flight: vehicle and age
          activeVehicle,
          advisories,    \* those of the refresh that finished last: vehicle and age
          faces,         \* samples of the driver state estimator
          driver,        \* its assessment when the last sample came
          assessed       \* history: that was in this tick

visionVars == <<calibrations, frames, last, scene, sphere, perception>>
horizonVars == <<horizons, refreshes, activeVehicle, advisories>>
driverVars == <<faces, driver, assessed>>
nextgenVars == <<visionVars, horizonVars, driverVars>>

\* Ages beyond these are not told from one another.
OldFeed == Max({FrameAge, SurroundAge + ShownFor} \cup Delays) + 1
OldHorizon == HorizonAge + 1
OldSample == StateWindow + 1
Grown(age, old) == IF age >= old THEN old ELSE age + 1

NoVehicle == "none"
Put(map, k, v) == [x \in DOMAIN map \cup {k} |-> IF x = k THEN v ELSE map[x]]

-----------------------------------------------------------------------------
(* Calibrated cameras *)

\* upsert of the registry, for a profile that is valid but for its error: each mount
\* but the cabin belongs to one camera.
Calibrate(c, mount, error) ==
    /\ error <= 3
    /\ \/ mount = "cabin"
       \/ \A d \in DOMAIN calibrations \ {c} : calibrations[d].mount # mount
    /\ c \in DOMAIN calibrations \/ Cardinality(DOMAIN calibrations) < MaxCalibrated
    /\ calibrations' = Put(calibrations, c, [mount |-> mount, error |-> error])
    /\ UNCHANGED <<frames, last, scene, sphere, perception, horizonVars, driverVars>>

\* The sequence of a frame is a number of its camera, or the frame's timestamp where
\* the frame comes by the route for cameras without calibration.
Counted(n) == [kind |-> "count", n |-> n]
Stamped(age) == [kind |-> "stamp", n |-> age]

Replays(c, s) ==
    /\ c \in DOMAIN last
    /\ \/ last[c].kind = "stamp" /\ s.kind = "count"
       \/ last[c].kind = s.kind /\ s.kind = "count" /\ s.n <= last[c].n
       \/ last[c].kind = s.kind /\ s.kind = "stamp" /\ s.n >= last[c].n

\* ingest of MultiCameraRuntime
Accepted(c, age, s, clocked) ==
    /\ c \in DOMAIN calibrations
    /\ ~Replays(c, s)
    /\ clocked
    /\ age \in (-Ahead)..FrameAge
    /\ c \in DOMAIN frames \/ Cardinality(DOMAIN frames) < MaxCalibrated

\* Mutant: cameras are in time whenever each is fresh.
InTimeAlone(seen, fs) == Cardinality(seen) > 1

InTime(seen, fs) ==
    Cardinality(seen) > 1 /\ \A c, d \in seen : fs[c] - fs[d] <= SyncSpread

\* buildSurroundFusion: cameras that are fresh for it, and whether every required
\* mount is seen, in time, with a mean error of at most 1.35 pixels.
BuildSurround(fs) ==
    LET seen == {c \in DOMAIN fs : fs[c] \in 0..SurroundAge}
        error == FoldSet(LAMBDA c, sum : sum + calibrations[c].error, 0, seen)
    IN  [age |-> 0,
         live |-> /\ RequiredMounts \subseteq {calibrations[c].mount : c \in seen}
                  /\ InTime(seen, fs)
                  /\ 100 * error <= 135 * Cardinality(seen),
         cameras |-> seen]

\* ingestCalibratedCamera: a refused frame changes nothing.
IngestCalibrated(v, c, age, s, clocked) ==
    /\ IF Accepted(c, age, s, clocked)
       THEN /\ frames' = Put(frames, c, age)
            /\ last' = Put(last, c, s)
            /\ scene' = IF c \in DOMAIN scene \/ Cardinality(DOMAIN scene) < MaxCalibrated
                        THEN Put(scene, c, age) ELSE scene
            /\ sphere' = BuildSurround(frames')
            /\ activeVehicle' = v
       ELSE UNCHANGED <<frames, last, scene, sphere, activeVehicle>>
    /\ UNCHANGED <<calibrations, perception, horizons, refreshes, advisories>>

PostCamera(v, c, age, n, clocked) ==
    /\ IngestCalibrated(v, c, age, Counted(n), clocked)
    /\ UNCHANGED driverVars

-----------------------------------------------------------------------------
(* Cameras without calibration *)

Objects == [sure : BOOLEAN, fresh : BOOLEAN]

\* assessPerceptionTrust, for a frame whose only camera is not usable.
Trusted(age, objects) ==
    /\ age \in (-Ahead)..FrameAge
    /\ \A o \in objects : ~(o.sure /\ o.fresh)

\* ingestLegacyFrontCamera: the camera may have been calibrated since.
PostLegacy(v, c, age, objects) ==
    /\ IF c \in DOMAIN calibrations
       THEN IngestCalibrated(v, c, age, Stamped(age), age >= 0)
       ELSE /\ activeVehicle' = v
            /\ perception' = [eligible |-> Trusted(age, objects),
                              objects |-> {o \in objects : o.sure /\ o.fresh}]
            /\ UNCHANGED <<calibrations, frames, last, scene, sphere,
                           horizons, refreshes, advisories>>
    /\ UNCHANGED driverVars

-----------------------------------------------------------------------------
(* What the snapshot shows of them *)

SurroundShown == sphere.age <= ShownFor

-----------------------------------------------------------------------------
(* Navigation horizons *)

\* refreshNextgenNavigation takes the time before it waits for its sources.
StartRefresh(v) ==
    /\ Cardinality(refreshes) < MaxRefreshes
    /\ refreshes' = refreshes \cup {[vehicle |-> v, age |-> 0]}
    /\ UNCHANGED <<horizons, activeVehicle, advisories, visionVars, driverVars>>

\* Mutant: a full store keeps what it has.
KeptWhenFull(r) ==
    IF r.vehicle \in DOMAIN horizons \/ Cardinality(DOMAIN horizons) < MaxHorizons
    THEN {Put(horizons, r.vehicle, r.age)} ELSE {horizons}

\* upsert: in a full store the horizon that was generated first makes room, which may
\* be younger than the one that comes.
Upserted(r) ==
    IF r.vehicle \in DOMAIN horizons \/ Cardinality(DOMAIN horizons) < MaxHorizons
    THEN {Put(horizons, r.vehicle, r.age)}
    ELSE {Put(Restrict(horizons, DOMAIN horizons \ {v}), r.vehicle, r.age) :
            v \in {w \in DOMAIN horizons :
                     \A u \in DOMAIN horizons : horizons[u] <= horizons[w]}}

\* The sources have answered, or failed, which the code takes alike.
FinishRefresh(r) ==
    /\ horizons' \in Upserted(r)
    /\ advisories' = r
    /\ refreshes' = refreshes \ {r}
    /\ activeVehicle' = r.vehicle
    /\ UNCHANGED <<visionVars, driverVars>>

HorizonShown ==
    activeVehicle \in DOMAIN horizons /\ horizons[activeVehicle] <= HorizonAge

-----------------------------------------------------------------------------
(* The driver's state *)

Faces == {"attentive", "closed", "away", "faceless"}

Evidence(list) ==
    {i \in DOMAIN list : list[i].age <= StateWindow /\ list[i].face # "faceless"}

\* assess: the share of closed eyes first, then that of looks away.
Assess(list) ==
    LET latest == list[Len(list)]
        valid == Evidence(list)
        Share(face, pct) ==
            /\ Cardinality(valid) >= 3
            /\ 100 * Cardinality({i \in valid : list[i].face = face}) >= pct * Cardinality(valid)
    IN  IF latest.age > SampleAge \/ latest.age < -Ahead \/ latest.face = "faceless"
        THEN "driver-unavailable"
        ELSE IF Share("closed", 48) THEN "drowsy"
        ELSE IF Share("away", 60) THEN "distracted"
        ELSE "attentive"

\* Samples older than the window leave from the front of the list, which is in the
\* order of arrival.
WithoutOld(list) ==
    LET keep == {i \in DOMAIN list : list[i].age <= StateWindow}
    IN  IF keep = {} THEN <<>> ELSE SubSeq(list, Min(keep), Len(list))

\* ingest of DriverStateEstimator
IngestSample(face, age) ==
    LET kept == WithoutOld(Append(faces, [face |-> face, age |-> age]))
        list == SubSeq(kept, Max({1, Len(kept) - MaxSamples + 1}), Len(kept))
    IN  /\ faces' = list
        /\ assessed' = TRUE
        /\ driver' = IF list = <<>> THEN "driver-unavailable" ELSE Assess(list)
    /\ UNCHANGED <<visionVars, horizonVars>>

-----------------------------------------------------------------------------

NextgenInit ==
    /\ calibrations = <<>> /\ frames = <<>> /\ last = <<>> /\ scene = <<>>
    /\ sphere = [age |-> ShownFor + 1, live |-> FALSE, cameras |-> {}]
    /\ perception = [eligible |-> FALSE, objects |-> {}]
    /\ horizons = <<>> /\ refreshes = {} /\ activeVehicle = NoVehicle
    /\ advisories = [vehicle |-> NoVehicle, age |-> OldHorizon]
    /\ faces = <<>> /\ driver = "driver-unavailable" /\ assessed = FALSE

NextgenTick ==
    LET Aging(map) == [k \in DOMAIN map |-> Grown(map[k], OldFeed)]
    IN  /\ frames' = Aging(frames) /\ scene' = Aging(scene)
        /\ last' = [c \in DOMAIN last |->
                      IF last[c].kind = "stamp" THEN [last[c] EXCEPT !.n = Grown(@, OldFeed)]
                      ELSE last[c]]
        /\ sphere' = [sphere EXCEPT !.age = Grown(@, ShownFor + 1)]
        /\ horizons' = [v \in DOMAIN horizons |-> Grown(horizons[v], OldHorizon)]
        /\ refreshes' = {[r EXCEPT !.age = Grown(@, OldHorizon)] : r \in refreshes}
        /\ advisories' = [advisories EXCEPT !.age = Grown(@, OldHorizon)]
        /\ faces' = [i \in DOMAIN faces |->
                         [faces[i] EXCEPT !.age = Grown(@, OldSample)]]
        /\ assessed' = FALSE
        /\ UNCHANGED <<calibrations, perception, activeVehicle, driver>>

NextgenNext ==
    \/ \E c \in CameraIds, m \in Mounts, e \in Errors : Calibrate(c, m, e)
    \/ \E v \in Vehicles, c \in CameraIds, age \in Delays,
          n \in 0..MaxCount, clocked \in BOOLEAN :
          PostCamera(v, c, age, n, clocked)
    \/ \E v \in Vehicles, c \in CameraIds, age \in Delays,
          objects \in SUBSET Objects : PostLegacy(v, c, age, objects)
    \/ \E v \in Vehicles : StartRefresh(v)
    \/ \E r \in refreshes : FinishRefresh(r)
    \/ \E f \in Faces, age \in Delays : IngestSample(f, age)
    \/ NextgenTick

-----------------------------------------------------------------------------
(* Properties *)

\* A surround view shown as live rests on frames of all its cameras that are still
\* the last ones taken, none older than the two limits together, and in time with
\* each other, although frames go on coming, late or refused, and it is not rebuilt
\* for a refused one (buildSurroundFusion, snapshot).
SurroundIsEvidenced ==
    SurroundShown /\ sphere.live =>
        /\ Cardinality(sphere.cameras) >= Cardinality(RequiredMounts)
        /\ \A c \in sphere.cameras : frames[c] \in 0..(SurroundAge + ShownFor)
        /\ \A c, d \in sphere.cameras : frames[c] - frames[d] <= SyncSpread

\* The two stores of frames hold the same, each with a capacity of its own.
FeedsAgree == scene = frames

\* A camera without calibration never makes an object that alerts may rest on.
UncalibratedIsUntrusted == perception.eligible => perception.objects = {}

\* A refresh that ends while its horizon is fresh is seen, in whatever order refreshes
\* end and however full the store is.
RefreshesAreSeen ==
    [][\A r \in refreshes : FinishRefresh(r) /\ r.age <= HorizonAge =>
          HorizonShown' /\ activeVehicle' = r.vehicle]_nextgenVars

\* Drowsiness and distraction are found on samples of the window alone, although late
\* samples stay in the list behind a younger one.
DriverIsJudgedInWindow ==
    assessed /\ driver \in {"drowsy", "distracted"} =>
        Cardinality({i \in DOMAIN faces :
            /\ faces[i].age <= StateWindow
            /\ faces[i].face = IF driver = "drowsy" THEN "closed" ELSE "away"}) >= 2

\* What is shown of the cameras and of the driver rests on what was sent, by calibrated
\* cameras and within the window.
SnapshotIsEvidenced ==
    /\ SurroundIsEvidenced /\ FeedsAgree /\ UncalibratedIsUntrusted
    /\ DriverIsJudgedInWindow

=============================================================================

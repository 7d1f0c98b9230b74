---------------------------- MODULE DriverAssist ----------------------------
(***************************************************************************)
(* The driver assistance of the risk engine (services/risk-engine/src): the  *)
(* lane, driver and surround observations behind class DriverAssistRuntime     *)
(* (driver-assist-runtime.ts, lane-departure.ts, driver-monitoring.ts), and the *)
(* signs and lights of class VisionTrafficControlTracker                         *)
(* (vision-traffic-control-tracker.ts, traffic-control-perception.ts).            *)
(*                                                                                 *)
(* A time is an age in ticks.  The guard in front of the runtime refuses an          *)
(* observation that is not newer than the one before (server.ts,                      *)
(* acceptLegacyTimestamp); it may be late.  Lengths and angles are the bands that      *)
(* the thresholds make, a confidence is reliable or not.                                *)
(***************************************************************************)
EXTENDS Integers, SequencesExt, Lists

CONSTANTS ConfirmWindow,   \* LANE_CONFIRM_WINDOW_MS
          DmsWindow,       \* DMS_WINDOW_MS
          MaxGap,          \* MAX_SAMPLE_GAP_MS
          MinSpan,         \* MIN_TEMPORAL_SPAN_MS
          Microsleep,      \* SUSPECTED_MICROSLEEP_MS
          ClosedPattern,   \* 8_000: observed long enough to judge by the ratio closed
          LiveAge, StaleAge,  \* the LIVE and STALE bounds of freshness
          SignAge,         \* MAX_OBSERVATION_AGE_MS
          SignHistory,     \* HISTORY_MS
          MaxSigns,        \* MAX_HISTORY
          MaxLate,         \* bound: how late an observation arrives
          Cameras,         \* identities of the surround cameras
          MinCameras       \* MIN_SURROUND_CAMERAS

AssistAssumption ==
    /\ {ConfirmWindow, DmsWindow, MaxGap, MinSpan, Microsleep, ClosedPattern,
        LiveAge, StaleAge, SignAge, SignHistory, MaxSigns, MaxLate, MinCameras}
           \subseteq Nat
    /\ LiveAge <= StaleAge /\ SignAge <= SignHistory
    /\ MinSpan <= DmsWindow
    /\ 2 * MaxGap + Microsleep <= DmsWindow

ASSUME AssistAssumption

VARIABLES lanes,     \* laneHistory, newest last
          lane,      \* latestLane: age and assessment
          samples,   \* dmsSamples, newest last
          surround,  \* latestSurround: its cameras and their condition
          signs,     \* the tracker's history
          warned,    \* history: raw lane cautions and critical ones, sides and ages
          closed,    \* history: the run of closed eyes, its length and its last sample
          gapAge,    \* history: the last sample that came too late after another
          lit        \* history: age of the last usable sight of a light

laneVars == <<lanes, lane, warned>>
dmsVars == <<samples, closed, gapAge>>
signVars == <<signs, lit>>
assistVars == <<laneVars, dmsVars, surround, signVars>>

Sides == {"left", "right"}

\* Ages beyond this are not told from one another: what is so old when an observation
\* comes has left every window, and is not shown before.
AssistOld == Max({DmsWindow + StaleAge, DmsWindow + MaxLate, ConfirmWindow + MaxLate,
                  ConfirmWindow + StaleAge, SignHistory}) + 1
Later(age) == IF age >= AssistOld THEN age ELSE age + 1

Freshness(age) ==
    IF age <= LiveAge THEN "live" ELSE IF age <= StaleAge THEN "degraded" ELSE "unavailable"

-----------------------------------------------------------------------------
(* Lane departure *)

\* Observations; where one field decides, the others are not varied.
LaneObservations ==
    {o \in [speed : {"slow", "fast"}, model : {"reliable", "unreliable"},
            drift : Sides \cup {"none"}, signal : Sides \cup {"off", "hazard"},
            crossing : {"imminent", "soon", "far"}] :
        o.speed = "slow" \/ o.model = "unreliable" \/ o.drift = "none" =>
            /\ o.drift = "none" /\ o.signal = "off" /\ o.crossing = "far"
            /\ o.speed = "slow" => o.model = "reliable"}

\* assessLaneDeparture
AssessLane(o) ==
    CASE o.speed = "slow" -> [severity |-> "safe", side |-> "none", reason |-> "slow"]
      [] o.speed = "fast" /\ o.model = "unreliable" ->
            [severity |-> "safe", side |-> "none", reason |-> "unreliable"]
      [] o.speed = "fast" /\ o.model = "reliable" /\ o.drift = "none" ->
            [severity |-> "safe", side |-> "none", reason |-> "stable"]
      [] OTHER ->
            [severity |-> IF o.signal \in {o.drift, "hazard"} THEN "safe"
                          ELSE CASE o.crossing = "imminent" -> "critical"
                                 [] o.crossing = "soon" -> "caution"
                                 [] OTHER -> "safe",
             side |-> o.drift,
             reason |-> IF o.signal \in {o.drift, "hazard"} THEN "intended"
                        ELSE "departure"]

Alarming(a) == a.severity \in {"caution", "critical"} /\ a.side \in Sides

\* Mutant: a departure to either side confirms.
ConfirmationsOfEither(history, a) == Cardinality({i \in DOMAIN history : Alarming(history[i])})

Confirmations(history, a) ==
    Cardinality({i \in DOMAIN history : Alarming(history[i]) /\ history[i].side = a.side})

\* stabilizeLane: a caution waits for a second alarm to its side; a critical one does not.
Stabilized(history, a) ==
    IF a.severity = "caution" /\ Confirmations(history, a) < 2
    THEN [a EXCEPT !.severity = "safe", !.reason = "pending"] ELSE a

\* ingestLane; the observation is as old as it is late.
IngestLane(o, late) ==
    /\ late < lane.age
    /\ LET a == AssessLane(o)
           recent == Kept(lanes, {i \in DOMAIN lanes : lanes[i].age - late <= ConfirmWindow})
           history == Append(recent, [age |-> late, severity |-> a.severity, side |-> a.side])
       IN  /\ lanes' = history
           /\ lane' = [age |-> late, assessment |-> Stabilized(history, a)]
           /\ warned' = IF Alarming(a) THEN warned \cup {<<a.side, late>>} ELSE warned
    /\ UNCHANGED <<dmsVars, surround, signVars>>

\* What the snapshot says of the lane: an unreliable model is never live.
LaneAvailability ==
    IF Freshness(lane.age) = "live" /\ lane.assessment.reason = "unreliable" THEN "degraded"
    ELSE Freshness(lane.age)

-----------------------------------------------------------------------------
(* Driver monitoring *)

\* What a sample shows: eyes and gaze of a visible face, no face, or nothing reliable.
Looks == {"attentive", "closed", "away", "faceless", "unreliable"}

\* Samples by what they show: their places in the list.
WithLook(ordered, looks) == {i \in DOMAIN ordered : ordered[i].look \in looks}
Visible(ordered) == WithLook(ordered, {"attentive", "closed", "away"})

\* No visible sample from place i to place j shows anything else, and no two that follow
\* one another are too far apart.
Run(ordered, look, i, j) ==
    LET part == Visible(ordered) \cap (i..j)
    IN  /\ \A h \in part : ordered[h].look = look
        /\ \A g, h \in part : g < h /\ part \cap ((g + 1)..(h - 1)) = {} =>
              ordered[g].age - ordered[h].age <= MaxGap

\* longestSpanMs: the longest run of visible samples with this look, first to last.
LongestSpan(ordered, look) ==
    LET ends == {r \in Visible(ordered) \X Visible(ordered) :
                    r[1] <= r[2] /\ Run(ordered, look, r[1], r[2])}
    IN  Max({0} \cup {ordered[r[1]].age - ordered[r[2]].age : r \in ends})

\* perclos and gazeAwayRatio, of samples that weigh the same, at least pct per cent
AtLeast(part, whole, pct) == 100 * Cardinality(part) >= pct * Cardinality(whole)

\* assessDriverMonitoring: why nothing can be said of the driver, or the state.
AssessDriver(ordered) ==
    LET span == ordered[1].age - ordered[Len(ordered)].age
        valid == WithLook(ordered, Looks \ {"unreliable"})
        visible == Visible(ordered)
        shut == LongestSpan(ordered, "closed")
        away == LongestSpan(ordered, "away")
        Unknown(reason) == [state |-> "driver-unavailable", reason |-> reason]
        Judged(state) == [state |-> state, reason |-> "judged"]
    IN  CASE Len(ordered) < 3 -> Unknown("window")
          [] Len(ordered) >= 3 /\ span < MinSpan -> Unknown("window")
          [] Len(ordered) >= 3 /\ span >= MinSpan ->
             IF \E i \in 2..Len(ordered) : ordered[i - 1].age - ordered[i].age > MaxGap
             THEN Unknown("discontinuous")
             ELSE IF valid = {} THEN Unknown("unreliable")
             ELSE IF ~AtLeast(valid, DOMAIN ordered, 50) THEN Unknown("quality")
             ELSE IF ~AtLeast(visible, valid, 35) \/ Cardinality(visible) < 3
                  THEN Unknown("faceless")
             ELSE IF \/ shut >= Microsleep
                     \/ span >= ClosedPattern
                        /\ AtLeast(WithLook(ordered, {"closed"}), visible, 42)
                  THEN Judged("drowsiness-suspected")
             ELSE IF away >= MinSpan \/ AtLeast(WithLook(ordered, {"away"}), visible, 45)
                  THEN Judged("distracted")
             ELSE Judged("attentive")

\* The samples within the window that ends with an observation this late.
RecentSamples(late) ==
    Kept(samples, {i \in DOMAIN samples : samples[i].age - late <= DmsWindow})

\* ingestDriverMonitoring; the assessment it keeps is that of the samples it keeps.
IngestDriver(look, late) ==
    /\ samples # <<>> => late < samples[Len(samples)].age
    /\ samples' = Append(RecentSamples(late), [age |-> late, look |-> look])
    /\ closed' =
          CASE look = "closed" ->
                  [span |-> IF closed.age - late <= MaxGap
                            THEN Min({closed.span + closed.age - late, Microsleep}) ELSE 0,
                   age |-> late]
            [] look \in {"attentive", "away"} -> [span |-> 0, age |-> AssistOld]
            [] OTHER -> closed
    /\ gapAge' = IF samples # <<>> /\ samples[Len(samples)].age - late > MaxGap
                 THEN late ELSE gapAge
    /\ UNCHANGED <<laneVars, surround, signVars>>

Driver == AssessDriver(samples)

\* What the snapshot says of driver monitoring.
DriverAvailability ==
    IF samples = <<>> THEN "unavailable"
    ELSE LET fresh == Freshness(samples[Len(samples)].age)
         IN  CASE fresh # "live" -> fresh
               [] fresh = "live" /\ Driver.reason \in {"unreliable", "faceless", "discontinuous"} ->
                     "unavailable"
               [] fresh = "live" /\ Driver.reason \in {"window", "quality"} -> "degraded"
               [] OTHER -> "live"

-----------------------------------------------------------------------------
(* Surround view *)

\* One entry per camera of the observation; an identity may come twice.
SurroundCameras == [camera : Cameras, fit : BOOLEAN]

\* ingestSurround; fit is calibrated, synchronised, not occluded, within the bounds of
\* reprojection error and skew.
IngestSurround(cameras, late) ==
    /\ late < surround.age
    /\ surround' = [cameras |-> cameras, age |-> late]
    /\ UNCHANGED <<laneVars, dmsVars, signVars>>

\* buildSurroundStatus
FullyReady ==
    /\ Len(surround.cameras) >= MinCameras
    /\ \A i, j \in DOMAIN surround.cameras :
          i # j => surround.cameras[i].camera # surround.cameras[j].camera
    /\ \A i \in DOMAIN surround.cameras : surround.cameras[i].fit

SurroundAvailability ==
    IF Freshness(surround.age) = "live" /\ ~FullyReady THEN "degraded"
    ELSE Freshness(surround.age)

-----------------------------------------------------------------------------
(* Signs and lights *)

\* The values of one kind of observation, a light or a limit, and how sure it is.
SignObservations ==
    [value : {"red", "green"}, sure : {"low", "fair", "high"}]

\* assessTrafficControlObservation
UsableSign(s) == s.age <= SignAge /\ s.sure # "low"

Pruned(history) == Kept(history, {i \in DOMAIN history : history[i].age <= SignHistory})

\* ingest of the tracker: an observation is not kept twice.
IngestSign(o, late, again) ==
    LET s == [age |-> late, value |-> o.value, sure |-> o.sure]
        kept == IF UsableSign(s) /\ ~(again /\ \E i \in DOMAIN signs : signs[i] = s)
                THEN Append(Pruned(signs), s) ELSE Pruned(signs)
    IN  /\ signs' = SubSeq(kept, Max({1, Len(kept) - MaxSigns + 1}), Len(kept))
        /\ lit' = IF UsableSign(s) THEN [lit EXCEPT ![o.value] = Min({@, late})] ELSE lit
        /\ UNCHANGED <<laneVars, dmsVars, surround>>

\* snapshot of the tracker prunes its history.
ReadSigns ==
    /\ signs' = Pruned(signs)
    /\ UNCHANGED <<laneVars, dmsVars, surround, lit>>

Supporters(value) == {i \in DOMAIN signs : UsableSign(signs[i]) /\ signs[i].value = value}

\* stableBy: the value with most observations, if there are two, or all are sure.
StableSigns ==
    {v \in {"red", "green"} :
        /\ Supporters(v) # {}
        /\ \A w \in {"red", "green"} : Cardinality(Supporters(w)) <= Cardinality(Supporters(v))
        /\ \/ Cardinality(Supporters(v)) >= 2
           \/ \A i \in Supporters(v) : signs[i].sure = "high"}

-----------------------------------------------------------------------------

AssistInit ==
    /\ lanes = <<>>
    /\ lane = [age |-> AssistOld,
               assessment |-> [severity |-> "safe", side |-> "none", reason |-> "none"]]
    /\ samples = <<>> /\ signs = <<>> /\ warned = {}
    /\ surround = [cameras |-> <<>>, age |-> AssistOld]
    /\ closed = [span |-> 0, age |-> AssistOld] /\ gapAge = AssistOld
    /\ lit = [v \in {"red", "green"} |-> AssistOld]

AssistTick ==
    LET Aging(list) == [i \in DOMAIN list |-> [list[i] EXCEPT !.age = Later(@)]]
    IN  /\ lanes' = Aging(lanes) /\ samples' = Aging(samples) /\ signs' = Aging(signs)
        /\ lane' = [lane EXCEPT !.age = Later(@)]
        /\ surround' = [surround EXCEPT !.age = Later(@)]
        /\ closed' = [closed EXCEPT !.age = Later(@)] /\ gapAge' = Later(gapAge)
        /\ lit' = [v \in DOMAIN lit |-> Later(lit[v])]
        /\ warned' = {w \in {<<v[1], Later(v[2])>> : v \in warned} :
                         w[2] <= ConfirmWindow + LiveAge + MaxLate}

AssistNext ==
    \/ \E o \in LaneObservations, late \in 0..MaxLate : IngestLane(o, late)
    \/ \E look \in Looks, late \in 0..MaxLate : IngestDriver(look, late)
    \/ \E cs \in BoundedSeq(SurroundCameras, MinCameras), late \in 0..MaxLate :
          IngestSurround(cs, late)
    \/ \E o \in SignObservations, late \in 0..MaxLate, again \in BOOLEAN :
          IngestSign(o, late, again)
    \/ ReadSigns
    \/ AssistTick

-----------------------------------------------------------------------------
(* Properties *)

\* A lane caution that is shown as live was raised twice to its side within the
\* confirmation window; a critical one was raised.
LaneCautionsAreConfirmed ==
    LET a == lane.assessment
        raised == {w \in warned : w[1] = a.side /\ w[2] - lane.age \in 0..ConfirmWindow}
    IN  LaneAvailability = "live" =>
          /\ a.severity = "caution" => Cardinality(raised) >= 2
          /\ a.severity = "critical" => raised # {}

\* Eyes that have been closed for long enough, in samples without a gap, are never
\* judged anything but drowsiness, whatever else lies in the window.
MicrosleepIsSeen ==
    (DriverAvailability = "live" /\ closed.span >= Microsleep
     /\ closed.age = samples[Len(samples)].age)
        => Driver.state = "drowsiness-suspected"

\* A gap between two samples silences driver monitoring no longer than the window lasts.
GapsAreForgotten ==
    samples # <<>> /\ samples[Len(samples)].age <= StaleAge /\ Driver.reason = "discontinuous"
        => gapAge - samples[Len(samples)].age <= DmsWindow

\* A live surround view has enough different cameras, each of them fit.
SurroundIsComplete ==
    SurroundAvailability = "live" =>
        LET seen == {surround.cameras[i] : i \in DOMAIN surround.cameras}
        IN  /\ Cardinality({c.camera : c \in seen}) >= MinCameras
            /\ \A c \in seen : c.fit

\* A light that is shown has been seen within the age a sight may have.
LightsAreRecent == \A v \in StableSigns : lit[v] <= SignAge

\* Driver monitoring neither sleeps through closed eyes nor stays blind after a gap.
DriverIsJudged == MicrosleepIsSeen /\ GapsAreForgotten

\* What is shown of lane, surround, lights and driver rests on evidence that is recent,
\* and on as much of it as the code demands.
AssistIsEvidenced ==
    LaneCautionsAreConfirmed /\ SurroundIsComplete /\ LightsAreRecent /\ DriverIsJudged

=============================================================================

---------------------------- MODULE HistoryPolicies ----------------------------
(***************************************************************************)
(* The policies of the risk engine that judge a history of samples rather      *)
(* than one (services/risk-engine/src): how fast a warning is released, when a   *)
(* sensor is healthy again, whether a radar track is one object, whether radar     *)
(* and camera keep disagreeing, and which telemetry packets are new.  A history is   *)
(* kept in the order in which its samples arrive; a sample has the age it had when it  *)
(* was observed, negative when its stamp lies ahead, and grows older with time.          *)
(***************************************************************************)
EXTENDS Integers, FiniteSets, SequencesExt, Lists

CONSTANTS TrackIds, Measures,   \* tracks; ranges, distances and sequences
          Lateness,           \* ages at which samples arrive
          PolicyAge,          \* maxAgeMs and maxGapMs of the policies
          MinSamples,         \* their releaseSamples, minStableSamples, minSamples ...
          MaxJump,            \* maxRangeJumpM, maxDistanceDeltaM
          WindowSize,         \* of SequencePolicy
          MaxHistory, MaxOld  \* bounds: samples kept, age of the newest

ASSUME HistoryAssumption ==
    /\ PolicyAge \in Nat /\ MinSamples = 2 /\ MaxJump \in Nat /\ WindowSize \in Nat \ {0}
    /\ Lateness \subseteq Int /\ Measures \subseteq Nat /\ MaxHistory \in Nat /\ MaxOld \in Nat

VARIABLES policy,    \* the policy that reads this history
          history,   \* what has been observed
          level,     \* warning-hysteresis.ts: the level shown
          raisedAge  \* auxiliary: age of the sample that raised it

historyVars == <<policy, history, level, raisedAge>>

\* What a sample says, by the policy that reads it; a broken one is not finite.
MarksOf ==
    [track |-> {"sure", "weak", "broken"},
     health |-> {"well", "uncalibrated", "selfTestFailed", "offline"},
     disagreement |-> {"agree", "disagree", "broken"},
     warning |-> {"recommended"},
     odometry |-> {"measured", "derived", "implausible"},
     telemetry |-> {"packet"},
     soak |-> {"well", "hot", "unmeasured", "lowMemory"},
     outcomes |-> {"track", "simulated", "falseOnTrack", "falseSimulated", "unreviewed"}]

Policies == DOMAIN MarksOf
Levels == 0..3  \* safe, watch, warning, critical
Measured == {"track", "odometry", "telemetry", "soak"}

\* A sample of a track or of a way has one fault at most: weak, broken, of another track or
\* at another place.
Observable ==
    {s \in [age : IF policy = "soak" THEN {0} ELSE Lateness, mark : MarksOf[policy],
            id : IF policy = "track" THEN TrackIds ELSE {"one"},
            value : IF policy \in Measured THEN Measures
                    ELSE IF policy = "warning" THEN Levels ELSE {0}] :
        policy \in {"track", "odometry", "soak"} =>
            LET well == <<s.mark \in {"sure", "measured", "well"}, s.id = "one", s.value = 0>>
            IN  Cardinality({f \in 1..3 : ~well[f]}) <= 1}

Latest(h) == h[Len(h)]
FreshSample(s) == s.age \in 0..PolicyAge /\ s.mark # "broken"
Valid(s) == s.age >= 0 /\ s.mark # "broken"

\* filter(...).sort(by observedAtMs), which keeps samples of one time as they came.
ByTime(h, keep(_)) ==
    Arranged(h, {i \in DOMAIN h : keep(h[i])},
             LAMBDA i, j : h[i].age > h[j].age \/ (h[i].age = h[j].age /\ i < j))

Monotonic(h) == \A i \in 2..Len(h) : h[i].age < h[i - 1].age
Jumps(h) == \E i \in 2..Len(h) :
    h[i].value - h[i - 1].value > MaxJump \/ h[i - 1].value - h[i].value > MaxJump

\* How many samples at the end of h a predicate holds for.
Streak(h, holds(_)) ==
    CHOOSE n \in 0..Len(h) :
        /\ \A i \in (Len(h) - n + 1)..Len(h) : holds(h[i])
        /\ n < Len(h) => ~holds(h[Len(h) - n])

-----------------------------------------------------------------------------
(* warning-hysteresis.ts *)

\* applyWarningHysteresis: up at once, down after enough lower samples in a row.
ApplyWarningHysteresis(shown, h) ==
    LET fresh == ByTime(h, FreshSample)
        recommended == Latest(fresh).value
    IN  IF fresh = <<>> THEN shown
        ELSE IF recommended < shown /\ Streak(fresh, LAMBDA s : s.value < shown) < MinSamples
        THEN shown ELSE recommended

-----------------------------------------------------------------------------
(* sensor-health-state.ts, odometry-freshness-gate.ts *)

DeriveSensorHealth(h) ==
    IF h = <<>> THEN "unavailable"
    ELSE IF ~Monotonic(h) \/ Latest(h).age < 0 \/ Latest(h).age > PolicyAge
            \/ Latest(h).mark = "offline" THEN "unavailable"
    ELSE IF Streak(h, LAMBDA s : s.mark = "well") < MinSamples THEN "degraded" ELSE "healthy"

\* The loop of assessOdometry stops at the first sample that is at fault.
OdometryFault(h, i) ==
    IF h[i].age < 0 \/ (i > 1 /\ (h[i].age >= h[i - 1].age \/ h[i].value < h[i - 1].value))
    THEN "rejected"
    ELSE IF i > 1 /\ h[i].value - h[i - 1].value > MaxJump THEN "degraded" ELSE "none"

FirstFault(h, fault(_, _)) ==
    LET faulty == {i \in DOMAIN h : fault(h, i) # "none"}
    IN  IF faulty = {} THEN "none" ELSE fault(h, CHOOSE i \in faulty : \A j \in faulty : i <= j)

AssessOdometry(h) ==
    LET fault == FirstFault(h, OdometryFault)
    IN  IF h = <<>> THEN "rejected"
        ELSE IF fault # "none" THEN fault
        ELSE IF Latest(h).age > PolicyAge THEN "rejected"
        ELSE IF Latest(h).mark # "measured" THEN "degraded" ELSE "trusted"

-----------------------------------------------------------------------------
(* radar-track-continuity.ts, track-identity-lifecycle.ts, radar-ghost-persistence.ts *)

ContinuityFault(h, i) ==
    IF \/ h[i].id # h[1].id \/ ~Valid(h[i])
       \/ i > 1 /\ h[i].age >= h[i - 1].age THEN "rejected"
    ELSE IF i > 1 /\ h[i - 1].age - h[i].age > PolicyAge THEN "degraded" ELSE "none"

\* A gap early in the track answers before its staleness is looked at.
AssessRadarTrackContinuity(h) ==
    LET fault == FirstFault(h, ContinuityFault)
    IN  IF h = <<>> THEN "rejected"
        ELSE IF fault # "none" THEN fault
        ELSE IF Latest(h).age > PolicyAge THEN "rejected"
        ELSE IF Len(h) < 2 \/ \E i \in DOMAIN h : h[i].mark = "weak" THEN "degraded"
        ELSE "reliable"

AssessTrackIdentityLifecycle(h) ==
    LET valid == ByTime(h, Valid)
    IN  IF valid = <<>> \/ ~Monotonic(valid) THEN "unavailable"
        ELSE IF Latest(valid).age > PolicyAge THEN "unavailable"
        ELSE IF \/ Len(valid) < MinSamples
                \/ \E i \in DOMAIN valid : valid[i].id # Latest(valid).id \/ valid[i].mark = "weak"
                \/ \E i \in 2..Len(valid) : valid[i - 1].age - valid[i].age > PolicyAge
        THEN "degraded" ELSE "stable"

AssessRadarGhostPersistence(h) ==
    LET fresh == ByTime(h, FreshSample)
    IN  IF fresh = <<>> \/ \E i \in DOMAIN fresh : fresh[i].id # Latest(fresh).id THEN "ghost"
        ELSE IF \E i \in DOMAIN fresh : fresh[i].mark = "weak" THEN "degraded"
        ELSE IF ~Monotonic(fresh) \/ Jumps(fresh) THEN "ghost"
        ELSE IF Len(fresh) < MinSamples THEN "degraded" ELSE "persistent"

-----------------------------------------------------------------------------
(* sensor-disagreement-persistence.ts, telemetry-sequence-window.ts *)

AssessDisagreement(h) ==
    LET fresh == ByTime(h, FreshSample)
        streak == Streak(fresh, LAMBDA s : s.mark = "disagree")
    IN  IF fresh = <<>> \/ streak >= MinSamples THEN "blocked"
        ELSE IF streak > 0 THEN "degraded" ELSE "nominal"

\* The packets with the highest sequences, as many as the window holds.
Window(h) == {i \in DOMAIN h : Cardinality({j \in DOMAIN h : h[j].value > h[i].value}) < WindowSize}

AcceptsTelemetry(packet, h) ==
    /\ -packet.age <= PolicyAge
    /\ \A i \in Window(h) : packet.value > h[i].value /\ packet.age <= h[i].age

-----------------------------------------------------------------------------
(* target-runtime-observability.ts, false-positive-evidence.ts *)

\* observe: what the accumulator keeps of the snapshots; the uptime may fall by MaxJump.
ObserveSnapshot(seen, s) ==
    [uptime |-> s.value,
     regressed |-> seen.regressed \/ s.value + MaxJump < seen.uptime,
     measured |-> seen.measured \/ s.mark # "unmeasured",
     hot |-> seen.hot \/ s.mark = "hot",
     low |-> seen.low \/ s.mark = "lowMemory"]

\* summary: with a temperature required, one sample of it is enough.
SoakPassed(h) ==
    LET seen == FoldLeft(ObserveSnapshot,
            [uptime |-> 0, regressed |-> FALSE, measured |-> FALSE, hot |-> FALSE, low |-> FALSE], h)
    IN  h # <<>> /\ ~seen.regressed /\ seen.measured /\ ~seen.hot /\ ~seen.low

\* The upper bound of the rate of false positives: at these few samples one of them exceeds
\* what the policy allows, and none of them does not.
UpperExceeds(found) == \E s \in found : s \in {"falseOnTrack", "falseSimulated"}

\* assessFalsePositiveEvidence: the pooled samples are judged first, those of the track alone.
AssessFalsePositives(h) ==
    LET eligible == {i \in DOMAIN h : h[i].age <= PolicyAge /\ h[i].mark # "unreviewed"}
        onTrack == {i \in eligible : h[i].mark \in {"track", "falseOnTrack"}}
        MarksIn(places) == {h[i].mark : i \in places}
    IN  IF \E i \in DOMAIN h : h[i].age < 0 THEN "blocked"
        ELSE IF Cardinality(eligible) < MinSamples THEN "insufficient"
        ELSE IF UpperExceeds(MarksIn(eligible)) THEN "blocked"
        ELSE IF Cardinality(onTrack) >= MinSamples /\ ~UpperExceeds(MarksIn(onTrack)) THEN "physical"
        ELSE "software"

-----------------------------------------------------------------------------
HistoryInit ==
    /\ policy \in Policies
    /\ history = <<>> /\ level = 0 /\ raisedAge = 0

\* The caller asks for the level whenever its history or the time has changed.
Judged(h, aged) ==
    /\ history' = h
    /\ IF policy = "warning" THEN level' = ApplyWarningHysteresis(level, h) ELSE level' = level
    /\ raisedAge' = IF level' > level THEN Latest(ByTime(h, FreshSample)).age ELSE aged

Sampled(s) ==
    /\ Len(history) < MaxHistory
    /\ Judged(IF policy = "telemetry" /\ ~AcceptsTelemetry(s, history) THEN history
              ELSE Append(history, s), raisedAge)
    /\ UNCHANGED policy

\* Time passes for every sample.
HistoryTick ==
    /\ \E i \in DOMAIN history : history[i].age < MaxOld
    /\ Judged([i \in DOMAIN history |-> [history[i] EXCEPT !.age = @ + 1]], raisedAge + 1)
    /\ UNCHANGED policy

\* The caller begins another history.
Forget ==
    /\ history # <<>>
    /\ history' = <<>> /\ level' = 0 /\ raisedAge' = 0 /\ UNCHANGED policy

HistoryNext ==
    \/ \E s \in Observable : Sampled(s)
    \/ HistoryTick
    \/ Forget

-----------------------------------------------------------------------------
(* Properties *)

\* A warning goes down only on enough samples observed no earlier than the one that raised
\* it, whatever arrived late, and never for want of evidence (applyWarningHysteresis).
ReleasesAreEarned ==
    [][level' < level /\ history' # <<>> =>
          Cardinality({i \in DOMAIN history' :
              history'[i].value < level /\ history'[i].age \in 0..raisedAge'}) >= MinSamples]_historyVars

\* The three judges of a radar track agree wherever they judge the same: over samples in
\* order continuity is what identity is, and a track that keeps its place is no ghost.
TrackJudgesAgree ==
    policy = "track" =>
        LET whole == Monotonic(history) /\ \A i \in DOMAIN history : Valid(history[i])
            young == \A i \in DOMAIN history : FreshSample(history[i])
        IN  /\ whole => (AssessRadarTrackContinuity(history) = "reliable"
                             <=> AssessTrackIdentityLifecycle(history) = "stable")
            /\ young => (AssessRadarGhostPersistence(history) = "persistent"
                             <=> /\ AssessTrackIdentityLifecycle(history) = "stable"
                                 /\ ~Jumps(ByTime(history, FreshSample)))

\* The newest sample by its own stamp speaks: none that arrives late makes a sensor healthy,
\* a distance trusted, a fusion allowed or a packet new.
TheNewestSpeaks ==
    LET newest == {i \in DOMAIN history : \A j \in DOMAIN history : history[i].age <= history[j].age}
        first == Len(history) - MinSamples + 1
    IN  /\ policy = "health" /\ DeriveSensorHealth(history) = "healthy" =>
              newest = {Len(history)} /\ \A i \in first..Len(history) : history[i].mark = "well"
        /\ policy = "odometry" /\ AssessOdometry(history) = "trusted" =>
              \A i \in newest, j \in DOMAIN history :
                  history[i].mark = "measured" /\ history[i].value >= history[j].value
        /\ policy = "disagreement" /\ AssessDisagreement(history) = "nominal" =>
              \E i \in DOMAIN history : history[i].mark = "agree" /\ FreshSample(history[i])
        /\ policy = "soak" /\ SoakPassed(history) =>
              /\ \A i \in DOMAIN history : history[i].mark \notin {"hot", "lowMemory"}
              /\ \A i \in 2..Len(history) : history[i].value + MaxJump >= history[i - 1].value
        /\ policy = "outcomes" /\ AssessFalsePositives(history) = "physical" =>
              Cardinality({i \in DOMAIN history :
                  history[i].mark = "track" /\ FreshSample(history[i])}) >= MinSamples
        /\ policy = "telemetry" => \A i, j \in DOMAIN history :
              i < j => history[i].value < history[j].value /\ history[i].age >= history[j].age

HistoriesAreWeighed == TrackJudgesAgree /\ TheNewestSpeaks
=============================================================================

----------------------------- MODULE SotifMonitor -----------------------------
(***************************************************************************)
(* Which claims the evidence at hand supports (services/risk-engine/src):    *)
(* assessSotifRuntime (sotif-monitor.ts) for each feature, and the snapshot    *)
(* over all of them (sotif-assurance.ts).  Neither keeps anything; the state is  *)
(* the evidence, of which one aspect changes at a time.                            *)
(*                                                                                 *)
(* An aspect has the values that the thresholds of the policy tell apart, from       *)
(* the best to the worst.  Confidence is percent.                                      *)
(***************************************************************************)
EXTENDS Integers, FiniteSets

CONSTANT MaxShortfalls   \* bound: aspects that are not at their best at once

ASSUME SotifAssumption == MaxShortfalls \in Nat

VARIABLE evidence

sotifVars == <<evidence>>

Healths == <<"ok", "degraded", "unavailable">>
Ages == <<"fresh", "stale", "future", "none">>
AssuranceStates == <<"verified", "unknown", "invalid">>
Envelopes == <<"inside", "unverified", "outside">>   \* unverified: no bounds in the policy

\* The weather counts while its observation is fresh, whatever it is.
Values ==
    [radar |-> Healths, camera |-> Healths, gnss |-> Healths, can |-> Healths,
     radarAge |-> Ages, cameraAge |-> Ages, gnssAge |-> <<"fresh", "stale", "future">>,
     radarCalibration |-> AssuranceStates, cameraCalibration |-> AssuranceStates,
     timeSync |-> AssuranceStates,
     fusion |-> <<"agrees", "disagrees">>, speed |-> Envelopes, accuracy |-> Envelopes,
     lens |-> <<"clear", "obstructed">>, visibility |-> <<"normal", "reduced">>,
     precipitation |-> <<"none", "heavy-rain">>, illumination |-> <<"normal", "transition", "glare">>,
     observation |-> <<"fresh", "stale">>]

Aspects == DOMAIN Values
Grade(aspect, value) == CHOOSE i \in DOMAIN Values[aspect] : Values[aspect][i] = value

Features == {"front-collision-warning", "object-awareness", "lane-departure-warning",
             "navigation-context"}

-----------------------------------------------------------------------------
(* assessSotifRuntime *)

Observed(e, aspect, value) == e.observation = "fresh" /\ e[aspect] = value

RadarUsable(e) ==
    /\ e.radar # "unavailable" /\ e.radarAge = "fresh"
    /\ e.radarCalibration # "invalid" /\ e.timeSync # "invalid"

CameraUsable(e) ==
    /\ e.camera # "unavailable" /\ e.cameraAge = "fresh"
    /\ e.cameraCalibration # "invalid" /\ e.timeSync # "invalid"
    /\ ~Observed(e, "lens", "obstructed")

GnssUsable(e) == e.gnss # "unavailable" /\ e.gnssAge = "fresh" /\ e.accuracy # "outside"

\* Mutant: a critical warning asks the reasons for a degraded bus, and not for the bus.
ClaimsUnlessDegraded(e) ==
    {c \in {"radarRange", "relativeSpeed"} : RadarUsable(e)}
    \cup {c \in {"objectClassification"} : CameraUsable(e)}
    \cup {c \in {"laneGeometry"} : CameraUsable(e) /\ e.cameraCalibration = "verified"}
    \cup {c \in {"precisePosition"} : GnssUsable(e)}
    \cup {c \in {"criticalCollisionWarning"} :
            RadarUsable(e) /\ e.can # "degraded"
            /\ e.radarCalibration = "verified" /\ e.timeSync = "verified"}

\* allowedClaims
Claims(e) ==
    {c \in {"radarRange", "relativeSpeed"} : RadarUsable(e)}
    \cup {c \in {"objectClassification"} : CameraUsable(e)}
    \cup {c \in {"laneGeometry"} : CameraUsable(e) /\ e.cameraCalibration = "verified"}
    \cup {c \in {"precisePosition"} : GnssUsable(e)}
    \cup {c \in {"criticalCollisionWarning"} :
            RadarUsable(e) /\ e.can = "ok"
            /\ e.radarCalibration = "verified" /\ e.timeSync = "verified"}

\* Reasons that degrade whichever feature: what is unavailable or invalid is not among
\* them, the vehicle's own bus apart.
Degrading(f, e) ==
    \/ \E s \in {"radar", "camera", "gnss", "can"} : e[s] = "degraded"
    \/ e.can = "unavailable"
    \/ \E a \in {"radarCalibration", "cameraCalibration", "timeSync"} : e[a] = "unknown"
    \/ \E w \in {"lens", "visibility", "precipitation", "illumination"} :
          e.observation = "fresh" /\ e[w] # Values[w][1]
    \/ e.fusion = "disagrees" \/ e.speed = "unverified"
    \/ e.accuracy = "unverified" /\ f = "navigation-context"

Unavailable(f, e) ==
    CASE f = "front-collision-warning" -> ~RadarUsable(e)
      [] f = "lane-departure-warning" -> ~CameraUsable(e)
      [] f = "navigation-context" -> ~GnssUsable(e)
      [] f = "object-awareness" -> ~RadarUsable(e) /\ ~CameraUsable(e)

\* Mutant: an object awareness that has lost one of its sensors is as good as before.
ImpairedByBothOnly(f, e) ==
    CASE f = "front-collision-warning" ->
              e.can # "ok" \/ e.radarCalibration # "verified" \/ e.timeSync # "verified"
      [] f = "lane-departure-warning" -> "laneGeometry" \notin Claims(e)
      [] f = "navigation-context" -> e.accuracy = "unverified"
      [] f = "object-awareness" -> FALSE

Impaired(f, e) ==
    CASE f = "front-collision-warning" ->
              e.can # "ok" \/ e.radarCalibration # "verified" \/ e.timeSync # "verified"
      [] f = "lane-departure-warning" -> "laneGeometry" \notin Claims(e)
      [] f = "navigation-context" -> e.accuracy = "unverified"
      [] f = "object-awareness" -> ~RadarUsable(e) \/ ~CameraUsable(e)

State(f, e) ==
    CASE Unavailable(f, e) -> "unavailable"
      [] ~Unavailable(f, e) /\ e.speed = "outside" -> "outside-research-envelope"
      [] ~Unavailable(f, e) /\ e.speed # "outside" /\ (Impaired(f, e) \/ Degrading(f, e)) -> "degraded"
      [] OTHER -> "nominal"

Least(S) == CHOOSE n \in S : \A m \in S : n <= m

Ceiling(f, e) ==
    IF State(f, e) = "unavailable" THEN 0
    ELSE Least({100}
        \cup {n \in {45} : "radarRange" \notin Claims(e)}
        \cup {n \in {60} : "objectClassification" \notin Claims(e)}
        \cup {n \in {55} : e.fusion = "disagrees"}
        \cup {n \in {65} : \/ Observed(e, "visibility", "reduced")
                           \/ Observed(e, "precipitation", "heavy-rain")
                           \/ Observed(e, "illumination", "glare")}
        \cup {n \in {40} : State(f, e) = "outside-research-envelope"})

-----------------------------------------------------------------------------
(* buildSotifAssuranceSnapshot *)

Rank(state) == CASE state = "unavailable" -> 3 [] state = "outside-research-envelope" -> 2
                 [] state = "degraded" -> 1 [] OTHER -> 0

OverallRank(e) == -Least({-Rank(State(f, e)) : f \in Features})
OverallCeiling(e) == Least({Ceiling(f, e) : f \in Features})
CriticalAllowed(e) == "criticalCollisionWarning" \in Claims(e)

Shortfalls(e) == {a \in Aspects : e[a] # Values[a][1]}

SotifInit == evidence = [a \in Aspects |-> Values[a][1]]

\* The next assessment finds one aspect changed.
Observe(aspect, value) ==
    /\ evidence[aspect] # value
    /\ evidence' = [evidence EXCEPT ![aspect] = value]
    /\ Cardinality(Shortfalls(evidence')) <= MaxShortfalls

SotifNext == \E a \in Aspects : \E i \in DOMAIN Values[a] : Observe(a, Values[a][i])

-----------------------------------------------------------------------------
(* Properties *)

\* One aspect is worse than before.  That the weather is no longer observed is not among
\* them: the code then goes on as if it were fine.
Worsens(e, f) ==
    \E a \in Aspects \ {"observation"} :
        /\ Grade(a, f[a]) > Grade(a, e[a])
        /\ f = [e EXCEPT ![a] = f[a]]

\* Missing evidence reduces the claim: when an aspect gets worse, no claim is gained and no
\* feature is given more confidence, however the other aspects stand.
ClaimsAreReduced ==
    [][evidence' # evidence /\ Worsens(evidence, evidence') =>
          /\ Claims(evidence') \subseteq Claims(evidence)
          /\ \A f \in Features : Ceiling(f, evidence') <= Ceiling(f, evidence)
          /\ OverallCeiling(evidence') <= OverallCeiling(evidence)]_evidence

Needed(f) ==
    CASE f = "front-collision-warning" -> {"radarRange", "relativeSpeed", "criticalCollisionWarning"}
      [] f = "lane-departure-warning" -> {"laneGeometry"}
      [] f = "navigation-context" -> {"precisePosition"}
      [] f = "object-awareness" -> {"radarRange", "objectClassification"}

\* A feature that is called nominal has every claim it needs, critical warnings are not
\* allowed of a front collision warning that is unavailable, and the snapshot is as bad as
\* the worst of its features.
StatesHideNothing ==
    /\ \A f \in Features : State(f, evidence) = "nominal" => Needed(f) \subseteq Claims(evidence)
    /\ CriticalAllowed(evidence) => State("front-collision-warning", evidence) # "unavailable"
    /\ OverallRank(evidence) < 3 => OverallCeiling(evidence) > 0
    /\ Cardinality({f \in Features : Unavailable(f, evidence)}) > 0 => OverallRank(evidence) = 3
=============================================================================

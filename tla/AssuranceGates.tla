---------------------------- MODULE AssuranceGates ----------------------------
(***************************************************************************)
(* The gates that turn one kind of evidence into what may be claimed of it     *)
(* (services/risk-engine/src, and the standby of edge/pi-resilience): each is   *)
(* a pure function of its own evidence, of which one aspect changes at a time.   *)
(* An aspect has the values its gate tells apart, from the best to the worst; an  *)
(* assessment is a rank, 0 for the best, the claims that are allowed, and a        *)
(* ceiling in percent.                                                              *)
(***************************************************************************)
EXTENDS Integers, FiniteSets, SequencesExt

CONSTANTS RadarTracks, CameraObjects,   \* what an association names
          MaxMatches                    \* bound: associations of a frame

ASSUME GatesAssumption == MaxMatches \in Nat

VARIABLES gate, facts, matches

gateVars == <<gate, facts, matches>>

Trust == <<"trusted", "degraded", "unavailable">>
Assured == <<"verified", "unknown", "invalid">>
Passed == <<"passed", "missing">>
Bounded == <<"inside", "outside">>

ClaimAspects ==
    [age |-> <<"fresh", "stale", "future">>, input |-> <<"valid", "invalid">>,
     confidence |-> <<"enough", "low">>, calibration |-> Assured, timeSync |-> Assured,
     geometry |-> <<"authoritative", "not">>]

\* One scenario that is safety-critical, and one that is not and needs no track.
Scenarios == {"critical", "relevant"}
Coverage == {"software", "hil", "track", "review"}

\* What the speed sign kept, the public map and the camera providers answer; a provider that
\* does not answer is as good as none.
RoadOutcomes ==
    [sign |-> <<"sure", "unsure", "stale", "none">>, map |-> <<"limit", "silent", "failed">>,
     providers |-> <<"configured", "none">>]

\* What a diagnostics report is asked to show: the identity of the target, of which every part
\* must be told, and which counters the runtime covered.
DiagnosticSources ==
    [test |-> <<"physical", "software">>, runtime |-> <<"provided", "none">>,
     build |-> <<"told", "missing">>, hardware |-> <<"told", "missing">>,
     revisions |-> <<"told", "missing">>, sensorAges |-> <<"covered", "not">>,
     rejectedPackets |-> <<"covered", "not">>, providers |-> <<"covered", "not">>]

AspectsOf ==
    [standby |->
        [platform |-> <<"healthy", "not">>, primary |-> <<"stale", "present">>,
         witness |-> <<"valid", "none">>, replicated |-> <<"fresh", "stale">>],
     roadLimit |-> RoadOutcomes,
     diagnostics |-> DiagnosticSources,
     environmentEnvelope |->
        [policy |-> <<"reviewed", "invalid">>, time |-> <<"fresh", "stale", "future", "none">>,
         visibility |-> <<"clear", "low", "unseen">>, light |-> <<"lit", "dark", "unseen">>,
         rain |-> <<"dry", "moderate", "heavy", "unseen">>, glare |-> <<"none", "glare", "unseen">>,
         lens |-> <<"clear", "partly", "obstructed", "unseen">>],
     environmentAssurance |->
        [input |-> <<"valid", "invalid">>, time |-> <<"fresh", "future", "stale", "none">>,
         visibility |-> <<"normal", "reduced">>, rain |-> <<"none", "heavy">>,
         illumination |-> <<"normal", "transition", "glare">>, lens |-> <<"clear", "obstructed">>],
     radarClaims |-> ClaimAspects, cameraClaims |-> ClaimAspects, fusedClaims |-> ClaimAspects,
     calibration |->
        [age |-> <<"fresh", "stale", "future", "invalid">>, identity |-> <<"complete", "incomplete">>,
         mount |-> <<"expected", "other">>, review |-> <<"accepted", "pending", "rejected">>],
     timeSync |->
        [measurement |-> <<"valid", "invalid">>, clock |-> <<"monotonic", "regressed">>,
         time |-> <<"observed", "future">>, bounds |-> <<"reviewed", "missing", "invalid">>,
         offset |-> Bounded, jitter |-> Bounded],
     clock |->
        [sample |-> <<"fresh", "stale", "none">>, order |-> <<"monotonic", "not">>,
         source |-> <<"trusted", "untrusted">>, quality |-> Bounded],
     mlRuntime |->
        [model |-> <<"loaded", "missing">>, runtime |-> <<"healthy", "not">>,
         metrics |-> <<"valid", "invalid">>, bounds |-> <<"reviewed", "missing", "invalid">>,
         latency |-> Bounded, drops |-> Bounded, memory |-> Bounded],
     cameraFrame |->
        [order |-> <<"monotonic", "not">>, age |-> <<"fresh", "stale">>, latency |-> Bounded,
         model |-> <<"verified", "not">>, confidence |-> <<"enough", "low">>],
     obstruction |->
        [sample |-> <<"fresh", "stale", "none">>, selfTest |-> <<"pass", "unknown", "fail">>,
         lens |-> <<"clear", "partly", "obstructed">>, confidence |-> <<"enough", "low">>],
     gnss |->
        [fix |-> <<"valid", "invalid">>, time |-> <<"fresh", "stale", "future">>,
         speed |-> <<"plausible", "not">>, heading |-> <<"valid", "invalid">>, accuracy |-> Bounded],
     collision |->
        [radar |-> Trust, odometry |-> Trust, timeSync |-> Trust, camera |-> Trust,
         metrics |-> <<"both", "missing", "invalid">>],
     runtimeHealth |->
        [heartbeat |-> <<"recent", "late">>, restarts |-> Bounded, eventLoop |-> Bounded,
         memory |-> Bounded, temperature |-> Bounded, sensors |-> <<"fresh", "stale">>,
         canTransmits |-> <<"none", "some">>],
     coverage |->
        [p \in (Scenarios \X Coverage) \cup {<<"critical", "risk">>, <<"all", "registry">>} |->
            IF p[2] = "risk" THEN <<"accepted", "open">>
            ELSE IF p[2] = "registry" THEN <<"whole", "broken">> ELSE Passed],
     safetyCase |->
        [s \in {"source", "tests", "sil", "hil", "track", "road"} |-> Passed],
     release |->
        [s \in {"integrity", "tests", "sil", "security", "hil", "track", "review", "road"} |-> Passed]]

Gates == DOMAIN AspectsOf

Verdict(rank, claims, ceiling) == [rank |-> rank, claims |-> claims, ceiling |-> ceiling]
Level(rank, claims) == Verdict(rank, claims, 100)
Closed(rank) == Verdict(rank, {}, 0)

-----------------------------------------------------------------------------
(* environment-validity-envelope.ts, environment-assurance.ts *)

AssessEnvironmentEnvelope(e) ==
    CASE \/ e.policy = "invalid" \/ e.time # "fresh"
         \/ \E a \in {"visibility", "light", "rain", "glare", "lens"} : e[a] = "unseen" -> Closed(3)
      [] OTHER ->
         IF e.visibility = "low" \/ e.rain = "heavy" \/ e.lens = "obstructed" THEN Closed(2)
         ELSE IF e.glare = "glare" \/ e.light = "dark" \/ e.rain = "moderate" \/ e.lens = "partly"
         THEN Closed(1) ELSE Level(0, {"cameraSemantic", "fusion"})

\* An observation that is missing or stale forbids nothing.
AssessEnvironmentAssurance(e) ==
    LET all == {"cameraClassification", "laneGeometry", "radarGeometry"}
        adverse == \/ e.visibility = "reduced" \/ e.rain = "heavy" \/ e.lens = "obstructed"
                   \/ e.illumination # "normal"
    IN  IF e.input = "invalid" \/ e.time = "future" THEN Closed(3)
        ELSE IF e.time \in {"stale", "none"} THEN Level(2, all)
        ELSE Verdict(IF adverse THEN 1 ELSE 0,
                     IF e.lens = "obstructed" THEN {"radarGeometry"} ELSE all,
                     IF adverse THEN 65 ELSE 100)

-----------------------------------------------------------------------------
(* perception-claim-gate.ts *)

HardFailure(e) ==
    \/ e.age # "fresh" \/ e.calibration = "invalid" \/ e.timeSync = "invalid"
    \/ e.confidence = "low"

AssessPerceptionClaims(e, radar, camera) ==
    LET unknown == e.calibration = "unknown" \/ e.timeSync = "unknown"
        loose == radar /\ e.geometry # "authoritative"
    IN  IF e.input = "invalid" \/ HardFailure(e) THEN Closed(2)
        ELSE Verdict(IF unknown \/ loose THEN 1 ELSE 0,
                     {c \in {"range", "relativeSpeed"} : radar /\ e.geometry = "authoritative"}
                     \cup {c \in {"classification"} : camera /\ ~unknown},
                     IF loose THEN 50 ELSE IF unknown THEN 60 ELSE 100)

-----------------------------------------------------------------------------
(* calibration-assurance.ts, time-sync-assurance.ts, sensor-clock-quality.ts *)

AssessCalibration(e) ==
    IF e.age # "fresh" \/ e.identity = "incomplete" \/ e.mount = "other" \/ e.review = "rejected"
    THEN Closed(2)
    ELSE IF e.review = "pending" THEN Closed(1) ELSE Level(0, {"research"})

\* Without reviewed bounds the offset and the jitter are compared with nothing.
AssessTimeSync(e) ==
    IF \/ e.measurement = "invalid" \/ e.clock = "regressed" \/ e.time = "future"
       \/ e.bounds = "invalid"
       \/ e.bounds = "reviewed" /\ (e.offset = "outside" \/ e.jitter = "outside")
    THEN Closed(2)
    ELSE IF e.bounds = "missing" THEN Closed(1) ELSE Level(0, {"fusion"})

AssessClockQuality(e) ==
    IF e.sample # "fresh" \/ e.order = "not" THEN Closed(2)
    ELSE IF e.source = "untrusted" \/ e.quality = "outside" THEN Closed(1)
    ELSE Level(0, {"fusion"})

-----------------------------------------------------------------------------
(* ml-runtime-envelope.ts, camera-frame-trust.ts, camera-obstruction-health.ts,       *)
(* gnss-integrity-gate.ts                                                               *)

AssessMlRuntime(e) ==
    IF e.model = "missing" \/ e.runtime = "not" \/ e.metrics = "invalid" \/ e.bounds = "invalid"
    THEN Closed(3)
    ELSE IF e.bounds = "missing" THEN Closed(2)
    ELSE IF \E m \in {"latency", "drops", "memory"} : e[m] = "outside" THEN Closed(1)
    ELSE Level(0, {"semantics"})

AssessCameraFrame(e) ==
    IF e.order = "not" \/ e.age = "stale" THEN Closed(2)
    ELSE IF e.latency = "outside" \/ e.model = "not" \/ e.confidence = "low" THEN Closed(1)
    ELSE Level(0, {"semantics"})

AssessObstruction(e) ==
    IF e.sample # "fresh" \/ e.selfTest = "fail" \/ e.lens = "obstructed" THEN Closed(2)
    ELSE IF e.selfTest = "unknown" \/ e.lens = "partly" \/ e.confidence = "low" THEN Closed(1)
    ELSE Level(0, {"semantics"})

\* Of a degraded fix the speed or the heading stays usable, whichever is not at fault.
AssessGnssFix(e) ==
    IF e.fix = "invalid" \/ e.time # "fresh" THEN Closed(2)
    ELSE IF e.speed = "not" THEN Level(1, {"heading"})
    ELSE IF e.heading = "invalid" THEN Level(1, {"speed"})
    ELSE Level(IF e.accuracy = "outside" THEN 1 ELSE 0, {"speed", "heading"})

-----------------------------------------------------------------------------
(* collision-claim-policy.ts, runtime-health-supervisor.ts *)

Required == {"radar", "odometry", "timeSync"}

DecideCollisionClaim(e) ==
    LET label == {c \in {"semanticLabel"} : e.camera = "trusted"}
    IN  IF e.metrics = "invalid" \/ \E s \in Required : e[s] = "unavailable" THEN Closed(2)
        ELSE IF e.metrics = "missing" \/ \E s \in Required : e[s] # "trusted" THEN Level(1, label)
        ELSE Level(0, {"collisionWarning"} \cup label)

AssessRuntimeHealth(e) ==
    IF e.heartbeat = "late" \/ e.restarts = "outside" \/ e.canTransmits = "some" THEN Closed(2)
    ELSE IF \/ \E a \in {"eventLoop", "memory", "temperature"} : e[a] = "outside"
            \/ e.sensors = "stale" THEN Closed(1)
    ELSE Level(0, {"noService"})

-----------------------------------------------------------------------------
(* pi-resilience/standby_failover.py, road-context.ts, field-diagnostics.ts *)

\* A standby takes over only from a primary that is silent, with a witness and fresh state.
DecideStandbyPromotion(e) ==
    IF e.platform = "not" THEN Closed(2)
    ELSE IF e.primary = "present" THEN Closed(1)
    ELSE IF e.witness = "none" \/ e.replicated = "stale" THEN Closed(2)
    ELSE Level(0, {"promote"})

\* A sure, fresh sign outdoes the map, whatever the map says.
GetRoadContext(e) ==
    IF e.sign = "sure" THEN Level(0, {"limit"})
    ELSE IF e.map = "limit" THEN Verdict(1, {"limit"}, 72)
    ELSE IF e.map = "silent" \/ e.providers = "configured" THEN Closed(2) ELSE Closed(3)

BuildFieldDiagnosticsReport(e) ==
    LET core == e.runtime = "provided" /\ e.sensorAges = "covered" /\ e.rejectedPackets = "covered"
        identity == e.build = "told" /\ e.hardware = "told" /\ e.revisions = "told"
        ready == e.test = "physical" /\ identity /\ core
    IN  Verdict(IF ready /\ e.providers = "covered" THEN 0 ELSE IF ready THEN 1 ELSE 2,
                {c \in {"physicalCapture"} : ready}, IF ready THEN 100 ELSE 0)

-----------------------------------------------------------------------------
(* sotif-coverage-readiness.ts, safety-case-status.ts, release-readiness-explainer.ts *)

Needs == [software |-> Scenarios, hil |-> Scenarios, track |-> {"critical"}, review |-> {"critical"}]
Lacks(e, kind) == \E s \in Needs[kind] : e[<<s, kind>>] = "missing"

\* Blockers of a coverage: everything that is missing, and a critical risk that is open.
Blocked(e) ==
    \/ \E kind \in Coverage : Lacks(e, kind)
    \/ e[<<"critical", "risk">>] = "open" \/ e[<<"all", "registry">>] = "broken"

\* An open risk blocks only when everything else is there.
AssessCoverage(e) ==
    IF e[<<"all", "registry">>] = "broken" \/ Lacks(e, "software") THEN Closed(4)
    ELSE IF Lacks(e, "hil") THEN Closed(3)
    ELSE IF Lacks(e, "track") THEN Closed(2)
    ELSE IF Lacks(e, "review") THEN Closed(1)
    ELSE IF e[<<"critical", "risk">>] = "open" THEN Closed(4) ELSE Level(0, {"review"})

AssessSafetyCase(e) ==
    IF \E s \in {"source", "tests", "sil"} : e[s] = "missing" THEN Closed(4)
    ELSE IF e.hil = "missing" THEN Closed(3)
    ELSE IF e.track = "missing" THEN Closed(2)
    ELSE IF e.road = "missing" THEN Closed(1) ELSE Level(0, {"review"})

ExplainReadiness(e) ==
    IF \E s \in {"integrity", "tests", "sil", "security"} : e[s] = "missing" THEN Closed(4)
    ELSE IF e.hil = "missing" \/ e.track = "missing" THEN Closed(3)
    ELSE IF e.review = "missing" THEN Closed(2)
    ELSE IF e.road = "missing" THEN Closed(1) ELSE Level(0, {"review"})

-----------------------------------------------------------------------------
Assessment(g, e) ==
    CASE g = "standby" -> DecideStandbyPromotion(e)
      [] g = "roadLimit" -> GetRoadContext(e)
      [] g = "diagnostics" -> BuildFieldDiagnosticsReport(e)
      [] g = "environmentEnvelope" -> AssessEnvironmentEnvelope(e)
      [] g = "environmentAssurance" -> AssessEnvironmentAssurance(e)
      [] g = "radarClaims" -> AssessPerceptionClaims(e, TRUE, FALSE)
      [] g = "cameraClaims" -> AssessPerceptionClaims(e, FALSE, TRUE)
      [] g = "fusedClaims" -> AssessPerceptionClaims(e, TRUE, TRUE)
      [] g = "calibration" -> AssessCalibration(e)
      [] g = "timeSync" -> AssessTimeSync(e)
      [] g = "clock" -> AssessClockQuality(e)
      [] g = "mlRuntime" -> AssessMlRuntime(e)
      [] g = "cameraFrame" -> AssessCameraFrame(e)
      [] g = "obstruction" -> AssessObstruction(e)
      [] g = "gnss" -> AssessGnssFix(e)
      [] g = "collision" -> DecideCollisionClaim(e)
      [] g = "runtimeHealth" -> AssessRuntimeHealth(e)
      [] g = "coverage" -> AssessCoverage(e)
      [] g = "safetyCase" -> AssessSafetyCase(e)
      [] g = "release" -> ExplainReadiness(e)

-----------------------------------------------------------------------------
(* sensor-disagreement-assurance.ts: the associations of one frame, in their order *)

Associations == [radar : RadarTracks, camera : CameraObjects, fit : {"fits", "range", "skew", "invalid"}]

\* One round of the loop over the matches: an invalid one names nothing.
Considered(seen, match) ==
    IF match.fit = "invalid" THEN [seen EXCEPT !.reasons = @ \cup {"invalid"}]
    ELSE [radars |-> seen.radars \cup {match.radar}, cameras |-> seen.cameras \cup {match.camera},
          reasons |-> seen.reasons
              \cup {r \in {"radar-reuse"} : match.radar \in seen.radars}
              \cup {r \in {"camera-reuse"} : match.camera \in seen.cameras}
              \cup ({match.fit} \ {"fits"})]

DisagreementReasons(tracks, detections) ==
    FoldLeft(Considered, [radars |-> {}, cameras |-> {}, reasons |-> {}], matches).reasons
    \cup {r \in {"impossible"} :
            Len(matches) > IF tracks < detections THEN tracks ELSE detections}

FusionAllowed(tracks, detections) == DisagreementReasons(tracks, detections) = {}

-----------------------------------------------------------------------------
Best(g) == [a \in DOMAIN AspectsOf[g] |-> AspectsOf[g][a][1]]

GatesInit ==
    /\ gate \in Gates \cup {"association"}
    /\ facts = IF gate \in Gates THEN Best(gate) ELSE << >>
    /\ matches = << >>

\* The evidence of the gate is assessed again with one aspect changed.
Change(a, i) ==
    /\ gate \in Gates
    /\ facts' = [facts EXCEPT ![a] = AspectsOf[gate][a][i]]
    /\ UNCHANGED <<gate, matches>>

Associate(m) ==
    /\ gate = "association" /\ Len(matches) < MaxMatches
    /\ matches' = Append(matches, m)
    /\ UNCHANGED <<gate, facts>>

NextFrame == matches # <<>> /\ matches' = <<>> /\ UNCHANGED <<gate, facts>>

GatesNext ==
    \/ gate \in Gates /\ \E a \in DOMAIN AspectsOf[gate] :
          \E i \in DOMAIN AspectsOf[gate][a] : Change(a, i)
    \/ \E m \in Associations : Associate(m)
    \/ NextFrame

-----------------------------------------------------------------------------
(* Properties *)

PlaceOf(g, a, value) == CHOOSE i \in DOMAIN AspectsOf[g][a] : AspectsOf[g][a][i] = value

\* One aspect got worse.  Two cases are left out in which the code claims more of worse
\* evidence: an environment that is no longer observed restricts nothing, and a fix that
\* moves at a speed nobody believes is handed on with its heading, an invalid one included.
Worse(e, f) ==
    \E a \in DOMAIN e :
        /\ PlaceOf(gate, a, f[a]) > PlaceOf(gate, a, e[a])
        /\ f = [e EXCEPT ![a] = f[a]]
        /\ ~(gate = "environmentAssurance" /\ a = "time" /\ f[a] \in {"stale", "none"})
        /\ ~(gate = "gnss" /\ a = "speed" /\ e.heading = "invalid")

\* Worse evidence never opens a gate: no claim is gained and no ceiling raised, whatever
\* else is known, and however early a function returns.
GatesCloseOnly ==
    [][facts' # facts /\ Worse(facts, facts') =>
          LET before == Assessment(gate, facts)  after == Assessment(gate, facts')
          IN  after.claims \subseteq before.claims /\ after.ceiling <= before.ceiling]_facts

\* The worst verdict opens nothing, a coverage is ready for review if and only if nothing
\* blocks it, and a fusion is allowed only over associations that are one to one.
GatesFailClosed ==
    /\ gate \in Gates /\ gate # "environmentAssurance" =>
          LET found == Assessment(gate, facts)
          IN  found.rank >= 2 => found.claims = {} /\ found.ceiling = 0
    /\ gate = "coverage" => ((Assessment(gate, facts).rank = 0) <=> ~Blocked(facts))
    /\ gate = "association" /\ FusionAllowed(2, 2) =>
          /\ Len(matches) <= 2
          /\ \A i, j \in DOMAIN matches : i # j =>
                matches[i].radar # matches[j].radar /\ matches[i].camera # matches[j].camera
          /\ \A i \in DOMAIN matches : matches[i].fit = "fits"
=============================================================================

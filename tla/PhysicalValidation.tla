-------------------------- MODULE PhysicalValidation --------------------------
(***************************************************************************)
(* The physical evidence runtime (services/risk-engine/src/                   *)
(* physical-validation-runtime.ts): the protected index of evidence, the        *)
(* read-only observation of the vehicle, the time synchronisation limits, the     *)
(* life of a sensor calibration and the capture agents of the bench and of the      *)
(* test track.  What an agent or a transition is told about the others is an       *)
(* input: the code ties none of them to another.                                    *)
(***************************************************************************)
EXTENDS Naturals, FiniteSets, SequencesExt

CONSTANTS Actors, RecordIds, Packages, Builds,
          MaxIndexed,          \* maxRecords of the index
          MaxBufferedEvents,   \* of the vehicle's observations
          MaxSnapshotAge, MaxFutureSkew,   \* in ticks
          None

ASSUME ValidationAssumption ==
    /\ MaxIndexed \in Nat \ {0} /\ MaxBufferedEvents \in Nat \ {0}
    /\ MaxSnapshotAge \in Nat \ {0} /\ MaxFutureSkew \in Nat

Classes == {"hil", "closed-track"}

VARIABLES store,       \* the index: recordId -> record
          digests,     \* packageDigests
          backend,     \* the four properties of its configuration all hold
          calibration, \* the record of one sensor
          round,       \* history: what the running round of calibration has behind it
          agents,      \* an agent of either class
          readied,     \* history: nothing was missing when the agent was last evaluated
          observing,   \* the read of the vehicle that is under way
          observed, events

indexVars == <<store, digests, backend>>
calibrationVars == <<calibration, round>>
agentVars == <<agents, readied>>
observationVars == <<observing, observed, events>>
validationVars == <<indexVars, calibrationVars, agentVars, observationVars>>

(***************************************************************************)
(* The protected index.  `sound' stands for the fields that                   *)
(* validatePhysicalEvidenceRecord asks for one by one; `scenario' says that     *)
(* the record names the scenario of the agent of its class.                      *)
(***************************************************************************)
Evidence == [id : RecordIds, class : Classes, package : Packages, sound : BOOLEAN,
             scenario : BOOLEAN, review : {"pending", "reviewed"}]

\* None is nobody, no build and no record.
ASSUME NoneAssumption == None \notin Actors \cup Builds /\ None \notin Evidence

ValidatePhysicalEvidenceRecord(r) == r.sound

Registered == {id \in RecordIds : store[id] # None}

RegistrationCode(r) ==
    IF ~backend THEN "backend-unavailable"
    ELSE IF ~ValidatePhysicalEvidenceRecord(r) \/ r.id \in Registered THEN "invalid-record"
    ELSE IF r.package \in digests THEN "duplicate-package"
    ELSE IF Cardinality(Registered) >= MaxIndexed THEN "capacity-reached"
    ELSE "registered"

Register(r) ==
    /\ RegistrationCode(r) = "registered"
    /\ store' = [store EXCEPT ![r.id] = r]
    /\ digests' = digests \cup {r.package}
    /\ UNCHANGED <<backend, calibrationVars, agentVars, observationVars>>

(***************************************************************************)
(* TimeSyncMonitor.assess: limits and measurements by what they amount to.    *)
(***************************************************************************)
TimeSyncObservations == [discontinuity : BOOLEAN, within : BOOLEAN]

AssessTimeSync(reviewedLimits, o) ==
    IF o.discontinuity THEN "clock-discontinuity"
    ELSE IF ~reviewedLimits THEN "unreviewed-limits"
    ELSE IF o.within THEN "within-reviewed-limits" ELSE "outside-reviewed-limits"

QualifiedForPhysicalEvidence(reviewedLimits, o) ==
    AssessTimeSync(reviewedLimits, o) = "within-reviewed-limits"

(***************************************************************************)
(* transitionCalibration.                                                  *)
(***************************************************************************)
CalibrationStates == {"unprovisioned", "provisioned", "calibration-pending",
                      "captured-awaiting-independent-review", "approved", "rejected",
                      "invalidated"}

CalibrationRecords ==
    [state : CalibrationStates, operator : Actors \cup {None}, reviewer : Actors \cup {None},
     build : Builds \cup {None}, artifact : Packages \cup {None}]

Transition(from, to, actor) ==
    /\ calibration.state = from
    /\ calibration' = [calibration EXCEPT !.state = to, !.operator = actor]

Provision(actor) ==
    /\ Transition("unprovisioned", "provisioned", actor)
    /\ UNCHANGED <<round, indexVars, agentVars, observationVars>>

BeginCalibration(actor, reviewedLimits, o) ==
    /\ QualifiedForPhysicalEvidence(reviewedLimits, o)
    /\ Transition("provisioned", "calibration-pending", actor)
    /\ round' = [began |-> actor, captured |-> None]
    /\ UNCHANGED <<indexVars, agentVars, observationVars>>

Capture(actor, build, artifact) ==
    /\ calibration.state = "calibration-pending"
    /\ calibration' = [calibration EXCEPT
          !.state = "captured-awaiting-independent-review",
          !.operator = IF @ = None THEN actor ELSE @,
          !.build = build, !.artifact = artifact]
    /\ round' = [round EXCEPT !.captured = artifact]
    /\ UNCHANGED <<indexVars, agentVars, observationVars>>

\* Mutant: anybody may review.
IndependentIfNamed(actor) == calibration.operator # None

Independent(actor) == calibration.operator \notin {None, actor}

Review(actor, verdict) ==
    /\ calibration.state = "captured-awaiting-independent-review"
    /\ Independent(actor)
    /\ calibration' = [calibration EXCEPT !.state = verdict, !.reviewer = actor]
    /\ UNCHANGED <<round, indexVars, agentVars, observationVars>>

Invalidate ==
    /\ calibration.state = "approved"
    /\ calibration' = [calibration EXCEPT !.state = "invalidated", !.reviewer = None]
    /\ UNCHANGED <<round, indexVars, agentVars, observationVars>>

\* The artifact of the round before stays in the record.
Retry(actor) ==
    /\ calibration.state \in {"rejected", "invalidated"}
    /\ calibration' = [calibration EXCEPT !.state = "calibration-pending", !.operator = actor,
                                          !.reviewer = None]
    /\ round' = [began |-> actor, captured |-> None]
    /\ UNCHANGED <<indexVars, agentVars, observationVars>>

(***************************************************************************)
(* HilBenchAgent and ControlledTrackAgent.  An agent that has captured is       *)
(* evaluated like any other, and keeps the id of the record.                      *)
(***************************************************************************)
\* Five inputs at the bench, ten at the track with an operator and an observer.
Missing == [hil : SUBSET {"review", "commit"}, track : SUBSET {"review", "approval"}]

Blocked(class, missing, operator, observer) ==
    IF class = "hil" THEN missing.hil # {}
    ELSE missing.track # {} \/ None \in {operator, observer} \/ operator = observer

Evaluate(class, missing, operator, observer) ==
    LET blocked == Blocked(class, missing, operator, observer)
    IN  /\ agents' = [agents EXCEPT ![class].state = IF blocked THEN "BLOCKED" ELSE "READY"]
        /\ readied' = [readied EXCEPT ![class] = ~blocked]
        /\ UNCHANGED <<indexVars, calibrationVars, observationVars>>

MayCapture(class) == agents[class].state = "READY"

CaptureScenario(class, r) ==
    /\ MayCapture(class)
    /\ r.class = class /\ r.scenario
    /\ r.review = "pending"
    /\ ValidatePhysicalEvidenceRecord(r)
    /\ agents' = [agents EXCEPT ![class] = [state |-> "CAPTURED", record |-> r]]
    /\ UNCHANGED <<readied, indexVars, calibrationVars, observationVars>>

(***************************************************************************)
(* VehicleComputerRuntime.observe: the answer is judged at the time of the call. *)
(* Times are in ticks after the call; a snapshot may be taken before or after it.  *)
(***************************************************************************)
Sensors == [can : BOOLEAN, gnssImu : BOOLEAN, ecu : BOOLEAN]

\* A snapshot: its age at the call, or how far after the call it was taken.
Snapshots == [age : 0..MaxSnapshotAge + 1, ahead : 0..MaxFutureSkew + 1, sensors : Sensors]

ObservationReasons(s) ==
    {x \in {"future-clock-skew", "stale-vehicle-snapshot"} :
        IF x = "future-clock-skew" THEN s.ahead > MaxFutureSkew ELSE s.age > MaxSnapshotAge}
    \cup {i \in {"can", "gnssImu", "ecu"} : ~s.sensors[i]}

Noted(e) ==
    LET added == Append(events, e)
    IN  IF Len(added) > MaxBufferedEvents THEN Tail(added) ELSE added

Observe ==
    /\ ~observing /\ observing' = TRUE
    /\ UNCHANGED <<observed, events, indexVars, calibrationVars, agentVars>>

SnapshotRead(s) ==
    /\ observing /\ observing' = FALSE
    /\ s.age = 0 \/ s.ahead = 0
    /\ LET degraded == ObservationReasons(s) # {}
       IN  /\ observed' = [status |-> IF degraded THEN "degraded" ELSE "live", snapshot |-> s]
           /\ events' = IF degraded THEN Noted("vehicle-input-degraded") ELSE events
    /\ UNCHANGED <<indexVars, calibrationVars, agentVars>>

ReadFails ==
    /\ observing /\ observing' = FALSE
    /\ observed' = [status |-> "unavailable", snapshot |-> None]
    /\ events' = Noted("vehicle-input-unavailable")
    /\ UNCHANGED <<indexVars, calibrationVars, agentVars>>

(***************************************************************************)
(* buildP0P6Portfolio: what is counted, none of which is a qualification.      *)
(***************************************************************************)
BuildP0P6Portfolio ==
    [registered |-> Cardinality(Registered),
     vehicle    |-> observed.status,
     approved   |-> IF calibration.state = "approved" THEN 1 ELSE 0,
     captured   |-> {c \in Classes : agents[c].state = "CAPTURED"},
     qualified  |-> FALSE]

(***************************************************************************)
(* The specification.                                                      *)
(***************************************************************************)
ValidationInit ==
    /\ store = [id \in RecordIds |-> None] /\ digests = {} /\ backend \in BOOLEAN
    /\ calibration = [state |-> "unprovisioned", operator |-> None, reviewer |-> None,
                      build |-> None, artifact |-> None]
    /\ round = [began |-> None, captured |-> None]
    /\ agents = [c \in Classes |-> [state |-> "BLOCKED", record |-> None]]
    /\ readied = [c \in Classes |-> FALSE]
    /\ observing = FALSE /\ observed = [status |-> None, snapshot |-> None] /\ events = << >>

IndexNext == \E r \in Evidence : Register(r)

CalibrationNext ==
    \/ \E a \in Actors : Provision(a)
    \/ \E a \in Actors, l \in BOOLEAN, o \in TimeSyncObservations : BeginCalibration(a, l, o)
    \/ \E a \in Actors, b \in Builds, p \in Packages : Capture(a, b, p)
    \/ \E a \in Actors, v \in {"approved", "rejected"} : Review(a, v)
    \/ Invalidate
    \/ \E a \in Actors : Retry(a)

AgentNext ==
    \/ \E c \in Classes, m \in Missing, o1, o2 \in Actors \cup {None} : Evaluate(c, m, o1, o2)
    \/ \E c \in Classes, r \in Evidence : CaptureScenario(c, r)

ObservationNext ==
    \/ Observe
    \/ \E s \in Snapshots : SnapshotRead(s)
    \/ ReadFails

(***************************************************************************)
(* Properties.                                                             *)
(***************************************************************************)
\* The variables have their types.
ValidationTypeOK ==
    /\ store \in [RecordIds -> Evidence \cup {None}] /\ digests \subseteq Packages
    /\ calibration \in CalibrationRecords
    /\ \A c \in Classes : /\ agents[c].state \in {"BLOCKED", "READY", "CAPTURED"}
                          /\ agents[c].record \in Evidence \cup {None}
    /\ observed.status \in {"live", "degraded", "unavailable", None}
    /\ events \in Seq({"vehicle-input-degraded", "vehicle-input-unavailable"})
    /\ Len(events) <= MaxBufferedEvents

\* The index stays within its bound, holds sound evidence of a reviewed store only, and
\* no package of evidence twice under two names.
EvidenceIsIndexedOnce ==
    /\ Cardinality(Registered) <= MaxIndexed
    /\ \A i, j \in Registered : i # j => store[i].package # store[j].package
    /\ Registered # {} => backend
    /\ BuildP0P6Portfolio.registered = Cardinality(digests)

\* Whatever rounds a sensor went through, a verdict is of the artifact captured in the
\* last one, and of somebody else than who began that round.
VerdictsAreIndependent ==
    calibration.state \in {"approved", "rejected"} =>
        /\ calibration.reviewer # None /\ calibration.build # None
        /\ calibration.reviewer # round.began
        /\ calibration.artifact = round.captured

\* A scenario counted as captured had nothing missing when it was evaluated last, and
\* its evidence is sound, its own and still to be reviewed.
CapturesAreReady ==
    \A c \in BuildP0P6Portfolio.captured :
        /\ readied[c]
        /\ agents[c].record # None
        /\ agents[c].record.class = c /\ agents[c].record.sound
        /\ agents[c].record.review = "pending"

\* Registered evidence is never changed or lost, and an approved calibration keeps its
\* artifact until it has been taken back.
EvidenceStands ==
    [][/\ \A id \in Registered : store'[id] = store[id]
       /\ calibration.state = "approved" => calibration'.artifact = calibration.artifact]_validationVars
=============================================================================

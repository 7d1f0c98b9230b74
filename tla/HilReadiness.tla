----------------------------- MODULE HilReadiness -----------------------------
(***************************************************************************)
(* The readiness report of the hardware-in-the-loop bench (scripts/               *)
(* hil-execution-orchestrator.mjs): reviewers fill in the documents of the         *)
(* bench one by one, or take a review back, and the report says at any moment       *)
(* which scenarios may be run.  The state is what the documents say.                  *)
(***************************************************************************)
EXTENDS Naturals, FiniteSets

CONSTANTS Commits, NoCommit,
          Roles, Targets, Groups,   \* equipment, devices to provision, sensors to calibrate
          Scenarios, Needs          \* Needs[s]: the roles, targets and groups s requires

ASSUME ReadinessAssumption ==
    \A s \in Scenarios : /\ Needs[s].roles \subseteq Roles
                         /\ Needs[s].targets \subseteq Targets
                         /\ Needs[s].groups \subseteq Groups

VARIABLES commit,        \* the build the report is asked for, if one is frozen
          harness, equipment,
          provisioned, calibrated,   \* the build of the last record that counts
          sessions,      \* the builds of the reviewed time sessions
          thresholds,    \* the numeric time limits are filled in
          registry,      \* the evidence of a scenario is complete and reviewed
          contract       \* everything else the report expects of the documents

readinessVars == <<commit, harness, equipment, provisioned, calibrated, sessions, thresholds,
                   registry, contract>>

\* A review that names one person for both parts does not count: records of
\* calibrations and sessions only enter with two.
People == {"operator", "reviewer"}

CountsAsReviewed(operator, reviewer) == operator # reviewer

SelectedTimeSession == IF commit = NoCommit THEN sessions # {} ELSE commit \in sessions

TimeSyncReady == thresholds /\ SelectedTimeSession

\* A record for another build is a blocker when a build is frozen.
OfTheBuild(build) == build # NoCommit /\ (commit = NoCommit \/ build = commit)

PreExecutionBlockers(s) ==
    {x \in {"source-commit"} : commit = NoCommit}
    \cup {x \in {"harness"} : ~harness}
    \cup {r \in Needs[s].roles : ~equipment[r]}
    \cup {t \in Needs[s].targets : ~OfTheBuild(provisioned[t])}
    \cup {g \in Needs[s].groups : ~OfTheBuild(calibrated[g])}
    \cup {x \in {"time-sync"} : ~TimeSyncReady}

Ready(s) == PreExecutionBlockers(s) = {}

\* The contract also expects the limits to be left open: `time sync baseline does not
\* guess max offset'.
SoftwareContractValid == contract /\ ~thresholds

Report(requested) ==
    [valid    |-> SoftwareContractValid,
     ready    |-> {s \in requested : Ready(s)},
     complete |-> {s \in requested : registry[s]},
     physicalExecutionReady |-> requested # {} /\ \A s \in requested : Ready(s)]

ExitCode(requested, requireReady) ==
    IF ~Report(requested).valid THEN 1
    ELSE IF requireReady /\ ~Report(requested).physicalExecutionReady THEN 2 ELSE 0

(***************************************************************************)
(* What reviewers do to the documents.                                       *)
(***************************************************************************)
Freeze(build) ==
    /\ commit' = build
    /\ UNCHANGED <<harness, equipment, provisioned, calibrated, sessions, thresholds, registry,
                   contract>>

HarnessReviewed(reviewed) ==
    /\ harness' = reviewed
    /\ UNCHANGED <<commit, equipment, provisioned, calibrated, sessions, thresholds, registry,
                   contract>>

EquipmentReviewed(role, reviewed) ==
    /\ equipment' = [equipment EXCEPT ![role] = reviewed]
    /\ UNCHANGED <<commit, harness, provisioned, calibrated, sessions, thresholds, registry,
                   contract>>

\* The last record of a device that counts is the one that is read.
Provisioned(target, build) ==
    /\ provisioned' = [provisioned EXCEPT ![target] = build]
    /\ UNCHANGED <<commit, harness, equipment, calibrated, sessions, thresholds, registry,
                   contract>>

Calibrated(group, build, operator, reviewer) ==
    /\ calibrated' = IF build = NoCommit \/ CountsAsReviewed(operator, reviewer)
                     THEN [calibrated EXCEPT ![group] = build] ELSE calibrated
    /\ UNCHANGED <<commit, harness, equipment, provisioned, sessions, thresholds, registry,
                   contract>>

SessionReviewed(build, operator, reviewer) ==
    /\ CountsAsReviewed(operator, reviewer)
    /\ sessions' = sessions \cup {build}
    /\ UNCHANGED <<commit, harness, equipment, provisioned, calibrated, thresholds, registry,
                   contract>>

SessionWithdrawn(build) ==
    /\ sessions' = sessions \ {build}
    /\ UNCHANGED <<commit, harness, equipment, provisioned, calibrated, thresholds, registry,
                   contract>>

ThresholdsReviewed(reviewed) ==
    /\ thresholds' = reviewed
    /\ UNCHANGED <<commit, harness, equipment, provisioned, calibrated, sessions, registry,
                   contract>>

EvidenceCompleted(s, complete) ==
    /\ registry' = [registry EXCEPT ![s] = complete]
    /\ UNCHANGED <<commit, harness, equipment, provisioned, calibrated, sessions, thresholds,
                   contract>>

ContractChanges ==
    /\ contract' = ~contract
    /\ UNCHANGED <<commit, harness, equipment, provisioned, calibrated, sessions, thresholds,
                   registry>>

ReadinessInit ==
    /\ commit = NoCommit /\ harness = FALSE /\ equipment = [r \in Roles |-> FALSE]
    /\ provisioned = [t \in Targets |-> NoCommit] /\ calibrated = [g \in Groups |-> NoCommit]
    /\ sessions = {} /\ thresholds = FALSE
    /\ registry = [s \in Scenarios |-> FALSE] /\ contract = TRUE

ReadinessNext ==
    \/ \E b \in Commits \cup {NoCommit} : Freeze(b)
    \/ \E v \in BOOLEAN : HarnessReviewed(v)
    \/ \E r \in Roles, v \in BOOLEAN : EquipmentReviewed(r, v)
    \/ \E t \in Targets, b \in Commits \cup {NoCommit} : Provisioned(t, b)
    \/ \E g \in Groups, b \in Commits \cup {NoCommit}, o, r \in People : Calibrated(g, b, o, r)
    \/ \E b \in Commits, o, r \in People : SessionReviewed(b, o, r)
    \/ \E b \in Commits : SessionWithdrawn(b)
    \/ \E v \in BOOLEAN : ThresholdsReviewed(v)
    \/ \E s \in Scenarios, v \in BOOLEAN : EvidenceCompleted(s, v)
    \/ ContractChanges

(***************************************************************************)
(* Properties.                                                             *)
(***************************************************************************)
\* A scenario shown ready can be run with one build: the devices, the calibrations and
\* the time session it rests on are all of the build that is frozen, whatever builds
\* were reviewed before.
ReadyIsOfOneBuild ==
    \A s \in Scenarios : Ready(s) =>
        /\ commit \in Commits /\ commit \in sessions
        /\ \A t \in Needs[s].targets : provisioned[t] = commit
        /\ \A g \in Needs[s].groups : calibrated[g] = commit

\* Reviews that have come in since, or another build.
More ==
    \/ commit' # commit \/ (harness' /\ ~harness) \/ (thresholds' /\ ~thresholds)
    \/ \E r \in Roles : equipment'[r] /\ ~equipment[r]
    \/ \E t \in Targets : provisioned'[t] \notin {NoCommit, provisioned[t]}
    \/ \E g \in Groups : calibrated'[g] \notin {NoCommit, calibrated[g]}
    \/ ~(sessions' \subseteq sessions)

\* No scenario becomes ready by a review that is taken back.
ReadinessIsEarned == [][(\E s \in Scenarios : Ready(s)' /\ ~Ready(s)) => More]_readinessVars
=============================================================================

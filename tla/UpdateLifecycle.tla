---------------------------- MODULE UpdateLifecycle ---------------------------
(***************************************************************************)
(* A software update of the risk engine: the package verifier and the        *)
(* eligibility check of update-verifier.ts, the lifecycle of update-state.ts, *)
(* the rollback floor of anti-rollback.ts.  The installer that calls them is   *)
(* not part of the repository: it calls any operation whose check passes, in   *)
(* any order that the lifecycle allows; only the floor outlives a restart.     *)
(***************************************************************************)
EXTENDS Integers, FiniteSets

CONSTANTS Offered,      \* the packages on offer: [index, fits, hashed, signed, future]
          MaxIndex      \* 2^31 - 1

ASSUME UpdateAssumption ==
    /\ MaxIndex \in Nat
    /\ Offered \subseteq [index : Nat, fits : BOOLEAN, hashed : BOOLEAN,
                          signed : BOOLEAN, future : BOOLEAN]

NoPackage == [index |-> -1, fits |-> FALSE, hashed |-> FALSE, signed |-> FALSE, future |-> FALSE]

States == {"idle", "staged", "verified", "ready", "installing", "pending-boot",
           "accepted", "rollback-required", "failed"}

VARIABLES state,       \* the lifecycle: its state and the package it is about
          package,
          floor,       \* the rollback index store
          commits,     \* the indexes that calls of commitAcceptedUpdate are about to commit
          fit,         \* the vehicle: what evaluateInstallEligibility asks, all at once
          cleared,     \* history: the packages that have been verified
          accepted     \* history: the rollback indexes of the updates that booted healthily

updateVars == <<state, package, floor, commits, fit, cleared, accepted>>

ValidIndex(i) == i \in 0..MaxIndex

\* verifyUpdatePackage against a floor read before.
Verifies(p, minimum) ==
    /\ ValidIndex(p.index) /\ ~p.future /\ p.fits
    /\ p.index >= minimum
    /\ p.hashed /\ p.signed

Stageable == {"idle", "accepted", "failed", "rollback-required"}

Stage(p) ==
    /\ state \in Stageable
    /\ state' = "staged" /\ package' = p
    /\ UNCHANGED <<floor, commits, fit, cleared, accepted>>

MoveTo(next) ==
    /\ state' = next
    /\ UNCHANGED <<package, floor, commits, fit, cleared, accepted>>

\* The verifier is pure; markVerified follows if it agrees.
MarkVerified ==
    /\ state = "staged"
    /\ Verifies(package, floor)
    /\ state' = "verified" /\ cleared' = cleared \cup {package}
    /\ UNCHANGED <<package, floor, commits, fit, accepted>>

\* Mutant: readiness asks for a staged update, verified or not.
ReadyFromStaged == {"staged", "verified"}

ReadyFrom == {"verified"}

MarkReady == state \in ReadyFrom /\ MoveTo(IF fit THEN "ready" ELSE "failed")

BeginInstall == state = "ready" /\ MoveTo("installing")

MarkInstalled == state = "installing" /\ MoveTo("pending-boot")

ReportBootHealthy ==
    /\ state = "pending-boot"
    /\ state' = "accepted" /\ accepted' = accepted \cup {package.index}
    /\ UNCHANGED <<package, floor, commits, fit, cleared>>

ReportBootFailure == state = "pending-boot" /\ MoveTo("rollback-required")

Fail == MoveTo(IF state \in {"installing", "pending-boot"} THEN "rollback-required" ELSE "failed")

(***************************************************************************)
(* commitAcceptedUpdate of a snapshot of the lifecycle: it reads the floor,    *)
(* and after an await it commits.                                             *)
(***************************************************************************)
MayCommit == state = "accepted"

BeginCommit ==
    /\ MayCommit /\ package.index \notin commits
    /\ ValidIndex(package.index) /\ package.index >= floor
    /\ commits' = commits \cup {package.index}
    /\ UNCHANGED <<state, package, floor, fit, cleared, accepted>>

\* Mutant: the store trusts the check before the await.
RaisedUnseen(old, new) == IF ValidIndex(new) THEN new ELSE old

\* RollbackIndexStore.commit: it refuses to go down, whatever was read before.
Raised(old, new) == IF ValidIndex(new) /\ new >= old THEN new ELSE old

FinishCommit(i) ==
    /\ floor' = Raised(floor, i)
    /\ commits' = commits \ {i}
    /\ UNCHANGED <<state, package, fit, cleared, accepted>>

VehicleChanges == fit' = ~fit /\ UNCHANGED <<state, package, floor, commits, cleared, accepted>>

PowerLoss ==
    /\ state # "idle" \/ commits # {}
    /\ state' = "idle" /\ package' = NoPackage /\ commits' = {}
    /\ UNCHANGED <<floor, fit, cleared, accepted>>

UpdateInit ==
    /\ state = "idle" /\ package = NoPackage
    /\ floor = 0 /\ commits = {} /\ fit = FALSE
    /\ cleared = {} /\ accepted = {}

UpdateNext ==
    \/ \E p \in Offered : Stage(p)
    \/ MarkVerified \/ MarkReady \/ BeginInstall \/ MarkInstalled
    \/ ReportBootHealthy \/ ReportBootFailure \/ Fail
    \/ BeginCommit \/ \E i \in commits : FinishCommit(i)
    \/ VehicleChanges \/ PowerLoss

UpdateSpec == UpdateInit /\ [][UpdateNext]_updateVars

(***************************************************************************)
(* Properties.                                                             *)
(***************************************************************************)
UpdateTypeOK ==
    /\ state \in States /\ package \in Offered \cup {NoPackage}
    /\ floor \in 0..MaxIndex /\ commits \subseteq 0..MaxIndex /\ accepted \subseteq 0..MaxIndex
    /\ cleared \subseteq Offered /\ fit \in BOOLEAN

\* What is installed, booted or accepted is a package that was verified: no
\* order of calls, failures, restarts and new packages brings one past the
\* verifier, and none of them makes the floor anything but the index of an update
\* that has booted healthily, even if that update is gone when its commit ends.
UpdatesAreEarned ==
    /\ state \in {"verified", "ready", "installing", "pending-boot", "accepted"} =>
          package \in cleared
    /\ floor \in accepted \cup {0}
    /\ commits \subseteq accepted

\* The floor never falls, restarts and overlapping commits included.
FloorNeverFalls == [][floor' >= floor]_updateVars
=============================================================================

----------------------------- MODULE BootGuard ------------------------------
(***************************************************************************)
(* boot_guard.py as one caller at a time sees it: every method of class    *)
(* BootGuard loads boot-state.json, checks, changes and saves it in one    *)
(* step.  PiResilience splits the load from the save.                      *)
(***************************************************************************)
EXTENDS BootState

VARIABLES boot,      \* boot-state.json
          accepted,  \* history: some candidate has been accepted
          tried,     \* history: tryboots granted since the last staging
          trusted    \* history: partitions whose image is the initial one or
                     \* was accepted, and has not been rewritten since

vars == <<boot, accepted, tried, trusted>>

Init ==
    /\ boot = FreshBootState
    /\ accepted = FALSE
    /\ tried = 0
    /\ trusted = {DefaultPartition}

\* The image is flashed to `part' before the candidate is staged.
StageCandidate(slot, part) ==
    /\ CanStage(boot, slot, part)
    /\ boot' = Staged(boot, slot, part)
    /\ tried' = 0
    /\ trusted' = trusted \ {part}
    /\ UNCHANGED accepted

BeginCandidateBoot ==
    /\ CanBegin(boot)
    /\ boot' = Begun(boot)
    /\ tried' = IF boot'.phase = "candidate-booting" THEN tried + 1 ELSE tried
    /\ UNCHANGED <<accepted, trusted>>

AcceptCandidate(part, tryboot) ==
    /\ CanAccept(boot, part, tryboot)
    /\ boot' = Accepted(boot)
    /\ accepted' = TRUE
    /\ trusted' = trusted \cup {part}
    /\ UNCHANGED tried

ReportFailure ==
    /\ boot' = Failed(boot)
    /\ UNCHANGED <<accepted, tried, trusted>>

RecoverAfterUncleanBoot(part, tryboot) ==
    /\ boot' = Recovered(boot, part, tryboot)
    /\ UNCHANGED <<accepted, tried, trusted>>

Next ==
    \/ \E slot \in Slots, part \in Partition : StageCandidate(slot, part)
    \/ BeginCandidateBoot
    \/ \E part \in Partition, tryboot \in BOOLEAN :
          AcceptCandidate(part, tryboot)
    \/ ReportFailure
    \/ \E part \in Partition, tryboot \in BOOLEAN :
          RecoverAfterUncleanBoot(part, tryboot)

Spec == Init /\ [][Next]_vars

-----------------------------------------------------------------------------
(* Properties *)

\* Every state the methods save passes validate(), and the attempt counter
\* stops one above the budget.
TypeOK ==
    /\ boot \in BootStates
    /\ boot.attempts \in 0..(MaxCandidateAttempts + 1)
    /\ accepted \in BOOLEAN
    /\ tried \in Nat
    /\ trusted \subseteq Partition

\* A candidate under trial (staged or booting) has complete metadata and
\* shares neither its slot nor its partition with the known-good system: the
\* tryboot can never be the system one would roll back to.
TrialApartFromKnownGood ==
    OnTrial(boot) =>
        /\ HasCandidate(boot)
        /\ boot.candSlot # boot.kgSlot
        /\ boot.candPart # boot.kgPart

\* The partition the boot state calls known-good holds an image that was
\* accepted and not rewritten since: an update never overwrites it, a failed
\* one never takes its place.
KnownGoodIsTrusted == boot.kgPart \in trusted

\* begin_candidate_boot grants at most max_candidate_attempts tryboots to one
\* staged candidate, whatever failures and retries come in between.
TrybootBudget == tried <= MaxCandidateAttempts

\* The slot to run is the known-good one in every phase but
\* candidate-booting, where it is the candidate.
ActiveSlotFollowsPhase ==
    boot.active = IF boot.phase = "candidate-booting"
                  THEN boot.candSlot ELSE boot.kgSlot

\* The A/B recovery model of the risk engine, read off the boot state:
\* active_slot is its bootTarget, and the candidate a rollback keeps on
\* record for diagnosis is forgotten there.
AB == INSTANCE ABRecovery WITH
        NoSlot        <- None,
        phase         <- CASE boot.phase = "stable" ->
                                 IF accepted THEN "accepted" ELSE "idle"
                           [] boot.phase = "candidate-staged" ->
                                 "candidate-written"
                           [] boot.phase = "candidate-booting" ->
                                 "booting-candidate"
                           [] OTHER -> "rollback-required",
        activeSlot    <- boot.kgSlot,
        knownGoodSlot <- boot.kgSlot,
        bootTarget    <- boot.active,
        candidateSlot <- IF OnTrial(boot) THEN boot.candSlot ELSE None

\* The Pi boot guard implements the A/B recovery model
\* (edge/pi-resilience/README.md: "turns the existing A/B recovery state
\* model into a deployable Raspberry Pi host-resilience contract").
ImplementsABRecovery == AB!Spec

=============================================================================

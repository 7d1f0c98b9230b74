----------------------------- MODULE ABRecovery -----------------------------
(***************************************************************************)
(* The A/B recovery state model of the risk engine (update-recovery.ts,    *)
(* class ABRecoveryModel).  It is the abstract promise of every A/B update *)
(* in KINGMAST: the software that boots by default is the known-good slot, *)
(* and a candidate becomes known-good only out of its own boot.            *)
(*                                                                         *)
(* candidateVersion, candidateRollbackIndex and lastReason only travel     *)
(* with the candidate and are not modelled.                                *)
(***************************************************************************)
CONSTANT NoSlot            \* the null of the source

VARIABLES phase,           \* RecoveryPhase
          activeSlot,
          knownGoodSlot,
          bootTarget,
          candidateSlot    \* a slot, or NoSlot

Slot == {"A", "B"}

abVars == <<phase, activeSlot, knownGoodSlot, bootTarget, candidateSlot>>

\* constructor(initialKnownGood = 'A')
Init ==
    /\ phase = "idle"
    /\ activeSlot = "A"
    /\ knownGoodSlot = "A"
    /\ bootTarget = "A"
    /\ candidateSlot = NoSlot

StageCandidate(slot) ==
    /\ phase \in {"idle", "accepted", "rollback-required"}
    /\ slot # knownGoodSlot
    /\ phase' = "candidate-written"
    /\ activeSlot' = knownGoodSlot
    /\ bootTarget' = knownGoodSlot
    /\ candidateSlot' = slot
    /\ UNCHANGED knownGoodSlot

BeginCandidateBoot ==
    /\ phase = "candidate-written"
    /\ candidateSlot # NoSlot
    /\ phase' = "booting-candidate"
    /\ bootTarget' = candidateSlot
    /\ UNCHANGED <<activeSlot, knownGoodSlot, candidateSlot>>

ReportBootHealthy ==
    /\ phase = "booting-candidate"
    /\ candidateSlot # NoSlot
    /\ phase' = "accepted"
    /\ activeSlot' = candidateSlot
    /\ knownGoodSlot' = candidateSlot
    /\ bootTarget' = candidateSlot
    /\ candidateSlot' = NoSlot

\* #rollback
Rollback ==
    /\ phase' = "rollback-required"
    /\ activeSlot' = knownGoodSlot
    /\ bootTarget' = knownGoodSlot
    /\ candidateSlot' = NoSlot
    /\ UNCHANGED knownGoodSlot

ReportBootFailure ==
    /\ phase = "booting-candidate"
    /\ Rollback

RecoverAfterPowerLoss ==
    /\ phase \in {"candidate-written", "booting-candidate"}
    /\ Rollback

ResetAfterRollback ==
    /\ phase = "rollback-required"
    /\ phase' = "idle"
    /\ activeSlot' = knownGoodSlot
    /\ bootTarget' = knownGoodSlot
    /\ candidateSlot' = NoSlot
    /\ UNCHANGED knownGoodSlot

Next ==
    \/ \E slot \in Slot : StageCandidate(slot)
    \/ BeginCandidateBoot
    \/ ReportBootHealthy
    \/ ReportBootFailure
    \/ RecoverAfterPowerLoss
    \/ ResetAfterRollback

Spec == Init /\ [][Next]_abVars

=============================================================================

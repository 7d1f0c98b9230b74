----------------------------- MODULE BootState ------------------------------
(***************************************************************************)
(* The persisted boot state of edge/pi-resilience/boot_guard.py and the    *)
(* functions of class BootGuard that turn one boot state into the next.    *)
(* The fields that no guard reads (schema, generation, version, reason,    *)
(* timestamp, controlAuthority) are left out.                              *)
(***************************************************************************)
EXTENDS Naturals

CONSTANTS Partition,             \* boot partitions the operator may name
          DefaultPartition,      \* known_good_partition of a fresh BootState
          MaxCandidateAttempts,  \* max_candidate_attempts
          None                   \* the None of the source

ASSUME PartitionAssumption ==
    /\ DefaultPartition \in Partition
    /\ None \notin Partition
    /\ None \notin {"A", "B"}

\* validate() keeps max_candidate_attempts within 1..5.
ASSUME AttemptsAssumption == MaxCandidateAttempts \in 1..5

Slots  == {"A", "B"}
Phases == {"stable", "candidate-staged", "candidate-booting",
           "rollback-required"}

\* The states validate() lets through.
BootStates ==
    [phase      : Phases,
     active     : Slots,
     kgSlot     : Slots,
     kgPart     : Partition,
     candSlot   : Slots \cup {None},
     candPart   : Partition \cup {None},
     attempts   : Nat]

\* The state load() returns while boot-state.json does not exist.
FreshBootState ==
    [phase |-> "stable", active |-> "A", kgSlot |-> "A",
     kgPart |-> DefaultPartition, candSlot |-> None, candPart |-> None,
     attempts |-> 0]

OnTrial(s) == s.phase \in {"candidate-staged", "candidate-booting"}

HasCandidate(s) == s.candSlot # None /\ s.candPart # None

\* Mutant: the slot is not compared with the known-good one.
CanStageAnySlot(s, slot, part) ==
    s.phase \in {"stable", "rollback-required"} /\ part # s.kgPart

\* Mutant: the partition is not compared with the known-good one.
CanStageAnyPartition(s, slot, part) ==
    s.phase \in {"stable", "rollback-required"} /\ slot # s.kgSlot

CanStage(s, slot, part) ==
    /\ s.phase \in {"stable", "rollback-required"}
    /\ slot # s.kgSlot
    /\ part # s.kgPart

Staged(s, slot, part) ==
    [s EXCEPT !.phase = "candidate-staged", !.active = s.kgSlot,
              !.candSlot = slot, !.candPart = part, !.attempts = 0]

CanBegin(s) == OnTrial(s) /\ HasCandidate(s)

\* Mutant: one tryboot more than the budget.
BegunOneMore(s) ==
    IF s.attempts > MaxCandidateAttempts
    THEN [s EXCEPT !.attempts = @ + 1, !.phase = "rollback-required",
                   !.active = s.kgSlot]
    ELSE [s EXCEPT !.attempts = @ + 1, !.phase = "candidate-booting",
                   !.active = s.candSlot]

Begun(s) ==
    IF s.attempts + 1 > MaxCandidateAttempts
    THEN [s EXCEPT !.attempts = @ + 1, !.phase = "rollback-required",
                   !.active = s.kgSlot]
    ELSE [s EXCEPT !.attempts = @ + 1, !.phase = "candidate-booting",
                   !.active = s.candSlot]

\* Mutant: the boot context is not checked.
CanAcceptAnyBoot(s, part, tryboot) ==
    s.phase = "candidate-booting" /\ HasCandidate(s)

CanAccept(s, part, tryboot) ==
    /\ s.phase = "candidate-booting"
    /\ HasCandidate(s)
    /\ tryboot
    /\ part = s.candPart

\* Mutant: the candidate is cleared before it becomes known-good.
AcceptedClearedFirst(s) ==
    [s EXCEPT !.phase = "stable", !.kgSlot = None, !.kgPart = None,
              !.candSlot = None, !.candPart = None, !.attempts = 0]

Accepted(s) ==
    [s EXCEPT !.phase = "stable", !.active = s.candSlot,
              !.kgSlot = s.candSlot, !.kgPart = s.candPart,
              !.candSlot = None, !.candPart = None, !.attempts = 0]

\* Mutant: the slot to run stays the candidate's.
FailedKeepsActive(s) ==
    IF OnTrial(s) THEN [s EXCEPT !.phase = "rollback-required"] ELSE s

\* report_failure saves the state whatever its phase.
Failed(s) ==
    IF OnTrial(s)
    THEN [s EXCEPT !.phase = "rollback-required", !.active = s.kgSlot]
    ELSE s

\* recover_after_unclean_boot; no entry point of the source calls it.
Recovered(s, part, tryboot) ==
    IF s.phase = "candidate-booting" /\ (~tryboot \/ part # s.candPart)
    THEN [s EXCEPT !.phase = "rollback-required", !.active = s.kgSlot]
    ELSE s
=============================================================================

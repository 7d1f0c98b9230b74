--------------------------- MODULE EdgeDevicesProofs ---------------------------
(***************************************************************************)
(* Two of the programs at the edge for every value of their constants.     *)
(*                                                                         *)
(* boot_guard.py keeps its invariants and implements the A/B recovery      *)
(* model of the risk engine, for every set of partitions and every attempt *)
(* budget validate() lets through.                                         *)
(*                                                                         *)
(* The camera detector, for every size of its buffer and all its delays:   *)
(* each frame is accounted for, none is posted twice or out of order, and  *)
(* the engine is not called before the time it asked for.  The order of    *)
(* posts needs to know that at most one frame is captured in a tick, that  *)
(* the frames in the buffer are newer than the one being inferred, which   *)
(* is newer than the one posted last, or too old to be inferred at all;    *)
(* the engine's time, that the loop rests for it.                          *)
(***************************************************************************)
EXTENDS MCEdgeDevices, StoreAndForwardProofs

-----------------------------------------------------------------------------
(* The boot guard *)

\* While a candidate is on trial the counter in boot-state.json is the number
\* of tryboots granted to it.
AttemptsCountTryboots ==
    OnTrial(boot) => boot.attempts = tried

\* A freshly staged candidate has used none of its budget.
StagedUnused == boot.phase = "candidate-staged" => boot.attempts = 0

\* The invariant every method preserves.  KnownGoodIsTrusted needs
\* TrialApartFromKnownGood at the staging and the acceptance, TrybootBudget
\* needs the counter to agree with the history, and the refinement needs the
\* slot to run to follow the phase.
IInv ==
    /\ TypeOK
    /\ TrialApartFromKnownGood
    /\ KnownGoodIsTrusted
    /\ ActiveSlotFollowsPhase
    /\ AttemptsCountTryboots
    /\ StagedUnused
    /\ TrybootBudget

-----------------------------------------------------------------------------
(* The functions of BootState *)

\* stage_candidate saves a state validate() accepts.
LEMMA StagedTyped ==
    ASSUME NEW s \in BootStates, NEW slot \in Slots, NEW part \in Partition
    PROVE  Staged(s, slot, part) \in BootStates
  BY PartitionAssumption DEF Staged, BootStates, Phases, Slots

\* begin_candidate_boot saves a state validate() accepts.
LEMMA BegunTyped ==
    ASSUME NEW s \in BootStates, CanBegin(s)
    PROVE  Begun(s) \in BootStates
<1>1. s.candSlot \in Slots /\ s.attempts + 1 \in Nat
  BY DEF CanBegin, HasCandidate, BootStates
<1>2. CASE s.attempts + 1 > MaxCandidateAttempts
  BY <1>1, <1>2 DEF Begun, BootStates, Phases
<1>3. CASE ~(s.attempts + 1 > MaxCandidateAttempts)
  BY <1>1, <1>3 DEF Begun, BootStates, Phases
<1> QED BY <1>2, <1>3

\* accept_candidate saves a state validate() accepts.
LEMMA AcceptedTyped ==
    ASSUME NEW s \in BootStates, HasCandidate(s)
    PROVE  Accepted(s) \in BootStates
  BY DEF Accepted, HasCandidate, BootStates, Phases, Slots

\* report_failure and the recovery after an unclean boot either leave the
\* state alone or turn a trial into a rollback to known-good.
LEMMA RollbackOrNothing ==
    ASSUME NEW s \in BootStates, NEW part, NEW tryboot,
           NEW t \in {Failed(s), Recovered(s, part, tryboot)}
    PROVE  \/ t = s
           \/ OnTrial(s) /\ t = [s EXCEPT !.phase = "rollback-required",
                                          !.active = s.kgSlot]
  BY DEF Failed, Recovered, OnTrial

-----------------------------------------------------------------------------
(* The inductive invariant *)

\* stage_candidate
LEMMA StageKeepsIInv ==
    ASSUME IInv, NEW slot \in Slots, NEW part \in Partition,
           StageCandidate(slot, part)
    PROVE  IInv'
<1> DEFINE new == Staged(boot, slot, part)
<1>1. boot' = new /\ new \in BootStates
  BY StagedTyped DEF StageCandidate, IInv, TypeOK
<1>2. /\ new.phase = "candidate-staged" /\ new.active = boot.kgSlot
      /\ new.kgSlot = boot.kgSlot /\ new.kgPart = boot.kgPart
      /\ new.candSlot = slot /\ new.candPart = part /\ new.attempts = 0
  BY DEF Staged, IInv, TypeOK, BootStates
<1>3. slot # boot.kgSlot /\ part # boot.kgPart /\ slot # None /\ part # None
  BY PartitionAssumption DEF StageCandidate, CanStage, Slots
<1>4. tried' = 0 /\ trusted' = trusted \ {part} /\ accepted' = accepted
  BY DEF StageCandidate
<1>5. TypeOK'
  BY <1>1, <1>2, <1>4, AttemptsAssumption DEF IInv, TypeOK
<1>6. KnownGoodIsTrusted'
  BY <1>1, <1>2, <1>3, <1>4 DEF IInv, KnownGoodIsTrusted
<1>7. TrialApartFromKnownGood' /\ ActiveSlotFollowsPhase'
  BY <1>1, <1>2, <1>3
  DEF TrialApartFromKnownGood, ActiveSlotFollowsPhase, HasCandidate
<1>8. AttemptsCountTryboots' /\ StagedUnused' /\ TrybootBudget'
  BY <1>1, <1>2, <1>4, AttemptsAssumption
  DEF AttemptsCountTryboots, StagedUnused, TrybootBudget
<1> QED BY <1>5, <1>6, <1>7, <1>8 DEF IInv

\* begin_candidate_boot
LEMMA BeginKeepsIInv ==
    ASSUME IInv, BeginCandidateBoot
    PROVE  IInv'
<1> DEFINE over == boot.attempts + 1 > MaxCandidateAttempts
<1>1. /\ boot' = Begun(boot) /\ boot' \in BootStates
      /\ OnTrial(boot) /\ boot.attempts = tried
      /\ accepted' = accepted /\ trusted' = trusted
  BY BegunTyped
  DEF BeginCandidateBoot, CanBegin, IInv, TypeOK, AttemptsCountTryboots
<1>2. /\ boot'.attempts = boot.attempts + 1
      /\ boot'.kgSlot = boot.kgSlot /\ boot'.kgPart = boot.kgPart
      /\ boot'.candSlot = boot.candSlot /\ boot'.candPart = boot.candPart
  BY <1>1 DEF Begun, IInv, TypeOK, BootStates
<1>3. CASE over
  <2>1. boot'.phase = "rollback-required" /\ boot'.active = boot.kgSlot
    BY <1>1, <1>3 DEF Begun, IInv, TypeOK, BootStates
  <2>2. tried' = tried
    BY <2>1 DEF BeginCandidateBoot
  <2>3. boot'.attempts \in 0..(MaxCandidateAttempts + 1)
    BY <1>1, <1>2, AttemptsAssumption DEF IInv, TypeOK, TrybootBudget
  <2> QED BY <1>1, <1>2, <2>1, <2>2, <2>3
    DEF IInv, TypeOK, OnTrial, TrialApartFromKnownGood, KnownGoodIsTrusted,
        ActiveSlotFollowsPhase, AttemptsCountTryboots, StagedUnused,
        TrybootBudget
<1>4. CASE ~over
  <2>1. boot'.phase = "candidate-booting" /\ boot'.active = boot.candSlot
    BY <1>1, <1>4 DEF Begun, IInv, TypeOK, BootStates
  <2>2. tried' = tried + 1
    BY <2>1 DEF BeginCandidateBoot
  <2>3. /\ boot'.attempts \in 0..MaxCandidateAttempts
        /\ tried' <= MaxCandidateAttempts
    BY <1>1, <1>2, <1>4, <2>2, AttemptsAssumption DEF IInv, TypeOK
  <2>4. TypeOK'
    BY <1>1, <2>2, <2>3, AttemptsAssumption DEF IInv, TypeOK
  <2> QED BY <1>1, <1>2, <2>1, <2>2, <2>3, <2>4
    DEF IInv, OnTrial, TrialApartFromKnownGood, KnownGoodIsTrusted,
        HasCandidate, ActiveSlotFollowsPhase, AttemptsCountTryboots,
        StagedUnused, TrybootBudget
<1> QED BY <1>3, <1>4

\* accept_candidate
LEMMA AcceptKeepsIInv ==
    ASSUME IInv, NEW part \in Partition, NEW tryboot \in BOOLEAN,
           AcceptCandidate(part, tryboot)
    PROVE  IInv'
<1>1. /\ HasCandidate(boot) /\ part = boot.candPart
      /\ boot' = Accepted(boot) /\ boot' \in BootStates
      /\ accepted' = TRUE /\ trusted' = trusted \cup {part} /\ tried' = tried
  BY AcceptedTyped DEF AcceptCandidate, CanAccept, IInv, TypeOK
<1>2. /\ boot'.phase = "stable" /\ boot'.attempts = 0
      /\ boot'.kgPart = part /\ boot'.kgSlot = boot'.active
  BY <1>1 DEF Accepted, IInv, TypeOK, BootStates
<1>3. TypeOK'
  BY <1>1, <1>2, AttemptsAssumption DEF IInv, TypeOK
<1> QED BY <1>1, <1>2, <1>3
  DEF IInv, OnTrial, TrialApartFromKnownGood, KnownGoodIsTrusted,
      ActiveSlotFollowsPhase, AttemptsCountTryboots, StagedUnused,
      TrybootBudget

\* report_failure and recover_after_unclean_boot
LEMMA RollbackKeepsIInv ==
    ASSUME IInv, NEW part, NEW tryboot,
           boot' \in {Failed(boot), Recovered(boot, part, tryboot)},
           UNCHANGED <<accepted, tried, trusted>>
    PROVE  IInv'
<1>1. CASE boot' = boot
  BY <1>1
  DEF IInv, TypeOK, TrialApartFromKnownGood, KnownGoodIsTrusted,
      ActiveSlotFollowsPhase, AttemptsCountTryboots, StagedUnused,
      TrybootBudget
<1>2. CASE boot' = [boot EXCEPT !.phase = "rollback-required",
                                !.active = boot.kgSlot]
  <2>1. /\ boot' \in BootStates /\ boot'.attempts = boot.attempts
        /\ boot'.phase = "rollback-required" /\ boot'.active = boot.kgSlot
        /\ boot'.kgSlot = boot.kgSlot /\ boot'.kgPart = boot.kgPart
    BY <1>2 DEF IInv, TypeOK, BootStates, Phases
  <2> QED BY <2>1
    DEF IInv, TypeOK, OnTrial, TrialApartFromKnownGood, KnownGoodIsTrusted,
        ActiveSlotFollowsPhase, AttemptsCountTryboots, StagedUnused,
        TrybootBudget
<1>3. boot \in BootStates
  BY DEF IInv, TypeOK
<1> QED BY <1>1, <1>2, <1>3, RollbackOrNothing

\* Every method of class BootGuard preserves the invariant.
LEMMA NextIInv == IInv /\ [Next]_vars => IInv'
<1> SUFFICES ASSUME IInv, [Next]_vars PROVE IInv'
  OBVIOUS
<1>1. CASE \E slot \in Slots, part \in Partition : StageCandidate(slot, part)
  BY <1>1, StageKeepsIInv
<1>2. CASE BeginCandidateBoot
  BY <1>2, BeginKeepsIInv
<1>3. CASE \E part \in Partition, tryboot \in BOOLEAN :
              AcceptCandidate(part, tryboot)
  BY <1>3, AcceptKeepsIInv
<1>4. CASE ReportFailure
  BY <1>4, RollbackKeepsIInv DEF ReportFailure
<1>5. CASE \E part \in Partition, tryboot \in BOOLEAN :
              RecoverAfterUncleanBoot(part, tryboot)
  BY <1>5, RollbackKeepsIInv DEF RecoverAfterUncleanBoot
<1>6. CASE UNCHANGED vars
  BY <1>6
  DEF vars, IInv, TypeOK, TrialApartFromKnownGood, KnownGoodIsTrusted,
      ActiveSlotFollowsPhase, AttemptsCountTryboots, StagedUnused,
      TrybootBudget
<1> QED BY <1>1, <1>2, <1>3, <1>4, <1>5, <1>6 DEF Next

LEMMA SpecIInv == Spec => []IInv
\* The state load() returns while no file exists.
<1>1. Init => IInv
  <2> SUFFICES ASSUME Init PROVE IInv
    OBVIOUS
  <2>1. /\ boot \in BootStates /\ boot.phase = "stable"
        /\ boot.active = boot.kgSlot /\ boot.kgPart = DefaultPartition
        /\ boot.attempts = 0
    BY PartitionAssumption DEF Init, FreshBootState, BootStates, Phases, Slots
  <2>2. accepted \in BOOLEAN /\ tried = 0 /\ trusted = {DefaultPartition}
    BY DEF Init
  <2>3. TypeOK
    BY <2>1, <2>2, PartitionAssumption, AttemptsAssumption DEF TypeOK
  <2> QED
    BY <2>1, <2>2, <2>3, PartitionAssumption, AttemptsAssumption
    DEF IInv, OnTrial, TrialApartFromKnownGood, KnownGoodIsTrusted,
        ActiveSlotFollowsPhase, AttemptsCountTryboots, StagedUnused,
        TrybootBudget
<1> QED
  BY <1>1, NextIInv, PTL DEF Spec

-----------------------------------------------------------------------------
(* The theorems *)

\* Every state a method saves passes validate().
THEOREM TypeCorrect == Spec => []TypeOK
<1>1. IInv => TypeOK
  BY DEF IInv
<1> QED BY <1>1, SpecIInv, PTL

\* The tryboot is never the system one would roll back to (stage_candidate).
THEOREM TrialsAreApart == Spec => []TrialApartFromKnownGood
<1>1. IInv => TrialApartFromKnownGood
  BY DEF IInv
<1> QED BY <1>1, SpecIInv, PTL

\* The known-good partition always holds an image that was accepted and not
\* overwritten since (stage_candidate, accept_candidate, report_failure).
THEOREM KnownGoodStaysTrusted == Spec => []KnownGoodIsTrusted
<1>1. IInv => KnownGoodIsTrusted
  BY DEF IInv
<1> QED BY <1>1, SpecIInv, PTL

\* No staged candidate is granted more tryboots than its budget
\* (begin_candidate_boot).
THEOREM TrybootsAreBounded == Spec => []TrybootBudget
<1>1. IInv => TrybootBudget
  BY DEF IInv
<1> QED BY <1>1, SpecIInv, PTL

-----------------------------------------------------------------------------
(* The refinement *)

\* Staging is staging: it needs a trial that is over and another slot than
\* the known-good one.
LEMMA StageImplements ==
    ASSUME IInv, NEW slot \in Slots, NEW part \in Partition,
           StageCandidate(slot, part)
    PROVE  AB!StageCandidate(slot)
<1>1. /\ boot'.phase = "candidate-staged" /\ boot'.active = boot.kgSlot
      /\ boot'.kgSlot = boot.kgSlot /\ boot'.candSlot = slot
  BY DEF StageCandidate, Staged, IInv, TypeOK, BootStates
<1>2. /\ boot.phase \in {"stable", "rollback-required"}
      /\ slot # boot.kgSlot
  BY DEF StageCandidate, CanStage
<1> QED BY <1>1, <1>2 DEF AB!StageCandidate, OnTrial

\* A tryboot within the budget begins the candidate's boot or repeats it;
\* one beyond the budget is the rollback.
LEMMA BeginImplements ==
    ASSUME IInv, BeginCandidateBoot
    PROVE  [AB!Next]_AB!abVars
<1>1. /\ OnTrial(boot) /\ boot \in BootStates
      /\ boot.candSlot # None /\ boot' = Begun(boot)
  BY DEF BeginCandidateBoot, CanBegin, HasCandidate, IInv, TypeOK
<1>2. boot'.kgSlot = boot.kgSlot /\ boot'.candSlot = boot.candSlot
  BY <1>1 DEF Begun, BootStates
<1>3. boot.active = IF boot.phase = "candidate-booting"
                    THEN boot.candSlot ELSE boot.kgSlot
  BY DEF IInv, ActiveSlotFollowsPhase
<1>4. CASE boot.attempts + 1 > MaxCandidateAttempts
  <2>1. boot'.phase = "rollback-required" /\ boot'.active = boot.kgSlot
    BY <1>1, <1>4 DEF Begun, BootStates
  <2>2. AB!Rollback
    BY <1>2, <2>1 DEF AB!Rollback, OnTrial
  <2> QED BY <1>1, <2>2
    DEF AB!Next, AB!RecoverAfterPowerLoss, OnTrial
<1>5. CASE ~(boot.attempts + 1 > MaxCandidateAttempts)
  <2>1. /\ boot'.phase = "candidate-booting"
        /\ boot'.active = boot.candSlot
    BY <1>1, <1>5 DEF Begun, BootStates
  <2>2. CASE boot.phase = "candidate-staged"
    BY <1>1, <1>2, <1>3, <2>1, <2>2
    DEF AB!Next, AB!BeginCandidateBoot, OnTrial
  <2>3. CASE boot.phase = "candidate-booting"
    BY <1>1, <1>2, <1>3, <2>1, <2>3 DEF AB!abVars, OnTrial
  <2> QED BY <1>1, <2>2, <2>3 DEF OnTrial
<1> QED BY <1>4, <1>5

\* An acceptance out of the candidate's tryboot is a healthy boot report.
LEMMA AcceptImplements ==
    ASSUME IInv, NEW part \in Partition, NEW tryboot \in BOOLEAN,
           AcceptCandidate(part, tryboot)
    PROVE  AB!ReportBootHealthy
<1>1. /\ boot.phase = "candidate-booting" /\ boot.candSlot # None
      /\ boot' = Accepted(boot) /\ boot \in BootStates /\ accepted' = TRUE
  BY DEF AcceptCandidate, CanAccept, HasCandidate, IInv, TypeOK
<1>2. /\ boot'.phase = "stable" /\ boot'.active = boot.candSlot
      /\ boot'.kgSlot = boot.candSlot
  BY <1>1 DEF Accepted, BootStates
<1> QED BY <1>1, <1>2 DEF AB!ReportBootHealthy, OnTrial

\* A failure report rolls a trial back and changes nothing otherwise.
LEMMA RollbackImplements ==
    ASSUME IInv, NEW part, NEW tryboot,
           boot' \in {Failed(boot), Recovered(boot, part, tryboot)},
           UNCHANGED <<accepted, tried, trusted>>
    PROVE  [AB!Next]_AB!abVars
<1>1. boot \in BootStates
  BY DEF IInv, TypeOK
<1>2. CASE boot' = boot
  BY <1>2 DEF AB!abVars, OnTrial
<1>3. CASE /\ OnTrial(boot)
           /\ boot' = [boot EXCEPT !.phase = "rollback-required",
                                   !.active = boot.kgSlot]
  <2>1. /\ boot'.phase = "rollback-required" /\ boot'.active = boot.kgSlot
        /\ boot'.kgSlot = boot.kgSlot
    BY <1>1, <1>3 DEF BootStates
  <2>2. AB!Rollback
    BY <2>1 DEF AB!Rollback, OnTrial
  <2> QED BY <1>3, <2>2
    DEF AB!Next, AB!RecoverAfterPowerLoss, OnTrial
<1> QED BY <1>1, <1>2, <1>3, RollbackOrNothing

\* Every method is a step of the A/B recovery model or changes nothing there.
LEMMA NextImplements == IInv /\ [Next]_vars => [AB!Next]_AB!abVars
<1> SUFFICES ASSUME IInv, [Next]_vars PROVE [AB!Next]_AB!abVars
  OBVIOUS
<1>1. CASE \E slot \in Slots, part \in Partition : StageCandidate(slot, part)
  BY <1>1, StageImplements DEF AB!Next, AB!Slot, Slots
<1>2. CASE BeginCandidateBoot
  BY <1>2, BeginImplements
<1>3. CASE \E part \in Partition, tryboot \in BOOLEAN :
              AcceptCandidate(part, tryboot)
  BY <1>3, AcceptImplements DEF AB!Next
<1>4. CASE ReportFailure
  BY <1>4, RollbackImplements DEF ReportFailure
<1>5. CASE \E part \in Partition, tryboot \in BOOLEAN :
              RecoverAfterUncleanBoot(part, tryboot)
  BY <1>5, RollbackImplements DEF RecoverAfterUncleanBoot
<1>6. CASE UNCHANGED vars
  BY <1>6 DEF vars, AB!abVars, OnTrial
<1> QED BY <1>1, <1>2, <1>3, <1>4, <1>5, <1>6 DEF Next

\* The Pi boot guard implements the A/B recovery model of the risk engine.
THEOREM BootGuardImplementsABRecovery == Spec => ImplementsABRecovery
<1>1. Init => AB!Init
  BY DEF Init, FreshBootState, OnTrial, AB!Init
<1> QED
  BY <1>1, NextImplements, SpecIInv, PTL
  DEF Spec, ImplementsABRecovery, AB!Spec

-----------------------------------------------------------------------------
(* The camera detector *)

CaptureTypes ==
    capture \in [at : {"read", "next", "reopen", "ended"}, delay : 0..ReopenMax,
                 failures : 0..(FailureThreshold - 1), level : 0..MaxLevel, open : BOOLEAN]

LoopTypes ==
    loop \in [at : {"start", "take", "infer", "answer", "rest", "stopping", "stopped"},
              frame : 0..OldFrame, delay : Nat, spent : Nat, failures : 0..MaxLevel]

WorldTypes ==
    /\ camera \in BOOLEAN /\ server \in BOOLEAN
    /\ thermal \in ThermalStates /\ quiet \in Nat /\ posted \in 0..(OldFrame + 1)

BufferTypes ==
    /\ buffer \in Seq(0..OldFrame)
    /\ balance = Len(buffer) /\ Len(buffer) <= QueueSize

\* The oldest frame is first.
BufferSorted ==
    \A i, j \in DOMAIN buffer : i < j => buffer[i] >= buffer[j]

\* While the engine is not to be called the loop rests, and no shorter.
RestsForEngine ==
    /\ loop.at \notin {"rest", "stopping", "stopped"} => quiet = 0
    /\ loop.at = "rest" => loop.delay >= quiet

\* Nothing else was captured in the tick in which a frame is read.
OneInATick ==
    capture.at = "read" =>
        /\ posted > 0 /\ \A i \in DOMAIN buffer : buffer[i] > 0
        /\ loop.at = "infer" => loop.frame > 0

\* A frame g was captured after a frame f, or it is too old to be inferred.
NewerOrStale(g, f) == g < f \/ g > MaxFrameAge

FramesAreNewer ==
    /\ \A i \in DOMAIN buffer :
           /\ NewerOrStale(buffer[i], posted)
           /\ loop.at = "infer" => NewerOrStale(buffer[i], loop.frame)
    /\ loop.at = "infer" => loop.frame < posted

CameraTypes == CaptureTypes /\ LoopTypes /\ WorldTypes /\ BufferTypes

CameraInv == CameraTypes /\ BufferSorted /\ RestsForEngine /\ OneInATick /\ FramesAreNewer

-----------------------------------------------------------------------------
\* The delay of the backoff is a number up to its maximum.
LEMMA DelayBounded ==
    ASSUME NEW base \in Nat \ {0}, NEW max \in Nat, NEW level \in 1..MaxLevel
    PROVE  Delay(base, max, level) \in 0..max
<1>1. 2 ^ (level - 1) \in Nat \ {0}
  BY PowersOfTwo
<1>2. base * 2 ^ (level - 1) \in Nat
  BY <1>1
<1> QED
  BY <1>2 DEF Delay, Least

\* The constants are numbers.
LEMMA Numbers ==
    /\ QueueSize \in Nat \ {0} /\ FailureThreshold \in Nat \ {0} /\ MaxLevel \in Nat \ {0}
    /\ MaxFrameAge \in Nat /\ ReopenMax \in Nat /\ BackoffMax \in Nat
    /\ ReopenBase \in Nat \ {0} /\ BackoffBase \in Nat \ {0}
    /\ OldFrame \in Nat /\ OldFrame = MaxFrameAge + 2
    /\ \A r \in RetryAfters : r \in Nat
    /\ \A t \in ThermalStates : Periods[t] \in Nat
  BY CameraAssumption DEF CameraAssumption, OldFrame, ThermalStates

\* What counts up or down stays within its bounds.
LEMMA CountsBounded ==
    /\ \A n \in Nat : Rest(n) \in Nat /\ Rest(n) <= n /\ (n > 0 => Rest(n) = n - 1)
    /\ \A m, n \in Nat : Least(m, n) \in Nat /\ Least(m, n) <= m /\ Least(m, n) <= n
    /\ \A m, n \in Nat : Greatest(m, n) \in Nat /\ Greatest(m, n) >= m /\ Greatest(m, n) >= n
    /\ \A n \in 0..OldFrame : /\ Aged(n) \in 0..OldFrame /\ Aged(n) > 0 /\ Aged(n) >= n
                              /\ n < OldFrame => Aged(n) = n + 1
                              /\ n = OldFrame => Aged(n) = n
    /\ \A n \in 0..MaxLevel : Least(MaxLevel, n + 1) \in 1..MaxLevel
  BY Numbers DEF Rest, Least, Greatest, Aged

\* The capture thread keeps its types.
LEMMA CaptureTypesKept ==
    ASSUME CameraTypes, [CameraNext]_cameraVars
    PROVE  CaptureTypes'
<1> USE Numbers DEF CameraTypes, CaptureTypes, WorldTypes, cameraVars
<1>1. CASE ReadFrame
  BY <1>1 DEF ReadFrame
<1>2. CASE ReadFails
  <2>1. Least(MaxLevel, capture.level + 1) \in 1..MaxLevel
    BY CountsBounded
  <2>2. Delay(ReopenBase, ReopenMax, Least(MaxLevel, capture.level + 1)) \in 0..ReopenMax
    BY <2>1, DelayBounded
  <2>3. CASE capture.failures + 1 < FailureThreshold
    BY <1>2, <2>3 DEF ReadFails
  <2>4. CASE ~(capture.failures + 1 < FailureThreshold)
    <3>1. capture' = [at |-> "reopen", failures |-> 0, level |-> Least(MaxLevel,
       capture.level + 1),
                      delay |-> Delay(ReopenBase, ReopenMax, Least(MaxLevel,
                         capture.level + 1)),
                      open |-> FALSE]
      BY <1>2, <2>4 DEF ReadFails
    <3> QED
      BY <3>1, <2>1, <2>2
  <2> QED
    BY <2>3, <2>4
<1>3. CASE Reopen
  BY <1>3 DEF Reopen
<1>4. CASE CaptureEnds
  BY <1>4 DEF CaptureEnds
<1>5. CASE StartRound
  BY <1>5 DEF StartRound
<1>6. CASE TakeLatest
  BY <1>6 DEF TakeLatest
<1>7. CASE TakeTimesOut
  BY <1>7 DEF TakeTimesOut
<1>8. CASE PostFrame
  BY <1>8 DEF PostFrame
<1>9. CASE PostAccepted
  BY <1>9 DEF PostAccepted
<1>10. CASE FrameRefused
  BY <1>10 DEF FrameRefused
<1>11. ASSUME NEW r \in RetryAfters, PostRefused(r) PROVE CaptureTypes'
  BY <1>11 DEF PostRefused
<1>12. CASE EndRound
  BY <1>12 DEF EndRound
<1>13. CASE LeaveLoop
  BY <1>13 DEF LeaveLoop
<1>14. CASE ProcessExits
  BY <1>14 DEF ProcessExits
<1>15. CASE DeviceChanges
  BY <1>15 DEF DeviceChanges
<1>16. CASE CameraTick
  <2>1. Rest(capture.delay) \in 0..ReopenMax
    BY CountsBounded
  <2>2. capture' = [at |-> IF capture.at = "next" THEN "read" ELSE capture.at,
                    delay |-> Rest(capture.delay), failures |-> capture.failures,
                    level |-> capture.level, open |-> capture.open]
    BY <1>16 DEF CameraTick
  <2> QED
    BY <2>1, <2>2
<1>17. CASE UNCHANGED cameraVars
  BY <1>17
<1> QED
  BY <1>1, <1>2, <1>3, <1>4, <1>5, <1>6, <1>7, <1>8, <1>9, <1>10, <1>11, <1>12, <1>13,
     <1>14, <1>15, <1>16, <1>17 DEF CameraNext, CaptureStep, LoopStep

\* The main loop keeps its types.
LEMMA LoopTypesKept ==
    ASSUME CameraTypes, [CameraNext]_cameraVars
    PROVE  LoopTypes'
<1> USE Numbers DEF CameraTypes, LoopTypes, WorldTypes, BufferTypes, OldFrame, cameraVars
<1>1. CASE ReadFrame
  BY <1>1 DEF ReadFrame
<1>2. CASE ReadFails
  BY <1>2 DEF ReadFails
<1>3. CASE Reopen
  BY <1>3 DEF Reopen
<1>4. CASE CaptureEnds
  BY <1>4 DEF CaptureEnds
<1>5. CASE StartRound
  BY <1>5 DEF StartRound
<1>6. CASE TakeLatest
  <2>1. buffer \in Seq(0..OldFrame) /\ buffer # << >>
    BY <1>6 DEF TakeLatest
  <2>2. buffer[Len(buffer)] \in 0..OldFrame
    BY <2>1
  <2> QED
    BY <1>6, <2>2 DEF TakeLatest
<1>7. CASE TakeTimesOut
  BY <1>7 DEF TakeTimesOut
<1>8. CASE PostFrame
  BY <1>8 DEF PostFrame
<1>9. CASE PostAccepted
  BY <1>9 DEF PostAccepted
<1>10. CASE FrameRefused
  BY <1>10 DEF FrameRefused
<1>11. ASSUME NEW r \in RetryAfters, PostRefused(r) PROVE LoopTypes'
  <2>1. RefusedLevel \in 1..MaxLevel
    BY CountsBounded DEF RefusedLevel
  <2>2. Delay(BackoffBase, BackoffMax, RefusedLevel) \in 0..BackoffMax
    BY <2>1, DelayBounded
  <2>3. RefusalDelay(r) \in Nat
    BY <2>2, r \in Nat DEF RefusalDelay, Greatest
  <2> QED
    BY <1>11, <2>1, <2>3 DEF PostRefused
<1>12. CASE EndRound
  BY <1>12 DEF EndRound
<1>13. CASE LeaveLoop
  BY <1>13 DEF LeaveLoop
<1>14. CASE ProcessExits
  BY <1>14 DEF ProcessExits
<1>15. CASE DeviceChanges
  BY <1>15 DEF DeviceChanges
<1>16. CASE CameraTick
  <2>1. /\ Rest(loop.delay) \in Nat /\ Aged(loop.frame) \in 0..OldFrame
    BY CountsBounded
  <2>3. Least(loop.spent + 1, Periods[thermal]) \in Nat
    BY Periods[thermal] \in Nat DEF Least
  <2>2. loop' = [at |-> loop.at, frame |-> Aged(loop.frame), delay |-> Rest(loop.delay),
                 spent |-> Least(loop.spent + 1, Periods[thermal]), failures |-> loop.failures]
    BY <1>16 DEF CameraTick
  <2> QED
    BY <2>1, <2>2, <2>3
<1>17. CASE UNCHANGED cameraVars
  BY <1>17
<1> QED
  BY <1>1, <1>2, <1>3, <1>4, <1>5, <1>6, <1>7, <1>8, <1>9, <1>10, <1>11, <1>12, <1>13,
     <1>14, <1>15, <1>16, <1>17 DEF CameraNext, CaptureStep, LoopStep

\* What the world and the history remember keeps its types.
LEMMA WorldTypesKept ==
    ASSUME CameraTypes, [CameraNext]_cameraVars
    PROVE  WorldTypes'
<1> USE Numbers DEF CameraTypes, CaptureTypes, LoopTypes, WorldTypes, OldFrame, cameraVars
<1>1. CASE ReadFrame
  BY <1>1 DEF ReadFrame
<1>2. CASE ReadFails
  BY <1>2 DEF ReadFails
<1>3. CASE Reopen
  BY <1>3 DEF Reopen
<1>4. CASE CaptureEnds
  BY <1>4 DEF CaptureEnds
<1>5. CASE StartRound
  BY <1>5 DEF StartRound, Observed, Temperatures, ThermalStates
<1>6. CASE TakeLatest
  BY <1>6 DEF TakeLatest
<1>7. CASE TakeTimesOut
  BY <1>7 DEF TakeTimesOut
<1>8. CASE PostFrame
  BY <1>8 DEF PostFrame
<1>9. CASE PostAccepted
  BY <1>9 DEF PostAccepted
<1>10. CASE FrameRefused
  BY <1>10 DEF FrameRefused
<1>11. ASSUME NEW r \in RetryAfters, PostRefused(r) PROVE WorldTypes'
  BY <1>11 DEF PostRefused
<1>12. CASE EndRound
  BY <1>12 DEF EndRound
<1>13. CASE LeaveLoop
  BY <1>13 DEF LeaveLoop
<1>14. CASE ProcessExits
  BY <1>14 DEF ProcessExits
<1>15. CASE DeviceChanges
  BY <1>15 DEF DeviceChanges
<1>16. CASE CameraTick
  <2>1. Rest(quiet) \in Nat /\ Least(posted + 1, OldFrame + 1) \in 0..(OldFrame + 1)
    BY DEF Rest, Greatest, Least
  <2> QED
    BY <1>16, <2>1 DEF CameraTick
<1>17. CASE UNCHANGED cameraVars
  BY <1>17
<1> QED
  BY <1>1, <1>2, <1>3, <1>4, <1>5, <1>6, <1>7, <1>8, <1>9, <1>10, <1>11, <1>12, <1>13,
     <1>14, <1>15, <1>16, <1>17 DEF CameraNext, CaptureStep, LoopStep

\* push() makes room for the new frame and leaves the others in order.
LEMMA PushIsBounded ==
    ASSUME BufferTypes, Push
    PROVE  /\ buffer' \in Seq(0..OldFrame) /\ balance' = Len(buffer') /\ Len(buffer') <= QueueSize
           /\ Len(buffer') \in Nat \ {0} /\ buffer'[Len(buffer')] = 0
           /\ \E k \in Nat : /\ Len(buffer') - 1 + k = Len(buffer)
                             /\ \A i \in 1..Len(buffer') - 1 : buffer'[i] = buffer[i + k]
<1> USE Numbers DEF BufferTypes
<1> DEFINE k == Greatest(0, Len(buffer) + 1 - QueueSize)
<1> DEFINE rest == SubSeq(buffer, k + 1, Len(buffer))
<1>1. k \in Nat /\ k <= Len(buffer) /\ Len(buffer) - k + 1 <= QueueSize
  BY DEF Greatest
<1>2. buffer' = Append(rest, 0) /\ balance' = balance + 1 - k
  BY DEF Push
<1> HIDE DEF k
<1>3. \A i \in k + 1..Len(buffer) : buffer[i] \in 0..OldFrame
  BY <1>1, ElementOfSeq
<1>12. Len(buffer) \in Nat /\ k + 1 \in Int /\ Len(buffer) \in Int
  BY <1>1
<1>4. /\ rest \in Seq(0..OldFrame)
      /\ Len(rest) = IF k + 1 <= Len(buffer) THEN Len(buffer) - (k + 1) + 1 ELSE 0
      /\ \A i \in 1..Len(buffer) - (k + 1) + 1 : rest[i] = buffer[k + 1 + i - 1]
  BY ONLY <1>3, <1>12, SubSeqProperties
<1> HIDE DEF rest
<1>5. Len(rest) = Len(buffer) - k /\ \A i \in 1..Len(rest) : rest[i] = buffer[i + k]
  <2>1. Len(rest) = Len(buffer) - k
    BY ONLY <1>1, <1>4, <1>12
  <2>2. ASSUME NEW i \in 1..Len(rest) PROVE rest[i] = buffer[i + k]
    <3>1. i \in 1..Len(buffer) - (k + 1) + 1 /\ k + 1 + i - 1 = i + k
      BY ONLY <1>1, <1>12, <2>1, i \in 1..Len(rest)
    <3> QED
      BY ONLY <1>4, <3>1
  <2> QED
    BY <2>1, <2>2
<1>6. /\ Len(buffer') = Len(rest) + 1 /\ buffer'[Len(rest) + 1] = 0
      /\ \A i \in 1..Len(rest) : buffer'[i] = rest[i]
      /\ buffer' \in Seq(0..OldFrame)
  BY <1>2, <1>4
<1>10. Len(rest) \in Nat /\ Len(buffer') - 1 = Len(rest)
  BY <1>1, <1>5, <1>6
<1>7. /\ Len(buffer') - 1 + k = Len(buffer)
      /\ \A i \in 1..Len(buffer') - 1 : buffer'[i] = buffer[i + k]
  <2>1. Len(rest) + k = Len(buffer)
    BY <1>1, <1>5
  <2>2. \A i \in 1..Len(rest) : buffer'[i] = buffer[i + k]
    BY <1>5, <1>6
  <2> QED
    BY <2>1, <2>2, <1>10
<1>8. \E j \in Nat : /\ Len(buffer') - 1 + j = Len(buffer)
                     /\ \A i \in 1..Len(buffer') - 1 : buffer'[i] = buffer[i + j]
  BY <1>1, <1>7
<1>9. balance' = Len(buffer') /\ Len(buffer') <= QueueSize
  BY <1>1, <1>2, <1>5, <1>6
<1>11. Len(buffer') \in Nat \ {0} /\ buffer'[Len(buffer')] = 0
  BY <1>6, <1>10
<1> QED
  BY <1>6, <1>8, <1>9, <1>11

\* A function on 1..n is a sequence of length n.
LEMMA FunctionIsSeq ==
    ASSUME NEW n \in Nat, NEW S, NEW f \in [1..n -> S]
    PROVE  f \in Seq(S) /\ Len(f) = n
  OBVIOUS

\* A tick makes every frame older, up to the age that is not told from a greater one.
LEMMA TickAges ==
    ASSUME BufferTypes, CameraTick
    PROVE  /\ buffer' \in Seq(0..OldFrame) /\ Len(buffer') = Len(buffer)
           /\ \A i \in 1..Len(buffer) : buffer'[i] = Aged(buffer[i]) /\ buffer[i] \in 0..OldFrame
<1> DEFINE n == Len(buffer)
<1>1. n \in Nat /\ DOMAIN buffer = 1..n /\ \A i \in 1..n : buffer[i] \in 0..OldFrame
  BY LenProperties, ElementOfSeq DEF BufferTypes
<1>2. buffer' = [i \in 1..n |-> Aged(buffer[i])]
  BY <1>1 DEF CameraTick
<1> HIDE DEF n
<1>3. \A i \in 1..n : Aged(buffer[i]) \in 0..OldFrame
  BY <1>1, CountsBounded
<1>4. buffer' \in [1..n -> 0..OldFrame]
  BY <1>2, <1>3
<1>5. buffer' \in Seq(0..OldFrame) /\ Len(buffer') = n
  BY <1>1, <1>4, FunctionIsSeq
<1> QED
  BY <1>1, <1>2, <1>5 DEF n

\* The buffer never holds more than its capacity, and the counters agree with it.
LEMMA BufferTypesKept ==
    ASSUME CameraTypes, [CameraNext]_cameraVars
    PROVE  BufferTypes'
<1> USE Numbers DEF CameraTypes, BufferTypes, cameraVars
<1>1. CASE ReadFrame
  BY <1>1, PushIsBounded DEF ReadFrame
<1>2. CASE ReadFails
  BY <1>2 DEF ReadFails
<1>3. CASE Reopen
  BY <1>3 DEF Reopen
<1>4. CASE CaptureEnds
  BY <1>4 DEF CaptureEnds
<1>5. CASE StartRound
  BY <1>5 DEF StartRound
<1>6. CASE TakeLatest
  BY <1>6 DEF TakeLatest
<1>7. CASE TakeTimesOut
  BY <1>7 DEF TakeTimesOut
<1>8. CASE PostFrame
  BY <1>8 DEF PostFrame
<1>9. CASE PostAccepted
  BY <1>9 DEF PostAccepted
<1>10. CASE FrameRefused
  BY <1>10 DEF FrameRefused
<1>11. ASSUME NEW r \in RetryAfters, PostRefused(r) PROVE BufferTypes'
  BY <1>11 DEF PostRefused
<1>12. CASE EndRound
  BY <1>12 DEF EndRound
<1>13. CASE LeaveLoop
  BY <1>13 DEF LeaveLoop
<1>14. CASE ProcessExits
  BY <1>14 DEF ProcessExits
<1>15. CASE DeviceChanges
  BY <1>15 DEF DeviceChanges
<1>16. CASE CameraTick
  BY <1>16, TickAges DEF CameraTick
<1>17. CASE UNCHANGED cameraVars
  BY <1>17
<1> QED
  BY <1>1, <1>2, <1>3, <1>4, <1>5, <1>6, <1>7, <1>8, <1>9, <1>10, <1>11, <1>12, <1>13,
     <1>14, <1>15, <1>16, <1>17 DEF CameraNext, CaptureStep, LoopStep

\* Frames stay in the order of their capture.
LEMMA BufferSortedKept ==
    ASSUME CameraInv, [CameraNext]_cameraVars
    PROVE  BufferSorted'
<1> USE Numbers DEF CameraInv, CameraTypes, BufferTypes, BufferSorted, cameraVars
<1>1. CASE ReadFrame
  <2>1. Push
    BY <1>1 DEF ReadFrame
  <2>2. PICK k \in Nat : /\ Len(buffer') - 1 + k = Len(buffer)
                        /\ \A i \in 1..Len(buffer') - 1 : buffer'[i] = buffer[i + k]
    BY <2>1, PushIsBounded
  <2>3. /\ buffer' \in Seq(0..OldFrame) /\ Len(buffer') \in Nat \ {0}
        /\ buffer'[Len(buffer')] = 0
    BY <2>1, PushIsBounded
  <2>4. /\ DOMAIN buffer = 1..Len(buffer) /\ DOMAIN buffer' = 1..Len(buffer')
        /\ \A i \in 1..Len(buffer') : buffer'[i] \in 0..OldFrame
    BY <2>3, LenProperties, ElementOfSeq
  <2> SUFFICES ASSUME NEW i \in 1..Len(buffer'), NEW j \in 1..Len(buffer'), i < j
               PROVE  buffer'[i] >= buffer'[j]
    BY <2>4
  <2>5. CASE j = Len(buffer')
    BY <2>3, <2>4, <2>5
  <2>6. CASE j # Len(buffer')
    <3>1. /\ i \in 1..Len(buffer') - 1 /\ j \in 1..Len(buffer') - 1
          /\ i + k \in 1..Len(buffer) /\ j + k \in 1..Len(buffer) /\ i + k < j + k
      BY SMTT(30), <2>2, <2>3, <2>6
    <3> QED
      BY <2>2, <2>4, <3>1
  <2> QED
    BY <2>5, <2>6
<1>2. CASE ReadFails
  BY <1>2 DEF ReadFails
<1>3. CASE Reopen
  BY <1>3 DEF Reopen
<1>4. CASE CaptureEnds
  BY <1>4 DEF CaptureEnds
<1>5. CASE StartRound
  BY <1>5 DEF StartRound
<1>6. CASE TakeLatest
  BY <1>6 DEF TakeLatest
<1>7. CASE TakeTimesOut
  BY <1>7 DEF TakeTimesOut
<1>8. CASE PostFrame
  BY <1>8 DEF PostFrame
<1>9. CASE PostAccepted
  BY <1>9 DEF PostAccepted
<1>10. CASE FrameRefused
  BY <1>10 DEF FrameRefused
<1>11. ASSUME NEW r \in RetryAfters, PostRefused(r) PROVE BufferSorted'
  BY <1>11 DEF PostRefused
<1>12. CASE EndRound
  BY <1>12 DEF EndRound
<1>13. CASE LeaveLoop
  BY <1>13 DEF LeaveLoop
<1>14. CASE ProcessExits
  BY <1>14 DEF ProcessExits
<1>15. CASE DeviceChanges
  BY <1>15 DEF DeviceChanges
<1>16. CASE CameraTick
  <2>1. /\ Len(buffer') = Len(buffer) /\ DOMAIN buffer = 1..Len(buffer)
        /\ DOMAIN buffer' = 1..Len(buffer)
        /\ \A i \in 1..Len(buffer) : buffer'[i] = Aged(buffer[i]) /\ buffer[i] \in 0..OldFrame
    BY <1>16, TickAges, LenProperties
  <2>2. \A m, n \in 0..OldFrame : m >= n => Aged(m) >= Aged(n)
    BY DEF Aged, Least
  <2> QED
    BY <2>1, <2>2
<1>17. CASE UNCHANGED cameraVars
  BY <1>17
<1> QED
  BY <1>1, <1>2, <1>3, <1>4, <1>5, <1>6, <1>7, <1>8, <1>9, <1>10, <1>11, <1>12, <1>13,
     <1>14, <1>15, <1>16, <1>17 DEF CameraNext, CaptureStep, LoopStep

\* The loop rests for as long as the engine asked for.
LEMMA RestsForEngineKept ==
    ASSUME CameraInv, [CameraNext]_cameraVars
    PROVE  RestsForEngine'
<1> USE Numbers DEF CameraInv, CameraTypes, LoopTypes, WorldTypes, RestsForEngine, cameraVars
<1>1. CASE ReadFrame
  BY <1>1 DEF ReadFrame
<1>2. CASE ReadFails
  BY <1>2 DEF ReadFails
<1>3. CASE Reopen
  BY <1>3 DEF Reopen
<1>4. CASE CaptureEnds
  BY <1>4 DEF CaptureEnds
<1>5. CASE StartRound
  BY <1>5 DEF StartRound
<1>6. CASE TakeLatest
  BY <1>6 DEF TakeLatest
<1>7. CASE TakeTimesOut
  BY <1>7 DEF TakeTimesOut
<1>8. CASE PostFrame
  BY <1>8 DEF PostFrame
<1>9. CASE PostAccepted
  BY <1>9 DEF PostAccepted
<1>10. CASE FrameRefused
  BY <1>10 DEF FrameRefused
<1>11. ASSUME NEW r \in RetryAfters, PostRefused(r) PROVE RestsForEngine'
  <2>1. RefusedLevel \in 1..MaxLevel
    BY CountsBounded DEF RefusedLevel
  <2>2. Delay(BackoffBase, BackoffMax, RefusedLevel) \in 0..BackoffMax
    BY <2>1, DelayBounded
  <2>3. RefusalDelay(r) >= r
    BY <2>2, r \in Nat DEF RefusalDelay, Greatest
  <2> QED
    BY <1>11, <2>3 DEF PostRefused
<1>12. CASE EndRound
  BY <1>12 DEF EndRound
<1>13. CASE LeaveLoop
  BY <1>13 DEF LeaveLoop
<1>14. CASE ProcessExits
  BY <1>14 DEF ProcessExits
<1>15. CASE DeviceChanges
  BY <1>15 DEF DeviceChanges
<1>16. CASE CameraTick
  <2>1. /\ loop'.at = loop.at /\ loop'.delay = Rest(loop.delay) /\ loop.delay \in Nat
        /\ quiet' = Rest(quiet) /\ quiet \in Nat
    BY <1>16 DEF CameraTick
  <2> QED
    BY <2>1 DEF Rest, Greatest
<1>17. CASE UNCHANGED cameraVars
  BY <1>17
<1> QED
  BY <1>1, <1>2, <1>3, <1>4, <1>5, <1>6, <1>7, <1>8, <1>9, <1>10, <1>11, <1>12, <1>13,
     <1>14, <1>15, <1>16, <1>17 DEF CameraNext, CaptureStep, LoopStep

\* No second frame is captured in one tick.
LEMMA OneInATickKept ==
    ASSUME CameraInv, [CameraNext]_cameraVars
    PROVE  OneInATick'
<1> USE Numbers DEF CameraInv, CameraTypes, CaptureTypes, LoopTypes, WorldTypes,
   BufferTypes, OneInATick, cameraVars
<1>1. CASE ReadFrame
  BY <1>1 DEF ReadFrame
<1>2. CASE ReadFails
  BY <1>2 DEF ReadFails
<1>3. CASE Reopen
  BY <1>3 DEF Reopen
<1>4. CASE CaptureEnds
  BY <1>4 DEF CaptureEnds
<1>5. CASE StartRound
  BY <1>5 DEF StartRound
<1>6. CASE TakeLatest
  BY <1>6 DEF TakeLatest
<1>7. CASE TakeTimesOut
  BY <1>7 DEF TakeTimesOut
<1>8. CASE PostFrame
  BY <1>8 DEF PostFrame
<1>9. CASE PostAccepted
  BY <1>9 DEF PostAccepted
<1>10. CASE FrameRefused
  BY <1>10 DEF FrameRefused
<1>11. ASSUME NEW r \in RetryAfters, PostRefused(r) PROVE OneInATick'
  BY <1>11 DEF PostRefused
<1>12. CASE EndRound
  BY <1>12 DEF EndRound
<1>13. CASE LeaveLoop
  BY <1>13 DEF LeaveLoop
<1>14. CASE ProcessExits
  BY <1>14 DEF ProcessExits
<1>15. CASE DeviceChanges
  BY <1>15 DEF DeviceChanges
<1>16. CASE CameraTick
  <2>1. /\ loop'.at = loop.at /\ loop'.frame = Aged(loop.frame) /\ loop.frame \in 0..OldFrame
        /\ posted' = Least(posted + 1, OldFrame + 1) /\ posted \in 0..OldFrame + 1
    BY <1>16 DEF CameraTick
  <2>2. posted' \in 1..OldFrame + 1 /\ (posted < OldFrame + 1 => posted' = posted + 1)
        /\ (posted = OldFrame + 1 => posted' = posted)
    BY <2>1 DEF Least
  <2>3. /\ Len(buffer') = Len(buffer) /\ DOMAIN buffer = 1..Len(buffer)
        /\ DOMAIN buffer' = 1..Len(buffer)
        /\ \A i \in 1..Len(buffer) : buffer'[i] = Aged(buffer[i]) /\ buffer[i] \in 0..OldFrame
    BY <1>16, TickAges, LenProperties
  <2>4. \A m \in 0..OldFrame :
           /\ Aged(m) \in 1..OldFrame /\ (m < OldFrame => Aged(m) = m + 1)
           /\ m = OldFrame => Aged(m) = m
    BY DEF Aged, Least
  <2>5. posted' > 0 /\ loop'.frame > 0
    BY ONLY <2>1, <2>2, <2>4, Numbers
  <2>6. \A i \in 1..Len(buffer) : buffer'[i] > 0
    BY ONLY <2>3, <2>4, Numbers
  <2> QED
    BY <2>3, <2>5, <2>6 DEF OneInATick
<1>17. CASE UNCHANGED cameraVars
  BY <1>17
<1> QED
  BY <1>1, <1>2, <1>3, <1>4, <1>5, <1>6, <1>7, <1>8, <1>9, <1>10, <1>11, <1>12, <1>13,
     <1>14, <1>15, <1>16, <1>17 DEF CameraNext, CaptureStep, LoopStep

\* Frames that wait are newer than those taken and posted.
LEMMA FramesAreNewerKept ==
    ASSUME CameraInv, [CameraNext]_cameraVars
    PROVE  FramesAreNewer'
<1> USE Numbers DEF CameraInv, CameraTypes, CaptureTypes, LoopTypes, WorldTypes,
   BufferTypes, OneInATick, NewerOrStale, FramesAreNewer, cameraVars
<1>1. CASE ReadFrame
  <2>1. Push /\ UNCHANGED <<loop, posted>> /\ capture.at = "read"
    BY <1>1 DEF ReadFrame
  <2>2. PICK k \in Nat : /\ Len(buffer') - 1 + k = Len(buffer)
                        /\ \A i \in 1..Len(buffer') - 1 : buffer'[i] = buffer[i + k]
    BY <2>1, PushIsBounded
  <2>3. /\ buffer' \in Seq(0..OldFrame) /\ Len(buffer') \in Nat \ {0}
        /\ buffer'[Len(buffer')] = 0
    BY <2>1, PushIsBounded
  <2>4. DOMAIN buffer = 1..Len(buffer) /\ DOMAIN buffer' = 1..Len(buffer')
    BY <2>3, LenProperties
  <2>5. ASSUME NEW i \in 1..Len(buffer')
        PROVE  /\ NewerOrStale(buffer'[i], posted)
               /\ loop.at = "infer" => NewerOrStale(buffer'[i], loop.frame)
    <3>1. CASE i = Len(buffer')
      BY <2>1, <2>3, <3>1
    <3>2. CASE i # Len(buffer')
      <4>1. i \in 1..Len(buffer') - 1
        BY <2>3, <3>2
      <4>2. i + k \in 1..Len(buffer)
        BY <2>2, <2>3, <4>1
      <4> QED
        BY <2>2, <2>4, <4>1, <4>2
    <3> QED
      BY <3>1, <3>2
  <2> QED
    BY <2>1, <2>4, <2>5
<1>2. CASE ReadFails
  BY <1>2 DEF ReadFails
<1>3. CASE Reopen
  BY <1>3 DEF Reopen
<1>4. CASE CaptureEnds
  BY <1>4 DEF CaptureEnds
<1>5. CASE StartRound
  BY <1>5 DEF StartRound
<1>6. CASE TakeLatest
  BY SMTT(30), <1>6 DEF TakeLatest
<1>7. CASE TakeTimesOut
  BY <1>7 DEF TakeTimesOut
<1>8. CASE PostFrame
  BY <1>8 DEF PostFrame
<1>9. CASE PostAccepted
  BY <1>9 DEF PostAccepted
<1>10. CASE FrameRefused
  BY <1>10 DEF FrameRefused
<1>11. ASSUME NEW r \in RetryAfters, PostRefused(r) PROVE FramesAreNewer'
  BY <1>11 DEF PostRefused
<1>12. CASE EndRound
  BY <1>12 DEF EndRound
<1>13. CASE LeaveLoop
  BY <1>13 DEF LeaveLoop
<1>14. CASE ProcessExits
  BY <1>14 DEF ProcessExits
<1>15. CASE DeviceChanges
  BY <1>15 DEF DeviceChanges
<1>16. CASE CameraTick
  <2>1. /\ loop'.at = loop.at /\ loop'.frame = Aged(loop.frame) /\ loop.frame \in 0..OldFrame
        /\ posted' = Least(posted + 1, OldFrame + 1) /\ posted \in 0..OldFrame + 1
    BY <1>16 DEF CameraTick
  <2>2. posted' \in 1..OldFrame + 1 /\ (posted < OldFrame + 1 => posted' = posted + 1)
        /\ (posted = OldFrame + 1 => posted' = posted)
    BY <2>1 DEF Least
  <2>3. /\ Len(buffer') = Len(buffer) /\ DOMAIN buffer = 1..Len(buffer)
        /\ DOMAIN buffer' = 1..Len(buffer)
        /\ \A i \in 1..Len(buffer) : buffer'[i] = Aged(buffer[i]) /\ buffer[i] \in 0..OldFrame
    BY <1>16, TickAges, LenProperties
  <2>4. \A m \in 0..OldFrame :
           /\ Aged(m) \in 1..OldFrame /\ (m < OldFrame => Aged(m) = m + 1)
           /\ m = OldFrame => Aged(m) = m
    BY DEF Aged, Least
  <2>9. FramesAreNewer
    BY DEF FramesAreNewer
  <2>5. ASSUME NEW b \in 0..OldFrame
        PROVE  /\ NewerOrStale(b, posted) => NewerOrStale(Aged(b), posted')
               /\ NewerOrStale(b, loop.frame) => NewerOrStale(Aged(b), loop'.frame)
    <3>1. (b < OldFrame /\ Aged(b) = b + 1) \/ (b = OldFrame /\ Aged(b) = b)
      BY SMTT(30), <2>4
    <3>2. \/ loop.frame < OldFrame /\ loop'.frame = loop.frame + 1
          \/ loop.frame = OldFrame /\ loop'.frame = loop.frame
      BY ONLY <2>1, <2>4, Numbers
    <3> QED
      BY ONLY <2>1, <2>2, <3>1, <3>2, Numbers DEF NewerOrStale
  <2>6. loop.frame < posted => loop'.frame < posted'
    <3>1. \/ loop.frame < OldFrame /\ loop'.frame = loop.frame + 1
          \/ loop.frame = OldFrame /\ loop'.frame = loop.frame
      BY ONLY <2>1, <2>4, Numbers
    <3> QED
      BY SMTT(30), <2>1, <2>2, <3>1
  <2>7. ASSUME NEW i \in 1..Len(buffer)
        PROVE  /\ NewerOrStale(buffer'[i], posted')
               /\ loop'.at = "infer" => NewerOrStale(buffer'[i], loop'.frame)
    <3>1. /\ buffer[i] \in 0..OldFrame /\ buffer'[i] = Aged(buffer[i])
          /\ NewerOrStale(buffer[i], posted)
          /\ loop.at = "infer" => NewerOrStale(buffer[i], loop.frame)
      BY ONLY <2>3, <2>9 DEF FramesAreNewer
    <3> QED
      BY ONLY <2>1, <2>5, <3>1
  <2> QED
    BY ONLY <2>1, <2>3, <2>6, <2>7, <2>9 DEF FramesAreNewer
<1>17. CASE UNCHANGED cameraVars
  BY <1>17
<1> QED
  BY <1>1, <1>2, <1>3, <1>4, <1>5, <1>6, <1>7, <1>8, <1>9, <1>10, <1>11, <1>12, <1>13,
     <1>14, <1>15, <1>16, <1>17 DEF CameraNext, CaptureStep, LoopStep

-----------------------------------------------------------------------------
\* The detector starts with an empty buffer and nothing to wait for.
LEMMA InitiallySound == CameraInit => CameraInv
  BY Numbers DEF CameraInit, CameraInv, CameraTypes, CaptureTypes, LoopTypes, WorldTypes,
     BufferTypes, BufferSorted, RestsForEngine, OneInATick, FramesAreNewer, NewerOrStale,
     ThermalStates

\* Every step of the detector keeps the invariant.
LEMMA NextCameraInv == CameraInv /\ [CameraNext]_cameraVars => CameraInv'
  BY CaptureTypesKept, LoopTypesKept, WorldTypesKept, BufferTypesKept, BufferSortedKept,
     RestsForEngineKept, OneInATickKept, FramesAreNewerKept DEF CameraInv, CameraTypes

\* It says that the detector is sound ...
LEMMA SoundByInv == CameraInv => DetectorIsSound
  BY DEF CameraInv, CameraTypes, CaptureTypes, LoopTypes, WorldTypes, BufferTypes,
     BufferSorted, RestsForEngine, DetectorIsSound, FramesAreAccounted, RetryAfterIsKept,
     CameraTypeOK

\* ... and that a frame to be posted is newer than the one posted last.
LEMMA PostIsNewer == CameraInv => (PostFrame => loop.frame < posted)
  BY DEF CameraInv, FramesAreNewer, PostFrame

\* The invariant holds in every state of the detector.
LEMMA CameraInvariant == CameraSpec => []CameraInv
  BY InitiallySound, NextCameraInv, PTL DEF CameraSpec

\* Each captured frame is dropped and counted, taken once, or waiting in order in a
\* buffer that never holds more than its capacity (LatestFrameBuffer of frame_runtime.py),
\* and the engine is not called before the time it asked for is over.
THEOREM TheDetectorIsSound == CameraSpec => []DetectorIsSound
  BY CameraInvariant, SoundByInv, PTL

\* A frame is posted at most once and in the order of capture, whatever the answer to it
\* was or whether one came (publisher_runtime.py never retries a payload).
THEOREM FramesArePostedInOrder == CameraSpec => PostedOnceInOrder
  BY CameraInvariant, PostIsNewer, PTL DEF CameraSpec, PostedOnceInOrder

-----------------------------------------------------------------------------
(* The devices beside each other *)

\* A step of the devices is a method of the boot guard, or leaves it alone.
LEMMA BootStepIsOne == [DevicesNext]_edgeVars => [Next]_vars
<1> SUFFICES ASSUME [DevicesNext]_edgeVars, ~UNCHANGED vars PROVE Next
  OBVIOUS
<1>1. DevicesNext
  BY DEF edgeVars
<1>2. \A d : Of(d) => d = "boot"
  BY DEF Of
<1> QED
  BY <1>1, <1>2 DEF DevicesNext, Next

\* A step of the devices is one of the camera detector, or leaves it alone.
LEMMA CameraStepIsOne == [DevicesNext]_edgeVars => [CameraNext]_cameraVars
<1> SUFFICES ASSUME [DevicesNext]_edgeVars, ~UNCHANGED cameraVars PROVE CameraNext
  OBVIOUS
<1>1. DevicesNext
  BY DEF edgeVars
<1>2. \A d : Of(d) => d = "camera"
  BY DEF Of
<1> QED
  BY <1>1, <1>2 DEF DevicesNext, CameraNext

\* A step of the devices is one of the firmware's spool, or leaves it alone.
LEMMA SpoolStepIsOne == [DevicesNext]_edgeVars => [SpoolNext]_spoolVars
<1> SUFFICES ASSUME [DevicesNext]_edgeVars, ~UNCHANGED spoolVars PROVE SpoolNext
  OBVIOUS
<1>1. DevicesNext
  BY DEF edgeVars
<1>2. \A d : Of(d) => d = "spool"
  BY DEF Of
<1> QED
  BY <1>1, <1>2 DEF DevicesNext, SpoolNext

\* The same beside the other programs at the edge: the boot guard still implements the
\* A/B recovery model and rolls back to an image that was accepted, the detector still
\* accounts for its frames and posts them in order, and the spool keeps its bounds and
\* lets its oldest segment go first.
THEOREM DevicesKeepTheirPromises ==
    DevicesSpec =>
        /\ [](TypeOK /\ TrialApartFromKnownGood /\ KnownGoodIsTrusted /\ TrybootBudget)
        /\ ImplementsABRecovery
        /\ []DetectorIsSound /\ PostedOnceInOrder
        /\ [](SpoolTypeOK /\ SegmentFitsBatch /\ WithinQuota) /\ OldestLeavesFirst
<1>1. DevicesInit => Init /\ CameraInit /\ SpoolInit
  BY DEF DevicesInit
<1>2. DevicesSpec => Spec
  BY <1>1, BootStepIsOne, PTL DEF DevicesSpec, Spec
<1>3. DevicesSpec => []CameraInv
  BY <1>1, InitiallySound, NextCameraInv, CameraStepIsOne, PTL DEF DevicesSpec
<1>4. DevicesSpec => PostedOnceInOrder
  BY <1>3, PostIsNewer, CameraStepIsOne, PTL DEF DevicesSpec, PostedOnceInOrder
<1>5. DevicesSpec => SpoolSpec
  BY <1>1, SpoolStepIsOne, PTL DEF DevicesSpec, SpoolSpec
<1> QED
  BY <1>2, <1>3, <1>4, <1>5, TypeCorrect, TrialsAreApart, KnownGoodStaysTrusted,
     TrybootsAreBounded, BootGuardImplementsABRecovery, SoundByInv, SpoolStaysBounded,
     SpoolKeepsItsOrder, PTL
=============================================================================

------------------------- MODULE PiResilienceProofs -------------------------
(***************************************************************************)
(* What the boot guard's command line, the agent and the recovery executor  *)
(* promise together, for every set of partitions, every attempt budget and  *)
(* every threshold the sources let through, with resets at any point.       *)
(***************************************************************************)
EXTENDS PiResilience, TLAPS

\* The defaults of the sources: each slot has a partition of its own, the operator names
\* no other, and the fresh boot state is on that of slot A (recovery_executor.py,
\* slot_a_partition and slot_b_partition; boot_guard.py, known_good_partition).
OnePartitionPerSlot ==
    /\ Partition = {SlotAPartition, SlotBPartition}
    /\ DefaultPartition = SlotAPartition

-----------------------------------------------------------------------------
(* The inductive invariant.  What may be saved is not only the file but the   *)
(* stale copy in the hands of each process that writes it.                    *)

\* What the command line does next fits the state it has in hand.
CliKnows ==
    /\ cli.pc = "idle" => cli.then = "idle"
    /\ cli.pc = "accept" => cli.then # "reboot"
    /\ cli.pc = "save" /\ cli.then = "reboot" => cli.rec.phase = "candidate-booting"
    /\ cli.pc = "save" /\ cli.then = "autoboot" => cli.default = cli.rec.kgPart

\* Neither the file nor a copy holds a trial of the system one would roll back to, and the
\* executor saves no trial at all.
CopiesAreApart ==
    /\ ApartFromKnownGood(boot) /\ ApartFromKnownGood(cli.rec)
    /\ exec.pc = "save" => ~OnTrial(exec.rec)

CountedIn(s, n) == OnTrial(s) => n <= s.attempts /\ s.attempts <= MaxCandidateAttempts

\* A trial that is, or may be, saved has counted the tryboots so far, and the one that
\* reboot-tryboot is about to make.
CopiesAreCounted ==
    /\ tried <= MaxCandidateAttempts /\ CountedIn(boot, tried)
    /\ cli.pc = "save" =>
          IF cli.rec.phase = "candidate-staged" THEN cli.rec.attempts = 0
          ELSE CountedIn(cli.rec, IF cli.then = "reboot" THEN tried + 1 ELSE tried)
    /\ cli.pc = "reboot" => tried < MaxCandidateAttempts /\ CountedIn(boot, tried + 1)

\* Known-good in the file, in autoboot.txt and in every copy was accepted at some time, or is
\* about to be, out of the tryboot that runs.
CopiesAreTrusted ==
    /\ DefaultPartition \in everGood /\ boot.kgPart \in everGood
    /\ exec.rec.kgPart \in everGood /\ autoboot.default \in everGood
    /\ cli.pc = "autoboot" => cli.default \in everGood
    /\ cli.pc = "save" =>
          \/ cli.rec.kgPart \in everGood
          \/ running.tryboot /\ running.partition = cli.rec.kgPart

Paired(s) ==
    /\ s.kgPart = OwnPartition(s.kgSlot)
    /\ s.candSlot # None => s.candPart = OwnPartition(s.candSlot)

\* Slot and partition move together, in the file and in every copy.
CopiesArePaired ==
    OnePartitionPerSlot => Paired(boot) /\ Paired(cli.rec) /\ Paired(exec.rec)

PiInv ==
    /\ TypeOK /\ CliKnows /\ CopiesAreApart /\ CopiesAreCounted
    /\ CopiesAreTrusted /\ CopiesArePaired

-----------------------------------------------------------------------------
(* The functions of BootState, field by field *)

\* load() without a file returns a state on the default partition.
LEMMA FreshIs ==
    /\ FreshBootState \in BootStates /\ FreshBootState.phase = "stable"
    /\ FreshBootState.kgSlot = "A" /\ FreshBootState.kgPart = DefaultPartition
    /\ FreshBootState.candSlot = None /\ ~OnTrial(FreshBootState)
  BY PartitionAssumption DEF FreshBootState, BootStates, Phases, Slots, OnTrial

\* A boot state has a known-good partition, and a candidate it may name.
LEMMA KeptFields ==
    ASSUME NEW s \in BootStates
    PROVE  /\ s.kgPart \in Partition /\ s.kgSlot \in Slots /\ s.attempts \in Nat
           /\ s.candPart # None => s.candPart \in Partition
           /\ s.candSlot # None => s.candSlot \in Slots
  BY DEF BootStates

\* stage_candidate
LEMMA StagedIs ==
    ASSUME NEW s \in BootStates, NEW slot \in Slots, NEW part \in Partition
    PROVE  LET t == Staged(s, slot, part)
           IN  /\ t \in BootStates /\ t.phase = "candidate-staged" /\ t.attempts = 0
               /\ t.kgSlot = s.kgSlot /\ t.kgPart = s.kgPart
               /\ t.candSlot = slot /\ t.candPart = part
  BY PartitionAssumption DEF Staged, BootStates, Phases, Slots

\* begin_candidate_boot
LEMMA BegunIs ==
    ASSUME NEW s \in BootStates, CanBegin(s)
    PROVE  LET t == Begun(s)
           IN  /\ t \in BootStates /\ t.attempts = s.attempts + 1
               /\ t.phase = IF s.attempts + 1 > MaxCandidateAttempts
                            THEN "rollback-required" ELSE "candidate-booting"
               /\ t.kgSlot = s.kgSlot /\ t.kgPart = s.kgPart
               /\ t.candSlot = s.candSlot /\ t.candPart = s.candPart
<1>1. s.candSlot \in Slots /\ s.attempts + 1 \in Nat
  BY DEF CanBegin, HasCandidate, BootStates
<1>2. CASE s.attempts + 1 > MaxCandidateAttempts
  BY <1>1, <1>2 DEF Begun, BootStates, Phases
<1>3. CASE ~(s.attempts + 1 > MaxCandidateAttempts)
  BY <1>1, <1>3 DEF Begun, BootStates, Phases
<1> QED BY <1>2, <1>3

\* accept_candidate
LEMMA AcceptedIs ==
    ASSUME NEW s \in BootStates, HasCandidate(s)
    PROVE  LET t == Accepted(s)
           IN  /\ t \in BootStates /\ t.phase = "stable" /\ t.attempts = 0
               /\ t.kgSlot = s.candSlot /\ t.kgPart = s.candPart
               /\ t.candSlot = None /\ t.candPart = None
  BY DEF Accepted, HasCandidate, BootStates, Phases, Slots

\* report_failure
LEMMA FailedIs ==
    ASSUME NEW s \in BootStates
    PROVE  LET t == Failed(s)
           IN  /\ t \in BootStates /\ ~OnTrial(t)
               /\ t.kgSlot = s.kgSlot /\ t.kgPart = s.kgPart
               /\ t.candSlot = s.candSlot /\ t.candPart = s.candPart
  BY DEF Failed, OnTrial, BootStates, Phases

\* What the three processes start with.
LEMMA StartsAreTyped ==
    IdleCli \in CliTypes /\ IdleExec \in ExecTypes /\ FreshAgent \in AgentTypes
  BY FreshIs, ResilienceAssumption
  DEF IdleCli, CliTypes, IdleExec, ExecTypes, FreshAgent, AgentTypes

\* stage-candidate: what is about to be saved, and what it was checked against.
LEMMA StageStep ==
    ASSUME TypeOK, NEW slot \in Slots, NEW part \in Partition, StageCandidate(slot, part)
    PROVE  /\ cli'.pc = "save" /\ cli'.then = cli.then /\ cli.pc = "idle"
           /\ cli'.rec.phase = "candidate-staged" /\ cli'.rec.attempts = 0
           /\ cli'.rec.kgSlot = boot.kgSlot /\ cli'.rec.kgPart = boot.kgPart
           /\ cli'.rec.candSlot = slot /\ cli'.rec.candPart = part
           /\ slot # boot.kgSlot /\ part # boot.kgPart /\ slot # None /\ part # None
           /\ boot.kgSlot \in {"A", "B"} /\ slot \in {"A", "B"}
           /\ UNCHANGED <<boot, autoboot, running, exec, tried, everGood>>
<1> PICK t : t = Staged(boot, slot, part)
  OBVIOUS
<1>1. boot \in BootStates /\ boot.kgSlot \in Slots
  BY DEF TypeOK, BootStates
<1>2. cli'.pc = "save" /\ cli'.then = cli.then /\ cli.pc = "idle" /\ cli'.rec = t
  BY DEF StageCandidate, TypeOK, CliTypes
<1>3. /\ t.phase = "candidate-staged" /\ t.attempts = 0
      /\ t.kgSlot = boot.kgSlot /\ t.kgPart = boot.kgPart
      /\ t.candSlot = slot /\ t.candPart = part
  BY <1>1, StagedIs
<1>4. slot # boot.kgSlot /\ part # boot.kgPart /\ slot # None /\ part # None
  BY PartitionAssumption DEF StageCandidate, CanStage, Slots
<1>5. UNCHANGED <<boot, autoboot, running, exec, tried, everGood>>
  BY DEF StageCandidate, CliOnly, bootVars, execVars
<1> QED
  BY <1>1, <1>2, <1>3, <1>4, <1>5 DEF Slots

\* The executor's write of autoboot.txt: known-good by default, or an error.
LEMMA WriteStep ==
    ASSUME TypeOK, ExecWriteAutoboot
    PROVE  /\ exec'.pc \in {"idle", "receipt"} /\ exec'.rec = FreshBootState
           /\ autoboot' = autoboot \/ autoboot'.default = exec.rec.kgPart
           /\ UNCHANGED <<boot, tried, everGood, running, cli>>
<1> DEFINE renders == Renders(exec.rec.kgPart, OtherPartition(exec.rec.kgSlot))
<1>1. UNCHANGED <<boot, tried, everGood, running, cli>>
  BY DEF ExecWriteAutoboot, ExecOnly
<1>2. CASE renders
  <2>1. /\ exec' = [exec EXCEPT !.pc = "receipt", !.rec = FreshBootState]
        /\ autoboot'.default = exec.rec.kgPart
    BY <1>2 DEF ExecWriteAutoboot
  <2>2. exec'.pc = "receipt" /\ exec'.rec = FreshBootState
    BY <2>1 DEF TypeOK, ExecTypes
  <2> QED
    BY <1>1, <2>1, <2>2
<1>3. CASE ~renders
  BY <1>1, <1>3 DEF ExecWriteAutoboot, IdleExec
<1> QED
  BY <1>2, <1>3

-----------------------------------------------------------------------------
(* Every step keeps it *)

\* Files and processes keep the kinds of values the code writes.
LEMMA TypesKept ==
    ASSUME TypeOK, CliKnows, [Next]_vars
    PROVE  TypeOK'
<1> USE DEF TypeOK, vars, bootVars, agentVars, execVars, CliOnly, ExecOnly,
   Boot, Save
<1>1. ASSUME NEW slot \in Slots, NEW part \in Partition,
          StageCandidate(slot, part)
      PROVE TypeOK'
  BY <1>1, StagedIs DEF StageCandidate, CliTypes, CliKnows
<1>2. ASSUME NEW apply \in ApplyFlags,
          PrepareTryboot(apply)
      PROVE TypeOK'
  BY <1>2, KeptFields DEF PrepareTryboot, CliTypes, CliKnows
<1>3. ASSUME NEW execute \in ApplyFlags,
          BeginCandidateBoot(execute)
      PROVE TypeOK'
  BY <1>3, BegunIs DEF BeginCandidateBoot, CliTypes, CliKnows
<1>4. ASSUME NEW apply \in ApplyFlags,
          AcceptCurrent(apply)
      PROVE TypeOK'
  BY <1>4, KeptFields DEF AcceptCurrent, CliTypes, CliKnows
<1>5. CASE AcceptCandidate
  BY <1>5, AcceptedIs, StartsAreTyped DEF AcceptCandidate, CanAccept,
     HasCandidate, CliTypes, CliKnows
<1>6. CASE FailCurrent
  BY <1>6, FailedIs DEF FailCurrent, CliTypes, CliKnows
<1>7. CASE CliSave
  <2>1. cli.rec \in BootStates /\ cli.rec.kgPart \in Partition
    BY <1>7, KeptFields DEF CliTypes
  <2>2. cli' \in CliTypes
    BY <1>7, FreshIs, StartsAreTyped DEF CliSave, CliTypes, CliKnows
  <2>3. tried' \in Nat
    BY <1>7 DEF CliSave
  <2> QED
    BY <1>7, <2>1, <2>2, <2>3 DEF CliSave
<1>8. CASE CliWriteAutoboot
  BY <1>8, StartsAreTyped DEF CliWriteAutoboot, CliTypes, CliKnows
<1>9. CASE RebootTryboot
  <2>1. running' \in [partition : Partition, tryboot : BOOLEAN] /\ tried' \in Nat
    BY <1>9 DEF RebootTryboot
  <2> QED
    BY <1>9, <2>1, StartsAreTyped DEF RebootTryboot
<1>10. CASE EvaluateOnce
  <2> DEFINE failures == IF sick THEN agent.failures + 1 ELSE 0
             gen == IF agent.generation < MaxGeneration
                    THEN agent.generation + 1 ELSE agent.generation
             trial == OnTrial(boot)
  <2>1. failures \in Nat /\ gen \in 0..MaxGeneration /\ trial \in BOOLEAN
        /\ agent.generation \in 0..MaxGeneration
    BY ResilienceAssumption DEF AgentTypes, OnTrial
  <2>2. CASE /\ failures >= FailureThreshold
             /\ request' = [generation |-> gen, rollback |-> trial, served |-> FALSE]
             /\ triggered' \in IF exec.pc = "idle" THEN {TRUE} ELSE {TRUE, triggered}
             /\ agent' = [agent EXCEPT !.failures = 0, !.generation = gen]
    <3> HIDE DEF failures, gen, trial
    <3>4. agent' = [failures |-> 0, generation |-> gen, restarts |-> agent.restarts]
      BY <2>2 DEF AgentTypes
    <3>1. agent' \in AgentTypes
      BY <2>1, <3>4, ResilienceAssumption DEF AgentTypes
    <3>2. request' \in [generation : 0..MaxGeneration, rollback : BOOLEAN, served : BOOLEAN]
      BY <2>1, <2>2
    <3>3. triggered' \in BOOLEAN
      BY <2>2
    <3> QED
      BY <1>10, <3>1, <3>2, <3>3 DEF EvaluateOnce
  <2>3. CASE /\ failures < FailureThreshold
             /\ agent' = [agent EXCEPT !.failures = failures]
             /\ UNCHANGED <<request, triggered>>
    <3> HIDE DEF failures
    <3>1. agent' \in AgentTypes
      BY <2>1, <2>3, ResilienceAssumption DEF AgentTypes
    <3> QED
      BY <1>10, <2>3, <3>1 DEF EvaluateOnce
  <2> QED
    BY <1>10, <2>2, <2>3 DEF EvaluateOnce
<1>11. CASE AgentRestart
  BY <1>11, ResilienceAssumption DEF AgentRestart, FreshAgent, AgentTypes
<1>12. CASE ExecStart
  BY <1>12, StartsAreTyped DEF ExecStart, ExecTypes
<1>13. CASE ExecLoad
  BY <1>13, FailedIs DEF ExecLoad, ExecTypes
<1>14. CASE ExecSave
  <2>1. exec' \in ExecTypes /\ exec.rec \in BootStates /\ exec.rec.kgPart \in Partition
    BY <1>14, KeptFields DEF ExecSave, ExecTypes
  <2> QED
    BY <1>14, <2>1 DEF ExecSave
<1>15. CASE ExecWriteAutoboot
  <2>1. exec.rec \in BootStates /\ exec.rec.kgPart \in Partition
    BY <1>15, KeptFields DEF ExecTypes
  <2>2. OtherPartition(exec.rec.kgSlot) \in Partition
    BY ResilienceAssumption DEF OtherPartition
  <2>3. exec' \in ExecTypes
    BY <1>15, FreshIs, StartsAreTyped DEF ExecWriteAutoboot, ExecTypes
  <2> QED
    BY <1>15, <2>1, <2>2, <2>3 DEF ExecWriteAutoboot
<1>16. CASE ExecReceipt
  <2> DEFINE is == request.served \/ request.generation = exec.generation
  <2>1. request' = [request EXCEPT !.served = is] /\ is \in BOOLEAN
    BY <1>16 DEF ExecReceipt
  <2> HIDE DEF is
  <2>2. /\ request' \in [generation : 0..MaxGeneration, rollback : BOOLEAN, served : BOOLEAN]
        /\ exec' \in ExecTypes /\ receipt' \in 0..MaxGeneration
    BY <1>16, <2>1 DEF ExecReceipt, ExecTypes
  <2> QED
    BY <1>16, <2>2 DEF ExecReceipt
<1>17. CASE ExecReboot
  BY <1>17, StartsAreTyped DEF ExecReboot
<1>18. CASE CooldownElapses
  BY <1>18 DEF CooldownElapses
<1>19. CASE BecomeSick
  BY <1>19 DEF BecomeSick
<1>20. CASE GetWell
  BY <1>20 DEF GetWell
<1>21. CASE PowerLoss
  BY <1>21, StartsAreTyped DEF PowerLoss
<1>22. CASE UNCHANGED vars
  BY <1>22
<1> QED
  BY <1>1, <1>2, <1>3, <1>4, <1>5, <1>6, <1>7, <1>8, <1>9, <1>10, <1>11,
     <1>12, <1>13, <1>14, <1>15, <1>16, <1>17, <1>18, <1>19, <1>20, <1>21,
     <1>22 DEF Next, CliStep, ExecStep

\* What the command line does after a save fits what it saves.
LEMMA CliKnowsKept ==
    ASSUME TypeOK, CliKnows, [Next]_vars
    PROVE  CliKnows'
<1> USE DEF TypeOK, CliTypes, CliKnows, vars, bootVars, agentVars, execVars,
   CliOnly, ExecOnly, Boot, Save
<1>1. ASSUME NEW slot \in Slots, NEW part \in Partition,
          StageCandidate(slot, part)
      PROVE CliKnows'
  BY <1>1, StagedIs DEF StageCandidate
<1>2. ASSUME NEW apply \in ApplyFlags,
          PrepareTryboot(apply)
      PROVE CliKnows'
  BY <1>2 DEF PrepareTryboot
<1>3. ASSUME NEW execute \in ApplyFlags,
          BeginCandidateBoot(execute)
      PROVE CliKnows'
  BY <1>3, BegunIs DEF BeginCandidateBoot
<1>4. ASSUME NEW apply \in ApplyFlags,
          AcceptCurrent(apply)
      PROVE CliKnows'
  BY <1>4 DEF AcceptCurrent
<1>5. CASE AcceptCandidate
  BY <1>5, AcceptedIs DEF AcceptCandidate, CanAccept, IdleCli
<1>6. CASE FailCurrent
  BY <1>6, FailedIs DEF FailCurrent
<1>7. CASE CliSave
  BY <1>7 DEF CliSave, IdleCli
<1>8. CASE CliWriteAutoboot
  BY <1>8 DEF CliWriteAutoboot, IdleCli
<1>9. CASE RebootTryboot
  BY <1>9 DEF RebootTryboot, IdleCli
<1>10. CASE EvaluateOnce
  BY <1>10 DEF EvaluateOnce
<1>11. CASE AgentRestart
  BY <1>11 DEF AgentRestart
<1>12. CASE ExecStart
  BY <1>12 DEF ExecStart
<1>13. CASE ExecLoad
  BY <1>13 DEF ExecLoad
<1>14. CASE ExecSave
  BY <1>14 DEF ExecSave
<1>15. CASE ExecWriteAutoboot
  BY <1>15 DEF ExecWriteAutoboot
<1>16. CASE ExecReceipt
  BY <1>16 DEF ExecReceipt
<1>17. CASE ExecReboot
  BY <1>17 DEF ExecReboot, IdleCli
<1>18. CASE CooldownElapses
  BY <1>18 DEF CooldownElapses
<1>19. CASE BecomeSick
  BY <1>19 DEF BecomeSick
<1>20. CASE GetWell
  BY <1>20 DEF GetWell
<1>21. CASE PowerLoss
  BY <1>21 DEF PowerLoss, IdleCli
<1>22. CASE UNCHANGED vars
  BY <1>22
<1> QED
  BY <1>1, <1>2, <1>3, <1>4, <1>5, <1>6, <1>7, <1>8, <1>9, <1>10, <1>11,
     <1>12, <1>13, <1>14, <1>15, <1>16, <1>17, <1>18, <1>19, <1>20, <1>21,
     <1>22 DEF Next, CliStep, ExecStep

\* No interleaving saves a trial of what one would roll back to.
LEMMA ApartKept ==
    ASSUME TypeOK, CliKnows, CopiesAreApart, [Next]_vars
    PROVE  CopiesAreApart'
<1> USE FreshIs DEF TypeOK, CliTypes, ExecTypes, CopiesAreApart,
   ApartFromKnownGood, HasCandidate, vars, bootVars, agentVars, execVars,
   CliOnly, ExecOnly, Boot, Save
<1>1. ASSUME NEW slot \in Slots, NEW part \in Partition,
          StageCandidate(slot, part)
      PROVE CopiesAreApart'
  BY <1>1, StageStep DEF OnTrial
<1>2. ASSUME NEW apply \in ApplyFlags,
          PrepareTryboot(apply)
      PROVE CopiesAreApart'
  BY <1>2 DEF PrepareTryboot
<1>3. ASSUME NEW execute \in ApplyFlags,
          BeginCandidateBoot(execute)
      PROVE CopiesAreApart'
  BY <1>3, BegunIs DEF BeginCandidateBoot, CanBegin, OnTrial
<1>4. ASSUME NEW apply \in ApplyFlags,
          AcceptCurrent(apply)
      PROVE CopiesAreApart'
  BY <1>4 DEF AcceptCurrent
<1>5. CASE AcceptCandidate
  BY <1>5, AcceptedIs DEF AcceptCandidate, CanAccept, IdleCli, OnTrial
<1>6. CASE FailCurrent
  BY <1>6, FailedIs DEF FailCurrent
<1>7. CASE CliSave
  BY <1>7 DEF CliSave, IdleCli
<1>8. CASE CliWriteAutoboot
  BY <1>8 DEF CliWriteAutoboot, IdleCli
<1>9. CASE RebootTryboot
  BY <1>9 DEF RebootTryboot, IdleCli, IdleExec
<1>10. CASE EvaluateOnce
  BY <1>10 DEF EvaluateOnce
<1>11. CASE AgentRestart
  BY <1>11 DEF AgentRestart
<1>12. CASE ExecStart
  BY <1>12 DEF ExecStart, IdleExec
<1>13. CASE ExecLoad
  BY <1>13, FailedIs DEF ExecLoad
<1>14. CASE ExecSave
  BY <1>14 DEF ExecSave
<1>15. CASE ExecWriteAutoboot
  BY <1>15, WriteStep
<1>16. CASE ExecReceipt
  BY <1>16 DEF ExecReceipt
<1>17. CASE ExecReboot
  BY <1>17 DEF ExecReboot, IdleCli, IdleExec
<1>18. CASE CooldownElapses
  BY <1>18 DEF CooldownElapses
<1>19. CASE BecomeSick
  BY <1>19 DEF BecomeSick
<1>20. CASE GetWell
  BY <1>20 DEF GetWell
<1>21. CASE PowerLoss
  BY <1>21 DEF PowerLoss, IdleCli, IdleExec
<1>22. CASE UNCHANGED vars
  BY <1>22
<1> QED
  BY <1>1, <1>2, <1>3, <1>4, <1>5, <1>6, <1>7, <1>8, <1>9, <1>10, <1>11,
     <1>12, <1>13, <1>14, <1>15, <1>16, <1>17, <1>18, <1>19, <1>20, <1>21,
     <1>22 DEF Next, CliStep, ExecStep

\* Every tryboot is counted in the trial it is made for, before it is made.
LEMMA CountedKept ==
    ASSUME TypeOK, CliKnows, CopiesAreApart, CopiesAreCounted, [Next]_vars
    PROVE  CopiesAreCounted'
<1> USE FreshIs, KeptFields, AttemptsAssumption DEF TypeOK, CliTypes,
   ExecTypes, CliKnows, CopiesAreApart, CopiesAreCounted, CountedIn, vars,
   bootVars, agentVars, execVars, CliOnly, ExecOnly, Boot, Save
<1>1. ASSUME NEW slot \in Slots, NEW part \in Partition,
          StageCandidate(slot, part)
      PROVE CopiesAreCounted'
  BY <1>1, StageStep DEF OnTrial
<1>2. ASSUME NEW apply \in ApplyFlags,
          PrepareTryboot(apply)
      PROVE CopiesAreCounted'
  BY <1>2 DEF PrepareTryboot
<1>3. ASSUME NEW execute \in ApplyFlags,
          BeginCandidateBoot(execute)
      PROVE CopiesAreCounted'
  BY <1>3, BegunIs DEF BeginCandidateBoot, CanBegin, OnTrial
<1>4. ASSUME NEW apply \in ApplyFlags,
          AcceptCurrent(apply)
      PROVE CopiesAreCounted'
  BY <1>4 DEF AcceptCurrent
<1>5. CASE AcceptCandidate
  BY <1>5, AcceptedIs DEF AcceptCandidate, CanAccept, IdleCli, OnTrial
<1>6. CASE FailCurrent
  BY <1>6, FailedIs DEF FailCurrent, OnTrial
<1>7. CASE CliSave
  BY <1>7 DEF CliSave, IdleCli, OnTrial
<1>8. CASE CliWriteAutoboot
  BY <1>8 DEF CliWriteAutoboot, IdleCli
<1>9. CASE RebootTryboot
  BY <1>9 DEF RebootTryboot, IdleCli, IdleExec
<1>10. CASE EvaluateOnce
  BY <1>10 DEF EvaluateOnce
<1>11. CASE AgentRestart
  BY <1>11 DEF AgentRestart
<1>12. CASE ExecStart
  BY <1>12 DEF ExecStart, IdleExec
<1>13. CASE ExecLoad
  BY <1>13, FailedIs DEF ExecLoad
<1>14. CASE ExecSave
  BY <1>14 DEF ExecSave
<1>15. CASE ExecWriteAutoboot
  BY <1>15, WriteStep
<1>16. CASE ExecReceipt
  BY <1>16 DEF ExecReceipt
<1>17. CASE ExecReboot
  BY <1>17 DEF ExecReboot, IdleCli, IdleExec
<1>18. CASE CooldownElapses
  BY <1>18 DEF CooldownElapses
<1>19. CASE BecomeSick
  BY <1>19 DEF BecomeSick
<1>20. CASE GetWell
  BY <1>20 DEF GetWell
<1>21. CASE PowerLoss
  BY <1>21 DEF PowerLoss, IdleCli, IdleExec
<1>22. CASE UNCHANGED vars
  BY <1>22
<1> QED
  BY <1>1, <1>2, <1>3, <1>4, <1>5, <1>6, <1>7, <1>8, <1>9, <1>10, <1>11,
     <1>12, <1>13, <1>14, <1>15, <1>16, <1>17, <1>18, <1>19, <1>20, <1>21,
     <1>22 DEF Next, CliStep, ExecStep

\* Only what ran by tryboot joins what is trusted, and only that is booted.
LEMMA TrustedKept ==
    ASSUME TypeOK, CliKnows, CopiesAreTrusted, [Next]_vars
    PROVE  CopiesAreTrusted'
<1> USE FreshIs DEF TypeOK, CliTypes, ExecTypes, CliKnows, CopiesAreTrusted,
   vars, bootVars, agentVars, execVars, CliOnly, ExecOnly, Boot, Save
<1>1. ASSUME NEW slot \in Slots, NEW part \in Partition,
          StageCandidate(slot, part)
      PROVE CopiesAreTrusted'
  BY <1>1, StageStep DEF OnTrial
<1>2. ASSUME NEW apply \in ApplyFlags,
          PrepareTryboot(apply)
      PROVE CopiesAreTrusted'
  BY <1>2 DEF PrepareTryboot
<1>3. ASSUME NEW execute \in ApplyFlags,
          BeginCandidateBoot(execute)
      PROVE CopiesAreTrusted'
  BY <1>3, BegunIs DEF BeginCandidateBoot
<1>4. ASSUME NEW apply \in ApplyFlags,
          AcceptCurrent(apply)
      PROVE CopiesAreTrusted'
  BY <1>4 DEF AcceptCurrent
<1>5. CASE AcceptCandidate
  BY <1>5, AcceptedIs DEF AcceptCandidate, CanAccept, IdleCli
<1>6. CASE FailCurrent
  BY <1>6, FailedIs DEF FailCurrent
<1>7. CASE CliSave
  BY <1>7 DEF CliSave, IdleCli
<1>8. CASE CliWriteAutoboot
  BY <1>8 DEF CliWriteAutoboot, IdleCli
<1>9. CASE RebootTryboot
  BY <1>9 DEF RebootTryboot, IdleCli, IdleExec
<1>10. CASE EvaluateOnce
  BY <1>10 DEF EvaluateOnce
<1>11. CASE AgentRestart
  BY <1>11 DEF AgentRestart
<1>12. CASE ExecStart
  BY <1>12 DEF ExecStart, IdleExec
<1>13. CASE ExecLoad
  BY <1>13, FailedIs DEF ExecLoad
<1>14. CASE ExecSave
  BY <1>14 DEF ExecSave
<1>15. CASE ExecWriteAutoboot
  BY <1>15, WriteStep
<1>16. CASE ExecReceipt
  BY <1>16 DEF ExecReceipt
<1>17. CASE ExecReboot
  BY <1>17 DEF ExecReboot, IdleCli, IdleExec
<1>18. CASE CooldownElapses
  BY <1>18 DEF CooldownElapses
<1>19. CASE BecomeSick
  BY <1>19 DEF BecomeSick
<1>20. CASE GetWell
  BY <1>20 DEF GetWell
<1>21. CASE PowerLoss
  BY <1>21 DEF PowerLoss, IdleCli, IdleExec
<1>22. CASE UNCHANGED vars
  BY <1>22
<1> QED
  BY <1>1, <1>2, <1>3, <1>4, <1>5, <1>6, <1>7, <1>8, <1>9, <1>10, <1>11,
     <1>12, <1>13, <1>14, <1>15, <1>16, <1>17, <1>18, <1>19, <1>20, <1>21,
     <1>22 DEF Next, CliStep, ExecStep

\* With one partition per slot the two never part.
LEMMA PairedKept ==
    ASSUME TypeOK, CopiesArePaired, [Next]_vars
    PROVE  CopiesArePaired'
<1> USE PartitionAssumption, ResilienceAssumption, FreshIs, KeptFields DEF
   OnePartitionPerSlot, TypeOK, CliTypes, ExecTypes, CopiesArePaired, Paired,
   OwnPartition, vars, bootVars, agentVars, execVars, CliOnly, ExecOnly,
   Boot, Save
<1>1. ASSUME NEW slot \in Slots, NEW part \in Partition,
          StageCandidate(slot, part)
      PROVE CopiesArePaired'
  BY <1>1, StageStep DEF OnTrial
<1>2. ASSUME NEW apply \in ApplyFlags,
          PrepareTryboot(apply)
      PROVE CopiesArePaired'
  BY <1>2 DEF PrepareTryboot
<1>3. ASSUME NEW execute \in ApplyFlags,
          BeginCandidateBoot(execute)
      PROVE CopiesArePaired'
  BY <1>3, BegunIs DEF BeginCandidateBoot
<1>4. ASSUME NEW apply \in ApplyFlags,
          AcceptCurrent(apply)
      PROVE CopiesArePaired'
  BY <1>4 DEF AcceptCurrent
<1>5. CASE AcceptCandidate
  BY <1>5, AcceptedIs DEF AcceptCandidate, CanAccept, HasCandidate, IdleCli
<1>6. CASE FailCurrent
  BY <1>6, FailedIs DEF FailCurrent
<1>7. CASE CliSave
  BY <1>7 DEF CliSave, IdleCli
<1>8. CASE CliWriteAutoboot
  BY <1>8 DEF CliWriteAutoboot, IdleCli
<1>9. CASE RebootTryboot
  BY <1>9 DEF RebootTryboot, IdleCli, IdleExec
<1>10. CASE EvaluateOnce
  BY <1>10 DEF EvaluateOnce
<1>11. CASE AgentRestart
  BY <1>11 DEF AgentRestart
<1>12. CASE ExecStart
  BY <1>12 DEF ExecStart, IdleExec
<1>13. CASE ExecLoad
  BY <1>13, FailedIs DEF ExecLoad
<1>14. CASE ExecSave
  BY <1>14 DEF ExecSave
<1>15. CASE ExecWriteAutoboot
  BY <1>15, WriteStep
<1>16. CASE ExecReceipt
  BY <1>16 DEF ExecReceipt
<1>17. CASE ExecReboot
  BY <1>17 DEF ExecReboot, IdleCli, IdleExec
<1>18. CASE CooldownElapses
  BY <1>18 DEF CooldownElapses
<1>19. CASE BecomeSick
  BY <1>19 DEF BecomeSick
<1>20. CASE GetWell
  BY <1>20 DEF GetWell
<1>21. CASE PowerLoss
  BY <1>21 DEF PowerLoss, IdleCli, IdleExec
<1>22. CASE UNCHANGED vars
  BY <1>22
<1> QED
  BY <1>1, <1>2, <1>3, <1>4, <1>5, <1>6, <1>7, <1>8, <1>9, <1>10, <1>11,
     <1>12, <1>13, <1>14, <1>15, <1>16, <1>17, <1>18, <1>19, <1>20, <1>21,
     <1>22 DEF Next, CliStep, ExecStep

-----------------------------------------------------------------------------
(* The invariant of every behaviour, and what follows from it *)

\* Fresh files and idle processes satisfy the invariant.
LEMMA InitPiInv == Init => PiInv
<1> SUFFICES ASSUME Init PROVE PiInv
  OBVIOUS
<1> USE FreshIs, StartsAreTyped, PartitionAssumption, ResilienceAssumption, AttemptsAssumption
    DEF Init
<1>1. (CHOOSE p \in {SlotAPartition, SlotBPartition} : p # DefaultPartition) \in Partition
  OBVIOUS
<1>2. TypeOK
  <2>1. /\ boot \in BootStates /\ autoboot \in [default : Partition, try : Partition]
        /\ running \in [partition : Partition, tryboot : BOOLEAN]
    BY <1>1
  <2>2. request \in [generation : 0..MaxGeneration, rollback : BOOLEAN, served : BOOLEAN]
    OBVIOUS
  <2> QED
    BY <2>1, <2>2 DEF TypeOK
<1>3. /\ cli.pc = "idle" /\ cli.then = "idle" /\ cli.rec = FreshBootState
      /\ exec.pc = "idle" /\ exec.rec = FreshBootState
  BY DEF IdleCli, IdleExec
<1>4. CliKnows /\ CopiesAreApart
  BY <1>3 DEF CliKnows, CopiesAreApart, ApartFromKnownGood
<1>5. CopiesAreCounted
  BY <1>3 DEF CopiesAreCounted, CountedIn
<1>6. CopiesAreTrusted
  BY <1>3 DEF CopiesAreTrusted
<1>7. CopiesArePaired
  BY <1>3 DEF CopiesArePaired, OnePartitionPerSlot, Paired, OwnPartition
<1> QED
  BY <1>2, <1>4, <1>5, <1>6, <1>7 DEF PiInv

\* The invariant holds in every state.
LEMMA PiInvariant == Spec => []PiInv
<1>1. PiInv /\ [Next]_vars => PiInv'
  BY TypesKept, CliKnowsKept, ApartKept, CountedKept, TrustedKept, PairedKept DEF PiInv
<1> QED
  BY InitPiInv, <1>1, PTL DEF Spec

\* However command line, agent and executor interleave and wherever a reset falls: a trial is
\* apart from known-good and boots no more often than max_candidate_attempts, and with one
\* partition per slot the executor can always write the autoboot.txt of its recovery.
THEOREM TrialsStayContained == OnePartitionPerSlot => (Spec => []TrialIsContained)
<1> SUFFICES ASSUME OnePartitionPerSlot PROVE Spec => []TrialIsContained
  OBVIOUS
<1>1. PiInv => TrialIsContained
  <2> SUFFICES ASSUME PiInv PROVE TrialIsContained
    OBVIOUS
  <2>1. TypeOK /\ TrialApartFromKnownGood /\ TrybootBudget
    BY DEF PiInv, CopiesAreApart, CopiesAreCounted, TrialApartFromKnownGood, TrybootBudget
  <2>2. Paired(exec.rec)
    BY DEF PiInv, CopiesArePaired
  <2>3. ExecutorAlwaysRenders
    BY <2>2, ResilienceAssumption
    DEF ExecutorAlwaysRenders, Renders, Paired, OwnPartition, OtherPartition
  <2> QED
    BY <2>1, <2>3 DEF TrialIsContained
<1> QED
  BY PiInvariant, <1>1, PTL

\* A partition becomes known-good for the first time only while it runs by tryboot, whoever
\* saves the state and however old the copy is, and only such a partition boots by default.
THEOREM TrustStaysEarned == Spec => TrustIsEarned
<1>1. PiInv => NormalBootWasAccepted
  BY DEF PiInv, CopiesAreTrusted, NormalBootWasAccepted
<1>2. PiInv /\ [Next]_vars =>
          [\A p \in everGood' \ everGood :
              running.tryboot /\ running.partition = p]_vars
  <2> SUFFICES ASSUME PiInv, [Next]_vars, NEW p \in everGood' \ everGood
               PROVE  running.tryboot /\ running.partition = p
    OBVIOUS
  <2>1. \/ CliSave \/ ExecSave
        \/ everGood' = everGood
    BY DEF Next, CliStep, ExecStep, vars, bootVars, CliOnly, Boot, ExecOnly,
       StageCandidate, PrepareTryboot, BeginCandidateBoot, AcceptCurrent, AcceptCandidate,
       FailCurrent, CliWriteAutoboot, RebootTryboot, EvaluateOnce, AgentRestart, ExecStart,
       ExecLoad, ExecWriteAutoboot, ExecReceipt, ExecReboot, CooldownElapses, BecomeSick,
       GetWell, PowerLoss
  <2>2. CASE CliSave
    BY <2>2 DEF CliSave, Save, PiInv, CopiesAreTrusted
  <2>3. CASE ExecSave
    BY <2>3 DEF ExecSave, Save, PiInv, CopiesAreTrusted
  <2> QED
    BY <2>1, <2>2, <2>3
<1> QED
  BY PiInvariant, <1>1, <1>2, PTL DEF Spec, TrustIsEarned, AcceptedFromItsTryboot

=============================================================================

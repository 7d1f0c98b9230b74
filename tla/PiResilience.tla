---------------------------- MODULE PiResilience ----------------------------
(***************************************************************************)
(* The Raspberry Pi host-resilience layer (edge/pi-resilience): the boot   *)
(* guard's command line, the resilience agent and the root recovery        *)
(* executor, three processes that share boot-state.json, autoboot.txt,     *)
(* recovery-request.json and recovery-receipt.json without a lock.         *)
(*                                                                         *)
(* A load and the save that follows it are two steps, every file write is  *)
(* atomic (temporary file, fsync, os.replace), and a reset of the host may *)
(* come between any two steps.                                             *)
(***************************************************************************)
EXTENDS BootState

CONSTANTS SlotAPartition,          \* --slot-a-partition
          SlotBPartition,          \* --slot-b-partition
          ApplyFlags,              \* values given to --apply, --apply-autoboot
                                   \* and --execute on the command line
          FailureThreshold,        \* --failure-threshold
          MaxGeneration,           \* bound: recovery generations
          MaxAgentRestarts         \* bound: restarts of the agent per boot

ASSUME ResilienceAssumption ==
    /\ SlotAPartition \in Partition
    /\ SlotBPartition \in Partition
    /\ SlotAPartition # SlotBPartition
    /\ ApplyFlags \subseteq BOOLEAN
    /\ FailureThreshold \in 1..20
    /\ MaxGeneration \in Nat \ {0}
    /\ MaxAgentRestarts \in Nat

VARIABLES boot,       \* boot-state.json
          autoboot,   \* autoboot.txt: normal and tryboot partitions
          running,    \* what the bootloader reports about this boot
          cli,        \* the boot_guard.py process
          exec,       \* the recovery_executor.py process
          agent,      \* the resilience_agent.py process
          request,    \* recovery-request.json
          receipt,    \* generation in recovery-receipt.json, 0 if absent
          cooling,    \* now - processedAtMs < cooldown_seconds
          triggered,  \* kingmast-recovery.path has seen a change
          sick,       \* environment: a critical check fails
          tried,      \* history: tryboots since the last staging
          everGood    \* history: partitions that were ever known-good

bootVars  == <<boot, autoboot, tried, everGood>>
agentVars == <<agent, request>>
execVars  == <<exec, receipt, cooling>>
vars == <<boot, autoboot, running, cli, exec, agent, request, receipt,
          cooling, triggered, sick, tried, everGood>>

-----------------------------------------------------------------------------
(* Processes *)

\* `rec' is the state about to be saved; `then' is what follows the save;
\* `default' and `alt' are the arguments of the write to autoboot.txt.
IdleCli ==
    [pc |-> "idle", rec |-> FreshBootState, then |-> "idle",
     default |-> SlotAPartition, alt |-> SlotBPartition]

IdleExec ==
    [pc |-> "idle", rec |-> FreshBootState, generation |-> 0,
     rollback |-> FALSE]

\* ResilienceAgent.__init__: every process starts counting from 0.
FreshAgent ==
    [failures |-> 0, generation |-> 0, restarts |-> 0]

CliTypes ==
    [pc : {"idle", "accept", "save", "autoboot", "reboot"},
     rec : BootStates, then : {"idle", "autoboot", "reboot"},
     default : Partition, alt : Partition]

ExecTypes ==
    [pc : {"idle", "load", "save", "autoboot", "receipt", "reboot"},
     rec : BootStates, generation : 0..MaxGeneration, rollback : BOOLEAN]

AgentTypes ==
    [failures : 0..FailureThreshold,
     generation : 0..MaxGeneration, restarts : 0..MaxAgentRestarts]

Init ==
    /\ boot = FreshBootState
    /\ autoboot = [default |-> DefaultPartition,
                   try |-> CHOOSE p \in {SlotAPartition, SlotBPartition} :
                             p # DefaultPartition]
    /\ running = [partition |-> DefaultPartition, tryboot |-> FALSE]
    /\ cli = IdleCli
    /\ exec = IdleExec
    /\ agent = FreshAgent
    /\ request = [generation |-> 0, rollback |-> FALSE, served |-> FALSE]
    /\ receipt = 0
    /\ cooling = FALSE
    /\ triggered = FALSE
    /\ sick = FALSE
    /\ tried = 0
    /\ everGood = {DefaultPartition}

\* RaspberryPiTrybootConfig.write_atomic; render() refuses equal partitions.
Renders(default, alt) == default # alt

\* AtomicBootStateStore.save
Save(rec) ==
    /\ boot' = rec
    /\ everGood' = everGood \cup {rec.kgPart}

\* The host restarts: the one-shot tryboot flag selects the partition, every
\* process starts anew and the path unit waits for the next change.
Boot(tryboot) ==
    /\ running' = [partition |-> IF tryboot THEN autoboot.try
                                            ELSE autoboot.default,
                   tryboot |-> tryboot]
    /\ cli' = IdleCli
    /\ exec' = IdleExec
    /\ agent' = FreshAgent
    /\ triggered' = FALSE
    /\ sick' = FALSE
    /\ UNCHANGED <<boot, autoboot, everGood, request, receipt, cooling>>

-----------------------------------------------------------------------------
(* boot_guard.py *)

\* What a command leaves alone until it saves.
CliOnly == UNCHANGED <<bootVars, running, agentVars, execVars, triggered, sick>>

StageCandidate(slot, part) ==
    /\ cli.pc = "idle"
    /\ CanStage(boot, slot, part)
    /\ cli' = [cli EXCEPT !.pc = "save", !.rec = Staged(boot, slot, part)]
    /\ CliOnly

\* prepare-tryboot
PrepareTryboot(apply) ==
    /\ cli.pc = "idle"
    /\ boot.phase = "candidate-staged"
    /\ boot.candPart # None
    /\ apply /\ Renders(boot.kgPart, boot.candPart)
    /\ cli' = [cli EXCEPT !.pc = "autoboot", !.default = boot.kgPart,
                          !.alt = boot.candPart]
    /\ CliOnly

\* reboot-tryboot: begin_candidate_boot, then the reboot unless the budget
\* is exhausted.
BeginCandidateBoot(execute) ==
    /\ cli.pc = "idle"
    /\ CanBegin(boot)
    /\ cli' = [cli EXCEPT !.pc = "save", !.rec = Begun(boot),
                          !.then = IF execute /\ Begun(boot).phase #
                                                   "rollback-required"
                                   THEN "reboot" ELSE "idle"]
    /\ CliOnly

\* accept-current, first load: `before', and whether it has a candidate.
AcceptCurrent(apply) ==
    /\ cli.pc = "idle"
    /\ cli' = [cli EXCEPT !.pc = "accept", !.alt = boot.kgPart,
                          !.then = IF apply /\ boot.candPart # None
                                   THEN "autoboot" ELSE "idle"]
    /\ CliOnly

\* accept_candidate: second load, and the checks on this boot.
AcceptCandidate ==
    /\ cli.pc = "accept"
    /\ cli' = IF CanAccept(boot, running.partition, running.tryboot)
              THEN [cli EXCEPT !.pc = "save", !.rec = Accepted(boot),
                               !.default = boot.candPart]
              ELSE IdleCli
    /\ CliOnly

\* fail-current
FailCurrent ==
    /\ cli.pc = "idle"
    /\ cli' = [cli EXCEPT !.pc = "save", !.rec = Failed(boot)]
    /\ CliOnly

CliSave ==
    /\ cli.pc = "save"
    /\ Save(cli.rec)
    /\ tried' = IF cli.rec.phase = "candidate-staged" THEN 0 ELSE tried
    /\ cli' = IF cli.then = "idle" THEN IdleCli
              ELSE [cli EXCEPT !.pc = cli.then, !.rec = FreshBootState]
    /\ UNCHANGED <<autoboot, running, agentVars, execVars, triggered, sick>>

CliWriteAutoboot ==
    /\ cli.pc = "autoboot"
    /\ autoboot' = IF Renders(cli.default, cli.alt)
                   THEN [default |-> cli.default, try |-> cli.alt]
                   ELSE autoboot
    /\ cli' = IdleCli
    /\ UNCHANGED <<boot, tried, everGood, running, agentVars, execVars,
                   triggered, sick>>

RebootTryboot ==
    /\ cli.pc = "reboot"
    /\ tried' = tried + 1
    /\ Boot(TRUE)

-----------------------------------------------------------------------------
(* resilience_agent.py *)

\* evaluate_once: the counters, the load of the boot state, the recovery
\* request when the threshold is reached.  health.json, which only people
\* read, and the healthy cycles it counts are left out.  The path
\* unit may or may not notice a change made while the executor runs.  The
\* step is atomic: the agent reads the boot state once, and what it writes
\* from a stale copy the executor may as well pick up late.
EvaluateOnce ==
    LET failures == IF sick THEN agent.failures + 1 ELSE 0
        gen      == IF agent.generation < MaxGeneration
                    THEN agent.generation + 1 ELSE agent.generation
    IN  /\ \/ /\ failures >= FailureThreshold
              /\ request' = [generation |-> gen, rollback |-> OnTrial(boot),
                             served |-> FALSE]
              /\ triggered' \in IF exec.pc = "idle" THEN {TRUE}
                                ELSE {TRUE, triggered}
              /\ agent' = [agent EXCEPT !.failures = 0,
                                        !.generation = gen]
           \/ /\ failures < FailureThreshold
              /\ agent' = [agent EXCEPT !.failures = failures]
              /\ UNCHANGED <<request, triggered>>
        /\ UNCHANGED <<bootVars, running, cli, execVars, sick>>

\* systemd restarts the agent (Restart=always, WatchdogSec): its counters
\* and its generation are gone.
AgentRestart ==
    /\ agent.restarts < MaxAgentRestarts
    /\ agent' = [FreshAgent EXCEPT !.restarts = agent.restarts + 1]
    /\ UNCHANGED <<bootVars, running, cli, execVars, request,
                   triggered, sick>>

-----------------------------------------------------------------------------
(* recovery_executor.py *)

\* Mutant: the partition of the slot itself.
OwnPartition(kgSlot) ==
    IF kgSlot = "A" THEN SlotAPartition ELSE SlotBPartition

OtherPartition(kgSlot) ==
    IF kgSlot = "A" THEN SlotBPartition ELSE SlotAPartition

ExecOnly == UNCHANGED <<running, cli, agentVars, sick>>

\* Mutant: any receipt counts, whatever its generation.
AlreadyProcessedAny == receipt > 0

AlreadyProcessed == request.generation <= receipt

\* execute_once: the request, the receipt, the two early returns.
ExecStart ==
    /\ exec.pc = "idle"
    /\ triggered
    /\ triggered' = FALSE
    /\ exec' = IF AlreadyProcessed \/ cooling THEN IdleExec
               ELSE [IdleExec EXCEPT !.pc = "load",
                                     !.generation = request.generation,
                                     !.rollback = request.rollback]
    /\ ExecOnly
    /\ UNCHANGED <<bootVars, receipt, cooling>>

\* The load of the boot state; for a rollback the one in report_failure.
ExecLoad ==
    /\ exec.pc = "load"
    /\ exec' = IF exec.rollback
               THEN [exec EXCEPT !.pc = "save", !.rec = Failed(boot)]
               ELSE [exec EXCEPT !.pc = "autoboot", !.rec = boot]
    /\ ExecOnly
    /\ UNCHANGED <<bootVars, receipt, cooling, triggered>>

ExecSave ==
    /\ exec.pc = "save"
    /\ Save(exec.rec)
    /\ exec' = [exec EXCEPT !.pc = "autoboot"]
    /\ ExecOnly
    /\ UNCHANGED <<autoboot, tried, receipt, cooling, triggered>>

\* Known-good becomes the normal boot; equal partitions raise an error.
ExecWriteAutoboot ==
    LET default == exec.rec.kgPart
        alt     == OtherPartition(exec.rec.kgSlot)
    IN  /\ exec.pc = "autoboot"
        /\ IF Renders(default, alt)
           THEN /\ autoboot' = [default |-> default, try |-> alt]
                /\ exec' = [exec EXCEPT !.pc = "receipt",
                                        !.rec = FreshBootState]
           ELSE /\ exec' = IdleExec
                /\ UNCHANGED autoboot
        /\ ExecOnly
        /\ UNCHANGED <<boot, tried, everGood, receipt, cooling, triggered>>

ExecReceipt ==
    /\ exec.pc = "receipt"
    /\ receipt' = exec.generation
    /\ cooling' = TRUE
    /\ exec' = [exec EXCEPT !.pc = "reboot"]
    /\ request' = [request EXCEPT
                     !.served = @ \/ request.generation = exec.generation]
    /\ UNCHANGED <<bootVars, running, cli, agent, triggered, sick>>

ExecReboot ==
    /\ exec.pc = "reboot"
    /\ Boot(FALSE)
    /\ UNCHANGED tried

-----------------------------------------------------------------------------
(* Environment *)

CooldownElapses ==
    /\ cooling
    /\ cooling' = FALSE
    /\ UNCHANGED <<bootVars, running, cli, exec, receipt, agentVars,
                   triggered, sick>>

\* A required service, the history storage or the kernel check starts to
\* fail.  MaxGeneration bounds how often that leads to a recovery.
BecomeSick ==
    /\ ~sick
    /\ receipt < MaxGeneration
    /\ sick' = TRUE
    /\ UNCHANGED <<bootVars, running, cli, execVars, agentVars, triggered>>

GetWell ==
    /\ sick
    /\ sick' = FALSE
    /\ UNCHANGED <<bootVars, running, cli, execVars, agentVars, triggered>>

\* Power loss, or a reset by the hardware watchdog.
PowerLoss == Boot(FALSE) /\ UNCHANGED tried

CliStep ==
    \/ \E slot \in Slots, part \in Partition : StageCandidate(slot, part)
    \/ \E apply \in ApplyFlags : PrepareTryboot(apply)
    \/ \E execute \in ApplyFlags : BeginCandidateBoot(execute)
    \/ \E apply \in ApplyFlags : AcceptCurrent(apply)
    \/ AcceptCandidate
    \/ FailCurrent
    \/ CliSave
    \/ CliWriteAutoboot
    \/ RebootTryboot

ExecStep ==
    \/ ExecStart
    \/ ExecLoad
    \/ ExecSave
    \/ ExecWriteAutoboot
    \/ ExecReceipt
    \/ ExecReboot

Next ==
    \/ CliStep
    \/ EvaluateOnce
    \/ AgentRestart
    \/ ExecStep
    \/ CooldownElapses
    \/ BecomeSick
    \/ GetWell
    \/ PowerLoss

Spec == Init /\ [][Next]_vars

\* The agent's loop and the executor's steps are never suspended for ever,
\* and a cooldown of at most an hour elapses.
FairSpec ==
    /\ Spec
    /\ WF_vars(EvaluateOnce)
    /\ WF_vars(ExecStep)
    /\ WF_vars(CooldownElapses)

-----------------------------------------------------------------------------
(* Properties *)

\* Files and processes hold the kinds of values the code writes.
TypeOK ==
    /\ boot \in BootStates
    /\ autoboot \in [default : Partition, try : Partition]
    /\ running \in [partition : Partition, tryboot : BOOLEAN]
    /\ cli \in CliTypes
    /\ exec \in ExecTypes
    /\ agent \in AgentTypes
    /\ request \in [generation : 0..MaxGeneration, rollback : BOOLEAN,
                    served : BOOLEAN]
    /\ receipt \in 0..MaxGeneration
    /\ cooling \in BOOLEAN
    /\ triggered \in BOOLEAN
    /\ sick \in BOOLEAN
    /\ tried \in Nat
    /\ everGood \subseteq Partition

\* A boot state that may still be saved: the file, and the stale copies in
\* the hands of the two processes that write it.
ApartFromKnownGood(s) ==
    OnTrial(s) => /\ HasCandidate(s)
                  /\ s.candSlot # s.kgSlot
                  /\ s.candPart # s.kgPart

\* No interleaving of the command line and the executor, no stale save and no
\* reset ever persists a trial whose candidate is the system one would roll
\* back to (boot_guard.py, stage_candidate and its unlocked load and save).
TrialApartFromKnownGood == ApartFromKnownGood(boot)

\* known_good_slot and known_good_partition move together: with one
\* partition per slot the pair on disk is always a slot and its partition, so
\* the executor's write of (known_good_partition, other_partition) cannot
\* fail with "must be distinct" and leave the host without its recovery.
ExecutorAlwaysRenders ==
    exec.pc = "autoboot" =>
        Renders(exec.rec.kgPart, OtherPartition(exec.rec.kgSlot))

\* However the two writers race, reboot-tryboot boots one staged candidate at
\* most max_candidate_attempts times.
TrybootBudget == tried <= MaxCandidateAttempts

\* A trial is contained: what is on trial is apart from what one rolls back to, and
\* is tried no more often than allowed, in files of the right shapes.
TrialIsContained ==
    TypeOK /\ TrialApartFromKnownGood /\ TrybootBudget /\ ExecutorAlwaysRenders

\* autoboot.txt never makes a partition the normal boot that was not accepted
\* at some time (prepare-tryboot, accept-current --apply-autoboot and the
\* executor all write it).
NormalBootWasAccepted == autoboot.default \in everGood

\* A partition becomes known-good for the first time only out of its own
\* tryboot: accept_candidate's checks hold at the save as well as at the load.
AcceptedFromItsTryboot ==
    [][\A p \in everGood' \ everGood :
          running.tryboot /\ running.partition = p]_vars

\* Nothing boots by default, and nothing becomes known-good, that did not prove itself.
TrustIsEarned == []NormalBootWasAccepted /\ AcceptedFromItsTryboot

\* A critical failure that does not go away by itself ends in a reboot: the
\* agent keeps asking until its generation passes the receipt's and the
\* cooldown has elapsed.
SickHostIsRestarted == sick ~> ~sick

\* Documented, and refuted: the executor turns down as already processed only
\* a request it has processed (recovery_executor.py, execute_once).
RefusedOnlyIfServed ==
    [][ExecStart /\ AlreadyProcessed => request.served]_vars

\* Documented, and refuted: the partition of a candidate on trial is never
\* the normal boot (boot_guard.py, accept-current).
NormalBootNotOnTrial ==
    OnTrial(boot) => autoboot.default # boot.candPart

=============

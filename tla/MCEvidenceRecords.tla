---------------------------- MODULE MCEvidenceRecords ---------------------------
(***************************************************************************)
(* What is kept to be believed later, for the run EvidenceRecords: the audit       *)
(* journal, the protected index of physical evidence with the calibrations, the    *)
(* capture agents and the observations of the vehicle, and the readiness of the      *)
(* bench.  The code ties none of them to another, so that it is enough to let one     *)
(* of them, the subject, move while the others stay where they started.                *)
(***************************************************************************)
EXTENDS AuditJournal, PhysicalValidation, HilReadiness

VARIABLE subject

recordVars == <<subject, vars, validationVars, readinessVars>>

Subjects == {"journal", "index", "calibration", "agents", "vehicle", "readiness"}

\* A step of subject s.
Of(s) ==
    /\ subject = s /\ UNCHANGED subject
    /\ s # "journal" => UNCHANGED vars
    /\ s \in {"journal", "readiness"} => UNCHANGED validationVars
    /\ s # "readiness" => UNCHANGED readinessVars

RecordsInit ==
    /\ subject \in Subjects
    /\ Init /\ ValidationInit /\ ReadinessInit
    /\ subject # "index" => backend

RecordsNext ==
    \/ Of("journal") /\ AppendRecord
    \/ Of("journal") /\ ChainStep
    \/ Of("journal") /\ Restart
    \/ Of("index") /\ IndexNext
    \/ Of("calibration") /\ CalibrationNext
    \/ Of("agents") /\ AgentNext
    \/ Of("vehicle") /\ ObservationNext
    \/ Of("readiness") /\ ReadinessNext

\* Every file operation returns, with a result or with an error.
RecordsSpec ==
    RecordsInit /\ [][RecordsNext]_recordVars /\ WF_recordVars(Of("journal") /\ ChainStep)

-----------------------------------------------------------------------------
(* Properties of the run, from those of its parts *)

\* The journal stays one chain of bounded files, and no evidence leaves it but by rotation,
\* without the status showing it.
JournalIsKept == JournalIsOneChain /\ EvidenceIsKept

\* Physical evidence is indexed once, each verdict is independent and of what was
\* captured last, what counts as captured was ready, and what is shown ready is of one
\* build.
EvidenceIsReviewed ==
    /\ ValidationTypeOK
    /\ EvidenceIsIndexedOnce /\ VerdictsAreIndependent /\ CapturesAreReady
    /\ ReadyIsOfOneBuild

\* What has been recorded stands: a corrupt journal is left as it is, registered
\* evidence and an approved calibration do not change, and no scenario becomes ready by
\* a review that is taken back.
RecordsStand == CorruptJournalIsLeftAlone /\ EvidenceStands /\ ReadinessIsEarned

(***************************************************************************)
(* The instance: two scenarios that need different things.                  *)
(***************************************************************************)
MCScenarios == {"can", "camera"}

MCNeeds ==
    [s \in MCScenarios |->
        IF s = "can" THEN [roles |-> {"analyser"}, targets |-> {"computer"}, groups |-> {}]
        ELSE [roles |-> {"display"}, targets |-> {}, groups |-> {"front"}]]
=============================================================================

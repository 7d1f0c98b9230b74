---------------------------- MODULE MCEdgeDevices ---------------------------
(***************************************************************************)
(* The instance of the run EdgeDevices: three programs at the edge, the boot    *)
(* guard of the Pi with one caller at a time, the ESP32 with its spool, and the  *)
(* camera detector.  They share nothing, so that it is enough to let one of        *)
(* them, the device, move while the others stay where they started.                  *)
(***************************************************************************)
EXTENDS BootGuard, EdgeSpool, CameraDetector

VARIABLE device

edgeVars == <<device, vars, spoolVars, cameraVars>>

\* A step of device d.
Of(d) ==
    /\ device = d /\ UNCHANGED device
    /\ d # "boot" => UNCHANGED vars
    /\ d # "spool" => UNCHANGED spoolVars
    /\ d # "camera" => UNCHANGED cameraVars

DevicesInit ==
    /\ device \in {"boot", "spool", "camera"}
    /\ Init /\ SpoolInit /\ CameraInit
    /\ device # "camera" => server /\ thermal = "normal"

DevicesNext ==
    \/ \E slot \in Slots, part \in Partition : Of("boot") /\ StageCandidate(slot, part)
    \/ Of("boot") /\ BeginCandidateBoot
    \/ \E part \in Partition, tryboot \in BOOLEAN :
          Of("boot") /\ AcceptCandidate(part, tryboot)
    \/ Of("boot") /\ ReportFailure
    \/ \E part \in Partition, tryboot \in BOOLEAN :
          Of("boot") /\ RecoverAfterUncleanBoot(part, tryboot)
    \/ Of("spool") /\ DeviceStep
    \/ Of("spool") /\ \E success \in BOOLEAN, removed \in RemoveOutcomes :
          HistoryAnswer(success, removed)
    \/ Of("camera") /\ CaptureStep
    \/ Of("camera") /\ LoopStep
    \/ Of("camera") /\ LeaveLoop
    \/ Of("camera") /\ ProcessExits
    \/ Of("camera") /\ DeviceChanges
    \/ Of("camera") /\ CameraTick

\* FairSpec and CameraFairness: for the spool connectivity has returned and the card
\* works; both threads of the detector are scheduled, and its time passes.
DevicesFairness ==
    /\ SF_edgeVars(Of("spool") /\ DrainStart)
    /\ SF_edgeVars(Of("spool") /\ DrainDiscard)
    /\ SF_edgeVars(Of("spool") /\ HistoryAnswer(TRUE, TRUE))
    /\ WF_edgeVars(Of("spool") /\ Remount)
    /\ WF_edgeVars(Of("camera") /\ CaptureStep)
    /\ WF_edgeVars(Of("camera") /\ LoopStep)
    /\ WF_edgeVars(Of("camera") /\ CameraTick)

DevicesSpec == DevicesInit /\ [][DevicesNext]_edgeVars /\ DevicesFairness

\* BacklogDrainsOrWedges and VisionReturns, for the behaviours in which the spool or the
\* camera detector moves: with connectivity back the backlog drains unless an empty file
\* blocks it, and once camera and engine are well for good, frames are accepted again and
\* again.
DevicesRecover ==
    /\ BacklogDrainsOrWedges
    /\ <>[](device = "camera" /\ Well) => []<>Accepting

\* Ticks of a round of the camera detector, the longer the hotter it is.
MCPeriods == [s \in ThermalStates |->
                CASE s = "hot" -> 3 [] s = "warm" -> 2 [] OTHER -> 1]
=============================================================================

--------------------------- MODULE CameraDetector ---------------------------
(***************************************************************************)
(* The camera detector (edge/camera-detector): a thread reads frames from   *)
(* the camera into a small buffer (detector.py capture_loop, class            *)
(* LatestFrameBuffer) and reopens a camera that fails (class CaptureRecovery); *)
(* the main loop takes the latest frame, infers and posts it once, and then     *)
(* waits as the answer and the temperature demand (class PublishBackoff,         *)
(* ThermalGuard).                                                                 *)
(*                                                                                *)
(* A frame is its age in ticks.  The counters captured, dropped and taken are       *)
(* kept as one number, their balance.                                                *)
(***************************************************************************)
EXTENDS Integers, Sequences

CONSTANTS QueueSize,         \* capacity of the buffer
          MaxFrameAge,       \* --max-frame-age-ms: an older frame is not inferred
          FailureThreshold,  \* failed reads before the camera is reopened
          ReopenBase, ReopenMax,  \* bounds of the delay before a reopening
          BackoffBase, BackoffMax,  \* bounds of the delay after a refused post
          MaxLevel,          \* both levels stop rising here, 8 in the code
          RetryAfters,       \* values of a retry-after header, bounded as in the code
          Periods            \* thermal state -> ticks of one round of the loop

CameraAssumption ==
    /\ {QueueSize, FailureThreshold, MaxLevel} \subseteq Nat \ {0}
    /\ {MaxFrameAge, ReopenMax, BackoffMax} \subseteq Nat
    /\ ReopenBase \in 1..ReopenMax /\ BackoffBase \in 1..BackoffMax
    /\ RetryAfters \subseteq Nat /\ 0 \in RetryAfters
    /\ Periods \in [{"unavailable", "normal", "warm", "hot"} -> Nat]

ASSUME CameraAssumption

\* A fact of arithmetic that the provers do not have.
ASSUME PowersOfTwo == \A level \in 1..MaxLevel : 2 ^ (level - 1) \in Nat \ {0}

VARIABLES camera,    \* external: the device gives frames, and may be opened
          server,    \* external: the engine answers posts with success
          buffer,    \* ages of the frames in the buffer, oldest first
          balance,   \* captured - dropped - taken
          capture,   \* the capture thread: where it is, its delay, its counters
          loop,      \* the main loop: where it is, its frame, delays and counters
          thermal,   \* state of the thermal guard
          quiet,     \* history: ticks for which the engine asked not to be called
          posted     \* history: age of the frame posted last

cameraVars == <<camera, server, buffer, balance, capture, loop, thermal, quiet, posted>>

ThermalStates == {"unavailable", "normal", "warm", "hot"}
Temperatures == {"none", "cool", "mild", "warm", "hot"}

Least(a, b) == IF a < b THEN a ELSE b
Greatest(a, b) == IF a > b THEN a ELSE b

\* An age beyond this is not told from a greater one.
OldFrame == MaxFrameAge + 2
Aged(age) == Least(age + 1, OldFrame)
Rest(delay) == Greatest(delay - 1, 0)

\* min(max, base * 2 ** (level - 1))
Delay(base, max, level) == Least(max, base * 2 ^ (level - 1))

CameraInit ==
    /\ camera = TRUE /\ server \in BOOLEAN
    /\ buffer = <<>> /\ balance = 0
    /\ capture = [at |-> "read", delay |-> 0, failures |-> 0, level |-> 0, open |-> TRUE]
    /\ loop = [at |-> "start", frame |-> 0, delay |-> 0, spent |-> 0, failures |-> 0]
    /\ thermal \in ThermalStates
    /\ quiet = 0 /\ posted = OldFrame + 1

Running == loop.at \notin {"stopping", "stopped"}

-----------------------------------------------------------------------------
(* The capture thread *)

\* Mutant: the buffer is not trimmed before a frame is added.
PushOverfills ==
    /\ buffer' = Append(buffer, 0)
    /\ balance' = balance + 1

\* LatestFrameBuffer.push on an open buffer: the oldest frames make room.
Push ==
    LET excess == Greatest(0, Len(buffer) + 1 - QueueSize)
    IN  /\ buffer' = Append(SubSeq(buffer, excess + 1, Len(buffer)), 0)
        /\ balance' = balance + 1 - excess

\* A read gives a frame; recovery.success().
ReadFrame ==
    /\ capture.at = "read" /\ capture.open /\ camera /\ Running
    /\ capture' = [at |-> "next", delay |-> capture.delay, failures |-> 0, level |-> 0,
                   open |-> capture.open]
    /\ Push
    /\ UNCHANGED <<camera, server, loop, thermal, quiet, posted>>

\* Mutant: a failed read below the threshold also raises the backoff, and the count
\* of failures is never reset by it.
ReadFailsAndKeepsCounting ==
    /\ capture.at = "read" /\ ~(capture.open /\ camera) /\ Running
    /\ capture' = [capture EXCEPT !.at = "next",
                                  !.failures = Least(FailureThreshold - 1, @ + 1)]
    /\ UNCHANGED <<camera, server, buffer, balance, loop, thermal, quiet, posted>>

\* A read fails; recovery.read_failure() says when to give the camera up, which is
\* released and reopened after a delay.
ReadFails ==
    /\ capture.at = "read" /\ ~(capture.open /\ camera) /\ Running
    /\ IF capture.failures + 1 < FailureThreshold
       THEN capture' = [at |-> "next", delay |-> capture.delay,
                        failures |-> capture.failures + 1, level |-> capture.level,
                        open |-> capture.open]
       ELSE LET level == Least(MaxLevel, capture.level + 1)
            IN  capture' = [at |-> "reopen", failures |-> 0, level |-> level,
                            delay |-> Delay(ReopenBase, ReopenMax, level), open |-> FALSE]
    /\ UNCHANGED <<camera, server, buffer, balance, loop, thermal, quiet, posted>>

\* capture.open(source) after the delay; recovery.reconnect_result(opened).
Reopen ==
    /\ capture.at = "reopen" /\ capture.delay = 0 /\ Running
    /\ capture' = [at |-> "next", delay |-> capture.delay, failures |-> capture.failures,
                   level |-> IF camera THEN 0 ELSE capture.level, open |-> camera]
    /\ UNCHANGED <<camera, server, buffer, balance, loop, thermal, quiet, posted>>

\* The thread sees that it should stop: the event is set, or the buffer closed.
CaptureEnds ==
    /\ ~Running /\ capture.at # "ended"
    /\ capture' = [capture EXCEPT !.at = "ended"]
    /\ UNCHANGED <<camera, server, buffer, balance, loop, thermal, quiet, posted>>

-----------------------------------------------------------------------------
(* The main loop *)

\* ThermalGuard.observe: a hot or warm unit is normal again only once it is cool.
Observed(state, temperature) ==
    IF temperature = "none" THEN "unavailable"
    ELSE IF temperature \in {"warm", "hot"} THEN temperature
    ELSE IF temperature = "mild" /\ state \in {"warm", "hot"} THEN state
    ELSE "normal"

\* A round begins; the temperature is sampled when its interval is over.
StartRound ==
    /\ loop.at = "start"
    /\ \/ UNCHANGED thermal
       \/ \E t \in Temperatures : thermal' = Observed(thermal, t)
    /\ loop' = [at |-> "take", frame |-> loop.frame, delay |-> loop.delay, spent |-> 0,
                failures |-> loop.failures]
    /\ UNCHANGED <<camera, server, buffer, balance, capture, quiet, posted>>

\* Mutant: get_latest leaves the frames that are older than the one it returns.
TakeLatestLeavesOthers ==
    /\ loop.at = "take" /\ buffer # <<>>
    /\ loop' = [loop EXCEPT !.at = IF buffer[1] > MaxFrameAge THEN "start" ELSE "infer",
                            !.frame = buffer[Len(buffer)]]
    /\ buffer' = SubSeq(buffer, 1, Len(buffer) - 1)
    /\ balance' = balance - 1
    /\ UNCHANGED <<camera, server, capture, thermal, quiet, posted>>

\* get_latest: the newest frame, the others are dropped; a stale one is skipped.
TakeLatest ==
    /\ loop.at = "take" /\ buffer # <<>>
    /\ LET latest == buffer[Len(buffer)]
       IN  loop' = [at |-> IF latest > MaxFrameAge THEN "start" ELSE "infer", frame |-> latest,
                    delay |-> loop.delay, spent |-> loop.spent, failures |-> loop.failures]
    /\ buffer' = <<>>
    /\ balance' = balance - Len(buffer)
    /\ UNCHANGED <<camera, server, capture, thermal, quiet, posted>>

\* get_latest gives up after its timeout, which is a tick or more.
TakeTimesOut ==
    /\ loop.at = "take" /\ buffer = <<>> /\ loop.spent > 0
    /\ loop' = [loop EXCEPT !.at = "start"]
    /\ UNCHANGED <<camera, server, buffer, balance, capture, thermal, quiet, posted>>

\* frame_payload, signing, and session.post.
PostFrame ==
    /\ loop.at = "infer"
    /\ loop' = [loop EXCEPT !.at = "answer"]
    /\ posted' = loop.frame
    /\ UNCHANGED <<camera, server, buffer, balance, capture, thermal, quiet>>

\* PublishBackoff.delay_for, for a refusal other than of the frame itself.
RefusedLevel == Least(MaxLevel, loop.failures + 1)

RefusalDelay(retry) ==
    Greatest(Delay(BackoffBase, BackoffMax, RefusedLevel), retry)

\* 2xx
PostAccepted ==
    /\ loop.at = "answer" /\ server
    /\ loop' = [at |-> "rest", frame |-> loop.frame, delay |-> 0, spent |-> loop.spent,
                failures |-> 0]
    /\ UNCHANGED <<camera, server, buffer, balance, capture, thermal, quiet, posted>>

\* 409: this frame is not wanted, the next one may be.
FrameRefused ==
    /\ loop.at = "answer" /\ ~server
    /\ loop' = [at |-> "rest", frame |-> loop.frame, delay |-> 0, spent |-> loop.spent,
                failures |-> loop.failures]
    /\ UNCHANGED <<camera, server, buffer, balance, capture, thermal, quiet, posted>>

\* 429, 401, 403, 5xx, any other status, or no answer: only a 429 asks for a delay.
PostRefused(retry) ==
    /\ loop.at = "answer" /\ ~server
    /\ loop' = [at |-> "rest", frame |-> loop.frame, delay |-> RefusalDelay(retry),
                spent |-> loop.spent, failures |-> RefusedLevel]
    /\ quiet' = retry
    /\ UNCHANGED <<camera, server, buffer, balance, capture, thermal, posted>>

\* The delay is over, and the round has lasted its period.
EndRound ==
    /\ loop.at = "rest" /\ loop.delay = 0 /\ loop.spent >= Periods[thermal]
    /\ loop' = [loop EXCEPT !.at = "start"]
    /\ UNCHANGED <<camera, server, buffer, balance, capture, thermal, quiet, posted>>

\* An exception or an interrupt leaves the loop: the event is set, the buffer closed
\* and emptied, the camera released.
LeaveLoop ==
    /\ Running
    /\ loop' = [loop EXCEPT !.at = "stopping"]
    /\ buffer' = <<>> /\ balance' = balance - Len(buffer)
    /\ UNCHANGED <<camera, server, capture, thermal, quiet, posted>>

\* capture_thread.join: the thread ended, or the wait did; the process exits.
ProcessExits ==
    /\ loop.at = "stopping"
    /\ loop' = [loop EXCEPT !.at = "stopped"]
    /\ UNCHANGED <<camera, server, buffer, balance, capture, thermal, quiet, posted>>

-----------------------------------------------------------------------------
(* The world *)

\* A camera that comes back may need to be opened again.
DeviceChanges ==
    /\ Running
    /\ \/ /\ camera' = ~camera
          /\ \E open \in {capture.open, capture.open /\ ~camera} :
                capture' = [capture EXCEPT !.open = open]
          /\ UNCHANGED server
       \/ server' = ~server /\ UNCHANGED <<camera, capture>>
    /\ UNCHANGED <<buffer, balance, loop, thermal, quiet, posted>>

\* Inference and posting last any number of ticks; reading a frame, and taking one
\* that is there, last less than a tick.
CameraTick ==
    /\ Running
    /\ capture.at # "read" /\ ~(capture.at = "reopen" /\ capture.delay = 0)
    /\ loop.at = "take" => buffer = <<>>
    /\ loop.at # "start"
    /\ buffer' = [i \in DOMAIN buffer |-> Aged(buffer[i])]
    /\ capture' = [at |-> IF capture.at = "next" THEN "read" ELSE capture.at,
                   delay |-> Rest(capture.delay), failures |-> capture.failures,
                   level |-> capture.level, open |-> capture.open]
    /\ loop' = [at |-> loop.at, frame |-> Aged(loop.frame), delay |-> Rest(loop.delay),
                spent |-> Least(loop.spent + 1, Periods[thermal]), failures |-> loop.failures]
    /\ quiet' = Rest(quiet)
    /\ posted' = Least(posted + 1, OldFrame + 1)
    /\ UNCHANGED <<camera, server, balance, thermal>>

CaptureStep == ReadFrame \/ ReadFails \/ Reopen \/ CaptureEnds
LoopStep ==
    \/ StartRound \/ TakeLatest \/ TakeTimesOut \/ PostFrame
    \/ PostAccepted \/ FrameRefused \/ \E r \in RetryAfters : PostRefused(r)
    \/ EndRound

CameraNext == CaptureStep \/ LoopStep \/ LeaveLoop \/ ProcessExits
              \/ DeviceChanges \/ CameraTick

\* Both threads are scheduled, calls return or time out, and time passes.
CameraFairness ==
    /\ WF_cameraVars(CaptureStep)
    /\ WF_cameraVars(LoopStep)
    /\ WF_cameraVars(CameraTick)

CameraSpec == CameraInit /\ [][CameraNext]_cameraVars /\ CameraFairness

-----------------------------------------------------------------------------
(* Properties *)

CameraTypeOK ==
    /\ {camera, server} \subseteq BOOLEAN
    /\ buffer \in Seq(0..OldFrame)
    /\ capture \in [at : {"read", "next", "reopen", "ended"}, delay : 0..ReopenMax,
                    failures : 0..(FailureThreshold - 1), level : 0..MaxLevel,
                    open : BOOLEAN]
    /\ loop.at \in {"start", "take", "infer", "answer", "rest", "stopping", "stopped"}
    /\ loop.frame \in 0..OldFrame /\ loop.failures \in 0..MaxLevel
    /\ thermal \in ThermalStates
    /\ quiet \in Nat /\ posted \in 0..(OldFrame + 1)

\* Each captured frame is dropped and counted, taken once, or waiting in a buffer that
\* never holds more than its capacity, its frames in the order of capture
\* (frame_runtime.py; runtime_report prints the counters).
FramesAreAccounted ==
    /\ CameraTypeOK
    /\ balance = Len(buffer) /\ Len(buffer) <= QueueSize
    /\ \A i, j \in DOMAIN buffer : i < j => buffer[i] >= buffer[j]

\* A frame is posted at most once and in the order of capture, whatever the answer
\* to it was or whether one came ("never retry the same signed payload",
\* publisher_runtime.py).
PostedOnceInOrder == [][PostFrame => loop.frame < posted]_cameraVars

\* The engine is not called before the time it asked for is over.
RetryAfterIsKept == loop.at = "answer" => quiet = 0

\* What the detector owes its frames and the engine.
DetectorIsSound == FramesAreAccounted /\ RetryAfterIsKept

Well == camera /\ server /\ Running
Accepting == loop.at = "rest" /\ loop.failures = 0

\* Once camera and engine are well for good, frames are accepted again and again,
\* however the camera was lost before and whatever the backoff had come to.
VisionReturns == <>[]Well => []<>Accepting

=============================================================================

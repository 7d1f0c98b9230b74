------------------------------- MODULE HmiLink -------------------------------
(***************************************************************************)
(* The stream from the risk engine to the browser: the effect of              *)
(* useRealtimeTelemetry (apps/hmi/lib/realtime.ts) with its timers and          *)
(* socket events, the session guard of realtime-health.ts, and the stream,      *)
(* heartbeat and publish of server.ts at the other end.  The page stays         *)
(* mounted.  Ages are counted in ticks and end one above their limit.           *)
(***************************************************************************)
EXTENDS Naturals, Sequences

CONSTANTS Ids,               \* the sockets that may exist at once (a bound)
          TelemetryLimit,    \* 2500 ms
          HeartbeatLimit,    \* 5000 ms
          SessionAnswers,    \* a subset of {"ready", "retryable", "unavailable"}
          MaxBoot, MaxSequence, MaxQueue,   \* bounds on what the server sends
          MaxTroubles        \* a bound on what goes wrong

ASSUME LinkAssumption ==
    /\ 0 \notin Ids
    /\ TelemetryLimit \in Nat /\ HeartbeatLimit \in Nat
    /\ SessionAnswers \subseteq {"ready", "retryable", "unavailable"}
    /\ MaxBoot \in Nat \ {0} /\ MaxSequence \in Nat
    /\ MaxQueue \in Nat \ {0} /\ MaxTroubles \in Nat

NoSocket == 0
NoFrame == <<0, 0>>        \* boots are numbered from one

VARIABLES state,           \* what the page shows of the link
          socket,          \* the variable of the effect: a socket or NoSocket
          ready,           \* readyState of each socket; "none" if it does not exist
          mute,            \* half-open sockets: open here, gone at the server
          connecting, retryTimer, sessionUnavailable,
          telemetryAge, heartbeatAge,
          shown,           \* the last frame accepted, <<boot, sequence>>
          online,          \* navigator.onLine
          up, latest,      \* the server, and the frame it would send to a new client
          queue,           \* the frames on their way to each socket
          troubles,
          doubled          \* history: two sockets have been open at once

pageVars == <<state, socket, connecting, retryTimer, sessionUnavailable,
              telemetryAge, heartbeatAge, shown>>
netVars == <<ready, mute, queue, doubled>>
linkVars == <<pageVars, netVars, online, up, latest, troubles>>

Opened(r) == {s \in Ids : r[s] = "open"}

Trouble == troubles < MaxTroubles /\ troubles' = troubles + 1

(***************************************************************************)
(* connect(): up to its await, and what follows the answer to the session.    *)
(***************************************************************************)
Connect ==
    IF sessionUnavailable \/ connecting THEN UNCHANGED <<state, connecting>>
    ELSE IF ~online THEN state' = "offline" /\ UNCHANGED connecting
    ELSE IF socket # NoSocket /\ ready[socket] \in {"open", "connecting"}
    THEN UNCHANGED <<state, connecting>>
    ELSE connecting' = TRUE /\ state' = "connecting"

RetryFires ==
    /\ retryTimer /\ retryTimer' = FALSE
    /\ Connect
    /\ UNCHANGED <<socket, sessionUnavailable, telemetryAge, heartbeatAge, shown,
                   netVars, online, up, latest, troubles>>

\* scheduleReconnect; the delay grows, but ends.
Scheduled == retryTimer \/ ~sessionUnavailable

SessionAnswered(answer) ==
    /\ connecting /\ connecting' = FALSE
    /\ answer = "ready" => up /\ online
    /\ answer = "unavailable" => up
    /\ \/ /\ answer = "ready"
          /\ \E s \in Ids :
                /\ ready[s] = "none"
                /\ ready' = [ready EXCEPT ![s] = "connecting"]
                /\ socket' = s
          /\ UNCHANGED <<state, retryTimer, sessionUnavailable>>
       \/ /\ answer = "retryable"
          /\ up /\ online => "ready" \notin SessionAnswers \/ troubles < MaxTroubles
          /\ state' = "offline" /\ retryTimer' = Scheduled
          /\ UNCHANGED <<socket, ready, sessionUnavailable>>
       \/ /\ answer = "unavailable"
          /\ sessionUnavailable' = TRUE /\ state' = "disabled"
          /\ UNCHANGED <<socket, ready, retryTimer>>
    /\ troubles' = IF answer = "retryable" /\ up /\ online THEN troubles + 1 ELSE troubles
    /\ UNCHANGED <<telemetryAge, heartbeatAge, shown, mute, queue, doubled, online, up, latest>>

(***************************************************************************)
(* Socket events.                                                          *)
(***************************************************************************)
\* The server adds the client and sends it the current envelope.
SocketOpens(s) ==
    /\ ready[s] = "connecting" /\ up /\ online
    /\ ready' = [ready EXCEPT ![s] = "open"]
    /\ queue' = [queue EXCEPT ![s] = <<latest>>]
    /\ heartbeatAge' = 0
    /\ doubled' = (doubled \/ \E t \in Opened(ready) \ mute : t # s)
    /\ UNCHANGED <<state, socket, connecting, retryTimer, sessionUnavailable, telemetryAge,
                   shown, mute, online, up, latest, troubles>>

\* observeTelemetry: a new session takes any sequence, the same one none that is lower.
\* Mutant: frames are taken as they come.
AcceptsAsTheyCome(f) == f # NoFrame

Accepts(f) == f[1] # shown[1] \/ f[2] >= shown[2]

FrameArrives(s) ==
    /\ ready[s] = "open" /\ queue[s] # << >>
    /\ queue' = [queue EXCEPT ![s] = Tail(@)]
    /\ heartbeatAge' = 0
    /\ IF Accepts(Head(queue[s]))
       THEN shown' = Head(queue[s]) /\ state' = "live" /\ telemetryAge' = 0
       ELSE UNCHANGED <<shown, state, telemetryAge>>
    /\ UNCHANGED <<socket, connecting, retryTimer, sessionUnavailable, ready, mute, doubled,
                   online, up, latest, troubles>>

HeartbeatArrives(s) ==
    /\ ready[s] = "open" /\ s \notin mute /\ up /\ online
    /\ heartbeatAge > 0 /\ heartbeatAge' = 0
    /\ UNCHANGED <<state, socket, connecting, retryTimer, sessionUnavailable, telemetryAge,
                   shown, netVars, online, up, latest, troubles>>

\* onclose clears the variable, whichever socket it is of.
\* Mutant: the variable keeps the closed socket.
KeepsOnClose(s) == socket

AfterClose(s) == NoSocket

\* onerror comes before onclose and sets the same state.
SocketCloses(s) ==
    /\ ready[s] = "closing"
    /\ ready' = [ready EXCEPT ![s] = "none"]
    /\ mute' = mute \ {s} /\ queue' = [queue EXCEPT ![s] = << >>]
    /\ socket' = AfterClose(s)
    /\ state' = "offline" /\ retryTimer' = Scheduled
    /\ UNCHANGED <<connecting, sessionUnavailable, telemetryAge, heartbeatAge, shown, doubled,
                   online, up, latest, troubles>>

(***************************************************************************)
(* Events of the window and the freshness timer.                             *)
(***************************************************************************)
Closing(r, S) == [s \in Ids |-> IF s \in S /\ r[s] # "none" THEN "closing" ELSE r[s]]

GoesOffline ==
    /\ Trouble
    /\ online /\ online' = FALSE
    /\ state' = IF sessionUnavailable THEN state ELSE "offline"
    /\ ready' = Closing(ready, {socket})
    /\ UNCHANGED <<socket, connecting, retryTimer, sessionUnavailable, telemetryAge,
                   heartbeatAge, shown, mute, queue, doubled, up, latest>>

\* Mutant: the page does not listen for it.
ComesOnlineUnheard ==
    /\ ~online /\ online' = TRUE
    /\ UNCHANGED <<pageVars, netVars, up, latest, troubles>>

\* The window is online again before the handler runs connect().
ComesOnline ==
    /\ ~online /\ online' = TRUE
    /\ IF sessionUnavailable \/ connecting
          \/ (socket # NoSocket /\ ready[socket] \in {"open", "connecting"})
       THEN UNCHANGED <<state, connecting>>
       ELSE connecting' = TRUE /\ state' = "connecting"
    /\ UNCHANGED <<socket, retryTimer, sessionUnavailable, telemetryAge, heartbeatAge, shown,
                   netVars, up, latest, troubles>>

\* Mutant: only telemetry is asked for, as if a heartbeat were telemetry.
ShownByHeartbeat == IF heartbeatAge > HeartbeatLimit THEN "offline" ELSE "live"

ShownByAge ==
    IF heartbeatAge > HeartbeatLimit THEN "offline"
    ELSE IF telemetryAge > TelemetryLimit THEN "stale" ELSE "live"

FreshnessTimer ==
    /\ ~sessionUnavailable
    /\ state # ShownByAge /\ state' = ShownByAge
    /\ UNCHANGED <<socket, connecting, retryTimer, sessionUnavailable, telemetryAge,
                   heartbeatAge, shown, netVars, online, up, latest, troubles>>

Tick ==
    /\ telemetryAge <= TelemetryLimit \/ heartbeatAge <= HeartbeatLimit
    /\ telemetryAge' = IF telemetryAge <= TelemetryLimit THEN telemetryAge + 1 ELSE telemetryAge
    /\ heartbeatAge' = IF heartbeatAge <= HeartbeatLimit THEN heartbeatAge + 1 ELSE heartbeatAge
    /\ UNCHANGED <<state, socket, connecting, retryTimer, sessionUnavailable, shown, netVars,
                   online, up, latest, troubles>>

(***************************************************************************)
(* The server and the network.                                               *)
(***************************************************************************)
\* publish() after a packet of the device, whose sequence rises, or after a legacy GNSS
\* sample, which counts on from the last frame: the next packet may be behind it.  The
\* device may also have started again.
Publish(frame) ==
    /\ up
    /\ \/ frame[1] = latest[1]
       \/ frame = <<latest[1] + 1, 0>>
    /\ frame[1] <= MaxBoot /\ frame[2] <= MaxSequence
    /\ Opened(ready) \ mute # {} /\ \A s \in Ids : Len(queue[s]) < MaxQueue
    /\ latest' = frame
    /\ queue' = [s \in Ids |-> IF s \in Opened(ready) \ mute THEN Append(queue[s], frame)
                               ELSE queue[s]]
    /\ UNCHANGED <<pageVars, ready, mute, doubled, online, up, troubles>>

\* A stopped server takes its connections with it; the browser learns of some.
ServerStops(S) ==
    /\ Trouble /\ up /\ up' = FALSE
    /\ S \subseteq {s \in Ids : ready[s] \in {"connecting", "open"}}
    /\ {s \in Ids : ready[s] = "connecting"} \subseteq S
    /\ ready' = Closing(ready, S)
    /\ mute' = mute \cup (Opened(ready) \ S)
    /\ queue' = [s \in Ids |-> << >>]
    /\ UNCHANGED <<pageVars, online, latest, doubled>>

ServerStarts == ~up /\ up' = TRUE /\ UNCHANGED <<pageVars, netVars, online, latest, troubles>>

\* The session of the viewer expires, or a connection breaks.
ServerCloses(s) ==
    /\ Trouble
    /\ ready[s] \in {"connecting", "open"}
    /\ ready' = Closing(ready, {s})
    /\ UNCHANGED <<pageVars, mute, queue, doubled, online, up, latest>>

\* The effect has run connect() up to its await.
LinkInit ==
    /\ online \in BOOLEAN /\ up \in BOOLEAN
    /\ connecting = online /\ state = IF online THEN "connecting" ELSE "offline"
    /\ socket = NoSocket /\ ready = [s \in Ids |-> "none"]
    /\ mute = {} /\ retryTimer = FALSE /\ sessionUnavailable = FALSE
    /\ telemetryAge = TelemetryLimit + 1 /\ heartbeatAge = HeartbeatLimit + 1
    /\ shown = NoFrame
    /\ latest = <<1, 0>> /\ queue = [s \in Ids |-> << >>]
    /\ troubles = 0 /\ doubled = FALSE

Frames == (1..MaxBoot) \X (0..MaxSequence)

LinkNext ==
    \/ RetryFires
    \/ \E a \in SessionAnswers : SessionAnswered(a)
    \/ \E s \in Ids : SocketOpens(s)
    \/ \E s \in Ids : FrameArrives(s)
    \/ \E s \in Ids : HeartbeatArrives(s)
    \/ \E s \in Ids : SocketCloses(s)
    \/ GoesOffline
    \/ ComesOnline
    \/ FreshnessTimer
    \/ Tick
    \/ \E f \in Frames : Publish(f)
    \/ \E S \in SUBSET Ids : ServerStops(S)
    \/ ServerStarts
    \/ \E s \in Ids : ServerCloses(s)

\* The browser runs its timers and delivers the events of a socket; the network and
\* the server come back and answer.
LinkFairness ==
    /\ WF_linkVars(RetryFires) /\ WF_linkVars(FreshnessTimer)
    /\ WF_linkVars(\E a \in SessionAnswers : SessionAnswered(a))
    /\ \A s \in Ids : /\ WF_linkVars(SocketOpens(s)) /\ WF_linkVars(SocketCloses(s))
                      /\ WF_linkVars(FrameArrives(s))
    /\ WF_linkVars(ComesOnline) /\ WF_linkVars(ServerStarts)
    /\ WF_linkVars(Tick)

LinkSpec == LinkInit /\ [][LinkNext]_linkVars /\ LinkFairness

(***************************************************************************)
(* Properties.                                                             *)
(***************************************************************************)
\* Every variable has its type; nothing is on its way to, or kept of, a socket that is
\* gone.
LinkTypeOK ==
    /\ state \in {"disabled", "connecting", "live", "stale", "offline"}
    /\ socket \in Ids \cup {NoSocket}
    /\ ready \in [Ids -> {"none", "connecting", "open", "closing"}]
    /\ {connecting, retryTimer, sessionUnavailable, online, up, doubled} \subseteq BOOLEAN
    /\ telemetryAge \in 0..TelemetryLimit + 1 /\ heartbeatAge \in 0..HeartbeatLimit + 1
    /\ shown \in Frames \cup {NoFrame} /\ latest \in Frames
    /\ queue \in [Ids -> Seq(Frames)]
    /\ \A s \in Ids : queue[s] # << >> => ready[s] \in {"open", "closing"}
    /\ socket # NoSocket => ready[socket] # "none"
    /\ mute \subseteq {s \in Ids : ready[s] \in {"open", "closing"}}

After(f, g) == f[1] > g[1] \/ (f[1] = g[1] /\ f[2] >= g[2])

\* The page never goes back to an earlier frame, over reconnections, restarts of the
\* server and restarts of the device, as long as no two sockets were open at once.
FramesFollow == [][After(shown', shown) \/ doubled]_linkVars

\* The device goes on reporting: its sequence, which it counts up, passes any other
\* (here: it comes to MaxSequence).
DeviceReports == SF_linkVars(\E b \in 1..MaxBoot : Publish(<<b, MaxSequence>>))

\* After the last trouble the page is live again and again as long as the device
\* reports, unless the session was refused for good or the server no longer has a
\* socket that is open here.
LinkRecovers == DeviceReports => []<>(state = "live" \/ sessionUnavailable \/ mute # {})

\* A page whose frames have stopped coming does not stay live, heartbeats or not,
\* unless the session was refused: the freshness timer has stopped then, while a socket
\* that onclose has lost sight of may still deliver.
StaleIsShown == []<>(state # "live" \/ telemetryAge <= TelemetryLimit \/ sessionUnavailable)
=============================================================================

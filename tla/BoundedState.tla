----------------------------- MODULE BoundedState ---------------------------
(***************************************************************************)
(* The two bounded stores of bounded-state.ts: the rate limiter in front of  *)
(* every route and the timestamps of the legacy streams.  Each keeps a        *)
(* record for some of the keys; at its capacity it first drops what has       *)
(* expired and then refuses a new key.                                        *)
(***************************************************************************)
EXTENDS Clock, Sequences, FiniteSets

CONSTANTS Keys, MaxKeys,
          RateLimit, RateWindow,
          MaxPast, MaxFuture, StreamTTL

ASSUME BoundedStateAssumption ==
    /\ MaxKeys \in Nat \ {0} /\ RateLimit \in Nat \ {0} /\ RateWindow \in Nat \ {0}
    /\ MaxPast \in Nat /\ MaxFuture \in Nat
    /\ StreamTTL \in Nat /\ StreamTTL > MaxPast + MaxFuture

VARIABLES windows,     \* the limiter: a window of calls for some keys
          streams,     \* the timestamp store: an entry for some keys
          calls,       \* history: per key, the times at which calls were allowed
          frames       \* history: per key, the timestamps accepted

boundedVars == <<now, windows, streams, calls, frames>>

Full(f) == Cardinality(DOMAIN f) >= MaxKeys
Only(f, S) == [k \in S |-> f[k]]
Stored(f, k, entry) == [j \in DOMAIN f \cup {k} |-> IF j = k THEN entry ELSE f[j]]

(***************************************************************************)
(* BoundedFixedWindowRateLimiter.consume.                                    *)
(***************************************************************************)
Running(w) == now - w.started < RateWindow

\* The expired window of the caller goes; at capacity, those of the others too.
Swept(k) ==
    LET others == Only(windows, DOMAIN windows \ {k})
    IN  IF Full(others) THEN Only(others, {j \in DOMAIN others : Running(others[j])})
        ELSE others

Consume(k) ==
    /\ IF k \in DOMAIN windows /\ Running(windows[k])
       THEN /\ windows[k].count < RateLimit
            /\ windows' = [windows EXCEPT ![k].count = @ + 1]
            /\ calls' = [calls EXCEPT ![k] = Append(@, now)]
       ELSE IF Full(Swept(k))
       THEN windows' = Swept(k) /\ UNCHANGED calls
       ELSE /\ windows' = Stored(Swept(k), k, [started |-> now, count |-> 1])
            /\ calls' = [calls EXCEPT ![k] = Append(@, now)]
    /\ UNCHANGED <<now, streams, frames>>

(***************************************************************************)
(* BoundedMonotonicTimestampStore.accept, behind acceptLegacyTimestamp.      *)
(***************************************************************************)
Fresh(e) == now - e.seen < StreamTTL

AcceptFrame(k, t) ==
    LET kept == IF k \notin DOMAIN streams /\ Full(streams)
                THEN Only(streams, {j \in DOMAIN streams : Fresh(streams[j])})
                ELSE streams
    IN  /\ t <= now + MaxFuture /\ now - t <= MaxPast
        /\ k \in DOMAIN streams => t > streams[k].timestamp
        /\ IF k \notin DOMAIN streams /\ Full(kept)
           THEN streams' = kept /\ UNCHANGED frames
           ELSE /\ streams' = Stored(kept, k, [timestamp |-> t, seen |-> now])
                /\ frames' = [frames EXCEPT ![k] = Append(@, t)]
        /\ UNCHANGED <<now, windows, calls>>

BoundedTick == Pass /\ UNCHANGED <<windows, streams, calls, frames>>

BoundedInit ==
    /\ now = 0
    /\ windows = [k \in {} |-> {}] /\ streams = [k \in {} |-> {}]
    /\ calls = [k \in Keys |-> << >>] /\ frames = [k \in Keys |-> << >>]

BoundedNext ==
    \/ \E k \in Keys : Consume(k)
    \/ \E k \in Keys, t \in 0..MaxTime : AcceptFrame(k, t)
    \/ BoundedTick

BoundedSpec == BoundedInit /\ [][BoundedNext]_boundedVars

(***************************************************************************)
(* Properties.                                                             *)
(***************************************************************************)
BoundedTypeOK ==
    /\ DOMAIN windows \subseteq Keys /\ DOMAIN streams \subseteq Keys
    /\ \A k \in DOMAIN windows :
          windows[k].started \in Nat /\ windows[k].count \in 1..RateLimit
    /\ \A k \in DOMAIN streams :
          streams[k].timestamp \in Int /\ streams[k].seen \in Nat
    /\ Cardinality(DOMAIN windows) <= MaxKeys /\ Cardinality(DOMAIN streams) <= MaxKeys

\* However calls fall on the windows, and although windows are swept and
\* replaced, no stretch of one window length carries more than twice the limit:
\* a call comes a window length or more after the one 2 * RateLimit before it.
RateIsBounded ==
    \A k \in Keys : \A i \in DOMAIN calls[k] :
        i + 2 * RateLimit \in DOMAIN calls[k] =>
            calls[k][i + 2 * RateLimit] - calls[k][i] >= RateWindow

\* A legacy stream is never taken back and no frame is used twice, although its
\* entry may be swept while the store is full and the frame may come again.
FramesRise ==
    \A k \in Keys : \A i, j \in DOMAIN frames[k] :
        i < j => frames[k][i] < frames[k][j]
=============================================================================

---------------------------- MODULE AlertPipeline ---------------------------
(***************************************************************************)
(* What publish() of the risk engine does with the alerts of a frame       *)
(* (services/risk-engine/src): class AlertStabilizer smooths them over time *)
(* (alert-stabilizer.ts), and class EdgeEventBuffer keeps those it has not *)
(* seen as events (event-buffer.ts).                                       *)
(*                                                                         *)
(* An alert is its stable key and its severity.  Two alerts of one frame   *)
(* may have the same key: stableKey folds a title to lower-case ASCII      *)
(* letters and digits, so that two geofences may share one.  A time is     *)
(* kept as its age, and an age beyond the longest hold is not counted on.  *)
(***************************************************************************)
EXTENDS Naturals, SequencesExt

CONSTANTS Keys,           \* values of stableKey
          Hold,           \* HOLD_MS, in ticks
          DowngradeHold,  \* DOWNGRADE_HOLD_MS, in ticks
          Capacity,       \* capacity of the event buffer
          SeenFactor,     \* seen is rebuilt beyond capacity * SeenFactor
          MaxAlerts       \* bound: alerts in a frame

ASSUME PipelineAssumption ==
    /\ {Hold, DowngradeHold, MaxAlerts} \subseteq Nat
    /\ {Capacity, SeenFactor} \subseteq Nat \ {0}

VARIABLES active,    \* the stabilizer's map: key -> severity and ages
          records,   \* the event buffer, newest first
          seen,      \* its dedupe keys
          raw,       \* history: the alerts just published, see Unshared
          logged,    \* history: events ever created
          sighted,   \* history: age of the last raw alert of a key
          lowered    \* history: age of its last downgrade

alertVars == <<active, records, seen, raw, logged, sighted, lowered>>

Severities == {"caution", "critical"}
Alerts == [key : Keys, severity : Severities]

LongAgo == Hold + DowngradeHold + 1
Older(age) == IF age < LongAgo THEN age + 1 ELSE age

Below(s, t) == s = "caution" /\ t = "critical"

\* What buildLocationAlerts returns: the most severe alerts first.
Frames ==
    {frame \in BoundedSeq(Alerts, MaxAlerts) :
        \A i, j \in DOMAIN frame :
            i < j => ~Below(frame[i].severity, frame[j].severity)}

AlertInit ==
    /\ active = <<>>
    /\ records = <<>>
    /\ seen = {}
    /\ raw = {}
    /\ logged = {}
    /\ sighted = [k \in Keys |-> LongAgo]
    /\ lowered = [k \in Keys |-> LongAgo]

-----------------------------------------------------------------------------
(* AlertStabilizer *)

\* Mutant: the hold applies to an escalation as well.
HeldEitherWay(previous, next) ==
    next.severity # previous.severity /\ previous.changed < DowngradeHold

\* A downgrade is not shown until DowngradeHold after the last change.
Held(previous, next) ==
    /\ Below(next.severity, previous.severity)
    /\ previous.changed < DowngradeHold

\* Mutant: a change of severity does not restart the hold.
SmoothedKeepsAge(previous, next) ==
    IF Held(previous, next) THEN [previous EXCEPT !.age = 0]
    ELSE [severity |-> next.severity, age |-> 0, changed |-> previous.changed]

Smoothed(previous, next) ==
    IF Held(previous, next) THEN [previous EXCEPT !.age = 0]
    ELSE [severity |-> next.severity, age |-> 0,
          changed |-> IF next.severity # previous.severity THEN 0
                      ELSE previous.changed]

Fresh(next) == [severity |-> next.severity, age |-> 0, changed |-> 0]

Noted(map, next) ==
    LET entry == IF next.key \in DOMAIN map THEN Smoothed(map[next.key], next)
                 ELSE Fresh(next)
    IN  [k \in DOMAIN map \cup {next.key} |->
            IF k = next.key THEN entry ELSE map[k]]

Expired(entry) == entry.age > Hold

\* evaluate: alerts of the frame have age 0 and do not expire.
Evaluate(map, frame) ==
    LET noted == FoldLeft(Noted, map, frame)
    IN  Restrict(noted, {k \in DOMAIN noted : ~Expired(noted[k])})

-----------------------------------------------------------------------------
(* EdgeEventBuffer *)

Shown(map) == {[key |-> k, severity |-> map[k].severity] : k \in DOMAIN map}

\* The order evaluate returns: by severity, then by time, which is free here.
Orders(alerts) ==
    {order \in SetToSeqs(alerts) :
        \A i, j \in DOMAIN order :
            i < j => ~Below(order[i].severity, order[j].severity)}

\* rebuildSeen
RebuiltSeen(events) == ToSet(events)

Recorded(buffer, alert) ==
    LET all    == <<alert>> \o buffer.records
        events == SubSeq(all, 1, IF Len(all) > Capacity THEN Capacity
                                 ELSE Len(all))
        known  == buffer.seen \cup {alert}
    IN  [records |-> events,
         seen    |-> IF Cardinality(known) > Capacity * SeenFactor
                     THEN RebuiltSeen(events) ELSE known,
         created |-> buffer.created \cup {alert}]

\* ingest: each new event also goes to the audit journal.
Ingest(order) ==
    FoldLeft(LAMBDA buffer, alert :
                IF alert \in buffer.seen THEN buffer
                ELSE Recorded(buffer, alert),
             [records |-> records, seen |-> seen, created |-> {}], order)

-----------------------------------------------------------------------------

Lowers(k, before, after) ==
    /\ k \in DOMAIN before \cap DOMAIN after
    /\ Below(after[k].severity, before[k].severity)

\* The alerts of a frame whose key no other alert of it has.
Unshared(frame) ==
    {frame[i] : i \in {j \in DOMAIN frame :
        \A h \in DOMAIN frame \ {j} : frame[h].key # frame[j].key}}

\* publish
Publish(frame) ==
    /\ raw' = Unshared(frame)
    /\ active' = Evaluate(active, frame)
    /\ \E order \in Orders(Shown(active')) :
          LET buffer == Ingest(order)
          IN  /\ records' = buffer.records
              /\ seen' = buffer.seen
              /\ logged' = logged \cup buffer.created
    /\ sighted' = [k \in Keys |-> IF \E i \in DOMAIN frame : frame[i].key = k
                                  THEN 0 ELSE sighted[k]]
    /\ lowered' = [k \in Keys |-> IF Lowers(k, active, active') THEN 0
                                  ELSE lowered[k]]

\* Time passes between two frames.
AlertTick ==
    /\ active' = [k \in DOMAIN active |->
                    [active[k] EXCEPT !.age = Older(@), !.changed = Older(@)]]
    /\ sighted' = [k \in Keys |-> Older(sighted[k])]
    /\ lowered' = [k \in Keys |-> Older(lowered[k])]
    /\ raw' = {}
    /\ UNCHANGED <<records, seen, logged>>

AlertNext == AlertTick \/ \E frame \in Frames : Publish(frame)

AlertSpec == AlertInit /\ [][AlertNext]_alertVars

-----------------------------------------------------------------------------
(* Properties *)

\* The stabilizer and the event buffer have the shapes the code gives them,
\* within their bounds.
AlertTypeOK ==
    /\ DOMAIN active \subseteq Keys
    /\ \A k \in DOMAIN active :
          active[k] \in [severity : Severities, age : 0..LongAgo,
                         changed : 0..LongAgo]
    /\ records \in Seq(Alerts) /\ Len(records) <= Capacity
    /\ seen \subseteq Alerts /\ Cardinality(seen) <= Capacity * SeenFactor
    /\ logged \subseteq Alerts /\ raw \subseteq Alerts
    /\ {sighted, lowered} \subseteq [Keys -> 0..LongAgo]

\* A dropout of at most the hold never hides an alert, and what a frame shows
\* was raised within the hold (alert-stabilizer.ts, HOLD_MS).
DropoutsAreHeld ==
    [][\A k \in Keys :
          /\ sighted'[k] <= Hold => k \in DOMAIN active'
          /\ ~AlertTick /\ k \in DOMAIN active' => sighted'[k] <= Hold]_alertVars

\* An alert is shown at once, and at its raw severity or above, unless another
\* alert of the same frame has its key.
AlertIsNotWeakened ==
    \A alert \in raw :
        /\ alert.key \in DOMAIN active
        /\ ~Below(active[alert.key].severity, alert.severity)

\* However raw severities alternate, drop out and come back, the severity
\* shown for a key goes down at most once per hold.
FlickerIsBounded ==
    [][\A k \in Keys : Lowers(k, active, active') =>
          lowered[k] >= DowngradeHold]_alertVars

\* No two records of the event history are the same transition, although the
\* set that filters them is rebuilt from the history when it grows.
HistoryHasNoDuplicates ==
    \A i, j \in DOMAIN records : records[i] = records[j] => i = j

\* Every alert a driver has been shown was created as an event, and so offered
\* to the audit journal.
ShownIsLogged == Shown(active) \subseteq logged

\* The event history is complete and keeps to its bounds: what was shown is logged,
\* and what is listed is listed once; and no alert is shown below its severity.
AlertsAreKept ==
    AlertTypeOK /\ HistoryHasNoDuplicates /\ ShownIsLogged /\ AlertIsNotWeakened

\* Neither dropouts nor an alternating severity make the display flicker.
AlertsAreSteady == DropoutsAreHeld /\ FlickerIsBounded

=============================================================================

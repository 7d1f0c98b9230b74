---------------------------- MODULE ConnectedRoad ----------------------------
(***************************************************************************)
(* What road-side providers tell the risk engine and what the driver is told  *)
(* of it: requireProviderAuth and the provider route of                       *)
(* road-context-routes.ts, provider-auth.ts, provider-replay.ts, and           *)
(* connected-road.ts.  A request is signed once and may come any number of     *)
(* times; its signature stands for all of its contents.  Distances are bands   *)
(* and severities numbers, 0 safe, 1 caution, 2 critical.                      *)
(***************************************************************************)
EXTENDS Clock, FiniteSets

CONSTANTS Providers, ProviderKeys,  \* ProviderKey of each: scopes, active, from, until
          ProviderRequests,         \* the requests of an instance
          PROVIDER_MAX_SKEW, ReplayTTL, MaxReplayEntries,
          REQUIRE_PROVIDER_AUTH,
          SpatAge, EmergencyAge, TopologyAge, FutureAge,
          MaxShown

ProviderScopes == {"connected-road:provider", "connected-road:v2x"}

PriorityOf == [emergency |-> 100, spat |-> 88, clearing |-> 82, hazard |-> 84, works |-> 76,
               school |-> 72, weather |-> 66, exit |-> 58, lane |-> 32]

ASSUME RoadAssumption ==
    /\ PROVIDER_MAX_SKEW \in Nat /\ MaxReplayEntries \in Nat \ {0} /\ MaxShown \in Nat \ {0}
    /\ ReplayTTL \in Nat /\ ReplayTTL > 2 * PROVIDER_MAX_SKEW
    /\ {SpatAge, EmergencyAge, TopologyAge, FutureAge} \subseteq Nat
    /\ REQUIRE_PROVIDER_AUTH \in BOOLEAN
    /\ \A r \in ProviderRequests :
          /\ r.provider \in Providers /\ r.stamp \in Int
          /\ IsFiniteSet(r.items)
          /\ \A i \in r.items : i.kind \in DOMAIN PriorityOf /\ i.severity \in 0..2

VARIABLES replays,       \* the replay guard: when each fingerprint expires
          road,          \* the snapshot of each provider that sent one
          applied,       \* history: the key-signed requests that were applied
          reapplied      \* history: one of them was applied again

roadVars == <<now, replays, road, applied, reapplied>>

\* usesV2x: the scope a payload needs.
NeededScope(r) == IF r.live THEN "connected-road:v2x" ELSE "connected-road:provider"

\* verifyProviderAuth, for the key the request names.
ProviderVerified(r) ==
    LET k == ProviderKeys[r.key]
    IN  /\ now - r.stamp \in -PROVIDER_MAX_SKEW..PROVIDER_MAX_SKEW
        /\ k.provider = r.provider
        /\ k.active /\ now >= k.from /\ now <= k.until
        /\ NeededScope(r) \in k.scopes
        /\ r.signed

Known(r) == r \in DOMAIN replays /\ replays[r] > now

ReplayEnd == now + ReplayTTL

\* accept: an expired entry of the request goes first; only a full guard is pruned.
GuardFor(r) ==
    LET others == [f \in DOMAIN replays \ {r} |-> replays[f]]
    IN  IF Cardinality(DOMAIN others) < MaxReplayEntries THEN others
        ELSE [f \in {g \in DOMAIN others : others[g] > now} |-> others[f]]

HasRoom(r) == Cardinality(DOMAIN GuardFor(r)) < MaxReplayEntries

Replace(r) ==
    road' = [p \in DOMAIN road \cup {r.provider} |->
               IF p = r.provider THEN [made |-> r.made, items |-> r.items]
               ELSE road[p]]

\* POST /connected-road/provider with a provider signature that verifies.
PostSigned(r) ==
    /\ ProviderVerified(r)
    /\ IF Known(r) THEN UNCHANGED <<replays, road, applied, reapplied>>
       ELSE IF ~HasRoom(r)
       THEN replays' = GuardFor(r) /\ UNCHANGED <<road, applied, reapplied>>
       ELSE /\ replays' = [f \in DOMAIN GuardFor(r) \cup {r} |->
                             IF f = r THEN ReplayEnd ELSE replays[f]]
            /\ Replace(r)
            /\ applied' = applied \cup {r}
            /\ reapplied' = (reapplied \/ r \in applied)
    /\ UNCHANGED now

\* Live items also need the legacy signature over a payload made recently.
LegacyEnough(r) ==
    r.live => r.legacy /\ now - r.made \in -PROVIDER_MAX_SKEW..PROVIDER_MAX_SKEW

\* The same route with the edge token of the migration.
PostByToken(r) ==
    /\ ~ProviderVerified(r) /\ ~REQUIRE_PROVIDER_AUTH
    /\ LegacyEnough(r)
    /\ Replace(r)
    /\ UNCHANGED <<now, replays, applied, reapplied>>

\* Requests too old to verify again leave the history.
RoadTick ==
    /\ Pass
    /\ applied' = {r \in applied : r.stamp >= now' - PROVIDER_MAX_SKEW}
    /\ UNCHANGED <<replays, road, reapplied>>

RoadInit ==
    /\ now = 0
    /\ replays = [f \in {} |-> 0] /\ road = [p \in {} |-> {}]
    /\ applied = {} /\ reapplied = FALSE

RoadNext ==
    \/ \E r \in ProviderRequests : PostSigned(r)
    \/ \E r \in ProviderRequests : PostByToken(r)
    \/ RoadTick

RoadSpec == RoadInit /\ [][RoadNext]_roadVars

(***************************************************************************)
(* getConnectedRoadContext: merge, candidates, suppressConnectedRoadAdvisories *)
(***************************************************************************)
FreshAt(stamp, age) == stamp <= now + FutureAge /\ now - stamp <= age

\* merge: signals and emergency vehicles by their own time, the rest by the
\* snapshot's; every stored snapshot is marked verified, so that none is left out.
Merged ==
    UNION {{i \in road[p].items :
              CASE i.kind = "emergency" -> FreshAt(i.stamp, EmergencyAge)
                [] i.kind \in {"spat", "clearing"} -> FreshAt(i.stamp, SpatAge)
                [] OTHER -> FreshAt(road[p].made, TopologyAge)} : p \in DOMAIN road}

\* candidates: the severity of an item in the band "near", "ahead" or "away"; a
\* hazard brings its own, and only the nearest exit is kept.
SeverityOf(i) ==
    CASE i.kind = "emergency" -> IF i.band = "near" THEN 2 ELSE 1
      [] i.kind \in {"works", "school", "exit"} -> IF i.band = "near" THEN 1 ELSE 0
      [] i.kind = "hazard" -> i.severity
      [] i.kind = "lane" -> 0
      [] OTHER -> 1

Relevant(i) ==
    /\ i.band # "away"
    /\ i.kind = "clearing" => i.band = "near"
    /\ i.kind = "exit" /\ i.band # "near" =>
          \A j \in Merged : ~(j.kind = "exit" /\ j.band = "near")

Candidates ==
    {[kind |-> i.kind, id |-> i.id, severity |-> SeverityOf(i),
      priority |-> IF i.kind = "exit" /\ i.band # "near" THEN 36 ELSE PriorityOf[i.kind]] :
        i \in {j \in Merged : Relevant(j)}}

\* A signal has one key in both of its phases.
KeyKind(a) == IF a.kind = "clearing" THEN "spat" ELSE a.kind

SameKey(a, b) == KeyKind(a) = KeyKind(b) /\ a.id = b.id

Replaces(new, old) == new.severity > old.severity \/ new.priority > old.priority

\* The candidates that may be left after the loop over them in some order: those
\* that no other of their key replaces, without the weather if there is a hazard.
Kept ==
    LET live == {a \in Candidates : ~(a.kind = "weather"
                                      /\ \E b \in Candidates : b.kind = "hazard")}
    IN  {a \in live : \A b \in live : SameKey(a, b) /\ Replaces(b, a) => Replaces(a, b)}

Above(a, b) ==
    a.severity > b.severity \/ (a.severity = b.severity /\ a.priority > b.priority)

\* The advisories that are certain to be among the first MaxShown.
CertainlyShown == {a \in Kept : Cardinality({b \in Kept \ {a} : ~Above(a, b)}) < MaxShown}

(***************************************************************************)
(* Properties.                                                             *)
(***************************************************************************)
RoadTypeOK ==
    /\ DOMAIN road \subseteq Providers
    /\ DOMAIN replays \subseteq ProviderRequests
    /\ Cardinality(DOMAIN replays) <= MaxReplayEntries
    /\ applied \subseteq ProviderRequests /\ reapplied \in BOOLEAN

\* A signed request replaces the provider's snapshot once, however often it comes.
ProviderRequestsOnce == ~reapplied

\* Of two reports of one thing the worse is shown, and a near emergency vehicle is
\* shown unless as many others are near.
WorstIsShown ==
    /\ \A a \in Candidates : a.kind # "weather" =>
          \E b \in Kept : SameKey(a, b) /\ b.severity >= a.severity
    /\ \A a \in Kept : \A b \in Candidates : SameKey(a, b) => a.severity >= b.severity
    /\ LET near == {a \in Kept : a.kind = "emergency" /\ a.severity = 2}
       IN  Cardinality(near) <= MaxShown => near \subseteq CertainlyShown
=============================================================================

---------------------------- MODULE MCRiskEngine ----------------------------
(***************************************************************************)
(* The components of the risk engine that keep state between requests, for   *)
(* the run RiskEngine.  They share the clock and nothing else: no action  *)
(* of one reads or writes a variable of another, so that every behaviour of    *)
(* the engine, seen through the variables of one component, is a behaviour of   *)
(* that component alone.  It is therefore enough to let one component, the       *)
(* subject, move while the others stay where they started.                       *)
(***************************************************************************)
EXTENDS EdgeGuard, BoundedState, OperatorAuth, ProfileMemory, UpdateLifecycle,
        KeyRegistries, ConnectedRoad, VehicleAccess

VARIABLE subject

Subjects == {"edge", "bounded", "operator", "memory", "update", "keys", "road", "access"}

\* These components read no clock, or a day of their own.
Timeless == {"memory", "update", "access"}

engineVars == <<subject, edgeVars, boundedVars, operatorVars, records, updateVars,
                keyVars, roadVars, accessVars>>

\* A step of component s.
Of(s) ==
    /\ subject = s /\ UNCHANGED subject
    /\ IF s \in Timeless THEN UNCHANGED now ELSE TRUE
    /\ IF s = "edge" THEN TRUE
       ELSE UNCHANGED <<source, network, sessions, lastPrune, taken, verdict>>
    /\ IF s = "bounded" THEN TRUE ELSE UNCHANGED <<windows, streams, calls, frames>>
    /\ IF s = "operator" THEN TRUE
       ELSE UNCHANGED <<nonces, geofences, audit, sequence, dropped, honoured, repeated>>
    /\ IF s = "memory" THEN TRUE ELSE UNCHANGED records
    /\ IF s = "update" THEN TRUE ELSE UNCHANGED updateVars
    /\ IF s = "keys" THEN TRUE ELSE UNCHANGED <<provisioned, served, running, withdrawn>>
    /\ IF s = "road" THEN TRUE ELSE UNCHANGED <<replays, road, applied, reapplied>>
    /\ IF s = "access" THEN TRUE ELSE UNCHANGED accessVars

EngineInit ==
    /\ subject \in Subjects
    /\ EdgeInit /\ BoundedInit /\ OperatorInit /\ MemoryInit /\ UpdateInit
    /\ KeyInit /\ RoadInit /\ AccessInit

EngineNext ==
    \/ \E d \in Devices, err \in ClockErrors : Of("edge") /\ SendPacket(d, err)
    \/ \E d \in Devices : Of("edge") /\ RebootDevice(d)
    \/ Of("edge") /\ DeliverPacket
    \/ Of("edge") /\ LosePacket
    \/ Of("edge") /\ EdgeTick
    \/ \E k \in Keys : Of("bounded") /\ Consume(k)
    \/ \E k \in Keys, t \in 0..MaxTime : Of("bounded") /\ AcceptFrame(k, t)
    \/ Of("bounded") /\ BoundedTick
    \/ \E r \in Requests, t \in BOOLEAN : Of("operator") /\ PostGeofences(r, t)
    \/ \E r \in Requests : Of("operator") /\ PostNextgen(r)
    \/ Of("operator") /\ OperatorTick
    \/ \E p \in ProfileNames, privacy \in Privacy :
          Of("memory") /\ SaveProfile(p, privacy)
    \/ \E p \in ProfileNames, e \in EntryNames, k \in Kinds, u \in Uses :
          Of("memory") /\ SaveEntry(p, e, k, u)
    \/ \E p \in ProfileNames : Of("memory") /\ ListMemory(p)
    \/ \E p \in ProfileNames, e \in EntryNames : Of("memory") /\ RemoveEntry(p, e)
    \/ Of("memory") /\ ForgetAll
    \/ \E p \in Offered : Of("update") /\ Stage(p)
    \/ Of("update") /\ MarkVerified
    \/ Of("update") /\ MarkReady
    \/ Of("update") /\ BeginInstall
    \/ Of("update") /\ MarkInstalled
    \/ Of("update") /\ ReportBootHealthy
    \/ Of("update") /\ ReportBootFailure
    \/ Of("update") /\ Fail
    \/ Of("update") /\ BeginCommit
    \/ \E i \in commits : Of("update") /\ FinishCommit(i)
    \/ Of("update") /\ VehicleChanges
    \/ Of("update") /\ PowerLoss
    \/ \E h \in Holders, n \in KeyNames, w \in Validities :
          Of("keys") /\ Enroll(h, n, w)
    \/ \E k \in provisioned : Of("keys") /\ Activate(k)
    \/ \E k \in provisioned : Of("keys") /\ Revoke(k)
    \/ Of("keys") /\ Deploy
    \/ \E raws \in HandWritten : Of("keys") /\ DeployByHand(raws)
    \/ Of("keys") /\ KeyTick
    \/ \E r \in ProviderRequests : Of("road") /\ PostSigned(r)
    \/ \E r \in ProviderRequests : Of("road") /\ PostByToken(r)
    \/ Of("road") /\ RoadTick
    \/ \E p \in Proposals : Of("access") /\ IssueGrant(Proposed(p))
    \/ \E a \in Profiles, g \in grants : Of("access") /\ RevokeGrant(a, g)
    \/ \E v \in Vehicles, p \in Profiles : Of("access") /\ DecideAccess(v, p)
    \/ Of("access") /\ AccessRestart
    \/ Of("access") /\ NextDay

EngineSpec == EngineInit /\ [][EngineNext]_engineVars

(***************************************************************************)
(* Properties: those of the components, joined by what they are about.       *)
(***************************************************************************)
\* Every part keeps the shape of its state and the bounds of its stores.
RiskEngineTypeOK ==
    /\ subject \in Subjects
    /\ EdgeTypeOK /\ BoundedTypeOK /\ OperatorTypeOK /\ MemoryTypeOK /\ UpdateTypeOK
    /\ KeyTypeOK /\ RoadTypeOK /\ AccessTypeOK

\* Whatever the network repeats, delays or reorders, and although every memory of
\* what was seen is bounded and expires, nothing is taken twice: device packets,
\* legacy frames, signed operator requests, signed provider requests.
NothingIsTakenTwice ==
    /\ SequencesRise
    /\ FramesRise
    /\ RequestsAreHonouredOnce
    /\ ProviderRequestsOnce

\* A full store turns away only what it must: sessions are held by living devices,
\* and a caller whose window was swept is not let through more often for it.
LimitsAreKept == RiskEngineTypeOK /\ FullOfTheLiving /\ RateIsBounded

\* Digital keys never gain by delegation: one owner, and every key below a grant
\* by which an owner took the vehicle.
DelegationIsContained == AtMostOneOwner /\ DelegationIsBounded

\* What is remembered of a driver is what the driver's privacy permits, and is
\* seen through the driver's own profile.
MemoryStaysPrivate == MemoryIsPermitted /\ ProfilesAreApart

\* What is held of a person is contained: keys by delegation, memory by privacy.
ProfilesAreContained == DelegationIsContained /\ MemoryStaysPrivate

\* Two places that answer the same question give the same answer: decision and
\* self route, status page and verifier, audit and configuration in force; and of
\* two reports of one thing the worse is shown.
AnswersAgree ==
    RoutesAgree /\ StandingsAgree /\ AuditExplainsGeofences /\ WorstIsShown

(***************************************************************************)
(* The instance.                                                             *)
(***************************************************************************)
\* Operators: one key in force until time 2, one revoked.
MCKeyRecords ==
    [k \in OperatorKeys |->
        IF k = "current"
        THEN [scopes |-> OperatorScopes, active |-> TRUE, notBefore |-> 0, notAfter |-> 2]
        ELSE [scopes |-> {"configuration:geofences"}, active |-> FALSE,
              notBefore |-> 0, notAfter |-> 9]]

OperatorRequest(k, scope, n, t, b, ok) ==
    [key |-> k, scope |-> scope, nonce |-> n, timestamp |-> t, body |-> b, valid |-> ok]

MCRequests ==
    {OperatorRequest("current", "configuration:geofences", 1, t, b, TRUE) :
        t \in 0..2, b \in {"a", "invalid"}}
    \cup {OperatorRequest("current", "configuration:nextgen", 2, 1, "a", TRUE),
          OperatorRequest("revoked", "configuration:geofences", 3, 1, "b", TRUE),
          OperatorRequest("current", "configuration:geofences", 3, 1, "b", FALSE)}

\* Profiles: the name of one extends the name of another.
MCProfileNames == {<<"a">>, <<"a", "b">>, <<"c">>}
MCEntryNames == {<<"x">>, <<"b", "x">>}

Package(i, f, h, s, u) == [index |-> i, fits |-> f, hashed |-> h, signed |-> s, future |-> u]

MCOffered ==
    {Package(i, TRUE, TRUE, TRUE, FALSE) : i \in 0..3}
    \cup {Package(2, f, h, s, u) :
             f \in BOOLEAN, h \in BOOLEAN, s \in BOOLEAN, u \in BOOLEAN}

\* Every combination of algorithm, secret, public key and state, one at a time.
MCHandWritten ==
    {{[holder |-> "h1", name |-> "k1", algorithm |-> a, secret |-> s, pem |-> p,
       state |-> st, from |-> 0, until |-> 9]} :
        a \in {"absent", "hmac-sha256", "ed25519"}, s \in {"none", "long"},
        p \in {"none", "bad", "good"}, st \in {"absent", "revoked"}}

MCValidities == {<<0, 9>>, <<1, 2>>}

MCProviderKeys ==
    [k1 |-> [provider |-> "p1", active |-> TRUE, from |-> 0, until |-> 2,
             scopes |-> ProviderScopes],
     k2 |-> [provider |-> "p2", active |-> TRUE, from |-> 1, until |-> 9,
             scopes |-> {"connected-road:provider"}]]

Item(k, i, b, s, t) == [kind |-> k, id |-> i, band |-> b, severity |-> s, stamp |-> t]

Report(p, k, st, made, live, sg, leg, its) ==
    [provider |-> p, key |-> k, stamp |-> st, made |-> made, live |-> live,
     signed |-> sg, legacy |-> leg, items |-> its]

MCProviderRequests == {
    Report("p1", "k1", 1, 1, TRUE, TRUE, FALSE,
           {Item("emergency", "e1", "near", 0, 1), Item("hazard", "z1", "ahead", 0, 0)}),
    Report("p1", "k1", 2, 1, TRUE, FALSE, TRUE,
           {Item("emergency", "e1", "ahead", 0, 1), Item("spat", "s1", "near", 0, 1)}),
    Report("p1", "k1", 1, 0, FALSE, TRUE, FALSE,
           {Item("hazard", "z1", "near", 2, 0), Item("weather", "w", "near", 0, 0)}),
    Report("p2", "k2", 2, 2, FALSE, TRUE, FALSE,
           {Item("hazard", "z1", "near", 1, 0), Item("exit", "x1", "ahead", 0, 0),
            Item("exit", "x2", "near", 0, 0)}),
    Report("p2", "k2", 1, 1, TRUE, TRUE, FALSE,
           {Item("emergency", "e2", "near", 0, 1), Item("clearing", "s1", "near", 0, 1)}),
    Report("p2", "k2", 1, 1, TRUE, FALSE, TRUE,
           {Item("emergency", "e1", "near", 0, 1), Item("lane", "l", "ahead", 0, 0),
            Item("works", "o", "near", 0, 0)})}

MCOffers == {{"vehicle.use"}, {"vehicle.use", "keys.share"}}
MCWindows == {<<0, -1>>, <<0, 1>>, <<1, 2>>}

\* Devices and the profiles of digital keys are treated alike.
MCSymmetry == Permutations(Devices) \cup Permutations(Profiles)
=============================================================================

---------------------------- MODULE VehicleAccess ----------------------------
(***************************************************************************)
(* Digital keys of the risk engine: vehicle-access.ts, the issuance and     *)
(* revocation policies, the registry in memory, the repository over the     *)
(* key-value store and the routes that join them.  The store is the one in  *)
(* memory: its promises settle before another request is served, so that a  *)
(* handler is one step.  Times are days; grant identities are numbers, as    *)
(* the repository lists them in the order of their keys.                     *)
(***************************************************************************)
EXTENDS Integers, Sequences, FiniteSets, SequencesExt

CONSTANTS Vehicles, Profiles, GrantIds,
          GrantRoles,      \* the roles proposed in this instance
          Offers,          \* the sets of permissions proposed
          Windows,         \* <<validFrom, validUntil>>, Never for no end
          Days,            \* the clock stops at its largest day (a bound)
          MaxGrants        \* MAX_GRANTS of repository and registry

Never == -1

VehiclePermissions ==
    {"vehicle.use", "vehicle.unlock", "profile.read.self", "profile.edit.self",
     "trip.history.read", "camera.live.view", "camera.history.export",
     "users.manage", "keys.share", "settings.safety.change", "diagnostics.read"}

ROLE_RANK == [owner |-> 6, admin |-> 5, driver |-> 4, guest |-> 3, valet |-> 2, service |-> 1]

DriverRoles == DOMAIN ROLE_RANK

RoleCeiling ==
    [owner   |-> VehiclePermissions,
     admin   |-> VehiclePermissions \ {"settings.safety.change"},
     driver  |-> VehiclePermissions \ {"settings.safety.change", "users.manage",
                                       "keys.share", "camera.history.export"},
     guest   |-> {"vehicle.use", "vehicle.unlock", "profile.read.self", "camera.live.view"},
     valet   |-> {"vehicle.use", "vehicle.unlock", "profile.read.self"},
     service |-> {"profile.read.self", "camera.live.view", "diagnostics.read"}]

\* In days; an owner has no limit.
MaxRoleDuration ==
    [admin |-> 365, driver |-> 365, guest |-> 7, valet |-> 1, service |-> 7]

ASSUME AccessAssumption ==
    /\ GrantRoles \subseteq DriverRoles
    /\ \A o \in Offers : o \subseteq VehiclePermissions
    /\ GrantIds \subseteq Nat
    /\ Days \subseteq Nat /\ 0 \in Days
    /\ \A w \in Windows : w[1] \in Nat /\ w[2] \in Nat \cup {Never}
    /\ MaxGrants \in Nat \ {0}

Grant == [id : GrantIds, vehicle : Vehicles, profile : Profiles, issuer : Profiles,
          role : DriverRoles, permissions : SUBSET VehiclePermissions,
          from : Nat, until : Nat \cup {Never}, revoked : Nat \cup {Never}]

VARIABLES grants,      \* the repository: a set of grants, one per identity
          registry,    \* the registry: a sequence, a Map in order of insertion
          day,
          roots        \* history: the owners' grants accepted for a vehicle without grants

accessVars == <<grants, registry, day, roots>>

\* What evaluateVehicleAccess and the filters of the policies agree on.
ActiveAt(g, v, p, t) ==
    /\ g.vehicle = v /\ g.profile = p
    /\ g.from <= t
    /\ g.until = Never \/ g.until >= t
    /\ g.revoked = Never \/ g.revoked > t

\* The grant that listGrants puts first: latest start, then the smallest key.
FirstListed(S) ==
    {g \in S : \A h \in S : g.from > h.from \/ (g.from = h.from /\ g.id <= h.id)}

\* activeIssuer, activeGrant and the grant of access/self.
Current(v, p) == FirstListed({g \in grants : ActiveAt(g, v, p, day)})

\* findActive of the registry, where the grant inserted first wins a tie.
Found(v, p) ==
    {registry[i] : i \in {i \in DOMAIN registry :
        /\ ActiveAt(registry[i], v, p, day)
        /\ \A j \in DOMAIN registry : ActiveAt(registry[j], v, p, day) =>
              registry[i].from > registry[j].from
              \/ (registry[i].from = registry[j].from /\ i <= j)}}

\* activeVehiclePermissions of at most one grant.
PermissionsOf(current) ==
    UNION {g.permissions \cap RoleCeiling[g.role] : g \in current}

(***************************************************************************)
(* validateGrantIssuance, reason by reason.                                 *)
(***************************************************************************)
WellFormed(p) ==
    /\ p.revoked = Never
    /\ p.until = Never \/ p.until > p.from
    /\ p.role \in DOMAIN MaxRoleDuration =>
          p.until # Never /\ p.until - p.from <= MaxRoleDuration[p.role]
    /\ p.permissions \subseteq RoleCeiling[p.role]

Bootstrapping(p) == \A g \in grants : g.vehicle # p.vehicle

OwnsItself(p) == p.role = "owner" /\ p.profile = p.issuer

\* Mutant: the rank of the issuer may equal the proposed one.
IssuerMayIssuePeers(issuer, p) ==
    /\ "keys.share" \in PermissionsOf({issuer})
    /\ ROLE_RANK[issuer.role] >= ROLE_RANK[p.role]
    /\ p.permissions \subseteq PermissionsOf({issuer})
    /\ p.from >= issuer.from
    /\ issuer.until # Never => p.until # Never /\ p.until <= issuer.until

IssuerMayIssue(issuer, p) ==
    /\ "keys.share" \in PermissionsOf({issuer})
    /\ ROLE_RANK[issuer.role] > ROLE_RANK[p.role]
    /\ p.permissions \subseteq PermissionsOf({issuer})
    /\ p.from >= issuer.from
    /\ issuer.until # Never => p.until # Never /\ p.until <= issuer.until

MayIssue(p) ==
    /\ WellFormed(p)
    /\ IF Bootstrapping(p) THEN OwnsItself(p)
       ELSE \E issuer \in Current(p.vehicle, p.issuer) : IssuerMayIssue(issuer, p)

\* validateGrantRevocation for an actor bound to profile a.
ActiveOwners(v) ==
    {g \in grants : g.role = "owner" /\ ActiveAt(g, v, g.profile, day)}

MayRevoke(a, target) ==
    /\ target.revoked = Never \/ target.revoked > day
    /\ \E actor \in Current(target.vehicle, a) :
         /\ "keys.share" \in PermissionsOf({actor})
         /\ IF target.role = "owner"
            THEN /\ actor.role = "owner" /\ actor.profile # target.profile
                 /\ Cardinality(ActiveOwners(target.vehicle)) > 1
            ELSE ROLE_RANK[actor.role] > ROLE_RANK[target.role]

(***************************************************************************)
(* The two stores.                                                         *)
(***************************************************************************)
\* saveGrant: replaces the grant of that identity, or adds it below the limit.
CanSave(g) == (\E h \in grants : h.id = g.id) \/ Cardinality(grants) < MaxGrants

SaveGrant(g) == grants' = {h \in grants : h.id # g.id} \cup {g}

\* Mutant: the route saves the grant and does not tell the registry.
UpsertForgotten(reg, g) == IF reg = << >> THEN <<g>> ELSE reg

\* upsert: in place, or at the end, the earliest start leaving a full map.
Upserted(reg, g) ==
    IF \E i \in DOMAIN reg : reg[i].id = g.id
    THEN [i \in DOMAIN reg |-> IF reg[i].id = g.id THEN g ELSE reg[i]]
    ELSE LET early == {i \in DOMAIN reg : \A j \in DOMAIN reg :
                          reg[i].from < reg[j].from \/ (reg[i].from = reg[j].from /\ i <= j)}
         IN  Append(IF Len(reg) < MaxGrants THEN reg
                    ELSE RemoveAt(reg, CHOOSE i \in early : TRUE), g)

(***************************************************************************)
(* The routes.                                                             *)
(***************************************************************************)
\* POST access/grants, by the actor whose profile the proposal names as issuer.
IssueGrant(p) ==
    /\ MayIssue(p) /\ CanSave(p)
    /\ SaveGrant(p)
    /\ registry' = Upserted(registry, p)
    /\ roots' = IF Bootstrapping(p) THEN roots \cup {p} ELSE roots
    /\ UNCHANGED day

\* POST access/revoke.
RevokeGrant(a, g) ==
    /\ g \in grants
    /\ MayRevoke(a, g)
    /\ LET r == [g EXCEPT !.revoked = day]
       IN  SaveGrant(r) /\ registry' = Upserted(registry, r)
    /\ UNCHANGED <<day, roots>>

\* POST access/decision brings the first grant listed for the profile along.
DecideAccess(v, p) ==
    /\ \E g \in FirstListed({h \in grants : h.vehicle = v /\ h.profile = p}) :
          registry' = Upserted(registry, g)
    /\ UNCHANGED <<grants, day, roots>>

\* Both stores are in memory; hydrateNextgenRuntime finds nothing.
AccessRestart ==
    /\ grants # {}
    /\ grants' = {} /\ registry' = << >> /\ roots' = {}
    /\ UNCHANGED day

NextDay ==
    /\ day + 1 \in Days
    /\ day' = day + 1
    /\ UNCHANGED <<grants, registry, roots>>

Proposals ==
    [id : GrantIds, vehicle : Vehicles, profile : Profiles, issuer : Profiles,
     role : GrantRoles, permissions : Offers, window : Windows]

Proposed(p) ==
    [id |-> p.id, vehicle |-> p.vehicle, profile |-> p.profile, issuer |-> p.issuer,
     role |-> p.role, permissions |-> p.permissions,
     from |-> p.window[1], until |-> p.window[2], revoked |-> Never]

AccessInit == grants = {} /\ registry = << >> /\ day = 0 /\ roots = {}

AccessNext ==
    \/ \E p \in Proposals : IssueGrant(Proposed(p))
    \/ \E a \in Profiles, g \in grants : RevokeGrant(a, g)
    \/ \E v \in Vehicles, p \in Profiles : DecideAccess(v, p)
    \/ AccessRestart
    \/ NextDay

AccessSpec == AccessInit /\ [][AccessNext]_accessVars

(***************************************************************************)
(* Properties.                                                             *)
(***************************************************************************)
AccessTypeOK ==
    /\ grants \subseteq Grant /\ roots \subseteq Grant
    /\ registry \in Seq(Grant)
    /\ day \in Days

\* A vehicle has one owner at most: however keys are delegated, revoked and
\* issued again under an identity in use, nobody becomes a second owner.
AtMostOneOwner ==
    \A g, h \in grants :
        g.role = "owner" /\ h.role = "owner" /\ g.vehicle = h.vehicle => g = h

\* Delegation adds nothing: along any chain of issuers, and after any of them
\* has been revoked or has expired, a key permits no more and is valid no longer
\* than a grant by which an owner once took the vehicle.
BoundedBy(g, r) ==
    /\ r.vehicle = g.vehicle
    /\ g.permissions \subseteq r.permissions
    /\ g.from >= r.from
    /\ r.until # Never => g.until # Never /\ g.until <= r.until

DelegationIsBounded == \A g \in grants : \E r \in roots : BoundedBy(g, r)

\* The decision route, which asks the registry, and the self route, which asks
\* the repository, agree on what a profile may do, unless two active grants of
\* that profile start on the same day.
RoutesAgree ==
    \A v \in Vehicles, p \in Profiles :
        LET act == {g \in grants : ActiveAt(g, v, p, day)}
        IN  (\A g, h \in act : g.from = h.from => g = h) => Found(v, p) = Current(v, p)
=============================================================================

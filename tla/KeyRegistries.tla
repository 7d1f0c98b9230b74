---------------------------- MODULE KeyRegistries ----------------------------
(***************************************************************************)
(* The keys that the risk engine accepts: the provisioning registry of        *)
(* device-provisioning.ts, its export into the environment, and what          *)
(* device-auth.ts, provider-auth.ts and provider-certificate.ts make of the    *)
(* environment when the server starts.  A registry may also be written by      *)
(* hand.  A bound that is null is 0 or Forever; a key holds the material of    *)
(* its own algorithm or does not, and whether a signature verifies is whether  *)
(* it was made with that material.                                            *)
(***************************************************************************)
EXTENDS Clock, FiniteSets

CONSTANTS Holders, KeyNames, Validities, Forever,
          MaxHolders, MaxKeysPerHolder, MaxParsedKeys,
          HandWritten,       \* registries written by hand: sets of raw records
          REQUIRE_DEVICE_AUTH

ASSUME KeyAssumption ==
    /\ Forever \in Nat /\ Forever > MaxTime
    /\ Validities \subseteq Nat \X Nat /\ \A w \in Validities : w[1] < w[2]
    /\ MaxHolders \in Nat \ {0} /\ MaxKeysPerHolder \in Nat \ {0}
    /\ MaxParsedKeys \in Nat \ {0} /\ MaxKeysPerHolder <= MaxParsedKeys
    /\ REQUIRE_DEVICE_AUTH \in BOOLEAN

NotRevoked == -1

Algorithms == {"hmac-sha256", "ed25519"}

VARIABLES provisioned,   \* the registry of the provisioning tool
          served,        \* the keys the running server parsed when it started
          running,
          withdrawn      \* history: the keys that had been revoked when their
                         \* registry was exported

keyVars == <<now, provisioned, served, running, withdrawn>>

Named(h, n) == {k \in provisioned : k.holder = h /\ k.name = n}
HeldBy(reg, h) == {k \in reg : k.holder = h}

(***************************************************************************)
(* DeviceProvisioningRegistry.                                             *)
(***************************************************************************)
Enroll(h, n, w) ==
    /\ HeldBy(provisioned, h) = {} =>
          Cardinality({k.holder : k \in provisioned}) < MaxHolders
    /\ Named(h, n) = {}
    /\ Cardinality(HeldBy(provisioned, h)) < MaxKeysPerHolder
    /\ provisioned' = provisioned \cup
          {[holder |-> h, name |-> n, state |-> "pending", from |-> w[1], until |-> w[2],
            revokedAt |-> NotRevoked]}
    /\ UNCHANGED <<now, served, running, withdrawn>>

\* Mutant: a revoked key can be activated again.
ActivatedAgain(k) == now \in k.from..k.until

MayActivate(k) == k.state # "revoked" /\ now \in k.from..k.until

Activate(k) ==
    /\ MayActivate(k) /\ k.state # "active"
    /\ provisioned' = (provisioned \ {k}) \cup {[k EXCEPT !.state = "active"]}
    /\ UNCHANGED <<now, served, running, withdrawn>>

Revoke(k) ==
    /\ k.state # "revoked"
    /\ provisioned' = (provisioned \ {k}) \cup {[k EXCEPT !.state = "revoked", !.revokedAt = now]}
    /\ UNCHANGED <<now, served, running, withdrawn>>

ProvisionedActive ==
    {k \in provisioned : k.state = "active" /\ now <= k.until}

\* exportServerRegistry, as the environment spells it.
Exported ==
    {[holder |-> k.holder, name |-> k.name, algorithm |-> "ed25519", secret |-> "none",
      pem |-> "good", state |-> k.state, from |-> k.from, until |-> k.until] :
        k \in {p \in provisioned : p.state # "pending"}}

(***************************************************************************)
(* parseDeviceKeyRegistry, rule by rule; any breach keeps the server down.   *)
(***************************************************************************)
AlgorithmOf(r) ==
    IF r.algorithm # "absent" THEN r.algorithm
    ELSE IF r.pem # "none" THEN "ed25519" ELSE "hmac-sha256"

MaterialFits(r) ==
    \/ AlgorithmOf(r) = "hmac-sha256" /\ r.secret = "long" /\ r.pem = "none"
    \/ AlgorithmOf(r) = "ed25519" /\ r.secret = "none" /\ r.pem = "good"

Parses(raws) ==
    /\ \A r \in raws : /\ MaterialFits(r)
                       /\ r.state \in {"absent", "active", "revoked"}
                       /\ r.from < r.until
    /\ \A r, s \in raws : r.holder = s.holder /\ r.name = s.name => r = s
    /\ \A r \in raws : Cardinality(HeldBy(raws, r.holder)) <= MaxParsedKeys

Parsed(raws) ==
    {[holder |-> r.holder, name |-> r.name, algorithm |-> AlgorithmOf(r),
      material |-> (IF r.pem = "good" THEN {"ed25519"} ELSE {}) \cup
                   (IF r.secret = "long" THEN {"hmac-sha256"} ELSE {}),
      state |-> IF r.state = "absent" THEN "active" ELSE r.state,
      from |-> r.from, until |-> r.until] : r \in raws}

\* deviceAuthSummary and providerAuthSummary: where a key is counted.
StandingOf(k) ==
    IF k.state = "revoked" THEN "revoked"
    ELSE IF now > k.until THEN "expired"
    ELSE IF now < k.from THEN "future" ELSE "active"

CountedActive(reg) == {k \in reg : StandingOf(k) = "active"}

\* The server starts with an environment that parses and, in strict mode, has an
\* active key.
Start(raws) ==
    LET up == Parses(raws) /\ (REQUIRE_DEVICE_AUTH => CountedActive(Parsed(raws)) # {})
    IN  running' = up /\ served' = IF up THEN Parsed(raws) ELSE {}

Deploy ==
    /\ Start(Exported)
    /\ withdrawn' = {<<k.holder, k.name>> : k \in {p \in provisioned : p.revokedAt # NotRevoked}}
    /\ UNCHANGED <<now, provisioned>>

DeployByHand(raws) ==
    /\ Start(raws)
    /\ withdrawn' = {}
    /\ UNCHANGED <<now, provisioned>>

(***************************************************************************)
(* verifyConfiguredSignature for a request that names a key and is signed      *)
(* with its material.                                                         *)
(***************************************************************************)
DeviceVerdict(k) ==
    IF k.state = "revoked" THEN "device-key-revoked"
    ELSE IF now < k.from THEN "device-key-not-yet-valid"
    ELSE IF now > k.until THEN "device-key-expired"
    ELSE IF k.algorithm \notin k.material THEN "device-signature-invalid" ELSE "ok"

Accepted == {k \in served : DeviceVerdict(k) = "ok"}

KeyTick == Pass /\ UNCHANGED <<provisioned, served, running, withdrawn>>

KeyInit ==
    /\ now = 0
    /\ provisioned = {} /\ served = {} /\ withdrawn = {}
    /\ running = FALSE

KeyNext ==
    \/ \E h \in Holders, n \in KeyNames, w \in Validities : Enroll(h, n, w)
    \/ \E k \in provisioned : Activate(k)
    \/ \E k \in provisioned : Revoke(k)
    \/ Deploy
    \/ \E raws \in HandWritten : DeployByHand(raws)
    \/ KeyTick

KeySpec == KeyInit /\ [][KeyNext]_keyVars

(***************************************************************************)
(* Properties.                                                             *)
(***************************************************************************)
KeyTypeOK ==
    /\ \A k \in provisioned :
          /\ k.holder \in Holders /\ k.name \in KeyNames
          /\ k.state \in {"pending", "active", "revoked"} /\ <<k.from, k.until>> \in Validities
          /\ k.revokedAt \in Nat \cup {NotRevoked}
    /\ Cardinality({k.holder : k \in provisioned}) <= MaxHolders
    /\ \A k \in served : k.algorithm \in Algorithms /\ k.state \in {"active", "revoked"}

\* A key that had been revoked when the registry was exported is not accepted,
\* whatever is enrolled, activated or revoked before and after.
RevocationIsFinal == \A k \in Accepted : <<k.holder, k.name>> \notin withdrawn

\* What the status pages count as active is what verifies: of the server at any
\* time and, as long as the server runs on the latest export, of the provisioning
\* registry, although the two treat a key before its time differently.
StandingsAgree ==
    /\ CountedActive(served) = Accepted
    /\ running /\ served = Parsed(Exported) =>
          {<<k.holder, k.name>> : k \in ProvisionedActive} =
              {<<k.holder, k.name>> : k \in Accepted}
=============================================================================

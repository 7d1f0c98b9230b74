----------------------------- MODULE OperatorAuth ---------------------------
(***************************************************************************)
(* Who may change the configuration of the risk engine, and what is kept of  *)
(* it: operator-auth.ts, requireConfigurationAuthority and the geofence       *)
(* route of server.ts, configuration-audit.ts.  A request is signed once and  *)
(* may reach the server any number of times; a signature that does not        *)
(* verify is a request with valid = FALSE.  The limiter in front of it is in  *)
(* BoundedState.                                                              *)
(***************************************************************************)
EXTENDS Clock, Sequences, FiniteSets

CONSTANTS OperatorKeys,      \* KeyRecord of each key: the registry of the environment
          KeyRecords,
          Requests,          \* the requests that reach the server in an instance
          Bodies, Invalid,   \* configurations; Invalid is one the schema refuses
          NoGeofences,
          MAX_CLOCK_SKEW, NonceTTL, MaxEntries,
          REQUIRE_OPERATOR_AUTH, AuditCapacity,
          MaxChanges         \* a bound on the changes of the geofences

OperatorScopes == {"configuration:geofences", "configuration:nextgen"}

ASSUME OperatorAssumption ==
    /\ KeyRecords \in [OperatorKeys -> [scopes : SUBSET OperatorScopes, active : BOOLEAN,
                                        notBefore : Nat, notAfter : Nat]]
    /\ MAX_CLOCK_SKEW \in Nat /\ MaxEntries \in Nat \ {0} /\ AuditCapacity \in Nat \ {0}
    /\ NonceTTL \in Nat /\ NonceTTL > 2 * MAX_CLOCK_SKEW
    /\ REQUIRE_OPERATOR_AUTH \in BOOLEAN /\ NoGeofences \in Bodies
    /\ \A r \in Requests :
          /\ r.key \in OperatorKeys /\ r.scope \in OperatorScopes
          /\ r.timestamp \in Int /\ r.valid \in BOOLEAN
          /\ r.body \in Bodies \cup {Invalid}

VARIABLES nonces,        \* the replay guard: when each accepted nonce is forgotten
          geofences,
          audit, sequence, dropped,
          honoured,      \* history: the signed requests that were let through
          repeated       \* history: one of them was let through again

operatorVars == <<now, nonces, geofences, audit, sequence, dropped, honoured, repeated>>

Identity(r) == <<r.key, r.scope, r.nonce>>

\* accept of the replay guard prunes first.
Remembered == {n \in DOMAIN nonces : nonces[n] > now}

Expiry == now + NonceTTL

\* verifyOperatorRequest up to the replay guard.
Verified(r) ==
    LET k == KeyRecords[r.key]
    IN  /\ now - r.timestamp \in -MAX_CLOCK_SKEW..MAX_CLOCK_SKEW
        /\ k.active /\ r.scope \in k.scopes
        /\ now \in k.notBefore..k.notAfter
        /\ r.valid

NotReplayed(r) == Identity(r) \notin Remembered /\ Cardinality(Remembered) < MaxEntries

\* verifyOperatorRequest: what it leaves in the guard, and in the history.
Examine(r) ==
    LET kept == [n \in Remembered |-> nonces[n]]
    IN  IF ~Verified(r) THEN UNCHANGED <<nonces, honoured, repeated>>
        ELSE IF ~NotReplayed(r) THEN nonces' = kept /\ UNCHANGED <<honoured, repeated>>
        ELSE /\ nonces' = [n \in Remembered \cup {Identity(r)} |->
                              IF n = Identity(r) THEN Expiry ELSE nonces[n]]
             /\ honoured' = honoured \cup {r}
             /\ repeated' = (repeated \/ r \in honoured)

Signed(r) == Verified(r) /\ NotReplayed(r)

Recorded(actor, next) ==
    [sequence |-> sequence + 1, actor |-> actor, previous |-> geofences, new |-> next]

\* The geofence route after its authority: schema, replacement, audit record.
ReplaceGeofences(actor, body) ==
    IF body = Invalid THEN UNCHANGED <<geofences, audit, sequence, dropped>>
    ELSE /\ sequence < MaxChanges
         /\ geofences' = body
         /\ sequence' = sequence + 1
         /\ audit' = Append(IF Len(audit) >= AuditCapacity THEN Tail(audit) ELSE audit,
                            Recorded(actor, body))
         /\ dropped' = IF Len(audit) >= AuditCapacity THEN dropped + 1 ELSE dropped

\* POST /v3/geofences; withToken tells whether the migration token came along.
PostGeofences(r, withToken) ==
    /\ r.scope = "configuration:geofences"
    /\ Examine(r)
    /\ IF Signed(r) THEN ReplaceGeofences(r.key, r.body)
       ELSE IF ~REQUIRE_OPERATOR_AUTH /\ withToken
       THEN ReplaceGeofences("config-token", r.body)
       ELSE UNCHANGED <<geofences, audit, sequence, dropped>>
    /\ UNCHANGED now

\* requireWrite of the nextgen routes, whose own effects are elsewhere.
PostNextgen(r) ==
    /\ r.scope = "configuration:nextgen"
    /\ Examine(r)
    /\ UNCHANGED <<now, geofences, audit, sequence, dropped>>

\* Requests too old to verify again leave the history.
OperatorTick ==
    /\ Pass
    /\ honoured' = {r \in honoured : r.timestamp >= now' - MAX_CLOCK_SKEW}
    /\ UNCHANGED <<nonces, geofences, audit, sequence, dropped, repeated>>

OperatorInit ==
    /\ now = 0
    /\ nonces = [n \in {} |-> 0]
    /\ geofences = NoGeofences
    /\ audit = << >> /\ sequence = 0 /\ dropped = 0
    /\ honoured = {} /\ repeated = FALSE

OperatorNext ==
    \/ \E r \in Requests, t \in BOOLEAN : PostGeofences(r, t)
    \/ \E r \in Requests : PostNextgen(r)
    \/ OperatorTick

OperatorSpec == OperatorInit /\ [][OperatorNext]_operatorVars

(***************************************************************************)
(* Properties.                                                             *)
(***************************************************************************)
OperatorTypeOK ==
    /\ honoured \subseteq Requests /\ repeated \in BOOLEAN
    /\ \A n \in DOMAIN nonces : nonces[n] \in Nat
    /\ Cardinality(DOMAIN nonces) <= MaxEntries
    /\ geofences \in Bodies /\ Len(audit) <= AuditCapacity

\* A signed request has its effect at most once, whenever the network brings it
\* again: the guard does not forget a nonce while its timestamp may still pass.
RequestsAreHonouredOnce == ~repeated

\* The audit explains the configuration: its records follow each other without a
\* gap, each from the value the one before it left, the last one to the value in
\* force, and what was dropped is counted.
AuditExplainsGeofences ==
    /\ dropped + Len(audit) = sequence
    /\ \A i \in DOMAIN audit : audit[i].sequence = dropped + i
    /\ \A i \in 2..Len(audit) : audit[i].previous = audit[i - 1].new
    /\ audit # << >> => audit[Len(audit)].new = geofences
=============================================================================

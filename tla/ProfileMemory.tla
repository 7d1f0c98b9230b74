---------------------------- MODULE ProfileMemory ----------------------------
(***************************************************************************)
(* What the risk engine remembers of its drivers: the profile and memory     *)
(* repositories over the key-value store, and the routes that change them.   *)
(* The store is the one in memory, so that a handler is one step.  A key is   *)
(* a path of segments, as its parts are joined by colons and a profile or an  *)
(* entry may have colons in its own name.                                     *)
(***************************************************************************)
EXTENDS Naturals, Sequences, FiniteSets, SequencesExt

CONSTANTS ProfileNames, EntryNames,   \* paths: sequences of segments
          Uses,                       \* values of lastUsedAtMs
          MAX_ENTRIES, MAX_PROFILES,
          MAX_MEMORY_KEYS             \* of the whole store

ASSUME MemoryAssumption ==
    /\ \A p \in ProfileNames \cup EntryNames : p \in Seq(STRING) /\ p # << >>
    /\ Uses \subseteq Nat
    /\ MAX_ENTRIES \in Nat \ {0} /\ MAX_PROFILES \in Nat \ {0} /\ MAX_MEMORY_KEYS \in Nat \ {0}

Kinds == {"recent-place", "ui-preference"}   \* a preferred route is kept as a place is

Privacy == [personalization : BOOLEAN, locationHistory : BOOLEAN]

\* The records of the store, the one updated longest ago first.
VARIABLE records

ProfileKey(p) == [space |-> "profile", path |-> p]
MemoryKey(p, e) == [space |-> "memory", path |-> p \o e]

Find(recs, key) == {r \in ToSet(recs) : r.key = key}

\* The records whose key is not among keys, in their order.
Without(recs, keys) ==
    LET kept == {i \in DOMAIN recs : recs[i].key \notin keys}
        nth == CHOOSE f \in [1..Cardinality(kept) -> kept] :
                  \A i, j \in DOMAIN f : i < j => f[i] < f[j]
    IN  [i \in DOMAIN nth |-> recs[nth[i]]]

\* InMemoryNextgenPersistence.set: at its limit a new key pushes out the record
\* that was updated longest ago, whatever it holds.
Put(recs, key, value) ==
    LET room == IF Find(recs, key) = {} /\ Len(recs) >= MAX_MEMORY_KEYS
                THEN Tail(recs) ELSE Without(recs, {key})
    IN  Append(room, [key |-> key, value |-> value])

ProfilesIn(recs) == {r \in ToSet(recs) : r.key.space = "profile"}

\* list(prefix(p)): the prefix ends with a colon.
EntriesUnder(recs, p) ==
    {r \in ToSet(recs) : r.key.space = "memory" /\ IsStrictPrefix(p, r.key.path)}

Permitted(privacy, kind) ==
    privacy.personalization /\ (kind = "ui-preference" \/ privacy.locationHistory)

\* clearProfile or clearLocationMemory, as the privacy of the profile asks.
Purged(recs, p, privacy) ==
    Without(recs, {r.key : r \in {r \in EntriesUnder(recs, p) :
                      ~Permitted(privacy, r.value.kind)}})

\* POST profiles.
SaveProfile(p, privacy) ==
    /\ Find(records, ProfileKey(p)) # {} \/ Cardinality(ProfilesIn(records)) < MAX_PROFILES
    /\ records' = Purged(Put(records, ProfileKey(p), [privacy |-> privacy]), p, privacy)

\* The records after the oldest of MAX_ENTRIES listed entries was deleted by the
\* key it would have under this profile.
Evicted(recs, p) ==
    {Without(recs, {MemoryKey(p, o.value.name)}) : o \in
        {o \in EntriesUnder(recs, p) : \E listed \in SUBSET EntriesUnder(recs, p) :
            /\ Cardinality(listed) = MAX_ENTRIES /\ o \in listed
            /\ \A r \in listed : o.value.used <= r.value.used}}

\* POST memory.
SaveEntry(p, e, kind, used) ==
    \E profile \in Find(records, ProfileKey(p)) :
        LET key == MemoryKey(p, e)
            full == /\ Find(records, key) = {}
                    /\ Cardinality(EntriesUnder(records, p)) >= MAX_ENTRIES
            listed == Purged(records, p, profile.value.privacy)
        IN  /\ Permitted(profile.value.privacy, kind)
            /\ \E recs \in IF ~full THEN {records}
                           ELSE IF Cardinality(EntriesUnder(listed, p)) < MAX_ENTRIES THEN {listed}
                           ELSE Evicted(listed, p) :
                 LET before == {r.value.used : r \in Find(recs, key)}
                     value == [owner |-> p, name |-> e, kind |-> kind,
                               used |-> CHOOSE u \in before \cup {used} :
                                            \A w \in before \cup {used} : u >= w]
                 IN  records' = Put(recs, key, value)

\* GET memory purges what the profile no longer permits before it lists.
ListMemory(p) ==
    \E profile \in Find(records, ProfileKey(p)) :
        records' = Purged(records, p, profile.value.privacy)

\* POST memory/delete asks for no profile.
RemoveEntry(p, e) ==
    /\ Find(records, MemoryKey(p, e)) # {}
    /\ records' = Without(records, {MemoryKey(p, e)})

ForgetAll == records # << >> /\ records' = << >>   \* a restart

MemoryInit == records = << >>

MemoryNext ==
    \/ \E p \in ProfileNames, privacy \in Privacy : SaveProfile(p, privacy)
    \/ \E p \in ProfileNames, e \in EntryNames, k \in Kinds, u \in Uses : SaveEntry(p, e, k, u)
    \/ \E p \in ProfileNames : ListMemory(p)
    \/ \E p \in ProfileNames, e \in EntryNames : RemoveEntry(p, e)
    \/ ForgetAll

MemorySpec == MemoryInit /\ [][MemoryNext]_records

(***************************************************************************)
(* Properties.                                                             *)
(***************************************************************************)
MemoryTypeOK ==
    /\ Len(records) <= MAX_MEMORY_KEYS
    /\ \A i, j \in DOMAIN records : records[i].key = records[j].key => i = j
    /\ \A r \in ProfilesIn(records) : r.key.path \in ProfileNames /\ r.value.privacy \in Privacy

Entries == {r \in ToSet(records) : r.key.space = "memory"}

\* Whatever was saved, evicted or overwritten before, the store holds no entry
\* that the stored profile of its owner does not permit: withdrawing a consent
\* reaches every entry made under it.
MemoryIsPermitted ==
    \A r \in Entries : \A profile \in Find(records, ProfileKey(r.value.owner)) :
        Permitted(profile.value.privacy, r.value.kind)

Related(p, q) == IsPrefix(p, q) \/ IsPrefix(q, p)

\* A profile sees entries of another only if the name of one extends the other's,
\* and below that exception each keeps MAX_ENTRIES at most.
ProfilesAreApart ==
    \A p \in ProfileNames :
        LET seen == EntriesUnder(records, p)
        IN  /\ \A r \in seen : Related(p, r.value.owner)
            /\ (\A q \in ProfileNames \ {p} : ~Related(p, q)) => Cardinality(seen) <= MAX_ENTRIES
=============================================================================

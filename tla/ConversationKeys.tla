--------------------------- MODULE ConversationKeys ---------------------------
(***************************************************************************)
(* The conversation-key state of one ChatCore: which key version of a      *)
(* conversation is the newest one a signed key change proved (the high     *)
(* water), and the optional cache the encrypt methods resolve keys from.   *)
(*                                                                         *)
(* ChatCore is shared by reference, so decrypt_events, set_cache_keys and  *)
(* the encrypt methods run on any number of threads at once.  The state is *)
(* three separately locked cells: the high water (RwLock), the cache       *)
(* (RwLock) and the cache_keys flag (an atomic).  One action here is one   *)
(* critical section or one atomic access; between two of them any other    *)
(* thread may run.  What a call computes from its own arguments alone is   *)
(* folded into the step that starts it.                                    *)
(***************************************************************************)
EXTENDS Integers, FiniteSets, Sequences

CONSTANTS
    Threads,        \* threads calling into one ChatCore
    Conversations,  \* canonical conversation ids
    MaxVersion,     \* the largest version, u64::MAX in the code
    Spellings,      \* the strings a key change may give as its version
    NumberOf,       \* the number a spelling parses to; NoVersion: to none
    Spelled,        \* how a version is written out, as u64::to_string does
    Keys,           \* conversation keys
    Batches,        \* the batches of events a caller may pass to decrypt_events
    NoKey           \* not a key: nothing adopted, nothing cached, nothing opened

NoVersion == -1

Versions == 0 .. MaxVersion

VersionOrNone == Versions \cup {NoVersion}

(***************************************************************************)
(* An event of a batch, reduced to what this state depends on.  `opens` is *)
(* the key this chat's identity key decrypts from a key change's           *)
(* participant entries, `signed` the key its signature covers (NoKey when  *)
(* it verifies under no key), `format` what its signature version allows:  *)
(* "plaintext" from version 6 on, "legacy" below, "missing" when there is  *)
(* none.  `enforced`: its sequence number is at or above                   *)
(* CKEY_SIG_V6_ENFORCE_AFTER_SEQ.                                          *)
(*                                                                         *)
(* `version` is a spelling: a version may be written in several ways ("1", *)
(* "01", "+1").  A signature covers its number, the adopted keys are held  *)
(* by spelling, the high water and the cache by number.                    *)
(***************************************************************************)
KeyChanges ==
    [type : {"KeyChange"}, conv : Conversations, version : Spellings,
     opens : Keys \cup {NoKey}, signed : Keys \cup {NoKey},
     format : {"plaintext", "legacy", "missing"}, enforced : BOOLEAN]

OtherEvents == [type : {"Other"}, conv : Conversations]

Events == KeyChanges \cup OtherEvents

ASSUME MaxVersionAssumption == MaxVersion \in Nat
ASSUME KeysAssumption == NoKey \notin Keys
ASSUME SpellingsAssumption ==
    /\ NumberOf \in [Spellings -> VersionOrNone]
    /\ Spelled \in [Versions -> Spellings]
    /\ \A v \in Versions : NumberOf[Spelled[v]] = v
ASSUME BatchesAssumption == Batches \subseteq Seq(Events)

VARIABLES
    highWater,  \* conversation_key_high_water; NoVersion: no entry
    cacheKeys,  \* cache_keys
    cache,      \* conversation_key_cache; version NoVersion: no entry
    pc,         \* what each thread does next
    adopted,    \* per thread, the keys its decrypt_events adopted, by spelling
    verified,   \* per thread and conversation, the highest version it verified
    convs,      \* per thread, the conversations of its batch
    reported,   \* latest_version of the last call that reported for exactly
                \* these conversations (history)
    resolved    \* version the encrypt methods last resolved (history)

callVars == <<adopted, verified, convs>>
vars == <<highWater, cacheKeys, cache, pc, adopted, verified, convs,
          reported, resolved>>

NoEntry == [version |-> NoVersion, key |-> NoKey]

NoAdoption == [s \in Spellings |-> NoKey]

NothingVerified == [c \in Conversations |-> NoVersion]

Largest(S, m) == m \in S /\ \A n \in S : n <= m

MaxOr(S, default) ==
    IF \E m \in S : Largest(S, m) THEN CHOOSE m \in S : Largest(S, m)
                                  ELSE default

-----------------------------------------------------------------------------
(***************************************************************************)
(* decrypt_events, the part local to a call.                               *)
(***************************************************************************)
KeyChangesAt(batch, s) ==
    {i \in DOMAIN batch : batch[i].type = "KeyChange" /\ batch[i].version = s}

\* The event's signature covers `key`, in a format a receiver rebuilds.
SignsKey(event, key) ==
    /\ event.format = "plaintext"
    /\ key # NoKey
    /\ event.signed = key

\* extract_conversation_keys: of the key changes of a spelling that open, the
\* last in the batch wins, whatever conversation it is for.
Extracted(batch, opened) ==
    [s \in Spellings |->
        LET opening == {i \in KeyChangesAt(batch, s) \cap opened :
                            batch[i].opens # NoKey}
        IN  IF \E i \in opening : Largest(opening, i)
            THEN batch[CHOOSE i \in opening : Largest(opening, i)].opens
            ELSE NoKey]

\* enforce_ckey_signatures: an enforced key change that carries no signature
\* over the key adopted at its spelling takes that key out of the map.
Enforced(batch, keys, trusted) ==
    [s \in Spellings |->
        IF \E i \in KeyChangesAt(batch, s) :
              /\ batch[i].enforced
              /\ batch[i].format # "legacy"
              /\ ~(i \in trusted /\ SignsKey(batch[i], keys[s]))
        THEN NoKey
        ELSE keys[s]]

\* The versions of conversation c a key change of the batch verified for the
\* key adopted at its spelling, and the verified_max of apply_ckey_freshness.
VerifiedVersions(batch, keys, trusted, c) ==
    {v \in Versions :
        \E s \in Spellings : \E i \in KeyChangesAt(batch, s) \cap trusted :
            NumberOf[s] = v /\ batch[i].conv = c /\ SignsKey(batch[i], keys[s])}

\* A variant that takes an adopted key for a verified one.
VerifiedMaxOfAdopted(batch, keys, trusted) ==
    [c \in Conversations |->
        MaxOr({v \in Versions :
                  \E s \in Spellings : \E i \in KeyChangesAt(batch, s) :
                      NumberOf[s] = v /\ batch[i].conv = c /\ keys[s] # NoKey},
              NoVersion)]

VerifiedMax(batch, keys, trusted) ==
    [c \in Conversations |->
        MaxOr(VerifiedVersions(batch, keys, trusted, c), NoVersion)]

ConversationsOf(batch) == {batch[i].conv : i \in DOMAIN batch}

-----------------------------------------------------------------------------
Init ==
    /\ highWater = NothingVerified
    /\ cacheKeys = FALSE
    /\ cache = [c \in Conversations |-> NoEntry]
    /\ pc = [t \in Threads |-> "idle"]
    /\ adopted = [t \in Threads |-> NoAdoption]
    /\ verified = [t \in Threads |-> NothingVerified]
    /\ convs = [t \in Threads |-> {}]
    /\ reported = [C \in SUBSET Conversations |-> NoVersion]
    /\ resolved = NothingVerified

Goto(t, from, to) ==
    /\ pc[t] = from
    /\ pc' = [pc EXCEPT ![t] = to]

(***************************************************************************)
(* decrypt_events up to the high-water lock: signing keys resolved, keys   *)
(* extracted, enforced and verified.  The identity key and the signing-key *)
(* version are read once per event, while lock, unlock or set_identity may *)
(* run on another thread, so any subset of the key changes may open.  The  *)
(* signing keys are read once per call, passed or stored by                *)
(* set_signing_keys: `trusted` are the events they verify.                 *)
(***************************************************************************)
DecryptEvents(t, batch) ==
    /\ Goto(t, "idle", "raise")
    /\ \E opened, trusted \in SUBSET DOMAIN batch :
          LET keys == Enforced(batch, Extracted(batch, opened), trusted) IN
          /\ adopted' = [adopted EXCEPT ![t] = keys]
          /\ verified' = [verified EXCEPT ![t] = VerifiedMax(batch, keys, trusted)]
    /\ convs' = [convs EXCEPT ![t] = ConversationsOf(batch)]
    /\ UNCHANGED <<highWater, cacheKeys, cache, reported, resolved>>

\* A variant that overwrites the high water with whatever the batch verified.
RaisedUnordered(high, version) == IF version = NoVersion THEN high ELSE version

\* A variant that records the version to expect next.
RaisedPast(high, version) == IF version > high THEN version + 1 ELSE high

Raised(high, version) == IF version > high THEN version ELSE high

\* apply_ckey_freshness under the high-water write lock.
RaiseHighWater(t) ==
    /\ Goto(t, "raise", "check")
    /\ highWater' =
          [c \in Conversations |-> Raised(highWater[c], verified[t][c])]
    /\ UNCHANGED <<cacheKeys, cache, callVars, reported, resolved>>

\* apply_ckey_freshness, first load of cache_keys.
CheckCacheEnabled(t) ==
    /\ Goto(t, "check", IF cacheKeys THEN "fill" ELSE "report")
    /\ UNCHANGED <<highWater, cacheKeys, cache, callVars, reported, resolved>>

\* Variants: without the high-water comparison, and without the second load
\* of cache_keys under the lock.
CachesBelowHighWater(enabled, high, entry, version, key) ==
    enabled /\ version # NoVersion /\ key # NoKey /\ entry.version < version

CachesUnrechecked(enabled, high, entry, version, key) ==
    version # NoVersion /\ version = high /\ key # NoKey /\ entry.version < version

\* Whether a call caches the version it verified for a conversation: the
\* feature is still on, the version is the high water, its key was adopted,
\* and no entry at or above it is there.
Caches(enabled, high, entry, version, key) ==
    /\ enabled
    /\ version # NoVersion
    /\ version = high
    /\ key # NoKey
    /\ entry.version < version

\* The key adopted at a version as it is written out, whatever the spelling
\* that verified.
KeyAt(keys, version) ==
    IF version \in Versions THEN keys[Spelled[version]] ELSE NoKey

\* apply_ckey_freshness under the high-water read lock and the cache write
\* lock, which both last for the whole loop.
FillCache(t) ==
    /\ Goto(t, "fill", "report")
    /\ cache' =
          [c \in Conversations |->
              LET v == verified[t][c]
                  key == KeyAt(adopted[t], v)
              IN  IF Caches(cacheKeys, highWater[c], cache[c], v, key)
                  THEN [version |-> v, key |-> key]
                  ELSE cache[c]]
    /\ UNCHANGED <<highWater, cacheKeys, callVars, reported, resolved>>

\* The latest_version reported for conversations C.
LatestOf(high, C) == MaxOr({high[c] : c \in C}, NoVersion)

\* apply_ckey_freshness under the last high-water read lock, and the return
\* of decrypt_events, which changes none of this state after it.
ReportLatest(t) ==
    /\ Goto(t, "report", "idle")
    /\ reported' = [reported EXCEPT ![convs[t]] = LatestOf(highWater, convs[t])]
    /\ adopted' = [adopted EXCEPT ![t] = NoAdoption]
    /\ verified' = [verified EXCEPT ![t] = NothingVerified]
    /\ convs' = [convs EXCEPT ![t] = {}]
    /\ UNCHANGED <<highWater, cacheKeys, cache, resolved>>

-----------------------------------------------------------------------------
\* set_cache_keys(true).
EnableCache(t) ==
    /\ Goto(t, "idle", "idle")
    /\ cacheKeys' = TRUE
    /\ UNCHANGED <<highWater, cache, callVars, reported, resolved>>

\* set_cache_keys(false): the store, then the clear under the cache lock.
DisableCache(t) ==
    /\ Goto(t, "idle", "clear")
    /\ cacheKeys' = FALSE
    /\ UNCHANGED <<highWater, cache, callVars, reported, resolved>>

ClearedEntries == [c \in Conversations |-> NoEntry]

ClearCache(t) ==
    /\ Goto(t, "clear", "idle")
    /\ cache' = ClearedEntries
    /\ UNCHANGED <<highWater, cacheKeys, callVars, reported, resolved>>

-----------------------------------------------------------------------------
\* resolve_conversation_key with neither key nor version passed: the load of
\* cache_keys, which fails the call while the feature is off...
BeginResolve(t) ==
    /\ cacheKeys
    /\ Goto(t, "idle", "resolve")
    /\ UNCHANGED <<highWater, cacheKeys, cache, callVars, reported, resolved>>

\* ... then the lookup under the cache read lock, which fails it when the
\* conversation has no entry.
Resolve(t, c) ==
    /\ Goto(t, "resolve", "idle")
    /\ resolved' = IF cache[c] = NoEntry
                   THEN resolved
                   ELSE [resolved EXCEPT ![c] = cache[c].version]
    /\ UNCHANGED <<highWater, cacheKeys, cache, callVars, reported>>

Next ==
    \E t \in Threads :
        \/ \E batch \in Batches : DecryptEvents(t, batch)
        \/ RaiseHighWater(t)
        \/ CheckCacheEnabled(t)
        \/ FillCache(t)
        \/ ReportLatest(t)
        \/ EnableCache(t)
        \/ DisableCache(t)
        \/ ClearCache(t)
        \/ BeginResolve(t)
        \/ \E c \in Conversations : Resolve(t, c)

Spec == Init /\ [][Next]_vars

-----------------------------------------------------------------------------
(***************************************************************************)
(* Properties.                                                             *)
(***************************************************************************)
\* The type of the state.
TypeOK ==
    /\ highWater \in [Conversations -> VersionOrNone]
    /\ cacheKeys \in BOOLEAN
    /\ cache \in [Conversations -> [version : VersionOrNone, key : Keys \cup {NoKey}]]
    /\ pc \in [Threads -> {"idle", "raise", "check", "fill", "report",
                           "clear", "resolve"}]
    /\ adopted \in [Threads -> [Spellings -> Keys \cup {NoKey}]]
    /\ verified \in [Threads -> [Conversations -> VersionOrNone]]
    /\ convs \in [Threads -> SUBSET Conversations]
    /\ reported \in [SUBSET Conversations -> VersionOrNone]
    /\ resolved \in [Conversations -> VersionOrNone]

\* Some sender signed key `key` as version v of conversation c.
SignedIn(c, v, key) ==
    \E batch \in Batches, s \in Spellings : \E i \in KeyChangesAt(batch, s) :
        NumberOf[s] = v /\ batch[i].conv = c /\ SignsKey(batch[i], key)

\* A batch holds a signed version v of conversation c in another spelling.
RespelledIn(batch, c, v) ==
    \E s \in Spellings \ {Spelled[v]} : \E i \in KeyChangesAt(batch, s) :
        NumberOf[s] = v /\ batch[i].conv = c /\ SignsKey(batch[i], batch[i].signed)

Respelled(c, v) == \E batch \in Batches : RespelledIn(batch, c, v)

\* Beside one, a key change in the usual spelling, of any conversation and
\* signed or not, opens to `key`.
Displaces(c, v, key) ==
    \E batch \in Batches : \E i \in KeyChangesAt(batch, Spelled[v]) :
        RespelledIn(batch, c, v) /\ batch[i].opens = key

\* A cached version is one that a key change of that very conversation signed,
\* although the map of adopted keys is shared by all the conversations of a
\* batch and the last event of a spelling wins it, and the key is the one that
\* was signed, unless it displaced that one because its batch spells the same
\* version otherwise (conversation_key_cache).
CachedKeyIsSigned ==
    \A c \in Conversations :
        LET v == cache[c].version
            key == cache[c].key
        IN  cache[c] # NoEntry =>
              /\ \E k \in Keys : SignedIn(c, v, k)
              /\ SignedIn(c, v, key) \/ Displaces(c, v, key)

\* A thread between the high-water lock and the cache lock that will publish
\* conversation c's high water.
Publishing(t, c) == pc[t] \in {"check", "fill"} /\ verified[t][c] = highWater[c]

Clearing == \E t \in Threads : pc[t] = "clear"

\* A cached key below the high water is only a moment of a running call: a
\* thread that verified the newer version is about to publish it, or a thread
\* disabling the cache is about to clear it.  Once the calls return, the cache
\* of a conversation is empty or at its high water, unless that version came
\* in another spelling, under which the fill finds no key.
StaleOnlyInFlight ==
    \A c \in Conversations :
        /\ cache[c] # NoEntry
        /\ cache[c].version # highWater[c]
        /\ ~Respelled(c, highWater[c])
        => Clearing \/ \E t \in Threads : Publishing(t, c)

\* While the cache is off nothing stays in it, except until a set_cache_keys
\* (false) already under way clears it: a fill that raced the disabling store
\* leaves no entry behind.
DisabledLeavesNothing ==
    ~cacheKeys /\ (\E c \in Conversations : cache[c] # NoEntry) => Clearing

\* The reported latest_version is backed by a signed key change of one of the
\* batch's conversations.
LatestIsSigned ==
    \A C \in SUBSET Conversations :
        reported[C] # NoVersion =>
            \E c \in C : \E key \in Keys : SignedIn(c, reported[C], key)

\* latest_version is held monotonic: a later report for the same conversations
\* is never lower, whatever ran in between and however old the replayed batch.
LatestNeverRegresses ==
    [][\A C \in SUBSET Conversations : reported'[C] >= reported[C]]_reported

\* The version the encrypt methods resolve from the cache never goes back,
\* across disabling, clearing, enabling and refilling it.
ResolvedNeverRegresses ==
    [][\A c \in Conversations : resolved'[c] >= resolved[c]]_resolved

\* What is cached and what is reported rest on key changes of the conversation
\* that were signed, the key as far as CachedKeyIsSigned says.
OnlySignedKeys == CachedKeyIsSigned /\ LatestIsSigned

\* Neither what is reported nor what is resolved from the cache goes back.
NothingRegresses == LatestNeverRegresses /\ ResolvedNeverRegresses

\* What the documentation says, which a second spelling refutes: only a key
\* whose own key change carries a valid signature enters the cache, ...
OnlySignedKeysEnter ==
    \A c \in Conversations :
        cache[c] # NoEntry => SignedIn(c, cache[c].version, cache[c].key)

\* ... and the cached version is at the high water whenever no call is running.
CacheFollowsHighWater ==
    (\A t \in Threads : pc[t] = "idle") =>
        \A c \in Conversations :
            cache[c] # NoEntry => cache[c].version = highWater[c]

Promise == INSTANCE VerifiedKeyStore WITH Signed <- SignedIn

\* Every step of every thread is a step of the abstract key store, or leaves
\* it alone.
KeepsPromise == Promise!Spec
=============================================================================

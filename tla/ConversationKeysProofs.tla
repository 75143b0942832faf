------------------------ MODULE ConversationKeysProofs ------------------------
(***************************************************************************)
(* Proofs, for any number of threads, conversations, versions and keys and *)
(* any batches, of what MCConversationKeys checks on a small instance.     *)
(***************************************************************************)
EXTENDS ConversationKeys, WellFoundedInduction, TLAPS

(***************************************************************************)
(* The helper on sets of versions: a non-empty set of versions has a       *)
(* largest element, which is where the versions being bounded matters.     *)
(***************************************************************************)
LEMMA LargestExists ==
    ASSUME NEW S \in SUBSET VersionOrNone, S # {}
    PROVE  \E m \in S : Largest(S, m)
<1> DEFINE Distance(v) == MaxVersion - v
           T == {Distance(v) : v \in S}
           R == OpToRel(<, Nat)
<1>1. \A x, y \in Nat : x < y => <<x, y>> \in R
  BY DEF OpToRel
<1>2. T # {}
  OBVIOUS
<1>3. T \subseteq Nat
  <2>1. \A v \in VersionOrNone : Distance(v) \in Nat
    BY MaxVersionAssumption, SMT DEF VersionOrNone, Versions, NoVersion
  <2>2. QED
    BY <2>1
<1>4. PICK x \in T : \A y \in T : x <= y
  <2> HIDE DEF T, R
  <2>1. IsWellFoundedOn(R, Nat)
    BY NatLessThanWellFounded DEF R
  <2>2. PICK x \in T : \A y \in T : ~(<<y, x>> \in R)
    BY <1>2, <1>3, <2>1, WFMin
  <2>3. \A y \in T : ~(y < x)
    BY <1>1, <1>3, <2>2
  <2>4. \A y \in T : x <= y
    BY <1>3, <2>3
  <2>5. QED
    BY <2>4
<1>5. PICK m \in S : x = Distance(m)
  BY <1>4
<1>6. ASSUME NEW n \in S PROVE n <= m
  <2>1. Distance(m) <= Distance(n)
    BY <1>4, <1>5
  <2>2. QED
    BY <2>1, MaxVersionAssumption DEF VersionOrNone, Versions, NoVersion
<1>7. QED
  BY <1>6 DEF Largest

\* MaxOr is the default on the empty set and an upper bound in the set on any
\* other.
LEMMA MaxOrFacts ==
    ASSUME NEW S \in SUBSET VersionOrNone
    PROVE  /\ MaxOr(S, NoVersion) \in VersionOrNone
           /\ MaxOr(S, NoVersion) # NoVersion => MaxOr(S, NoVersion) \in S
           /\ \A n \in S : n <= MaxOr(S, NoVersion)
<1>1. CASE \E m \in S : Largest(S, m)
  BY <1>1 DEF MaxOr, Largest
<1>2. CASE ~ \E m \in S : Largest(S, m)
  BY <1>2, LargestExists DEF MaxOr, VersionOrNone
<1>3. QED
  BY <1>1, <1>2

-----------------------------------------------------------------------------
(***************************************************************************)
(* The local part of decrypt_events.                                       *)
(***************************************************************************)
LEMMA KeyChangesAtType ==
    ASSUME NEW batch \in Batches, NEW s \in Spellings,
           NEW i \in KeyChangesAt(batch, s)
    PROVE  /\ i \in DOMAIN batch
           /\ batch[i] \in KeyChanges
<1>1. i \in DOMAIN batch /\ batch[i] \in Events
  BY BatchesAssumption DEF KeyChangesAt
<1>2. batch[i].type = "KeyChange"
  BY DEF KeyChangesAt
<1>3. QED
  BY <1>1, <1>2 DEF Events, KeyChanges, OtherEvents

\* What is extracted for a spelling is nothing, or what a key change of that
\* spelling opens to.
LEMMA ExtractedFacts ==
    ASSUME NEW batch \in Batches, NEW opened
    PROVE  /\ Extracted(batch, opened) \in [Spellings -> Keys \cup {NoKey}]
           /\ \A s \in Spellings :
                 Extracted(batch, opened)[s] # NoKey =>
                     \E i \in KeyChangesAt(batch, s) :
                         batch[i].opens = Extracted(batch, opened)[s]
<1>1. ASSUME NEW s \in Spellings
      PROVE  /\ Extracted(batch, opened)[s] \in Keys \cup {NoKey}
             /\ Extracted(batch, opened)[s] # NoKey =>
                   \E i \in KeyChangesAt(batch, s) :
                       batch[i].opens = Extracted(batch, opened)[s]
  <2> DEFINE opening == {i \in KeyChangesAt(batch, s) \cap opened :
                            batch[i].opens # NoKey}
             last == CHOOSE i \in opening : Largest(opening, i)
  <2>1. Extracted(batch, opened)[s] =
            IF \E i \in opening : Largest(opening, i) THEN batch[last].opens ELSE NoKey
    BY DEF Extracted
  <2>2. ASSUME \E i \in opening : Largest(opening, i)
        PROVE  /\ last \in KeyChangesAt(batch, s)
               /\ batch[last].opens \in Keys \cup {NoKey}
    <3>1. last \in KeyChangesAt(batch, s)
      BY <2>2
    <3>2. batch[last] \in KeyChanges
      BY <3>1, KeyChangesAtType
    <3>3. QED
      BY <3>1, <3>2 DEF KeyChanges
  <2> HIDE DEF last, opening
  <2>3. QED
    BY <2>1, <2>2
<1>2. Extracted(batch, opened) \in [Spellings -> Keys \cup {NoKey}]
  <2>1. Extracted(batch, opened) = [s \in Spellings |-> Extracted(batch, opened)[s]]
    BY DEF Extracted
  <2>2. QED
    BY <1>1, <2>1
<1>3. QED
  BY <1>1, <1>2

\* Enforcement only takes keys away.
LEMMA EnforcedFacts ==
    ASSUME NEW batch, NEW trusted,
           NEW keys \in [Spellings -> Keys \cup {NoKey}]
    PROVE  /\ Enforced(batch, keys, trusted) \in [Spellings -> Keys \cup {NoKey}]
           /\ \A s \in Spellings : Enforced(batch, keys, trusted)[s] \in {keys[s], NoKey}
  BY DEF Enforced

\* The keys a call adopts from a batch.
Adopted(batch, opened, trusted) == Enforced(batch, Extracted(batch, opened), trusted)

LEMMA AdoptedFacts ==
    ASSUME NEW batch \in Batches, NEW opened, NEW trusted
    PROVE  /\ Adopted(batch, opened, trusted) \in [Spellings -> Keys \cup {NoKey}]
           /\ \A s \in Spellings :
                 Adopted(batch, opened, trusted)[s] # NoKey =>
                     \E i \in KeyChangesAt(batch, s) :
                         batch[i].opens = Adopted(batch, opened, trusted)[s]
<1>1. Extracted(batch, opened) \in [Spellings -> Keys \cup {NoKey}]
  BY ExtractedFacts
<1>2. /\ Adopted(batch, opened, trusted) \in [Spellings -> Keys \cup {NoKey}]
      /\ \A s \in Spellings :
            Adopted(batch, opened, trusted)[s] \in {Extracted(batch, opened)[s], NoKey}
  BY <1>1, EnforcedFacts DEF Adopted
<1>3. QED
  BY <1>2, ExtractedFacts

\* What stands behind a version a call carries for a conversation: some key
\* change of it signed that version, with the key the call adopted under the
\* usual spelling; or in another spelling, and then the call adopted nothing
\* under the usual one, or a key that displaces the signed one.
Backed(c, v, keys) ==
    /\ \E key \in Keys : SignedIn(c, v, key)
    /\ \/ SignedIn(c, v, keys[Spelled[v]])
       \/ /\ Respelled(c, v)
          /\ keys[Spelled[v]] = NoKey \/ Displaces(c, v, keys[Spelled[v]])

\* What a call verified for a conversation has the type of a version, and is
\* backed by the keys the call adopted.
LEMMA VerifiedMaxFacts ==
    ASSUME NEW batch \in Batches, NEW opened, NEW trusted
    PROVE  LET keys == Adopted(batch, opened, trusted) IN
           /\ VerifiedMax(batch, keys, trusted) \in [Conversations -> VersionOrNone]
           /\ \A c \in Conversations :
                 LET v == VerifiedMax(batch, keys, trusted)[c] IN
                 v # NoVersion => Backed(c, v, keys)
<1> DEFINE keys == Adopted(batch, opened, trusted)
<1>0. /\ keys \in [Spellings -> Keys \cup {NoKey}]
      /\ \A s \in Spellings : keys[s] # NoKey =>
            \E i \in KeyChangesAt(batch, s) : batch[i].opens = keys[s]
  BY AdoptedFacts
<1> HIDE DEF keys
<1> SUFFICES ASSUME NEW c \in Conversations
             PROVE  LET v == VerifiedMax(batch, keys, trusted)[c] IN
                    /\ v \in VersionOrNone
                    /\ v # NoVersion => Backed(c, v, keys)
  BY DEF VerifiedMax, keys
<1> DEFINE V == VerifiedVersions(batch, keys, trusted, c)
           v == MaxOr(V, NoVersion)
<1>1. VerifiedMax(batch, keys, trusted)[c] = v
  BY DEF VerifiedMax
<1>2. V \in SUBSET VersionOrNone
  BY DEF VerifiedVersions, VersionOrNone
<1>3. v \in VersionOrNone /\ (v # NoVersion => v \in V)
  BY <1>2, MaxOrFacts
<1>4. ASSUME v # NoVersion PROVE Backed(c, v, keys)
  <2>1. v \in V
    BY <1>3, <1>4
  <2> HIDE DEF v
  <2>2. v \in Versions
    BY <2>1 DEF VerifiedVersions
  <2>3. PICK s \in Spellings : \E i \in KeyChangesAt(batch, s) \cap trusted :
            NumberOf[s] = v /\ batch[i].conv = c /\ SignsKey(batch[i], keys[s])
    BY <2>1 DEF VerifiedVersions
  <2>4. PICK i \in KeyChangesAt(batch, s) :
            NumberOf[s] = v /\ batch[i].conv = c /\ SignsKey(batch[i], keys[s])
    BY <2>3
  <2>5. keys[s] \in Keys
    BY <1>0, <2>4 DEF SignsKey
  <2>6. SignedIn(c, v, keys[s])
    BY <2>4 DEF SignedIn
  <2>7. CASE s = Spelled[v]
    BY <2>5, <2>6, <2>7 DEF Backed
  <2>8. CASE s # Spelled[v]
    <3>1. RespelledIn(batch, c, v)
      BY <2>4, <2>8 DEF RespelledIn, SignsKey
    <3>2. Respelled(c, v)
      BY <3>1 DEF Respelled
    <3>3. ASSUME keys[Spelled[v]] # NoKey
          PROVE  Displaces(c, v, keys[Spelled[v]])
      <4>1. Spelled[v] \in Spellings
        BY <2>2, SpellingsAssumption
      <4>2. \E j \in KeyChangesAt(batch, Spelled[v]) : batch[j].opens = keys[Spelled[v]]
        BY <1>0, <3>3, <4>1
      <4>3. QED
        BY <3>1, <4>2 DEF Displaces
    <3>4. QED
      BY <2>5, <2>6, <3>2, <3>3 DEF Backed
  <2>9. QED
    BY <2>7, <2>8
<1>5. QED
  BY <1>1, <1>3, <1>4

\* The reported latest version is the high water of one of the conversations
\* and at least that of each.
LEMMA LatestOfFacts ==
    ASSUME NEW high \in [Conversations -> VersionOrNone],
           NEW C \in SUBSET Conversations
    PROVE  /\ LatestOf(high, C) \in VersionOrNone
           /\ LatestOf(high, C) # NoVersion => \E c \in C : LatestOf(high, C) = high[c]
           /\ \A c \in C : high[c] <= LatestOf(high, C)
<1>1. {high[c] : c \in C} \in SUBSET VersionOrNone
  OBVIOUS
<1>2. QED
  BY <1>1, MaxOrFacts DEF LatestOf

-----------------------------------------------------------------------------
(***************************************************************************)
(* Type correctness.                                                       *)
(***************************************************************************)

LEMMA EntryType ==
    NoEntry \in [version : VersionOrNone, key : Keys \cup {NoKey}]
  BY DEF NoEntry, VersionOrNone

LEMMA TypeInit == Init => TypeOK
<1> SUFFICES ASSUME Init PROVE TypeOK
  OBVIOUS
<1> USE DEF Init
<1>1. NothingVerified \in [Conversations -> VersionOrNone]
  BY DEF NothingVerified, VersionOrNone
<1>2. highWater \in [Conversations -> VersionOrNone]
      /\ resolved \in [Conversations -> VersionOrNone]
      /\ verified \in [Threads -> [Conversations -> VersionOrNone]]
  BY <1>1
<1>3. cache \in [Conversations -> [version : VersionOrNone, key : Keys \cup {NoKey}]]
  BY EntryType
<1>4. adopted \in [Threads -> [Spellings -> Keys \cup {NoKey}]]
  BY DEF NoAdoption
<1>5. reported \in [SUBSET Conversations -> VersionOrNone]
  BY DEF VersionOrNone
<1>6. convs \in [Threads -> SUBSET Conversations] /\ cacheKeys \in BOOLEAN
  OBVIOUS
<1>7. QED
  BY <1>2, <1>3, <1>4, <1>5, <1>6 DEF TypeOK

LEMMA TypeStep == TypeOK /\ [Next]_vars => TypeOK'
<1> SUFFICES ASSUME TypeOK, [Next]_vars PROVE TypeOK'
  OBVIOUS
<1> USE DEF TypeOK, Goto, callVars
<1>1. ASSUME NEW t \in Threads, NEW batch \in Batches, DecryptEvents(t, batch)
      PROVE  TypeOK'
  <2>1. PICK opened \in SUBSET DOMAIN batch, trusted \in SUBSET DOMAIN batch :
          LET keys == Adopted(batch, opened, trusted) IN
          /\ adopted' = [adopted EXCEPT ![t] = keys]
          /\ verified' = [verified EXCEPT ![t] = VerifiedMax(batch, keys, trusted)]
    BY <1>1 DEF DecryptEvents, Adopted
  <2> DEFINE keys == Adopted(batch, opened, trusted)
  <2>2. keys \in [Spellings -> Keys \cup {NoKey}]
    BY AdoptedFacts
  <2>3. VerifiedMax(batch, keys, trusted) \in [Conversations -> VersionOrNone]
    BY VerifiedMaxFacts
  <2>4. ConversationsOf(batch) \in SUBSET Conversations
    BY BatchesAssumption DEF ConversationsOf, Events, KeyChanges, OtherEvents
  <2>5. adopted' \in [Threads -> [Spellings -> Keys \cup {NoKey}]]
    BY <2>1, <2>2
  <2>6. verified' \in [Threads -> [Conversations -> VersionOrNone]]
    BY <2>1, <2>3
  <2>7. QED
    BY <1>1, <2>4, <2>5, <2>6 DEF DecryptEvents
<1>2. ASSUME NEW t \in Threads, RaiseHighWater(t)
      PROVE  TypeOK'
  <2>1. \A c \in Conversations : Raised(highWater[c], verified[t][c]) \in VersionOrNone
    BY DEF Raised
  <2>2. QED
    BY <1>2, <2>1 DEF RaiseHighWater
<1>3. ASSUME NEW t \in Threads, CheckCacheEnabled(t)
      PROVE  TypeOK'
  BY <1>3 DEF CheckCacheEnabled
<1>4. ASSUME NEW t \in Threads, FillCache(t)
      PROVE  TypeOK'
  <2>1. \A v \in VersionOrNone : KeyAt(adopted[t], v) \in Keys \cup {NoKey}
    BY SpellingsAssumption DEF KeyAt
  <2>2. \A c \in Conversations :
          [version |-> verified[t][c], key |-> KeyAt(adopted[t], verified[t][c])]
            \in [version : VersionOrNone, key : Keys \cup {NoKey}]
    BY <2>1
  <2>3. cache' \in [Conversations -> [version : VersionOrNone, key : Keys \cup {NoKey}]]
    BY <1>4, <2>2 DEF FillCache
  <2>4. QED
    BY <1>4, <2>3 DEF FillCache
<1>5. ASSUME NEW t \in Threads, ReportLatest(t)
      PROVE  TypeOK'
  <2>1. LatestOf(highWater, convs[t]) \in VersionOrNone
    BY LatestOfFacts
  <2>2. reported' \in [SUBSET Conversations -> VersionOrNone]
    BY <1>5, <2>1 DEF ReportLatest
  <2>3. adopted' \in [Threads -> [Spellings -> Keys \cup {NoKey}]]
    BY <1>5 DEF ReportLatest, NoAdoption
  <2>4. verified' \in [Threads -> [Conversations -> VersionOrNone]]
    BY <1>5 DEF ReportLatest, NothingVerified, VersionOrNone
  <2>5. QED
    BY <1>5, <2>2, <2>3, <2>4 DEF ReportLatest
<1>6. ASSUME NEW t \in Threads, EnableCache(t) \/ DisableCache(t)
      PROVE  TypeOK'
  BY <1>6 DEF EnableCache, DisableCache
<1>7. ASSUME NEW t \in Threads, ClearCache(t)
      PROVE  TypeOK'
  BY <1>7, EntryType DEF ClearCache, ClearedEntries
<1>8. ASSUME NEW t \in Threads, BeginResolve(t)
      PROVE  TypeOK'
  BY <1>8 DEF BeginResolve
<1>9. ASSUME NEW t \in Threads, NEW c \in Conversations, Resolve(t, c)
      PROVE  TypeOK'
  <2>1. cache[c].version \in VersionOrNone
    OBVIOUS
  <2>2. resolved' \in [Conversations -> VersionOrNone]
    BY <1>9, <2>1 DEF Resolve
  <2>3. QED
    BY <1>9, <2>2 DEF Resolve
<1>10. CASE UNCHANGED vars
  BY <1>10 DEF vars
<1>11. QED
  BY <1>1, <1>2, <1>3, <1>4, <1>5, <1>6, <1>7, <1>8, <1>9, <1>10 DEF Next

\* The state keeps its type.
THEOREM TypeCorrect == Spec => []TypeOK
  BY TypeInit, TypeStep, PTL DEF Spec

-----------------------------------------------------------------------------
(***************************************************************************)
(* The inductive invariant.  What the properties say of the cache and of   *)
(* the reports is inductive only together with what a call carries from    *)
(* one lock to the next, and with the high water being above everything    *)
(* that was ever read off it.                                              *)
(***************************************************************************)

\* A call carries only versions that the keys it carries back.
CarriesBacked ==
    \A t \in Threads, c \in Conversations :
        verified[t][c] # NoVersion => Backed(c, verified[t][c], adopted[t])

\* Past the high-water lock, what a call verified is at most the high water.
CarriesRaised ==
    \A t \in Threads, c \in Conversations :
        pc[t] \in {"check", "fill", "report"} => verified[t][c] <= highWater[c]

HighWaterIsSigned ==
    \A c \in Conversations :
        highWater[c] # NoVersion => \E key \in Keys : SignedIn(c, highWater[c], key)

\* Nothing read off the state is above the high water, and what the encrypt
\* methods resolved is at most the entry that is there now.
BelowHighWater ==
    /\ \A c \in Conversations :
          /\ cache[c].version <= highWater[c]
          /\ resolved[c] <= highWater[c]
          /\ cache[c] # NoEntry => resolved[c] <= cache[c].version
    /\ \A C \in SUBSET Conversations : reported[C] <= LatestOf(highWater, C)

IInv ==
    /\ TypeOK
    /\ CarriesBacked
    /\ CarriesRaised
    /\ HighWaterIsSigned
    /\ BelowHighWater
    /\ CachedKeyIsSigned
    /\ StaleOnlyInFlight
    /\ DisabledLeavesNothing
    /\ LatestIsSigned

LEMMA InvInit == Init => IInv
<1> SUFFICES ASSUME Init PROVE IInv
  OBVIOUS
<1>1. TypeOK
  BY TypeInit
<1>2. highWater = NothingVerified /\ resolved = NothingVerified
      /\ \A t \in Threads : verified[t] = NothingVerified
  BY DEF Init
<1>3. \A c \in Conversations : cache[c] = NoEntry
  BY DEF Init
<1>4. \A C \in SUBSET Conversations : reported[C] = NoVersion
  BY DEF Init
<1>5. CarriesBacked /\ HighWaterIsSigned /\ LatestIsSigned
  BY <1>2, <1>4 DEF CarriesBacked, HighWaterIsSigned, LatestIsSigned, NothingVerified
<1>6. CarriesRaised
  BY DEF Init, CarriesRaised
<1>7. BelowHighWater
  <2>1. \A C \in SUBSET Conversations : NoVersion <= LatestOf(highWater, C)
    <3> SUFFICES ASSUME NEW C \in SUBSET Conversations
                 PROVE  NoVersion <= LatestOf(highWater, C)
      OBVIOUS
    <3>1. LatestOf(highWater, C) \in VersionOrNone
      BY <1>1, LatestOfFacts DEF TypeOK
    <3>2. QED
      BY <3>1, MaxVersionAssumption DEF VersionOrNone, Versions, NoVersion
  <2>2. QED
    BY <1>2, <1>3, <1>4, <2>1 DEF BelowHighWater, NothingVerified, NoEntry, NoVersion
<1>8. CachedKeyIsSigned /\ StaleOnlyInFlight /\ DisabledLeavesNothing
  BY <1>3 DEF CachedKeyIsSigned, StaleOnlyInFlight, DisabledLeavesNothing
<1>9. QED
  BY <1>1, <1>5, <1>6, <1>7, <1>8 DEF IInv

\* The order on versions, NoVersion below them all.
LEMMA VersionOrder ==
    /\ VersionOrNone \subseteq Int
    /\ \A v \in VersionOrNone : v # NoVersion <=> v \in Versions
    /\ \A v \in VersionOrNone : NoVersion <= v
  BY MaxVersionAssumption DEF VersionOrNone, Versions, NoVersion

\* The numbers of a state of the right type are integers.
LEMMA StateIsInt ==
    ASSUME TypeOK
    PROVE  /\ \A c \in Conversations : /\ highWater[c] \in Int
                                       /\ resolved[c] \in Int
                                       /\ cache[c].version \in Int
           /\ \A t \in Threads, c \in Conversations : verified[t][c] \in Int
           /\ \A C \in SUBSET Conversations : reported[C] \in Int
<1>1. \A v \in VersionOrNone : v \in Int
  BY VersionOrder
<1>2. QED
  BY <1>1 DEF TypeOK

\* A key that some key change signs is a key.
LEMMA SignedIsKey ==
    ASSUME NEW c, NEW v, NEW k, SignedIn(c, v, k)
    PROVE  k \in Keys
<1>1. PICK batch \in Batches, s \in Spellings : \E i \in KeyChangesAt(batch, s) :
          SignsKey(batch[i], k)
  BY DEF SignedIn
<1>2. PICK i \in KeyChangesAt(batch, s) : SignsKey(batch[i], k)
  BY <1>1
<1>3. batch[i] \in KeyChanges
  BY KeyChangesAtType
<1>4. QED
  BY <1>2, <1>3 DEF KeyChanges, SignsKey

\* A step that leaves the high water, the cache and the flag alone and moves
\* one thread between places where it publishes and clears nothing keeps what
\* the invariant says of the cache.
LEMMA CachePartKept ==
    ASSUME TypeOK, StaleOnlyInFlight, DisabledLeavesNothing,
           NEW t \in Threads,
           UNCHANGED <<highWater, cacheKeys, cache>>,
           pc[t] \in {"idle", "report", "resolve"},
           \A u \in Threads \ {t} : pc'[u] = pc[u] /\ verified'[u] = verified[u]
    PROVE  StaleOnlyInFlight' /\ DisabledLeavesNothing'
<1>1. Clearing => Clearing'
  BY DEF Clearing
<1>2. \A u \in Threads, c \in Conversations : Publishing(u, c) => Publishing(u, c)'
  BY DEF Publishing
<1>3. QED
  BY <1>1, <1>2 DEF StaleOnlyInFlight, DisabledLeavesNothing

-----------------------------------------------------------------------------
(***************************************************************************)
(* Each action keeps the invariant (TypeOK' is TypeStep's).                *)
(***************************************************************************)
LEMMA DecryptEventsKeepsInv ==
    ASSUME IInv, TypeOK', NEW t \in Threads, NEW batch \in Batches,
           DecryptEvents(t, batch)
    PROVE  IInv'
<1> USE DEF IInv, TypeOK
<1>1. /\ pc[t] = "idle"
      /\ pc' = [pc EXCEPT ![t] = "raise"]
      /\ UNCHANGED <<highWater, cacheKeys, cache, reported, resolved>>
  BY DEF DecryptEvents, Goto
<1>2. PICK opened \in SUBSET DOMAIN batch, trusted \in SUBSET DOMAIN batch :
        LET keys == Adopted(batch, opened, trusted) IN
        /\ adopted' = [adopted EXCEPT ![t] = keys]
        /\ verified' = [verified EXCEPT ![t] = VerifiedMax(batch, keys, trusted)]
  BY DEF DecryptEvents, Adopted
<1>3. CarriesBacked'
  <2> DEFINE keys == Adopted(batch, opened, trusted)
  <2>2. \A c \in Conversations :
          LET v == VerifiedMax(batch, keys, trusted)[c] IN
          v # NoVersion => Backed(c, v, keys)
    BY VerifiedMaxFacts
  <2>3. adopted'[t] = keys /\ verified'[t] = VerifiedMax(batch, keys, trusted)
    BY <1>2
  <2>4. \A u \in Threads \ {t} : adopted'[u] = adopted[u] /\ verified'[u] = verified[u]
    BY <1>2
  <2> HIDE DEF keys
  <2>5. QED
    BY <2>2, <2>3, <2>4 DEF CarriesBacked
<1>4. CarriesRaised'
  <2>1. \A u \in Threads \ {t} : pc'[u] = pc[u] /\ verified'[u] = verified[u]
    BY <1>1, <1>2
  <2>2. pc'[t] = "raise"
    BY <1>1
  <2>3. QED
    BY <1>1, <2>1, <2>2 DEF CarriesRaised
<1>5. StaleOnlyInFlight' /\ DisabledLeavesNothing'
  BY <1>1, <1>2, CachePartKept
<1>6. HighWaterIsSigned' /\ BelowHighWater' /\ CachedKeyIsSigned' /\ LatestIsSigned'
  BY <1>1 DEF HighWaterIsSigned, BelowHighWater, CachedKeyIsSigned, LatestIsSigned
<1>7. QED
  BY <1>3, <1>4, <1>5, <1>6

LEMMA RaiseHighWaterKeepsInv ==
    ASSUME IInv, TypeOK', NEW t \in Threads, RaiseHighWater(t)
    PROVE  IInv'
<1>0. /\ \A c \in Conversations :
            /\ highWater[c] \in Int /\ highWater'[c] \in Int
            /\ resolved[c] \in Int /\ cache[c].version \in Int
      /\ \A u \in Threads, c \in Conversations : verified[u][c] \in Int
  <2>1. \A c \in Conversations : highWater'[c] \in Int
    BY VersionOrder DEF TypeOK
  <2>2. QED
    BY <2>1, StateIsInt DEF IInv
<1> USE DEF IInv, TypeOK
<1>1. /\ pc[t] = "raise"
      /\ pc' = [pc EXCEPT ![t] = "check"]
      /\ UNCHANGED <<cacheKeys, cache, adopted, verified, convs, reported, resolved>>
  BY DEF RaiseHighWater, Goto, callVars
<1>2. \A c \in Conversations :
        /\ highWater'[c] = highWater[c] \/ highWater'[c] = verified[t][c]
        /\ highWater[c] <= highWater'[c]
        /\ verified[t][c] <= highWater'[c]
  <2> SUFFICES ASSUME NEW c \in Conversations
               PROVE  /\ highWater'[c] = highWater[c] \/ highWater'[c] = verified[t][c]
                      /\ highWater[c] <= highWater'[c]
                      /\ verified[t][c] <= highWater'[c]
    OBVIOUS
  <2>1. highWater[c] \in Int /\ verified[t][c] \in Int
    BY <1>0
  <2>2. highWater'[c] = IF verified[t][c] > highWater[c] THEN verified[t][c]
                                                         ELSE highWater[c]
    BY DEF RaiseHighWater, Raised
  <2> HIDE DEF IInv, TypeOK
  <2>3. QED
    BY <2>1, <2>2
<1>3. CarriesBacked'
  BY <1>1 DEF CarriesBacked
<1>4. CarriesRaised'
  <2> SUFFICES ASSUME NEW u \in Threads, NEW c \in Conversations,
                      pc'[u] \in {"check", "fill", "report"}
               PROVE  verified'[u][c] <= highWater'[c]
    BY DEF CarriesRaised
  <2>1. CASE u = t
    BY <1>1, <1>2, <2>1
  <2>2. CASE u # t
    <3>1. verified[u][c] <= highWater[c]
      BY <1>1, <2>2 DEF CarriesRaised
    <3>2. /\ verified[u][c] \in Int /\ highWater[c] \in Int
          /\ highWater'[c] \in Int /\ highWater[c] <= highWater'[c]
      BY <1>0, <1>2
    <3>3. verified'[u][c] = verified[u][c]
      BY <1>1
    <3> HIDE DEF IInv, TypeOK
    <3>4. QED
      BY <3>1, <3>2, <3>3
  <2>3. QED
    BY <2>1, <2>2
<1>5. HighWaterIsSigned'
  <2> SUFFICES ASSUME NEW c \in Conversations, highWater'[c] # NoVersion
               PROVE  \E key \in Keys : SignedIn(c, highWater'[c], key)
    BY DEF HighWaterIsSigned
  <2>1. CASE highWater'[c] = highWater[c]
    BY <2>1 DEF HighWaterIsSigned
  <2>2. CASE highWater'[c] = verified[t][c]
    <3>1. Backed(c, highWater'[c], adopted[t])
      BY <2>2 DEF CarriesBacked
    <3>2. QED
      BY <3>1 DEF Backed
  <2>3. QED
    BY <1>2, <2>1, <2>2
<1>6. BelowHighWater'
  <2>1. ASSUME NEW c \in Conversations
        PROVE  /\ cache'[c].version <= highWater'[c]
               /\ resolved'[c] <= highWater'[c]
               /\ cache'[c] # NoEntry => resolved'[c] <= cache'[c].version
    <3>1. /\ cache[c].version <= highWater[c]
          /\ resolved[c] <= highWater[c]
          /\ cache[c] # NoEntry => resolved[c] <= cache[c].version
      BY DEF BelowHighWater
    <3>2. /\ cache[c].version \in Int /\ resolved[c] \in Int
          /\ highWater[c] \in Int /\ highWater'[c] \in Int
          /\ highWater[c] <= highWater'[c]
      BY <1>0, <1>2
    <3>3. cache'[c] = cache[c] /\ resolved'[c] = resolved[c]
      BY <1>1
    <3> HIDE DEF IInv, TypeOK
    <3>4. QED
      BY <3>1, <3>2, <3>3
  <2>2. ASSUME NEW C \in SUBSET Conversations
        PROVE  reported'[C] <= LatestOf(highWater', C)
    <3>1. reported[C] <= LatestOf(highWater, C)
      BY DEF BelowHighWater
    <3>2. LatestOf(highWater, C) <= LatestOf(highWater', C)
      <4>1. LatestOf(highWater, C) \in VersionOrNone
            /\ LatestOf(highWater', C) \in VersionOrNone
        BY LatestOfFacts
      <4>2. CASE LatestOf(highWater, C) = NoVersion
        BY <4>1, <4>2, VersionOrder
      <4>3. CASE LatestOf(highWater, C) # NoVersion
        <5>1. PICK c \in C : LatestOf(highWater, C) = highWater[c]
          BY <4>3, LatestOfFacts
        <5>2. highWater'[c] <= LatestOf(highWater', C)
          BY LatestOfFacts
        <5>3. /\ highWater[c] \in Int /\ highWater'[c] \in Int
              /\ highWater[c] <= highWater'[c]
          BY <1>0, <1>2
        <5>4. LatestOf(highWater', C) \in Int
          BY <4>1, VersionOrder
        <5> HIDE DEF IInv, TypeOK
        <5>5. QED
          BY <5>1, <5>2, <5>3, <5>4
      <4>4. QED
        BY <4>2, <4>3
    <3>3. LatestOf(highWater, C) \in Int /\ LatestOf(highWater', C) \in Int
          /\ reported[C] \in Int
      BY LatestOfFacts, VersionOrder
    <3>4. QED
      BY <1>1, <3>1, <3>2, <3>3
  <2>3. QED
    BY <2>1, <2>2 DEF BelowHighWater
<1>7. StaleOnlyInFlight'
  <2> SUFFICES ASSUME NEW c \in Conversations,
                      cache'[c] # NoEntry, cache'[c].version # highWater'[c],
                      ~Respelled(c, highWater'[c])
               PROVE  Clearing' \/ \E u \in Threads : Publishing(u, c)'
    BY DEF StaleOnlyInFlight
  <2>1. CASE highWater'[c] = verified[t][c]
    BY <1>1, <2>1 DEF Publishing
  <2>2. CASE highWater'[c] = highWater[c]
    <3>1. Clearing \/ \E u \in Threads : Publishing(u, c)
      BY <1>1, <2>2 DEF StaleOnlyInFlight
    <3>2. Clearing => Clearing'
      BY <1>1 DEF Clearing
    <3>3. \A u \in Threads : Publishing(u, c) => Publishing(u, c)'
      BY <1>1, <2>2 DEF Publishing
    <3>4. QED
      BY <3>1, <3>2, <3>3
  <2>3. QED
    BY <1>2, <2>1, <2>2
<1>8. DisabledLeavesNothing'
  <2>1. Clearing => Clearing'
    BY <1>1 DEF Clearing
  <2>2. QED
    BY <1>1, <2>1 DEF DisabledLeavesNothing
<1>9. CachedKeyIsSigned' /\ LatestIsSigned'
  BY <1>1 DEF CachedKeyIsSigned, LatestIsSigned
<1>10. QED
  BY <1>3, <1>4, <1>5, <1>6, <1>7, <1>8, <1>9

LEMMA CheckCacheEnabledKeepsInv ==
    ASSUME IInv, TypeOK', NEW t \in Threads, CheckCacheEnabled(t)
    PROVE  IInv'
<1> USE DEF IInv, TypeOK
<1>1. /\ pc[t] = "check"
      /\ pc' = [pc EXCEPT ![t] = IF cacheKeys THEN "fill" ELSE "report"]
      /\ UNCHANGED <<highWater, cacheKeys, cache, adopted, verified, convs,
                     reported, resolved>>
  BY DEF CheckCacheEnabled, Goto, callVars
<1>2. Clearing => Clearing'
  BY <1>1 DEF Clearing
<1>3. StaleOnlyInFlight'
  <2> SUFFICES ASSUME NEW c \in Conversations,
                      cache[c] # NoEntry, cache[c].version # highWater[c],
                      ~Respelled(c, highWater[c])
               PROVE  Clearing' \/ \E u \in Threads : Publishing(u, c)'
    BY <1>1 DEF StaleOnlyInFlight
  <2>1. CASE cacheKeys
    <3>1. \A u \in Threads : Publishing(u, c) => Publishing(u, c)'
      BY <1>1, <2>1 DEF Publishing
    <3>2. QED
      BY <1>2, <3>1 DEF StaleOnlyInFlight
  \* A thread that finds the cache off publishes nothing, but an entry that is
  \* there while the cache is off is about to be cleared.
  <2>2. CASE ~cacheKeys
    BY <1>2, <2>2 DEF DisabledLeavesNothing
  <2>3. QED
    BY <2>1, <2>2
<1>4. CarriesRaised'
  BY <1>1 DEF CarriesRaised
<1>5. DisabledLeavesNothing'
  BY <1>1, <1>2 DEF DisabledLeavesNothing
<1>6. CarriesBacked' /\ HighWaterIsSigned' /\ BelowHighWater'
      /\ CachedKeyIsSigned' /\ LatestIsSigned'
  BY <1>1 DEF CarriesBacked, HighWaterIsSigned, BelowHighWater,
              CachedKeyIsSigned, LatestIsSigned
<1>7. QED
  BY <1>3, <1>4, <1>5, <1>6

LEMMA FillCacheKeepsInv ==
    ASSUME IInv, TypeOK', NEW t \in Threads, FillCache(t)
    PROVE  IInv'
<1>0. \A c \in Conversations :
        /\ highWater[c] \in Int /\ resolved[c] \in Int
        /\ cache[c].version \in Int /\ verified[t][c] \in Int
  BY StateIsInt DEF IInv
<1> USE DEF IInv, TypeOK
<1>1. /\ pc[t] = "fill"
      /\ pc' = [pc EXCEPT ![t] = "report"]
      /\ UNCHANGED <<highWater, cacheKeys, adopted, verified, convs,
                     reported, resolved>>
  BY DEF FillCache, Goto, callVars
<1> DEFINE v(c) == verified[t][c]
           key(c) == KeyAt(adopted[t], v(c))
           Fills(c) == Caches(cacheKeys, highWater[c], cache[c], v(c), key(c))
<1>2. \A c \in Conversations :
        /\ Fills(c) => cache'[c].version = v(c) /\ cache'[c].key = key(c)
        /\ ~Fills(c) => cache'[c] = cache[c]
  BY DEF FillCache
<1>2a. \A c \in Conversations : Fills(c) => v(c) # NoVersion /\ v(c) = highWater[c]
  <2> HIDE DEF IInv, TypeOK
  <2>1. QED
    BY DEF Caches
<1>3. \A c \in Conversations : v(c) # NoVersion =>
        /\ \E k \in Keys : SignedIn(c, v(c), k)
        /\ \/ SignedIn(c, v(c), key(c))
           \/ Respelled(c, v(c)) /\ (key(c) = NoKey \/ Displaces(c, v(c), key(c)))
  <2> SUFFICES ASSUME NEW c \in Conversations, v(c) # NoVersion
               PROVE  /\ \E k \in Keys : SignedIn(c, v(c), k)
                      /\ \/ SignedIn(c, v(c), key(c))
                         \/ /\ Respelled(c, v(c))
                            /\ key(c) = NoKey \/ Displaces(c, v(c), key(c))
    OBVIOUS
  <2>1. v(c) \in Versions
    <3>1. v(c) \in VersionOrNone
      BY DEF TypeOK
    <3> HIDE DEF IInv, TypeOK
    <3>2. QED
      BY <3>1, VersionOrder
  <2>2. key(c) = adopted[t][Spelled[v(c)]]
    BY <2>1 DEF KeyAt
  <2>3. Backed(c, v(c), adopted[t])
    BY DEF CarriesBacked
  <2> HIDE DEF v, key, IInv, TypeOK
  <2>4. QED
    BY <2>2, <2>3 DEF Backed
<1>4. CachedKeyIsSigned'
  <2> SUFFICES ASSUME NEW c \in Conversations, cache'[c] # NoEntry
               PROVE  /\ \E k \in Keys : SignedIn(c, cache'[c].version, k)
                      /\ \/ SignedIn(c, cache'[c].version, cache'[c].key)
                         \/ Displaces(c, cache'[c].version, cache'[c].key)
    BY DEF CachedKeyIsSigned
  <2>1. CASE Fills(c)
    <3>1. key(c) # NoKey
      BY <2>1 DEF Caches
    <3> HIDE DEF v, key, IInv, TypeOK
    <3>2. QED
      BY <1>2, <1>2a, <1>3, <2>1, <3>1
  <2>2. CASE ~Fills(c)
    BY <1>2, <2>2 DEF CachedKeyIsSigned
  <2>3. QED
    BY <2>1, <2>2
<1>5. BelowHighWater'
  <2>1. ASSUME NEW c \in Conversations
        PROVE  /\ cache'[c].version <= highWater[c]
               /\ resolved[c] <= highWater[c]
               /\ cache'[c] # NoEntry => resolved[c] <= cache'[c].version
    <3>1. resolved[c] <= highWater[c]
      BY DEF BelowHighWater
    <3>2. CASE Fills(c)
      <4>1. cache'[c].version = highWater[c]
        BY <1>2, <1>2a, <3>2
      <4> HIDE DEF IInv, TypeOK
      <4>2. QED
        BY <1>0, <3>1, <4>1
    <3>3. CASE ~Fills(c)
      BY <1>2, <3>3 DEF BelowHighWater
    <3>4. QED
      BY <3>2, <3>3
  <2>2. QED
    BY <1>1, <2>1 DEF BelowHighWater
<1>6. Clearing => Clearing'
  BY <1>1 DEF Clearing
<1>7. DisabledLeavesNothing'
  <2>1. ~cacheKeys => \A c \in Conversations : cache'[c] = cache[c]
    BY <1>2 DEF Caches
  <2>2. QED
    BY <1>1, <1>6, <2>1 DEF DisabledLeavesNothing
<1>8. StaleOnlyInFlight'
  <2> SUFFICES ASSUME NEW c \in Conversations,
                      cache'[c] # NoEntry, cache'[c].version # highWater[c],
                      ~Respelled(c, highWater[c])
               PROVE  Clearing' \/ \E u \in Threads : Publishing(u, c)'
    BY <1>1 DEF StaleOnlyInFlight
  <2>1. ~Fills(c) /\ cache'[c] = cache[c]
    BY <1>2 DEF Caches
  <2>2. CASE Clearing
    BY <1>6, <2>2
  <2>3. CASE \E u \in Threads \ {t} : Publishing(u, c)
    BY <1>1, <2>3 DEF Publishing
  \* t itself was to publish c's high water and did not: because the cache is
  \* off, and then what is there is about to be cleared.
  <2>4. CASE Publishing(t, c)
    <3>1. v(c) = highWater[c]
      BY <2>4 DEF Publishing
    <3>2. cache[c].version < highWater[c]
      <4>1. cache[c].version <= highWater[c]
        BY DEF BelowHighWater
      <4> HIDE DEF IInv, TypeOK
      <4>2. QED
        BY <1>0, <2>1, <4>1
    <3>3. v(c) # NoVersion
      <4>1. cache[c].version \in VersionOrNone
        OBVIOUS
      <4>2. NoVersion <= cache[c].version
        BY <4>1, VersionOrder
      <4> HIDE DEF IInv, TypeOK
      <4>3. QED
        BY <1>0, <3>1, <3>2, <4>2 DEF NoVersion
    <3>4. key(c) # NoKey
      <4>1. SignedIn(c, v(c), key(c))
        BY <1>3, <3>1, <3>3
      <4>2. QED
        BY <4>1, SignedIsKey, KeysAssumption
    <3>5. ~cacheKeys
      BY <2>1, <3>1, <3>2, <3>3, <3>4 DEF Caches
    <3>6. QED
      BY <1>6, <2>1, <3>5 DEF DisabledLeavesNothing
  <2>5. QED
    BY <2>1, <2>2, <2>3, <2>4 DEF StaleOnlyInFlight
<1>9. CarriesBacked' /\ CarriesRaised' /\ HighWaterIsSigned' /\ LatestIsSigned'
  BY <1>1 DEF CarriesBacked, CarriesRaised, HighWaterIsSigned, LatestIsSigned
<1>10. QED
  BY <1>4, <1>5, <1>7, <1>8, <1>9

LEMMA ReportLatestKeepsInv ==
    ASSUME IInv, TypeOK', NEW t \in Threads, ReportLatest(t)
    PROVE  IInv'
<1> USE DEF IInv, TypeOK
<1>1. /\ pc[t] = "report"
      /\ pc' = [pc EXCEPT ![t] = "idle"]
      /\ reported' = [reported EXCEPT ![convs[t]] = LatestOf(highWater, convs[t])]
      /\ adopted' = [adopted EXCEPT ![t] = NoAdoption]
      /\ verified' = [verified EXCEPT ![t] = NothingVerified]
      /\ UNCHANGED <<highWater, cacheKeys, cache, resolved>>
  BY DEF ReportLatest, Goto
<1>2. CarriesBacked'
  BY <1>1 DEF CarriesBacked, NothingVerified
<1>3. CarriesRaised'
  BY <1>1 DEF CarriesRaised
<1>4. StaleOnlyInFlight' /\ DisabledLeavesNothing'
  BY <1>1, CachePartKept
<1>5. \A C \in SUBSET Conversations :
        reported'[C] = reported[C] \/ reported'[C] = LatestOf(highWater, C)
  BY <1>1
<1>6. LatestIsSigned'
  <2> SUFFICES ASSUME NEW C \in SUBSET Conversations, reported'[C] # NoVersion
               PROVE  \E c \in C : \E key \in Keys : SignedIn(c, reported'[C], key)
    BY DEF LatestIsSigned
  <2>1. CASE reported'[C] = reported[C]
    BY <2>1 DEF LatestIsSigned
  <2>2. CASE reported'[C] = LatestOf(highWater, C)
    <3>1. PICK c \in C : LatestOf(highWater, C) = highWater[c]
      BY <2>2, LatestOfFacts
    <3>2. QED
      BY <2>2, <3>1 DEF HighWaterIsSigned
  <2>3. QED
    BY <1>5, <2>1, <2>2
<1>7. BelowHighWater'
  <2>1. ASSUME NEW C \in SUBSET Conversations
        PROVE  reported'[C] <= LatestOf(highWater, C)
    <3>1. CASE reported'[C] = reported[C]
      BY <3>1 DEF BelowHighWater
    <3>2. CASE reported'[C] = LatestOf(highWater, C)
      <4>1. LatestOf(highWater, C) \in Int
        BY LatestOfFacts, VersionOrder
      <4> HIDE DEF IInv, TypeOK
      <4>2. QED
        BY <3>2, <4>1
    <3>3. QED
      BY <1>5, <3>1, <3>2
  <2>2. QED
    BY <1>1, <2>1 DEF BelowHighWater
<1>8. HighWaterIsSigned' /\ CachedKeyIsSigned'
  BY <1>1 DEF HighWaterIsSigned, CachedKeyIsSigned
<1>9. QED
  BY <1>2, <1>3, <1>4, <1>6, <1>7, <1>8

LEMMA SwitchCacheKeepsInv ==
    ASSUME IInv, TypeOK', NEW t \in Threads, EnableCache(t) \/ DisableCache(t)
    PROVE  IInv'
<1> USE DEF IInv, TypeOK
<1>1. /\ pc[t] = "idle"
      /\ \/ pc' = pc /\ cacheKeys'
         \/ pc' = [pc EXCEPT ![t] = "clear"]
      /\ UNCHANGED <<highWater, cache, adopted, verified, convs, reported, resolved>>
  BY DEF EnableCache, DisableCache, Goto, callVars
<1>2. Clearing => Clearing'
  BY <1>1 DEF Clearing
<1>3. \A u \in Threads, c \in Conversations : Publishing(u, c) => Publishing(u, c)'
  BY <1>1 DEF Publishing
<1>4. StaleOnlyInFlight'
  BY <1>1, <1>2, <1>3 DEF StaleOnlyInFlight
<1>5. DisabledLeavesNothing'
  BY <1>1, <1>2 DEF DisabledLeavesNothing, Clearing
<1>6. CarriesRaised'
  BY <1>1 DEF CarriesRaised
<1>7. CarriesBacked' /\ HighWaterIsSigned' /\ BelowHighWater'
      /\ CachedKeyIsSigned' /\ LatestIsSigned'
  BY <1>1 DEF CarriesBacked, HighWaterIsSigned, BelowHighWater,
              CachedKeyIsSigned, LatestIsSigned
<1>8. QED
  BY <1>4, <1>5, <1>6, <1>7

LEMMA ClearCacheKeepsInv ==
    ASSUME IInv, TypeOK', NEW t \in Threads, ClearCache(t)
    PROVE  IInv'
<1> USE DEF IInv, TypeOK
<1>1. /\ pc[t] = "clear"
      /\ pc' = [pc EXCEPT ![t] = "idle"]
      /\ \A c \in Conversations : cache'[c] = NoEntry
      /\ UNCHANGED <<highWater, cacheKeys, adopted, verified, convs,
                     reported, resolved>>
  BY DEF ClearCache, ClearedEntries, Goto, callVars
<1>2. StaleOnlyInFlight' /\ DisabledLeavesNothing' /\ CachedKeyIsSigned'
  BY <1>1 DEF StaleOnlyInFlight, DisabledLeavesNothing, CachedKeyIsSigned
<1>3. BelowHighWater'
  <2>1. \A c \in Conversations : NoVersion <= highWater[c]
    BY VersionOrder
  <2>2. QED
    BY <1>1, <2>1 DEF BelowHighWater, NoEntry
<1>4. CarriesRaised'
  BY <1>1 DEF CarriesRaised
<1>5. CarriesBacked' /\ HighWaterIsSigned' /\ LatestIsSigned'
  BY <1>1 DEF CarriesBacked, HighWaterIsSigned, LatestIsSigned
<1>6. QED
  BY <1>2, <1>3, <1>4, <1>5

LEMMA ResolveKeepsInv ==
    ASSUME IInv, TypeOK', NEW t \in Threads,
           BeginResolve(t) \/ \E c \in Conversations : Resolve(t, c)
    PROVE  IInv'
<1> USE DEF IInv, TypeOK
<1>1. /\ pc[t] \in {"idle", "resolve"}
      /\ pc' \in {[pc EXCEPT ![t] = "resolve"], [pc EXCEPT ![t] = "idle"]}
      /\ UNCHANGED <<highWater, cacheKeys, cache, adopted, verified, convs, reported>>
  BY DEF BeginResolve, Resolve, Goto, callVars
<1>2. \A c \in Conversations :
        \/ resolved'[c] = resolved[c]
        \/ cache[c] # NoEntry /\ resolved'[c] = cache[c].version
  BY DEF BeginResolve, Resolve
<1>3. StaleOnlyInFlight' /\ DisabledLeavesNothing'
  BY <1>1, CachePartKept
<1>4. BelowHighWater'
  <2>1. ASSUME NEW c \in Conversations
        PROVE  /\ resolved'[c] <= highWater[c]
               /\ cache[c] # NoEntry => resolved'[c] <= cache[c].version
    <3>1. CASE resolved'[c] = resolved[c]
      BY <3>1 DEF BelowHighWater
    <3>2. CASE resolved'[c] = cache[c].version
      <4>1. cache[c].version <= highWater[c]
        BY DEF BelowHighWater
      <4>2. cache[c].version \in Int
        BY StateIsInt
      <4> HIDE DEF IInv, TypeOK
      <4>3. QED
        BY <3>2, <4>1, <4>2
    <3>3. QED
      BY <1>2, <3>1, <3>2
  <2>2. QED
    BY <1>1, <2>1 DEF BelowHighWater
<1>5. CarriesRaised'
  BY <1>1 DEF CarriesRaised
<1>6. CarriesBacked' /\ HighWaterIsSigned' /\ CachedKeyIsSigned' /\ LatestIsSigned'
  BY <1>1 DEF CarriesBacked, HighWaterIsSigned, CachedKeyIsSigned, LatestIsSigned
<1>7. QED
  BY <1>3, <1>4, <1>5, <1>6

-----------------------------------------------------------------------------
LEMMA InvStep == IInv /\ [Next]_vars => IInv'
<1> SUFFICES ASSUME IInv, [Next]_vars PROVE IInv'
  OBVIOUS
<1>1. TypeOK'
  BY TypeStep DEF IInv
<1>2. ASSUME NEW t \in Threads, NEW batch \in Batches, DecryptEvents(t, batch)
      PROVE  IInv'
  BY <1>1, <1>2, DecryptEventsKeepsInv
<1>3. ASSUME NEW t \in Threads, RaiseHighWater(t) PROVE IInv'
  BY <1>1, <1>3, RaiseHighWaterKeepsInv
<1>4. ASSUME NEW t \in Threads, CheckCacheEnabled(t) PROVE IInv'
  BY <1>1, <1>4, CheckCacheEnabledKeepsInv
<1>5. ASSUME NEW t \in Threads, FillCache(t) PROVE IInv'
  BY <1>1, <1>5, FillCacheKeepsInv
<1>6. ASSUME NEW t \in Threads, ReportLatest(t) PROVE IInv'
  BY <1>1, <1>6, ReportLatestKeepsInv
<1>7. ASSUME NEW t \in Threads, EnableCache(t) \/ DisableCache(t) PROVE IInv'
  BY <1>1, <1>7, SwitchCacheKeepsInv
<1>8. ASSUME NEW t \in Threads, ClearCache(t) PROVE IInv'
  BY <1>1, <1>8, ClearCacheKeepsInv
<1>9. ASSUME NEW t \in Threads,
             BeginResolve(t) \/ \E c \in Conversations : Resolve(t, c)
      PROVE  IInv'
  BY <1>1, <1>9, ResolveKeepsInv
<1>10. ASSUME UNCHANGED vars PROVE IInv'
  BY <1>10 DEF vars, IInv, TypeOK, CarriesBacked, CarriesRaised,
               HighWaterIsSigned, BelowHighWater, CachedKeyIsSigned,
               StaleOnlyInFlight, Publishing, Clearing,
               DisabledLeavesNothing, LatestIsSigned
<1>11. QED
  BY <1>2, <1>3, <1>4, <1>5, <1>6, <1>7, <1>8, <1>9, <1>10 DEF Next

LEMMA Invariance == Spec => []IInv
  BY InvInit, InvStep, PTL DEF Spec

\* Whatever the batches, the threads and their order, a cached version is one
\* that a key change of its own conversation signed, and the cached key the one
\* signed, unless its batch spells the version in two ways.
THEOREM CacheIsSigned == Spec => []CachedKeyIsSigned
<1>1. IInv => CachedKeyIsSigned
  BY DEF IInv
<1>2. QED
  BY <1>1, Invariance, PTL

\* A cached key below the high water is always about to be replaced or cleared
\* by a call that is running, unless the high water came in another spelling.
THEOREM CacheIsFreshAtRest == Spec => []StaleOnlyInFlight
<1>1. IInv => StaleOnlyInFlight
  BY DEF IInv
<1>2. QED
  BY <1>1, Invariance, PTL

\* Disabling the cache leaves no key in it, whatever fill it races.
THEOREM DisabledCacheIsEmpty == Spec => []DisabledLeavesNothing
<1>1. IInv => DisabledLeavesNothing
  BY DEF IInv
<1>2. QED
  BY <1>1, Invariance, PTL

\* Where every signed version is spelled as a u64 is written out, the cache does
\* what the documentation says.
THEOREM UsualSpellingsSuffice ==
    ASSUME \A c \in Conversations, v \in VersionOrNone : ~Respelled(c, v)
    PROVE  Spec => [](OnlySignedKeysEnter /\ CacheFollowsHighWater)
<1>1. IInv => OnlySignedKeysEnter
  <2> SUFFICES ASSUME IInv, NEW c \in Conversations, cache[c] # NoEntry
               PROVE  SignedIn(c, cache[c].version, cache[c].key)
    BY DEF OnlySignedKeysEnter
  <2>1. ~Respelled(c, cache[c].version)
    BY DEF IInv, TypeOK
  <2>2. ~Displaces(c, cache[c].version, cache[c].key)
    BY <2>1 DEF Displaces, Respelled
  <2>3. QED
    BY <2>2 DEF IInv, CachedKeyIsSigned
<1>2. IInv => CacheFollowsHighWater
  <2> SUFFICES ASSUME IInv, \A t \in Threads : pc[t] = "idle",
                      NEW c \in Conversations, cache[c] # NoEntry
               PROVE  cache[c].version = highWater[c]
    BY DEF CacheFollowsHighWater
  <2>1. ~Clearing /\ \A t \in Threads : ~Publishing(t, c)
    BY DEF Clearing, Publishing
  <2>2. ~Respelled(c, highWater[c])
    BY DEF IInv, TypeOK
  <2>3. QED
    BY <2>1, <2>2 DEF IInv, StaleOnlyInFlight
<1>3. QED
  BY <1>1, <1>2, Invariance, PTL

\* Every reported latest_version is backed by a signed key change.
THEOREM ReportIsSigned == Spec => []LatestIsSigned
<1>1. IInv => LatestIsSigned
  BY DEF IInv
<1>2. QED
  BY <1>1, Invariance, PTL

\* So what is cached and what is reported both rest on signed key changes.
THEOREM OnlySigned == Spec => []OnlySignedKeys
<1>1. CachedKeyIsSigned /\ LatestIsSigned => OnlySignedKeys
  BY DEF OnlySignedKeys
<1>2. QED
  BY <1>1, CacheIsSigned, ReportIsSigned, PTL

-----------------------------------------------------------------------------
(***************************************************************************)
(* What a step may never do.                                               *)
(***************************************************************************)

\* Later reports for the same conversations are never lower: the high water
\* a report reads is above every earlier one.
THEOREM ReportsNeverRegress == Spec => LatestNeverRegresses
<1>1. IInv /\ [Next]_vars =>
        [\A C \in SUBSET Conversations : reported'[C] >= reported[C]]_reported
  <2> SUFFICES ASSUME IInv, Next, reported' # reported
               PROVE  \A C \in SUBSET Conversations : reported'[C] >= reported[C]
    BY DEF vars
  <2>1. PICK t \in Threads : ReportLatest(t)
    BY DEF Next, DecryptEvents, RaiseHighWater, CheckCacheEnabled, FillCache,
           EnableCache, DisableCache, ClearCache, BeginResolve, Resolve
  <2> SUFFICES ASSUME NEW C \in SUBSET Conversations
               PROVE  reported'[C] >= reported[C]
    OBVIOUS
  <2>2. reported[C] \in Int /\ LatestOf(highWater, C) \in Int
    BY StateIsInt, LatestOfFacts, VersionOrder DEF IInv, TypeOK
  <2>3. reported[C] <= LatestOf(highWater, C)
    BY DEF IInv, BelowHighWater
  <2>4. reported'[C] = reported[C] \/ reported'[C] = LatestOf(highWater, C)
    BY <2>1 DEF ReportLatest, IInv, TypeOK
  <2>5. QED
    BY <2>2, <2>3, <2>4
<1>2. QED
  BY <1>1, Invariance, PTL DEF Spec, LatestNeverRegresses

\* What the encrypt methods resolve never goes back: whatever was resolved
\* before is at most the entry that is there now.
THEOREM ResolutionsNeverRegress == Spec => ResolvedNeverRegresses
<1>1. IInv /\ [Next]_vars =>
        [\A c \in Conversations : resolved'[c] >= resolved[c]]_resolved
  <2> SUFFICES ASSUME IInv, Next, resolved' # resolved
               PROVE  \A c \in Conversations : resolved'[c] >= resolved[c]
    BY DEF vars
  <2>1. PICK t \in Threads, d \in Conversations : Resolve(t, d)
    BY DEF Next, DecryptEvents, RaiseHighWater, CheckCacheEnabled, FillCache,
           ReportLatest, EnableCache, DisableCache, ClearCache, BeginResolve
  <2> SUFFICES ASSUME NEW c \in Conversations
               PROVE  resolved'[c] >= resolved[c]
    OBVIOUS
  <2>2. resolved[c] \in Int /\ cache[c].version \in Int
    BY StateIsInt DEF IInv
  <2>3. \/ resolved'[c] = resolved[c]
        \/ cache[c] # NoEntry /\ resolved'[c] = cache[c].version
    BY <2>1 DEF Resolve, IInv, TypeOK
  <2>4. cache[c] # NoEntry => resolved[c] <= cache[c].version
    BY DEF IInv, BelowHighWater
  <2>5. QED
    BY <2>2, <2>3, <2>4
<1>2. QED
  BY <1>1, Invariance, PTL DEF Spec, ResolvedNeverRegresses

\* Reports and resolutions: neither goes back.
THEOREM NeverRegresses == Spec => NothingRegresses
  BY ReportsNeverRegress, ResolutionsNeverRegress DEF NothingRegresses

-----------------------------------------------------------------------------
(***************************************************************************)
(* Refinement: raising, filling and clearing are the three steps of the    *)
(* abstract store, and no other step touches what it shows.                *)
(***************************************************************************)
LEMMA PromiseInit == Init => Promise!Init
  BY DEF Init, Promise!Init, NothingVerified, NoVersion, Promise!NoVersion

LEMMA RaiseIsPromised ==
    ASSUME IInv, TypeOK', NEW t \in Threads, RaiseHighWater(t)
    PROVE  Promise!Raise
<1>1. DOMAIN highWater' = Conversations /\ UNCHANGED cache
  BY DEF RaiseHighWater
<1>2. ASSUME NEW c \in Conversations
      PROVE  \/ highWater'[c] = highWater[c]
             \/ /\ highWater'[c] > highWater[c]
                /\ \E k \in Keys : SignedIn(c, highWater'[c], k)
  <2>1. highWater[c] \in Int /\ verified[t][c] \in Int
    BY StateIsInt DEF IInv
  <2>2. highWater'[c] = IF verified[t][c] > highWater[c] THEN verified[t][c]
                                                         ELSE highWater[c]
    BY DEF RaiseHighWater, Raised
  <2>3. highWater[c] \in VersionOrNone /\ NoVersion <= highWater[c]
    BY VersionOrder DEF IInv, TypeOK
  <2>4. highWater'[c] = highWater[c] \/ highWater'[c] > highWater[c]
    BY <2>1, <2>2
  <2>5. ASSUME highWater'[c] > highWater[c]
        PROVE  \E k \in Keys : SignedIn(c, highWater'[c], k)
    <3>1. highWater'[c] # NoVersion
      BY <2>1, <2>2, <2>3, <2>5 DEF NoVersion
    <3>2. HighWaterIsSigned'
      BY RaiseHighWaterKeepsInv DEF IInv
    <3>3. QED
      BY <3>1, <3>2 DEF HighWaterIsSigned
  <2>6. QED
    BY <2>4, <2>5
<1>3. QED
  BY <1>1, <1>2 DEF Promise!Raise

LEMMA FillIsPromised ==
    ASSUME IInv, TypeOK', NEW t \in Threads, FillCache(t)
    PROVE  Promise!Publish
<1>1. DOMAIN cache' = Conversations /\ UNCHANGED highWater
  BY DEF FillCache
<1>2. ASSUME NEW c \in Conversations
      PROVE  \/ cache'[c] = cache[c]
             \/ /\ cache'[c].version = highWater[c]
                /\ cache'[c].version > cache[c].version
                /\ \/ SignedIn(c, cache'[c].version, cache'[c].key)
                   \/ Displaces(c, cache'[c].version, cache'[c].key)
  <2> DEFINE v == verified[t][c]
             key == KeyAt(adopted[t], v)
             Fills == Caches(cacheKeys, highWater[c], cache[c], v, key)
  <2>1. CASE ~Fills
    BY <2>1 DEF FillCache
  <2>2. CASE Fills
    <3>1. /\ v # NoVersion
          /\ v = highWater[c]
          /\ key # NoKey
          /\ cache[c].version < v
      BY <2>2 DEF Caches
    <3>2. cache'[c].version = v /\ cache'[c].key = key
      BY <2>2 DEF FillCache
    <3>3. v \in Versions
      BY <3>1, VersionOrder DEF IInv, TypeOK
    <3>4. SignedIn(c, v, key) \/ Displaces(c, v, key)
      <4>1. Backed(c, v, adopted[t])
        BY <3>1 DEF IInv, CarriesBacked
      <4>2. key = adopted[t][Spelled[v]]
        BY <3>3 DEF KeyAt
      <4> HIDE DEF v, key
      <4>3. QED
        BY <3>1, <4>1, <4>2 DEF Backed
    <3>5. v \in Int /\ cache[c].version \in Int
      BY StateIsInt DEF IInv
    <3>6. v > cache[c].version
      BY <3>1, <3>5
    <3> HIDE DEF v, key
    <3>7. QED
      BY <3>1, <3>2, <3>4, <3>6
  <2>3. QED
    BY <2>1, <2>2
<1>3. QED
  BY <1>1, <1>2 DEF Promise!Publish

\* Every behaviour of the threads, seen through its high water and its cache,
\* is one of the abstract key store.
THEOREM ImplementsPromise == Spec => KeepsPromise
<1>1. IInv /\ [Next]_vars => [Promise!Next]_<<highWater, cache>>
  <2> SUFFICES ASSUME IInv, [Next]_vars
               PROVE  Promise!Next \/ UNCHANGED <<highWater, cache>>
    OBVIOUS
  <2>1. TypeOK'
    BY TypeStep DEF IInv
  <2>2. ASSUME NEW t \in Threads, RaiseHighWater(t) PROVE Promise!Next
    BY <2>1, <2>2, RaiseIsPromised DEF Promise!Next
  <2>3. ASSUME NEW t \in Threads, FillCache(t) PROVE Promise!Next
    BY <2>1, <2>3, FillIsPromised DEF Promise!Next
  <2>4. ASSUME NEW t \in Threads, ClearCache(t) PROVE Promise!Next
    BY <2>4 DEF ClearCache, ClearedEntries, Promise!Clear, Promise!Next
  <2>5. ASSUME NEW t \in Threads,
               \/ \E batch \in Batches : DecryptEvents(t, batch)
               \/ CheckCacheEnabled(t) \/ ReportLatest(t)
               \/ EnableCache(t) \/ DisableCache(t)
               \/ BeginResolve(t) \/ \E c \in Conversations : Resolve(t, c)
        PROVE  UNCHANGED <<highWater, cache>>
    BY <2>5 DEF DecryptEvents, CheckCacheEnabled, ReportLatest, EnableCache,
                DisableCache, BeginResolve, Resolve
  <2>6. QED
    BY <2>2, <2>3, <2>4, <2>5 DEF Next, vars
<1>2. QED
  BY <1>1, Invariance, PromiseInit, PTL DEF Spec, KeepsPromise, Promise!Spec
=============================================================================

--------------------------- MODULE VerifiedKeyStore ---------------------------
(***************************************************************************)
(* What a ChatCore promises its callers about conversation keys, with no   *)
(* threads, locks or batches: a high water per conversation that only      *)
(* rises, and only to a version some key change signed; a cache whose      *)
(* entries enter at the high water and leave only all together, with the   *)
(* signed key, or with one that displaced it; and answers read off the     *)
(* two.  ConversationKeys is checked and proved to implement it.           *)
(***************************************************************************)
EXTENDS Integers

CONSTANTS
    Conversations,
    Keys,
    Signed(_, _, _),    \* Signed(c, v, k): k was signed as version v of c
    Displaces(_, _, _), \* Displaces(c, v, k): k may be taken for the signed
                        \* key of version v of c, which was spelled otherwise
    NoEntry             \* the entry of a conversation with no cached key

VARIABLES
    highWater,  \* newest signed version seen, per conversation
    cache       \* cached entry, per conversation: NoEntry, or version and key

NoVersion == -1

Init ==
    /\ highWater = [c \in Conversations |-> NoVersion]
    /\ cache = [c \in Conversations |-> NoEntry]

\* A batch proves newer versions for some conversations.
Raise ==
    /\ DOMAIN highWater' = Conversations
    /\ \A c \in Conversations :
          \/ highWater'[c] = highWater[c]
          \/ /\ highWater'[c] > highWater[c]
             /\ \E k \in Keys : Signed(c, highWater'[c], k)
    /\ UNCHANGED cache

\* The keys at the high water of some conversations become available; an
\* entry is only ever replaced by a newer one.
Publish ==
    /\ DOMAIN cache' = Conversations
    /\ \A c \in Conversations :
          \/ cache'[c] = cache[c]
          \/ /\ cache'[c].version = highWater[c]
             /\ cache'[c].version > cache[c].version
             /\ \/ Signed(c, cache'[c].version, cache'[c].key)
                \/ Displaces(c, cache'[c].version, cache'[c].key)
    /\ UNCHANGED highWater

\* The cache is emptied.
Clear ==
    /\ cache' = [c \in Conversations |-> NoEntry]
    /\ UNCHANGED highWater

Next == Raise \/ Publish \/ Clear

Spec == Init /\ [][Next]_<<highWater, cache>>
=============================================================================

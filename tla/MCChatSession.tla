---------------------------- MODULE MCChatSession ----------------------------
(***************************************************************************)
(* Behaviours of ChatSession of one of two kinds, chosen at the beginning: *)
(* either calls that manage the conversations, two in a row, the group     *)
(* perhaps to be created; or talk in conversations that have keys, of four *)
(* calls, with a member that joins and, last, a reply.                     *)
(***************************************************************************)
EXTENDS ChatSession

VARIABLES kind, left

mcvars == <<vars, kind, left>>

A == <<"id", 7>>
B == <<"id", 10>>
C == <<"id", 9>>

MCUsers == {A, B, C}
MCPairUsers == {A, B}
Hi == <<"text", "hi", "">>
Yo == <<"text", "yo", "all">>

MCTexts == {Hi, Yo}
MCFiles == {"photo"}

\* A and B hold a key of the group and of their conversation, of one version.
Seeded ==
    /\ members = {A, B}
    /\ keys = [u \in Users |->
                  IF u = C THEN {}
                  ELSE {ConversationKey(c, Number(1)) : c \in Conversations}]

SeededOrNot == Seeded \/ (members = {} /\ keys = [u \in Users |-> {}])

MCInit ==
    /\ log = <<>>
    /\ v1 \in [Users -> BOOLEAN] /\ ~v1[C]
    /\ \/ kind = "manage" /\ left = 2 /\ SeededOrNot /\ ~v1[B]
       \/ kind = "talk" /\ left = 4 /\ Seeded

Sent == log'[Len(log')]

\* A joins C, with nothing set.
Join ==
    /\ AddMembers(A)
    /\ Sent.detail.current_title = Null /\ Sent.detail.current_description = Null
    /\ Sent.detail.current_avatar_url = Null /\ Sent.detail.current_ttl_msec = Null

\* The first of two calls changes a key or who is in the group.
ManageCall(u) ==
    \/ left = 1 /\ Manage(u)
    \/ left = 2 /\ (Join \/ ChangeKey(u) \/ CreateGroup(u) \/ RemoveMembers(u) \/ Leave(u))

\* Beside an event, at most the sequence id of another; without one, a sequence
\* id and, as A's second call, any conversation and id.
Named(u, event) ==
    {explicit \in ExplicitTargets :
        IF event # 0
        THEN explicit.conversation = Null /\ explicit.id = Null
        ELSE /\ explicit.sequence # Null
             /\ \/ left = 3 /\ u = A
                \/ /\ explicit.conversation = log[explicit.sequence[2]].conversation
                   /\ explicit.id = Null}

\* Messages say one thing and their edits another; A speaks first, then in
\* either conversation, and only the second call is a reaction.
TalkCall(u) ==
    /\ left = 4 => u = A
    /\ \/ Join
       \/ \E c \in IF left = 4 THEN Conversations ELSE {Group}, files \in SUBSET MCFiles :
             SendText(u, c, Hi, files)
       \/ \E event \in {0} \cup Messages : \E explicit \in Named(u, event) :
             \/ SendEdit(u, Yo, event, explicit)
             \/ left = 3 /\ React(u, "reaction", event, explicit)

\* A reply ends the talk; it is the SDK's own quote when four calls long.
ReplyCall(u) ==
    \E c \in Conversations, claims \in IF left = 1 THEN {NoClaims} ELSE Claims :
        \/ \E raw \in Messages, edit \in {0} \cup Messages :
              SendReply(u, c, Hi, raw, edit, claims)
        \/ SendBareReply(u, c, Hi, claims)

Manages(u) == ManageCall(u) /\ left' = left - 1

Talks(u) ==
    \/ left > 1 /\ TalkCall(u) /\ left' = left - 1
    \/ ReplyCall(u) /\ left' = 0
    \/ SwitchFormat(u) /\ u = A /\ UNCHANGED left

MCNext ==
    /\ \E u \in Users :
          \/ left > 0 /\ kind = "manage" /\ Manages(u)
          \/ left > 0 /\ kind = "talk" /\ Talks(u)
          \/ ReceiveKeyChange(u) /\ UNCHANGED left
    /\ UNCHANGED kind

MCSpec == MCInit /\ [][MCNext]_mcvars
=============================================================================

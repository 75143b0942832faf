----------------------------- MODULE ChatSession -----------------------------
(***************************************************************************)
(* Users of the SDK in a group and a conversation of two: the events their *)
(* apps prepare, encrypt and sign, in either send format, and what other   *)
(* users' apps make of them: whether they verify, what they show, and what *)
(* becomes of the quotes in replies.                                       *)
(*                                                                         *)
(* The X API is between them: it stores every event with the canonical id  *)
(* of its conversation, in one order, and relays it unchanged.  Key        *)
(* changes arrive late, each user's on its own.  The signing keys of all   *)
(* users are known to all; the versions of key changes are those of        *)
(* SignatureFloor, without its floor, and which of its keys an app holds   *)
(* for a conversation is ConversationKeys'.                                *)
(***************************************************************************)
EXTENDS EventSignatures, FiniteSets

CONSTANTS
    Users,       \* <<"id", n>>, at least two
    PairUsers,   \* the two of the conversation of two
    Texts,       \* <<"text", start, rest>>: a quote shows the start
    Files,       \* attachments
    MaxVersion,  \* of conversation keys
    MaxLog       \* events

ASSUME UsersAssumption ==
    /\ IsFiniteSet(Users)
    /\ \A u \in Users : u = <<"id", u[2]>> /\ u[2] \in Nat
    /\ \E a, b \in Users : a # b /\ PairUsers = {a, b}

VARIABLES
    log,      \* the events, in the API's order
    members,  \* of the group
    keys,     \* the conversation keys each user's app holds
    v1        \* whether each user's app sends in v1

vars == <<log, members, keys, v1>>

Group == <<"group", "g">>

PairConversation ==
    LET a == CHOOSE u \in PairUsers : TRUE
    IN  Pair(a, CHOOSE u \in PairUsers : u # a)

Conversations == {Group, PairConversation}

MembersOf(c) == IF c = Group THEN members ELSE PairUsers

\* How the app of user u may spell the id of conversation c.
Spellings(u, c) ==
    IF c = Group THEN {c}
    ELSE {<<"pair", c[2], c[3]>>, <<"pair", c[3], c[2]>>}
            \cup {<<"bare", w>> : w \in PairUsers \ {u}}

-----------------------------------------------------------------------------
(***************************************************************************)
(* Keys.                                                                   *)
(***************************************************************************)
ConversationKey(c, version) == <<"conversation", c, version>>

Versions == {Number(n) : n \in 1 .. MaxVersion}

VersionsHeld(u, c) == {v \in Versions : ConversationKey(c, v) \in keys[u]}

\* The newest key the app holds, which it sends under.
Newest(u, c) ==
    CHOOSE v \in VersionsHeld(u, c) : \A w \in VersionsHeld(u, c) : w[2] <= v[2]

IsMessage(e) == e.detail.kind = "MessageCreateEvent"

IsKeyChange(e) == e.detail.kind = "ConversationKeyChangeEvent"

\* Versions are times: a new one may be below another user's.
Unused(c) ==
    {v \in Versions :
        /\ \A u \in Users : v \notin VersionsHeld(u, c)
        /\ \A i \in DOMAIN log :
              IsKeyChange(log[i]) /\ log[i].conversation = c
                 => log[i].detail.conversation_key_version # v}

\* message_key_for: the key the contents of event e are under, given its
\* conversation's key.
UsesMessageKey(e) == e.detail.contents_encryption_version # Null

ContentsKey(e, key) ==
    IF UsesMessageKey(e) THEN <<"message", key, e.sender, e.id>> ELSE key

Seal(nonce, key, what) == <<"sealed", nonce, key, what>>

Opens(sealed, key) == sealed[3] = key

Opened(sealed) == sealed[4]

\* The base64 copies of a new key, one for each user of a roster.
ParticipantKeys(key, roster) ==
    LET to == SetToSeq(roster)
    IN  [i \in DOMAIN to |-> <<to[i], Seal(<<"copy", i>>, <<"identity", to[i]>>, key)>>]

Receives(e, u) ==
    \E i \in DOMAIN e.detail.conversation_participant_keys :
        e.detail.conversation_participant_keys[i][1] = u

KeyOf(e) == ConversationKey(e.conversation, e.detail.conversation_key_version)

-----------------------------------------------------------------------------
(***************************************************************************)
(* Sending: a call signs one or more events, all in the format it read     *)
(* once, or fails as a whole when one has no payload.                      *)
(***************************************************************************)

\* What a caller asked recipients to see, a plain value and a text, and
\* whether it left a quote to the SDK.
Asked(what, text) == [what |-> what, text |-> text, honest |-> TRUE]

\* Of an event that decrypt does not return.
Dropped == <<"dropped">>

\* An event to send and the version it is signed at; its message id is random,
\* which is its place in the log, unless set.
Post(detail, version, asked) ==
    [detail |-> detail, version |-> version, asked |-> asked,
     for_key_rotation |-> FALSE, id |-> Null]

Nonce(i, field) == <<"nonce", Len(log) + i, field>>

\* Event i of a call.
Signed(u, c, spelled, i, post) ==
    LET d == post.detail
        id == IF post.id = Null THEN Number(Len(log) + i) ELSE post.id
        plainKey == IF d.kind = "ConversationKeyChangeEvent"
                    THEN ConversationKey(c, d.conversation_key_version) ELSE Null
    IN  [id |-> id, sender |-> u, conversation |-> c, detail |-> d,
         signature_version |-> post.version,
         signature |-> Payload(id, u, CanonicalId(spelled, u), d, post.version, plainKey),
         for_key_rotation |-> post.for_key_rotation, asked |-> post.asked]

Send(u, c, spelled, posts) ==
    LET events == [i \in DOMAIN posts |-> Signed(u, c, spelled, i, posts[i])]
    IN  /\ Len(log) + Len(posts) <= MaxLog
        /\ \A i \in DOMAIN events : events[i].signature # NoPayload
        /\ log' = log \o events

ActionPost(u, detail, asked) ==
    Post(detail, ActionSignatureVersion(v1[u], CURRENT_SIGNATURE_VERSION), asked)

\* A call that signs one event and changes nothing else.
Act(u, c, detail, what) ==
    /\ \E spelled \in Spellings(u, c) :
          Send(u, c, spelled, <<ActionPost(u, detail, Asked(what, Null))>>)
    /\ UNCHANGED <<members, keys, v1>>

\* sign_key_change
KeyChangePost(u, c, version, roster) ==
    ActionPost(u,
        [kind |-> "ConversationKeyChangeEvent", conversation_key_version |-> version,
         conversation_participant_keys |-> ParticipantKeys(ConversationKey(c, version), roster)],
        Asked(version, Null))

Stores(u, c, version) ==
    keys' = [keys EXCEPT ![u] = @ \cup {ConversationKey(c, version)}]

-----------------------------------------------------------------------------
(***************************************************************************)
(* Key changes and the group's members.  The arguments a binding cannot    *)
(* leave out it passes empty, or negative.                                 *)
(***************************************************************************)
EmptyText == <<"text", "", "">>

Url == <<"text", "url", "">>

TextParams == {Null, EmptyText} \cup Texts

UrlParams == {Null, EmptyText, Url, CommaUrl}

TtlParams == {Null, Number(-1), Number(0)}

NotEmpty(text) == IF text = EmptyText THEN Null ELSE text

NotNegative(ttl) == IF ttl # Null /\ ttl[2] < 0 THEN Null ELSE ttl

SealedText(nonce, key, text) == IF text = Null THEN Null ELSE Seal(nonce, key, text)

\* prepare_conversation_key_change
ChangeKey(u) ==
    \E c \in Conversations, version \in Versions : \E spelled \in Spellings(u, c) :
        /\ u \in MembersOf(c)
        /\ version \in Unused(c)
        /\ Send(u, c, spelled, <<KeyChangePost(u, c, version, MembersOf(c))>>)
        /\ Stores(u, c, version)
        /\ UNCHANGED <<members, v1>>

\* prepare_group_create: the key change, then the create.
CreateGroup(u) ==
    \E others \in SUBSET (Users \ {u}), version \in Unused(Group),
       title \in TextParams, ttl \in TtlParams :
        LET roster == others \cup {u}
            key == ConversationKey(Group, version)
            create ==
                [kind |-> "GroupCreate", member_ids |-> SetToSeq(roster),
                 admin_ids |-> <<u>>,
                 title |-> SealedText(Nonce(2, "title"), key, NotEmpty(title)),
                 avatar_url |-> Null, conversation_key_version |-> version,
                 is_legacy_group_upgrade |-> Null, ttl_msec |-> NotNegative(ttl),
                 group_type |-> Null]
            asked == Asked(<<SetToSeq(roster), <<u>>, version>>, NotEmpty(title))
        IN  /\ members = {}
            /\ others # {}
            /\ Send(u, Group, Group,
                    <<KeyChangePost(u, Group, version, roster), ActionPost(u, create, asked)>>)
            /\ members' = roster
            /\ Stores(u, Group, version)
            /\ UNCHANGED v1

\* prepare_group_members_change: the key change, then the add, which covers a
\* description only from version 8 on.
AddMembers(u) ==
    \E w \in Users \ members, version \in Unused(Group),
       title, description \in TextParams, avatar \in UrlParams, ttl \in TtlParams :
        LET key == ConversationKey(Group, version)
            add ==
                [kind |-> "GroupMemberAdd", member_ids |-> <<w>>,
                 current_member_ids |-> SetToSeq(members), current_admin_ids |-> <<u>>,
                 current_pending_member_ids |-> <<>>,
                 current_title |-> SealedText(Nonce(2, "title"), key, NotEmpty(title)),
                 current_avatar_url |-> NotEmpty(avatar),
                 current_description |->
                    SealedText(Nonce(2, "description"), key, NotEmpty(description)),
                 current_ttl_msec |-> NotNegative(ttl),
                 screen_capture_blocking_enabled |-> Flag(FALSE),
                 conversation_key_version |-> version]
            legacy == IF NotEmpty(description) # Null
                      THEN MEMBER_ADD_DESCRIPTION_SIGNATURE_VERSION
                      ELSE CURRENT_SIGNATURE_VERSION
        IN  /\ u \in members
            /\ Send(u, Group, Group,
                    <<KeyChangePost(u, Group, version, members \cup {w}),
                      Post(add, ActionSignatureVersion(v1[u], legacy),
                           Asked(<<<<w>>, SetToSeq(members), <<u>>>>, Null))>>)
            /\ members' = members \cup {w}
            /\ Stores(u, Group, version)
            /\ UNCHANGED v1

MemberRemove(ids, version) ==
    [kind |-> "GroupMemberRemove", member_ids |-> ids, conversation_key_version |-> version]

TitleChange(encrypted, version) ==
    [kind |-> "GroupTitleChange", custom_title |-> encrypted,
     conversation_key_version |-> version]

DescriptionChange(encrypted, version) ==
    [kind |-> "GroupDescriptionChange", custom_description |-> encrypted,
     conversation_key_version |-> version]

\* A variant that trusts the caller's roster.
AnyRoster(roster, removed) == roster # {}

\* Whose keys may be passed for a removal: of none of the removed.
StaysOnly(roster, removed) == roster # {} /\ roster \cap removed = {}

\* Marked so that recipients do not show it as a change.
ReEncrypted(post) ==
    [post EXCEPT !.for_key_rotation = TRUE, !.asked = Asked(Dropped, Null)]

\* prepare_group_members_remove, for the members the app knows of, which may
\* be those before the removal.
RemoveMembers(u) ==
    \E w \in members \ {u}, version \in Unused(Group), title, description \in TextParams :
      \E roster \in {members, members \ {w}} :
        LET key == ConversationKey(Group, version)
            removal == ActionPost(u, MemberRemove(<<w>>, version), Asked(<<w>>, Null))
            retitle(i) ==
                IF NotEmpty(title) = Null THEN <<>>
                ELSE <<ReEncrypted(ActionPost(u,
                          TitleChange(Seal(Nonce(i, "title"), key, title), version),
                          Asked(Null, title)))>>
            redescribe(i) ==
                IF NotEmpty(description) = Null THEN <<>>
                ELSE <<ReEncrypted(ActionPost(u,
                          DescriptionChange(Seal(Nonce(i, "description"), key, description),
                                            version),
                          Asked(Null, description)))>>
        IN  /\ u \in members
            /\ StaysOnly(roster, {w})
            /\ Send(u, Group, Group,
                    <<removal>> \o retitle(2) \o redescribe(3)
                      \o <<KeyChangePost(u, Group, version, roster)>>)
            /\ members' = members \ {w}
            /\ Stores(u, Group, version)
            /\ UNCHANGED v1

\* prepare_group_leave, with another admin named or not.
Leave(u) ==
    \E version \in VersionsHeld(u, Group) \cup {Null}, admin \in {Null} \cup (members \ {u}) :
        LET promote == [kind |-> "GroupAdminAdd", admin_ids |-> <<admin>>]
        IN  /\ u \in members
            /\ Send(u, Group, Group,
                    <<ActionPost(u, MemberRemove(<<u>>, version), Asked(<<u>>, Null))>>
                      \o (IF admin = Null THEN <<>>
                          ELSE <<ActionPost(u, promote, Asked(<<admin>>, Null))>>)
                      \o <<ActionPost(u, [kind |-> "ConversationDeleteEvent"],
                                      Asked(Null, Null))>>)
            /\ members' = members \ {u}
            /\ UNCHANGED <<keys, v1>>

-----------------------------------------------------------------------------
(***************************************************************************)
(* The other actions: of the group, then of either conversation.           *)
(***************************************************************************)

\* prepare_group_admins_add and prepare_group_admins_remove
ChangeAdmins(u) ==
    \E kind \in {"GroupAdminAdd", "GroupAdminRemove"}, w \in members :
        /\ u \in members
        /\ Act(u, Group, [kind |-> kind, admin_ids |-> <<w>>], <<w>>)

\* prepare_group_title_change and prepare_group_description_change, under the
\* newest key the app holds.
ChangeText(u) ==
    /\ u \in members
    /\ VersionsHeld(u, Group) # {}
    /\ LET version == Newest(u, Group)
           sealed(text) == Seal(Nonce(1, "text"), ConversationKey(Group, version), text)
       IN  \E text \in Texts :
             \E d \in {TitleChange(sealed(text), version),
                       DescriptionChange(sealed(text), version)} :
                Send(u, Group, Group, <<ActionPost(u, d, Asked(Null, text))>>)
    /\ UNCHANGED <<members, keys, v1>>

\* prepare_group_avatar_change
ChangeAvatar(u) ==
    \E url \in UrlParams \ {Null, EmptyText}, version \in VersionsHeld(u, Group) :
        /\ u \in members
        /\ Act(u, Group, [kind |-> "GroupAvatarChange", custom_avatar_url |-> url,
                          conversation_key_version |-> version], <<url, version>>)

\* prepare_group_invite_enable; an unset affiliate id is passed empty.
EnableInvite(u) ==
    \E url \in {Url, CommaUrl}, expires \in TtlParams, affiliate \in UrlParams :
        /\ u \in members
        /\ Act(u, Group, [kind |-> "GroupInviteEnable", invite_url |-> url,
                          expires_at_msec |-> NotNegative(expires),
                          affiliate_id |-> NotEmpty(affiliate)],
               <<url, NotNegative(expires)>>)

\* prepare_group_invite_disable and prepare_group_join_request: of the sender,
\* unless another user is named.
DisableInvite(u) ==
    \E by \in Users :
        /\ u \in members
        /\ Act(u, Group, [kind |-> "GroupInviteDisable", disabled_by_member_id |-> by], by)

RequestToJoin(u) ==
    \E w \in Users \ members :
        Act(u, Group, [kind |-> "GroupJoinRequest", requesting_user_id |-> w], w)

\* prepare_group_join_reject
RejectJoin(u) ==
    \E w \in Users \ members :
        /\ u \in members
        /\ Act(u, Group, [kind |-> "GroupJoinReject", rejected_user_ids |-> <<w>>], <<w>>)

\* prepare_message_ttl_change, prepare_message_ttl_remove, prepare_screen_capture
ChangeSettings(u) ==
    \E c \in Conversations :
        /\ u \in MembersOf(c)
        /\ \/ Act(u, c, [kind |-> "MessageDurationChange", ttl_msec |-> Number(0)], Number(0))
           \/ \E kind \in {"MessageDurationRemove",
                           "EnableScreenCaptureBlocking", "DisableScreenCaptureBlocking",
                           "EnableScreenCaptureDetection", "DisableScreenCaptureDetection"} :
                Act(u, c, [kind |-> kind], Null)

\* prepare_message_delete, of any events, for all or for the sender.
DeleteMessages(u) ==
    \E c \in Conversations, i \in DOMAIN log, action \in {Number(1), Number(2)} :
        /\ u \in MembersOf(c)
        /\ Act(u, c, [kind |-> "MessageDeleteEvent", delete_message_action |-> action,
                      sequence_ids |-> <<Number(i)>>], <<action, <<Number(i)>>>>)

\* prepare_mark_conversation_read
MarkRead(u) ==
    \E c \in Conversations, i \in DOMAIN log :
        /\ u \in MembersOf(c)
        /\ Act(u, c, [kind |-> "MarkConversationReadEvent",
                      seen_until_sequence_id |-> Number(i), seen_at_millis |-> Number(0)],
               <<Number(i), Number(0)>>)

-----------------------------------------------------------------------------
(***************************************************************************)
(* Messages.  The contents of an event are a message, a reaction or an     *)
(* edit; `raw' and `edit' of a preview are the places in the log of the    *)
(* events it embeds, or 0.                                                 *)
(***************************************************************************)
NoPreview ==
    [raw |-> 0, edit |-> 0, sender |-> Null, sequence |-> Null, id |-> Null,
     text |-> Null, attachments |-> Null, key |-> Null, edit_key |-> Null]

Contents(entry, text) ==
    [entry |-> entry, text |-> text, attachments |-> {},
     target |-> Null, target_id |-> Null, preview |-> NoPreview]

\* derive_media_message_id: building the same message again gives it again.
MediaId(u, c, key, files) == <<"media", key, u, c, files>>

\* outgoing_message_id
OutgoingId(u, c, spelled, version, files) ==
    IF v1[u] /\ files # {}
    THEN MediaId(u, CanonicalId(spelled, u), ConversationKey(c, version), files)
    ELSE Number(Len(log) + 1)

\* encrypt_and_sign
MessagePost(u, c, id, contents, asked) ==
    LET version == Newest(u, c)
        key == ConversationKey(c, version)
        under == IF v1[u] THEN <<"message", key, u, id>> ELSE key
        detail == [kind |-> "MessageCreateEvent", conversation_key_version |-> version,
                   contents |-> Seal(Nonce(1, "contents"), under, contents),
                   contents_encryption_version |-> IF v1[u] THEN Number(1) ELSE Null]
    IN  [ActionPost(u, detail, asked) EXCEPT !.id = id]

SendMessage(u, c, spelled, files, contents, asked) ==
    /\ u \in MembersOf(c)
    /\ VersionsHeld(u, c) # {}
    /\ Send(u, c, spelled,
            <<MessagePost(u, c, OutgoingId(u, c, spelled, Newest(u, c), files),
                          contents, asked)>>)
    /\ UNCHANGED <<members, keys, v1>>

ContentsOf(e) == Opened(e.detail.contents)

\* Every upload has its own media hash key: files are another message's only
\* when that one is sent again.
FreshOrAgain(u, c, text, files) ==
    \A i \in DOMAIN log :
        IsMessage(log[i]) /\ ContentsOf(log[i]).attachments \cap files # {}
          => /\ log[i].sender = u /\ log[i].conversation = c
             /\ ContentsOf(log[i]).attachments = files /\ ContentsOf(log[i]).text = text

\* encrypt_message
SendText(u, c, text, files) ==
    \E spelled \in Spellings(u, c) :
        /\ FreshOrAgain(u, c, text, files)
        /\ SendMessage(u, c, spelled, files,
                       [Contents("message", text) EXCEPT !.attachments = files],
                       Asked(<<"message", files>>, text))

Messages == {i \in DOMAIN log : IsMessage(log[i])}

Or(claim, derived) == IF claim # Null THEN claim ELSE derived

\* Of the message an edit or a reaction is for, the caller passes the event, or
\* 0, and explicit fields, Null when not passed.  The fields may be of other
\* messages than the event.
ExplicitTargets ==
    [conversation : {Null} \cup Conversations,
     sequence : {Null} \cup {Number(i) : i \in Messages},
     id : {Null} \cup {log[i].id : i \in Messages}]

EventGives(event) ==
    IF event = 0 THEN [conversation |-> Null, sequence |-> Null, id |-> Null]
    ELSE [conversation |-> log[event].conversation, sequence |-> Number(event),
          id |-> log[event].id]

\* resolve_event_target, the conversation spelled as the caller or the event
\* does; and the message id, explicit or the event's.
Target(event, explicit) ==
    LET given == EventGives(event)
    IN  [conversation |-> Or(explicit.conversation, given.conversation),
         sequence |-> Or(explicit.sequence, given.sequence),
         id |-> Or(explicit.id, given.id)]

IsTarget(target) == target.conversation # Null /\ target.sequence # Null

TargetSpellings(u, event, explicit) ==
    IF explicit.conversation = Null THEN {EventGives(event).conversation}
    ELSE Spellings(u, explicit.conversation)

\* same_message_id
SameMessageId(explicit, carried) ==
    explicit # Null /\ carried # Null => explicit = carried

\* encrypt_edit: only a v1 edit says the id of the message it edits.
SendEdit(u, text, event, explicit) ==
    LET target == Target(event, explicit)
        id == IF v1[u] THEN target.id ELSE Null
        contents == [Contents("edit", text) EXCEPT !.target = target.sequence,
                                                   !.target_id = id]
        asked == Asked(<<"edit", target.sequence, id>>, text)
    IN  /\ IsTarget(target)
        /\ SameMessageId(explicit.id, EventGives(event).id)
        /\ \E spelled \in TargetSpellings(u, event, explicit) :
              SendMessage(u, target.conversation, spelled, {}, contents, asked)

\* encrypt_add_reaction and encrypt_remove_reaction, which take no message id.
React(u, entry, event, explicit) ==
    LET target == Target(event, explicit)
        contents == [Contents(entry, Null) EXCEPT !.target = target.sequence]
    IN  /\ IsTarget(target) /\ explicit.id = Null
        /\ \E spelled \in TargetSpellings(u, event, explicit) :
              SendMessage(u, target.conversation, spelled, {}, contents,
                          Asked(<<entry, target.sequence, Null>>, Null))

-----------------------------------------------------------------------------
(***************************************************************************)
(* Replies.  The caller passes the event it quotes and an edit of it, and  *)
(* may override what the preview says of them; without an event the        *)
(* preview is what it passes.  Claims are Null when not passed, and        *)
(* attachments <<"files", set>>.  A text stands for itself and its         *)
(* entities.                                                               *)
(***************************************************************************)
NoClaims == [text |-> Null, attachments |-> Null, sequence |-> Null, sender |-> Null]

\* A quote of a text may end at its start.
Cut(text) == <<"text", text[2], "cut">>

Claims ==
    LET texts == {Cut(t) : t \in Texts}
        attachments == {<<"files", s>> : s \in SUBSET Files}
    IN  {NoClaims}
          \cup {[NoClaims EXCEPT !.text = t] : t \in texts}
          \cup {[NoClaims EXCEPT !.attachments = a] : a \in attachments}
          \cup {[NoClaims EXCEPT !.text = t, !.attachments = a] :
                  t \in texts, a \in attachments}
          \cup {[NoClaims EXCEPT !.sequence = Number(i)] : i \in DOMAIN log}
          \cup {[NoClaims EXCEPT !.sender = w] : w \in Users}

\* raw_event_contents_key when u replies in c under a version: the reply's own
\* key when the version is the same, or the one held for the quoted event's
\* conversation, or Null.
QuotingKey(u, c, version, e) ==
    LET own == e.detail.conversation_key_version
    IN  CASE own = version -> ContentsKey(e, ConversationKey(c, version))
          [] own # version /\ KeyOf(e) \in keys[u] -> ContentsKey(e, KeyOf(e))
          [] OTHER -> Null

OpensAs(e, key, entry) == Opens(e.detail.contents, key) /\ ContentsOf(e).entry = entry

\* A variant that carries whatever key opens the quoted event.
CarriesAny(e, key) == key

\* Only message keys are carried, never a conversation key.
Carried(e, key) == IF UsesMessageKey(e) THEN key ELSE Null

\* build_reply_preview: whether it is built, and what.
NeedsOriginal(claims) == claims.text = Null \/ claims.attachments = Null

PreviewIsBuilt(u, c, raw, edit, claims) ==
    /\ NeedsOriginal(claims) =>
          OpensAs(log[raw], QuotingKey(u, c, Newest(u, c), log[raw]), "message")
    /\ edit # 0 /\ claims.text = Null =>
          OpensAs(log[edit], QuotingKey(u, c, Newest(u, c), log[edit]), "edit")

BuiltPreview(u, c, raw, edit, claims) ==
    LET key(i) == Carried(log[i], QuotingKey(u, c, Newest(u, c), log[i]))
        quoted == ContentsOf(log[IF edit = 0 THEN raw ELSE edit])
    IN  [raw |-> raw, edit |-> edit,
         sender |-> Or(claims.sender, log[raw].sender),
         sequence |-> Or(claims.sequence, Number(raw)),
         id |-> log[raw].id,
         text |-> Or(claims.text, quoted.text),
         attachments |-> Or(claims.attachments,
                            <<"files", ContentsOf(log[raw]).attachments>>),
         key |-> key(raw),
         edit_key |-> IF edit = 0 THEN Null ELSE key(edit)]

\* encrypt_reply, of a message with perhaps an edit of it, and of what the
\* caller says alone.
Reply(u, c, text, preview, claims) ==
    SendMessage(u, c, c, {}, [Contents("message", text) EXCEPT !.preview = preview],
                [Asked(<<"message", {}>>, text) EXCEPT !.honest = (claims = NoClaims)])

SendReply(u, c, text, raw, edit, claims) ==
    /\ VersionsHeld(u, c) # {}
    /\ PreviewIsBuilt(u, c, raw, edit, claims)
    /\ Reply(u, c, text, BuiltPreview(u, c, raw, edit, claims), claims)

SendBareReply(u, c, text, claims) ==
    /\ claims.sequence # Null
    /\ Reply(u, c, text, [NoPreview EXCEPT !.sequence = claims.sequence], claims)

-----------------------------------------------------------------------------
(***************************************************************************)
(* What decrypt returns of an event, to the app of a user with its keys.   *)
(***************************************************************************)
Unavailable == <<"unavailable">>

\* The key of a key change: held, or opened from the user's own copy.
PlainKey(u, e) ==
    IF IsKeyChange(e) /\ (KeyOf(e) \in keys[u] \/ Receives(e, u)) THEN KeyOf(e) ELSE Null

IsVerified(u, e) == Verifies(e, PlainKey(u, e))

\* group_text
GroupText(u, e, sealed) ==
    CASE sealed = Null -> Null
      [] sealed # Null /\ KeyOf(e) \in keys[u] /\ Opens(sealed, KeyOf(e)) -> Opened(sealed)
      [] OTHER -> Unavailable

\* What a message event opens to.
EntryShown(u, e) ==
    LET opens == /\ KeyOf(e) \in keys[u]
                 /\ Opens(e.detail.contents, ContentsKey(e, KeyOf(e)))
        entry == ContentsOf(e)
    IN  CASE ~opens -> [what |-> Unavailable, text |-> Unavailable]
          [] opens /\ entry.entry = "message" ->
               [what |-> <<"message", entry.attachments>>, text |-> entry.text]
          [] OTHER -> [what |-> <<entry.entry, entry.target, entry.target_id>>, text |-> entry.text]

\* group_change and convert_settings_change: what of an event, and its text.
ValueShown(d) ==
    CASE d.kind = "ConversationKeyChangeEvent" -> d.conversation_key_version
      [] d.kind = "GroupCreate" ->
           <<d.member_ids, d.admin_ids, d.conversation_key_version>>
      [] d.kind = "GroupMemberAdd" ->
           <<d.member_ids, d.current_member_ids, d.current_admin_ids>>
      [] d.kind = "GroupMemberRemove" -> d.member_ids
      [] d.kind \in {"GroupAdminAdd", "GroupAdminRemove"} -> d.admin_ids
      [] d.kind = "GroupAvatarChange" -> <<d.custom_avatar_url, d.conversation_key_version>>
      [] d.kind = "GroupInviteEnable" -> <<d.invite_url, d.expires_at_msec>>
      [] d.kind = "GroupInviteDisable" -> d.disabled_by_member_id
      [] d.kind = "GroupJoinRequest" -> d.requesting_user_id
      [] d.kind = "GroupJoinReject" -> d.rejected_user_ids
      [] d.kind = "MessageDurationChange" -> d.ttl_msec
      [] d.kind = "MessageDeleteEvent" -> <<d.delete_message_action, d.sequence_ids>>
      [] d.kind = "MarkConversationReadEvent" ->
           <<d.seen_until_sequence_id, d.seen_at_millis>>
      [] OTHER -> Null

\* A re-encryption for a new key is dropped, once it is verified.
Shown(u, e) ==
    LET d == e.detail
        isText == d.kind \in {"GroupTitleChange", "GroupDescriptionChange"}
    IN  CASE IsMessage(e) -> EntryShown(u, e)
          [] e.for_key_rotation /\ isText -> [what |-> Dropped, text |-> Null]
          [] ~IsMessage(e) /\ ~(e.for_key_rotation /\ isText) ->
               [what |-> ValueShown(d),
                text |-> CASE d.kind = "GroupTitleChange" -> GroupText(u, e, d.custom_title)
                           [] d.kind = "GroupDescriptionChange" ->
                                GroupText(u, e, d.custom_description)
                           [] d.kind = "GroupCreate" -> GroupText(u, e, d.title)
                           [] OTHER -> Null]

\* A variant that opens a quoted event only with keys the recipient holds.
HeldKey(u, e, carried) == IF KeyOf(e) \in keys[u] THEN ContentsKey(e, KeyOf(e)) ELSE Null

\* open_quoted_event: the key carried for a message-key event, or one held.
QuotedKey(u, e, carried) ==
    CASE UsesMessageKey(e) /\ carried # Null -> carried
      [] ~(UsesMessageKey(e) /\ carried # Null) /\ KeyOf(e) \in keys[u] ->
           ContentsKey(e, KeyOf(e))
      [] OTHER -> Null

\* A variant that takes any edit by the author for one of the message.
AnyEditHolds(u, e, p) ==
    LET edit == log[p.edit]
    IN  /\ edit.conversation = e.conversation
        /\ edit.sender = log[p.raw].sender
        /\ IsVerified(u, edit)
        /\ OpensAs(edit, QuotedKey(u, edit, p.edit_key), "edit")

\* validate_reply_preview: the edit a preview embeds, and all it says.
EditHolds(u, e, p) ==
    LET raw == log[p.raw]
        edit == log[p.edit]
    IN  /\ edit.conversation = e.conversation
        /\ edit.sender = raw.sender
        /\ IsVerified(u, edit)
        /\ OpensAs(edit, QuotedKey(u, edit, p.edit_key), "edit")
        /\ UsesMessageKey(raw) => ContentsOf(edit).target_id = raw.id

QuoteIsValid(u, e) ==
    LET p == ContentsOf(e).preview
        raw == log[p.raw]
        quoted == ContentsOf(log[IF p.edit = 0 THEN p.raw ELSE p.edit])
    IN  /\ raw.conversation = e.conversation
        /\ IsVerified(u, raw)
        /\ OpensAs(raw, QuotedKey(u, raw, p.key), "message")
        /\ p.sender = raw.sender
        /\ p.sequence = Number(p.raw)
        /\ p.id = raw.id
        /\ p.edit # 0 => EditHolds(u, e, p)
        /\ p.text[2] = quoted.text[2]
        /\ p.attachments[2] \subseteq ContentsOf(raw).attachments

-----------------------------------------------------------------------------
(***************************************************************************)
(* Receiving, and the send format.                                         *)
(***************************************************************************)

\* A key change reaches the app of a user it has a copy for.
ReceiveKeyChange(u) ==
    \E i \in DOMAIN log :
        /\ IsKeyChange(log[i]) /\ Receives(log[i], u)
        /\ KeyOf(log[i]) \notin keys[u]
        /\ keys' = [keys EXCEPT ![u] = @ \cup {KeyOf(log[i])}]
        /\ UNCHANGED <<log, members, v1>>

\* send_version: a feature refresh changes the format of later calls.
SwitchFormat(u) ==
    /\ v1' = [v1 EXCEPT ![u] = ~@]
    /\ UNCHANGED <<log, members, keys>>

\* The API creates neither the group nor a key before it is asked to.
Init ==
    /\ log = <<>>
    /\ members = {}
    /\ keys = [u \in Users |-> {}]
    /\ v1 \in [Users -> BOOLEAN]

Manage(u) ==
    \/ ChangeKey(u) \/ CreateGroup(u) \/ AddMembers(u) \/ RemoveMembers(u) \/ Leave(u)
    \/ ChangeAdmins(u) \/ ChangeText(u) \/ ChangeAvatar(u)
    \/ EnableInvite(u) \/ DisableInvite(u) \/ RequestToJoin(u) \/ RejectJoin(u)
    \/ ChangeSettings(u) \/ DeleteMessages(u) \/ MarkRead(u)

Talk(u) ==
    \/ \E c \in Conversations, text \in Texts :
          \/ \E files \in SUBSET Files : SendText(u, c, text, files)
          \/ \E raw \in Messages, edit \in {0} \cup Messages, claims \in Claims :
                SendReply(u, c, text, raw, edit, claims)
          \/ \E claims \in Claims : SendBareReply(u, c, text, claims)
    \/ \E event \in {0} \cup Messages, explicit \in ExplicitTargets :
          \/ \E text \in Texts : SendEdit(u, text, event, explicit)
          \/ \E entry \in {"reaction", "no reaction"} : React(u, entry, event, explicit)

Next == \E u \in Users : Manage(u) \/ Talk(u) \/ ReceiveKeyChange(u) \/ SwitchFormat(u)

Spec == Init /\ [][Next]_vars

-----------------------------------------------------------------------------
(***************************************************************************)
(* Properties.                                                             *)
(***************************************************************************)

\* Every event verifies at every user, a key change at those who have its key,
\* and shows what its caller asked for, though the two ends spell the
\* conversation, leave out arguments and choose formats differently.  A text
\* is shown to those who hold its key, of whichever conversation and format,
\* and to no other (sign_event, verify_event_signature, group_text).
SurfacesWhatWasAsked ==
    \A i \in DOMAIN log, u \in Users :
        LET e == log[i]
            shown == Shown(u, e)
            asked == e.asked
        IN  /\ (IsKeyChange(e) => PlainKey(u, e) # Null) => IsVerified(u, e)
            /\ \/ shown.what = asked.what /\ shown.text = asked.text
               \/ /\ KeyOf(e) \notin keys[u]
                  /\ shown.text = Unavailable
                  /\ shown.what \in {asked.what, Unavailable}

\* Replies, and whether the preview of reply e is what the SDK derived, of a
\* message of the conversation, and of an edit of it by its author, which
\* names it when it has a message key.
Replies == {i \in Messages : ContentsOf(log[i]).preview.raw # 0}

IsHonest(e) ==
    LET p == ContentsOf(e).preview
        raw == log[p.raw]
        edit == log[p.edit]
    IN  /\ e.asked.honest
        /\ raw.conversation = e.conversation
        /\ p.edit # 0 =>
              /\ edit.conversation = e.conversation /\ edit.sender = raw.sender
              /\ UsesMessageKey(raw) => ContentsOf(edit).target_id = raw.id

MayOpen(u, e) == UsesMessageKey(e) \/ KeyOf(e) \in keys[u]

\* A preview the SDK derived is valid to everyone who can read the reply and
\* has the keys of what it quotes in v0: a v1 message and its v1 edit need no
\* key of their own, so also to who joined later (build_reply_preview against
\* validate_reply_preview).
HonestRepliesAreValid ==
    \A i \in Replies, u \in Users :
        LET p == ContentsOf(log[i]).preview
        IN  /\ IsHonest(log[i])
            /\ KeyOf(log[i]) \in keys[u]
            /\ MayOpen(u, log[p.raw])
            /\ p.edit # 0 => MayOpen(u, log[p.edit])
            => QuoteIsValid(u, log[i])

\* Whatever a reply claims, when its preview is valid to anyone the message of
\* the sequence id it names was sent to this conversation by the user it
\* names, as asked with this text, up to where a quote may end, and these
\* files; and the text of an edit is one its author asked for, of the message
\* with that signed id when it has a message key, whatever sequence id the
\* author gave with it (encrypt_edit, validate_reply_preview).
PreviewsQuoteTruly ==
    \A i \in Replies, u \in Users :
        LET e == log[i]
            p == ContentsOf(e).preview
            named == log[p.sequence[2]]
            said == IF p.edit = 0 THEN named ELSE log[p.edit]
        IN  KeyOf(e) \in keys[u] /\ QuoteIsValid(u, e) =>
              /\ named.conversation = e.conversation
              /\ named.sender = p.sender /\ said.sender = p.sender
              /\ named.asked.what[1] = "message"
              /\ p.attachments[2] \subseteq named.asked.what[2]
              /\ said.asked.text[2] = p.text[2]
              /\ p.edit # 0 =>
                    /\ said.asked.what[1] = "edit"
                    /\ UsesMessageKey(named) => said.asked.what[3] = named.id

\* The messages u can open by a key a reply carries.
OpenedByQuotes(u) ==
    {i \in Messages :
        \E j \in Replies :
            LET p == ContentsOf(log[j]).preview
            IN  /\ KeyOf(log[j]) \in keys[u]
                /\ \/ Opens(log[i].detail.contents, p.key)
                   \/ Opens(log[i].detail.contents, p.edit_key)}

\* Members get no more keys than they are meant to: the key a removal changes
\* to never reaches those it removes, though the app passes a roster from
\* before it; and the keys that replies carry open nothing but what they
\* quote, or the same message sent again (prepare_group_members_remove,
\* build_reply_preview).
KeysStayWithMembers ==
    /\ \A i \in DOMAIN log, u \in Users :
          LET d == log[i].detail
          IN  /\ d.kind = "GroupMemberRemove"
              /\ log[i].sender # u /\ u \in ToSet(d.member_ids)
              => ConversationKey(Group, d.conversation_key_version) \notin keys[u]
    /\ \A u \in Users : \A i \in OpenedByQuotes(u) :
          \E j \in Replies :
              LET p == ContentsOf(log[j]).preview
              IN  log[i].id \in {log[k].id : k \in {p.raw, p.edit} \ {0}}
=============================================================================

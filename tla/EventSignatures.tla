--------------------------- MODULE EventSignatures ---------------------------
(***************************************************************************)
(* What the signature of an event covers, in the layout of its version,    *)
(* and when a recipient finds that it verifies.                            *)
(*                                                                         *)
(* Every value that travels is a sequence that begins with its kind: an    *)
(* absent one is Null, a user <<"id", 7>>, a number <<"number", 7>>, a     *)
(* text <<"text", ...>>, a ciphertext <<"sealed", nonce, key, what>>.  So  *)
(* the components of a payload are the values themselves; how they are     *)
(* written, and that they are joined by commas, is left out, but not that  *)
(* a component with a comma has no payload.                                *)
(***************************************************************************)
EXTENDS Integers, SequencesExt

Null == <<"null">>
Number(n) == <<"number", n>>
Flag(b) == <<"flag", b>>

\* An address that holds a comma.
CommaUrl == <<"text", "a,b">>

-----------------------------------------------------------------------------
(***************************************************************************)
(* Conversation ids: of two users, or of a group.  Callers spell the one   *)
(* of two users in either order, or as the other user's id alone.          *)
(***************************************************************************)

\* join_sorted_pair: by length, then text, which is by number.
Pair(a, b) == IF a[2] <= b[2] THEN <<"pair", a, b>> ELSE <<"pair", b, a>>

\* A variant that only replaces the separator.
SpelledPair(spelled, sender) ==
    IF spelled[1] = "bare" THEN Pair(spelled[2], sender) ELSE spelled

\* canonical_conversation_id
CanonicalId(spelled, sender) ==
    CASE spelled[1] = "pair" -> Pair(spelled[2], spelled[3])
      [] spelled[1] = "bare" -> Pair(spelled[2], sender)
      [] OTHER -> spelled

-----------------------------------------------------------------------------
(***************************************************************************)
(* Payloads: build_event_signature_payload.                                *)
(***************************************************************************)
NoPayload == <<>>

\* What versions from n on cover, and what they cover only when it is there.
From(n, version, components) == IF version >= n THEN components ELSE <<>>

Present(component) == IF component = Null THEN <<>> ELSE <<component>>

\* From version 7 on also an invite, which the SDK never sends.
MemberAddExtras(d, version) ==
    d.member_ids \o d.current_member_ids \o d.current_admin_ids
      \o (IF version \in 3 .. 6 THEN d.current_pending_member_ids ELSE <<>>)
      \o <<d.current_title, d.current_avatar_url, d.current_ttl_msec,
           d.conversation_key_version>>
      \o From(5, version, <<d.screen_capture_blocking_enabled>>)
      \o From(8, version, <<d.current_description>>)

GroupCreateExtras(d, version) ==
    <<d.conversation_key_version>> \o d.member_ids
      \o From(4, version, <<d.is_legacy_group_upgrade, d.title, d.avatar_url>>)
      \o From(9, version, <<d.group_type>>)
      \o From(10, version, <<d.ttl_msec>>)

\* The components after the name and the ids, of the events the SDK sends; a
\* key change's are those of a recipient who has its key, plainKey.
Extras(d, version, plainKey) ==
    CASE d.kind = "MessageCreateEvent" ->
           <<d.conversation_key_version, d.contents>>
             \o From(10, version, <<d.contents_encryption_version>>)
      [] d.kind = "ConversationKeyChangeEvent" ->
           IF version >= 6
           THEN <<d.conversation_key_version, plainKey>>
           ELSE <<d.conversation_key_version>> \o FlattenSeq(d.conversation_participant_keys)
      [] d.kind = "MessageDeleteEvent" -> <<d.delete_message_action>> \o d.sequence_ids
      [] d.kind = "ConversationDeleteEvent" -> <<>>
      [] d.kind = "MarkConversationReadEvent" ->
           <<d.seen_until_sequence_id>> \o Present(d.seen_at_millis)
      [] d.kind = "GroupMemberAdd" -> MemberAddExtras(d, version)
      [] d.kind = "GroupMemberRemove" ->
           d.member_ids \o From(11, version, <<d.conversation_key_version>>)
      [] d.kind \in {"GroupAdminAdd", "GroupAdminRemove"} -> d.admin_ids
      [] d.kind = "GroupTitleChange" -> <<d.conversation_key_version, d.custom_title>>
      [] d.kind = "GroupDescriptionChange" ->
           <<d.conversation_key_version, d.custom_description>>
      [] d.kind = "GroupAvatarChange" ->
           <<d.conversation_key_version, d.custom_avatar_url>>
      [] d.kind = "GroupCreate" -> GroupCreateExtras(d, version)
      [] d.kind = "GroupInviteEnable" ->
           <<d.invite_url, d.expires_at_msec, d.affiliate_id>>
      [] d.kind = "GroupInviteDisable" -> <<d.disabled_by_member_id>>
      [] d.kind = "GroupJoinRequest" -> <<d.requesting_user_id>>
      [] d.kind = "GroupJoinReject" -> d.rejected_user_ids
      [] d.kind = "MessageDurationChange" -> <<d.ttl_msec>>
      [] OTHER -> <<>>   \* MessageDurationRemove, the four screen-capture changes

\* The payload of message `id` that `sender` sends in `conversation`; a group
\* create's leaves the conversation out.
Payload(id, sender, conversation, d, version, plainKey) ==
    LET components ==
            <<<<"name", d.kind>>, id, sender>>
              \o (IF d.kind = "GroupCreate" THEN <<>> ELSE <<conversation>>)
              \o Extras(d, version, plainKey)
              \o From(9, version, <<Number(version)>>)
        lacksKey ==
            d.kind = "ConversationKeyChangeEvent" /\ version >= 6 /\ plainKey = Null
    IN  IF lacksKey \/ CommaUrl \in ToSet(components) THEN NoPayload ELSE components

-----------------------------------------------------------------------------
(***************************************************************************)
(* Signing and verifying.  A signature is taken for the payload it is of.  *)
(***************************************************************************)
MIN_SIGNATURE_VERSION == 2
MAX_SIGNATURE_VERSION == 11
CURRENT_SIGNATURE_VERSION == 7
MEMBER_ADD_DESCRIPTION_SIGNATURE_VERSION == 8
MESSAGE_SIGNATURE_VERSION == 10

\* action_signature_version
ActionSignatureVersion(isV1, legacy) == IF isV1 THEN MESSAGE_SIGNATURE_VERSION ELSE legacy

\* verify_event_signature for a recipient to whom the key of a key change is
\* plainKey, or Null.
Verifies(e, plainKey) ==
    /\ e.signature_version \in MIN_SIGNATURE_VERSION .. MAX_SIGNATURE_VERSION
    /\ LET payload == Payload(e.id, e.sender, e.conversation, e.detail,
                              e.signature_version, plainKey)
       IN  payload # NoPayload /\ e.signature = payload
=============================================================================

---------------------------- MODULE MCThriftReader ----------------------------
(***************************************************************************)
(* Passes over values of every generated type: each field set on its own,  *)
(* and all at once with lists of every size up to one more than a list may *)
(* have, written by a peer of the same schema and by one of a newer.  Then *)
(* damaged bytes, for a few types that have every kind of frame.           *)
(***************************************************************************)
EXTENDS ThriftWriter, ContentSchema

AllTypes ==
    <<Member, PubKeyBytes, MemberKeyInfo, TreeKeyData, TreeNode, MaybeTreeNode,
      GenGroupOpData, EditOpData, TypeData, GroupOpData, PinConversations,
      SetNicknames, SetVerifiedUsers, UserMetadata, MessageRequestInboxSummary,
      SenderPrivilege, ValidatePaymentToken, FrankingData, TargetedNotify,
      SideEffect, MessageCreateEvent, GroupCreate, GroupTitleChange,
      GroupAvatarUrlChange, GroupDescriptionChange, GroupAdminAddChange,
      GroupInviteEnable, GroupMemberAdminSettings, PinnedMessageKey,
      GroupMemberAddChange, GroupAdminRemoveChange, GroupMemberRemoveChange,
      GroupInviteDisable, GroupJoinRequest, GroupJoinReject,
      GroupAdminSettingsChange, GroupChange, GroupChangeEvent,
      ConversationParticipantKey, ConversationKeyChangeEvent, GrokBotMetadata,
      MessageTypingEvent, MessageFailureEvent, MessageDeleteEvent,
      MessageKeyPinInfo, PinMessageEvent, UnpinMessageEntry, UnpinMessageEvent,
      PmkBundleUpdateEvent, ClearConversationOptions, ConversationDeleteEvent,
      MessageDurationChange, MessageDurationRemove, MuteConversation,
      UnmuteConversation, ArchiveConversation, UnarchiveConversation,
      EnableScreenCaptureDetection, DisableScreenCaptureDetection,
      EnableScreenCaptureBlocking, DisableScreenCaptureBlocking, EnableGrok,
      DisableGrok, ConversationMetadataChange, ConversationMetadataChangeEvent,
      GrokSearchResponseEvent, GrokMessageEvent, GrokResponseEvent,
      MarkConversationReadEvent, MarkConversationUnreadEvent,
      MemberAccountDeleteEvent, MessageEventDetail, MessageSigningKeyInfo,
      MessageEventSignature, MessageEvent, PullMessagesInstruction,
      KeepAliveInstruction, PullMessagePageDetails, PullMessagesFinishedInstruction,
      PinReminderInstruction, SwitchToHybridPullInstruction,
      DisplayTemporaryPasscodeInstruction, DeviceDescriptor,
      DeviceEnrollmentInstruction, MigrateUserMetadataInstruction,
      MessageRequestInfoInstruction, XNumberPromptInstruction, OpenInboxInstruction,
      MessageInstruction, BatchedMessageEvents, Message, HashtagRichTextContent,
      CashtagRichTextContent, MentionRichTextContent, UrlRichTextContent,
      EmailRichTextContent, AddressRichTextContent, PhoneNumberRichTextContent,
      RichTextContent, RichTextEntity, MediaDimensions, MediaAttachment,
      PostAttachment, UrlAttachmentImage, UrlAttachment, UnifiedCardAttachment,
      MoneyAttachment, JetfuelAttachment, PaymentReceiptAttachment,
      BotMessageAttachment, MessageAttachment, AVCallEnded, AVCallMissed,
      AVCallStarted, ReplyAVCallCard, ReplyingToPreview, ForwardedMessage,
      QuickReplyOption, QuickReplyOptionsRequest, QuickReplyRequest,
      QuickReplyOptionsResponse, QuickReplyResponse, QuickReply, CallToAction,
      MessageContents, MessageReactionAdd, MessageReactionRemove, MessageEdit,
      MarkConversationRead, MarkConversationUnread, PinConversation,
      UnpinConversation, ScreenCaptureDetected, DraftMessage, AcceptMessageRequest,
      NicknameMessage, SetVerifiedStatus, XNumberUsed, MessageEntryContents,
      MessageEntryHolder, GrokAttachments>>

DamagedTypes == <<MessageEventSignature, UserMetadata, GroupChangeEvent, QuickReply, Member>>

RECURSIVE Sample(_, _, _)

Only(t, i, n) ==
    [name \in {t.fields[i].name} |-> Sample(t.fields[i].type, n, t.fields[i].id)]

All(t, n) ==
    [name \in {t.fields[i].name : i \in DOMAIN t.fields} |->
        LET i == CHOOSE j \in DOMAIN t.fields : t.fields[j].name = name
        IN  Sample(t.fields[i].type, n, t.fields[i].id)]

\* A value of type t whose containers have n elements; k tells scalars apart.
Sample(t, n, k) ==
    CASE t.kind = "scalar" -> k
      [] t.kind = "list" -> [i \in 1 .. n |-> Sample(t.of, n, i)]
      [] t.kind = "map" -> [i \in 1 .. n |-> Sample(t.of, n, i)]
      [] t.kind = "union" -> Only(t, 1, n)
      [] OTHER -> All(t, n)

\* Each field of an optional one on its own, and a whole struct.
Alone(t) ==
    IF RequiredNames(t) = {} THEN [i \in DOMAIN t.fields |-> Only(t, i, 1)] ELSE <<>>

Samples(t) ==
    Alone(t)
    \o (IF t.kind = "struct" THEN [i \in 1 .. MaxCollectionSize + 2 |-> All(t, i - 1)]
                             ELSE <<>>)

\* Which sample of which type, and whether a newer peer wrote it.
WrittenIds ==
    UNION {{<<i, j, newer>> : j \in DOMAIN Samples(AllTypes[i]), newer \in BOOLEAN} :
           i \in DOMAIN AllTypes}

DamagedIds == {<<i, 0, FALSE>> : i \in DOMAIN DamagedTypes}

MCWrite(v, t, newer) == LET tokens == Writes(v, t, newer) IN tokens

Written(t, v, newer) ==
    [type |-> t, value |-> v, tokens |-> Write(v, t, newer), damaged |-> FALSE]

Damage(t) == [type |-> t, value |-> <<>>, tokens |-> <<>>, damaged |-> TRUE]

MCPasses == WrittenIds \cup DamagedIds

MCPass(id) ==
    IF id \in DamagedIds
    THEN Damage(DamagedTypes[id[1]])
    ELSE Written(AllTypes[id[1]], Samples(AllTypes[id[1]])[id[2]], id[3])

RECURSIVE Nested(_)

Nested(t) ==
    {t} \cup
    CASE t.kind = "list" -> Nested(t.of)
      [] t.kind = "map" -> Nested(t.key) \cup Nested(t.of)
      [] t.kind = "scalar" -> {}
      [] OTHER -> UNION {Nested(f.type) : f \in FieldsOf(t)}

MCTypes == UNION {Nested(AllTypes[i]) : i \in DOMAIN AllTypes}

\* The samples, and with them all they hold; fields have ids to 112.
MCValuesOf ==
    [t \in MCTypes |->
        IF t.kind = "scalar" THEN 0 .. 112
        ELSE {Sample(t, n, 0) : n \in 0 .. MaxCollectionSize + 1}
             \cup IF HasFields(t) THEN {Alone(t)[i] : i \in DOMAIN Alone(t)} ELSE {}]

MCValues(t) == MCValuesOf[t]

MCSizes == {-1, 0, 1, 3}

================================================================================

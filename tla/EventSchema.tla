------------------------------ MODULE EventSchema ------------------------------
(***************************************************************************)
(* The types of event.rs, which the Thrift compiler generated: what travels *)
(* between the server and the clients. The encrypted contents of a message  *)
(* are bytes here; what they hold once decrypted is in ContentSchema.       *)
(***************************************************************************)
EXTENDS TreeSchema

EventQueuePriority == Enum(1 .. 5)

AdditionalAction == Enum({0})

GroupType == Enum({0, 1})

MessageActivityType == Enum({1, 2})

FailureType == Enum(1 .. 19)

RateLimitTier == Enum(1 .. 5)

DeleteMessageAction == Enum({1, 2})

MessageEventRelaySource == Enum(0 .. 3)

DeviceEnrollmentStatus == Enum(0 .. 5)

PinConversations == Struct(<<F(1, "conversation_ids_to_pin", ListOf(Str))>>)

SetNicknames == Struct(<<F(1, "placeholder", Str)>>)

SetVerifiedUsers == Struct(<<F(1, "placeholder", Str)>>)

UserMetadata == Struct(<<
    F(1, "pinned_conversation_ids", ListOf(Str)),
    F(2, "user_id_to_nickname", MapOf(I64, Str)),
    F(3, "safety_number_verified_user_ids", ListOf(I64))>>)

MessageRequestInboxSummary == Struct(<<
    F(1, "member_ids", ListOf(Str)), F(2, "unread_count_priority", I32),
    F(3, "unread_count_hidden", I32), F(4, "has_unseen", Bool),
    F(5, "latest_seen_seq_id", I64), F(6, "max_priority_seq", I64)>>)

SenderPrivilege == Struct(<<
    F(1, "is_admin", Bool), F(2, "is_restricted_chat", Bool)>>)

ValidatePaymentToken == Struct(<<F(1, "receipt_token", Str)>>)

FrankingData == Struct(<<
    F(1, "franking_tag", Bin), F(2, "encrypted_nonce", Bin),
    F(4, "encrypted_media_hashes", ListOf(Bin))>>)

TargetedNotify == Struct(<<
    F(1, "user_ids", ListOf(Str)), F(2, "respect_mutes", Bool)>>)

SideEffect == Union(<<
    F(1, "additional_action", AdditionalAction),
    F(2, "targeted_notify", TargetedNotify),
    F(3, "pin_conversations", PinConversations),
    F(4, "set_nicknames", SetNicknames),
    F(5, "set_verified_users", SetVerifiedUsers),
    F(6, "sender_privilege", SenderPrivilege),
    F(7, "validate_payment_token", ValidatePaymentToken)>>)

MessageCreateEvent == Struct(<<
    F(100, "contents", Bin), F(101, "conversation_key_version", Str),
    F(102, "should_notify", Bool), F(103, "ttl_msec", I64),
    F(104, "delivered_at_msec", I64), F(105, "is_pending_public_key", Bool),
    F(106, "priority", EventQueuePriority),
    F(107, "additional_action_list", ListOf(AdditionalAction)),
    F(108, "franking_data", FrankingData), F(109, "is_message_request", Bool),
    F(111, "side_effects", ListOf(SideEffect)),
    F(112, "contents_encryption_version", I16)>>)

GroupCreate == Struct(<<
    F(1, "member_ids", ListOf(Str)), F(2, "admin_ids", ListOf(Str)),
    F(3, "title", Str), F(4, "avatar_url", Str),
    F(5, "conversation_key_version", Str), F(6, "is_legacy_group_upgrade", Bool),
    F(7, "ttl_msec", I64), F(8, "group_type", GroupType)>>)

GroupTitleChange == Struct(<<
    F(1, "custom_title", Str), F(2, "conversation_key_version", Str)>>)

GroupAvatarUrlChange == Struct(<<
    F(1, "custom_avatar_url", Str), F(2, "conversation_key_version", Str)>>)

GroupDescriptionChange == Struct(<<
    F(1, "custom_description", Str), F(2, "conversation_key_version", Str)>>)

GroupAdminAddChange == Struct(<<F(1, "admin_ids", ListOf(Str))>>)

GroupInviteEnable == Struct(<<
    F(1, "expires_at_msec", I64), F(2, "invite_url", Str),
    F(3, "affiliate_id", Str)>>)

GroupMemberAdminSettings == Struct(<<
    F(1, "edit_group_info", Bool), F(2, "edit_message_ttl", Bool),
    F(3, "block_screen_capture", Bool), F(4, "add_member", Bool),
    F(5, "send_message", Bool), F(6, "start_call", Bool)>>)

PinnedMessageKey == Struct(<<
    F(1, "pme_sequence_id", I64), F(2, "conversation_key_version", Str),
    F(3, "encrypted_pmk", Bin), F(4, "encrypted_message_key", Bin),
    F(5, "encrypted_edit_message_key", Bin)>>)

GroupMemberAddChange == Struct(<<
    F(1, "member_ids", ListOf(Str)), F(2, "current_member_ids", ListOf(Str)),
    F(3, "current_admin_ids", ListOf(Str)), F(4, "current_title", Str),
    F(5, "current_avatar_url", Str), F(6, "conversation_key_version", Str),
    F(7, "current_ttl_msec", I64), F(8, "current_pending_member_ids", ListOf(Str)),
    F(9, "screen_capture_blocking_enabled", Bool),
    F(11, "group_invite_enable", GroupInviteEnable),
    F(12, "admin_settings", GroupMemberAdminSettings),
    F(13, "current_pmk_bundle", MapOf(Str, Bin)),
    F(14, "group_created_by_user_id", Str),
    F(15, "rotated_pmk_bundle", MapOf(Str, PinnedMessageKey)),
    F(16, "current_description", Str)>>)

GroupAdminRemoveChange == Struct(<<F(1, "admin_ids", ListOf(Str))>>)

GroupMemberRemoveChange == Struct(<<
    F(1, "member_ids", ListOf(Str)), F(2, "conversation_key_version", Str)>>)

GroupInviteDisable == Struct(<<F(1, "disabled_by_member_id", Str)>>)

GroupJoinRequest == Struct(<<F(1, "requesting_user_id", Str)>>)

GroupJoinReject == Struct(<<F(1, "rejected_user_ids", ListOf(Str))>>)

GroupAdminSettingsChange == Struct(<<
    F(1, "edit_group_info", Bool), F(2, "edit_message_ttl", Bool),
    F(3, "block_screen_capture", Bool), F(4, "add_member", Bool),
    F(5, "send_message", Bool), F(6, "start_call", Bool)>>)

GroupChange == Union(<<
    F(1, "group_create", GroupCreate), F(2, "group_title_change", GroupTitleChange),
    F(3, "group_avatar_change", GroupAvatarUrlChange),
    F(4, "group_admin_add", GroupAdminAddChange),
    F(5, "group_member_add", GroupMemberAddChange),
    F(6, "group_admin_remove", GroupAdminRemoveChange),
    F(7, "group_member_remove", GroupMemberRemoveChange),
    F(8, "group_invite_enable", GroupInviteEnable),
    F(9, "group_invite_disable", GroupInviteDisable),
    F(10, "group_join_request", GroupJoinRequest),
    F(11, "group_join_reject", GroupJoinReject),
    F(12, "group_admin_settings_change", GroupAdminSettingsChange),
    F(14, "group_description_change", GroupDescriptionChange)>>)

GroupChangeEvent == Struct(<<
    F(1, "group_change", GroupChange), F(2, "for_key_rotation", Bool)>>)

ConversationParticipantKey == Struct(<<
    F(1, "user_id", Str), F(2, "encrypted_conversation_key", Str),
    F(3, "public_key_version", Str)>>)

ConversationKeyChangeEvent == Struct(<<
    F(1, "conversation_key_version", Str),
    F(2, "conversation_participant_keys", ListOf(ConversationParticipantKey)),
    F(4, "ratchet_tree_change", GroupOpData), F(5, "for_key_rotation", Bool)>>)

GrokBotMetadata == Struct(<<
    F(1, "agent_id", Str), F(2, "name", Str), F(3, "avatar_color", Str),
    F(4, "avatar_shape", Str)>>)

MessageTypingEvent == Struct(<<
    F(1, "conversation_id", Str), F(2, "activity_type", MessageActivityType),
    F(3, "is_grok", Bool), F(4, "created_at_msec", Str),
    F(5, "grok_bot", GrokBotMetadata)>>)

MessageFailureEvent == Struct(<<
    F(1, "failure_type", FailureType), F(2, "rate_limit_tier", RateLimitTier)>>)

MessageDeleteEvent == Struct(<<
    F(1, "sequence_ids", ListOf(Str)),
    F(2, "delete_message_action", DeleteMessageAction),
    F(3, "pme_sequence_ids", MapOf(Str, Str))>>)

MessageKeyPinInfo == Struct(<<
    F(1, "encrypted_message_key", Bin), F(2, "edit_sequence_id", I64),
    F(3, "encrypted_edit_message_key", Bin), F(4, "message_event", Bin),
    F(5, "edit_message_event", Bin)>>)

PinMessageEvent == Struct(<<
    F(1, "contents", Bin), F(2, "encrypted_pmk", Bin),
    F(3, "conversation_key_version", Str), F(4, "message_sequence_id", I64),
    F(5, "sequence_id", I64), F(6, "ttl_msec", I64), F(7, "delivered_at_msec", I64),
    F(8, "message_key_pin_info", MessageKeyPinInfo)>>)

UnpinMessageEntry == Struct(<<
    F(1, "pme_sequence_id", I64), F(2, "message_sequence_id", I64)>>)

UnpinMessageEvent == Struct(<<
    F(1, "pme_sequence_id", I64), F(2, "message_sequence_id", I64),
    F(3, "entries", ListOf(UnpinMessageEntry))>>)

PmkBundleUpdateEvent == Struct(<<F(1, "pmk_bundle", MapOf(Str, PinnedMessageKey))>>)

ClearConversationOptions == Struct(<<
    F(1, "clear_all_messages", Bool), F(2, "sort_order_msec", I64)>>)

ConversationDeleteEvent == Struct(<<
    F(1, "conversation_id", Str),
    F(2, "clear_conversation_options", ClearConversationOptions)>>)

MessageDurationChange == Struct(<<
    F(1, "ttl_msec", I64), F(2, "apply_to_all_messages", Bool)>>)

MessageDurationRemove == Struct(<<F(1, "current_ttl_msec", I64)>>)

MuteConversation == Struct(<<F(1, "muted_conversation_ids", ListOf(Str))>>)

UnmuteConversation == Struct(<<F(1, "unmuted_conversation_ids", ListOf(Str))>>)

ArchiveConversation == Struct(<<F(1, "archived_conversation_ids", ListOf(Str))>>)

UnarchiveConversation == Struct(<<
    F(1, "unarchived_conversation_ids", ListOf(Str))>>)

EnableScreenCaptureDetection == Struct(<<F(1, "placeholder", Str)>>)

DisableScreenCaptureDetection == Struct(<<F(1, "placeholder", Str)>>)

EnableScreenCaptureBlocking == Struct(<<F(1, "placeholder", Str)>>)

DisableScreenCaptureBlocking == Struct(<<F(1, "placeholder", Str)>>)

EnableGrok == Struct(<<F(1, "placeholder", Str)>>)

DisableGrok == Struct(<<F(1, "placeholder", Str)>>)

ConversationMetadataChange == Union(<<
    F(1, "message_duration_change", MessageDurationChange),
    F(2, "message_duration_remove", MessageDurationRemove),
    F(3, "mute_conversation", MuteConversation),
    F(4, "unmute_conversation", UnmuteConversation),
    F(5, "enable_screen_capture_detection", EnableScreenCaptureDetection),
    F(6, "disable_screen_capture_detection", DisableScreenCaptureDetection),
    F(7, "enable_screen_capture_blocking", EnableScreenCaptureBlocking),
    F(8, "disable_screen_capture_blocking", DisableScreenCaptureBlocking),
    F(9, "enable_grok", EnableGrok), F(10, "disable_grok", DisableGrok),
    F(11, "archive_conversation", ArchiveConversation),
    F(12, "unarchive_conversation", UnarchiveConversation)>>)

ConversationMetadataChangeEvent == Struct(<<
    F(1, "conversation_metadata_change", ConversationMetadataChange)>>)

GrokSearchResponseEvent == Struct(<<F(1, "search_response_id", Str)>>)

GrokMessageEvent == Struct(<<
    F(1, "encrypted_message", Bin), F(2, "ephemeral_public_key", Bin),
    F(3, "nonce", Bin), F(4, "iv", Bin), F(5, "conversation_key_version", Str)>>)

GrokResponseEvent == Struct(<<
    F(1, "encrypted_response", Bin), F(2, "nonce", Bin), F(3, "signature", Bin),
    F(4, "response_iv", Bin), F(5, "ciphertext_hash", Bin),
    F(6, "plaintext_response", Str), F(7, "encoded_attachments", Bin),
    F(8, "ttl_msec", I64), F(9, "delivered_at_msec", I64),
    F(10, "replying_to_message_sequence_id", Str),
    F(11, "replying_to_message_id", Str), F(12, "grok_bot", GrokBotMetadata)>>)

MarkConversationReadEvent == Struct(<<
    F(1, "seen_until_sequence_id", Str), F(2, "seen_at_millis", I64),
    F(3, "is_grok", Bool)>>)

MarkConversationUnreadEvent == Struct(<<F(1, "seen_until_sequence_id", Str)>>)

MemberAccountDeleteEvent == Struct(<<
    F(1, "member_id", Str), F(2, "promoted_admin_id", Str)>>)

MessageEventDetail == Union(<<
    F(1, "messageCreateEvent", MessageCreateEvent),
    F(3, "conversationKeyChangeEvent", ConversationKeyChangeEvent),
    F(4, "groupChangeEvent", GroupChangeEvent),
    F(5, "messageFailureEvent", MessageFailureEvent),
    F(6, "messageTypingEvent", MessageTypingEvent),
    F(7, "messageDeleteEvent", MessageDeleteEvent),
    F(8, "conversationDeleteEvent", ConversationDeleteEvent),
    F(9, "conversationMetadataChangeEvent", ConversationMetadataChangeEvent),
    F(10, "grokSearchResponseEvent", GrokSearchResponseEvent),
    F(12, "markConversationReadEvent", MarkConversationReadEvent),
    F(13, "markConversationUnreadEvent", MarkConversationUnreadEvent),
    F(14, "memberAccountDeleteEvent", MemberAccountDeleteEvent),
    F(15, "grokMessageEvent", GrokMessageEvent),
    F(16, "grokResponseEvent", GrokResponseEvent),
    F(17, "pinMessageEvent", PinMessageEvent),
    F(18, "unpinMessageEvent", UnpinMessageEvent),
    F(19, "pmkBundleUpdateEvent", PmkBundleUpdateEvent)>>)

MessageSigningKeyInfo == Struct(<<
    F(1, "member_id", Str), F(2, "public_key_version", Str),
    F(3, "signing_public_key", Str)>>)

MessageEventSignature == Struct(<<
    F(1, "signature", Str), F(2, "public_key_version", Str),
    F(3, "signature_version", Str), F(4, "signing_public_key", Str),
    F(5, "message_signing_key_info_list", ListOf(MessageSigningKeyInfo))>>)

MessageEvent == Struct(<<
    F(1, "sequence_id", Str), F(2, "message_id", Str), F(3, "sender_id", Str),
    F(4, "conversation_id", Str), F(5, "conversation_token", Str),
    F(6, "created_at_msec", Str), F(7, "detail", MessageEventDetail),
    F(8, "relay_source", MessageEventRelaySource),
    F(9, "message_event_signature", MessageEventSignature),
    F(10, "previous_sequence_id", Str), F(11, "is_trusted", Bool),
    F(13, "conversation_event_counter", Str)>>)

PullMessagesInstruction == Struct(<<
    F(1, "sequence_start", Str), F(2, "sender_id", Str),
    F(6, "is_batched_pull", Bool)>>)

KeepAliveInstruction == Struct(<<>>)

PullMessagePageDetails == Struct(<<
    F(3, "min_sequence_id", Str), F(4, "max_sequence_id", Str),
    F(7, "is_batched_pull", Bool)>>)

PullMessagesFinishedInstruction == Struct(<<
    F(1, "finished_pull", Bool), F(2, "sequence_continue", Str),
    F(3, "pull_message_page_details", PullMessagePageDetails)>>)

PinReminderInstruction == Struct(<<
    F(1, "should_register", Bool), F(2, "should_generate", Bool),
    F(3, "is_required", Bool)>>)

SwitchToHybridPullInstruction == Struct(<<F(1, "requesting_user_agent", Str)>>)

DisplayTemporaryPasscodeInstruction == Struct(<<
    F(1, "token", Str), F(2, "latest_public_key_version", Str)>>)

DeviceDescriptor == Struct(<<
    F(1, "device_type", Str), F(2, "device_model", Str), F(3, "app_version", Str),
    F(4, "app_name", Str)>>)

DeviceEnrollmentInstruction == Struct(<<
    F(1, "enrollment_id", Str), F(2, "status", DeviceEnrollmentStatus),
    F(3, "enrolled_device_public_key", Str), F(4, "new_device_public_key", Str),
    F(5, "encrypted_key_material", Str), F(6, "public_key_hash", Str),
    F(7, "user_agent", Str), F(8, "device_descriptor", DeviceDescriptor)>>)

MigrateUserMetadataInstruction == Struct(<<F(1, "should_migrate", Bool)>>)

MessageRequestInfoInstruction == Struct(<<
    F(1, "message_request_inbox_summary", MessageRequestInboxSummary)>>)

XNumberPromptInstruction == Struct(<<>>)

OpenInboxInstruction == Struct(<<>>)

MessageInstruction == Union(<<
    F(1, "pullMessagesInstruction", PullMessagesInstruction),
    F(2, "keepAliveInstruction", KeepAliveInstruction),
    F(3, "pullMessagesFinishedInstruction", PullMessagesFinishedInstruction),
    F(4, "pinReminderInstruction", PinReminderInstruction),
    F(5, "switchToHybridPullInstruction", SwitchToHybridPullInstruction),
    F(6, "displayTemporaryPasscodeInstruction", DisplayTemporaryPasscodeInstruction),
    F(7, "deviceEnrollmentInstruction", DeviceEnrollmentInstruction),
    F(8, "migrateUserMetadataInstruction", MigrateUserMetadataInstruction),
    F(9, "messageRequestInfoInstruction", MessageRequestInfoInstruction),
    F(10, "xNumberPromptInstruction", XNumberPromptInstruction),
    F(11, "openInboxInstruction", OpenInboxInstruction)>>)

BatchedMessageEvents == Struct(<<F(1, "message_events", ListOf(MessageEvent))>>)

Message == Union(<<
    F(1, "messageEvent", MessageEvent),
    F(2, "messageInstruction", MessageInstruction),
    F(3, "batchedMessageEvents", BatchedMessageEvents)>>)

================================================================================

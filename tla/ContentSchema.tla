----------------------------- MODULE ContentSchema -----------------------------
(***************************************************************************)
(* The types of product.rs, which the Thrift compiler generated: what the   *)
(* contents of a message hold once decrypted. A preview of a quoted message *)
(* carries the event it quotes.                                             *)
(***************************************************************************)
EXTENDS EventSchema

ScreenCaptureType == Enum({1, 2})

SentFromSurface == Enum(1 .. 5)

BotMessageType == Enum({1})

MediaType == Enum(1 .. 6)

HashtagRichTextContent == Struct(<<>>)

CashtagRichTextContent == Struct(<<>>)

MentionRichTextContent == Struct(<<>>)

UrlRichTextContent == Struct(<<>>)

EmailRichTextContent == Struct(<<>>)

AddressRichTextContent == Struct(<<>>)

PhoneNumberRichTextContent == Struct(<<>>)

RichTextContent == Union(<<
    F(1, "hashtag", HashtagRichTextContent),
    F(2, "cashtag", CashtagRichTextContent),
    F(3, "mention", MentionRichTextContent), F(4, "url", UrlRichTextContent),
    F(5, "email", EmailRichTextContent), F(6, "address", AddressRichTextContent),
    F(7, "phoneNumber", PhoneNumberRichTextContent)>>)

RichTextEntity == Struct(<<
    F(1, "start_index", I32), F(2, "end_index", I32),
    F(3, "content", RichTextContent)>>)

MediaDimensions == Struct(<<F(1, "width", I64), F(2, "height", I64)>>)

MediaAttachment == Struct(<<
    F(1, "media_hash_key", Str), F(2, "dimensions", MediaDimensions),
    F(3, "type", MediaType), F(4, "duration_millis", I64),
    F(5, "filesize_bytes", I64), F(6, "filename", Str), F(7, "attachment_id", Str),
    F(8, "legacy_media_url_https", Str), F(9, "legacy_media_preview_url", Str),
    F(10, "grok_tag", Str), F(11, "plaintext_sha256", Bin)>>)

PostAttachment == Struct(<<
    F(1, "rest_id", Str), F(2, "post_url", Str), F(3, "attachment_id", Str)>>)

UrlAttachmentImage == Struct(<<
    F(1, "media_hash_key", Str), F(2, "filesize_bytes", I64), F(3, "filename", Str),
    F(4, "dimensions", MediaDimensions)>>)

UrlAttachment == Struct(<<
    F(1, "url", Str), F(2, "banner_image_media_hash_key", UrlAttachmentImage),
    F(3, "favicon_image_media_hash_key", UrlAttachmentImage),
    F(4, "display_title", Str), F(5, "attachment_id", Str)>>)

UnifiedCardAttachment == Struct(<<F(1, "url", Str), F(2, "attachment_id", Str)>>)

MoneyAttachment == Struct(<<F(1, "fallbackText", Str), F(2, "payload", Bin)>>)

JetfuelAttachment == Struct(<<
    F(2, "height", I32), F(3, "url", Str), F(4, "attachment_id", Str)>>)

PaymentReceiptAttachment == Struct(<<F(1, "receipt_token", Str)>>)

BotMessageAttachment == Struct(<<
    F(1, "entry_id", Str), F(2, "type", BotMessageType),
    F(3, "payload_json", Str)>>)

MessageAttachment == Union(<<
    F(1, "media", MediaAttachment), F(2, "post", PostAttachment),
    F(3, "url", UrlAttachment), F(4, "unified_card", UnifiedCardAttachment),
    F(5, "money", MoneyAttachment), F(6, "jetfuel", JetfuelAttachment),
    F(7, "payment_receipt", PaymentReceiptAttachment),
    F(8, "bot_message", BotMessageAttachment)>>)

AVCallEnded == Struct(<<
    F(1, "sent_at_millis", I64), F(2, "duration_seconds", I64),
    F(3, "is_audio_only", Bool), F(5, "broadcast_id", Str)>>)

AVCallMissed == Struct(<<F(1, "sent_at_millis", I64), F(2, "is_audio_only", Bool)>>)

AVCallStarted == Struct(<<F(1, "is_audio_only", Bool), F(3, "broadcast_id", Str)>>)

ReplyAVCallCard == Union(<<
    F(1, "ended", AVCallEnded), F(2, "missed", AVCallMissed),
    F(3, "started", AVCallStarted)>>)

ReplyingToPreview == Struct(<<
    F(1, "sender_id", I64), F(2, "message_text", Str),
    F(3, "entities", ListOf(RichTextEntity)),
    F(4, "attachments", ListOf(MessageAttachment)),
    F(5, "sender_display_name", Str), F(6, "replying_to_message_sequence_id", Str),
    F(7, "replying_to_message_id", Str),
    F(8, "raw_event_message_create", MessageEvent),
    F(9, "raw_event_edit_message", MessageEvent),
    F(10, "raw_event_ckces", ListOf(MessageEvent)),
    F(11, "av_call_card", ReplyAVCallCard), F(12, "replying_to_attachment_id", Str),
    F(13, "raw_event_message_key", Bin), F(14, "raw_event_edit_message_key", Bin)>>)

ForwardedMessage == Struct(<<
    F(1, "message_text", Str), F(2, "entities", ListOf(RichTextEntity))>>)

QuickReplyOption == Struct(<<
    F(1, "id", Str), F(2, "label", Str), F(3, "metadata", Str),
    F(4, "description", Str)>>)

QuickReplyOptionsRequest == Struct(<<
    F(1, "id", Str), F(2, "options", ListOf(QuickReplyOption))>>)

QuickReplyRequest == Union(<<F(1, "options", QuickReplyOptionsRequest)>>)

QuickReplyOptionsResponse == Struct(<<
    F(1, "request_id", Str), F(2, "metadata", Str),
    F(3, "selected_option_id", Str)>>)

QuickReplyResponse == Union(<<F(1, "options", QuickReplyOptionsResponse)>>)

QuickReply == Union(<<
    F(1, "request", QuickReplyRequest), F(2, "response", QuickReplyResponse)>>)

CallToAction == Struct(<<F(1, "label", Str), F(2, "url", Str)>>)

MessageContents == Struct(<<
    F(1, "message_text", Str), F(2, "entities", ListOf(RichTextEntity)),
    F(3, "attachments", ListOf(MessageAttachment)),
    F(4, "replying_to_preview", ReplyingToPreview),
    F(6, "forwarded_message", ForwardedMessage), F(7, "sent_from", SentFromSurface),
    F(8, "quick_reply", QuickReply), F(9, "ctas", ListOf(CallToAction)),
    F(10, "additional_fields", MapOf(Str, Str))>>)

MessageReactionAdd == Struct(<<
    F(1, "message_sequence_id", Str), F(2, "emoji", Str),
    F(3, "message_attachment_id", Str)>>)

MessageReactionRemove == Struct(<<
    F(1, "message_sequence_id", Str), F(2, "emoji", Str),
    F(3, "message_attachment_id", Str)>>)

MessageEdit == Struct(<<
    F(1, "message_sequence_id", Str), F(2, "updated_text", Str),
    F(3, "entities", ListOf(RichTextEntity)), F(4, "message_id", Str)>>)

MarkConversationRead == Struct(<<
    F(1, "seen_until_sequence_id", Str), F(2, "seen_at_millis", I64)>>)

MarkConversationUnread == Struct(<<F(1, "seen_until_sequence_id", Str)>>)

PinConversation == Struct(<<F(1, "conversation_id", Str)>>)

UnpinConversation == Struct(<<F(1, "conversation_id", Str)>>)

ScreenCaptureDetected == Struct(<<F(1, "type", ScreenCaptureType)>>)

DraftMessage == Struct(<<F(1, "conversation_id", Str), F(2, "draft_text", Str)>>)

AcceptMessageRequest == Struct(<<>>)

NicknameMessage == Struct(<<F(1, "user_id", I64), F(2, "nickname_text", Str)>>)

SetVerifiedStatus == Struct(<<F(1, "user_id", I64), F(2, "verified_status", Bool)>>)

XNumberUsed == Struct(<<>>)

MessageEntryContents == Union(<<
    F(1, "message", MessageContents), F(2, "reaction_add", MessageReactionAdd),
    F(3, "reaction_remove", MessageReactionRemove),
    F(4, "message_edit", MessageEdit),
    F(5, "mark_conversation_read", MarkConversationRead),
    F(6, "mark_conversation_unread", MarkConversationUnread),
    F(7, "pin_conversation", PinConversation),
    F(8, "unpin_conversation", UnpinConversation),
    F(9, "screen_capture_detected", ScreenCaptureDetected),
    F(10, "av_call_ended", AVCallEnded), F(11, "av_call_missed", AVCallMissed),
    F(12, "draft_message", DraftMessage),
    F(13, "accept_message_request", AcceptMessageRequest),
    F(14, "nickname_message", NicknameMessage),
    F(15, "set_verified_status", SetVerifiedStatus),
    F(16, "av_call_started", AVCallStarted), F(17, "x_number_used", XNumberUsed)>>)

MessageEntryHolder == Struct(<<F(1, "contents", MessageEntryContents)>>)

GrokAttachments == Struct(<<F(1, "attachments", ListOf(MessageAttachment))>>)

================================================================================

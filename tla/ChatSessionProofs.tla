-------------------------- MODULE ChatSessionProofs --------------------------
(***************************************************************************)
(* What the users of ChatSession may rely on in every session: of any      *)
(* number of users, messages, key versions and events.  The invariant says *)
(* of each event of the log that it is signed as its recipients check it,  *)
(* that it says what was asked for under its own key, and that what it     *)
(* quotes is in the log; and of each removal who has its key.              *)
(***************************************************************************)
EXTENDS ChatSession, SequenceFacts

-----------------------------------------------------------------------------
(***************************************************************************)
(* Values: keys, sealed contents and absent ones are told apart.           *)
(***************************************************************************)
LEMMA TaggedIs ==
    ASSUME NEW x, NEW tag, NEW what, x = <<tag, what>>
    PROVE  x[1] = tag /\ x[2] = what
  OBVIOUS

LEMMA SealedIs ==
    ASSUME NEW nonce, NEW key, NEW what
    PROVE  /\ Seal(nonce, key, what) # Null
           /\ Opened(Seal(nonce, key, what)) = what
           /\ \A k : Opens(Seal(nonce, key, what), k) <=> k = key
  BY DEF Seal, Null, Opened, Opens

LEMMA ConversationKeyIs ==
    ASSUME NEW c, NEW v
    PROVE  /\ ConversationKey(c, v) # Null
           /\ \A d, w : ConversationKey(c, v) = ConversationKey(d, w) => c = d /\ v = w
  BY DEF ConversationKey, Null

LEMMA MessageKeyIs ==
    ASSUME NEW key, NEW u, NEW id
    PROVE  /\ <<"message", key, u, id>> # Null
           /\ \A k, w, j : <<"message", key, u, id>> = <<"message", k, w, j>> => id = j
           /\ \A c, v : <<"message", key, u, id>> # ConversationKey(c, v)
  BY DEF ConversationKey, Null

LEMMA NumberIs ==
    ASSUME NEW n
    PROVE  /\ Number(n) # Null /\ Number(n)[2] = n
           /\ \A m : Number(n) = Number(m) => n = m
  BY DEF Number, Null

\* The conversations, and the ways to spell them.
LEMMA ConversationsDiffer == Group # PairConversation
  BY DEF Group, PairConversation, Pair

LEMMA SpellingsAreOfOne ==
    ASSUME NEW u \in Users, NEW c \in Conversations, NEW spelled \in Spellings(u, c),
           c = Group \/ u \in PairUsers
    PROVE  CanonicalId(spelled, u) = c
<1>1. CASE c = Group
  BY <1>1 DEF Spellings, CanonicalId, Group
<1>2. CASE c = PairConversation
  <2>1. PICK a, b \in Users : a # b /\ PairUsers = {a, b}
    BY UsersAssumption
  <2>2. /\ a = <<"id", a[2]>> /\ b = <<"id", b[2]>>
        /\ a[2] \in Nat /\ b[2] \in Nat
    BY UsersAssumption
  <2>3. a[2] # b[2]
    BY <2>1, <2>2
  <2>4. Pair(a, b) = Pair(b, a)
    BY <2>2, <2>3 DEF Pair
  <2>5. c = Pair(a, b)
    <3> DEFINE x == CHOOSE w \in PairUsers : TRUE
               y == CHOOSE w \in PairUsers : w # x
    <3>1. x \in PairUsers
      BY <2>1
    <3>2. c = Pair(x, y)
      BY <1>2 DEF PairConversation
    <3> HIDE DEF x
    <3>3. \E w \in PairUsers : w # x
      BY <2>1
    <3>4. y \in PairUsers /\ y # x
      BY <3>3
    <3> HIDE DEF y
    <3>5. QED
      BY <2>1, <2>4, <3>1, <3>2, <3>4
  <2>6. c = <<"pair", a, b>> \/ c = <<"pair", b, a>>
    BY <2>5 DEF Pair
  <2>7. c # Group
    BY <1>2, ConversationsDiffer
  <2>8. \/ spelled = <<"pair", a, b>> \/ spelled = <<"pair", b, a>>
        \/ \E w \in PairUsers \ {u} : spelled = <<"bare", w>>
    <3>1. \/ spelled \in {<<"pair", c[2], c[3]>>, <<"pair", c[3], c[2]>>}
          \/ spelled \in {<<"bare", w>> : w \in PairUsers \ {u}}
      BY <2>7 DEF Spellings
    <3>2. CASE spelled \in {<<"pair", c[2], c[3]>>, <<"pair", c[3], c[2]>>}
      BY <2>6, <3>2
    <3>3. CASE spelled \in {<<"bare", w>> : w \in PairUsers \ {u}}
      BY <3>3
    <3>4. QED
      BY <3>1, <3>2, <3>3
  <2>9. CASE spelled = <<"pair", a, b>> \/ spelled = <<"pair", b, a>>
    BY <2>4, <2>5, <2>9 DEF CanonicalId
  <2>10. CASE \E w \in PairUsers \ {u} : spelled = <<"bare", w>>
    <3>1. PICK w \in PairUsers \ {u} : spelled = <<"bare", w>>
      BY <2>10
    <3>2. (w = a /\ u = b) \/ (w = b /\ u = a)
      BY <1>2, <2>1, <2>7
    <3>3. CanonicalId(spelled, u) = Pair(w, u)
      BY <3>1 DEF CanonicalId
    <3>4. QED
      BY <2>4, <2>5, <3>2, <3>3
  <2>11. QED
    BY <2>8, <2>9, <2>10
<1>3. QED
  BY <1>1, <1>2 DEF Conversations

-----------------------------------------------------------------------------
(***************************************************************************)
(* The invariant.                                                          *)
(***************************************************************************)
AllKeys == {ConversationKey(c, v) : c \in Conversations, v \in Versions}

Logged == {log[i] : i \in DOMAIN log}

TypeOK ==
    /\ log \in Seq(Logged)
    /\ members \subseteq Users
    /\ keys \in [Users -> SUBSET AllKeys]
    /\ v1 \in [Users -> BOOLEAN]

\* An event is signed as its recipients check it.
WellSigned(e) ==
    /\ e.signature_version \in MIN_SIGNATURE_VERSION .. MAX_SIGNATURE_VERSION
    /\ e.signature # NoPayload
    /\ e.signature = Payload(e.id, e.sender, e.conversation, e.detail, e.signature_version,
                             IF IsKeyChange(e) THEN KeyOf(e) ELSE Null)

\* A text is sealed under the key of its event.
TextIs(sealed, key, text) ==
    \/ sealed = Null /\ text = Null
    \/ sealed # Null /\ Opens(sealed, key) /\ Opened(sealed) = text

IsText(d) == d.kind \in {"GroupTitleChange", "GroupDescriptionChange"}

\* A message says what its caller asked.
MessageSays(e) ==
    LET contents == ContentsOf(e)
    IN  /\ Opens(e.detail.contents, ContentsKey(e, KeyOf(e)))
        /\ e.asked.text = contents.text
        /\ e.asked.what = IF contents.entry = "message"
                          THEN <<"message", contents.attachments>>
                          ELSE <<contents.entry, contents.target, contents.target_id>>

\* So does any other event, unless it only encrypts a text again.
ActionSays(e) ==
    LET d == e.detail
    IN  IF e.for_key_rotation /\ IsText(d)
        THEN e.asked.what = Dropped /\ e.asked.text = Null
        ELSE /\ e.asked.what = ValueShown(d)
             /\ d.kind = "GroupTitleChange" => TextIs(d.custom_title, KeyOf(e), e.asked.text)
             /\ d.kind = "GroupDescriptionChange" =>
                    TextIs(d.custom_description, KeyOf(e), e.asked.text)
             /\ d.kind = "GroupCreate" => TextIs(d.title, KeyOf(e), e.asked.text)
             /\ d.kind \notin {"GroupTitleChange", "GroupDescriptionChange", "GroupCreate"}
                  => e.asked.text = Null

Says(e) == IF IsMessage(e) THEN MessageSays(e) ELSE ActionSays(e)

\* A key a preview carries for event e: none, or a message key of its id, and
\* none at all when it has no message key.
CarriesOnly(key, e) ==
    key # Null => UsesMessageKey(e) /\ key = <<"message", key[2], e.sender, e.id>>

\* It opens e, as entry says.
CarriesRight(key, e, entry) ==
    /\ ContentsOf(e).entry = entry
    /\ UsesMessageKey(e) => key = ContentsKey(e, KeyOf(e))

\* What a reply quotes is among the events es, and a quote left to the SDK is
\* of it.
MessagesOf(es) == {i \in DOMAIN es : IsMessage(es[i])}

Quotes(p, honest, es) ==
    LET raw == es[p.raw]
        edit == es[p.edit]
        quoted == ContentsOf(IF p.edit = 0 THEN raw ELSE edit)
    IN  p.raw # 0 =>
          /\ p.raw \in MessagesOf(es) /\ p.edit \in {0} \cup MessagesOf(es)
          /\ CarriesOnly(p.key, raw)
          /\ IF p.edit = 0 THEN p.edit_key = Null ELSE CarriesOnly(p.edit_key, edit)
          /\ honest =>
                /\ p.sender = raw.sender
                /\ p.sequence = Number(p.raw)
                /\ p.id = raw.id
                /\ p.text = quoted.text
                /\ p.attachments = <<"files", ContentsOf(raw).attachments>>
                /\ CarriesRight(p.key, raw, "message")
                /\ p.edit # 0 => CarriesRight(p.edit_key, edit, "edit")

\* Event e fits among the events es.
EventFits(e, es) ==
    /\ e.id # Null
    /\ e.conversation \in Conversations
    /\ WellSigned(e)
    /\ Says(e)
    /\ IsMessage(e) => Quotes(ContentsOf(e).preview, e.asked.honest, es)
    /\ IsKeyChange(e) => KeyOf(e) \in AllKeys

EventsFit == \A i \in DOMAIN log : EventFits(log[i], log)

\* The key a removal changes to is for those who stay: who removes has it, and
\* no key change with it has a copy for the removed.
RemovalKey(e) == ConversationKey(Group, e.detail.conversation_key_version)

Removes(e, u) ==
    /\ e.detail.kind = "GroupMemberRemove"
    /\ e.sender # u /\ u \in ToSet(e.detail.member_ids)

RemovedGetNoKey ==
    \A i \in DOMAIN log, u \in Users :
        Removes(log[i], u) =>
          /\ RemovalKey(log[i]) \notin keys[u]
          /\ log[i].sender \in Users /\ RemovalKey(log[i]) \in keys[log[i].sender]
          /\ \A j \in DOMAIN log :
                IsKeyChange(log[j]) /\ KeyOf(log[j]) = RemovalKey(log[i])
                  => ~Receives(log[j], u)

IInv == TypeOK /\ EventsFit /\ RemovedGetNoKey

-----------------------------------------------------------------------------
(***************************************************************************)
(* The properties follow from the invariant.                               *)
(***************************************************************************)

\* The key of an event's contents.
LEMMA ContentsKeyIs ==
    ASSUME NEW e, NEW key
    PROVE  /\ key # Null => ContentsKey(e, key) # Null
           /\ UsesMessageKey(e) => ContentsKey(e, key) = <<"message", key, e.sender, e.id>>
           /\ ~UsesMessageKey(e) => ContentsKey(e, key) = key
  BY DEF ContentsKey, Null

\* Signed as it should be, an event verifies to those who have its key.
LEMMA FittingVerifies ==
    ASSUME NEW u \in Users, NEW e, WellSigned(e), IsKeyChange(e) => PlainKey(u, e) # Null
    PROVE  IsVerified(u, e)
<1>1. PlainKey(u, e) = IF IsKeyChange(e) THEN KeyOf(e) ELSE Null
  BY DEF PlainKey
<1>2. QED
  BY <1>1 DEF IsVerified, Verifies, WellSigned

LEMMA TextIsShown ==
    ASSUME NEW u \in Users, NEW e, NEW sealed, NEW text, TextIs(sealed, KeyOf(e), text)
    PROVE  \/ GroupText(u, e, sealed) = text
           \/ KeyOf(e) \notin keys[u] /\ GroupText(u, e, sealed) = Unavailable
  BY DEF TextIs, GroupText

LEMMA FittingSurfaces ==
    ASSUME NEW u \in Users, NEW e, Says(e)
    PROVE  \/ Shown(u, e).what = e.asked.what /\ Shown(u, e).text = e.asked.text
           \/ /\ KeyOf(e) \notin keys[u]
              /\ Shown(u, e).text = Unavailable
              /\ Shown(u, e).what \in {e.asked.what, Unavailable}
<1>1. CASE IsMessage(e)
  <2>1. Shown(u, e) = EntryShown(u, e)
    BY <1>1 DEF Shown, IsMessage
  <2>2. CASE KeyOf(e) \notin keys[u]
    BY <2>1, <2>2 DEF EntryShown
  <2>3. CASE KeyOf(e) \in keys[u]
    BY <1>1, <2>1, <2>3 DEF EntryShown, Says, MessageSays
  <2>4. QED
    BY <2>2, <2>3
<1>2. CASE ~IsMessage(e) /\ e.for_key_rotation /\ IsText(e.detail)
  BY <1>2 DEF Shown, Says, ActionSays, IsText
<1>3. CASE ~IsMessage(e) /\ ~(e.for_key_rotation /\ IsText(e.detail))
  <2> DEFINE d == e.detail
             shown == CASE d.kind = "GroupTitleChange" -> GroupText(u, e, d.custom_title)
                        [] d.kind = "GroupDescriptionChange" ->
                             GroupText(u, e, d.custom_description)
                        [] d.kind = "GroupCreate" -> GroupText(u, e, d.title)
                        [] OTHER -> Null
  <2>1. ActionSays(e)
    BY <1>3 DEF Says
  <2>2. Shown(u, e) = [what |-> ValueShown(d), text |-> shown]
    BY <1>3 DEF Shown, IsText
  <2>3. e.asked.what = ValueShown(d)
    BY <1>3, <2>1 DEF ActionSays
  <2>4. \/ shown = e.asked.text
        \/ KeyOf(e) \notin keys[u] /\ shown = Unavailable
    <3>1. CASE d.kind = "GroupTitleChange"
      BY <1>3, <2>1, <3>1, TextIsShown DEF ActionSays
    <3>2. CASE d.kind = "GroupDescriptionChange"
      BY <1>3, <2>1, <3>2, TextIsShown DEF ActionSays
    <3>3. CASE d.kind = "GroupCreate"
      BY <1>3, <2>1, <3>3, TextIsShown DEF ActionSays
    <3>4. CASE d.kind \notin {"GroupTitleChange", "GroupDescriptionChange", "GroupCreate"}
      BY <1>3, <2>1, <3>4 DEF ActionSays
    <3>5. QED
      BY <3>1, <3>2, <3>3, <3>4
  <2> HIDE DEF shown
  <2>5. QED
    BY <2>2, <2>3, <2>4
<1>4. QED
  BY <1>1, <1>2, <1>3

LEMMA Surfaces ==
    ASSUME IInv
    PROVE  SurfacesWhatWasAsked
<1>1. ASSUME NEW i \in DOMAIN log, NEW u \in Users, NEW e, e = log[i]
      PROVE  /\ (IsKeyChange(e) => PlainKey(u, e) # Null) => IsVerified(u, e)
             /\ \/ Shown(u, e).what = e.asked.what /\ Shown(u, e).text = e.asked.text
                \/ /\ KeyOf(e) \notin keys[u]
                   /\ Shown(u, e).text = Unavailable
                   /\ Shown(u, e).what \in {e.asked.what, Unavailable}
  <2>1. WellSigned(e) /\ Says(e)
    BY <1>1 DEF IInv, EventsFit, EventFits
  <2>2. QED
    BY <2>1, FittingVerifies, FittingSurfaces
<1>2. QED
  BY <1>1 DEF SurfacesWhatWasAsked

\* What is known of a reply among the events.
LEMMA ReplyIs ==
    ASSUME EventsFit, NEW i \in Replies, NEW e, e = log[i], NEW p, p = ContentsOf(e).preview
    PROVE  /\ Quotes(p, e.asked.honest, log)
           /\ p.raw \in MessagesOf(log)
           /\ p.edit \in {0} \cup MessagesOf(log)
<1>1. i \in DOMAIN log /\ IsMessage(e) /\ p.raw # 0
  BY DEF Replies, Messages
<1>2. Quotes(p, e.asked.honest, log)
  BY <1>1 DEF EventsFit, EventFits
<1>3. QED
  BY <1>1, <1>2 DEF Quotes

\* And of any message.
LEMMA MessageIs ==
    ASSUME EventsFit, NEW i \in MessagesOf(log), NEW e, e = log[i]
    PROVE  /\ IsMessage(e) /\ ~IsKeyChange(e)
           /\ e.id # Null
           /\ WellSigned(e)
           /\ MessageSays(e)
<1>1. i \in DOMAIN log /\ IsMessage(e)
  BY DEF MessagesOf
<1>2. EventFits(e, log)
  BY <1>1 DEF EventsFit
<1>3. QED
  BY <1>1, <1>2 DEF EventFits, Says, IsKeyChange, IsMessage

\* The key a recipient takes for a quoted event opens it.
LEMMA QuotedKeyOpens ==
    ASSUME EventsFit, NEW u \in Users, NEW i \in MessagesOf(log), NEW e, e = log[i],
           NEW key, NEW entry, CarriesRight(key, e, entry), MayOpen(u, e)
    PROVE  OpensAs(e, QuotedKey(u, e, key), entry)
<1>1. Opens(e.detail.contents, ContentsKey(e, KeyOf(e)))
  BY MessageIs DEF MessageSays
<1>2. CASE UsesMessageKey(e)
  <2>1. key = ContentsKey(e, KeyOf(e)) /\ key # Null
    BY <1>2, MessageKeyIs DEF CarriesRight, ContentsKey
  <2>2. QuotedKey(u, e, key) = key
    BY <1>2, <2>1 DEF QuotedKey
  <2>3. QED
    BY <1>1, <2>1, <2>2 DEF OpensAs, CarriesRight
<1>3. CASE ~UsesMessageKey(e)
  <2>1. QuotedKey(u, e, key) = ContentsKey(e, KeyOf(e))
    BY <1>3 DEF QuotedKey, MayOpen
  <2>2. QED
    BY <1>1, <2>1 DEF OpensAs, CarriesRight
<1>4. QED
  BY <1>2, <1>3

LEMMA HonestReplies ==
    ASSUME IInv
    PROVE  HonestRepliesAreValid
<1> SUFFICES ASSUME NEW i \in Replies, NEW u \in Users, NEW e, e = log[i],
                    NEW p, p = ContentsOf(e).preview,
                    IsHonest(e),
                    MayOpen(u, log[p.raw]),
                    p.edit # 0 => MayOpen(u, log[p.edit])
             PROVE  QuoteIsValid(u, e)
  BY DEF HonestRepliesAreValid
<1> DEFINE raw == log[p.raw]
           edit == log[p.edit]
<1>1. EventsFit
  BY DEF IInv
<1>2. /\ Quotes(p, e.asked.honest, log)
      /\ p.raw \in MessagesOf(log)
      /\ p.edit \in {0} \cup MessagesOf(log)
  BY <1>1, ReplyIs
<1>3. /\ e.asked.honest
      /\ raw.conversation = e.conversation
      /\ p.edit # 0 => /\ edit.conversation = e.conversation /\ edit.sender = raw.sender
                       /\ UsesMessageKey(raw) => ContentsOf(edit).target_id = raw.id
  BY DEF IsHonest
<1>4. p.raw # 0
  BY <1>2 DEF Replies
<1>5. /\ p.sender = raw.sender
      /\ p.sequence = Number(p.raw)
      /\ p.id = raw.id
      /\ p.text = ContentsOf(IF p.edit = 0 THEN raw ELSE edit).text
      /\ p.attachments = <<"files", ContentsOf(raw).attachments>>
      /\ CarriesRight(p.key, raw, "message")
      /\ p.edit # 0 => CarriesRight(p.edit_key, edit, "edit")
  BY <1>2, <1>3, <1>4 DEF Quotes
<1>6. IsVerified(u, raw)
  BY <1>1, <1>2, MessageIs, FittingVerifies
<1>7. OpensAs(raw, QuotedKey(u, raw, p.key), "message")
  BY <1>1, <1>2, <1>5, QuotedKeyOpens
<1>8. ASSUME p.edit # 0
      PROVE  EditHolds(u, e, p)
  <2>1. IsVerified(u, edit)
    BY <1>1, <1>2, <1>8, MessageIs, FittingVerifies
  <2>2. OpensAs(edit, QuotedKey(u, edit, p.edit_key), "edit")
    BY <1>1, <1>2, <1>5, <1>8, QuotedKeyOpens
  <2>3. QED
    BY <1>3, <1>8, <2>1, <2>2 DEF EditHolds
<1>9. p.text[2] = ContentsOf(log[IF p.edit = 0 THEN p.raw ELSE p.edit]).text[2]
  BY <1>5
<1>10. p.attachments[2] = ContentsOf(raw).attachments
  BY <1>5, TaggedIs
<1>11. QED
  BY <1>3, <1>5, <1>6, <1>7, <1>8, <1>9, <1>10 DEF QuoteIsValid

\* What PreviewsQuoteTruly says of a valid preview p of event e.
SaysTruly(e, p, named, said) ==
    /\ named.conversation = e.conversation
    /\ named.sender = p.sender /\ said.sender = p.sender
    /\ named.asked.what[1] = "message"
    /\ p.attachments[2] \subseteq named.asked.what[2]
    /\ said.asked.text[2] = p.text[2]
    /\ p.edit # 0 =>
          /\ said.asked.what[1] = "edit"
          /\ UsesMessageKey(named) => said.asked.what[3] = named.id

LEMMA ValidQuoteIsTrue ==
    ASSUME IInv, NEW i \in Replies, NEW u \in Users, NEW e, e = log[i],
           NEW p, p = ContentsOf(e).preview,
           QuoteIsValid(u, e),
           NEW named, named = log[p.sequence[2]],
           NEW said, said = IF p.edit = 0 THEN named ELSE log[p.edit]
    PROVE  SaysTruly(e, p, named, said)
<1>1. EventsFit
  BY DEF IInv
<1>2. p.raw \in MessagesOf(log) /\ p.edit \in {0} \cup MessagesOf(log)
  BY <1>1, ReplyIs
<1>3. p.sequence = Number(p.raw) /\ named = log[p.raw]
  BY NumberIs DEF QuoteIsValid
<1>4. /\ named.conversation = e.conversation
      /\ named.sender = p.sender
      /\ ContentsOf(named).entry = "message"
      /\ p.edit # 0 => EditHolds(u, e, p)
      /\ p.text[2] = ContentsOf(said).text[2]
      /\ p.attachments[2] \subseteq ContentsOf(named).attachments
  BY <1>3 DEF QuoteIsValid, OpensAs
<1>5. MessageSays(named) /\ named.id # Null
  BY <1>1, <1>2, <1>3, MessageIs
<1>6. /\ named.asked.what = <<"message", ContentsOf(named).attachments>>
      /\ named.asked.text = ContentsOf(named).text
  BY <1>4, <1>5 DEF MessageSays
<1>7. /\ named.asked.what[1] = "message"
      /\ p.attachments[2] \subseteq named.asked.what[2]
  <2> DEFINE what == named.asked.what
             files == ContentsOf(named).attachments
  <2>1. what = <<"message", files>>
    BY <1>6
  <2>2. p.attachments[2] \subseteq files
    BY <1>4
  <2> HIDE DEF what, files
  <2>3. what[1] = "message" /\ p.attachments[2] \subseteq what[2]
    BY <2>1, <2>2, TaggedIs
  <2>4. QED
    BY <2>3 DEF what
<1>8. CASE p.edit = 0
  BY <1>4, <1>6, <1>7, <1>8 DEF SaysTruly
<1>9. CASE p.edit # 0
  <2>1. said = log[p.edit] /\ p.edit \in MessagesOf(log)
    BY <1>2, <1>9
  <2>2. /\ said.sender = p.sender
        /\ ContentsOf(said).entry = "edit"
        /\ UsesMessageKey(named) => ContentsOf(said).target_id = named.id
    BY <1>3, <1>4, <1>9, <2>1 DEF EditHolds, OpensAs
  <2>3. MessageSays(said)
    BY <1>1, <2>1, MessageIs
  <2>4. /\ said.asked.what = <<"edit", ContentsOf(said).target, ContentsOf(said).target_id>>
        /\ said.asked.text = ContentsOf(said).text
    BY <2>2, <2>3 DEF MessageSays
  <2>5. said.asked.what[1] = "edit" /\ said.asked.what[3] = ContentsOf(said).target_id
    <3> DEFINE what == said.asked.what
               target == ContentsOf(said).target
               id == ContentsOf(said).target_id
    <3>1. what = <<"edit", target, id>>
      BY <2>4
    <3> HIDE DEF what, target, id
    <3>2. what[1] = "edit" /\ what[3] = id
      BY <3>1
    <3>3. QED
      BY <3>2 DEF what, id
  <2>6. QED
    BY <1>4, <1>7, <1>9, <2>2, <2>4, <2>5 DEF SaysTruly
<1>10. QED
  BY <1>8, <1>9

LEMMA QuotedTruly ==
    ASSUME IInv
    PROVE  PreviewsQuoteTruly
<1>1. ASSUME NEW i \in Replies, NEW u \in Users, QuoteIsValid(u, log[i])
      PROVE  LET e == log[i]
                 p == ContentsOf(e).preview
                 named == log[p.sequence[2]]
                 said == IF p.edit = 0 THEN named ELSE log[p.edit]
             IN  SaysTruly(e, p, named, said)
  BY <1>1, ValidQuoteIsTrue
<1>2. QED
  BY <1>1 DEF PreviewsQuoteTruly, SaysTruly

\* A key a preview carries opens its own event's message only, sent again or not.
LEMMA CarriedOpensItsOwn ==
    ASSUME EventsFit, NEW i \in Messages, NEW e, NEW key, CarriesOnly(key, e),
           Opens(log[i].detail.contents, key)
    PROVE  log[i].id = e.id
<1> DEFINE f == log[i]
<1>1. i \in MessagesOf(log)
  BY DEF Messages, MessagesOf
<1>2. Opens(f.detail.contents, ContentsKey(f, KeyOf(f)))
  BY <1>1, MessageIs DEF MessageSays
<1>3. key = ContentsKey(f, KeyOf(f))
  BY <1>2 DEF Opens
<1>4. ContentsKey(f, KeyOf(f)) # Null
  BY ContentsKeyIs, ConversationKeyIs DEF KeyOf
<1>5. key = <<"message", key[2], e.sender, e.id>>
  BY <1>3, <1>4 DEF CarriesOnly
<1>6. UsesMessageKey(f)
  BY <1>3, <1>5, ContentsKeyIs, MessageKeyIs DEF KeyOf
<1>7. key = <<"message", KeyOf(f), f.sender, f.id>>
  BY <1>3, <1>6, ContentsKeyIs
<1>8. QED
  BY <1>5, <1>7, MessageKeyIs

LEMMA KeysStay ==
    ASSUME IInv
    PROVE  KeysStayWithMembers
<1>1. ASSUME NEW i \in DOMAIN log, NEW u \in Users,
             log[i].detail.kind = "GroupMemberRemove",
             log[i].sender # u, u \in ToSet(log[i].detail.member_ids)
      PROVE  ConversationKey(Group, log[i].detail.conversation_key_version) \notin keys[u]
  BY <1>1 DEF IInv, RemovedGetNoKey, Removes, RemovalKey
<1>2. ASSUME NEW u \in Users, NEW i \in OpenedByQuotes(u)
      PROVE  \E j \in Replies :
                LET p == ContentsOf(log[j]).preview
                IN  log[i].id \in {log[k].id : k \in {p.raw, p.edit} \ {0}}
  <2>1. EventsFit
    BY DEF IInv
  <2>2. i \in Messages
    BY DEF OpenedByQuotes
  <2>3. PICK j \in Replies :
            LET p == ContentsOf(log[j]).preview
            IN  \/ Opens(log[i].detail.contents, p.key)
                \/ Opens(log[i].detail.contents, p.edit_key)
    BY DEF OpenedByQuotes
  <2>4. PICK p : p = ContentsOf(log[j]).preview
    OBVIOUS
  <2>5. /\ Quotes(p, log[j].asked.honest, log)
        /\ p.raw \in MessagesOf(log)
        /\ p.edit \in {0} \cup MessagesOf(log)
    BY <2>1, <2>4, ReplyIs
  <2>6. p.raw # 0
    BY <2>4 DEF Replies
  <2>7. /\ CarriesOnly(p.key, log[p.raw])
        /\ IF p.edit = 0 THEN p.edit_key = Null ELSE CarriesOnly(p.edit_key, log[p.edit])
    BY <2>5, <2>6 DEF Quotes
  <2>8. CASE Opens(log[i].detail.contents, p.key)
    <3>1. log[i].id = log[p.raw].id
      BY <2>1, <2>2, <2>7, <2>8, CarriedOpensItsOwn
    <3>2. QED
      BY <2>4, <2>6, <3>1
  <2>9. CASE Opens(log[i].detail.contents, p.edit_key)
    <3>1. p.edit # 0
      <4>1. SUFFICES ASSUME p.edit_key = Null
                     PROVE  FALSE
        BY <2>7
      <4>2. i \in MessagesOf(log)
        BY <2>2 DEF Messages, MessagesOf
      <4>3. Opens(log[i].detail.contents, ContentsKey(log[i], KeyOf(log[i])))
        BY <2>1, <4>2, MessageIs DEF MessageSays
      <4>4. ContentsKey(log[i], KeyOf(log[i])) # Null
        BY ContentsKeyIs, ConversationKeyIs DEF KeyOf
      <4>5. QED
        BY <2>9, <4>1, <4>3, <4>4 DEF Opens
    <3>2. log[i].id = log[p.edit].id
      BY <2>1, <2>2, <2>7, <2>9, <3>1, CarriedOpensItsOwn
    <3>3. QED
      BY <2>4, <3>1, <3>2
  <2>10. QED
    BY <2>3, <2>4, <2>8, <2>9
<1>3. QED
  BY <1>1, <1>2 DEF KeysStayWithMembers

-----------------------------------------------------------------------------
(***************************************************************************)
(* Sending: what a call signs fits among the events when its posts say     *)
(* what was asked of them.                                                 *)
(***************************************************************************)

\* Event e is one that u signed in conversation c for a post.
IsOf(e, u, c, post) ==
    /\ e.sender = u /\ e.conversation = c
    /\ e.detail = post.detail
    /\ e.asked = post.asked /\ e.for_key_rotation = post.for_key_rotation
    /\ e.id # Null /\ (post.id # Null => e.id = post.id)
    /\ WellSigned(e)

PostSays(u, c, post, es) ==
    \A e : IsOf(e, u, c, post) =>
        /\ Says(e)
        /\ IsMessage(e) =>
              Quotes(ContentsOf(e).preview, e.asked.honest, es)
        /\ IsKeyChange(e) => KeyOf(e) \in AllKeys

PostFits(u, c, post, es) ==
    /\ post.version \in MIN_SIGNATURE_VERSION .. MAX_SIGNATURE_VERSION
    /\ PostSays(u, c, post, es)

LEMMA SignedIs ==
    ASSUME NEW u \in Users, NEW c \in Conversations, NEW spelled \in Spellings(u, c),
           c = Group \/ u \in PairUsers,
           NEW i, NEW post, post.version \in MIN_SIGNATURE_VERSION .. MAX_SIGNATURE_VERSION,
           NEW e, e = Signed(u, c, spelled, i, post), e.signature # NoPayload
    PROVE  IsOf(e, u, c, post)
<1>1. CanonicalId(spelled, u) = c
  BY SpellingsAreOfOne
<1>2. /\ e.sender = u /\ e.conversation = c /\ e.detail = post.detail
      /\ e.asked = post.asked /\ e.for_key_rotation = post.for_key_rotation
      /\ e.signature_version = post.version
      /\ e.id = IF post.id = Null THEN Number(Len(log) + i) ELSE post.id
  BY DEF Signed
<1>3. e.id # Null
  BY <1>2, NumberIs
<1>4. e.signature = Payload(e.id, e.sender, e.conversation, e.detail, e.signature_version,
                            IF IsKeyChange(e) THEN KeyOf(e) ELSE Null)
  BY <1>1, <1>2 DEF Signed, IsKeyChange, KeyOf
<1>5. QED
  BY <1>2, <1>3, <1>4 DEF IsOf, WellSigned

\* r is s followed by t.
Follows(S, s, t, r) ==
    /\ r \in Seq(S)
    /\ Len(r) = Len(s) + Len(t)
    /\ \A k \in 1 .. Len(s) : r[k] = s[k]
    /\ \A k \in 1 .. Len(t) : r[Len(s) + k] = t[k]

LEMMA JoinedFollows == \A S : \A s, t \in Seq(S) : Follows(S, s, t, Joined(s, t))
  BY JoinedIs DEF Follows

\* The log after a call: what it was, and events of the posts.
LEMMA SendIs ==
    ASSUME NEW u \in Users, NEW c \in Conversations, NEW spelled \in Spellings(u, c),
           c = Group \/ u \in PairUsers,
           NEW P, NEW posts \in Seq(P), log \in Seq(Logged), Send(u, c, spelled, posts),
           \A p \in P : p.version \in MIN_SIGNATURE_VERSION .. MAX_SIGNATURE_VERSION
    PROVE  /\ log' \in Seq(Logged')
           /\ \A i \in DOMAIN log : i \in DOMAIN log' /\ log'[i] = log[i]
           /\ \A i \in DOMAIN log' \ DOMAIN log : \E p \in P : IsOf(log'[i], u, c, p)
<1> DEFINE events == [i \in DOMAIN posts |-> Signed(u, c, spelled, i, posts[i])]
           S == Logged \cup {events[i] : i \in DOMAIN posts}
<1>1. Len(posts) \in Nat /\ DOMAIN posts = 1 .. Len(posts)
  OBVIOUS
<1>2. events \in Seq(S) /\ Len(events) = Len(posts)
  <2>1. events \in [1 .. Len(posts) -> S]
    BY <1>1
  <2> HIDE DEF events, S
  <2>2. QED
    BY <1>1, <2>1, FunctionIsSeq
<1>3. log \in Seq(S)
  OBVIOUS
<1>4. log' = Joined(log, events)
  BY DEF Send, Joined
<1>5. \A i \in DOMAIN events : events[i].signature # NoPayload
  BY DEF Send
<1>6. \A i \in 1 .. Len(posts) : events[i] = Signed(u, c, spelled, i, posts[i])
  BY <1>1
<1> HIDE DEF events, S
<1>7. /\ log' \in Seq(S)
      /\ Len(log') = Len(log) + Len(posts)
      /\ \A k \in 1 .. Len(log) : log'[k] = log[k]
      /\ \A k \in 1 .. Len(posts) : log'[Len(log) + k] = events[k]
  <2>1. Follows(S, log, events, Joined(log, events))
    BY <1>2, <1>3, JoinedFollows
  <2>2. QED
    BY <1>2, <1>4, <2>1 DEF Follows
<1>8. /\ Len(log) \in Nat /\ Len(log') \in Nat
      /\ DOMAIN log = 1 .. Len(log) /\ DOMAIN log' = 1 .. Len(log')
  BY <1>3, <1>7
<1>9. \A i \in DOMAIN log : i \in DOMAIN log' /\ log'[i] = log[i]
  BY <1>1, <1>7, <1>8
<1>10. ASSUME NEW i \in DOMAIN log' \ DOMAIN log
       PROVE  \E p \in P : IsOf(log'[i], u, c, p)
  <2>1. PICK k \in 1 .. Len(posts) : i = Len(log) + k
    <3>1. i - Len(log) \in 1 .. Len(posts) /\ i = Len(log) + (i - Len(log))
      BY <1>1, <1>7, <1>8, <1>10
    <3>2. QED
      BY <3>1
  <2>2. posts[k] \in P
    BY <1>1
  <2>3. log'[i] = Signed(u, c, spelled, k, posts[k]) /\ log'[i].signature # NoPayload
    BY <1>1, <1>2, <1>5, <1>6, <1>7, <2>1
  <2>4. IsOf(log'[i], u, c, posts[k])
    BY <2>2, <2>3, SignedIs
  <2>5. QED
    BY <2>2, <2>4
<1>11. log' \in Seq(Logged')
  <2>1. log' \in [1 .. Len(log') -> Logged']
    BY <1>7, <1>8 DEF Logged
  <2>2. QED
    BY <1>8, <2>1, FunctionIsSeq
<1>12. QED
  BY <1>9, <1>10, <1>11

\* What a reply quotes and an edit names stays in a longer log.
LEMMA QuotesStay ==
    ASSUME NEW es, NEW fs, \A i \in DOMAIN es : i \in DOMAIN fs /\ fs[i] = es[i],
           NEW p, NEW honest, Quotes(p, honest, es)
    PROVE  Quotes(p, honest, fs)
<1>1. CASE p.raw = 0
  BY <1>1 DEF Quotes
<1>2. CASE p.raw # 0
  <2>1. p.raw \in MessagesOf(es) /\ p.edit \in {0} \cup MessagesOf(es)
    BY <1>2 DEF Quotes
  <2>2. MessagesOf(es) \subseteq MessagesOf(fs)
    BY DEF MessagesOf
  <2>3. fs[p.raw] = es[p.raw]
    BY <2>1 DEF MessagesOf
  <2>4. p.edit # 0 => fs[p.edit] = es[p.edit]
    BY <2>1 DEF MessagesOf
  <2>5. CASE p.edit = 0
    BY <1>2, <2>1, <2>2, <2>3, <2>5 DEF Quotes
  <2>6. CASE p.edit # 0
    BY <1>2, <2>1, <2>2, <2>3, <2>4, <2>6 DEF Quotes
  <2>7. QED
    BY <2>5, <2>6
<1>3. QED
  BY <1>1, <1>2

LEMMA SendFits ==
    ASSUME NEW u \in Users, NEW c \in Conversations, NEW spelled \in Spellings(u, c),
           c = Group \/ u \in PairUsers,
           NEW P, NEW posts \in Seq(P), TypeOK, EventsFit, Send(u, c, spelled, posts),
           \A p \in P : PostFits(u, c, p, log)
    PROVE  EventsFit'
<1>1. /\ \A i \in DOMAIN log : i \in DOMAIN log' /\ log'[i] = log[i]
      /\ \A i \in DOMAIN log' \ DOMAIN log : \E p \in P : IsOf(log'[i], u, c, p)
  BY SendIs DEF TypeOK, PostFits
<1>2. ASSUME NEW i \in DOMAIN log', NEW e, e = log'[i]
      PROVE  EventFits(e, log')
  <2>1. CASE i \in DOMAIN log
    <3>1. EventFits(e, log)
      BY <1>1, <1>2, <2>1 DEF EventsFit
    <3>2. QED
      BY <1>1, <3>1, QuotesStay DEF EventFits
  <2>2. CASE i \notin DOMAIN log
    <3>1. PICK p \in P : IsOf(e, u, c, p)
      BY <1>1, <1>2, <2>2
    <3>2. PostSays(u, c, p, log)
      BY DEF PostFits
    <3>3. e.id # Null /\ e.conversation \in Conversations /\ WellSigned(e)
      BY <3>1 DEF IsOf
    <3>4. /\ Says(e)
          /\ IsMessage(e) =>
                Quotes(ContentsOf(e).preview, e.asked.honest, log)
          /\ IsKeyChange(e) => KeyOf(e) \in AllKeys
      BY <3>1, <3>2 DEF PostSays
    <3>5. QED
      BY <1>1, <3>3, <3>4, QuotesStay DEF EventFits
  <2>3. QED
    BY <2>1, <2>2
<1>3. QED
  BY <1>2 DEF EventsFit

\* What becomes of removals and keys: fresh is a set of keys that nobody holds
\* and no key change of the log has; a call that passes keys passes only these.
IsFresh(fresh) ==
    /\ \A w \in Users : keys[w] \cap fresh = {}
    /\ \A i \in DOMAIN log : IsKeyChange(log[i]) => KeyOf(log[i]) \notin fresh

PassesOnly(u, c, P, fresh, held) ==
    /\ \A p \in P : IsKeyChange(p) => ConversationKey(c, p.detail.conversation_key_version) \in fresh
    /\ \A p \in P, w \in Users \ {u} :
          p.detail.kind = "GroupMemberRemove" /\ w \in ToSet(p.detail.member_ids) =>
            /\ RemovalKey(p) \in fresh
            /\ RemovalKey(p) \in held[u] /\ RemovalKey(p) \notin held[w]
            /\ \A q \in P : IsKeyChange(q) => ~Receives(q, w)

LEMMA SendRemoves ==
    ASSUME NEW u \in Users, NEW c \in Conversations, NEW spelled \in Spellings(u, c),
           c = Group \/ u \in PairUsers,
           NEW P, NEW posts \in Seq(P), TypeOK, RemovedGetNoKey, Send(u, c, spelled, posts),
           \A p \in P : p.version \in MIN_SIGNATURE_VERSION .. MAX_SIGNATURE_VERSION,
           NEW fresh, IsFresh(fresh), PassesOnly(u, c, P, fresh, keys'),
           \A w \in Users : keys[w] \subseteq keys'[w] /\ keys'[w] \subseteq keys[w] \cup fresh
    PROVE  RemovedGetNoKey'
<1>1. /\ \A i \in DOMAIN log : i \in DOMAIN log' /\ log'[i] = log[i]
      /\ \A i \in DOMAIN log' \ DOMAIN log : \E p \in P : IsOf(log'[i], u, c, p)
  BY SendIs DEF TypeOK
<1>2. ASSUME NEW i \in DOMAIN log', NEW w \in Users, NEW e, e = log'[i], Removes(e, w)
      PROVE  /\ RemovalKey(e) \notin keys'[w]
             /\ e.sender \in Users /\ RemovalKey(e) \in keys'[e.sender]
             /\ \A j \in DOMAIN log' :
                   IsKeyChange(log'[j]) /\ KeyOf(log'[j]) = RemovalKey(e)
                     => ~Receives(log'[j], w)
  <2>1. CASE i \in DOMAIN log
    <3>1. /\ RemovalKey(e) \notin keys[w]
          /\ e.sender \in Users /\ RemovalKey(e) \in keys[e.sender]
          /\ \A j \in DOMAIN log :
                IsKeyChange(log[j]) /\ KeyOf(log[j]) = RemovalKey(e) => ~Receives(log[j], w)
      BY <1>1, <1>2, <2>1 DEF RemovedGetNoKey
    <3>2. RemovalKey(e) \notin fresh
      BY <3>1 DEF IsFresh
    <3>3. ASSUME NEW j \in DOMAIN log', NEW f, f = log'[j],
                 IsKeyChange(f), KeyOf(f) = RemovalKey(e)
          PROVE  ~Receives(f, w)
      <4>1. CASE j \in DOMAIN log
        BY <1>1, <3>1, <3>3, <4>1
      <4>2. CASE j \notin DOMAIN log
        <5>1. PICK p \in P : IsOf(f, u, c, p)
          BY <1>1, <3>3, <4>2
        <5>2. KeyOf(f) \in fresh
          BY <3>3, <5>1 DEF PassesOnly, IsOf, IsKeyChange, KeyOf
        <5>3. QED
          BY <3>2, <3>3, <5>2
      <4>3. QED
        BY <4>1, <4>2
    <3>4. QED
      BY <3>1, <3>2, <3>3
  <2>2. CASE i \notin DOMAIN log
    <3>1. PICK p \in P : IsOf(e, u, c, p)
      BY <1>1, <1>2, <2>2
    <3>2. /\ e.sender = u /\ w # u
          /\ p.detail.kind = "GroupMemberRemove" /\ w \in ToSet(p.detail.member_ids)
          /\ RemovalKey(e) = RemovalKey(p)
      BY <1>2, <3>1 DEF Removes, IsOf, RemovalKey
    <3>3. /\ RemovalKey(e) \in fresh
          /\ RemovalKey(e) \in keys'[u] /\ RemovalKey(e) \notin keys'[w]
          /\ \A q \in P : IsKeyChange(q) => ~Receives(q, w)
      BY <3>2 DEF PassesOnly
    <3>4. ASSUME NEW j \in DOMAIN log', NEW f, f = log'[j],
                 IsKeyChange(f), KeyOf(f) = RemovalKey(e)
          PROVE  ~Receives(f, w)
      <4>1. CASE j \in DOMAIN log
        BY <1>1, <3>3, <3>4, <4>1 DEF IsFresh
      <4>2. CASE j \notin DOMAIN log
        <5>1. PICK q \in P : IsOf(f, u, c, q)
          BY <1>1, <3>4, <4>2
        <5>2. IsKeyChange(q) /\ (Receives(f, w) => Receives(q, w))
          BY <3>4, <5>1 DEF IsOf, IsKeyChange, Receives
        <5>3. QED
          BY <3>3, <5>2
      <4>3. QED
        BY <4>1, <4>2
    <3>5. QED
      BY <3>2, <3>3, <3>4
  <2>3. QED
    BY <2>1, <2>2
<1>3. QED
  BY <1>2 DEF RemovedGetNoKey, Removes, RemovalKey

-----------------------------------------------------------------------------
(***************************************************************************)
(* Posts, and what they say.                                               *)
(***************************************************************************)
LEMMA ActionVersion ==
    ASSUME NEW isV1, NEW legacy \in MIN_SIGNATURE_VERSION .. MAX_SIGNATURE_VERSION
    PROVE  ActionSignatureVersion(isV1, legacy) \in MIN_SIGNATURE_VERSION .. MAX_SIGNATURE_VERSION
  BY DEF ActionSignatureVersion, MIN_SIGNATURE_VERSION, MAX_SIGNATURE_VERSION,
         MESSAGE_SIGNATURE_VERSION

LEMMA LegacyVersions ==
    /\ CURRENT_SIGNATURE_VERSION \in MIN_SIGNATURE_VERSION .. MAX_SIGNATURE_VERSION
    /\ MEMBER_ADD_DESCRIPTION_SIGNATURE_VERSION
          \in MIN_SIGNATURE_VERSION .. MAX_SIGNATURE_VERSION
  BY DEF CURRENT_SIGNATURE_VERSION, MEMBER_ADD_DESCRIPTION_SIGNATURE_VERSION,
         MIN_SIGNATURE_VERSION, MAX_SIGNATURE_VERSION

\* An action without a text of its own.
Plain(d) ==
    d.kind \notin {"MessageCreateEvent", "ConversationKeyChangeEvent",
                   "GroupTitleChange", "GroupDescriptionChange", "GroupCreate"}

LEMMA PlainFits ==
    ASSUME NEW u, NEW c, NEW d, NEW what, NEW post,
           NEW version \in MIN_SIGNATURE_VERSION .. MAX_SIGNATURE_VERSION,
           post = Post(d, version, Asked(what, Null)),
           Plain(d), what = ValueShown(d)
    PROVE  PostFits(u, c, post, log)
<1>1. post.detail = d /\ post.version = version /\ post.asked = Asked(what, Null)
  BY DEF Post
<1>2. ASSUME NEW e, IsOf(e, u, c, post)
      PROVE  /\ Says(e)
             /\ ~IsMessage(e) /\ ~IsKeyChange(e)
  <2>1. /\ e.detail = d
        /\ e.asked.what = ValueShown(e.detail) /\ e.asked.text = Null
    BY <1>1, <1>2 DEF IsOf, Asked
  <2>2. ~IsMessage(e) /\ ~IsKeyChange(e) /\ ~IsText(e.detail)
    BY <2>1 DEF Plain, IsMessage, IsKeyChange, IsText
  <2>3. ActionSays(e)
    BY <2>1, <2>2 DEF ActionSays, Plain, IsText
  <2>4. QED
    BY <2>2, <2>3 DEF Says
<1>3. QED
  BY <1>1, <1>2 DEF PostFits, PostSays

\* The copies of a key are for a roster.
LEMMA SetToSeqIs ==
    ASSUME NEW S, IsFiniteSet(S)
    PROVE  SetToSeq(S) \in [1 .. Cardinality(S) -> S]
<1>1. PICK f : f \in Bijection(1 .. Cardinality(S), S)
  BY FS_CardinalityType DEF ExistsBijection
<1>2. f \in [1 .. Cardinality(S) -> S] /\ IsInjective(f)
  BY <1>1 DEF Bijection, Injection, IsInjective
<1>3. QED
  BY <1>2 DEF SetToSeq

LEMMA KeyChangeFits ==
    ASSUME NEW u, NEW c \in Conversations, NEW version \in Versions,
           NEW roster \in SUBSET Users,
           NEW post, post = KeyChangePost(u, c, version, roster)
    PROVE  /\ PostFits(u, c, post, log)
           /\ IsKeyChange(post)
           /\ post.detail.conversation_key_version = version
           /\ \A w : Receives(post, w) => w \in roster
<1> DEFINE participants == ParticipantKeys(ConversationKey(c, version), roster)
           d == [kind |-> "ConversationKeyChangeEvent", conversation_key_version |-> version,
                 conversation_participant_keys |-> participants]
           signed == ActionSignatureVersion(v1[u], CURRENT_SIGNATURE_VERSION)
<1>1. post = Post(d, signed, Asked(version, Null))
  BY DEF KeyChangePost, ActionPost
<1>2. signed \in MIN_SIGNATURE_VERSION .. MAX_SIGNATURE_VERSION
  BY ActionVersion, LegacyVersions
<1>3. \A w, i : i \in DOMAIN participants /\ participants[i][1] = w => w \in roster
  <2>1. SetToSeq(roster) \in [1 .. Cardinality(roster) -> roster]
    BY UsersAssumption, FS_Subset, SetToSeqIs
  <2>2. QED
    BY <2>1 DEF ParticipantKeys
<1> HIDE DEF participants, signed
<1>4. post.detail = d /\ post.version = signed /\ post.asked = Asked(version, Null)
  BY <1>1 DEF Post
<1>5. ASSUME NEW e, IsOf(e, u, c, post)
      PROVE  /\ Says(e)
             /\ ~IsMessage(e) /\ KeyOf(e) \in AllKeys
  <2>1. /\ e.detail.kind = "ConversationKeyChangeEvent"
        /\ e.detail.conversation_key_version = version
        /\ e.conversation = c
        /\ e.asked.what = version /\ e.asked.text = Null
    BY <1>4, <1>5 DEF IsOf, Asked
  <2>2. ~IsMessage(e) /\ ~IsText(e.detail)
    BY <2>1 DEF IsMessage, IsText
  <2>3. ValueShown(e.detail) = version
    BY <2>1 DEF ValueShown
  <2>4. Says(e)
    BY <2>1, <2>2, <2>3 DEF Says, ActionSays
  <2>5. QED
    BY <2>1, <2>2, <2>4 DEF KeyOf, AllKeys
<1>6. PostFits(u, c, post, log)
  BY <1>2, <1>4, <1>5 DEF PostFits, PostSays
<1>7. QED
  BY <1>3, <1>4, <1>6 DEF IsKeyChange, Receives

\* A title or a description sealed under the key of its event; one sealed again
\* for a new key is not shown.
LEMMA TextFits ==
    ASSUME NEW u, NEW c, NEW version, NEW nonce, NEW text,
           NEW sealed, sealed = Seal(nonce, ConversationKey(c, version), text),
           NEW d \in {TitleChange(sealed, version), DescriptionChange(sealed, version)},
           NEW post, post = ActionPost(u, d, Asked(Null, text))
    PROVE  /\ PostFits(u, c, post, log)
           /\ PostFits(u, c, ReEncrypted(post), log)
           /\ IsText(post.detail) /\ IsText(ReEncrypted(post).detail)
<1> DEFINE signed == ActionSignatureVersion(v1[u], CURRENT_SIGNATURE_VERSION)
           again == ReEncrypted(post)
<1>1. signed \in MIN_SIGNATURE_VERSION .. MAX_SIGNATURE_VERSION
  BY ActionVersion, LegacyVersions
<1>2. /\ d.kind \in {"GroupTitleChange", "GroupDescriptionChange"}
      /\ d.conversation_key_version = version
      /\ d.kind = "GroupTitleChange" => d.custom_title = sealed
      /\ d.kind = "GroupDescriptionChange" => d.custom_description = sealed
  BY DEF TitleChange, DescriptionChange
<1>3. /\ post.detail = d /\ post.version = signed /\ post.asked = Asked(Null, text)
      /\ post.for_key_rotation = FALSE
  BY DEF ActionPost, Post
<1>4. /\ again.detail = d /\ again.version = signed /\ again.asked = Asked(Dropped, Null)
      /\ again.for_key_rotation = TRUE
  BY <1>3 DEF ReEncrypted, ActionPost, Post
<1> HIDE DEF signed, again
<1>5. ASSUME NEW e, e.detail = d
      PROVE  ~IsMessage(e) /\ ~IsKeyChange(e) /\ IsText(e.detail)
  BY <1>2, <1>5 DEF IsMessage, IsKeyChange, IsText
<1>6. ASSUME NEW e, IsOf(e, u, c, post)
      PROVE  Says(e)
  <2>1. /\ e.detail = d /\ e.conversation = c /\ e.for_key_rotation = FALSE
        /\ e.asked.what = Null /\ e.asked.text = text
    BY <1>3, <1>6 DEF IsOf, Asked
  <2>2. TextIs(sealed, KeyOf(e), text)
    BY <1>2, <2>1, SealedIs DEF TextIs, KeyOf
  <2>3. ValueShown(d) = Null
    BY <1>2 DEF ValueShown
  <2>4. QED
    BY <1>2, <1>5, <2>1, <2>2, <2>3 DEF Says, ActionSays
<1>7. ASSUME NEW e, IsOf(e, u, c, again)
      PROVE  Says(e)
  <2>1. e.detail = d /\ e.for_key_rotation = TRUE
        /\ e.asked.what = Dropped /\ e.asked.text = Null
    BY <1>4, <1>7 DEF IsOf, Asked
  <2>2. QED
    BY <1>5, <2>1 DEF Says, ActionSays
<1>8. PostFits(u, c, post, log)
  BY <1>1, <1>3, <1>5, <1>6 DEF PostFits, PostSays, IsOf
<1>9. PostFits(u, c, again, log)
  BY <1>1, <1>4, <1>5, <1>7 DEF PostFits, PostSays, IsOf
<1>10. QED
  BY <1>2, <1>3, <1>4, <1>8, <1>9 DEF again, IsText

\* The create of a group says its members and its title.
LEMMA CreateFits ==
    ASSUME NEW u, NEW version, NEW nonce, NEW title, NEW d, NEW what, NEW post,
           d.kind = "GroupCreate", d.conversation_key_version = version,
           d.title = SealedText(nonce, ConversationKey(Group, version), title),
           what = <<d.member_ids, d.admin_ids, version>>,
           post = ActionPost(u, d, Asked(what, title))
    PROVE  PostFits(u, Group, post, log) /\ post.detail = d
<1> DEFINE signed == ActionSignatureVersion(v1[u], CURRENT_SIGNATURE_VERSION)
<1>1. signed \in MIN_SIGNATURE_VERSION .. MAX_SIGNATURE_VERSION
  BY ActionVersion, LegacyVersions
<1>2. post.detail = d /\ post.version = signed /\ post.asked = Asked(what, title)
  BY DEF ActionPost, Post
<1> HIDE DEF signed
<1>3. ASSUME NEW e, IsOf(e, u, Group, post)
      PROVE  Says(e) /\ ~IsMessage(e) /\ ~IsKeyChange(e)
  <2>1. /\ e.detail = d /\ e.conversation = Group
        /\ e.asked.what = what /\ e.asked.text = title
    BY <1>2, <1>3 DEF IsOf, Asked
  <2>2. ~IsMessage(e) /\ ~IsKeyChange(e) /\ ~IsText(e.detail)
    BY <2>1 DEF IsMessage, IsKeyChange, IsText
  <2>3. TextIs(d.title, KeyOf(e), title)
    <3>1. KeyOf(e) = ConversationKey(Group, version)
      BY <2>1 DEF KeyOf
    <3>2. QED
      BY <3>1, SealedIs DEF TextIs, SealedText
  <2>4. ValueShown(d) = what
    BY DEF ValueShown
  <2>5. ActionSays(e)
    BY <2>1, <2>2, <2>3, <2>4 DEF ActionSays
  <2>6. QED
    BY <2>2, <2>5 DEF Says
<1>4. QED
  BY <1>1, <1>2, <1>3 DEF PostFits, PostSays

-----------------------------------------------------------------------------
(***************************************************************************)
(* Calls that pass no key, and calls that pass a new one, keep the         *)
(* invariant.                                                              *)
(***************************************************************************)
MembersAndFormats == members \subseteq Users /\ v1 \in [Users -> BOOLEAN]

LEMMA QuietSendKeeps ==
    ASSUME IInv, NEW u \in Users, NEW c \in Conversations, c = Group \/ u \in PairUsers,
           NEW spelled \in Spellings(u, c),
           NEW P, NEW posts \in Seq(P), Send(u, c, spelled, posts),
           \A p \in P : PostFits(u, c, p, log) /\ ~IsKeyChange(p),
           \A p \in P : p.detail.kind = "GroupMemberRemove"
                          => ToSet(p.detail.member_ids) \subseteq {u},
           UNCHANGED keys, MembersAndFormats'
    PROVE  IInv'
<1>1. EventsFit'
  BY SendFits DEF IInv
<1>2. TypeOK'
  BY SendIs DEF IInv, TypeOK, MembersAndFormats, PostFits
<1>3. IsFresh({})
  BY DEF IsFresh
<1>4. PassesOnly(u, c, P, {}, keys')
  BY DEF PassesOnly
<1>5. RemovedGetNoKey'
  BY <1>3, <1>4, SendRemoves DEF IInv, PostFits
<1>6. QED
  BY <1>1, <1>2, <1>5 DEF IInv

LEMMA UnusedIsFresh ==
    ASSUME NEW c \in Conversations, NEW version \in Unused(c), TypeOK
    PROVE  IsFresh({ConversationKey(c, version)})
<1>1. version \in Versions
  BY DEF Unused
<1>2. \A w \in Users : ConversationKey(c, version) \notin keys[w]
  BY <1>1 DEF Unused, VersionsHeld
<1>3. ASSUME NEW i \in DOMAIN log, IsKeyChange(log[i])
      PROVE  KeyOf(log[i]) # ConversationKey(c, version)
  BY <1>3, ConversationKeyIs DEF Unused, KeyOf
<1>4. QED
  BY <1>2, <1>3 DEF IsFresh

LEMMA StoresIs ==
    ASSUME NEW u \in Users, NEW c \in Conversations, NEW version \in Versions, TypeOK,
           Stores(u, c, version)
    PROVE  /\ keys' \in [Users -> SUBSET AllKeys]
           /\ ConversationKey(c, version) \in keys'[u]
           /\ \A w \in Users \ {u} : keys'[w] = keys[w]
           /\ \A w \in Users :
                 /\ keys[w] \subseteq keys'[w]
                 /\ keys'[w] \subseteq keys[w] \cup {ConversationKey(c, version)}
<1>1. ConversationKey(c, version) \in AllKeys
  BY DEF AllKeys
<1>2. QED
  BY <1>1 DEF Stores, TypeOK

LEMMA KeySendKeeps ==
    ASSUME IInv, NEW u \in Users, NEW c \in Conversations, c = Group \/ u \in PairUsers,
           NEW spelled \in Spellings(u, c), NEW version \in Unused(c),
           NEW P, NEW posts \in Seq(P), Send(u, c, spelled, posts),
           \A p \in P : PostFits(u, c, p, log),
           \A p \in P : IsKeyChange(p) => p.detail.conversation_key_version = version,
           \A p \in P, w \in Users \ {u} :
              p.detail.kind = "GroupMemberRemove" /\ w \in ToSet(p.detail.member_ids) =>
                /\ c = Group /\ p.detail.conversation_key_version = version
                /\ \A q \in P : IsKeyChange(q) => ~Receives(q, w),
           Stores(u, c, version), MembersAndFormats'
    PROVE  IInv'
<1> DEFINE fresh == {ConversationKey(c, version)}
<1>1. EventsFit'
  BY SendFits DEF IInv
<1>2. version \in Versions
  BY DEF Unused
<1>3. /\ keys' \in [Users -> SUBSET AllKeys]
      /\ ConversationKey(c, version) \in keys'[u]
      /\ \A w \in Users \ {u} : keys'[w] = keys[w]
      /\ \A w \in Users : keys[w] \subseteq keys'[w] /\ keys'[w] \subseteq keys[w] \cup fresh
  BY <1>2, StoresIs DEF IInv
<1>4. TypeOK'
  BY <1>3, SendIs DEF IInv, TypeOK, MembersAndFormats, PostFits
<1>5. IsFresh(fresh)
  BY UnusedIsFresh DEF IInv
<1>6. PassesOnly(u, c, P, fresh, keys')
  BY <1>3, <1>5 DEF PassesOnly, IsFresh, RemovalKey
<1> HIDE DEF fresh
<1>7. RemovedGetNoKey'
  BY <1>3, <1>5, <1>6, SendRemoves DEF IInv, PostFits
<1>8. QED
  BY <1>1, <1>4, <1>7 DEF IInv

LEMMA SequencesOf ==
    ASSUME NEW a, NEW b
    PROVE  <<a>> \in Seq({a}) /\ <<a, b>> \in Seq({a, b})
  OBVIOUS

\* A call that signs one plain event which removes nobody.
LEMMA ActKeeps ==
    ASSUME IInv, NEW u \in Users, NEW c \in Conversations, c = Group \/ u \in PairUsers,
           NEW d, NEW what, Act(u, c, d, what),
           Plain(d), d.kind # "GroupMemberRemove", what = ValueShown(d)
    PROVE  IInv'
<1> DEFINE post == ActionPost(u, d, Asked(what, Null))
<1>1. PICK spelled \in Spellings(u, c) : Send(u, c, spelled, <<post>>)
  BY DEF Act
<1>2. UNCHANGED <<members, keys, v1>>
  BY DEF Act
<1>3. PostFits(u, c, post, log)
  BY ActionVersion, LegacyVersions, PlainFits DEF ActionPost
<1>4. post.detail = d
  BY DEF ActionPost, Post
<1> HIDE DEF post
<1>5. ~IsKeyChange(post) /\ post.detail.kind # "GroupMemberRemove"
  BY <1>4 DEF IsKeyChange, Plain
<1>6. MembersAndFormats'
  BY <1>2 DEF IInv, TypeOK, MembersAndFormats
<1> DEFINE P == {post}
           posts == <<post>>
<1>7. posts \in Seq(P) /\ Send(u, c, spelled, posts)
  BY <1>1, SequencesOf
<1>8. /\ \A p \in P : PostFits(u, c, p, log) /\ ~IsKeyChange(p)
      /\ \A p \in P : p.detail.kind = "GroupMemberRemove"
                        => ToSet(p.detail.member_ids) \subseteq {u}
  BY <1>3, <1>5
<1>9. UNCHANGED keys
  BY <1>2
<1> HIDE DEF P, posts
<1>10. QED
  BY <1>6, <1>7, <1>8, <1>9, QuietSendKeeps

-----------------------------------------------------------------------------
(***************************************************************************)
(* Key changes and members.                                                *)
(***************************************************************************)
LEMMA MembersFit ==
    ASSUME NEW u \in Users, NEW c \in Conversations, u \in MembersOf(c)
    PROVE  c = Group \/ u \in PairUsers
  BY DEF MembersOf

LEMMA RostersFit ==
    ASSUME IInv, NEW c \in Conversations
    PROVE  MembersOf(c) \subseteq Users
  BY UsersAssumption DEF MembersOf, IInv, TypeOK

LEMMA GroupIs ==
    Group \in Conversations /\ \A u : Group \in Spellings(u, Group)
  BY DEF Conversations, Spellings

LEMMA UnusedIs ==
    ASSUME NEW c, NEW version \in Unused(c)
    PROVE  version \in Versions
  BY DEF Unused

\* The post of a key change, by a name of its own.
IsChange(post, u, c, version, roster) ==
    /\ PostFits(u, c, post, log)
    /\ IsKeyChange(post)
    /\ post.detail.conversation_key_version = version
    /\ \A w : Receives(post, w) => w \in roster

LEMMA ChangesFit ==
    \A u \in Users, c \in Conversations, version \in Versions, roster \in SUBSET Users :
        IsChange(KeyChangePost(u, c, version, roster), u, c, version, roster)
  BY KeyChangeFits DEF IsChange

LEMMA ChangeKeyKeeps ==
    ASSUME IInv, NEW u \in Users, ChangeKey(u)
    PROVE  IInv'
<1>1. PICK c \in Conversations, version \in Versions :
        \E spelled \in Spellings(u, c) :
          /\ u \in MembersOf(c)
          /\ version \in Unused(c)
          /\ Send(u, c, spelled, <<KeyChangePost(u, c, version, MembersOf(c))>>)
          /\ Stores(u, c, version)
          /\ UNCHANGED <<members, v1>>
  BY DEF ChangeKey
<1>2. PICK spelled \in Spellings(u, c) :
          Send(u, c, spelled, <<KeyChangePost(u, c, version, MembersOf(c))>>)
  BY <1>1
<1> DEFINE change == KeyChangePost(u, c, version, MembersOf(c))
           P == {change}
           posts == <<change>>
<1>3. c = Group \/ u \in PairUsers
  BY <1>1, MembersFit
<1>4. /\ PostFits(u, c, change, log)
      /\ IsKeyChange(change) /\ change.detail.conversation_key_version = version
  BY RostersFit, KeyChangeFits
<1> HIDE DEF change
<1>5. posts \in Seq(P) /\ Send(u, c, spelled, posts)
  BY <1>2, SequencesOf DEF change
<1>6. MembersAndFormats'
  BY <1>1 DEF IInv, TypeOK, MembersAndFormats
<1>7. /\ \A p \in P : PostFits(u, c, p, log)
      /\ \A p \in P : IsKeyChange(p) => p.detail.conversation_key_version = version
      /\ \A p \in P : p.detail.kind # "GroupMemberRemove"
  BY <1>4 DEF IsKeyChange
<1> HIDE DEF P, posts
<1>8. QED
  BY <1>1, <1>3, <1>5, <1>6, <1>7, KeySendKeeps

LEMMA CreateGroupKeeps ==
    ASSUME IInv, NEW u \in Users, CreateGroup(u)
    PROVE  IInv'
<1>1. PICK others \in SUBSET (Users \ {u}), version \in Unused(Group),
           title \in TextParams, ttl \in TtlParams :
        LET roster == others \cup {u}
            key == ConversationKey(Group, version)
            create ==
                [kind |-> "GroupCreate", member_ids |-> SetToSeq(roster),
                 admin_ids |-> <<u>>,
                 title |-> SealedText(Nonce(2, "title"), key, NotEmpty(title)),
                 avatar_url |-> Null, conversation_key_version |-> version,
                 is_legacy_group_upgrade |-> Null, ttl_msec |-> NotNegative(ttl),
                 group_type |-> Null]
            asked == Asked(<<SetToSeq(roster), <<u>>, version>>, NotEmpty(title))
        IN  /\ Send(u, Group, Group,
                    <<KeyChangePost(u, Group, version, roster), ActionPost(u, create, asked)>>)
            /\ members' = roster
            /\ Stores(u, Group, version)
            /\ UNCHANGED v1
  BY DEF CreateGroup
<1> DEFINE roster == others \cup {u}
           ids == SetToSeq(roster)
           text == NotEmpty(title)
           nonce == Nonce(2, "title")
           d == [kind |-> "GroupCreate", member_ids |-> ids, admin_ids |-> <<u>>,
                 title |-> SealedText(nonce, ConversationKey(Group, version), text),
                 avatar_url |-> Null, conversation_key_version |-> version,
                 is_legacy_group_upgrade |-> Null, ttl_msec |-> NotNegative(ttl),
                 group_type |-> Null]
           what == <<ids, <<u>>, version>>
           create == ActionPost(u, d, Asked(what, text))
           change == KeyChangePost(u, Group, version, roster)
           P == {change, create}
           posts == <<change, create>>
<1>2. Send(u, Group, Group, posts) /\ members' = roster /\ v1' = v1
  BY <1>1
<1>3. /\ PostFits(u, Group, change, log)
      /\ IsKeyChange(change) /\ change.detail.conversation_key_version = version
  <2>1. roster \in SUBSET Users /\ version \in Versions
    BY UnusedIs
  <2>2. change = KeyChangePost(u, Group, version, roster)
    OBVIOUS
  <2> HIDE DEF roster, change
  <2>3. Group \in Conversations
    BY GroupIs
  <2>4. IsChange(change, u, Group, version, roster)
    BY <2>1, <2>2, <2>3, ChangesFit
  <2>5. QED
    BY <2>4 DEF IsChange
<1>4. PostFits(u, Group, create, log) /\ create.detail = d
  <2> HIDE DEF ids, text, nonce
  <2>1. /\ d.kind = "GroupCreate" /\ d.conversation_key_version = version
        /\ d.title = SealedText(nonce, ConversationKey(Group, version), text)
        /\ what = <<d.member_ids, d.admin_ids, version>>
    OBVIOUS
  <2> HIDE DEF d, what
  <2>2. QED
    BY <2>1, CreateFits
<1>5. ~IsKeyChange(create) /\ create.detail.kind # "GroupMemberRemove"
  BY <1>4 DEF IsKeyChange
<1>6. MembersAndFormats'
  BY <1>2 DEF IInv, TypeOK, MembersAndFormats
<1> HIDE DEF change, create
<1>7. posts \in Seq(P)
  BY SequencesOf
<1>8. /\ \A p \in P : PostFits(u, Group, p, log)
      /\ \A p \in P : IsKeyChange(p) => p.detail.conversation_key_version = version
      /\ \A p \in P : p.detail.kind # "GroupMemberRemove"
  BY <1>3, <1>4, <1>5 DEF IsKeyChange
<1>9. Stores(u, Group, version)
  BY <1>1
<1> HIDE DEF P, posts
<1>10. QED
  BY <1>2, <1>6, <1>7, <1>8, <1>9, GroupIs, KeySendKeeps

LEMMA AddMembersKeeps ==
    ASSUME IInv, NEW u \in Users, AddMembers(u)
    PROVE  IInv'
<1>1. PICK w \in Users \ members, version \in Unused(Group),
           title, description \in TextParams, avatar \in UrlParams, ttl \in TtlParams :
        LET key == ConversationKey(Group, version)
            add ==
                [kind |-> "GroupMemberAdd", member_ids |-> <<w>>,
                 current_member_ids |-> SetToSeq(members), current_admin_ids |-> <<u>>,
                 current_pending_member_ids |-> <<>>,
                 current_title |-> SealedText(Nonce(2, "title"), key, NotEmpty(title)),
                 current_avatar_url |-> NotEmpty(avatar),
                 current_description |->
                    SealedText(Nonce(2, "description"), key, NotEmpty(description)),
                 current_ttl_msec |-> NotNegative(ttl),
                 screen_capture_blocking_enabled |-> Flag(FALSE),
                 conversation_key_version |-> version]
            legacy == IF NotEmpty(description) # Null
                      THEN MEMBER_ADD_DESCRIPTION_SIGNATURE_VERSION
                      ELSE CURRENT_SIGNATURE_VERSION
        IN  /\ u \in members
            /\ Send(u, Group, Group,
                    <<KeyChangePost(u, Group, version, members \cup {w}),
                      Post(add, ActionSignatureVersion(v1[u], legacy),
                           Asked(<<<<w>>, SetToSeq(members), <<u>>>>, Null))>>)
            /\ members' = members \cup {w}
            /\ Stores(u, Group, version)
            /\ UNCHANGED v1
  BY DEF AddMembers
<1> DEFINE key == ConversationKey(Group, version)
           ids == SetToSeq(members)
           d == [kind |-> "GroupMemberAdd", member_ids |-> <<w>>,
                 current_member_ids |-> ids, current_admin_ids |-> <<u>>,
                 current_pending_member_ids |-> <<>>,
                 current_title |-> SealedText(Nonce(2, "title"), key, NotEmpty(title)),
                 current_avatar_url |-> NotEmpty(avatar),
                 current_description |->
                    SealedText(Nonce(2, "description"), key, NotEmpty(description)),
                 current_ttl_msec |-> NotNegative(ttl),
                 screen_capture_blocking_enabled |-> Flag(FALSE),
                 conversation_key_version |-> version]
           legacy == IF NotEmpty(description) # Null
                     THEN MEMBER_ADD_DESCRIPTION_SIGNATURE_VERSION
                     ELSE CURRENT_SIGNATURE_VERSION
           signed == ActionSignatureVersion(v1[u], legacy)
           what == <<<<w>>, ids, <<u>>>>
           add == Post(d, signed, Asked(what, Null))
           change == KeyChangePost(u, Group, version, members \cup {w})
           P == {change, add}
           posts == <<change, add>>
<1>2. Send(u, Group, Group, posts) /\ members' = members \cup {w} /\ v1' = v1
  BY <1>1
<1>3. /\ PostFits(u, Group, change, log)
      /\ IsKeyChange(change) /\ change.detail.conversation_key_version = version
  <2> DEFINE roster == members \cup {w}
  <2>1. roster \in SUBSET Users /\ version \in Versions
    BY UnusedIs DEF IInv, TypeOK
  <2>2. change = KeyChangePost(u, Group, version, roster)
    OBVIOUS
  <2> HIDE DEF roster, change
  <2>3. Group \in Conversations
    BY GroupIs
  <2>4. IsChange(change, u, Group, version, roster)
    BY <2>1, <2>2, <2>3, ChangesFit
  <2>5. QED
    BY <2>4 DEF IsChange
<1>4. signed \in MIN_SIGNATURE_VERSION .. MAX_SIGNATURE_VERSION
  BY ActionVersion, LegacyVersions
<1>5. Plain(d) /\ what = ValueShown(d) /\ d.kind = "GroupMemberAdd"
  <2> HIDE DEF ids, key
  <2>1. QED
    BY DEF Plain, ValueShown
<1>6. add.detail = d
  <2> HIDE DEF d, what, signed
  <2>1. QED
    BY DEF Post
<1> HIDE DEF d, what, signed
<1>7. PostFits(u, Group, add, log)
  BY <1>4, <1>5, PlainFits
<1>8. ~IsKeyChange(add) /\ add.detail.kind # "GroupMemberRemove"
  BY <1>5, <1>6 DEF IsKeyChange
<1>9. MembersAndFormats'
  BY <1>2 DEF IInv, TypeOK, MembersAndFormats
<1> HIDE DEF change, add
<1>10. posts \in Seq(P)
  BY SequencesOf
<1>11. /\ \A p \in P : PostFits(u, Group, p, log)
       /\ \A p \in P : IsKeyChange(p) => p.detail.conversation_key_version = version
       /\ \A p \in P : p.detail.kind # "GroupMemberRemove"
  BY <1>3, <1>7, <1>8 DEF IsKeyChange
<1>12. Stores(u, Group, version)
  BY <1>1
<1> HIDE DEF P, posts
<1>13. QED
  BY <1>2, <1>9, <1>10, <1>11, <1>12, GroupIs, KeySendKeeps

LEMMA RemovalIs ==
    ASSUME NEW u, NEW w, NEW version,
           NEW post, post = ActionPost(u, MemberRemove(<<w>>, version), Asked(<<w>>, Null))
    PROVE  /\ PostFits(u, Group, post, log)
           /\ ~IsKeyChange(post)
           /\ post.detail.kind = "GroupMemberRemove"
           /\ post.detail.conversation_key_version = version
           /\ ToSet(post.detail.member_ids) = {w}
<1> DEFINE d == MemberRemove(<<w>>, version)
<1>1. /\ d.kind = "GroupMemberRemove" /\ d.conversation_key_version = version
      /\ d.member_ids = <<w>>
  BY DEF MemberRemove
<1>2. Plain(d) /\ ValueShown(d) = <<w>>
  BY <1>1 DEF Plain, ValueShown
<1>3. post.detail = d
  BY DEF ActionPost, Post
<1> HIDE DEF d
<1>4. PostFits(u, Group, post, log)
  BY <1>2, ActionVersion, LegacyVersions, PlainFits DEF ActionPost, d
<1>5. QED
  BY <1>1, <1>3, <1>4 DEF IsKeyChange, ToSet

LEMMA RemoveMembersKeeps ==
    ASSUME IInv, NEW u \in Users, RemoveMembers(u)
    PROVE  IInv'
<1>1. PICK w \in members \ {u}, version \in Unused(Group), title, description \in TextParams :
        \E roster \in {members, members \ {w}} :
          LET key == ConversationKey(Group, version)
              removal == ActionPost(u, MemberRemove(<<w>>, version), Asked(<<w>>, Null))
              retitle(i) ==
                  IF NotEmpty(title) = Null THEN <<>>
                  ELSE <<ReEncrypted(ActionPost(u,
                            TitleChange(Seal(Nonce(i, "title"), key, title), version),
                            Asked(Null, title)))>>
              redescribe(i) ==
                  IF NotEmpty(description) = Null THEN <<>>
                  ELSE <<ReEncrypted(ActionPost(u,
                            DescriptionChange(Seal(Nonce(i, "description"), key, description),
                                              version),
                            Asked(Null, description)))>>
          IN  /\ u \in members
              /\ StaysOnly(roster, {w})
              /\ Send(u, Group, Group,
                      <<removal>> \o retitle(2) \o redescribe(3)
                        \o <<KeyChangePost(u, Group, version, roster)>>)
              /\ members' = members \ {w}
              /\ Stores(u, Group, version)
              /\ UNCHANGED v1
  BY DEF RemoveMembers
<1> DEFINE key == ConversationKey(Group, version)
           removal == ActionPost(u, MemberRemove(<<w>>, version), Asked(<<w>>, Null))
           entitled == Seal(Nonce(2, "title"), key, title)
           titled == ReEncrypted(ActionPost(u, TitleChange(entitled, version),
                                            Asked(Null, title)))
           retitle == IF NotEmpty(title) = Null THEN <<>> ELSE <<titled>>
           sealed == Seal(Nonce(3, "description"), key, description)
           described == ReEncrypted(ActionPost(u, DescriptionChange(sealed, version),
                                               Asked(Null, description)))
           redescribe == IF NotEmpty(description) = Null THEN <<>> ELSE <<described>>
<1>2. PICK roster \in {members, members \ {w}} :
        /\ StaysOnly(roster, {w})
        /\ Send(u, Group, Group,
                <<removal>> \o retitle \o redescribe
                  \o <<KeyChangePost(u, Group, version, roster)>>)
  BY <1>1
<1> DEFINE change == KeyChangePost(u, Group, version, roster)
           P == {removal, titled, described, change}
           posts == <<removal>> \o retitle \o redescribe \o <<change>>
<1>3. members' = members \ {w} /\ v1' = v1 /\ Stores(u, Group, version)
  BY <1>1
<1>4. /\ PostFits(u, Group, change, log)
      /\ IsKeyChange(change) /\ change.detail.conversation_key_version = version
      /\ ~Receives(change, w)
  <2>1. roster \in SUBSET Users /\ version \in Versions
    BY UnusedIs DEF IInv, TypeOK
  <2>2. w \notin roster
    BY <1>2 DEF StaysOnly
  <2>3. IsChange(change, u, Group, version, roster)
    <3>1. Group \in Conversations
      BY GroupIs
    <3>2. QED
      BY <2>1, <3>1, ChangesFit
  <2> HIDE DEF change
  <2>4. QED
    BY <2>2, <2>3 DEF IsChange
<1>5. /\ PostFits(u, Group, removal, log)
      /\ ~IsKeyChange(removal)
      /\ removal.detail.conversation_key_version = version
      /\ ToSet(removal.detail.member_ids) = {w}
  <2>1. removal = ActionPost(u, MemberRemove(<<w>>, version), Asked(<<w>>, Null))
    OBVIOUS
  <2> HIDE DEF removal
  <2>2. QED
    BY <2>1, RemovalIs
<1>6. /\ PostFits(u, Group, titled, log) /\ IsText(titled.detail)
      /\ PostFits(u, Group, described, log) /\ IsText(described.detail)
  <2> DEFINE d == TitleChange(entitled, version)
             e == DescriptionChange(sealed, version)
             first == ActionPost(u, d, Asked(Null, title))
             second == ActionPost(u, e, Asked(Null, description))
  <2>1. /\ d \in {TitleChange(entitled, version), DescriptionChange(entitled, version)}
        /\ e \in {TitleChange(sealed, version), DescriptionChange(sealed, version)}
    OBVIOUS
  <2>2. titled = ReEncrypted(first) /\ described = ReEncrypted(second)
    OBVIOUS
  <2>3. PostFits(u, Group, titled, log) /\ IsText(titled.detail)
    <3> HIDE DEF d, titled
    <3>1. QED
      BY <2>1, <2>2, TextFits
  <2>4. PostFits(u, Group, described, log) /\ IsText(described.detail)
    <3> HIDE DEF e, described
    <3>1. QED
      BY <2>1, <2>2, TextFits
  <2>5. QED
    BY <2>3, <2>4
<1> HIDE DEF removal, titled, described, change
<1>7. posts \in Seq(P)
  <2>1. /\ <<removal>> \in Seq(P) /\ <<titled>> \in Seq(P)
        /\ <<described>> \in Seq(P) /\ <<change>> \in Seq(P) /\ <<>> \in Seq(P)
    <3>1. removal \in P /\ titled \in P /\ described \in P /\ change \in P
      OBVIOUS
    <3> HIDE DEF P
    <3>2. QED
      BY <3>1
  <2> HIDE DEF P
  <2>2. <<removal>> \o retitle \in Seq(P)
    BY <2>1
  <2> HIDE DEF retitle
  <2>3. <<removal>> \o retitle \o redescribe \in Seq(P)
    BY <2>1, <2>2
  <2>4. QED
    BY <2>1, <2>3
<1>8. Send(u, Group, Group, posts)
  BY <1>2 DEF change, removal
<1>9. MembersAndFormats'
  BY <1>3 DEF IInv, TypeOK, MembersAndFormats
<1>10. /\ ~IsKeyChange(titled) /\ ~IsKeyChange(described)
       /\ titled.detail.kind # "GroupMemberRemove"
       /\ described.detail.kind # "GroupMemberRemove"
       /\ change.detail.kind # "GroupMemberRemove"
  BY <1>4, <1>6 DEF IsKeyChange, IsText
<1>11. /\ \A p \in P : PostFits(u, Group, p, log)
       /\ \A p \in P : IsKeyChange(p) => p.detail.conversation_key_version = version
       /\ \A p \in P, x \in Users \ {u} :
             p.detail.kind = "GroupMemberRemove" /\ x \in ToSet(p.detail.member_ids) =>
               /\ p.detail.conversation_key_version = version
               /\ \A q \in P : IsKeyChange(q) => ~Receives(q, x)
  BY <1>4, <1>5, <1>6, <1>10
<1> HIDE DEF P, posts
<1>12. QED
  BY <1>3, <1>7, <1>8, <1>9, <1>11, GroupIs, KeySendKeeps

LEMMA LeaveKeeps ==
    ASSUME IInv, NEW u \in Users, Leave(u)
    PROVE  IInv'
<1>1. PICK version \in VersionsHeld(u, Group) \cup {Null}, admin \in {Null} \cup (members \ {u}) :
        LET promote == [kind |-> "GroupAdminAdd", admin_ids |-> <<admin>>]
        IN  /\ u \in members
            /\ Send(u, Group, Group,
                    <<ActionPost(u, MemberRemove(<<u>>, version), Asked(<<u>>, Null))>>
                      \o (IF admin = Null THEN <<>>
                          ELSE <<ActionPost(u, promote, Asked(<<admin>>, Null))>>)
                      \o <<ActionPost(u, [kind |-> "ConversationDeleteEvent"],
                                      Asked(Null, Null))>>)
            /\ members' = members \ {u}
            /\ UNCHANGED <<keys, v1>>
  BY DEF Leave
<1> DEFINE removal == ActionPost(u, MemberRemove(<<u>>, version), Asked(<<u>>, Null))
           d == [kind |-> "GroupAdminAdd", admin_ids |-> <<admin>>]
           promotion == ActionPost(u, d, Asked(<<admin>>, Null))
           promote == IF admin = Null THEN <<>> ELSE <<promotion>>
           e == [kind |-> "ConversationDeleteEvent"]
           deletion == ActionPost(u, e, Asked(Null, Null))
           P == {removal, promotion, deletion}
           posts == <<removal>> \o promote \o <<deletion>>
<1>2. /\ Send(u, Group, Group, posts)
      /\ members' = members \ {u} /\ UNCHANGED keys /\ v1' = v1
  BY <1>1
<1>3. /\ PostFits(u, Group, removal, log)
      /\ ~IsKeyChange(removal)
      /\ ToSet(removal.detail.member_ids) = {u}
  <2>1. removal = ActionPost(u, MemberRemove(<<u>>, version), Asked(<<u>>, Null))
    OBVIOUS
  <2> HIDE DEF removal
  <2>2. QED
    BY <2>1, RemovalIs
<1>4. /\ PostFits(u, Group, promotion, log) /\ promotion.detail.kind = "GroupAdminAdd"
  <2>1. Plain(d) /\ <<admin>> = ValueShown(d) /\ d.kind = "GroupAdminAdd"
    BY DEF Plain, ValueShown
  <2> HIDE DEF d
  <2>2. QED
    BY <2>1, ActionVersion, LegacyVersions, PlainFits DEF ActionPost, Post
<1>5. /\ PostFits(u, Group, deletion, log)
      /\ deletion.detail.kind = "ConversationDeleteEvent"
  <2>1. Plain(e) /\ Null = ValueShown(e) /\ e.kind = "ConversationDeleteEvent"
    BY DEF Plain, ValueShown
  <2> HIDE DEF e
  <2>2. QED
    BY <2>1, ActionVersion, LegacyVersions, PlainFits DEF ActionPost, Post
<1> HIDE DEF removal, promotion, deletion
<1>6. posts \in Seq(P)
  <2>1. <<removal>> \in Seq(P) /\ promote \in Seq(P) /\ <<deletion>> \in Seq(P)
    OBVIOUS
  <2> HIDE DEF P, promote
  <2>2. <<removal>> \o promote \in Seq(P)
    BY <2>1
  <2>3. QED
    BY <2>1, <2>2
<1>7. MembersAndFormats'
  BY <1>2 DEF IInv, TypeOK, MembersAndFormats
<1>8. /\ \A p \in P : PostFits(u, Group, p, log) /\ ~IsKeyChange(p)
      /\ \A p \in P : p.detail.kind = "GroupMemberRemove"
                        => ToSet(p.detail.member_ids) \subseteq {u}
  BY <1>3, <1>4, <1>5 DEF IsKeyChange
<1> HIDE DEF P, posts
<1>9. QED
  BY <1>2, <1>6, <1>7, <1>8, GroupIs, QuietSendKeeps

-----------------------------------------------------------------------------
(***************************************************************************)
(* The other actions.                                                      *)
(***************************************************************************)
LEMMA ChangeAdminsKeeps ==
    ASSUME IInv, NEW u \in Users, ChangeAdmins(u)
    PROVE  IInv'
<1>1. PICK kind \in {"GroupAdminAdd", "GroupAdminRemove"}, w \in members :
          Act(u, Group, [kind |-> kind, admin_ids |-> <<w>>], <<w>>)
  BY DEF ChangeAdmins
<1> DEFINE d == [kind |-> kind, admin_ids |-> <<w>>]
<1>2. Plain(d) /\ d.kind # "GroupMemberRemove" /\ <<w>> = ValueShown(d)
  BY DEF Plain, ValueShown
<1> HIDE DEF d
<1>3. QED
  BY <1>1, <1>2, GroupIs, ActKeeps DEF d

LEMMA ChangeTextKeeps ==
    ASSUME IInv, NEW u \in Users, ChangeText(u)
    PROVE  IInv'
<1> DEFINE version == Newest(u, Group)
           sealed(text) == Seal(Nonce(1, "text"), ConversationKey(Group, version), text)
<1>1. PICK text \in Texts :
        \E d \in {TitleChange(sealed(text), version), DescriptionChange(sealed(text), version)} :
            Send(u, Group, Group, <<ActionPost(u, d, Asked(Null, text))>>)
  BY DEF ChangeText
<1> DEFINE s == sealed(text)
<1>2. PICK d \in {TitleChange(s, version), DescriptionChange(s, version)} :
          Send(u, Group, Group, <<ActionPost(u, d, Asked(Null, text))>>)
  BY <1>1
<1>3. UNCHANGED <<members, keys, v1>>
  BY DEF ChangeText
<1> DEFINE post == ActionPost(u, d, Asked(Null, text))
           P == {post}
           posts == <<post>>
<1>4. PostFits(u, Group, post, log) /\ IsText(post.detail)
  <2>1. post = ActionPost(u, d, Asked(Null, text))
    OBVIOUS
  <2>2. s = Seal(Nonce(1, "text"), ConversationKey(Group, version), text)
    OBVIOUS
  <2> HIDE DEF post, s, version
  <2>3. QED
    BY <2>1, <2>2, TextFits
<1> HIDE DEF post
<1>5. posts \in Seq(P) /\ Send(u, Group, Group, posts)
  BY <1>2, SequencesOf DEF post
<1>6. MembersAndFormats' /\ UNCHANGED keys
  BY <1>3 DEF IInv, TypeOK, MembersAndFormats
<1>7. /\ \A p \in P : PostFits(u, Group, p, log) /\ ~IsKeyChange(p)
      /\ \A p \in P : p.detail.kind # "GroupMemberRemove"
  BY <1>4 DEF IsKeyChange, IsText
<1> HIDE DEF P, posts
<1>8. QED
  BY <1>5, <1>6, <1>7, GroupIs, QuietSendKeeps

LEMMA ChangeAvatarKeeps ==
    ASSUME IInv, NEW u \in Users, ChangeAvatar(u)
    PROVE  IInv'
<1>1. PICK url \in UrlParams \ {Null, EmptyText}, version \in VersionsHeld(u, Group) :
          Act(u, Group, [kind |-> "GroupAvatarChange", custom_avatar_url |-> url,
                         conversation_key_version |-> version], <<url, version>>)
  BY DEF ChangeAvatar
<1> DEFINE d == [kind |-> "GroupAvatarChange", custom_avatar_url |-> url,
                 conversation_key_version |-> version]
<1>2. Plain(d) /\ d.kind # "GroupMemberRemove" /\ <<url, version>> = ValueShown(d)
  BY DEF Plain, ValueShown
<1> HIDE DEF d
<1>3. QED
  BY <1>1, <1>2, GroupIs, ActKeeps DEF d

LEMMA InvitesKeep ==
    ASSUME IInv, NEW u \in Users,
           EnableInvite(u) \/ DisableInvite(u) \/ RequestToJoin(u) \/ RejectJoin(u)
    PROVE  IInv'
<1>1. CASE EnableInvite(u)
  <2>1. PICK url \in {Url, CommaUrl}, expires \in TtlParams, affiliate \in UrlParams :
          Act(u, Group, [kind |-> "GroupInviteEnable", invite_url |-> url,
                         expires_at_msec |-> NotNegative(expires),
                         affiliate_id |-> NotEmpty(affiliate)],
              <<url, NotNegative(expires)>>)
    BY <1>1 DEF EnableInvite
  <2> DEFINE d == [kind |-> "GroupInviteEnable", invite_url |-> url,
                   expires_at_msec |-> NotNegative(expires),
                   affiliate_id |-> NotEmpty(affiliate)]
  <2>2. /\ Plain(d) /\ d.kind # "GroupMemberRemove"
        /\ <<url, NotNegative(expires)>> = ValueShown(d)
    BY DEF Plain, ValueShown
  <2> HIDE DEF d
  <2>3. QED
    BY <2>1, <2>2, GroupIs, ActKeeps DEF d
<1>2. CASE DisableInvite(u)
  <2>1. PICK by \in Users :
          Act(u, Group, [kind |-> "GroupInviteDisable", disabled_by_member_id |-> by], by)
    BY <1>2 DEF DisableInvite
  <2> DEFINE d == [kind |-> "GroupInviteDisable", disabled_by_member_id |-> by]
  <2>2. Plain(d) /\ d.kind # "GroupMemberRemove" /\ by = ValueShown(d)
    BY DEF Plain, ValueShown
  <2> HIDE DEF d
  <2>3. QED
    BY <2>1, <2>2, GroupIs, ActKeeps DEF d
<1>3. CASE RequestToJoin(u)
  <2>1. PICK w \in Users \ members :
          Act(u, Group, [kind |-> "GroupJoinRequest", requesting_user_id |-> w], w)
    BY <1>3 DEF RequestToJoin
  <2> DEFINE d == [kind |-> "GroupJoinRequest", requesting_user_id |-> w]
  <2>2. Plain(d) /\ d.kind # "GroupMemberRemove" /\ w = ValueShown(d)
    BY DEF Plain, ValueShown
  <2> HIDE DEF d
  <2>3. QED
    BY <2>1, <2>2, GroupIs, ActKeeps DEF d
<1>4. CASE RejectJoin(u)
  <2>1. PICK w \in Users \ members :
          Act(u, Group, [kind |-> "GroupJoinReject", rejected_user_ids |-> <<w>>], <<w>>)
    BY <1>4 DEF RejectJoin
  <2> DEFINE d == [kind |-> "GroupJoinReject", rejected_user_ids |-> <<w>>]
  <2>2. Plain(d) /\ d.kind # "GroupMemberRemove" /\ <<w>> = ValueShown(d)
    BY DEF Plain, ValueShown
  <2> HIDE DEF d
  <2>3. QED
    BY <2>1, <2>2, GroupIs, ActKeeps DEF d
<1>5. QED
  BY <1>1, <1>2, <1>3, <1>4

LEMMA ChangeSettingsKeeps ==
    ASSUME IInv, NEW u \in Users, ChangeSettings(u)
    PROVE  IInv'
<1>1. PICK c \in Conversations :
        /\ u \in MembersOf(c)
        /\ \/ Act(u, c, [kind |-> "MessageDurationChange", ttl_msec |-> Number(0)], Number(0))
           \/ \E kind \in {"MessageDurationRemove",
                           "EnableScreenCaptureBlocking", "DisableScreenCaptureBlocking",
                           "EnableScreenCaptureDetection", "DisableScreenCaptureDetection"} :
                Act(u, c, [kind |-> kind], Null)
  BY DEF ChangeSettings
<1>2. c = Group \/ u \in PairUsers
  BY <1>1, MembersFit
<1>3. CASE Act(u, c, [kind |-> "MessageDurationChange", ttl_msec |-> Number(0)], Number(0))
  <2> DEFINE d == [kind |-> "MessageDurationChange", ttl_msec |-> Number(0)]
             what == Number(0)
  <2>1. Plain(d) /\ d.kind # "GroupMemberRemove" /\ what = ValueShown(d)
    BY DEF Plain, ValueShown
  <2> HIDE DEF d, what
  <2>2. QED
    BY <1>2, <1>3, <2>1, ActKeeps DEF d, what
<1>4. CASE \E kind \in {"MessageDurationRemove",
                        "EnableScreenCaptureBlocking", "DisableScreenCaptureBlocking",
                        "EnableScreenCaptureDetection", "DisableScreenCaptureDetection"} :
              Act(u, c, [kind |-> kind], Null)
  <2>1. PICK kind \in {"MessageDurationRemove",
                       "EnableScreenCaptureBlocking", "DisableScreenCaptureBlocking",
                       "EnableScreenCaptureDetection", "DisableScreenCaptureDetection"} :
            Act(u, c, [kind |-> kind], Null)
    BY <1>4
  <2> DEFINE d == [kind |-> kind]
  <2>2. Plain(d) /\ d.kind # "GroupMemberRemove" /\ Null = ValueShown(d)
    BY DEF Plain, ValueShown
  <2> HIDE DEF d
  <2>3. QED
    BY <1>2, <2>1, <2>2, ActKeeps DEF d
<1>5. QED
  BY <1>1, <1>3, <1>4

LEMMA DeleteMessagesKeeps ==
    ASSUME IInv, NEW u \in Users, DeleteMessages(u)
    PROVE  IInv'
<1>1. PICK c \in Conversations, i \in DOMAIN log, action \in {Number(1), Number(2)} :
        /\ u \in MembersOf(c)
        /\ Act(u, c, [kind |-> "MessageDeleteEvent", delete_message_action |-> action,
                      sequence_ids |-> <<Number(i)>>], <<action, <<Number(i)>>>>)
  BY DEF DeleteMessages
<1> DEFINE d == [kind |-> "MessageDeleteEvent", delete_message_action |-> action,
                 sequence_ids |-> <<Number(i)>>]
           what == <<action, <<Number(i)>>>>
<1>2. Plain(d) /\ d.kind # "GroupMemberRemove" /\ what = ValueShown(d)
  BY DEF Plain, ValueShown
<1>3. c = Group \/ u \in PairUsers
  BY <1>1, MembersFit
<1> HIDE DEF d, what
<1>4. QED
  BY <1>1, <1>2, <1>3, ActKeeps DEF d, what

LEMMA MarkReadKeeps ==
    ASSUME IInv, NEW u \in Users, MarkRead(u)
    PROVE  IInv'
<1>1. PICK c \in Conversations, i \in DOMAIN log :
        /\ u \in MembersOf(c)
        /\ Act(u, c, [kind |-> "MarkConversationReadEvent",
                      seen_until_sequence_id |-> Number(i), seen_at_millis |-> Number(0)],
               <<Number(i), Number(0)>>)
  BY DEF MarkRead
<1> DEFINE d == [kind |-> "MarkConversationReadEvent",
                 seen_until_sequence_id |-> Number(i), seen_at_millis |-> Number(0)]
           what == <<Number(i), Number(0)>>
<1>2. Plain(d) /\ d.kind # "GroupMemberRemove" /\ what = ValueShown(d)
  BY DEF Plain, ValueShown
<1>3. c = Group \/ u \in PairUsers
  BY <1>1, MembersFit
<1> HIDE DEF d, what
<1>4. QED
  BY <1>1, <1>2, <1>3, ActKeeps DEF d, what

LEMMA ManageKeeps ==
    ASSUME IInv, NEW u \in Users, Manage(u)
    PROVE  IInv'
  BY ChangeKeyKeeps, CreateGroupKeeps, AddMembersKeeps, RemoveMembersKeeps, LeaveKeeps,
     ChangeAdminsKeeps, ChangeTextKeeps, ChangeAvatarKeeps, InvitesKeep,
     ChangeSettingsKeeps, DeleteMessagesKeeps, MarkReadKeeps DEF Manage

-----------------------------------------------------------------------------
(***************************************************************************)
(* Messages and replies.                                                   *)
(***************************************************************************)
ContentsSay(contents, asked) ==
    /\ asked.text = contents.text
    /\ asked.what = IF contents.entry = "message" THEN <<"message", contents.attachments>>
                    ELSE <<contents.entry, contents.target, contents.target_id>>

LEMMA MessageFits ==
    ASSUME IInv, NEW u \in Users, NEW c, NEW id, id # Null, NEW contents, NEW asked,
           ContentsSay(contents, asked),
           Quotes(contents.preview, asked.honest, log),
           NEW post, post = MessagePost(u, c, id, contents, asked)
    PROVE  PostFits(u, c, post, log) /\ post.detail.kind = "MessageCreateEvent"
<1> DEFINE version == Newest(u, c)
           key == ConversationKey(c, version)
           under == IF v1[u] THEN <<"message", key, u, id>> ELSE key
           uses == IF v1[u] THEN Number(1) ELSE Null
           sealed == Seal(Nonce(1, "contents"), under, contents)
           signed == ActionSignatureVersion(v1[u], CURRENT_SIGNATURE_VERSION)
<1>1. /\ post.detail = [kind |-> "MessageCreateEvent", conversation_key_version |-> version,
                        contents |-> sealed, contents_encryption_version |-> uses]
      /\ post.version = signed /\ post.asked = asked /\ post.id = id
  BY DEF MessagePost, ActionPost, Post
<1>2. signed \in MIN_SIGNATURE_VERSION .. MAX_SIGNATURE_VERSION
  BY ActionVersion, LegacyVersions
<1>3. Opens(sealed, under) /\ Opened(sealed) = contents
  BY SealedIs
<1>4. under = IF uses # Null THEN <<"message", key, u, id>> ELSE key
  BY NumberIs
<1>5. key = ConversationKey(c, version)
  OBVIOUS
<1> HIDE DEF sealed, signed, uses, version, key, under
<1>6. ASSUME NEW e, IsOf(e, u, c, post)
      PROVE  /\ Says(e) /\ IsMessage(e) /\ ~IsKeyChange(e)
             /\ Quotes(ContentsOf(e).preview, e.asked.honest, log)
  <2>1. /\ e.detail.kind = "MessageCreateEvent"
        /\ e.detail.conversation_key_version = version
        /\ e.detail.contents = sealed /\ e.detail.contents_encryption_version = uses
        /\ e.sender = u /\ e.conversation = c /\ e.asked = asked /\ e.id = id
    BY <1>1, <1>6 DEF IsOf
  <2>2. ContentsOf(e) = contents
    BY <1>3, <2>1 DEF ContentsOf
  <2>3. KeyOf(e) = key
    BY <1>5, <2>1 DEF KeyOf
  <2>4. ContentsKey(e, KeyOf(e)) = under
    BY <1>4, <2>1, <2>3 DEF ContentsKey, UsesMessageKey
  <2>5. IsMessage(e) /\ ~IsKeyChange(e)
    BY <2>1 DEF IsMessage, IsKeyChange
  <2>6. MessageSays(e)
    BY <1>3, <2>1, <2>2, <2>4 DEF MessageSays, ContentsSay
  <2>7. QED
    BY <2>1, <2>2, <2>5, <2>6 DEF Says
<1>7. QED
  BY <1>1, <1>2, <1>6 DEF PostFits, PostSays

LEMMA SendMessageKeeps ==
    ASSUME IInv, NEW u \in Users, NEW c \in Conversations, NEW spelled \in Spellings(u, c),
           NEW files, NEW contents, NEW asked,
           SendMessage(u, c, spelled, files, contents, asked),
           ContentsSay(contents, asked),
           Quotes(contents.preview, asked.honest, log)
    PROVE  IInv'
<1> DEFINE id == OutgoingId(u, c, spelled, Newest(u, c), files)
           post == MessagePost(u, c, id, contents, asked)
           P == {post}
           posts == <<post>>
<1>1. /\ u \in MembersOf(c)
      /\ Send(u, c, spelled, posts)
      /\ UNCHANGED <<members, keys, v1>>
  BY DEF SendMessage
<1>2. c = Group \/ u \in PairUsers
  BY <1>1, MembersFit
<1>3. id # Null
  BY NumberIs DEF OutgoingId, MediaId, Null
<1>4. post = MessagePost(u, c, id, contents, asked)
  OBVIOUS
<1> HIDE DEF id, post
<1>5. PostFits(u, c, post, log) /\ post.detail.kind = "MessageCreateEvent"
  BY <1>3, <1>4, MessageFits
<1>6. posts \in Seq(P)
  BY SequencesOf
<1>7. MembersAndFormats' /\ UNCHANGED keys
  BY <1>1 DEF IInv, TypeOK, MembersAndFormats
<1>8. /\ \A p \in P : PostFits(u, c, p, log) /\ ~IsKeyChange(p)
      /\ \A p \in P : p.detail.kind # "GroupMemberRemove"
  BY <1>5 DEF IsKeyChange
<1> HIDE DEF P, posts
<1>9. QED
  BY <1>1, <1>2, <1>6, <1>7, <1>8, QuietSendKeeps

LEMMA ItselfIsASpelling ==
    ASSUME NEW u, NEW c \in Conversations
    PROVE  c \in Spellings(u, c)
  BY DEF Conversations, Spellings, PairConversation, Pair

LEMMA NothingQuotes ==
    ASSUME NEW p, p = NoPreview, NEW honest
    PROVE  Quotes(p, honest, log)
<1>1. p.raw = 0
  BY DEF NoPreview
<1>2. QED
  BY <1>1 DEF Quotes

LEMMA SendTextKeeps ==
    ASSUME IInv, NEW u \in Users, NEW c \in Conversations, NEW text, NEW files,
           SendText(u, c, text, files)
    PROVE  IInv'
<1> DEFINE contents == [Contents("message", text) EXCEPT !.attachments = files]
           asked == Asked(<<"message", files>>, text)
<1>1. PICK spelled \in Spellings(u, c) : SendMessage(u, c, spelled, files, contents, asked)
  BY DEF SendText
<1>2. ContentsSay(contents, asked)
  BY DEF ContentsSay, Contents, Asked
<1>3. contents.preview = NoPreview /\ contents.entry = "message"
  BY DEF Contents
<1> HIDE DEF contents, asked
<1>4. Quotes(contents.preview, asked.honest, log)
  BY <1>3 DEF Quotes, NoPreview
<1>5. QED
  BY <1>1, <1>2, <1>4, SendMessageKeeps

\* What an event or explicit fields give is a conversation, spelled as its
\* canonical id.
LEMMA TargetIs ==
    ASSUME EventsFit, NEW u \in Users, NEW event \in {0} \cup Messages,
           NEW explicit \in ExplicitTargets, NEW target, target = Target(event, explicit),
           IsTarget(target)
    PROVE  /\ target.conversation \in Conversations
           /\ TargetSpellings(u, event, explicit) \subseteq Spellings(u, target.conversation)
<1>1. target.conversation = Or(explicit.conversation, EventGives(event).conversation)
  BY DEF Target
<1>2. CASE explicit.conversation # Null
  <2>1. explicit.conversation \in Conversations
    BY <1>2 DEF ExplicitTargets
  <2>2. QED
    BY <1>1, <1>2, <2>1 DEF Or, TargetSpellings
<1>3. CASE explicit.conversation = Null
  <2>1. target.conversation = EventGives(event).conversation
    BY <1>1, <1>3 DEF Or
  <2>2. event # 0
    BY <2>1 DEF IsTarget, EventGives
  <2>3. target.conversation = log[event].conversation /\ event \in DOMAIN log
    BY <2>1, <2>2 DEF EventGives, Messages
  <2>4. target.conversation \in Conversations
    BY <2>3 DEF EventsFit, EventFits
  <2>5. QED
    BY <1>3, <2>1, <2>4, ItselfIsASpelling DEF TargetSpellings
<1>4. QED
  BY <1>2, <1>3

LEMMA SendEditKeeps ==
    ASSUME IInv, NEW u \in Users, NEW text, NEW event \in {0} \cup Messages,
           NEW explicit \in ExplicitTargets, SendEdit(u, text, event, explicit)
    PROVE  IInv'
<1> DEFINE target == Target(event, explicit)
           c == target.conversation
           id == IF v1[u] THEN target.id ELSE Null
           contents == [Contents("edit", text) EXCEPT !.target = target.sequence,
                                                      !.target_id = id]
           asked == Asked(<<"edit", target.sequence, id>>, text)
<1>1. /\ IsTarget(target)
      /\ \E spelled \in TargetSpellings(u, event, explicit) :
            SendMessage(u, c, spelled, {}, contents, asked)
  BY DEF SendEdit
<1>2. c \in Conversations /\ TargetSpellings(u, event, explicit) \subseteq Spellings(u, c)
  BY <1>1, TargetIs DEF IInv
<1>3. ContentsSay(contents, asked)
  BY DEF ContentsSay, Contents, Asked
<1>4. contents.preview = NoPreview
  BY DEF Contents
<1> HIDE DEF c, contents, asked
<1>5. Quotes(contents.preview, asked.honest, log)
  BY <1>4, NothingQuotes
<1>6. QED
  BY <1>1, <1>2, <1>3, <1>5, SendMessageKeeps

LEMMA ReactKeeps ==
    ASSUME IInv, NEW u \in Users, NEW entry \in {"reaction", "no reaction"},
           NEW event \in {0} \cup Messages, NEW explicit \in ExplicitTargets,
           React(u, entry, event, explicit)
    PROVE  IInv'
<1> DEFINE target == Target(event, explicit)
           c == target.conversation
           contents == [Contents(entry, Null) EXCEPT !.target = target.sequence]
           asked == Asked(<<entry, target.sequence, Null>>, Null)
<1>1. /\ IsTarget(target)
      /\ \E spelled \in TargetSpellings(u, event, explicit) :
            SendMessage(u, c, spelled, {}, contents, asked)
  BY DEF React
<1>2. c \in Conversations /\ TargetSpellings(u, event, explicit) \subseteq Spellings(u, c)
  BY <1>1, TargetIs DEF IInv
<1>3. ContentsSay(contents, asked)
  BY DEF ContentsSay, Contents, Asked
<1>4. contents.preview = NoPreview
  BY DEF Contents
<1> HIDE DEF c, contents, asked
<1>5. Quotes(contents.preview, asked.honest, log)
  BY <1>4, NothingQuotes
<1>6. QED
  BY <1>1, <1>2, <1>3, <1>5, SendMessageKeeps

\* The key a preview carries is a message key of its event, and when it opened
\* the event, the one of its contents.
LEMMA CarriedIs ==
    ASSUME NEW u, NEW c, NEW version, NEW e, NEW key, key = QuotingKey(u, c, version, e)
    PROVE  CarriesOnly(Carried(e, key), e)
<1>1. CASE UsesMessageKey(e)
  <2>1. key = Null \/ \E k : key = ContentsKey(e, k)
    BY DEF QuotingKey
  <2>2. key = Null \/ \E k : key = <<"message", k, e.sender, e.id>>
    BY <1>1, <2>1, ContentsKeyIs
  <2>3. QED
    BY <1>1, <2>2 DEF CarriesOnly, Carried
<1>2. CASE ~UsesMessageKey(e)
  BY <1>2 DEF CarriesOnly, Carried
<1>3. QED
  BY <1>1, <1>2

LEMMA CarriedOpens ==
    ASSUME EventsFit, NEW i \in MessagesOf(log), NEW e, e = log[i],
           NEW key, NEW entry, OpensAs(e, key, entry)
    PROVE  CarriesRight(Carried(e, key), e, entry)
<1>1. Opens(e.detail.contents, ContentsKey(e, KeyOf(e)))
  BY MessageIs DEF MessageSays
<1>2. key = ContentsKey(e, KeyOf(e))
  BY <1>1 DEF OpensAs, Opens
<1>3. QED
  BY <1>2 DEF CarriesRight, Carried, OpensAs

LEMMA PreviewQuotes ==
    ASSUME EventsFit, NEW u \in Users, NEW c, NEW raw \in Messages,
           NEW edit \in {0} \cup Messages, NEW claims, PreviewIsBuilt(u, c, raw, edit, claims),
           NEW p, p = BuiltPreview(u, c, raw, edit, claims)
    PROVE  Quotes(p, claims = NoClaims, log)
<1> DEFINE key(i) == QuotingKey(u, c, Newest(u, c), log[i])
           quoted == ContentsOf(log[IF edit = 0 THEN raw ELSE edit])
<1>1. /\ p.raw = raw /\ p.edit = edit
      /\ p.sender = Or(claims.sender, log[raw].sender)
      /\ p.sequence = Or(claims.sequence, Number(raw))
      /\ p.id = log[raw].id
      /\ p.text = Or(claims.text, quoted.text)
      /\ p.attachments = Or(claims.attachments, <<"files", ContentsOf(log[raw]).attachments>>)
      /\ p.key = Carried(log[raw], key(raw))
      /\ p.edit_key = IF edit = 0 THEN Null ELSE Carried(log[edit], key(edit))
  BY DEF BuiltPreview
<1>2. raw \in MessagesOf(log) /\ edit \in {0} \cup MessagesOf(log)
  BY DEF Messages, MessagesOf
<1>3. CarriesOnly(p.key, log[raw])
  BY <1>1, CarriedIs
<1>4. IF edit = 0 THEN p.edit_key = Null ELSE CarriesOnly(p.edit_key, log[edit])
  BY <1>1, CarriedIs
<1>5. ASSUME claims = NoClaims
      PROVE  /\ p.sender = log[raw].sender
             /\ p.sequence = Number(raw)
             /\ p.id = log[raw].id
             /\ p.text = quoted.text
             /\ p.attachments = <<"files", ContentsOf(log[raw]).attachments>>
             /\ CarriesRight(p.key, log[raw], "message")
             /\ edit # 0 => CarriesRight(p.edit_key, log[edit], "edit")
  <2>1. /\ claims.sender = Null /\ claims.sequence = Null
        /\ claims.text = Null /\ claims.attachments = Null
    BY <1>5 DEF NoClaims
  <2>2. /\ OpensAs(log[raw], key(raw), "message")
        /\ edit # 0 => OpensAs(log[edit], key(edit), "edit")
    BY <2>1 DEF PreviewIsBuilt, NeedsOriginal
  <2>3. /\ p.sender = log[raw].sender
        /\ p.sequence = Number(raw)
        /\ p.id = log[raw].id
        /\ p.text = quoted.text
        /\ p.attachments = <<"files", ContentsOf(log[raw]).attachments>>
    BY <1>1, <2>1 DEF Or
  <2>4. CarriesRight(p.key, log[raw], "message")
    BY <1>1, <1>2, <2>2, CarriedOpens
  <2>5. edit # 0 => CarriesRight(p.edit_key, log[edit], "edit")
    BY <1>1, <1>2, <2>2, CarriedOpens
  <2>6. QED
    BY <2>3, <2>4, <2>5
<1> HIDE DEF key
<1>6. CASE edit = 0
  BY <1>1, <1>2, <1>3, <1>4, <1>5, <1>6 DEF Quotes
<1>7. CASE edit # 0
  BY <1>1, <1>2, <1>3, <1>4, <1>5, <1>7 DEF Quotes
<1>8. QED
  BY <1>6, <1>7

LEMMA ReplyKeeps ==
    ASSUME IInv, NEW u \in Users, NEW c \in Conversations, NEW text, NEW preview, NEW claims,
           Reply(u, c, text, preview, claims), Quotes(preview, claims = NoClaims, log)
    PROVE  IInv'
<1> DEFINE contents == [Contents("message", text) EXCEPT !.preview = preview]
           asked == [Asked(<<"message", {}>>, text) EXCEPT !.honest = (claims = NoClaims)]
<1>1. SendMessage(u, c, c, {}, contents, asked)
  BY DEF Reply
<1>2. ContentsSay(contents, asked)
  BY DEF ContentsSay, Contents, Asked
<1>3. contents.preview = preview /\ contents.entry = "message"
  BY DEF Contents
<1>4. asked.honest = (claims = NoClaims)
  BY DEF Asked
<1> HIDE DEF contents, asked
<1>5. Quotes(contents.preview, asked.honest, log)
  BY <1>3, <1>4
<1>6. c \in Spellings(u, c)
  BY ItselfIsASpelling
<1>7. QED
  BY <1>1, <1>2, <1>5, <1>6, SendMessageKeeps

LEMMA RepliesKeep ==
    ASSUME IInv, NEW u \in Users, NEW c \in Conversations, NEW text, NEW claims,
           \/ \E raw \in Messages, edit \in {0} \cup Messages :
                 SendReply(u, c, text, raw, edit, claims)
           \/ SendBareReply(u, c, text, claims)
    PROVE  IInv'
<1>1. ASSUME NEW raw \in Messages, NEW edit \in {0} \cup Messages,
             SendReply(u, c, text, raw, edit, claims)
      PROVE  IInv'
  <2> DEFINE preview == BuiltPreview(u, c, raw, edit, claims)
  <2>1. PreviewIsBuilt(u, c, raw, edit, claims) /\ Reply(u, c, text, preview, claims)
    BY <1>1 DEF SendReply
  <2>2. Quotes(preview, claims = NoClaims, log)
    BY <2>1, PreviewQuotes DEF IInv
  <2> HIDE DEF preview
  <2>3. QED
    BY <2>1, <2>2, ReplyKeeps
<1>2. ASSUME SendBareReply(u, c, text, claims)
      PROVE  IInv'
  <2> DEFINE preview == [NoPreview EXCEPT !.sequence = claims.sequence]
  <2>1. Reply(u, c, text, preview, claims)
    BY <1>2 DEF SendBareReply
  <2>2. preview.raw = 0
    BY DEF NoPreview
  <2> HIDE DEF preview
  <2>3. Quotes(preview, claims = NoClaims, log)
    BY <2>2 DEF Quotes
  <2>4. QED
    BY <2>1, <2>3, ReplyKeeps
<1>3. QED
  BY <1>1, <1>2

LEMMA TalkKeeps ==
    ASSUME IInv, NEW u \in Users, Talk(u)
    PROVE  IInv'
<1>1. CASE \E c \in Conversations, text \in Texts :
              \E files \in SUBSET Files : SendText(u, c, text, files)
  BY <1>1, SendTextKeeps
<1>2. CASE \E c \in Conversations, text \in Texts :
              \/ \E raw \in Messages, edit \in {0} \cup Messages, claims \in Claims :
                    SendReply(u, c, text, raw, edit, claims)
              \/ \E claims \in Claims : SendBareReply(u, c, text, claims)
  BY <1>2, RepliesKeep
<1>3. CASE \E event \in {0} \cup Messages, explicit \in ExplicitTargets, text \in Texts :
              SendEdit(u, text, event, explicit)
  BY <1>3, SendEditKeeps
<1>4. CASE \E event \in {0} \cup Messages, explicit \in ExplicitTargets,
              entry \in {"reaction", "no reaction"} : React(u, entry, event, explicit)
  BY <1>4, ReactKeeps
<1>5. QED
  BY <1>1, <1>2, <1>3, <1>4 DEF Talk

-----------------------------------------------------------------------------
(***************************************************************************)
(* Receiving, and the theorems.                                            *)
(***************************************************************************)
LEMMA ReceiveKeeps ==
    ASSUME IInv, NEW u \in Users, ReceiveKeyChange(u)
    PROVE  IInv'
<1>1. PICK i \in DOMAIN log :
        /\ IsKeyChange(log[i]) /\ Receives(log[i], u)
        /\ keys' = [keys EXCEPT ![u] = @ \cup {KeyOf(log[i])}]
        /\ UNCHANGED <<log, members, v1>>
  BY DEF ReceiveKeyChange
<1>2. KeyOf(log[i]) \in AllKeys
  BY <1>1 DEF IInv, EventsFit, EventFits
<1>3. TypeOK'
  BY <1>1, <1>2 DEF IInv, TypeOK, Logged
<1>4. EventsFit'
  BY <1>1 DEF IInv, EventsFit
<1>5. RemovedGetNoKey'
  <2>1. \A w \in Users : keys[w] \subseteq keys'[w]
    BY <1>1 DEF IInv, TypeOK
  <2>2. ASSUME NEW j \in DOMAIN log, NEW w \in Users, Removes(log[j], w),
               RemovalKey(log[j]) \notin keys[w],
               \A k \in DOMAIN log :
                  IsKeyChange(log[k]) /\ KeyOf(log[k]) = RemovalKey(log[j])
                    => ~Receives(log[k], w)
        PROVE  RemovalKey(log[j]) \notin keys'[w]
    <3>1. CASE w = u
      <4>1. KeyOf(log[i]) # RemovalKey(log[j])
        BY <1>1, <2>2, <3>1
      <4>2. keys'[w] = keys[w] \cup {KeyOf(log[i])}
        BY <1>1, <3>1 DEF IInv, TypeOK
      <4>3. QED
        BY <2>2, <4>1, <4>2
    <3>2. CASE w # u
      BY <1>1, <2>2, <3>2 DEF IInv, TypeOK
    <3>3. QED
      BY <3>1, <3>2
  <2>3. QED
    BY <1>1, <2>1, <2>2 DEF IInv, RemovedGetNoKey
<1>6. QED
  BY <1>3, <1>4, <1>5 DEF IInv

LEMMA InitFits == Init => IInv
<1> SUFFICES ASSUME Init
             PROVE  IInv
  OBVIOUS
<1>1. log = <<>> /\ DOMAIN log = {}
  BY DEF Init
<1>2. log \in Seq(Logged)
  BY <1>1
<1>3. TypeOK
  BY <1>2 DEF Init, TypeOK
<1>4. QED
  BY <1>1, <1>3 DEF IInv, EventsFit, RemovedGetNoKey

LEMMA NextKeeps == IInv /\ [Next]_vars => IInv'
<1> SUFFICES ASSUME IInv, [Next]_vars
             PROVE  IInv'
  OBVIOUS
<1>1. ASSUME NEW u \in Users, Manage(u)
      PROVE  IInv'
  BY <1>1, ManageKeeps
<1>2. ASSUME NEW u \in Users, Talk(u)
      PROVE  IInv'
  BY <1>2, TalkKeeps
<1>3. ASSUME NEW u \in Users, ReceiveKeyChange(u)
      PROVE  IInv'
  BY <1>3, ReceiveKeeps
<1>4. ASSUME NEW u \in Users, SwitchFormat(u)
      PROVE  IInv'
  BY <1>4 DEF SwitchFormat, IInv, TypeOK, Logged, EventsFit, RemovedGetNoKey
<1>5. CASE UNCHANGED vars
  BY <1>5 DEF vars, IInv, TypeOK, Logged, EventsFit, RemovedGetNoKey
<1>6. QED
  BY <1>1, <1>2, <1>3, <1>4, <1>5 DEF Next

\* The invariant holds in every state of every session.
THEOREM SessionInvariant == Spec => []IInv
  BY InitFits, NextKeeps, PTL DEF Spec

\* Every event verifies at every user who has its key, and shows what its
\* caller asked for, to those who hold its key and to no other, whatever the
\* spelling, the optional arguments and the formats of the two ends
\* (sign_event against verify_event_signature, group_text).
THEOREM EventsSurface == Spec => []SurfacesWhatWasAsked
<1>1. IInv => SurfacesWhatWasAsked
  BY Surfaces
<1>2. QED
  BY <1>1, SessionInvariant, PTL

\* A preview the SDK derived is valid to everyone who can read the reply and
\* has the keys of what it quotes in v0 (build_reply_preview against
\* validate_reply_preview).
THEOREM RepliesAreValid == Spec => []HonestRepliesAreValid
<1>1. IInv => HonestRepliesAreValid
  BY HonestReplies
<1>2. QED
  BY <1>1, SessionInvariant, PTL

\* A preview that is valid to anyone quotes a message of the conversation as it
\* was asked for, by the sender it names, or an edit of that message by its
\* author (validate_reply_preview).
THEOREM QuotesAreTrue == Spec => []PreviewsQuoteTruly
<1>1. IInv => PreviewsQuoteTruly
  BY QuotedTruly
<1>2. QED
  BY <1>1, SessionInvariant, PTL

\* The key a removal changes to never reaches those it removes, and the keys
\* that replies carry open nothing but what they quote
\* (prepare_group_members_remove, build_reply_preview).
THEOREM KeysStayInside == Spec => []KeysStayWithMembers
<1>1. IInv => KeysStayWithMembers
  BY KeysStay
<1>2. QED
  BY <1>1, SessionInvariant, PTL
=============================================================================

# chat-xdk in TLA+

A verification development of the chat SDK: what its core promises about keys,
signature versions, feature switches and files when any number of threads,
callbacks and failures interleave, what the events of its users say to one another,
and what it reads from bytes it did not write. The modules model the Rust core
(`src/crates/core/src`), and the parts of the language bindings that take part in
its state machines. TLC checks small instances; TLAPS proves the main invariants
for every value of the constants.

Contents: [the system](#the-system), [plan](#plan), [modules](#the-modules-and-the-code),
[runs](#runs), [fairness](#fairness), [proofs](#proofs),
[divergences](#where-code-and-documentation-differ), [not modelled](#what-is-not-modelled).

## The system

A program holds one or more `Chat` objects. A `Chat` wraps a `ChatCore` (all the
cryptography and the client's state), a Juicebox configuration and a Juicebox
client. Both are used through shared references: every method may run on any
thread, and in JavaScript between any two awaits. There is no central loop; the
state is a handful of cells, each behind a lock of its own.

| component | state | operations | what makes it correct |
|---|---|---|---|
| conversation keys (`core/decrypt.rs`, `core.rs`) | high water per conversation (RwLock), key cache (RwLock), `cache_keys` (atomic) | `decrypt_events`, `set_cache_keys`, key resolution in the encrypt methods | only signed keys are cached; nothing goes back to an older key; disabling leaves nothing behind |
| signature floor (`core/signing.rs`, `core/conversation.rs`) | highest signature version per conversation (RwLock) | `prepare_*`, verification of delivered key changes, the v1 switch | no key change is signed below an earlier one; no version the instance itself would reject; one format per call |
| feature switches (`features.rs`, `bindings.rs`, the bindings) | per chat: URL, flag cell; per process: the read of each URL | `set_identity`, `start_features`, `set_feature_switches`, completing, abandoning and expiring reads | one shared read per URL that is really performed; late answers change nothing; everyone hears the latest; reads stop when nobody waits |
| account keys and Juicebox (`keys/keypair_manager.rs`, `chat.rs`) | identity key, signing key, version (one RwLock); the configuration (RwLock); the copy Juicebox stores | `generate_keypairs`, `import_keys`, `set_identity`, `lock`, `setup`, `unlock`, `change_pin`, `delete`, `update_config` | pairs are never mixed; the PIN changes only against the old one; the version belongs to the keys; stored keys survive a PIN change |
| file streams (`crypto/encryption.rs`) | buffers and counters of one encryptor or decryptor | `push`, `finish`, `encrypted_file_size` | framing independent of the pushes; a damaged, cut, extended or reordered file is not taken for the file |
| event verification (`signatures.rs`, `core.rs`) | none | the payload of each kind and version, accepted versions | what one side signs the other verifies, however each spells and formats it |
| event decryption, reply previews (`core/decrypt.rs`, `pipeline.rs`) | reads the key state | `decrypt_event(s)` | a preview claims no more than the message it quotes |
| sending (`core/encrypt.rs`, `pipeline.rs`) | reads the key state | `encrypt_*`, `prepare_*` | under the newest key known; a reply carries the keys its quote needs and no other |
| group actions (`core/group_actions/*`) | none; rosters are the caller's | `prepare_group_*` | new keys reach the members only; titles stay readable |
| media keys (`core/media.rs`, `crypto/message_keys.rs`) | none | `encrypt_file`, `decrypt_file` key choice | the right attachment's key, or an error |
| safe Thrift reader (`protocol/safe_reader.rs`) | the elements reserved so far | reading untyped input | bounded memory on any input |
| generated Thrift types (`thrift/*.rs`) | none | reading and writing 141 types | a newer peer's additions are skipped, at any depth; nothing ill-formed is returned |
| primitives, parameters, errors | none | | assumed ideal, or plain data |
| bindings (`ffi`, `go`, `pyo3`, `wasm`, `jvm`, `dotnet`) | handles, feature-fetch schedulers | the same calls; GETs with timers | a fetch is begun, or abandoned; none after the chat is gone |

Interaction. `decrypt_events` writes the conversation-key state and the signature
floor; the encrypt and prepare methods read them. `set_identity` sets both the
key version (account keys) and the user, hence the URL of the feature switches; an
answer of the switches turns the v1 send format on, which the signature floor's
calls read. Bindings perform the GETs the core asks for and hand the results back
through `complete_fetch`. Events of one user reach another through the X API, and a reply
embeds the events it quotes; both ends must build the same payload for a signature
from what each of them knows. Between components, state is only ever read under a
lock that is released before the value is used; that is where the hard behaviours
are: check-then-act across two locks, values carried over an `await`, answers that
arrive after what they answer was replaced, and calls that fail half way.
`PROJECT.json` lists these hazards, each at its line, with the properties that
would catch it.

## Plan

The order is by what a silent failure costs: keys and signatures first.

1. *Done.* `VerifiedKeyStore` (abstract), `ConversationKeys` implementing it, with proofs.
2. *Done.* `SignatureFloor`, with proofs.
3. *Done.* `FeatureSwitches`: safety proved, liveness model-checked.
4. *Done.* `KeyLifecycle`, with proofs of its three concurrent properties, and of the
   two that hold when calls take turns.
5. *Done.* `FileStream`, all of its properties proved. *Next:* the choice of a file's
   key from a message (`core/media.rs`).
6. *Done.* `ThriftTypes`, the three schemas, `ThriftReader` and `ThriftWriter`, all
   of their properties proved.
7. *Done.* `EventSignatures` and `ChatSession`: payloads, sending, group actions, reply
   previews and what the other users see, with proofs of all properties. *Next:* forwarded messages and attachments of
   attachments.
8. The bindings' fetch schedulers (Go, pyo3, JavaScript, JVM, .NET): a timer, a GET and
   a close that race, shown to implement the `BeginGet`/`AbandonGet`/`Complete`
   steps of `FeatureSwitches`; then the C ABI's handles.
9. A composition of `KeyLifecycle`'s identity with `FeatureSwitches` and the v1
   switch of `SignatureFloor`, and of `ChatSession` with the high water of `ConversationKeys`.

Abstract specifications worth stating: `VerifiedKeyStore` (done); a monotone register
per conversation for the signature floor; one atomic flag per URL for the feature
switches; a PIN-guarded cell for Juicebox.

## The modules and the code

`PROJECT.json` ("map") names the lines of every definition. One action is one
critical section, one atomic access, one effect outside the process, or the
computation between two of them.

### ConversationKeys, VerifiedKeyStore

A thread's `decrypt_events` is five steps. `DecryptEvents` extracts and enforces
keys, which depends on the arguments only (and on the private and signing keys,
which `lock` or `set_signing_keys` may change meanwhile: the subsets `opened` and
`trusted` say which events decrypt and verify). `RaiseHighWater` is the
high-water lock. `CheckCacheEnabled` is the first load of `cache_keys`,
`FillCache` the cache lock with the second load, `ReportLatest` the read of
`latest_version`. `EnableCache`, `DisableCache` and `ClearCache` are
`set_cache_keys`: the store and the clear are separate. `BeginResolve` and
`Resolve` are `resolve_conversation_key`.

Abstractions: a batch is the sequence of its key changes and other events, each reduced
to what it opens, what its signature covers, its signature format and whether its
sequence number is enforced. Its version is a spelling: `NumberOf` is `str::parse`, by
which "01" is 1, and `Spelled` is `u64::to_string`. As in the code, the adopted keys are
kept by spelling, what verified and the high water by number, and the cache is filled with
the key adopted at `Spelled` of the number (`KeyAt`). Arguments with another spelling are
rejected. Key changes without a conversation id are left out; one with a version
that is no number (`NoVersion`) is adopted and enforced and counts no further. The second decryption pass only reads this state. The atomics are
`Relaxed`, but each is read or written beside a lock whose order decides the outcome.

`VerifiedKeyStore` has no threads: a high water that rises to signed versions, a
cache whose entries enter at the high water, with a key that was signed for it or one
that displaced such a key (`Displaces`: its batch spells the version twice), and a clear.
`KeepsPromise` instantiates it with `highWater` and `cache` of `ConversationKeys`.

### SignatureFloor

`Prepare` reads the send format, `ChooseVersion` the floor, `SignKeyChange` signs,
`RaiseFloor` records; group calls sign an action with it (`SignAction`,
`ReturnBoth`). `Verify` and `RaiseFloor` are the recording of a delivered key change
whose signature verified. `SwitchSendFormat` is the feature switch. `recorded`,
`settled` and `required` are history. Conversation ids are canonical; versions below 6
cannot verify and leave no trace.

### FeatureSwitches

`Create`, `SetIdentity`, `Drop` are a chat's life; `StartFeatures` and `Join` are
`start_features`, which holds the chat's `features` lock throughout (`Unlocked`) and
`REQUESTS` in the middle. `BeginGet` and `AbandonGet` are the bindings; `Complete`
is `complete_fetch`; `Expire` is the passing of a deadline; `ServerChanges` the
server. A cell is an `Arc<Flags>`; the reads' weak references are the cell
numbers in `chats`. Read ids and cells come from finite pools: an id is free when no
read, GET or thread has it (the code's counter never repeats), and weak
references to a dead cell are dropped when the cell is used again (in the code they
stay dead). Clocks, delays and the failure count are left out: an interval
may end at any time. An answer is told apart by its URL and the server's epoch.

### KeyLifecycle

A key pair stands for an identity key, the signing key generated with it and the version
both are registered under; callers are taken to pass the right version. The
methods of `KeypairManager` are one step each; `import_keys` with a version is two.
`Setup`, `Unlock`, `ChangePin`, `Delete` start a call, `RecoverSecret`,
`RegisterSecret` and `DeleteKeys` are effects at Juicebox, the `FailTo...` actions
its failures, where a registration or a deletion may have taken effect and its
answer been lost. Reading the configuration and exporting the keys commute, and are
one step. PIN strength and the guess budget are left out, as are calls that only read.

### FileStream

`EncryptorPush`, `EncryptorFinish`, `DecryptorPush`, `DecryptorFinish` are the four
methods, each whole; the loops are the number of chunks or frames they drain.
`Deliver` is what storage may do: lose, repeat or exchange ranges, damage a byte, append.
The secret stream is ideal. `encrypt_file`, `decrypt_file` and `decrypt_media` push
particular pieces and are included. A caller stops at the first error.

### ThriftTypes, TreeSchema, EventSchema, ContentSchema, ThriftReader, ThriftWriter

The three schemas are the generated types as data: kind, field ids, wire types, and
which fields are required. All generated readers have one of a few shapes, so
`ThriftReader` has one action per read those make: `ReadField`, `EndStruct` and `EndUnion`
for the field loops, `ReadScalar`, `BeginStruct` and `BeginContainer` for values, and
`EndContainer`; `OutOfBytes` is a read that finds nothing of the kind it looks for, and the other
refusals are branches of these actions. The call stack of the generated functions is `stack`; `total` is
`total_elements` of `BoundedProtocol`. Reading a union of an unknown variant gives
nothing, which a field, an element and an outer union each treat in their own way
(`Taken...`). `ThriftWriter` is the generated writers, and those of a peer whose schema has
one more field in every struct and one more variant in every union. What a writer writes of a value
depends on what it writes of its parts: `Writes` states that recursion, and the constant
`Write` is any function it holds of (`WriteAssumption`), on the set `Values` of values, which has
with a value all it holds. The run takes `Writes` itself for it, and TLC checks the assumption on
every value of the run.
`Types` is the schema; `IsSchema` says what the generated code relies on: fields have
names and ids of their own, and maps keys of one piece. `NewerAssumption` says that the field a newer
peer adds has an id no field of this schema has. `WellFormed` looks at what a value
holds level by level, to `MaxNesting`: no value of the runs has more than 12.
Scalars are told apart by numbers; how they are encoded, and strings' own limit, are left out.

### EventSignatures, ChatSession

`EventSignatures` has the payload of each event kind at each version, over components
that are values with a tag for their kind: absent, zero, empty and a number are different,
as they are in the text the code signs. A component that holds a comma has no payload.

`ChatSession` has one action per call of the API that sends: fifteen that manage
conversations (key changes, members, admins, texts, avatar, invites, settings, deletes,
read marks), messages, edits, reactions and replies. Each reads the format once, takes the
newest key the app holds, seals, signs every event of the call at its version, and appends them
to `log`, the X API's order; a call whose payload cannot be built appends nothing.
`Shown` is what `decrypt_event` returns of an event to a user with given keys,
`QuoteIsValid` is `validate_reply_preview` with `open_quoted_event`, `BuiltPreview` is
`build_reply_preview`. `asked` of an event is history: what its caller wanted shown.
Edits and reactions take the conversation and the sequence id of their message from
explicit fields or from an event (`Target`), and an edit its signed id too: the fields may
be those of different messages, only two ids must agree (`SameMessageId`). So what a quoted
v1 message and its edit have in common is the signed id.

The X API is taken to be an honest relay: it stores an event once, under the
canonical id, and delivers it unchanged; what it does to signatures otherwise is no
concern of this module. Signing keys are known to all. An app passes rosters and spellings
as apps do: the one from before a removal, the pair in either order, the other user's bare id,
empty text and negative durations for what a binding cannot leave out. Folded
together: a text and its entities; key changes embedded in a reply
(`reply_to_ckces`) and the delivery of the same key change (`ReceiveKeyChange`).
Random message ids are places in the log; only the ids of v1 messages with files are
derived, and so repeat when the message is built again. The versions a floor raises
key changes to are in `SignatureFloor`, and the rules by which a key is cached in
`ConversationKeys`.

## Runs

| run | instance | what it shows |
|---|---|---|
| `conversation_keys` | 2 threads, 2 conversations, versions 0-1 in 3 spellings, 2 keys, 3 batches of which any events open and verify | cached and reported versions are signed, and cached keys unless one displaced the signed one; a stale entry lasts only while the call that supersedes it runs, but for a respelled version; disabling empties it; reports and resolutions never go back; every step implements `VerifiedKeyStore` |
| `signature_floor` | 2 threads, 2 conversations, delivered versions 6, 11, 12 | no recording is lost; none signs below what was settled before it began; only accepted versions; one format per call |
| `signature_downgrade` | the same | *violation*, below |
| `feature_reads` | 2 threads, 2 chats, 2 URLs, 2 read ids, and either chats that move between URLs or one change of a server's answer | a joinable read has a GET; flags never go back; no read for nobody; a chat waits exactly at its URL, holds its latest answer, and ends at the URL of the identity set last |
| `reads_go_on` | 1 thread, 2 chats, 1 URL, one change of answer, with fairness | reads stop; every chat hears the server's last answer |
| `account_keys` | 3 pairs, 2 PINs, 2 configurations, 2 calls at once or 1 at a time | pairs are not mixed; the PIN changes against the old one only; the version and what is stored are of the loaded keys when calls do not overlap |
| `version_race`, `change_pin_race`, `config_change` | 2 calls; a call and a change of configuration | *violations*, below |
| `thrift_reader` | values of all 141 types, each field alone and all together; containers of 0 elements up to one more than the limit; written by a peer of this or a newer schema, or up to 5 damaged reads of five types that have every kind of frame; at most 2 elements in a container and 12 in a pass | exactly the known part is returned, well formed; reserves stay within the limit of a pass |
| `chat_session` | 3 users, a group and a conversation of two, 2 key versions, either send format, at most 6 events: two management calls, or talk of up to four calls that ends in a reply | events verify and show what was asked; derived quotes are valid; valid quotes are true; keys stay with those they are for |
| `file_stream` | chunk 2, overhead 1, header 2, files to 5 bytes, any pieces | framing, size, order, completeness, acceptance |

Why the bounds are enough. The interesting races are between two critical sections
of one call and one of another, so two threads show them; for `ConversationKeys`, where two
fillers and a switcher may meet, the proofs cover any number. Two versions and two keys
suffice for older/newer and right/wrong; the batches include a replay, a key change nobody
signed, one too old to verify, two conversations sharing a version, and one version in two spellings. Two URLs are a
move; two read ids are an old read and its replacement.
Three users are two members and one who joins or is
removed. In talk of four calls a message, a change of format, an edit and a join precede the
reply, which is every case `build_reply_preview` distinguishes, and an edit may give the
sequence id of another message than its event's; replies that claim something
of their own come after at most two calls. The parts of `feature_reads`,
`account_keys`, `thrift_reader` and `chat_session` are chosen in the initial state, by a
variable: who calls is `callers` of `KeyLifecycle`, the others are of the MC modules.
Three pairs allow one in memory, one at Juicebox and one on its way. Five bytes
in chunks of two give empty, partial, exact and several-chunk files. Symmetry is over
threads, chats, pairs and PINs, and is not used in the liveness run. Deadlock is
checked except in `file_stream`, where accepting or refusing a file ends it,
and in `chat_session`, where the last call does; a pass of `ThriftReader` that has ended stays so (`Done`).

## Fairness

Only `reads_go_on` assumes any. A thread in `start_features` goes on (it waits for locks
only); every GET ends, since the bindings give it a timeout; the binding begins a GET
it was handed before its deadline, which is its delay and 2 s: 2 s in all for the first read of a
URL, up to five minutes and 2 s for a later one (`schedule`); and the server answers some read of
each URL in time again and again, strongly fair because a late answer disables
it: without that no client can hear anything. Nothing is assumed of chats being
created, moved or dropped, of the server changing, or of failures ending.

## Proofs

Assumptions are the named `ASSUME`s on the constants only; threads, conversations,
versions, keys, batches, pairs and PINs are arbitrary.

* `ConversationKeysProofs`. All safety properties of the run, the monotonicity
  properties, that all that is held or reported rests on signed key changes (`OnlySigned`), that
  nothing goes back (`NeverRegresses`), and refinement of `VerifiedKeyStore`. The run's
  invariants are not inductive: a thread carries versions and keys between two locks. `IInv` adds that
  what a thread verified was signed, the key it will look up that key or one that displaces it
  (`CarriesBacked`), and already raised when it reaches the
  cache (`CarriesRaised`), that the high water is signed, and that reports, cache
  and resolutions lie below it. Refinement maps `RaiseHighWater` to `Raise`, `FillCache`
  to `Publish`, the clears to `Clear`, and everything else to a stutter. `UsualSpellingsSuffice`:
  where no signed version is spelled otherwise, the documented claims `OnlySignedKeysEnter`
  and `CacheFollowsHighWater` hold; what refutes them is [below](#where-code-and-documentation-differ).
* `SignatureFloorProofs`. All invariants of the run. `IInv` adds that the floor covers
  what was settled, that a version chosen follows the format read, and which fields are
  set at each step of a call.
* `KeyLifecycleProofs`. `TypeOK`, `NeverMixesPairs`, `PinChangeNeedsOldPin`, from what a
  call holds at each step (`CallFits`): whoever registers came from `setup`
  or was let in by the old PIN. Under `InTurn` (one thread at most calls) also what
  `version_race` and `change_pin_race` refute for two: `VersionInTurn` and
  `StoredKeysSurviveInTurn`. `Undisturbed` says that what a call has read is still
  so at its next step.
* `FeatureSwitchesProofs`. All safety properties of `feature_reads`. Three facts that no
  single lock keeps carry the proof, and are the parts `IInv` adds: ids of reads and
  of their GETs are unique, and a GET is of the URL of its read (`IdsFit`: that is why a
  late GET changes nothing); the answer a read holds is no later than what its
  next GET began with (`AnswersFit`: hence `FlagsNeverGoBack`); and who waits holds
  the read's answer, who waits nowhere none (`FlagsFit`: hence `SharesLatestAnswer`). A chat's
  flags are its own (`CellsFit`), which takes one more cell than there are chats: that
  there is a free one is a counting argument. `UrlsAssumption` says that the marks for
  "no URL" and for flags of no server are not URLs.

* `FileStreamProofs`, over `SequenceFacts` (sequences). All invariants of `file_stream`, for plaintexts,
  pushes, chunks, tags, headers and appended bytes of any size (`SizesAssumption`: they
  are numbers, and a chunk, a tag and a header are not empty). `IInv` says that what
  is written is the header and the first whole chunks of the plaintext pushed, and
  `buf` the rest of it (`EncryptorFits`, `FileIsWritten`); that each byte delivered is
  a byte of that file or of none (`DecryptorFits`), so that one byte tells which
  frame is being opened and where in it; and that the decryptor has returned the chunks
  of exactly the frames it counts. A frame out of its place has another number, so it does not
  open: hence `ReturnsABeginning`. Only the last frame is final: hence
  `AcceptsOnlyWhole`. `AcceptsIntact` needs more: of a file left alone, what was
  read and what is held are adjacent parts (`Positions`), so every frame drained is a whole frame,
  the last one never early. The files are `FlattenSeq`s, a recursion. The library's
  induction theorems cannot be used (they take an operator), so `SequenceFacts` derives
  induction over a set of numbers from the pigeonhole principle, and from it
  that a flattened sequence of equal frames has frame `i` where it should.
* `ChatSessionProofs`. All invariants of `chat_session`, for any number of users, key
  versions, texts and events (`UsersAssumption`: finitely many users, told apart by
  numbers, two of them in the conversation of two). `IInv` says of each event of the log
  that it is signed as its recipients check it; that it says what its caller asked for,
  sealed under its own key; and that what it quotes is in the log, by place and id,
  with no key but the message keys of what it quotes (`EventsFit`). From this follow
  `SurfacesWhatWasAsked`, `HonestRepliesAreValid` and `PreviewsQuoteTruly`, the last whatever a
  replier claims. `KeysStayWithMembers` needs `RemovedGetNoKey`: who removes holds the key
  the removal changes to, those removed do not, and no key change of that version has
  a copy for them, because its version was fresh and its copies are for those who stay.

* `ThriftProofs`, over `SequenceFacts`. `ReturnsWellFormed` and `ReservesWithinTotal`, for
  every schema (`TypesAssumption`), any bytes, limits and sizes, and any depth. What is
  well formed is a recursive notion and the prover has no induction over values, so `IInv` says it
  without recursion: there is a set of values with their types, closed under
  what a value holds, each sound in itself, from which everything is that the functions
  under way have got (`StackFits`). A function that returns adds its value to the
  set; what is in a closed set is well formed at every level (`ClosedIsWellFormed`). A
  function that skips a list reads a type of its own (`OfWire`): what it returns is
  sound as the type its caller wanted (`Carries`). The room reserved is a sum over the
  stack, of which a step changes the last terms only (`ReservedAppend`).

  `ReadsWhatWasWritten` (`WritesAreRead`), for every schema, value, nesting and limit, and a
  peer of this or of a newer schema, has an invariant of its own, `FInv`. `Reads(T, f, r)`:
  from the head of its loop function `f` reads the tokens `T` in turns, of which each is a
  field or an element, and returns `r`. `ItemUnfolds` is the argument about the writer, one level at
  a time: what is written of a value is read by the function for its type, in turns
  over what is written of its parts, and what a newer schema adds takes turns that
  change nothing. So no induction over values is needed: the recursion is unfolded
  by the pass itself. `Tracks` says of the stack that the top is ready to read what is at
  the head of the input, and that each function below it waits for the result of the one above and
  will read on with the tokens after it. `Consumed` says that `total` is the sum of the sizes
  in the tokens read: a container is refused only when the value does not fit.
  `FInv` ranges over all ways of cutting up the input, so TLC cannot evaluate it; it checked
  `ReadsWhatWasWritten` itself.

Only model-checked: the liveness of the feature switches, out of the prover's reach.

## Where code and documentation differ

* `signature_downgrade`: "no later one this instance signs there goes below it"
  (`core/signing.rs`) holds for versions recorded before the preparing call began; a
  verification on another thread between reading the floor and signing is missed.
* `version_race`: `import_keys` sets the version under a second lock; keys another
  thread loads in between get a version that is not theirs.
* `change_pin_race`: `change_pin` registers whatever is loaded after the recovery, not
  the stored keys, if another call loaded others meanwhile.
* `config_change`: `change_pin` reads the configuration twice, so it does not keep the one
  it started with.

Two more concern the spelling of versions, which the code holds as strings in one place and as
numbers in another. TLC refutes each in 5 s when it is added to `MCConversationKeys.cfg` as an
invariant; they have no run, and what holds instead is checked and proved (`OnlySignedKeys`,
`StaleOnlyInFlight`, `UsualSpellingsSuffice`).

* `OnlySignedKeysEnter`: "Cache only keys whose key change verified above … never a merely
  adopted key" (`core/decrypt.rs:250`; also `docs/CRYPTO.md:983`) fails when a batch holds a
  signed key change spelled "01" and an unsigned, unenforced one spelled "1". The first verifies
  version 1 (`core.rs:819` signs its number), the key of the second is cached for it
  (`core/decrypt.rs:269`).
* `CacheFollowsHighWater`: "The cached version follows the per-conversation monotonic
  high-water mark" (`docs/CRYPTO.md:986`) fails when a signed key change is spelled "01": the
  high water rises, the fill finds no key at "1", and the older entry stays with no call running.

And two are apart from these. `get_public_keys` takes its two keys under two locks,
and may return one of each of two pairs. Between the high-water lock and the
cache lock, another thread may resolve a cached key older than the
`latest_version` already reported; `StaleOnlyInFlight` says when that ends.

## What is not modelled

* Byte layouts, formatting, wording and logging. Payloads, ciphertexts and Thrift tokens are
  values that are equal exactly when their bytes are.
* The cryptographic primitives: a signature verifies and a ciphertext opens exactly under
  the right key. The ratchet tree and `signing_key_infos` on events, which only pass through.
* Of events: forwarded messages, the attachments of a quoted attachment, calls, and kinds only
  the server sends; of `core/media.rs`, choosing one attachment's key out of a message.
  Validation of parameters that refuses a call before anything changes is
  modelled where another call could have made them wrong, and left out otherwise.
* The PIN policy and the realms' protocol of Juicebox; its configuration's parsing.
* The network; crashes, since the core persists nothing (Juicebox's own storage is external).
* The wrappers of the bindings beyond the calls they forward, and their fetch
  schedulers (the plan, 8), which are timers around `BeginGet` and `AbandonGet`.
* Macros, examples and fuzz targets.

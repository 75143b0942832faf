---------------------------- MODULE SignatureFloor ----------------------------
(***************************************************************************)
(* The signature version of conversation-key changes.  Readers reject a    *)
(* key change signed below an earlier one of its conversation, so a        *)
(* ChatCore keeps, per conversation, the highest version of a key change   *)
(* it signed or verified, and signs no lower.                              *)
(*                                                                         *)
(* The floor is behind a RwLock.  A preparing call takes it twice: once to *)
(* read the version to sign at, and, the signature made, once to record    *)
(* it.  decrypt_event and decrypt_events record each key change that       *)
(* verifies.  Any number of threads run these calls on one ChatCore, while *)
(* a refresh of the feature switches turns v1 sends on or off.  One action *)
(* is one critical section, or the computation between two of them.        *)
(***************************************************************************)
EXTENDS Integers, FiniteSets

CONSTANTS
    Threads,        \* threads calling into one ChatCore
    Conversations,  \* canonical conversation ids
    EventVersions   \* signature versions delivered key changes carry

\* signatures.rs.
CURRENT == 7
MEMBER_ADD_DESCRIPTION == 8
MESSAGE == 10
MIN_ACCEPTED == 2
MAX_ACCEPTED == 11

\* No version: no floor recorded, nothing signed yet.
None == 0

ASSUME EventVersionsAssumption == EventVersions \subseteq Nat

\* The preparing calls, by the action they sign after the key change: none, a
\* group create or member add, or a member add that carries a description.
GroupChanges == {"GroupChange", "DescribedMemberAdd"}

Changes == {"KeyChange"} \cup GroupChanges

VARIABLES
    v1Send,     \* whether the feature switch v1_send is on
    floor,      \* key_change_signature_floor; None: no entry
    pc,         \* what each thread does next
    conv,       \* the conversation its call is about; None: no call
    call,       \* the call it runs: one of Changes, or "Verify"
    sendV1,     \* the send format the call read
    version,    \* signature version of its key change; None: not chosen yet
    action,     \* signature version of the action its call also signed
    recorded,   \* highest version of a key change signed or verified (history)
    settled,    \* highest version whose recording ended (history)
    required    \* settled when the call began (history)

vars == <<v1Send, floor, pc, conv, call, sendV1, version, action,
          recorded, settled, required>>

Higher(a, b) == IF a > b THEN a ELSE b

Goto(t, from, to) ==
    /\ pc[t] = from
    /\ pc' = [pc EXCEPT ![t] = to]

\* The call of t returns, and what it held goes with it.
Return(t) ==
    /\ pc' = [pc EXCEPT ![t] = "idle"]
    /\ conv' = [conv EXCEPT ![t] = None]
    /\ call' = [call EXCEPT ![t] = "Verify"]
    /\ sendV1' = [sendV1 EXCEPT ![t] = FALSE]
    /\ version' = [version EXCEPT ![t] = None]
    /\ action' = [action EXCEPT ![t] = None]
    /\ required' = [required EXCEPT ![t] = None]

Init ==
    /\ v1Send = FALSE
    /\ floor = [c \in Conversations |-> None]
    /\ pc = [t \in Threads |-> "idle"]
    /\ conv = [t \in Threads |-> None]
    /\ call = [t \in Threads |-> "Verify"]
    /\ sendV1 = [t \in Threads |-> FALSE]
    /\ version = [t \in Threads |-> None]
    /\ action = [t \in Threads |-> None]
    /\ recorded = [c \in Conversations |-> None]
    /\ settled = [c \in Conversations |-> None]
    /\ required = [t \in Threads |-> None]

\* An answer to the feature read switches the send format.
SwitchSendFormat ==
    /\ v1Send' = ~v1Send
    /\ UNCHANGED <<floor, pc, conv, call, sendV1, version, action,
                   recorded, settled, required>>

-----------------------------------------------------------------------------
(***************************************************************************)
(* prepare_conversation_key_change, prepare_group_create and               *)
(* prepare_group_members_change.                                           *)
(***************************************************************************)

\* action_signature_version.
ActionSignatureVersion(v1, legacy) == IF v1 THEN MESSAGE ELSE legacy

\* The validated call reads the send format, once for all it signs.
Prepare(t, c, change) ==
    /\ Goto(t, "idle", "choose")
    /\ conv' = [conv EXCEPT ![t] = c]
    /\ call' = [call EXCEPT ![t] = change]
    /\ sendV1' = [sendV1 EXCEPT ![t] = v1Send]
    /\ required' = [required EXCEPT ![t] = settled[c]]
    /\ UNCHANGED <<v1Send, floor, version, action, recorded, settled>>

\* A variant that signs at the send format's version whatever was seen.
UnflooredVersion(v1, low) == ActionSignatureVersion(v1, CURRENT)

KeyChangeSignatureVersion(v1, low) ==
    Higher(ActionSignatureVersion(v1, CURRENT), low)

\* key_change_signature_version, under the floor's read lock.
ChooseVersion(t) ==
    /\ Goto(t, "choose", "sign")
    /\ version' = [version EXCEPT
                     ![t] = KeyChangeSignatureVersion(sendV1[t], floor[conv[t]])]
    /\ UNCHANGED <<v1Send, floor, conv, call, sendV1, action,
                   recorded, settled, required>>

\* sign_action_event_at: the key change is signed...
SignKeyChange(t) ==
    /\ Goto(t, "sign", "raise")
    /\ recorded' = [recorded EXCEPT ![conv[t]] = Higher(@, version[t])]
    /\ UNCHANGED <<v1Send, floor, conv, call, sendV1, version, action,
                   settled, required>>

\* ... or the call fails, its signing key gone to a lock() of another thread.
FailToSign(t) ==
    /\ pc[t] \in {"sign", "action"}
    /\ Return(t)
    /\ UNCHANGED <<v1Send, floor, recorded, settled>>

LegacyVersion(change) ==
    IF change = "DescribedMemberAdd" THEN MEMBER_ADD_DESCRIPTION ELSE CURRENT

\* A variant that reads the send format anew for the call's second signature.
RereadFormat(t) == v1Send

FormatOf(t) == sendV1[t]

\* The group action that goes with the key change, signed in the same call.
SignAction(t) ==
    /\ Goto(t, "action", "return")
    /\ action' = [action EXCEPT
            ![t] = ActionSignatureVersion(FormatOf(t), LegacyVersion(call[t]))]
    /\ UNCHANGED <<v1Send, floor, conv, call, sendV1, version,
                   recorded, settled, required>>

\* The call returns both signatures.
ReturnBoth(t) ==
    /\ pc[t] = "return"
    /\ Return(t)
    /\ UNCHANGED <<v1Send, floor, recorded, settled>>

-----------------------------------------------------------------------------
(***************************************************************************)
(* Verifying key changes, in decrypt_event and in the passes of            *)
(* decrypt_events.                                                         *)
(***************************************************************************)

\* A variant of the range check that leaves out the newest version known.
AcceptsAny(v) == v >= MIN_ACCEPTED

Accepts(v) == v >= MIN_ACCEPTED /\ v <= MAX_ACCEPTED

\* verify_event_signature answers Ok(true): an accepted version, and a
\* signature of the sender's over this very payload.  An event that does not
\* verify changes nothing.
Verify(t, c, v) ==
    /\ Accepts(v)
    /\ Goto(t, "idle", "raise")
    /\ conv' = [conv EXCEPT ![t] = c]
    /\ version' = [version EXCEPT ![t] = v]
    /\ recorded' = [recorded EXCEPT ![c] = Higher(@, v)]
    /\ UNCHANGED <<v1Send, floor, call, sendV1, action, settled, required>>

\* A variant that stores the version it is given.
StoredFloor(low, v) == v

RaisedFloor(low, v) == Higher(low, v)

\* raise_key_change_signature_floor, under the floor's write lock.
RaiseFloor(t) ==
    /\ pc[t] = "raise"
    /\ floor' = [floor EXCEPT ![conv[t]] = RaisedFloor(@, version[t])]
    /\ settled' = [settled EXCEPT ![conv[t]] = Higher(@, version[t])]
    /\ \/ call[t] \in {"Verify", "KeyChange"} /\ Return(t)
       \/ /\ call[t] \in GroupChanges
          /\ pc' = [pc EXCEPT ![t] = "action"]
          /\ UNCHANGED <<conv, call, sendV1, version, action, required>>
    /\ UNCHANGED <<v1Send, recorded>>

Next ==
    \/ SwitchSendFormat
    \/ \E t \in Threads :
          \/ \E c \in Conversations, change \in Changes : Prepare(t, c, change)
          \/ ChooseVersion(t)
          \/ SignKeyChange(t)
          \/ FailToSign(t)
          \/ SignAction(t)
          \/ ReturnBoth(t)
          \/ \E c \in Conversations, v \in EventVersions : Verify(t, c, v)
          \/ RaiseFloor(t)

Spec == Init /\ [][Next]_vars

-----------------------------------------------------------------------------
(***************************************************************************)
(* Properties.                                                             *)
(***************************************************************************)
AcceptedOrNone == {None} \cup MIN_ACCEPTED .. MAX_ACCEPTED

\* The type of the state.
TypeOK ==
    /\ v1Send \in BOOLEAN
    /\ floor \in [Conversations -> AcceptedOrNone]
    /\ pc \in [Threads -> {"idle", "choose", "sign", "raise", "action",
                           "return"}]
    /\ conv \in [Threads -> Conversations \cup {None}]
    /\ call \in [Threads -> Changes \cup {"Verify"}]
    /\ sendV1 \in [Threads -> BOOLEAN]
    /\ version \in [Threads -> AcceptedOrNone]
    /\ action \in [Threads -> AcceptedOrNone]
    /\ recorded \in [Conversations -> AcceptedOrNone]
    /\ settled \in [Conversations -> AcceptedOrNone]
    /\ required \in [Threads -> AcceptedOrNone]

\* A key change is signed at or above every key change of its conversation
\* whose signing or verification had ended before the preparing call began,
\* whatever the threads and the send format did since.
SignsAboveSettled ==
    \A t \in Threads :
        call[t] # "Verify" /\ version[t] # None => version[t] >= required[t]

\* Nothing the instance signed or verified is missing from the floor, except
\* what a running call is about to record: a version is never lost to another
\* thread's recording.
FloorCoversRecorded ==
    \A c \in Conversations :
        recorded[c] > floor[c] =>
            \E t \in Threads :
                pc[t] = "raise" /\ conv[t] = c /\ version[t] = recorded[c]

\* The floor itself never makes the instance sign at a version its own
\* verification rejects, however new the clients it talks to are.
SignsWhatItAccepts ==
    \A t \in Threads :
        call[t] # "Verify" /\ version[t] # None =>
            version[t] \in CURRENT .. MAX_ACCEPTED

\* The signatures of one call are of one format: an action signed as v1 never
\* goes with a key change below v1, although the switch may have been read as
\* off and turned on in between.
OneFormatPerCall ==
    \A t \in Threads : action[t] = MESSAGE => version[t] >= MESSAGE

\* What key_change_signature_floor and CRYPTO.md say of every key change the
\* instance signs: not below one it signed or verified before.
NeverSignsBelow ==
    [][\A t \in Threads :
          pc[t] = "sign" /\ pc'[t] = "raise" => version[t] >= settled[conv[t]]]_vars
=============================================================================

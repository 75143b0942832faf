------------------------- MODULE SignatureFloorProofs -------------------------
(***************************************************************************)
(* Proofs, for any number of threads and conversations and any versions    *)
(* delivered, of what MCSignatureFloor checks on a small instance.         *)
(***************************************************************************)
EXTENDS SignatureFloor, TLAPS

\* The versions and their order.
LEMMA VersionFacts ==
    /\ AcceptedOrNone \subseteq Int
    /\ \A v \in AcceptedOrNone : None <= v /\ v <= MAX_ACCEPTED
    /\ {CURRENT, MEMBER_ADD_DESCRIPTION, MESSAGE, None} \subseteq AcceptedOrNone
  BY DEF AcceptedOrNone, None, MIN_ACCEPTED, MAX_ACCEPTED, CURRENT,
         MEMBER_ADD_DESCRIPTION, MESSAGE

\* The versions of a state of the right type are integers.
LEMMA StateIsInt ==
    ASSUME TypeOK
    PROVE  /\ \A c \in Conversations :
                 floor[c] \in Int /\ recorded[c] \in Int /\ settled[c] \in Int
           /\ \A t \in Threads : version[t] \in Int /\ required[t] \in Int
<1>1. \A v \in AcceptedOrNone : v \in Int
  BY VersionFacts
<1>2. QED
  BY <1>1 DEF TypeOK

LEMMA HigherFacts ==
    ASSUME NEW a \in AcceptedOrNone, NEW b \in AcceptedOrNone
    PROVE  /\ Higher(a, b) \in {a, b}
           /\ a <= Higher(a, b)
           /\ b <= Higher(a, b)
           /\ Higher(a, b) \in AcceptedOrNone
<1>1. a \in Int /\ b \in Int
  BY VersionFacts
<1>2. QED
  BY <1>1 DEF Higher

\* The version a key change signs at: at least the send format's and the
\* floor's, and one the instance itself accepts.
LEMMA KeyChangeSignatureVersionFacts ==
    ASSUME NEW v1 \in BOOLEAN, NEW low \in AcceptedOrNone
    PROVE  LET v == KeyChangeSignatureVersion(v1, low) IN
           /\ v \in AcceptedOrNone
           /\ v \in CURRENT .. MAX_ACCEPTED
           /\ low <= v
           /\ v1 => MESSAGE <= v
<1> DEFINE own == ActionSignatureVersion(v1, CURRENT)
           v == KeyChangeSignatureVersion(v1, low)
<1>1. own \in AcceptedOrNone /\ CURRENT <= own /\ (v1 => own = MESSAGE)
  BY VersionFacts DEF ActionSignatureVersion, CURRENT, MESSAGE
<1>2. v = Higher(own, low)
  BY DEF KeyChangeSignatureVersion
<1> HIDE DEF v, own
<1>3. v \in AcceptedOrNone /\ own <= v /\ low <= v
  BY <1>1, <1>2, HigherFacts
<1>4. v \in Int /\ own \in Int /\ v <= MAX_ACCEPTED
  BY <1>1, <1>3, VersionFacts
<1>5. v \in CURRENT .. MAX_ACCEPTED
  BY <1>1, <1>3, <1>4 DEF CURRENT, MAX_ACCEPTED
<1>6. QED
  BY <1>1, <1>3, <1>5 DEF v

-----------------------------------------------------------------------------
(***************************************************************************)
(* The inductive invariant.                                                *)
(***************************************************************************)

\* A thread outside a call holds nothing of one, and a call is about a
\* conversation.
CallsAreWhole ==
    \A t \in Threads :
        IF pc[t] = "idle"
        THEN /\ call[t] = "Verify" /\ version[t] = None
             /\ action[t] = None /\ required[t] = None
        ELSE conv[t] \in Conversations

\* Where a call is in what it does.
CallsAreInOrder ==
    \A t \in Threads :
        /\ pc[t] = "choose" => version[t] = None
        /\ pc[t] \in {"choose", "sign", "action", "return"} => call[t] # "Verify"
        /\ pc[t] # "return" => action[t] = None

\* The floor holds every version whose recording ended, and a call asks for no
\* more than that.
FloorCoversSettled ==
    /\ \A c \in Conversations : settled[c] <= floor[c]
    /\ \A t \in Threads : pc[t] # "idle" => required[t] <= settled[conv[t]]

\* The format a preparing call read is the one its key change follows.
FollowsFormat ==
    \A t \in Threads :
        /\ pc[t] \in {"sign", "raise", "action", "return"}
              /\ call[t] # "Verify" /\ sendV1[t] => MESSAGE <= version[t]
        /\ action[t] = MESSAGE => sendV1[t]

IInv ==
    /\ TypeOK
    /\ CallsAreWhole
    /\ CallsAreInOrder
    /\ FloorCoversSettled
    /\ FollowsFormat
    /\ SignsAboveSettled
    /\ FloorCoversRecorded
    /\ SignsWhatItAccepts
    /\ OneFormatPerCall

LEMMA InvInit == Init => IInv
<1> SUFFICES ASSUME Init PROVE IInv
  OBVIOUS
<1> USE DEF Init
<1>1. None \in AcceptedOrNone
  BY VersionFacts
<1>2. TypeOK
  BY <1>1 DEF TypeOK
<1>3. CallsAreWhole /\ CallsAreInOrder
  BY DEF CallsAreWhole, CallsAreInOrder
<1>4. FloorCoversSettled /\ FloorCoversRecorded
  BY DEF FloorCoversSettled, FloorCoversRecorded, None
<1>5. FollowsFormat /\ OneFormatPerCall
  BY DEF FollowsFormat, OneFormatPerCall, None, MESSAGE
<1>6. SignsAboveSettled /\ SignsWhatItAccepts
  BY DEF SignsAboveSettled, SignsWhatItAccepts
<1>7. QED
  BY <1>2, <1>3, <1>4, <1>5, <1>6 DEF IInv

LEMMA TypeStep == IInv /\ [Next]_vars => TypeOK'
<1> SUFFICES ASSUME IInv, [Next]_vars PROVE TypeOK'
  OBVIOUS
<1> USE DEF TypeOK, Goto, Return
<1>0. TypeOK /\ None \in AcceptedOrNone
  BY VersionFacts DEF IInv
<1>1. CASE SwitchSendFormat
  BY <1>0, <1>1 DEF SwitchSendFormat
<1>2. ASSUME NEW t \in Threads, NEW c \in Conversations, NEW change \in Changes,
             Prepare(t, c, change)
      PROVE  TypeOK'
  BY <1>0, <1>2 DEF Prepare
<1>3. ASSUME NEW t \in Threads, ChooseVersion(t) PROVE TypeOK'
  <2>1. conv[t] \in Conversations
    BY <1>3 DEF IInv, CallsAreWhole, ChooseVersion
  <2>2. KeyChangeSignatureVersion(sendV1[t], floor[conv[t]]) \in AcceptedOrNone
    BY <1>0, <2>1, KeyChangeSignatureVersionFacts
  <2>3. QED
    BY <1>0, <1>3, <2>2 DEF ChooseVersion
<1>4. ASSUME NEW t \in Threads, SignKeyChange(t) PROVE TypeOK'
  <2>1. \A c \in Conversations : Higher(recorded[c], version[t]) \in AcceptedOrNone
    BY <1>0, HigherFacts
  <2>2. QED
    BY <1>0, <1>4, <2>1 DEF SignKeyChange
<1>5. ASSUME NEW t \in Threads, FailToSign(t) \/ ReturnBoth(t) PROVE TypeOK'
  <2>1. /\ pc' \in [Threads -> {"idle", "choose", "sign", "raise", "action", "return"}]
        /\ conv' \in [Threads -> Conversations \cup {None}]
        /\ call' \in [Threads -> Changes \cup {"Verify"}]
        /\ sendV1' \in [Threads -> BOOLEAN]
    BY <1>0, <1>5 DEF FailToSign, ReturnBoth
  <2>2. /\ version' \in [Threads -> AcceptedOrNone]
        /\ action' \in [Threads -> AcceptedOrNone]
        /\ required' \in [Threads -> AcceptedOrNone]
    BY <1>0, <1>5 DEF FailToSign, ReturnBoth
  <2>3. QED
    BY <1>0, <1>5, <2>1, <2>2 DEF FailToSign, ReturnBoth
<1>6. ASSUME NEW t \in Threads, SignAction(t) PROVE TypeOK'
  <2>1. ActionSignatureVersion(FormatOf(t), LegacyVersion(call[t])) \in AcceptedOrNone
    BY VersionFacts DEF ActionSignatureVersion, LegacyVersion
  <2>2. QED
    BY <1>0, <1>6, <2>1 DEF SignAction
<1>7. ASSUME NEW t \in Threads, NEW c \in Conversations, NEW v \in EventVersions,
             Verify(t, c, v)
      PROVE  TypeOK'
  <2>1. v \in AcceptedOrNone
    BY <1>7, EventVersionsAssumption
       DEF Verify, Accepts, AcceptedOrNone, MIN_ACCEPTED, MAX_ACCEPTED
  <2>2. Higher(recorded[c], v) \in AcceptedOrNone
    BY <1>0, <2>1, HigherFacts
  <2>3. /\ version' \in [Threads -> AcceptedOrNone]
        /\ recorded' \in [Conversations -> AcceptedOrNone]
    BY <1>0, <1>7, <2>1, <2>2 DEF Verify
  <2>4. /\ conv' \in [Threads -> Conversations \cup {None}]
        /\ pc' \in [Threads -> {"idle", "choose", "sign", "raise", "action", "return"}]
    BY <1>0, <1>7 DEF Verify
  <2>5. /\ v1Send' = v1Send /\ floor' = floor /\ call' = call
        /\ sendV1' = sendV1 /\ action' = action /\ settled' = settled
        /\ required' = required
    BY <1>7 DEF Verify
  <2>6. QED
    BY <1>0, <2>3, <2>4, <2>5
<1>8. ASSUME NEW t \in Threads, RaiseFloor(t) PROVE TypeOK'
  <2>1. \A c \in Conversations : /\ Higher(floor[c], version[t]) \in AcceptedOrNone
                                 /\ Higher(settled[c], version[t]) \in AcceptedOrNone
    BY <1>0, HigherFacts
  <2>2. /\ floor' \in [Conversations -> AcceptedOrNone]
        /\ settled' \in [Conversations -> AcceptedOrNone]
        /\ v1Send' = v1Send /\ recorded' = recorded
    BY <1>0, <1>8, <2>1 DEF RaiseFloor, RaisedFloor
  <2>3. CASE Return(t)
    <3>1. /\ pc' \in [Threads -> {"idle", "choose", "sign", "raise", "action", "return"}]
          /\ conv' \in [Threads -> Conversations \cup {None}]
          /\ call' \in [Threads -> Changes \cup {"Verify"}]
          /\ sendV1' \in [Threads -> BOOLEAN]
      BY <1>0, <2>3
    <3>2. /\ version' \in [Threads -> AcceptedOrNone]
          /\ action' \in [Threads -> AcceptedOrNone]
          /\ required' \in [Threads -> AcceptedOrNone]
      BY <1>0, <2>3
    <3>3. QED
      BY <1>0, <2>2, <3>1, <3>2
  <2>4. CASE /\ pc' = [pc EXCEPT ![t] = "action"]
             /\ UNCHANGED <<conv, call, sendV1, version, action, required>>
    BY <1>0, <2>2, <2>4
  <2>5. QED
    BY <1>8, <2>3, <2>4 DEF RaiseFloor
<1>9. CASE UNCHANGED vars
  BY <1>0, <1>9 DEF vars
<1>10. QED
  BY <1>1, <1>2, <1>3, <1>4, <1>5, <1>6, <1>7, <1>8, <1>9 DEF Next

-----------------------------------------------------------------------------
(***************************************************************************)
(* Each action keeps the invariant (TypeOK' is TypeStep's).  An action of  *)
(* thread t leaves what the invariant says of other threads, save where    *)
(* it changes a conversation's history under them.                         *)
(***************************************************************************)
LEMMA PrepareKeepsInv ==
    ASSUME IInv, TypeOK', NEW t \in Threads, NEW c \in Conversations,
           NEW change \in Changes, Prepare(t, c, change)
    PROVE  IInv'
<1> USE DEF IInv, TypeOK
<1>1. /\ pc[t] = "idle"
      /\ pc'[t] = "choose" /\ conv'[t] = c /\ call'[t] = change
      /\ sendV1'[t] = v1Send /\ required'[t] = settled[c]
      /\ \A u \in Threads \ {t} :
            /\ pc'[u] = pc[u] /\ conv'[u] = conv[u] /\ call'[u] = call[u]
            /\ sendV1'[u] = sendV1[u] /\ required'[u] = required[u]
      /\ floor' = floor /\ version' = version /\ action' = action
      /\ recorded' = recorded /\ settled' = settled
  BY DEF Prepare, Goto
<1>2. version[t] = None /\ action[t] = None /\ change # "Verify"
  BY <1>1 DEF CallsAreWhole, Changes, GroupChanges
<1>3. CallsAreWhole' /\ CallsAreInOrder'
  BY <1>1, <1>2 DEF CallsAreWhole, CallsAreInOrder
<1>4. FloorCoversSettled'
  <2>1. settled[c] <= settled[c]
    <3>1. settled[c] \in Int
      BY StateIsInt
    <3> HIDE DEF IInv, TypeOK
    <3>2. QED
      BY <3>1
  <2>2. QED
    BY <1>1, <2>1 DEF FloorCoversSettled
<1>5. FollowsFormat'
  <2>1. None # MESSAGE
    BY DEF None, MESSAGE
  <2>2. QED
    BY <1>1, <1>2, <2>1 DEF FollowsFormat
<1>6. SignsAboveSettled' /\ SignsWhatItAccepts'
  BY <1>1, <1>2 DEF SignsAboveSettled, SignsWhatItAccepts
<1>7. FloorCoversRecorded'
  BY <1>1 DEF FloorCoversRecorded
<1>8. OneFormatPerCall'
  BY <1>1 DEF OneFormatPerCall
<1>9. QED
  BY <1>3, <1>4, <1>5, <1>6, <1>7, <1>8

LEMMA ChooseVersionKeepsInv ==
    ASSUME IInv, TypeOK', NEW t \in Threads, ChooseVersion(t)
    PROVE  IInv'
<1> USE DEF IInv, TypeOK
<1> DEFINE chosen == KeyChangeSignatureVersion(sendV1[t], floor[conv[t]])
<1>1. /\ pc[t] = "choose" /\ pc'[t] = "sign" /\ version'[t] = chosen
      /\ \A u \in Threads \ {t} : pc'[u] = pc[u] /\ version'[u] = version[u]
      /\ floor' = floor /\ conv' = conv /\ call' = call /\ sendV1' = sendV1
      /\ action' = action /\ recorded' = recorded /\ settled' = settled
      /\ required' = required
  BY DEF ChooseVersion, Goto
<1>2. conv[t] \in Conversations /\ call[t] # "Verify" /\ action[t] = None
  BY <1>1 DEF CallsAreWhole, CallsAreInOrder
<1>3. /\ chosen \in CURRENT .. MAX_ACCEPTED
      /\ floor[conv[t]] <= chosen
      /\ sendV1[t] => MESSAGE <= chosen
  BY <1>2, KeyChangeSignatureVersionFacts
<1> HIDE DEF chosen
<1>4. CallsAreWhole' /\ CallsAreInOrder'
  BY <1>1, <1>2 DEF CallsAreWhole, CallsAreInOrder
<1>5. FloorCoversSettled'
  BY <1>1 DEF FloorCoversSettled
<1>6. FollowsFormat'
  BY <1>1, <1>3 DEF FollowsFormat
<1>7. SignsAboveSettled'
  <2>1. required[t] <= settled[conv[t]] /\ settled[conv[t]] <= floor[conv[t]]
    BY <1>1, <1>2 DEF FloorCoversSettled
  <2>2. /\ required[t] \in Int /\ settled[conv[t]] \in Int
        /\ floor[conv[t]] \in Int
    BY <1>2, StateIsInt
  <2>3. chosen >= required[t]
    <3>1. chosen \in Int
      BY <1>3 DEF CURRENT, MAX_ACCEPTED
    <3> HIDE DEF IInv, TypeOK
    <3>2. QED
      BY <1>3, <2>1, <2>2, <3>1
  <2>4. QED
    BY <1>1, <2>3 DEF SignsAboveSettled
<1>8. FloorCoversRecorded'
  BY <1>1 DEF FloorCoversRecorded
<1>9. SignsWhatItAccepts'
  BY <1>1, <1>3 DEF SignsWhatItAccepts
<1>10. OneFormatPerCall'
  <2>1. None # MESSAGE
    BY DEF None, MESSAGE
  <2>2. QED
    BY <1>1, <1>2, <2>1 DEF OneFormatPerCall
<1>11. QED
  BY <1>4, <1>5, <1>6, <1>7, <1>8, <1>9, <1>10

\* Recording a version in a conversation's history, by a thread that is about
\* to raise the floor to it.
LEMMA RecordingIsCovered ==
    ASSUME TypeOK, FloorCoversRecorded, NEW t \in Threads,
           NEW c \in Conversations, NEW v \in AcceptedOrNone,
           pc[t] # "raise",
           recorded' = [recorded EXCEPT ![c] = Higher(@, v)],
           floor' = floor,
           pc'[t] = "raise", conv'[t] = c, version'[t] = v,
           \A u \in Threads \ {t} :
              pc'[u] = pc[u] /\ conv'[u] = conv[u] /\ version'[u] = version[u]
    PROVE  FloorCoversRecorded'
<1> SUFFICES ASSUME NEW d \in Conversations, recorded'[d] > floor[d]
             PROVE  \E u \in Threads :
                       pc'[u] = "raise" /\ conv'[u] = d /\ version'[u] = recorded'[d]
  BY DEF FloorCoversRecorded
<1>1. CASE recorded'[d] = recorded[d]
  <2>1. PICK u \in Threads :
            pc[u] = "raise" /\ conv[u] = d /\ version[u] = recorded[d]
    BY <1>1 DEF FloorCoversRecorded
  <2>2. QED
    BY <1>1, <2>1
<1>2. CASE recorded'[d] # recorded[d]
  <2>1. d = c /\ recorded'[d] = Higher(recorded[c], v)
    BY <1>2 DEF TypeOK
  <2>2. Higher(recorded[c], v) \in {recorded[c], v}
    BY HigherFacts DEF TypeOK
  <2>3. recorded'[d] = v
    BY <1>2, <2>1, <2>2
  <2>4. QED
    BY <2>1, <2>3
<1>3. QED
  BY <1>1, <1>2

LEMMA SignKeyChangeKeepsInv ==
    ASSUME IInv, TypeOK', NEW t \in Threads, SignKeyChange(t)
    PROVE  IInv'
<1> USE DEF IInv, TypeOK
<1>1. /\ pc[t] = "sign" /\ pc'[t] = "raise"
      /\ \A u \in Threads \ {t} : pc'[u] = pc[u]
      /\ floor' = floor /\ conv' = conv /\ call' = call /\ sendV1' = sendV1
      /\ version' = version /\ action' = action /\ settled' = settled
      /\ required' = required
      /\ recorded' = [recorded EXCEPT ![conv[t]] = Higher(@, version[t])]
  BY DEF SignKeyChange, Goto
<1>2. conv[t] \in Conversations
  BY <1>1 DEF CallsAreWhole
<1>3. CallsAreWhole' /\ CallsAreInOrder'
  BY <1>1 DEF CallsAreWhole, CallsAreInOrder
<1>4. FloorCoversSettled' /\ FollowsFormat'
  BY <1>1 DEF FloorCoversSettled, FollowsFormat
<1>5. SignsAboveSettled' /\ SignsWhatItAccepts' /\ OneFormatPerCall'
  BY <1>1 DEF SignsAboveSettled, SignsWhatItAccepts, OneFormatPerCall
<1>6. FloorCoversRecorded'
  BY <1>1, <1>2, RecordingIsCovered
<1>7. QED
  BY <1>3, <1>4, <1>5, <1>6

LEMMA VerifyKeepsInv ==
    ASSUME IInv, TypeOK', NEW t \in Threads, NEW c \in Conversations,
           NEW v \in EventVersions, Verify(t, c, v)
    PROVE  IInv'
<1> USE DEF IInv, TypeOK
<1>1. /\ pc[t] = "idle" /\ pc'[t] = "raise" /\ conv'[t] = c /\ version'[t] = v
      /\ \A u \in Threads \ {t} :
            pc'[u] = pc[u] /\ conv'[u] = conv[u] /\ version'[u] = version[u]
      /\ floor' = floor /\ call' = call /\ sendV1' = sendV1
      /\ action' = action /\ settled' = settled /\ required' = required
      /\ recorded' = [recorded EXCEPT ![c] = Higher(@, v)]
  BY DEF Verify, Goto
<1>2. call[t] = "Verify" /\ action[t] = None
  BY <1>1 DEF CallsAreWhole
<1>3. v \in AcceptedOrNone
  BY <1>1
<1>4. CallsAreWhole' /\ CallsAreInOrder'
  BY <1>1, <1>2 DEF CallsAreWhole, CallsAreInOrder
<1>5. FloorCoversSettled'
  <2>1. required[t] <= settled[c]
    <3>1. required[t] = None /\ settled[c] \in AcceptedOrNone
      BY <1>1 DEF CallsAreWhole
    <3>2. QED
      BY <3>1, VersionFacts
  <2>2. QED
    BY <1>1, <2>1 DEF FloorCoversSettled
<1>6. FollowsFormat' /\ SignsAboveSettled' /\ SignsWhatItAccepts'
  BY <1>1, <1>2 DEF FollowsFormat, SignsAboveSettled, SignsWhatItAccepts
<1>7. OneFormatPerCall'
  <2>1. None # MESSAGE
    BY DEF None, MESSAGE
  <2>2. QED
    BY <1>1, <1>2, <2>1 DEF OneFormatPerCall
<1>8. FloorCoversRecorded'
  BY <1>1, <1>3, RecordingIsCovered
<1>9. QED
  BY <1>4, <1>5, <1>6, <1>7, <1>8

\* Raising the floor to what a thread recorded.
LEMMA RaiseFloorKeepsInv ==
    ASSUME IInv, TypeOK', NEW t \in Threads, RaiseFloor(t)
    PROVE  IInv'
<1> USE DEF IInv, TypeOK
<1>1. /\ pc[t] = "raise" /\ pc'[t] # "raise"
      /\ \A u \in Threads \ {t} :
            /\ pc'[u] = pc[u] /\ conv'[u] = conv[u] /\ call'[u] = call[u]
            /\ sendV1'[u] = sendV1[u] /\ version'[u] = version[u]
            /\ action'[u] = action[u] /\ required'[u] = required[u]
      /\ recorded' = recorded
  BY DEF RaiseFloor, Return
<1>2. conv[t] \in Conversations /\ action[t] = None
  BY <1>1 DEF CallsAreWhole, CallsAreInOrder
<1>3. \/ /\ pc'[t] = "idle" /\ call'[t] = "Verify" /\ version'[t] = None
         /\ action'[t] = None /\ sendV1'[t] = FALSE /\ required'[t] = None
      \/ /\ pc'[t] = "action" /\ call[t] # "Verify" /\ conv'[t] = conv[t]
         /\ call'[t] = call[t] /\ version'[t] = version[t]
         /\ action'[t] = None /\ sendV1'[t] = sendV1[t]
         /\ required'[t] = required[t]
  BY <1>2 DEF RaiseFloor, Return, GroupChanges
<1>4. \A c \in Conversations :
        IF c = conv[t]
        THEN /\ floor'[c] = Higher(floor[c], version[t])
             /\ settled'[c] = Higher(settled[c], version[t])
        ELSE floor'[c] = floor[c] /\ settled'[c] = settled[c]
  BY DEF RaiseFloor, RaisedFloor
<1>5. \A c \in Conversations :
        /\ settled[c] <= settled'[c]
        /\ settled'[c] <= floor'[c]
        /\ floor[c] <= floor'[c]
        /\ c = conv[t] => version[t] <= floor'[c]
  <2> SUFFICES ASSUME NEW c \in Conversations
               PROVE  /\ settled[c] <= settled'[c]
                      /\ settled'[c] <= floor'[c]
                      /\ floor[c] <= floor'[c]
                      /\ c = conv[t] => version[t] <= floor'[c]
    OBVIOUS
  <2>1. settled[c] <= floor[c]
    BY DEF FloorCoversSettled
  <2>2. settled[c] \in Int /\ floor[c] \in Int /\ version[t] \in Int
    BY StateIsInt
  <2>3. IF c = conv[t]
        THEN /\ floor'[c] = Higher(floor[c], version[t])
             /\ settled'[c] = Higher(settled[c], version[t])
        ELSE floor'[c] = floor[c] /\ settled'[c] = settled[c]
    BY <1>4
  <2> HIDE DEF IInv, TypeOK
  <2>4. QED
    BY <2>1, <2>2, <2>3 DEF Higher
<1>6. CallsAreWhole' /\ CallsAreInOrder'
  BY <1>1, <1>2, <1>3 DEF CallsAreWhole, CallsAreInOrder
<1>7. FloorCoversSettled'
  <2> SUFFICES ASSUME NEW u \in Threads, pc'[u] # "idle"
               PROVE  required'[u] <= settled'[conv'[u]]
    BY <1>5 DEF FloorCoversSettled
  <2>1. /\ pc[u] # "idle" /\ conv'[u] = conv[u] /\ required'[u] = required[u]
        /\ conv[u] \in Conversations
    BY <1>1, <1>3 DEF CallsAreWhole
  <2>2. required[u] <= settled[conv[u]] /\ settled[conv[u]] <= settled'[conv[u]]
    BY <1>5, <2>1 DEF FloorCoversSettled
  <2>3. required[u] \in Int /\ settled[conv[u]] \in Int /\ settled'[conv[u]] \in Int
    BY <2>1, StateIsInt, VersionFacts
  <2> HIDE DEF IInv, TypeOK
  <2>4. QED
    BY <2>1, <2>2, <2>3
<1>8. FollowsFormat' /\ OneFormatPerCall'
  <2>1. None # MESSAGE
    BY DEF None, MESSAGE
  <2>2. QED
    BY <1>1, <1>2, <1>3, <2>1 DEF FollowsFormat, OneFormatPerCall
<1>9. SignsAboveSettled' /\ SignsWhatItAccepts'
  BY <1>1, <1>3 DEF SignsAboveSettled, SignsWhatItAccepts
<1>10. FloorCoversRecorded'
  <2> SUFFICES ASSUME NEW c \in Conversations, recorded[c] > floor'[c]
               PROVE  \E u \in Threads :
                         pc'[u] = "raise" /\ conv'[u] = c /\ version'[u] = recorded[c]
    BY <1>1 DEF FloorCoversRecorded
  <2>1. recorded[c] \in Int /\ floor[c] \in Int /\ floor'[c] \in Int
        /\ version[t] \in Int
    BY StateIsInt, VersionFacts
  <2>2. recorded[c] > floor[c] /\ ~(conv[t] = c /\ version[t] = recorded[c])
    <3>1. floor[c] <= floor'[c] /\ (c = conv[t] => version[t] <= floor'[c])
      BY <1>5
    <3> HIDE DEF IInv, TypeOK
    <3>2. QED
      BY <2>1, <3>1
  <2>3. PICK u \in Threads :
            pc[u] = "raise" /\ conv[u] = c /\ version[u] = recorded[c]
    BY <2>2 DEF FloorCoversRecorded
  <2>4. u # t
    BY <2>2, <2>3
  <2>5. QED
    BY <1>1, <2>3, <2>4
<1>11. QED
  BY <1>6, <1>7, <1>8, <1>9, <1>10

LEMMA SignActionKeepsInv ==
    ASSUME IInv, TypeOK', NEW t \in Threads, SignAction(t)
    PROVE  IInv'
<1> USE DEF IInv, TypeOK
<1>1. /\ pc[t] = "action" /\ pc'[t] = "return"
      /\ \A u \in Threads \ {t} : pc'[u] = pc[u] /\ action'[u] = action[u]
      /\ action'[t] = ActionSignatureVersion(sendV1[t], LegacyVersion(call[t]))
      /\ floor' = floor /\ conv' = conv /\ call' = call /\ sendV1' = sendV1
      /\ version' = version /\ recorded' = recorded /\ settled' = settled
      /\ required' = required
  BY DEF SignAction, FormatOf, Goto
<1>2. action'[t] = MESSAGE => sendV1[t]
  BY <1>1 DEF ActionSignatureVersion, LegacyVersion, CURRENT,
              MEMBER_ADD_DESCRIPTION, MESSAGE
<1>3. CallsAreWhole' /\ CallsAreInOrder'
  BY <1>1 DEF CallsAreWhole, CallsAreInOrder
<1>4. FloorCoversSettled'
  BY <1>1 DEF FloorCoversSettled
<1>5. FollowsFormat'
  BY <1>1, <1>2 DEF FollowsFormat
<1>6. SignsAboveSettled' /\ SignsWhatItAccepts'
  BY <1>1 DEF SignsAboveSettled, SignsWhatItAccepts
<1>7. FloorCoversRecorded'
  <2>1. \A u \in Threads : pc[u] = "raise" => pc'[u] = "raise"
    BY <1>1
  <2>2. QED
    BY <1>1, <2>1 DEF FloorCoversRecorded
<1>8. OneFormatPerCall'
  <2>1. call[t] # "Verify"
    BY <1>1 DEF CallsAreInOrder
  <2>2. sendV1[t] => MESSAGE <= version[t]
    BY <1>1, <2>1 DEF FollowsFormat
  <2>3. version[t] \in Int
    BY StateIsInt
  <2>4. action'[t] = MESSAGE => version[t] >= MESSAGE
    BY <1>2, <2>2, <2>3 DEF MESSAGE
  <2>5. QED
    BY <1>1, <2>4 DEF OneFormatPerCall
<1>9. QED
  BY <1>3, <1>4, <1>5, <1>6, <1>7, <1>8

LEMMA ReturnKeepsInv ==
    ASSUME IInv, TypeOK', NEW t \in Threads, FailToSign(t) \/ ReturnBoth(t)
    PROVE  IInv'
<1> USE DEF IInv, TypeOK
<1>1. /\ pc[t] # "raise" /\ pc'[t] = "idle" /\ call'[t] = "Verify"
      /\ version'[t] = None /\ action'[t] = None /\ sendV1'[t] = FALSE
      /\ required'[t] = None
      /\ \A u \in Threads \ {t} :
            /\ pc'[u] = pc[u] /\ conv'[u] = conv[u] /\ call'[u] = call[u]
            /\ sendV1'[u] = sendV1[u] /\ version'[u] = version[u]
            /\ action'[u] = action[u] /\ required'[u] = required[u]
      /\ floor' = floor /\ recorded' = recorded /\ settled' = settled
  BY DEF FailToSign, ReturnBoth, Return
<1>2. None # MESSAGE
  BY DEF None, MESSAGE
<1>3. CallsAreWhole' /\ CallsAreInOrder'
  BY <1>1 DEF CallsAreWhole, CallsAreInOrder
<1>4. FloorCoversSettled' /\ FollowsFormat'
  BY <1>1, <1>2 DEF FloorCoversSettled, FollowsFormat
<1>5. SignsAboveSettled' /\ SignsWhatItAccepts' /\ OneFormatPerCall'
  BY <1>1, <1>2 DEF SignsAboveSettled, SignsWhatItAccepts, OneFormatPerCall
<1>6. FloorCoversRecorded'
  BY <1>1 DEF FloorCoversRecorded
<1>7. QED
  BY <1>3, <1>4, <1>5, <1>6

-----------------------------------------------------------------------------
LEMMA InvStep == IInv /\ [Next]_vars => IInv'
<1> SUFFICES ASSUME IInv, [Next]_vars PROVE IInv'
  OBVIOUS
<1>1. TypeOK'
  BY TypeStep
<1>2. ASSUME SwitchSendFormat \/ UNCHANGED vars PROVE IInv'
  <2>1. UNCHANGED <<floor, pc, conv, call, sendV1, version, action, recorded,
                    settled, required>>
    BY <1>2 DEF SwitchSendFormat, vars
  <2>2. QED
    BY <1>1, <2>1 DEF IInv, CallsAreWhole, CallsAreInOrder, FloorCoversSettled,
       FollowsFormat, SignsAboveSettled, FloorCoversRecorded,
       SignsWhatItAccepts, OneFormatPerCall
<1>3. ASSUME NEW t \in Threads, NEW c \in Conversations, NEW change \in Changes,
             Prepare(t, c, change)
      PROVE  IInv'
  BY <1>1, <1>3, PrepareKeepsInv
<1>4. ASSUME NEW t \in Threads, ChooseVersion(t) PROVE IInv'
  BY <1>1, <1>4, ChooseVersionKeepsInv
<1>5. ASSUME NEW t \in Threads, SignKeyChange(t) PROVE IInv'
  BY <1>1, <1>5, SignKeyChangeKeepsInv
<1>6. ASSUME NEW t \in Threads, FailToSign(t) \/ ReturnBoth(t) PROVE IInv'
  BY <1>1, <1>6, ReturnKeepsInv
<1>7. ASSUME NEW t \in Threads, SignAction(t) PROVE IInv'
  BY <1>1, <1>7, SignActionKeepsInv
<1>8. ASSUME NEW t \in Threads, NEW c \in Conversations, NEW v \in EventVersions,
             Verify(t, c, v)
      PROVE  IInv'
  BY <1>1, <1>8, VerifyKeepsInv
<1>9. ASSUME NEW t \in Threads, RaiseFloor(t) PROVE IInv'
  BY <1>1, <1>9, RaiseFloorKeepsInv
<1>10. QED
  BY <1>2, <1>3, <1>4, <1>5, <1>6, <1>7, <1>8, <1>9 DEF Next

LEMMA Invariance == Spec => []IInv
  BY InvInit, InvStep, PTL DEF Spec

\* The state keeps its type: in particular the floor stays among the versions
\* the instance accepts.
THEOREM TypeCorrect == Spec => []TypeOK
<1>1. IInv => TypeOK
  BY DEF IInv
<1>2. QED
  BY <1>1, Invariance, PTL

\* However calls interleave, a key change is signed at or above every key
\* change of its conversation that had been recorded when its call began.
THEOREM SignedAboveSettled == Spec => []SignsAboveSettled
<1>1. IInv => SignsAboveSettled
  BY DEF IInv
<1>2. QED
  BY <1>1, Invariance, PTL

\* No signed or verified version is lost from the floor.
THEOREM FloorLosesNothing == Spec => []FloorCoversRecorded
<1>1. IInv => FloorCoversRecorded
  BY DEF IInv
<1>2. QED
  BY <1>1, Invariance, PTL

\* Whatever versions other clients use, the instance signs only at versions it
\* verifies itself.
THEOREM SignedIsAccepted == Spec => []SignsWhatItAccepts
<1>1. IInv => SignsWhatItAccepts
  BY DEF IInv
<1>2. QED
  BY <1>1, Invariance, PTL

\* A change of send format never splits the signatures of a call.
THEOREM CallsKeepOneFormat == Spec => []OneFormatPerCall
<1>1. IInv => OneFormatPerCall
  BY DEF IInv
<1>2. QED
  BY <1>1, Invariance, PTL
=============================================================================

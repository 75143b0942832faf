-------------------------- MODULE KeyLifecycleProofs --------------------------
(***************************************************************************)
(* Proofs, for any threads, key pairs, PINs and configurations, of what    *)
(* the run account_keys checks on a small instance.                        *)
(***************************************************************************)
EXTENDS KeyLifecycle, TLAPS

\* What a call holds when it comes to each of its steps.
CallFits(t) ==
    /\ pc[t] = "recover" => call[t] \in {"unlock", "change_pin"}
    /\ pc[t] \in {"recover", "import", "export"} /\ call[t] = "change_pin"
          => args[t].new \in Pins
    /\ pc[t] = "import" =>
          /\ proved[t] = TRUE
          /\ call[t] \in {"unlock", "change_pin"}
          /\ secret[t].identity \in Pairs
    /\ pc[t] = "export" => proved[t] = TRUE /\ call[t] = "change_pin"
    /\ pc[t] = "register" =>
          /\ args[t].new \in Pins
          /\ secret[t].identity \in Pairs
          /\ call[t] = "setup" \/ proved[t] = TRUE

CallsFit == \A t \in Threads : CallFits(t)

\* The inductive invariant.
IInv == TypeOK /\ CallsFit /\ NeverMixesPairs

LEMMA BlobsAreWhole ==
    \A blob \in Blobs :
        blob \in Keys /\ Whole(blob) /\ blob.identity \in Pairs
  BY NoneAssumption DEF Blobs, Both, IdentityOnly, Keys, PairOrNone, Whole

LEMMA NoKeysAreWhole == NoKeys \in Keys /\ Whole(NoKeys)
  BY DEF NoKeys, Keys, PairOrNone, Whole

LEMMA LoadedIsWhole ==
    ASSUME NEW keys \in Keys, Whole(keys)
    PROVE  /\ Loaded(keys) \in [identity : PairOrNone, signing : PairOrNone,
                                version : PairOrNone]
           /\ Whole(Loaded(keys))
  BY DEF Loaded, KeyState, Keys, PairOrNone, Whole

LEMMA EmptyIsWhole ==
    /\ Empty \in [identity : PairOrNone, signing : PairOrNone, version : PairOrNone]
    /\ Whole(Empty)
  BY DEF Empty, KeyState, NoKeys, PairOrNone, Whole

LEMMA NotStoredIsWhole == Whole(NotStored)
  BY DEF NotStored, Stored, NoKeys, Whole

LEMMA LoadedKeysAreWhole ==
    ASSUME IInv
    PROVE  KeysOf(loaded) \in Keys /\ Whole(KeysOf(loaded))
  BY DEF IInv, TypeOK, NeverMixesPairs, KeysOf, Keys, Whole

LEMMA StoredKeysAreWhole ==
    ASSUME IInv, stored # NotStored
    PROVE  /\ KeysOf(stored) \in Keys
           /\ Whole(KeysOf(stored))
           /\ KeysOf(stored).identity \in Pairs
  BY DEF IInv, TypeOK, NeverMixesPairs, KeysOf, Keys, Whole, PairOrNone

\* What a call registers is whole, and under its new PIN.
LEMMA RegisteredIsWhole ==
    ASSUME IInv, NEW t \in Threads, pc[t] = "register"
    PROVE  /\ Registered(t) \in [identity : Pairs, signing : PairOrNone, pin : Pins]
           /\ Whole(Registered(t))
           /\ Registered(t).pin = args[t].new
<1>1. secret[t] \in Keys /\ Whole(secret[t])
  BY DEF IInv, TypeOK, NeverMixesPairs
<1>2. secret[t].identity \in Pairs /\ args[t].new \in Pins
  BY DEF IInv, CallsFit, CallFits
<1>3. QED
  BY <1>1, <1>2 DEF Registered, Stored, Keys, Whole

\* The end of a call disturbs nothing.
LEMMA ReturnKeeps ==
    ASSUME IInv, NEW t \in Threads, Return(t)
    PROVE  /\ CallsFit'
           /\ \A s \in Threads : Whole(secret[s])'
           /\ pc' \in [Threads -> {"idle", "set version", "recover", "import",
                                   "export", "register", "delete", "lock"}]
           /\ call' \in [Threads -> {"none", "import_keys", "setup", "unlock",
                                     "change_pin", "delete"}]
           /\ args' \in [Threads -> [old : PinOrNone, new : PinOrNone]]
           /\ secret' \in [Threads -> Keys]
           /\ proved' \in [Threads -> BOOLEAN]
           /\ configs' \in [Threads -> SUBSET Configs]
<1>1. NoPins \in [old : PinOrNone, new : PinOrNone]
  BY DEF NoPins, PinOrNone
<1>2. CallsFit'
  <2> SUFFICES ASSUME NEW s \in Threads PROVE CallFits(s)'
    BY DEF CallsFit
  <2>1. CASE s = t
    BY <2>1 DEF IInv, TypeOK, Return, CallFits
  <2>2. CASE s # t
    BY <2>2 DEF IInv, TypeOK, CallsFit, Return, CallFits
  <2>3. QED
    BY <2>1, <2>2
<1>3. \A s \in Threads : Whole(secret[s])'
  BY NoKeysAreWhole DEF IInv, TypeOK, NeverMixesPairs, Return, Whole
<1>4. QED
  BY <1>1, <1>2, <1>3, NoKeysAreWhole DEF IInv, TypeOK, Return

LEMMA InitIInv == Init => IInv
<1> SUFFICES ASSUME Init PROVE IInv
  OBVIOUS
<1>1. TypeOK
  BY EmptyIsWhole, NoKeysAreWhole DEF Init, TypeOK, NoPins, PinOrNone
<1>2. CallsFit
  BY DEF Init, CallsFit, CallFits
<1>3. NeverMixesPairs
  BY EmptyIsWhole, NoKeysAreWhole, NotStoredIsWhole DEF Init, NeverMixesPairs
<1>4. QED
  BY <1>1, <1>2, <1>3 DEF IInv

LEMMA NextIInv == IInv /\ [Next]_vars => IInv'
<1> SUFFICES ASSUME IInv, [Next]_vars PROVE IInv'
  OBVIOUS
<1>0. callers \subseteq Threads /\ callers' \subseteq Threads
  BY DEF IInv, TypeOK, Next, vars
<1> USE <1>0 DEF callVars
<1>1. CASE UNCHANGED vars
  BY <1>1 DEF vars, IInv, TypeOK, CallsFit, CallFits, NeverMixesPairs, Whole
<1>2. ASSUME NEW c \in Configs, UpdateConfig(c) PROVE IInv'
  BY <1>2 DEF UpdateConfig, IInv, TypeOK, CallsFit, CallFits, NeverMixesPairs, Whole
<1>3. ASSUME NEW t \in Threads, NEW p \in Pairs, GenerateKeypairs(t, p) PROVE IInv'
  <2>1. Both(p) \in Keys /\ Whole(Both(p))
    BY BlobsAreWhole DEF Blobs
  <2>2. QED
    BY <1>3, <2>1, LoadedIsWhole
       DEF GenerateKeypairs, IInv, TypeOK, CallsFit, CallFits, NeverMixesPairs, Whole
<1>4. ASSUME NEW t \in Threads, NEW blob \in Blobs, NEW withVersion \in BOOLEAN,
             ImportKeys(t, blob, withVersion)
      PROVE  IInv'
  <2>1. blob \in Keys /\ Whole(blob) /\ blob.identity \in Pairs
    BY BlobsAreWhole
  <2>2. TypeOK'
    <3>1. /\ loaded' \in [identity : PairOrNone, signing : PairOrNone,
                          version : PairOrNone]
          /\ made' \subseteq Pairs
      BY <1>4, <2>1, LoadedIsWhole DEF ImportKeys, IInv, TypeOK
    <3>2. /\ pc' \in [Threads -> {"idle", "set version", "recover", "import",
                                  "export", "register", "delete", "lock"}]
          /\ call' \in [Threads -> {"none", "import_keys", "setup", "unlock",
                                    "change_pin", "delete"}]
          /\ secret' \in [Threads -> Keys]
      <4>1. CASE withVersion
        <5>1. /\ pc' = [pc EXCEPT ![t] = "set version"]
              /\ call' = [call EXCEPT ![t] = "import_keys"]
              /\ secret' = [secret EXCEPT ![t] = blob]
          BY <1>4, <4>1 DEF ImportKeys, Goto
        <5>2. QED
          BY <2>1, <5>1 DEF IInv, TypeOK
      <4>2. CASE ~withVersion
        BY <1>4, <4>2 DEF ImportKeys, IInv, TypeOK
      <4>3. QED
        BY <4>1, <4>2
    <3>3. QED
      BY <1>4, <3>1, <3>2 DEF ImportKeys, IInv, TypeOK
  <2>3. CallsFit'
    <3> SUFFICES ASSUME NEW s \in Threads PROVE CallFits(s)'
      BY DEF CallsFit
    <3> QED
      BY <1>4 DEF ImportKeys, Goto, IInv, TypeOK, CallsFit, CallFits
  <2>4. NeverMixesPairs'
    BY <1>4, <2>1, LoadedIsWhole
       DEF ImportKeys, IInv, TypeOK, NeverMixesPairs, Whole
  <2>5. QED
    BY <2>2, <2>3, <2>4 DEF IInv
<1>5. ASSUME NEW t \in Threads, SetImportedVersion(t) PROVE IInv'
  <2>1. /\ secret[t].identity \in PairOrNone
        /\ loaded \in [identity : PairOrNone, signing : PairOrNone, version : PairOrNone]
    BY DEF IInv, TypeOK, Keys
  <2>2. loaded' \in [identity : PairOrNone, signing : PairOrNone, version : PairOrNone]
    BY <1>5, <2>1 DEF SetImportedVersion
  <2>3. Whole(loaded)'
    BY <1>5, <2>1 DEF SetImportedVersion, IInv, NeverMixesPairs, Whole
  <2>4. QED
    BY <1>5, <2>2, <2>3, ReturnKeeps
       DEF SetImportedVersion, IInv, TypeOK, NeverMixesPairs
<1>6. ASSUME NEW t \in Threads, SetIdentity(t) PROVE IInv'
  BY <1>6 DEF SetIdentity, IInv, TypeOK, CallsFit, CallFits, NeverMixesPairs, Whole
<1>7. ASSUME NEW t \in Threads, Lock(t) PROVE IInv'
  BY <1>7, EmptyIsWhole DEF Lock, IInv, TypeOK, CallsFit, CallFits, NeverMixesPairs, Whole
<1>8. ASSUME NEW t \in Threads, NEW pin \in Pins, Setup(t, pin) PROVE IInv'
  <2>1. /\ KeysOf(loaded) \in Keys
        /\ Whole(KeysOf(loaded))
        /\ KeysOf(loaded).identity \in Pairs
    BY <1>8, LoadedKeysAreWhole DEF Setup, IInv, TypeOK, KeysOf, PairOrNone
  <2>2. TypeOK'
    BY <1>8, <2>1 DEF Setup, Start, Goto, IInv, TypeOK, PinOrNone
  <2>3. CallsFit'
    <3> SUFFICES ASSUME NEW s \in Threads PROVE CallFits(s)'
      BY DEF CallsFit
    <3> QED
      BY <1>8, <2>1 DEF Setup, Start, Goto, IInv, TypeOK, CallsFit, CallFits
  <2>4. NeverMixesPairs'
    BY <1>8, <2>1 DEF Setup, IInv, TypeOK, NeverMixesPairs, Whole
  <2>5. QED
    BY <2>2, <2>3, <2>4 DEF IInv
<1>9. ASSUME NEW t \in Threads, NEW pin \in Pins, Unlock(t, pin) PROVE IInv'
  <2>1. TypeOK'
    BY <1>9 DEF Unlock, Start, Goto, IInv, TypeOK, NoPins, PinOrNone
  <2>2. CallsFit'
    <3> SUFFICES ASSUME NEW s \in Threads PROVE CallFits(s)'
      BY DEF CallsFit
    <3> QED
      BY <1>9 DEF Unlock, Start, Goto, IInv, TypeOK, CallsFit, CallFits
  <2>3. NeverMixesPairs'
    BY <1>9 DEF Unlock, IInv, NeverMixesPairs, Whole
  <2>4. QED
    BY <2>1, <2>2, <2>3 DEF IInv
<1>10. ASSUME NEW t \in Threads, NEW oldPin \in Pins, NEW newPin \in Pins, ChangePin(t, oldPin, newPin) PROVE IInv'
  <2>1. TypeOK'
    BY <1>10 DEF ChangePin, Start, Goto, IInv, TypeOK, NoPins, PinOrNone
  <2>2. CallsFit'
    <3> SUFFICES ASSUME NEW s \in Threads PROVE CallFits(s)'
      BY DEF CallsFit
    <3> QED
      BY <1>10 DEF ChangePin, Start, Goto, IInv, TypeOK, CallsFit, CallFits
  <2>3. NeverMixesPairs'
    BY <1>10 DEF ChangePin, IInv, NeverMixesPairs, Whole
  <2>4. QED
    BY <2>1, <2>2, <2>3 DEF IInv
<1>11. ASSUME NEW t \in Threads, Delete(t) PROVE IInv'
  <2>1. TypeOK'
    BY <1>11 DEF Delete, Start, Goto, IInv, TypeOK, NoPins, PinOrNone
  <2>2. CallsFit'
    <3> SUFFICES ASSUME NEW s \in Threads PROVE CallFits(s)'
      BY DEF CallsFit
    <3> QED
      BY <1>11 DEF Delete, Start, Goto, IInv, TypeOK, CallsFit, CallFits
  <2>3. NeverMixesPairs'
    BY <1>11 DEF Delete, IInv, NeverMixesPairs, Whole
  <2>4. QED
    BY <2>1, <2>2, <2>3 DEF IInv
<1>12. ASSUME NEW t \in Threads, RecoverSecret(t) PROVE IInv'
  <2>1. /\ KeysOf(stored) \in Keys
        /\ Whole(KeysOf(stored))
        /\ KeysOf(stored).identity \in Pairs
    BY <1>12, StoredKeysAreWhole DEF RecoverSecret
  <2>2. TypeOK'
    BY <1>12, <2>1 DEF RecoverSecret, Goto, IInv, TypeOK
  <2>3. CallsFit'
    <3> SUFFICES ASSUME NEW s \in Threads PROVE CallFits(s)'
      BY DEF CallsFit
    <3> QED
      BY <1>12, <2>1 DEF RecoverSecret, Goto, IInv, TypeOK, CallsFit, CallFits
  <2>4. NeverMixesPairs'
    BY <1>12, <2>1 DEF RecoverSecret, IInv, TypeOK, NeverMixesPairs, Whole
  <2>5. QED
    BY <2>2, <2>3, <2>4 DEF IInv
<1>13. ASSUME NEW t \in Threads, FailToRecover(t) PROVE IInv'
  BY <1>13, ReturnKeeps
     DEF FailToRecover, GivesUp, IInv, TypeOK, NeverMixesPairs, Whole
<1>14. ASSUME NEW t \in Threads, ImportSecret(t) PROVE IInv'
  <2>1. secret[t] \in Keys /\ Whole(secret[t])
    BY DEF IInv, TypeOK, NeverMixesPairs
  <2>2. /\ loaded' \in [identity : PairOrNone, signing : PairOrNone, version : PairOrNone]
        /\ Whole(loaded)'
    BY <1>14, <2>1, LoadedIsWhole DEF ImportSecret, Whole
  <2>3. CASE Return(t)
    BY <1>14, <2>2, <2>3, ReturnKeeps
       DEF ImportSecret, IInv, TypeOK, NeverMixesPairs, Whole
  <2>4. CASE call[t] = "change_pin" /\ Goto(t, "import", "export") /\ UNCHANGED callVars
    <3>1. TypeOK'
      BY <1>14, <2>2, <2>4 DEF ImportSecret, Goto, IInv, TypeOK
    <3>2. CallsFit'
      <4> SUFFICES ASSUME NEW s \in Threads PROVE CallFits(s)'
        BY DEF CallsFit
      <4> QED
        BY <1>14, <2>4 DEF Goto, IInv, TypeOK, CallsFit, CallFits
    <3>3. NeverMixesPairs'
      BY <1>14, <2>2, <2>4 DEF ImportSecret, IInv, NeverMixesPairs, Whole
    <3>4. QED
      BY <3>1, <3>2, <3>3 DEF IInv
  <2>5. QED
    BY <1>14, <2>3, <2>4 DEF ImportSecret
<1>15. ASSUME NEW t \in Threads, ExportSecret(t) PROVE IInv'
  <2>1. CASE Return(t)
    BY <1>15, <2>1, ReturnKeeps
       DEF ExportSecret, IInv, TypeOK, NeverMixesPairs, Whole
  <2>2. CASE ~Return(t)
    <3>1. /\ KeysOf(loaded) \in Keys
          /\ Whole(KeysOf(loaded))
          /\ KeysOf(loaded).identity \in Pairs
      BY <1>15, <2>2, LoadedKeysAreWhole
         DEF ExportSecret, IInv, TypeOK, KeysOf, PairOrNone
    <3>2. config \in Configs
      BY <1>15, <2>2 DEF ExportSecret, IInv, TypeOK
    <3>3. TypeOK'
      <4>1. /\ pc' = [pc EXCEPT ![t] = "register"]
            /\ secret' = [secret EXCEPT ![t] = KeysOf(loaded)]
            /\ configs' = [configs EXCEPT ![t] = @ \cup {config}]
            /\ UNCHANGED <<loaded, made, config, stored, call, args, proved>>
        BY <1>15, <2>2 DEF ExportSecret, Goto
      <4>2. configs' \in [Threads -> SUBSET Configs]
        BY <3>2, <4>1 DEF IInv, TypeOK
      <4>3. QED
        BY <3>1, <4>1, <4>2 DEF IInv, TypeOK
    <3>4. CallsFit'
      <4> SUFFICES ASSUME NEW s \in Threads PROVE CallFits(s)'
        BY DEF CallsFit
      <4>1. /\ pc[t] = "export" /\ pc' = [pc EXCEPT ![t] = "register"]
            /\ secret' = [secret EXCEPT ![t] = KeysOf(loaded)]
            /\ UNCHANGED <<call, args, proved>>
        BY <1>15, <2>2 DEF ExportSecret, Goto
      <4>2. proved[t] = TRUE /\ call[t] = "change_pin" /\ args[t].new \in Pins
        BY <4>1 DEF IInv, CallsFit, CallFits
      <4>3. CASE s = t
        BY <3>1, <4>1, <4>2, <4>3 DEF IInv, TypeOK, CallFits
      <4>4. CASE s # t
        BY <4>1, <4>4 DEF IInv, TypeOK, CallsFit, CallFits
      <4>5. QED
        BY <4>3, <4>4
    <3>5. NeverMixesPairs'
      BY <1>15, <2>2, <3>1 DEF ExportSecret, IInv, TypeOK, NeverMixesPairs, Whole
    <3>6. QED
      BY <3>3, <3>4, <3>5 DEF IInv
  <2>3. QED
    BY <2>1, <2>2
<1>16. ASSUME NEW t \in Threads, RegisterSecret(t) \/ FailToRegister(t) PROVE IInv'
  <2>1. Return(t) /\ UNCHANGED <<loaded, made, config>>
    BY <1>16 DEF RegisterSecret, FailToRegister
  <2>2. stored' \in {stored, Registered(t)} /\ pc[t] = "register"
    BY <1>16 DEF RegisterSecret, FailToRegister
  <2>3. /\ stored' \in {NotStored}
                \cup [identity : Pairs, signing : PairOrNone, pin : Pins]
        /\ Whole(stored')
    <3>1. CASE stored' = stored
      BY <3>1 DEF IInv, TypeOK, NeverMixesPairs, Whole
    <3>2. CASE stored' = Registered(t)
      <4>1. /\ Registered(t) \in [identity : Pairs, signing : PairOrNone, pin : Pins]
            /\ Whole(Registered(t))
        BY <2>2, RegisteredIsWhole
      <4>2. QED
        BY <3>2, <4>1
    <3>3. QED
      BY <2>2, <3>1, <3>2
  <2>4. TypeOK'
    BY <2>1, <2>3, ReturnKeeps DEF IInv, TypeOK
  <2>5. NeverMixesPairs'
    BY <2>1, <2>3, ReturnKeeps DEF IInv, NeverMixesPairs, Whole
  <2>6. QED
    BY <2>1, <2>4, <2>5, ReturnKeeps DEF IInv
<1>17. ASSUME NEW t \in Threads, DeleteKeys(t) PROVE IInv'
  <2>1. TypeOK'
    BY <1>17 DEF DeleteKeys, Goto, IInv, TypeOK
  <2>2. CallsFit'
    BY <1>17 DEF DeleteKeys, Goto, IInv, TypeOK, CallsFit, CallFits
  <2>3. NeverMixesPairs'
    BY <1>17, NotStoredIsWhole DEF DeleteKeys, IInv, NeverMixesPairs, Whole
  <2>4. QED
    BY <2>1, <2>2, <2>3 DEF IInv
<1>18. ASSUME NEW t \in Threads, FailToDelete(t) PROVE IInv'
  <2>1. /\ stored' \in {stored, NotStored}
        /\ Return(t)
        /\ UNCHANGED <<loaded, made, config>>
    BY <1>18 DEF FailToDelete
  <2>2. QED
    BY <2>1, ReturnKeeps, NotStoredIsWhole DEF IInv, TypeOK, NeverMixesPairs, Whole
<1>19. ASSUME NEW t \in Threads, LockDeleted(t) PROVE IInv'
  BY <1>19, ReturnKeeps, EmptyIsWhole
     DEF LockDeleted, IInv, TypeOK, NeverMixesPairs, Whole
<1>20. QED
  BY <1>1, <1>2, <1>3, <1>4, <1>5, <1>6, <1>7, <1>8, <1>9, <1>10, <1>11, <1>12,
     <1>13, <1>14, <1>15, <1>16, <1>17, <1>18, <1>19 DEF Next, Step

THEOREM Inductive == Spec => []IInv
  BY InitIInv, NextIInv, PTL DEF Spec

\* The state keeps its type.
THEOREM TypeCorrect == Spec => []TypeOK
<1>1. IInv => TypeOK
  BY DEF IInv
<1>2. QED
  BY <1>1, Inductive, PTL

\* In memory, at Juicebox and on the way, identity and signing key are of one
\* pair, whatever calls interleave.
THEOREM PairsNeverMix == Spec => []NeverMixesPairs
<1>1. IInv => NeverMixesPairs
  BY DEF IInv
<1>2. QED
  BY <1>1, Inductive, PTL

\* The PIN of stored keys changes only in a setup, or in a change_pin that
\* recovered them under the old PIN.
THEOREM PinChangesNeedOldPin == Spec => PinChangeNeedsOldPin
<1> DEFINE OldPinProved ==
        \A pin \in Pins :
            stored.pin \notin {pin, None} /\ stored'.pin = pin =>
                \E t \in Threads :
                    pc[t] = "register" /\ (call[t] = "setup" \/ proved[t])
<1>1. IInv /\ [Next]_vars => [OldPinProved]_stored
  <2> SUFFICES ASSUME IInv, Next, stored' # stored,
                      NEW pin \in Pins, stored'.pin = pin
               PROVE  \E t \in Threads :
                          pc[t] = "register" /\ (call[t] = "setup" \/ proved[t])
    BY DEF vars
  <2>1. NotStored.pin # pin
    BY NoneAssumption DEF NotStored, Stored
  <2>2. PICK t \in Threads : pc[t] = "register"
    <3>1. PICK t \in callers :
              RegisterSecret(t) \/ FailToRegister(t) \/ DeleteKeys(t) \/ FailToDelete(t)
      BY DEF Next, Step, UpdateConfig, GenerateKeypairs, ImportKeys, SetImportedVersion,
             SetIdentity, Lock, Setup, Unlock, ChangePin, Delete, RecoverSecret,
             FailToRecover, ImportSecret, ExportSecret, LockDeleted
    <3>2. pc[t] = "register"
      BY <2>1, <3>1 DEF RegisterSecret, FailToRegister, DeleteKeys, FailToDelete
    <3>3. QED
      BY <3>1, <3>2 DEF IInv, TypeOK
  <2>3. call[t] = "setup" \/ proved[t] = TRUE
    BY <2>2 DEF IInv, CallsFit, CallFits
  <2>4. QED
    BY <2>2, <2>3
<1>2. QED
  BY <1>1, Inductive, PTL DEF Spec, PinChangeNeedsOldPin

-----------------------------------------------------------------------------
(***************************************************************************)
(* One call at a time.                                                     *)
(***************************************************************************)
\* What a call has read is still so at its next step: what import_keys set the
\* version of is loaded, and what change_pin recovered is what is stored.
Undisturbed(t) ==
    /\ pc[t] = "set version" => secret[t].identity = loaded.identity
    /\ pc[t] = "import" => secret[t] = KeysOf(stored)
    /\ pc[t] = "export" => KeysOf(loaded) = KeysOf(stored)
    /\ pc[t] = "register" => call[t] = "setup" \/ secret[t] = KeysOf(stored)

InTurnInv == InTurn => VersionIsOfLoadedKeys /\ \A t \in callers : Undisturbed(t)

LEMMA InTurnInitially == Init => InTurnInv
<1> SUFFICES ASSUME Init PROVE InTurnInv
  OBVIOUS
<1>1. VersionIsOfLoadedKeys
  BY DEF Init, VersionIsOfLoadedKeys, Empty, KeyState, NoKeys
<1>2. \A t \in callers : pc[t] = "idle"
  BY DEF Init
<1>3. QED
  BY <1>1, <1>2 DEF InTurnInv, Undisturbed

\* A call that has ended is disturbed by nothing.
LEMMA IdleIsUndisturbed ==
    ASSUME TypeOK, InTurn, callers' = callers, NEW t \in callers,
           Return(t) \/ (pc[t] = "idle" /\ UNCHANGED <<pc, callVars>>)
    PROVE  \A s \in callers' : Undisturbed(s)'
<1>1. pc'[t] = "idle"
  BY DEF TypeOK, Return
<1>2. QED
  BY <1>1 DEF InTurn, Undisturbed

LEMMA LoadedHasKeys ==
    ASSUME NEW keys \in Keys
    PROVE  KeysOf(Loaded(keys)) = keys /\ Loaded(keys).version = None
                /\ Loaded(keys).identity = keys.identity
  BY DEF KeysOf, Loaded, KeyState, Keys

LEMMA InTurnSteps ==
    IInv /\ InTurnInv /\ [Next]_vars => InTurnInv'
<1> SUFFICES ASSUME IInv, InTurnInv, [Next]_vars PROVE InTurnInv'
  OBVIOUS
<1>0. callers' = callers
  BY DEF Next, vars
<1> SUFFICES ASSUME InTurn PROVE InTurnInv'
  BY <1>0 DEF InTurn, InTurnInv
<1> USE <1>0 DEF callVars
<1>a. /\ TypeOK /\ CallsFit /\ VersionIsOfLoadedKeys
       /\ callers \subseteq Threads /\ \A t \in callers : Undisturbed(t)
  BY DEF IInv, InTurnInv, TypeOK
<1>1. CASE UNCHANGED vars
  BY <1>1 DEF vars, InTurnInv, Undisturbed, VersionIsOfLoadedKeys
<1>2. ASSUME NEW c \in Configs, UpdateConfig(c) PROVE InTurnInv'
  BY <1>2 DEF UpdateConfig, InTurnInv, Undisturbed, VersionIsOfLoadedKeys
<1>3. ASSUME NEW t \in callers, NEW p \in Pairs, GenerateKeypairs(t, p) PROVE InTurnInv'
  BY <1>a, <1>3, IdleIsUndisturbed
     DEF GenerateKeypairs, InTurnInv, VersionIsOfLoadedKeys, Loaded, KeyState
<1>4. ASSUME NEW t \in callers, NEW blob \in Blobs, NEW withVersion \in BOOLEAN,
             ImportKeys(t, blob, withVersion)
      PROVE  InTurnInv'
  <2>1. blob \in Keys /\ loaded' = Loaded(blob)
    BY <1>4, BlobsAreWhole DEF ImportKeys
  <2>2. VersionIsOfLoadedKeys' /\ loaded'.identity = blob.identity
    BY <2>1, LoadedHasKeys DEF VersionIsOfLoadedKeys
  <2>3. \A s \in callers' : Undisturbed(s)'
    <3>1. CASE withVersion
      <4>1. pc'[t] = "set version" /\ secret'[t] = blob
        BY <1>a, <1>4, <3>1 DEF ImportKeys, Goto, TypeOK
      <4>2. QED
        BY <2>2, <4>1 DEF InTurn, Undisturbed
    <3>2. CASE ~withVersion
      <4>1. pc'[t] = "idle"
        BY <1>4, <3>2 DEF ImportKeys
      <4>2. QED
        BY <4>1 DEF InTurn, Undisturbed
    <3>3. QED
      BY <3>1, <3>2
  <2>4. QED
    BY <2>2, <2>3 DEF InTurnInv
<1>5. ASSUME NEW t \in callers, SetImportedVersion(t) PROVE InTurnInv'
  <2>1. loaded' = [loaded EXCEPT !.version = loaded.identity]
    BY <1>5 DEF SetImportedVersion, InTurnInv, Undisturbed
  <2>2. VersionIsOfLoadedKeys'
    BY <1>a, <2>1 DEF VersionIsOfLoadedKeys, TypeOK
  <2>3. QED
    BY <1>a, <1>5, <2>2, IdleIsUndisturbed DEF SetImportedVersion, InTurnInv
<1>6. ASSUME NEW t \in callers, SetIdentity(t) PROVE InTurnInv'
  BY <1>a, <1>6, IdleIsUndisturbed
     DEF SetIdentity, InTurnInv, VersionIsOfLoadedKeys, TypeOK
<1>7. ASSUME NEW t \in callers, Lock(t) PROVE InTurnInv'
  BY <1>a, <1>7, IdleIsUndisturbed
     DEF Lock, InTurnInv, VersionIsOfLoadedKeys, Empty, KeyState
<1>8. ASSUME NEW t \in callers, NEW pin \in Pins, Setup(t, pin) PROVE InTurnInv'
  <2>1. pc'[t] = "register" /\ call'[t] = "setup" /\ loaded' = loaded
    BY <1>a, <1>8 DEF Setup, Start, Goto, TypeOK
  <2>2. QED
    BY <1>a, <2>1 DEF InTurnInv, InTurn, Undisturbed, VersionIsOfLoadedKeys
<1>9. ASSUME NEW t \in callers, NEW oldPin \in Pins, NEW newPin \in Pins,
             Unlock(t, oldPin) \/ ChangePin(t, oldPin, newPin)
      PROVE  InTurnInv'
  <2>1. pc'[t] = "recover" /\ loaded' = loaded
    BY <1>a, <1>9 DEF Unlock, ChangePin, Start, Goto, TypeOK
  <2>2. QED
    BY <1>a, <2>1 DEF InTurnInv, InTurn, Undisturbed, VersionIsOfLoadedKeys
<1>10. ASSUME NEW t \in callers, Delete(t) PROVE InTurnInv'
  <2>1. pc'[t] = "delete" /\ loaded' = loaded
    BY <1>a, <1>10 DEF Delete, Start, Goto, TypeOK
  <2>2. QED
    BY <1>a, <2>1 DEF InTurnInv, InTurn, Undisturbed, VersionIsOfLoadedKeys
<1>11. ASSUME NEW t \in callers, RecoverSecret(t) PROVE InTurnInv'
  <2>1. pc'[t] = "import" /\ secret'[t] = KeysOf(stored)'
    BY <1>a, <1>11 DEF RecoverSecret, Goto, TypeOK, KeysOf
  <2>2. loaded' = loaded
    BY <1>11 DEF RecoverSecret
  <2>3. QED
    BY <1>a, <2>1, <2>2 DEF InTurnInv, InTurn, Undisturbed, VersionIsOfLoadedKeys
<1>12. ASSUME NEW t \in callers, FailToRecover(t) PROVE InTurnInv'
  BY <1>a, <1>12, IdleIsUndisturbed
     DEF FailToRecover, GivesUp, InTurnInv, VersionIsOfLoadedKeys
<1>13. ASSUME NEW t \in callers, ImportSecret(t) PROVE InTurnInv'
  <2>1. /\ secret[t] \in Keys /\ secret[t] = KeysOf(stored)
        /\ loaded' = Loaded(secret[t]) /\ stored' = stored
    BY <1>a, <1>13 DEF ImportSecret, TypeOK, InTurnInv, Undisturbed
  <2>2. VersionIsOfLoadedKeys' /\ KeysOf(loaded)' = KeysOf(stored)'
    BY <2>1, LoadedHasKeys DEF VersionIsOfLoadedKeys
  <2>3. CASE Return(t)
    BY <1>a, <2>2, <2>3, IdleIsUndisturbed DEF InTurnInv
  <2>4. CASE Goto(t, "import", "export")
    <3>1. pc'[t] = "export"
      BY <1>a, <2>4 DEF Goto, TypeOK
    <3>2. QED
      BY <2>2, <3>1 DEF InTurnInv, InTurn, Undisturbed
  <2>5. QED
    BY <1>13, <2>3, <2>4 DEF ImportSecret
<1>14. ASSUME NEW t \in callers, ExportSecret(t) PROVE InTurnInv'
  <2>1. VersionIsOfLoadedKeys'
    BY <1>a, <1>14 DEF ExportSecret, VersionIsOfLoadedKeys
  <2>2. CASE Return(t)
    BY <1>a, <2>1, <2>2, IdleIsUndisturbed DEF InTurnInv
  <2>3. CASE ~Return(t)
    <3>1. pc[t] = "export" /\ pc' = [pc EXCEPT ![t] = "register"]
          /\ secret' = [secret EXCEPT ![t] = KeysOf(loaded)] /\ stored' = stored
      BY <1>14, <2>3 DEF ExportSecret, Goto
    <3>2. KeysOf(loaded) = KeysOf(stored)
      BY <3>1 DEF InTurnInv, Undisturbed
    <3>3. pc'[t] = "register" /\ secret'[t] = KeysOf(stored)'
      BY <1>a, <3>1, <3>2 DEF TypeOK
    <3>4. QED
      BY <2>1, <3>3 DEF InTurnInv, InTurn, Undisturbed
  <2>4. QED
    BY <2>2, <2>3
<1>15. ASSUME NEW t \in callers, RegisterSecret(t) \/ FailToRegister(t) \/ FailToDelete(t)
       PROVE  InTurnInv'
  <2>1. Return(t) /\ loaded' = loaded
    BY <1>15 DEF RegisterSecret, FailToRegister, FailToDelete
  <2>2. QED
    BY <1>a, <2>1, IdleIsUndisturbed DEF InTurnInv, VersionIsOfLoadedKeys
<1>16. ASSUME NEW t \in callers, DeleteKeys(t) PROVE InTurnInv'
  <2>1. pc'[t] = "lock" /\ loaded' = loaded
    BY <1>a, <1>16 DEF DeleteKeys, Goto, TypeOK
  <2>2. QED
    BY <1>a, <2>1 DEF InTurnInv, InTurn, Undisturbed, VersionIsOfLoadedKeys
<1>17. ASSUME NEW t \in callers, LockDeleted(t) PROVE InTurnInv'
  BY <1>a, <1>17, IdleIsUndisturbed
     DEF LockDeleted, InTurnInv, VersionIsOfLoadedKeys, Empty, KeyState
<1>18. QED
  BY <1>1, <1>2, <1>3, <1>4, <1>5, <1>6, <1>7, <1>8, <1>9, <1>10, <1>11, <1>12,
     <1>13, <1>14, <1>15, <1>16, <1>17 DEF Next, Step

\* When calls take turns, a signing-key version that is set is that of the
\* loaded identity key, whatever fails.
THEOREM VersionsInTurn == Spec => []VersionInTurn
<1>1. InTurnInv => VersionInTurn
  BY DEF InTurnInv, VersionInTurn
<1>2. QED
  BY <1>1, InTurnInitially, InTurnSteps, Inductive, PTL DEF Spec

\* When calls take turns, change_pin registers the keys that were stored, even
\* when its answer is lost: only setup and delete replace or remove them.
THEOREM StoredKeysInTurn == Spec => StoredKeysSurviveInTurn
<1> DEFINE Survive ==
        InTurn /\ stored # NotStored /\ KeysOf(stored') # KeysOf(stored) =>
            \E t \in Threads :
                \/ pc[t] = "delete"
                \/ pc[t] = "register" /\ call[t] = "setup"
<1>1. IInv /\ InTurnInv /\ [Next]_vars => [Survive]_stored
  <2> SUFFICES ASSUME IInv, InTurnInv, InTurn, Next, stored' # stored,
                      KeysOf(stored') # KeysOf(stored)
               PROVE  \E t \in Threads :
                          \/ pc[t] = "delete"
                          \/ pc[t] = "register" /\ call[t] = "setup"
    BY DEF vars
  <2>0. callers \subseteq Threads
    BY DEF IInv, TypeOK
  <2>1. PICK t \in callers :
            \/ pc[t] = "delete"
            \/ pc[t] = "register" /\ stored' = Registered(t)
    <3>1. PICK t \in callers :
              RegisterSecret(t) \/ FailToRegister(t) \/ DeleteKeys(t) \/ FailToDelete(t)
      BY DEF Next, Step, UpdateConfig, GenerateKeypairs, ImportKeys, SetImportedVersion,
             SetIdentity, Lock, Setup, Unlock, ChangePin, Delete, RecoverSecret,
             FailToRecover, ImportSecret, ExportSecret, LockDeleted
    <3>2. CASE RegisterSecret(t) \/ FailToRegister(t)
      BY <3>2 DEF RegisterSecret, FailToRegister
    <3>3. CASE DeleteKeys(t) \/ FailToDelete(t)
      BY <3>3 DEF DeleteKeys, FailToDelete, Goto
    <3>4. QED
      BY <3>1, <3>2, <3>3
  <2>2. CASE pc[t] = "register" /\ stored' = Registered(t)
    <3>1. secret[t] \in Keys
      BY <2>0 DEF IInv, TypeOK
    <3>2. KeysOf(stored') = secret[t]
      BY <2>2, <3>1 DEF Registered, Stored, KeysOf, Keys
    <3>3. call[t] = "setup"
      BY <2>2, <3>2 DEF InTurnInv, Undisturbed
    <3>4. QED
      BY <2>0, <2>2, <3>3
  <2>3. QED
    BY <2>0, <2>1, <2>2
<1>2. QED
  BY <1>1, InTurnInitially, InTurnSteps, Inductive, PTL DEF Spec, StoredKeysSurviveInTurn
=============================================================================

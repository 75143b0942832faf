----------------------------- MODULE KeyLifecycle -----------------------------
(***************************************************************************)
(* The account keys of one Chat: the identity and signing keys in memory,  *)
(* the version they are registered under, and the copy Juicebox stores     *)
(* behind a PIN.                                                           *)
(*                                                                         *)
(* KeypairManager holds the three in-memory fields under one lock, so each *)
(* of its methods is one step; but a call of Chat or ChatCore often makes  *)
(* several, and setup, unlock, change_pin and delete wait for Juicebox in  *)
(* between.  While one call waits, any other may run on the same Chat:     *)
(* its methods take it by shared reference, and the bindings run them on   *)
(* other threads or, in JavaScript, between two awaits.  One action is one *)
(* critical section, or one effect at Juicebox.                            *)
(*                                                                         *)
(* A key pair stands for an identity key, the signing key generated with   *)
(* it and the version both are registered under; callers are taken to give *)
(* import_keys and set_identity the right version.                         *)
(***************************************************************************)
EXTENDS Integers, FiniteSets

CONSTANTS
    Threads,   \* calls under way at once
    Pairs,     \* key pairs
    Pins,      \* PINs, all of sufficient strength
    Configs,   \* Juicebox configurations that are not blank
    None       \* no key, version, PIN, configuration

ASSUME NoneAssumption == None \notin Pairs \cup Pins \cup Configs

VARIABLES
    callers,  \* the threads that call this Chat, which stay the same
    loaded,   \* KeyState
    made,     \* pairs generated so far
    config,   \* config of the Chat
    stored,   \* what Juicebox stores
    pc,       \* what each call does next
    call,     \* the call: "setup", "unlock", "change_pin", "delete", ...
    args,     \* its PINs
    secret,   \* the private keys it holds
    proved,   \* whether Juicebox accepted its old PIN (history)
    configs   \* the configurations it used (history)

callVars == <<call, args, secret, proved, configs>>
vars == <<callers, loaded, made, config, stored, pc, callVars>>

NoKeys == [identity |-> None, signing |-> None]

NoPins == [old |-> None, new |-> None]

KeyState(keys, version) ==
    [identity |-> keys.identity, signing |-> keys.signing, version |-> version]

Empty == KeyState(NoKeys, None)

KeysOf(state) == [identity |-> state.identity, signing |-> state.signing]

Stored(keys, pin) ==
    [identity |-> keys.identity, signing |-> keys.signing, pin |-> pin]

NotStored == Stored(NoKeys, None)

\* A pair's private keys as bytes: 64, or 32 for the identity key alone.
Both(p) == [identity |-> p, signing |-> p]

IdentityOnly(p) == [identity |-> p, signing |-> None]

Blobs == {Both(p) : p \in Pairs} \cup {IdentityOnly(p) : p \in Pairs}

Init ==
    /\ callers \in (SUBSET Threads) \ {{}}
    /\ loaded = Empty
    /\ made = {}
    /\ config \in Configs \cup {None}
    /\ stored = NotStored
    /\ pc = [t \in Threads |-> "idle"]
    /\ call = [t \in Threads |-> "none"]
    /\ args = [t \in Threads |-> NoPins]
    /\ secret = [t \in Threads |-> NoKeys]
    /\ proved = [t \in Threads |-> FALSE]
    /\ configs = [t \in Threads |-> {}]

Goto(t, from, to) ==
    /\ pc[t] = from
    /\ pc' = [pc EXCEPT ![t] = to]

\* The call of t returns, whatever the outcome, and wipes what it held.
Return(t) ==
    /\ pc' = [pc EXCEPT ![t] = "idle"]
    /\ call' = [call EXCEPT ![t] = "none"]
    /\ args' = [args EXCEPT ![t] = NoPins]
    /\ secret' = [secret EXCEPT ![t] = NoKeys]
    /\ proved' = [proved EXCEPT ![t] = FALSE]
    /\ configs' = [configs EXCEPT ![t] = {}]

-----------------------------------------------------------------------------
(***************************************************************************)
(* KeypairManager.                                                         *)
(***************************************************************************)

\* Variants of the load: one that keeps the signing key when the bytes hold
\* none, and one that keeps the version.
LoadedKeepingSigning(keys) ==
    KeyState([keys EXCEPT !.signing = IF @ = None THEN loaded.signing ELSE @], None)

LoadedKeepingVersion(keys) == KeyState(keys, loaded.version)

\* load_from_private_keys and set_keypairs: the version was that of the
\* previous identity, and goes with it.
Loaded(keys) == KeyState(keys, None)

\* generate_keypairs makes a pair nobody had.
GenerateKeypairs(t, p) ==
    /\ pc[t] = "idle"
    /\ p \notin made
    /\ made' = made \cup {p}
    /\ loaded' = Loaded(Both(p))
    /\ UNCHANGED <<config, stored, pc, callVars>>

\* import_keys: the load, under the state's lock...
ImportKeys(t, blob, withVersion) ==
    /\ pc[t] = "idle"
    /\ made' = made \cup {blob.identity}
    /\ loaded' = Loaded(blob)
    /\ IF withVersion
       THEN /\ Goto(t, "idle", "set version")
            /\ secret' = [secret EXCEPT ![t] = blob]
            /\ call' = [call EXCEPT ![t] = "import_keys"]
       ELSE UNCHANGED <<pc, secret, call>>
    /\ UNCHANGED <<config, stored, args, proved, configs>>

\* ... then set_key_version, which takes the lock anew.
SetImportedVersion(t) ==
    /\ pc[t] = "set version"
    /\ loaded' = [loaded EXCEPT !.version = secret[t].identity]
    /\ Return(t)
    /\ UNCHANGED <<made, config, stored>>

\* set_identity, by a caller who has keys loaded.
SetIdentity(t) ==
    /\ pc[t] = "idle"
    /\ loaded.identity # None
    /\ loaded' = [loaded EXCEPT !.version = loaded.identity]
    /\ UNCHANGED <<made, config, stored, pc, callVars>>

\* lock.
Lock(t) ==
    /\ pc[t] = "idle"
    /\ loaded' = Empty
    /\ UNCHANGED <<made, config, stored, pc, callVars>>

-----------------------------------------------------------------------------
(***************************************************************************)
(* The calls that use Juicebox.                                            *)
(***************************************************************************)
UpdateConfig(c) ==
    /\ config' = c
    /\ UNCHANGED <<loaded, made, stored, pc, callVars>>

\* A call that finds a configuration starts.
Start(t, name, pins, next) ==
    /\ config # None
    /\ Goto(t, "idle", next)
    /\ call' = [call EXCEPT ![t] = name]
    /\ args' = [args EXCEPT ![t] = pins]
    /\ configs' = [configs EXCEPT ![t] = {config}]

\* setup: the loaded keys are exported under one lock, and on their way.
Setup(t, pin) ==
    /\ loaded.identity # None
    /\ Start(t, "setup", [old |-> None, new |-> pin], "register")
    /\ secret' = [secret EXCEPT ![t] = KeysOf(loaded)]
    /\ UNCHANGED <<loaded, made, config, stored, proved>>

Unlock(t, pin) ==
    /\ Start(t, "unlock", [old |-> pin, new |-> None], "recover")
    /\ UNCHANGED <<loaded, made, config, stored, secret, proved>>

ChangePin(t, oldPin, newPin) ==
    /\ Start(t, "change_pin", [old |-> oldPin, new |-> newPin], "recover")
    /\ UNCHANGED <<loaded, made, config, stored, secret, proved>>

Delete(t) ==
    /\ Start(t, "delete", NoPins, "delete")
    /\ UNCHANGED <<loaded, made, config, stored, secret, proved>>

\* recover_private_key answers with the stored keys, to the right PIN.
RecoverSecret(t) ==
    /\ Goto(t, "recover", "import")
    /\ stored # NotStored
    /\ args[t].old = stored.pin
    /\ secret' = [secret EXCEPT ![t] = KeysOf(stored)]
    /\ proved' = [proved EXCEPT ![t] = TRUE]
    /\ UNCHANGED <<loaded, made, config, stored, call, args, configs>>

\* A variant of what follows a failed recovery, that goes on with the keys in
\* memory.
GoesOnToExport(t) ==
    IF call[t] = "change_pin" /\ loaded.identity # None
    THEN Goto(t, "recover", "export") /\ UNCHANGED callVars
    ELSE Return(t)

GivesUp(t) == Return(t)

\* Or it fails: a wrong PIN, no registration, or any other failure.
FailToRecover(t) ==
    /\ pc[t] = "recover"
    /\ GivesUp(t)
    /\ UNCHANGED <<loaded, made, config, stored>>

\* unlock's import_keys without a version; change_pin goes on.
ImportSecret(t) ==
    /\ pc[t] = "import"
    /\ loaded' = Loaded(secret[t])
    /\ \/ call[t] = "unlock" /\ Return(t)
       \/ /\ call[t] = "change_pin"
          /\ Goto(t, "import", "export")
          /\ UNCHANGED callVars
    /\ UNCHANGED <<made, config, stored>>

\* change_pin reads the configuration and exports the loaded keys, or returns
\* the error when there are none.
ExportSecret(t) ==
    /\ pc[t] = "export"
    /\ IF config # None /\ loaded.identity # None
       THEN /\ Goto(t, "export", "register")
            /\ secret' = [secret EXCEPT ![t] = KeysOf(loaded)]
            /\ configs' = [configs EXCEPT ![t] = @ \cup {config}]
            /\ UNCHANGED <<call, args, proved>>
       ELSE Return(t)
    /\ UNCHANGED <<loaded, made, config, stored>>

\* A variant that registers under the wrong PIN.
RegisteredUnderOldPin(t) == Stored(secret[t], args[t].old)

Registered(t) == Stored(secret[t], args[t].new)

\* register_private_key takes effect, and says so...
RegisterSecret(t) ==
    /\ pc[t] = "register"
    /\ stored' = Registered(t)
    /\ Return(t)
    /\ UNCHANGED <<loaded, made, config>>

\* ... or fails, having taken effect or not.
FailToRegister(t) ==
    /\ pc[t] = "register"
    /\ stored' \in {stored, Registered(t)}
    /\ Return(t)
    /\ UNCHANGED <<loaded, made, config>>

DeleteKeys(t) ==
    /\ Goto(t, "delete", "lock")
    /\ stored' = NotStored
    /\ UNCHANGED <<loaded, made, config, callVars>>

FailToDelete(t) ==
    /\ pc[t] = "delete"
    /\ stored' \in {stored, NotStored}
    /\ Return(t)
    /\ UNCHANGED <<loaded, made, config>>

LockDeleted(t) ==
    /\ pc[t] = "lock"
    /\ loaded' = Empty
    /\ Return(t)
    /\ UNCHANGED <<made, config, stored>>

\* What one thread may do next: begin a call, or go on with the one it is in.
Step(t) ==
    \/ \E p \in Pairs : GenerateKeypairs(t, p)
    \/ \E blob \in Blobs, withVersion \in BOOLEAN : ImportKeys(t, blob, withVersion)
    \/ SetImportedVersion(t)
    \/ SetIdentity(t)
    \/ Lock(t)
    \/ \E pin \in Pins : Setup(t, pin) \/ Unlock(t, pin)
    \/ \E oldPin, newPin \in Pins : ChangePin(t, oldPin, newPin)
    \/ Delete(t)
    \/ RecoverSecret(t)
    \/ FailToRecover(t)
    \/ ImportSecret(t)
    \/ ExportSecret(t)
    \/ RegisterSecret(t)
    \/ FailToRegister(t)
    \/ DeleteKeys(t)
    \/ FailToDelete(t)
    \/ LockDeleted(t)

Next ==
    /\ \/ \E c \in Configs : UpdateConfig(c)
       \/ \E t \in callers : Step(t)
    /\ UNCHANGED callers

Spec == Init /\ [][Next]_vars

-----------------------------------------------------------------------------
(***************************************************************************)
(* Properties.                                                             *)
(***************************************************************************)
PairOrNone == Pairs \cup {None}

Keys == [identity : PairOrNone, signing : PairOrNone]

PinOrNone == Pins \cup {None}

\* The type of the state.
TypeOK ==
    /\ callers \subseteq Threads
    /\ loaded \in [identity : PairOrNone, signing : PairOrNone, version : PairOrNone]
    /\ made \subseteq Pairs
    /\ config \in Configs \cup {None}
    /\ stored \in {NotStored}
            \cup [identity : Pairs, signing : PairOrNone, pin : Pins]
    /\ pc \in [Threads -> {"idle", "set version", "recover", "import", "export",
                           "register", "delete", "lock"}]
    /\ call \in [Threads -> {"none", "import_keys", "setup", "unlock",
                             "change_pin", "delete"}]
    /\ args \in [Threads -> [old : PinOrNone, new : PinOrNone]]
    /\ secret \in [Threads -> Keys]
    /\ proved \in [Threads -> BOOLEAN]
    /\ configs \in [Threads -> SUBSET Configs]

Whole(keys) ==
    /\ keys.signing \in {keys.identity, None}
    /\ keys.identity = None => keys.signing = None

\* Identity and signing key are of one pair, or the signing key is missing, in
\* memory, on the way to and from Juicebox and there: no interleaving of
\* generating, importing, locking and exporting mixes two pairs.
NeverMixesPairs ==
    Whole(loaded) /\ Whole(stored) /\ \A t \in Threads : Whole(secret[t])

\* The PIN of stored keys is replaced by setup, or by a change_pin whose old
\* PIN Juicebox accepted, and by nothing else, whatever failed.
PinChangeNeedsOldPin ==
    [][\A pin \in Pins :
          stored.pin \notin {pin, None} /\ stored'.pin = pin =>
              \E t \in Threads :
                  pc[t] = "register" /\ (call[t] = "setup" \/ proved[t])]_stored

\* One thread calls this Chat: its calls take turns.
InTurn == \A s, t \in callers : s = t

\* A signing-key version that is set is that of the loaded identity key: no
\* sequence of generating, importing, unlocking and locking leaves the version
\* of earlier keys behind.
VersionIsOfLoadedKeys ==
    loaded.version # None => loaded.version = loaded.identity

\* When calls take turns, whatever fails, the version is that of the loaded
\* identity key (KeypairManager, import_keys); when they do not it may not be.
VersionInTurn == InTurn => VersionIsOfLoadedKeys

\* Only setup and delete replace or remove the keys Juicebox stores; change_pin
\* re-registers the stored keys, even when its answer is lost.
StoredKeysSurvive ==
    [][stored # NotStored /\ KeysOf(stored') # KeysOf(stored) =>
          \E t \in Threads :
              \/ pc[t] = "delete"
              \/ pc[t] = "register" /\ call[t] = "setup"]_stored

\* When calls take turns, only setup and delete replace or remove the keys
\* Juicebox stores; change_pin re-registers them even when its answer is lost.
StoredKeysSurviveInTurn ==
    [][InTurn /\ stored # NotStored /\ KeysOf(stored') # KeysOf(stored) =>
          \E t \in Threads :
              \/ pc[t] = "delete"
              \/ pc[t] = "register" /\ call[t] = "setup"]_stored

\* A call under way keeps the configuration it started with.
KeepsItsConfig == \A t \in Threads : Cardinality(configs[t]) <= 1
=============================================================================

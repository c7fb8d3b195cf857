---------------------------- MODULE HardwareSlots ----------------------------
(***************************************************************************)
(* The hardware-key backends of passman-hsm and the two ways the core uses *)
(* them: enrolling the two slots of a new vault, and unwrapping them at an *)
(* unlock, each in the two phases of begin_unwrap and complete_unwrap.     *)
(*                                                                         *)
(* A wrap blob is what the vault header keeps of a slot: its kind, a       *)
(* random name (an Android alias, a keyring uuid), the slot bound into it, *)
(* and the generation of the root it is under (a TPM owner seed, the key   *)
(* of one mock).  The world clears the TPM, re-enrols fingerprints, locks  *)
(* the keyring, takes keys away, alters the header and kills the process   *)
(* between any two steps.                                                  *)
(***************************************************************************)
EXTENDS Naturals

CONSTANTS
    MaxNames,  \* bound on the random names drawn
    MaxRoots,  \* bound on the generations of the root
    NoVault, Idle, NoLevel

Slots     == {"VaultKey", "TotpSeed"}
Kinds     == {"AndroidGcm", "Tpm2", "SecretService", "SoftwareMock"}
Levels    == {"Software", "TrustedEnvironment", "StrongBox"}
Platforms == {"android", "linux", "test"}
Errors    == {"Cancelled", "Transient", "HardwareAbsent", "PermanentlyInvalidated",
              "MalformedBlob", "Backend"}

\* slot and root mean something only to the kinds that bind them.
Blob == [kind : Kinds, name : 1 .. MaxNames, slot : Slots, root : 0 .. MaxRoots,
         whole : BOOLEAN]

\* A key in the Android Keystore, or a credential in the keyring
Key == [kind : {"AndroidGcm", "SecretService"}, name : 1 .. MaxNames, slot : Slots,
        level : Levels \cup {NoLevel}]

Vault == [Slots -> Blob]

Stages == {"enrol", "prompt", "persist", "seal", "write", "begin", "complete"}

\* The operation of the core under way: the slot it is at, the blobs made so far or read
\* from the vault, and the SRK a TPM call has got hold of
Operation == [stage : Stages, creating : BOOLEAN, slot : Slots, made : [Slots -> Blob \cup {Idle}],
              name : 0 .. MaxNames, srk : 0 .. MaxRoots]

ASSUME HardwareAssumption ==
    /\ MaxNames \in Nat /\ MaxRoots \in Nat \ {0}
    /\ NoVault \notin Vault /\ NoLevel \notin Levels /\ Idle \notin Operation \cup Blob

VARIABLES
    platform,  \* what passman was built for
    backend,   \* the selected backend, or "none" while passman does not run
    allow,     \* --allow-software-hsm of the running process
    cached,    \* AndroidKeyStore::cached_level
    keys,      \* the keys that can be used
    spoilt,    \* names of Android keys invalidated for good
    root,      \* generation of the TPM's owner seed, or of the mock's key
    srk,       \* generation of the SRK persisted in the TPM, 0 for none
    names,     \* how many names were drawn
    vault,     \* the slots in the vault header
    op,        \* the operation under way
    answer,    \* how the last call of the backend ended
    altered,   \* history: the header is not as passman wrote it
    optedIn,   \* history: some process ran with --allow-software-hsm
    removed    \* history: names of the keys somebody else destroyed

worldVars == <<platform, spoilt, root, altered, optedIn, removed>>
procVars  == <<backend, allow>>
vars == <<worldVars, procVars, cached, keys, srk, names, vault, op, answer>>

Answer == [result : {"none", "enrolled", "released"} \cup Errors, asked : Slots, got : Slots]

TypeOK ==
    /\ platform \in Platforms
    /\ backend \in Kinds \cup {"none"}
    /\ allow \in BOOLEAN /\ altered \in BOOLEAN /\ optedIn \in BOOLEAN
    /\ cached \in Levels \cup {NoLevel}
    /\ keys \subseteq Key
    /\ spoilt \subseteq 1 .. MaxNames /\ removed \subseteq 1 .. names
    /\ root \in 1 .. MaxRoots /\ srk \in 0 .. root
    /\ names \in 0 .. MaxNames
    /\ vault \in Vault \cup {NoVault}
    /\ op \in Operation \cup {Idle}
    /\ op # Idle => backend # "none"
    /\ answer \in Answer

NoAnswer == [result |-> "none", asked |-> "VaultKey", got |-> "VaultKey"]

Init ==
    /\ platform \in Platforms
    /\ backend = "none" /\ allow = FALSE /\ cached = NoLevel
    /\ keys = {} /\ spoilt = {}
    /\ root = 1 /\ srk = 0 /\ names = 0
    /\ vault = NoVault
    /\ op = Idle /\ answer = NoAnswer
    /\ altered = FALSE /\ optedIn = FALSE /\ removed = {}

-----------------------------------------------------------------------------
(* The process, and the backend it selects *)

\* Mutant: without a TPM the keyring is used, asked for or not.
FallbackUnasked(usable, allowed) == IF usable THEN "Tpm2" ELSE "SecretService"

\* select_linux_backend: a usable TPM, else the keyring if the user allows it, else
\* HardwareAbsent ("none")
LinuxBackend(usable, allowed) ==
    IF usable THEN "Tpm2" ELSE IF allowed THEN "SecretService" ELSE "none"

Launch(allowed) ==
    /\ backend = "none"
    /\ allow' = allowed
    /\ optedIn' = (optedIn \/ allowed)
    /\ \/ platform = "android" /\ backend' = "AndroidGcm" /\ UNCHANGED root
       \/ platform = "linux" /\ UNCHANGED root
             /\ \E usable \in BOOLEAN : backend' = LinuxBackend(usable, allowed)
       \/ platform = "test" /\ backend' = "SoftwareMock"
             /\ root < MaxRoots /\ root' = root + 1   \* MockKeyStore::new draws a key
    /\ backend' # "none"
    /\ answer' = NoAnswer
    /\ UNCHANGED <<platform, spoilt, altered, removed, cached, keys, srk, names, vault, op>>

\* The process ends, or is killed in the middle of a call.
Exit ==
    /\ backend # "none"
    /\ backend' = "none" /\ allow' = FALSE
    /\ cached' = NoLevel
    /\ op' = Idle /\ answer' = NoAnswer
    /\ UNCHANGED <<worldVars, keys, srk, names, vault>>

-----------------------------------------------------------------------------
(* The core's two operations *)

At(stage, kind) == op # Idle /\ op.stage = stage /\ backend = kind

\* create_vault and import_recovery refuse a mock without the opt-in.
BeginCreate ==
    /\ backend # "none" /\ op = Idle /\ vault = NoVault
    /\ backend = "SoftwareMock" => allow
    /\ op' = [stage |-> "enrol", creating |-> TRUE, slot |-> "VaultKey",
              made |-> [s \in Slots |-> Idle], name |-> 0, srk |-> 0]
    /\ answer' = NoAnswer
    /\ UNCHANGED <<worldVars, procVars, cached, keys, srk, names, vault>>

\* unlock, and the re-authentication of a session's export and password change
BeginUnlock ==
    /\ backend # "none" /\ op = Idle /\ vault # NoVault
    /\ backend = "SoftwareMock" => allow
    /\ op' = [stage |-> "begin", creating |-> FALSE, slot |-> "VaultKey",
              made |-> vault, name |-> 0, srk |-> 0]
    /\ answer' = NoAnswer
    /\ UNCHANGED <<worldVars, procVars, cached, keys, srk, names, vault>>

\* Mutant: the slot of the failed call stays open.
FailedOpen(error) ==
    /\ op' = [op EXCEPT !.stage = "failed"]
    /\ answer' = [result |-> error, asked |-> op.slot, got |-> op.slot]

\* A call of the backend fails, and the core gives up.
Failed(error) ==
    /\ op' = Idle
    /\ answer' = [result |-> error, asked |-> op.slot, got |-> op.slot]

\* The blob is one more of the vault to be.
Enrolled(blob) ==
    /\ op' = [op EXCEPT !.made[op.slot] = blob, !.name = 0, !.srk = 0, !.slot = "TotpSeed",
                        !.stage = IF op.slot = "VaultKey" THEN "enrol" ELSE "write"]
    /\ answer' = [result |-> "enrolled", asked |-> op.slot, got |-> op.slot]

\* Material enrolled for the slot "got" is handed out for the one asked for.  The vault key
\* comes first; a password change needs no more, the others go on to the TOTP seed.
Released(got) ==
    /\ \/ op' = Idle
       \/ /\ op.slot = "VaultKey"
          /\ op' = [op EXCEPT !.slot = "TotpSeed", !.stage = "begin", !.srk = 0]
    /\ answer' = [result |-> "released", asked |-> op.slot, got |-> got]

\* The header is written when both slots are enrolled; the write may fail.
WriteVault ==
    /\ op # Idle /\ op.stage = "write"
    /\ vault' \in {vault, op.made}
    /\ op' = Idle /\ answer' = NoAnswer
    /\ UNCHANGED <<worldVars, procVars, cached, keys, srk, names>>

\* The key the blob needs, if it is still there
KeysOf(kind, name, slot) == {k \in keys : k.kind = kind /\ k.name = name /\ k.slot = slot}

\* begin_unwrap of every backend: the blob must be of this backend's kind and its payload
\* must parse; the mock also compares the slot stored in clear.
BeginUnwrap ==
    /\ op # Idle /\ op.stage = "begin"
    /\ LET blob   == op.made[op.slot]
           parses == /\ blob.kind = backend
                     /\ backend = "SoftwareMock" => blob.slot = op.slot
       IN  \/ parses /\ op' = [op EXCEPT !.stage = "complete"] /\ UNCHANGED answer
           \/ ~parses /\ Failed("MalformedBlob")
           \/ parses /\ ~blob.whole /\ Failed("MalformedBlob")
    /\ UNCHANGED <<worldVars, procVars, cached, keys, srk, names, vault>>

\* complete_unwrap takes back a handle this very backend made.
Handle(kind) == At("complete", kind) /\ op.made[op.slot].kind = kind

-----------------------------------------------------------------------------
(* android.rs, over the Keystore of the device *)

\* Mutant: every slot's key has the same alias.
FixedAlias == 1

\* random_alias
Alias == names + 1

\* map_keystore_error
MapKeystoreError ==
    [Cancelled |-> "Cancelled", Lockout |-> "Transient", KeyInvalidated |-> "PermanentlyInvalidated",
     AuthFailed |-> "MalformedBlob", NoSecureLockOrHardware |-> "HardwareAbsent",
     Backend |-> "Backend"]

\* security_level: the level found once is kept, a failed probe counts as Software and is
\* not kept.
SecurityLevel(level) ==
    IF cached # NoLevel THEN level = cached /\ UNCHANGED cached
    ELSE \/ cached' = level
         \/ level = "Software" /\ UNCHANGED cached

\* AndroidKeyStore::enroll up to the prompt inside wrap: a Software device is refused before
\* a key is made, else wrap makes the key, replacing one of the same alias.
AndroidEnroll ==
    /\ At("enrol", "AndroidGcm")
    /\ names < MaxNames
    /\ \E level \in Levels :
         /\ SecurityLevel(level)
         /\ \/ level = "Software" /\ Failed("HardwareAbsent") /\ UNCHANGED <<keys, names>>
            \/ /\ level # "Software"
               /\ \E made \in Levels :
                    keys' = {k \in keys : k.name # Alias} \cup
                            {[kind |-> "AndroidGcm", name |-> Alias, slot |-> op.slot, level |-> made]}
               /\ names' = names + 1
               /\ op' = [op EXCEPT !.stage = "prompt", !.name = Alias]
               /\ UNCHANGED answer
    /\ UNCHANGED <<worldVars, procVars, srk, vault>>

\* Best effort: the key of the failed enrolment is gone, or not.
Discarded(name) == keys' \in {keys, {k \in keys : k.name # name}}

\* wrap is done; a key that is Software after all is thrown away.
AndroidWrapped ==
    /\ At("prompt", "AndroidGcm")
    /\ op.name \notin spoilt /\ op.name \notin removed
    /\ IF \E k \in KeysOf("AndroidGcm", op.name, op.slot) : k.level = "Software"
       THEN Discarded(op.name) /\ Failed("HardwareAbsent")
       ELSE /\ Enrolled([kind |-> "AndroidGcm", name |-> op.name, slot |-> op.slot, root |-> 0,
                         whole |-> TRUE])
            /\ UNCHANGED keys
    /\ UNCHANGED <<worldVars, procVars, cached, srk, names, vault>>

\* What the Keystore may answer whatever the key
KeystoreErrors == {"Cancelled", "Lockout", "NoSecureLockOrHardware", "Backend"}

AndroidWrapFails ==
    /\ At("prompt", "AndroidGcm")
    /\ \E e \in KeystoreErrors \cup (IF op.name \in spoilt THEN {"KeyInvalidated"} ELSE {}) :
         Failed(MapKeystoreError[e])
    /\ Discarded(op.name)
    /\ UNCHANGED <<worldVars, procVars, cached, srk, names, vault>>

\* AndroidKeyStore::complete_unwrap: the requested slot is the associated data.
AndroidUnwrap ==
    /\ Handle("AndroidGcm")
    /\ LET blob    == op.made[op.slot]
           present == \E k \in keys : k.kind = "AndroidGcm" /\ k.name = blob.name
           usable  == present /\ blob.name \notin spoilt
           bound   == blob.whole /\ blob.slot = op.slot
       IN  \/ usable /\ bound /\ Released(blob.slot)
           \/ usable /\ ~bound /\ Failed(MapKeystoreError["AuthFailed"])
           \/ present /\ ~usable /\ Failed(MapKeystoreError["KeyInvalidated"])
           \/ present /\ \E e \in KeystoreErrors : Failed(MapKeystoreError[e])
           \/ ~present /\ Failed(MapKeystoreError["Backend"])
    /\ UNCHANGED <<worldVars, procVars, cached, keys, srk, names, vault>>

-----------------------------------------------------------------------------
(* tpm2.rs: each call opens a context, finds or makes the storage root key and *)
(* seals or unseals under it.                                                  *)

\* Mutant: a stale handle counts as a lost key.
MapHandleToLoss ==
    [Lockout |-> "Transient", Canceled |-> "Cancelled", Integrity |-> "PermanentlyInvalidated",
     Handle |-> "PermanentlyInvalidated"]

\* map_tpm_error
MapTpmError ==
    [Lockout |-> "Transient", Canceled |-> "Cancelled", Integrity |-> "PermanentlyInvalidated",
     Handle |-> "Backend"]

TpmFails == \E e \in {"Lockout", "Canceled", "Handle"} : Failed(MapTpmError[e])

\* open_context and the first half of ensure_srk: the persistent SRK is used, or a primary
\* is created.
TpmOpen ==
    /\ At("enrol", "Tpm2") \/ Handle("Tpm2")
    /\ \/ Failed("HardwareAbsent")
       \/ TpmFails
       \/ UNCHANGED answer /\ srk # 0 /\ op' = [op EXCEPT !.stage = "seal", !.srk = srk]
       \/ UNCHANGED answer /\ srk = 0 /\ op' = [op EXCEPT !.stage = "persist", !.srk = root]
    /\ UNCHANGED <<worldVars, procVars, cached, keys, srk, names, vault>>

\* The second half: evict_control persists the primary; if the handle has been taken in the
\* meantime, its key is used.
PersistSrk ==
    /\ At("persist", "Tpm2")
    /\ \/ TpmFails /\ UNCHANGED srk
       \/ /\ op.srk = root /\ srk = 0
          /\ srk' = op.srk
          /\ op' = [op EXCEPT !.stage = "seal"] /\ UNCHANGED answer
       \/ /\ srk # 0 /\ UNCHANGED srk
          /\ op' = [op EXCEPT !.stage = "seal", !.srk = srk] /\ UNCHANGED answer
    /\ UNCHANGED <<worldVars, procVars, cached, keys, names, vault>>

\* Tpm2KeyStore::enroll seals the slot's tag with the secret.
TpmSeal ==
    /\ At("seal", "Tpm2") /\ op.creating
    /\ names < MaxNames
    /\ \/ TpmFails /\ UNCHANGED names
       \/ /\ op.srk = root
          /\ names' = names + 1
          /\ Enrolled([kind |-> "Tpm2", name |-> names', slot |-> op.slot, root |-> op.srk,
                       whole |-> TRUE])
    /\ UNCHANGED <<worldVars, procVars, cached, keys, srk, vault>>

\* Mutant: the unsealed tag is stripped and not compared.
AnyTag(blob) == TRUE

\* The tag inside the sealed object must be the requested slot's.
TagMatches(blob) == blob.slot = op.slot

\* Tpm2KeyStore::complete_unwrap: load and unseal, then the tag
TpmUnseal ==
    /\ At("seal", "Tpm2") /\ ~op.creating
    /\ LET blob == op.made[op.slot]
           loads == op.srk = root /\ blob.root = root /\ blob.whole
       IN  \/ TpmFails
           \/ op.srk = root /\ ~loads /\ Failed(MapTpmError["Integrity"])
           \/ loads /\ TagMatches(blob) /\ Released(blob.slot)
           \/ loads /\ ~TagMatches(blob) /\ Failed("MalformedBlob")
    /\ UNCHANGED <<worldVars, procVars, cached, keys, srk, names, vault>>

-----------------------------------------------------------------------------
(* secret_service.rs and mock.rs *)

\* map_keyring_error
MapKeyringError ==
    [NoEntry |-> "PermanentlyInvalidated", NoStorageAccess |-> "Transient", Other |-> "Backend"]

KeyringFails == \E e \in {"NoStorageAccess", "Other"} : Failed(MapKeyringError[e])

\* SecretServiceKeyStore::enroll stores the secret under the slot and a random uuid.
KeyringEnroll ==
    /\ At("enrol", "SecretService")
    /\ names < MaxNames
    /\ \/ KeyringFails /\ UNCHANGED <<keys, names>>
       \/ /\ names' = names + 1
          /\ keys' = keys \cup {[kind |-> "SecretService", name |-> names', slot |-> op.slot,
                                 level |-> NoLevel]}
          /\ Enrolled([kind |-> "SecretService", name |-> names', slot |-> op.slot, root |-> 0,
                       whole |-> TRUE])
    /\ UNCHANGED <<worldVars, procVars, cached, srk, vault>>

\* SecretServiceKeyStore::complete_unwrap looks up the requested slot and the blob's uuid;
\* a corrupted uuid names nothing.
KeyringUnwrap ==
    /\ Handle("SecretService")
    /\ LET blob  == op.made[op.slot]
           found == IF blob.whole THEN KeysOf("SecretService", blob.name, op.slot) ELSE {}
       IN  \/ KeyringFails
           \/ found # {} /\ Released((CHOOSE k \in found : TRUE).slot)
           \/ found = {} /\ Failed(MapKeyringError["NoEntry"])
    /\ UNCHANGED <<worldVars, procVars, cached, keys, srk, names, vault>>

\* MockKeyStore::enroll prompts and seals under the key of this very store.
MockEnroll ==
    /\ At("enrol", "SoftwareMock")
    /\ names < MaxNames
    /\ \/ Failed("Cancelled") /\ UNCHANGED names
       \/ /\ names' = names + 1
          /\ Enrolled([kind |-> "SoftwareMock", name |-> names', slot |-> op.slot, root |-> root,
                       whole |-> TRUE])
    /\ UNCHANGED <<worldVars, procVars, cached, keys, srk, vault>>

\* MockKeyStore::complete_unwrap: another store's blob, or a tampered one, fails its AEAD.
MockUnwrap ==
    /\ Handle("SoftwareMock")
    /\ LET blob  == op.made[op.slot]
           opens == blob.root = root /\ blob.whole /\ blob.slot = op.slot
       IN  \/ Failed("Cancelled")
           \/ opens /\ Released(blob.slot)
           \/ ~opens /\ Failed("Backend")
    /\ UNCHANGED <<worldVars, procVars, cached, keys, srk, names, vault>>

\* check_forced: a store made by failing() answers every call with the same error.
MockForced ==
    /\ \E stage \in {"enrol", "begin", "complete"} : At(stage, "SoftwareMock")
    /\ \E e \in {"Transient", "HardwareAbsent", "Cancelled"} : Failed(e)
    /\ UNCHANGED <<worldVars, procVars, cached, keys, srk, names, vault>>

\* invalidate of every backend: the key or the credential is destroyed; the TPM and the
\* mock keep nothing to destroy.  The core has no caller of it yet.
Invalidate(slot) ==
    /\ backend # "none" /\ op = Idle /\ vault # NoVault
    /\ LET blob == vault[slot]
       IN  /\ blob.kind = backend /\ blob.kind \in {"AndroidGcm", "SecretService"} /\ blob.whole
           /\ KeysOf(blob.kind, blob.name, slot) # {}
           /\ keys' = keys \ KeysOf(blob.kind, blob.name, slot)
           /\ removed' = removed \cup {blob.name}
    /\ answer' = NoAnswer
    /\ UNCHANGED <<platform, spoilt, root, altered, optedIn, procVars, cached, srk, names, vault, op>>

-----------------------------------------------------------------------------
(* The world *)

\* The owner clears the TPM: a new seed, and no persistent SRK.
TpmClear ==
    /\ platform = "linux" /\ root < MaxRoots
    /\ root' = root + 1 /\ srk' = 0
    /\ UNCHANGED <<platform, spoilt, altered, optedIn, removed, procVars, cached, keys, names, vault,
                   op, answer>>

\* Another process persists the SRK (made from the same template), or evicts it.
OthersSrk ==
    /\ platform = "linux" /\ srk' = IF srk = 0 THEN root ELSE 0
    /\ UNCHANGED <<worldVars, procVars, cached, keys, names, vault, op, answer>>

\* A new fingerprint spoils the Android keys there are.
BiometricReenrol ==
    /\ platform = "android"
    /\ {k.name : k \in keys} \ spoilt # {}
    /\ spoilt' = spoilt \cup {k.name : k \in keys}
    /\ UNCHANGED <<platform, root, altered, optedIn, removed, procVars, cached, keys, srk, names, vault,
                   op, answer>>

\* The user wipes a key of the app, or a credential of the keyring.
KeyRemoved ==
    /\ \E k \in keys : keys' = keys \ {k} /\ removed' = removed \cup {k.name}
    /\ UNCHANGED <<platform, spoilt, root, altered, optedIn, procVars, cached, srk, names, vault, op,
                   answer>>

\* The header on disk is damaged: slots swapped, a slot corrupted or of a foreign kind.
Alter ==
    /\ vault # NoVault /\ op = Idle /\ ~altered
    /\ vault' \in {[s \in Slots |-> vault[IF s = "VaultKey" THEN "TotpSeed" ELSE "VaultKey"]]}
                   \cup {[vault EXCEPT ![s].whole = FALSE] : s \in Slots}
                   \cup {[vault EXCEPT ![s].kind = k] : s \in Slots, k \in Kinds}
    /\ altered' = TRUE
    /\ UNCHANGED <<platform, spoilt, root, optedIn, removed, procVars, cached, keys, srk, names, op,
                   answer>>

Next ==
    \/ \E allowed \in BOOLEAN : Launch(allowed)
    \/ Exit
    \/ BeginCreate \/ BeginUnlock \/ WriteVault \/ BeginUnwrap
    \/ AndroidEnroll \/ AndroidWrapped \/ AndroidWrapFails \/ AndroidUnwrap
    \/ TpmOpen \/ PersistSrk \/ TpmSeal \/ TpmUnseal
    \/ KeyringEnroll \/ KeyringUnwrap
    \/ MockEnroll \/ MockUnwrap \/ MockForced
    \/ \E slot \in Slots : Invalidate(slot)
    \/ TpmClear \/ OthersSrk \/ BiometricReenrol \/ KeyRemoved \/ Alter

Spec == Init /\ [][Next]_vars

-----------------------------------------------------------------------------
(* Properties *)

\* What a backend releases was enrolled for the slot it was asked for, whatever was done to
\* the header in between: each backend binds the slot in its own way (associated data, a
\* sealed tag, the credential's name).
SlotBound == answer.result = "released" => answer.got = answer.asked

\* The blob's key can never be used again.
KeyGone(blob) ==
    CASE blob.kind = "AndroidGcm" -> blob.name \in spoilt
      [] blob.kind = "Tpm2" -> blob.root < root
      [] blob.kind = "SecretService" -> blob.name \in removed
      [] OTHER -> FALSE

\* The only error that sends the user to the recovery file comes only when the key is
\* really lost, or the header was tampered with: never for a lockout, a locked keyring, a
\* cancelled prompt or a TPM handle that went stale under the call.
LossIsReal ==
    answer.result = "PermanentlyInvalidated" =>
        altered \/ IF vault = NoVault THEN spoilt # {} ELSE KeyGone(vault[answer.asked])

\* The blobs of the vault and of a vault in the making
Blobs == (IF vault = NoVault THEN {} ELSE {vault[s] : s \in Slots})
           \cup (IF op = Idle THEN {} ELSE {op.made[s] : s \in Slots} \ {Idle})

\* Every blob has its key in the Keystore or the keyring until somebody else destroys it: no
\* retry, clean-up or second enrolment of passman's own takes or replaces it.
KeysKept ==
    ~altered => \A blob \in Blobs : blob.kind \in {"AndroidGcm", "SecretService"} =>
                    blob.name \in removed \/ KeysOf(blob.kind, blob.name, blob.slot) # {}

\* A vault never rests on a weaker key than the user agreed to: a keyring or a mock only
\* after --allow-software-hsm, an Android key never outside secure hardware, even when the
\* probe and the key disagree.
NoSilentDowngrade ==
    vault # NoVault /\ ~altered =>
        \A s \in Slots :
            /\ vault[s].kind \in {"SecretService", "SoftwareMock"} => optedIn
            /\ vault[s].kind = "AndroidGcm" =>
                  \A k \in KeysOf("AndroidGcm", vault[s].name, s) : k.level # "Software"
=============================================================================

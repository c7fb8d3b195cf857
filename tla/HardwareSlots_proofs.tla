------------------------- MODULE HardwareSlots_proofs -------------------------
(***************************************************************************)
(* Proofs about HardwareSlots, for every backend, any number of names and  *)
(* generations of the root, and whatever the world does between two steps. *)
(***************************************************************************)
EXTENDS HardwareSlots, TLAPS

-----------------------------------------------------------------------------
(* The inductive invariant *)

SoftKinds == {"SecretService", "SoftwareMock"}
KeyKinds  == {"AndroidGcm", "SecretService"}

\* What passman wrote for a slot: a blob bound to it, under a root that exists or did, of
\* a kind the user agreed to, whose key is there until somebody else destroys it, and in
\* secure hardware if it is an Android key.
BlobInv(s, blob) ==
    /\ blob \in Blob /\ blob.slot = s /\ blob.whole
    /\ blob.name <= names /\ blob.root <= root
    /\ blob.kind \in SoftKinds => optedIn
    /\ blob.kind \in KeyKinds => blob.name \in removed \/ KeysOf(blob.kind, blob.name, s) # {}
    /\ blob.kind = "AndroidGcm" =>
          \A k \in KeysOf("AndroidGcm", blob.name, s) : k.level # "Software"

BlobsInv ==
    ~altered =>
        /\ vault # NoVault => \A s \in Slots : BlobInv(s, vault[s])
        /\ op # Idle => \A s \in Slots : op.made[s] # Idle => BlobInv(s, op.made[s])

\* An operation that creates finds no vault, and has made the first slot's blob when it
\* is at the second; one that unwraps holds the blobs of the vault.
OpInv ==
    op # Idle =>
        /\ op.creating =>
              /\ vault = NoVault /\ op.stage \in {"enrol", "prompt", "persist", "seal", "write"}
              /\ op.slot = "TotpSeed" => op.made["VaultKey"] # Idle
              /\ op.stage = "write" => \A s \in Slots : op.made[s] # Idle
        /\ ~op.creating =>
              /\ vault # NoVault /\ op.made = vault
              /\ op.stage \in {"begin", "complete", "persist", "seal"}
              /\ op.stage # "begin" => op.made[op.slot].kind = backend
        /\ op.stage = "prompt" =>
              /\ op.name \in 1 .. names
              /\ op.name \in removed \/ KeysOf("AndroidGcm", op.name, op.slot) # {}
        /\ backend = "SoftwareMock" => optedIn

KeyNames == \A k \in keys : k.name <= names

Consent == (allow => optedIn) /\ (backend = "SecretService" => optedIn)

HardwareInv ==
    /\ TypeOK /\ KeyNames /\ Consent /\ OpInv /\ BlobsInv
    /\ SlotBound /\ LossIsReal

\* The invariant holds before passman is first run.
LEMMA HardwareInit == Init => HardwareInv
<1> SUFFICES ASSUME Init PROVE HardwareInv
  OBVIOUS
<1>1. /\ root \in 1 .. MaxRoots /\ srk \in 0 .. root /\ names \in 0 .. MaxNames
      /\ spoilt \subseteq 1 .. MaxNames /\ removed \subseteq 1 .. names
  BY HardwareAssumption DEF Init
<1>2. answer \in Answer
  BY DEF Init, Answer, NoAnswer, Slots
<1>3. TypeOK
  BY <1>1, <1>2 DEF Init, TypeOK
<1>4. QED
  BY <1>3 DEF Init, HardwareInv, KeyNames, Consent, OpInv, BlobsInv, SlotBound, LossIsReal, NoAnswer

-----------------------------------------------------------------------------
(* What keeps a blob *)

\* Names, roots and losses only grow, consent is not taken back, and a key goes only by
\* being destroyed; a new Android key has a new name.
Onward ==
    /\ names' \in Nat /\ names <= names' /\ root' \in Nat /\ root <= root'
    /\ optedIn => optedIn'
    /\ removed \subseteq removed' /\ spoilt \subseteq spoilt'
    /\ \A k \in keys : k \in keys' \/ k.name \in removed'
    /\ \A k \in keys' : k \in keys \/ k.kind # "AndroidGcm" \/ k.name > names

\* Such a step keeps what passman wrote.
LEMMA BlobStays ==
    ASSUME Onward, names \in Nat, root \in Nat, NEW s \in Slots, NEW blob, BlobInv(s, blob)
    PROVE  BlobInv(s, blob)'
<1>1. blob.name \in Nat /\ blob.root \in Nat
  BY HardwareAssumption DEF BlobInv, Blob
<1>2. blob.kind \in KeyKinds => blob.name \in removed' \/ KeysOf(blob.kind, blob.name, s)' # {}
  BY DEF Onward, BlobInv, KeysOf
<1>3. ASSUME blob.kind = "AndroidGcm", NEW k \in KeysOf("AndroidGcm", blob.name, s)'
      PROVE  k.level # "Software"
  <2>1. k \in keys' /\ k.kind = "AndroidGcm" /\ k.name = blob.name /\ k.slot = s
    BY <1>3 DEF KeysOf
  <2>2. k \in keys
    BY <1>1, <2>1 DEF Onward, BlobInv
  <2>3. k \in KeysOf("AndroidGcm", blob.name, s)
    BY <2>1, <2>2 DEF KeysOf
  <2>4. QED
    BY <1>3, <2>3 DEF BlobInv
<1>4. blob.name <= names' /\ blob.root <= root'
  BY <1>1 DEF Onward, BlobInv
<1>5. QED
  BY <1>2, <1>3, <1>4 DEF BlobInv, Onward

\* A key that is lost stays lost.
LEMMA LossStays ==
    ASSUME Onward, names \in Nat, root \in Nat, NEW blob \in Blob, KeyGone(blob)
    PROVE  KeyGone(blob)'
<1>1. blob.root \in Nat
  BY HardwareAssumption DEF Blob
<1>2. QED
  BY <1>1 DEF KeyGone, Onward

\* The types that the invariant gives of the operation under way
LEMMA OpTypes ==
    ASSUME HardwareInv, op # Idle
    PROVE  /\ op \in Operation /\ op.stage \in Stages /\ op.creating \in BOOLEAN
           /\ op.slot \in Slots /\ op.made \in [Slots -> Blob \cup {Idle}]
           /\ op.name \in 0 .. MaxNames /\ op.srk \in 0 .. MaxRoots
           /\ backend \in Kinds
           /\ names \in Nat /\ root \in Nat /\ srk \in 0 .. MaxRoots
  BY HardwareAssumption DEF HardwareInv, TypeOK, Operation

\* The blobs of an operation that unwraps are those of the vault.
LEMMA UnwrapBlobs ==
    ASSUME HardwareInv, op # Idle, ~op.creating
    PROVE  /\ vault # NoVault /\ vault \in Vault /\ op.made = vault
           /\ vault[op.slot] \in Blob
           /\ ~altered => BlobInv(op.slot, vault[op.slot])
<1>1. vault # NoVault /\ op.made = vault /\ op.slot \in Slots
  BY OpTypes DEF HardwareInv, OpInv
<1>2. vault \in Vault
  BY <1>1 DEF HardwareInv, TypeOK
<1>3. QED
  BY <1>1, <1>2 DEF HardwareInv, BlobsInv, Vault

-----------------------------------------------------------------------------
(* The ways a call ends *)

\* A step with no operation under way after it, and with no loss reported, keeps the
\* invariant if it keeps the vault's blobs.
LEMMA RestKeeps ==
    ASSUME HardwareInv, TypeOK', op' = Idle, Onward, KeyNames', Consent',
           vault' = vault, altered' = altered,
           SlotBound', LossIsReal'
    PROVE  HardwareInv'
<1>1. names \in Nat /\ root \in Nat
  BY HardwareAssumption DEF HardwareInv, TypeOK
<1>2. OpInv'
  BY DEF OpInv
<1>3. ASSUME ~altered, vault # NoVault, NEW s \in Slots PROVE BlobInv(s, vault[s])'
  <2>1. PICK b : b = vault[s]
    OBVIOUS
  <2>2. BlobInv(s, b)
    BY <1>3, <2>1 DEF HardwareInv, BlobsInv
  <2>3. BlobInv(s, b)'
    BY <1>1, <2>2, BlobStays
  <2>4. QED
    BY <2>1, <2>3 DEF BlobInv
<1>4. BlobsInv'
  BY <1>3 DEF BlobsInv, BlobInv
<1>5. QED
  BY <1>2, <1>4 DEF HardwareInv

\* A call fails: the loss, if it reports one, is real.
LEMMA FailedKeeps ==
    ASSUME HardwareInv, op # Idle, NEW e \in Errors, Failed(e),
           UNCHANGED <<worldVars, procVars, srk, vault>>,
           names' = names, keys' \subseteq keys, cached' \in Levels \cup {NoLevel},
           vault # NoVault => keys' = keys,
           e = "PermanentlyInvalidated" =>
              altered \/ IF vault = NoVault THEN spoilt # {} ELSE KeyGone(vault[op.slot])
    PROVE  HardwareInv'
<1>0. /\ op' = Idle /\ op.slot \in Slots
      /\ answer' = [result |-> e, asked |-> op.slot, got |-> op.slot]
      /\ UNCHANGED <<platform, spoilt, root, altered, optedIn, removed, backend, allow>>
  BY OpTypes DEF Failed, worldVars, procVars
<1>1. TypeOK'
  BY <1>0 DEF HardwareInv, TypeOK, Answer
<1>2. KeyNames' /\ Consent'
  BY <1>0 DEF HardwareInv, KeyNames, Consent
<1>3. SlotBound'
  BY <1>0 DEF SlotBound
<1>4. LossIsReal'
  BY <1>0 DEF LossIsReal, KeyGone
<1>5. OpInv'
  BY <1>0 DEF OpInv
<1>6. BlobsInv'
  BY <1>0 DEF HardwareInv, BlobsInv, BlobInv, KeysOf
<1>7. QED
  BY <1>1, <1>2, <1>3, <1>4, <1>5, <1>6 DEF HardwareInv

\* An operation that unwraps gets on, or stays where it is.
LEMMA AdvanceKeeps ==
    ASSUME HardwareInv, op # Idle, NEW o \in Operation, op' = o,
           o.creating = op.creating, o.slot = op.slot, o.made = op.made, o.name = op.name,
           o.stage \in {"complete", "persist", "seal"}, o.stage = "complete" => ~op.creating,
           ~op.creating => op.made[op.slot].kind = backend,
           UNCHANGED <<worldVars, procVars, cached, keys, names, vault, answer>>,
           srk' \in 0 .. root
    PROVE  HardwareInv'
<1>0. /\ UNCHANGED <<platform, spoilt, root, altered, optedIn, removed, backend, allow>>
      /\ UNCHANGED <<cached, keys, names, vault, answer>> /\ op' # Idle
  BY HardwareAssumption DEF worldVars, procVars
<1>1. TypeOK'
  BY <1>0 DEF HardwareInv, TypeOK
<1>2. KeyNames' /\ Consent' /\ SlotBound' /\ LossIsReal'
  BY <1>0 DEF HardwareInv, KeyNames, Consent, SlotBound, LossIsReal, KeyGone
<1>3. OpInv'
  BY <1>0, OpTypes DEF HardwareInv, OpInv
<1>4. BlobsInv'
  BY <1>0 DEF HardwareInv, BlobsInv, BlobInv, KeysOf
<1>5. QED
  BY <1>1, <1>2, <1>3, <1>4 DEF HardwareInv

\* What is handed out was enrolled for the slot it is asked for.
LEMMA ReleasedKeeps ==
    ASSUME HardwareInv, op # Idle, ~op.creating, Released(op.slot),
           UNCHANGED <<worldVars, procVars, cached, keys, srk, names, vault>>
    PROVE  HardwareInv'
<1>0. /\ UNCHANGED <<platform, spoilt, root, altered, optedIn, removed, backend, allow>>
      /\ UNCHANGED <<cached, keys, srk, names, vault>>
      /\ answer' = [result |-> "released", asked |-> op.slot, got |-> op.slot]
  BY DEF worldVars, procVars, Released
<1>1. op' # Idle => /\ op' \in Operation /\ op'.creating = FALSE /\ op'.made = op.made
                    /\ op'.stage = "begin"
  <2>1. CASE op' = Idle
    BY <2>1
  <2>2. CASE op' = [op EXCEPT !.slot = "TotpSeed", !.stage = "begin", !.srk = 0]
    <3>1. op \in Operation /\ 0 \in 0 .. MaxRoots
      BY OpTypes, HardwareAssumption
    <3>2. op' \in Operation
      BY <2>2, <3>1 DEF Operation, Stages, Slots
    <3>3. op'.creating = op.creating /\ op'.made = op.made /\ op'.stage = "begin"
      BY <2>2, <3>1 DEF Operation
    <3>4. QED
      BY <3>2, <3>3, OpTypes
  <2>3. QED
    BY <2>1, <2>2 DEF Released
<1>2. TypeOK'
  BY <1>0, <1>1, OpTypes DEF HardwareInv, TypeOK, Answer
<1>3. KeyNames' /\ Consent' /\ SlotBound' /\ LossIsReal'
  BY <1>0 DEF HardwareInv, KeyNames, Consent, SlotBound, LossIsReal
<1>4. OpInv'
  BY <1>0, <1>1 DEF HardwareInv, OpInv
<1>5. BlobsInv'
  BY <1>0, <1>1 DEF HardwareInv, BlobsInv, BlobInv, KeysOf
<1>6. QED
  BY <1>2, <1>3, <1>4, <1>5 DEF HardwareInv

\* One more slot is enrolled: its blob is added to those made so far.
LEMMA EnrolledKeeps ==
    ASSUME HardwareInv, op # Idle, op.creating, NEW blob \in Blob, Enrolled(blob),
           Onward, UNCHANGED <<worldVars, procVars, cached, srk, vault>>,
           names' \in 0 .. MaxNames, keys' \subseteq Key, KeyNames',
           NEW slot \in Slots, slot = op.slot, ~altered => BlobInv(slot, blob)'
    PROVE  HardwareInv'
<1>m. PICK made : made = [op.made EXCEPT ![op.slot] = blob]
  OBVIOUS
<1>s. PICK stage : stage = IF op.slot = "VaultKey" THEN "enrol" ELSE "write"
  OBVIOUS
<1>0. /\ UNCHANGED <<platform, spoilt, root, altered, optedIn, removed, backend, allow>>
      /\ UNCHANGED <<cached, srk, vault>>
      /\ answer' = [result |-> "enrolled", asked |-> op.slot, got |-> op.slot]
      /\ op' = [op EXCEPT !.made = made, !.name = 0, !.srk = 0, !.slot = "TotpSeed",
                          !.stage = stage]
      /\ vault = NoVault /\ blob # Idle
  BY <1>m, <1>s, OpTypes, HardwareAssumption DEF worldVars, procVars, Enrolled, HardwareInv, OpInv
<1>1. /\ made \in [Slots -> Blob \cup {Idle}] /\ made[op.slot] = blob
      /\ \A s \in Slots \ {op.slot} : made[s] = op.made[s]
      /\ stage \in {"enrol", "write"}
      /\ stage = "write" => op.slot = "TotpSeed"
  BY <1>m, <1>s, OpTypes DEF Slots
<1>2. /\ op' \in Operation /\ op'.creating /\ op'.made = made /\ op'.name = 0
      /\ op'.slot = "TotpSeed" /\ op'.stage = stage
  <2>1. op \in Operation /\ 0 \in 0 .. MaxRoots /\ 0 \in 0 .. MaxNames
    BY OpTypes, HardwareAssumption
  <2>2. op' \in Operation
    <3>1. op' = [stage |-> stage, creating |-> op.creating, slot |-> "TotpSeed", made |-> made,
                 name |-> 0, srk |-> 0]
      BY <1>0, <2>1 DEF Operation
    <3>2. stage \in Stages /\ "TotpSeed" \in Slots
      BY <1>1 DEF Stages, Slots
    <3>3. QED
      BY <1>1, <2>1, <3>1, <3>2 DEF Operation
  <2>3. /\ op'.creating = op.creating /\ op'.made = made /\ op'.name = 0
        /\ op'.slot = "TotpSeed" /\ op'.stage = stage
    BY <1>0, <2>1 DEF Operation
  <2>4. QED
    BY <2>2, <2>3
<1>3. names \in Nat /\ names <= names' /\ root \in Nat /\ backend \in Kinds
  BY OpTypes DEF Onward
<1>4. TypeOK'
  <2>1. names \in 0 .. MaxNames /\ removed' \subseteq 1 .. names'
    BY <1>0, <1>3 DEF HardwareInv, TypeOK
  <2>2. answer' \in Answer
    BY <1>0, OpTypes DEF Answer
  <2>3. QED
    BY <1>0, <1>2, <1>3, <2>1, <2>2 DEF HardwareInv, TypeOK, Kinds
<1>5. Consent' /\ SlotBound' /\ LossIsReal'
  BY <1>0 DEF HardwareInv, Consent, SlotBound, LossIsReal
<1>6. OpInv'
  <2>1. op.slot = "TotpSeed" => op.made["VaultKey"] # Idle
    BY DEF HardwareInv, OpInv
  <2>2. made["VaultKey"] # Idle
    BY <1>0, <1>1, <2>1, OpTypes DEF Slots
  <2>3. stage = "write" => \A s \in Slots : made[s] # Idle
    BY <1>0, <1>1, <2>2 DEF Slots
  <2>4. backend' = "SoftwareMock" => optedIn'
    BY <1>0 DEF HardwareInv, OpInv
  <2>5. vault' = NoVault /\ op'.stage # "prompt" /\ op'.creating
        /\ op'.stage \in {"enrol", "prompt", "persist", "seal", "write"}
    BY <1>0, <1>1, <1>2
  <2>6. op'.made["VaultKey"] # Idle /\ (op'.stage = "write" => \A s \in Slots : op'.made[s] # Idle)
    BY <1>2, <2>2, <2>3
  <2>7. QED
    BY <2>4, <2>5, <2>6 DEF OpInv
<1>7. BlobsInv'
  <2>1. ASSUME ~altered, NEW s \in Slots, made[s] # Idle PROVE BlobInv(s, made[s])'
    <3>1. CASE s = op.slot
      <4>1. made[s] = blob /\ s = slot
        BY <1>1, <3>1
      <4>2. QED
        BY <2>1, <4>1
    <3>2. CASE s # op.slot
      <4>1. PICK b : b = op.made[s]
        OBVIOUS
      <4>2. BlobInv(s, b)
        BY <1>1, <2>1, <3>2, <4>1 DEF HardwareInv, BlobsInv
      <4>3. BlobInv(s, b)'
        BY <1>3, <4>2, BlobStays
      <4>4. made[s] = b
        BY <1>1, <3>2, <4>1
      <4>5. QED
        BY <4>3, <4>4 DEF BlobInv
    <3>3. QED
      BY <3>1, <3>2
  <2>2. QED
    BY <1>0, <1>2, <2>1 DEF BlobsInv, BlobInv
<1>8. QED
  BY <1>4, <1>5, <1>6, <1>7 DEF HardwareInv

-----------------------------------------------------------------------------
(* android.rs *)

\* A key for the slot is made under a name never used before (AndroidKeyStore::enroll,
\* random_alias), or the device is refused.
LEMMA AndroidEnrollKeeps == ASSUME HardwareInv, AndroidEnroll PROVE HardwareInv'
<1>0. /\ op # Idle /\ op.stage = "enrol" /\ op.creating /\ backend = "AndroidGcm" /\ vault = NoVault
      /\ names < MaxNames /\ names \in Nat /\ MaxNames \in Nat /\ op \in Operation /\ op.slot \in Slots
  BY OpTypes, HardwareAssumption DEF AndroidEnroll, At, HardwareInv, OpInv
<1>1. UNCHANGED <<worldVars, procVars, srk, vault>>
  BY DEF AndroidEnroll
<1>2. PICK level \in Levels :
         /\ SecurityLevel(level)
         /\ \/ level = "Software" /\ Failed("HardwareAbsent") /\ UNCHANGED <<keys, names>>
            \/ /\ \E made \in Levels :
                    keys' = {k \in keys : k.name # Alias} \cup
                            {[kind |-> "AndroidGcm", name |-> Alias, slot |-> op.slot, level |-> made]}
               /\ names' = names + 1
               /\ op' = [op EXCEPT !.stage = "prompt", !.name = Alias]
               /\ UNCHANGED answer
  BY DEF AndroidEnroll
<1>3. cached' \in Levels \cup {NoLevel}
  BY <1>2 DEF SecurityLevel, HardwareInv, TypeOK
<1>4. CASE Failed("HardwareAbsent") /\ UNCHANGED <<keys, names>>
  BY <1>0, <1>1, <1>3, <1>4, FailedKeeps DEF Errors
<1>5. ASSUME NEW made \in Levels,
             keys' = {k \in keys : k.name # Alias} \cup
                     {[kind |-> "AndroidGcm", name |-> Alias, slot |-> op.slot, level |-> made]},
             names' = names + 1, op' = [op EXCEPT !.stage = "prompt", !.name = Alias], UNCHANGED answer
      PROVE  HardwareInv'
  <2>0. UNCHANGED <<platform, spoilt, root, altered, optedIn, removed, backend, allow, srk, vault, answer>>
    BY <1>1, <1>5 DEF worldVars, procVars
  <2>1. PICK new : new = [kind |-> "AndroidGcm", name |-> names + 1, slot |-> op.slot, level |-> made]
    OBVIOUS
  <2>2. new \in Key /\ new.kind = "AndroidGcm" /\ new.name = names + 1 /\ new.slot = op.slot
    BY <1>0, <2>1 DEF Key
  <2>3. keys' = keys \cup {new}
    <3>1. \A k \in keys : k.name \in Nat /\ k.name # names + 1
      BY <1>0 DEF HardwareInv, TypeOK, KeyNames, Key
    <3>2. QED
      BY <1>5, <2>1, <3>1 DEF Alias
  <2>4. /\ op' \in Operation /\ op'.creating = op.creating /\ op'.made = op.made
        /\ op'.slot = op.slot /\ op'.stage = "prompt" /\ op'.name = names + 1
    <3>1. names + 1 \in 0 .. MaxNames /\ "prompt" \in Stages
      BY <1>0 DEF Stages
    <3>2. op' = [op EXCEPT !.stage = "prompt", !.name = names + 1]
      BY <1>5 DEF Alias
    <3>3. op' \in Operation
      BY <1>0, <3>1, <3>2 DEF Operation
    <3>4. QED
      BY <1>0, <3>2, <3>3 DEF Operation
  <2>5. TypeOK'
    BY <1>0, <1>3, <1>5, <2>0, <2>2, <2>3, <2>4 DEF HardwareInv, TypeOK
  <2>6. KeyNames'
    BY <1>0, <1>5, <2>2, <2>3 DEF HardwareInv, TypeOK, KeyNames, Key
  <2>7. Consent' /\ SlotBound' /\ LossIsReal'
    BY <2>0 DEF HardwareInv, Consent, SlotBound, LossIsReal, KeyGone
  <2>8. OpInv'
    <3>1. new \in KeysOf("AndroidGcm", op.name, op.slot)'
      BY <2>2, <2>3, <2>4 DEF KeysOf
    <3>2. op'.name \in 1 .. names'
      BY <1>0, <1>5, <2>4
    <3>3. vault' = NoVault /\ (op'.slot = "TotpSeed" => op'.made["VaultKey"] # Idle)
      BY <1>0, <2>0, <2>4 DEF HardwareInv, OpInv
    <3>4. backend' # "SoftwareMock"
      BY <1>0, <2>0
    <3>5. QED
      BY <1>0, <2>4, <3>1, <3>2, <3>3, <3>4 DEF OpInv
  <2>9. BlobsInv'
    <3>1. Onward /\ root \in Nat
      BY <1>0, <1>5, <2>0, <2>2, <2>3, OpTypes DEF Onward
    <3>2. ASSUME ~altered, NEW s \in Slots, op.made[s] # Idle, NEW b, b = op.made[s]
          PROVE  BlobInv(s, b)'
      <4>1. BlobInv(s, b)
        BY <1>0, <3>2 DEF HardwareInv, BlobsInv
      <4>2. QED
        BY <1>0, <3>1, <4>1, BlobStays
    <3>3. QED
      BY <1>0, <2>0, <2>4, <3>2 DEF BlobsInv, BlobInv
  <2>10. QED
    BY <2>5, <2>6, <2>7, <2>8, <2>9 DEF HardwareInv
<1>6. QED
  BY <1>2, <1>4, <1>5

\* The wrap of an enrolment succeeds, and its key is in secure hardware or thrown away;
\* or it fails, and so is the key (AndroidKeyStore::enroll).
LEMMA AndroidWrapKeeps ==
    ASSUME HardwareInv, AndroidWrapped \/ AndroidWrapFails
    PROVE  HardwareInv'
<1>0. /\ op # Idle /\ op.stage = "prompt" /\ op.creating /\ backend = "AndroidGcm" /\ vault = NoVault
      /\ names \in Nat /\ op \in Operation /\ op.slot \in Slots
      /\ op.name \in 1 .. names
      /\ op.name \in removed \/ KeysOf("AndroidGcm", op.name, op.slot) # {}
  BY OpTypes DEF AndroidWrapped, AndroidWrapFails, At, HardwareInv, OpInv
<1>1. UNCHANGED <<worldVars, procVars, cached, srk, names, vault>>
  BY DEF AndroidWrapped, AndroidWrapFails
<1>2. cached' \in Levels \cup {NoLevel}
  BY <1>1 DEF HardwareInv, TypeOK
<1>3. CASE AndroidWrapFails
  <2>1. PICK e \in KeystoreErrors \cup (IF op.name \in spoilt THEN {"KeyInvalidated"} ELSE {}) :
           Failed(MapKeystoreError[e])
    BY <1>3 DEF AndroidWrapFails
  <2>2. /\ MapKeystoreError[e] \in Errors
        /\ MapKeystoreError[e] = "PermanentlyInvalidated" => spoilt # {}
    BY <2>1 DEF MapKeystoreError, KeystoreErrors, Errors
  <2>3. keys' \subseteq keys
    BY <1>3 DEF AndroidWrapFails, Discarded
  <2>4. QED
    BY <1>0, <1>1, <1>2, <2>1, <2>2, <2>3, FailedKeeps
<1>4. CASE AndroidWrapped /\ \E k \in KeysOf("AndroidGcm", op.name, op.slot) : k.level = "Software"
  <2>1. Failed("HardwareAbsent") /\ keys' \subseteq keys
    BY <1>4 DEF AndroidWrapped, Discarded
  <2>2. QED
    BY <1>0, <1>1, <1>2, <2>1, FailedKeeps DEF Errors
<1>5. CASE AndroidWrapped /\ ~ \E k \in KeysOf("AndroidGcm", op.name, op.slot) : k.level = "Software"
  <2>1. PICK blob, slot : /\ slot = op.slot
                          /\ blob = [kind |-> "AndroidGcm", name |-> op.name, slot |-> slot,
                                     root |-> 0, whole |-> TRUE]
    OBVIOUS
  <2>2. Enrolled(blob) /\ UNCHANGED keys /\ op.name \notin removed
    BY <1>5, <2>1 DEF AndroidWrapped
  <2>3. blob \in Blob /\ blob.kind = "AndroidGcm" /\ blob.name = op.name /\ blob.slot = slot
        /\ blob.root = 0 /\ blob.whole
    BY <1>0, <2>1, HardwareAssumption DEF Blob, Kinds, HardwareInv, TypeOK
  <2>4. Onward /\ root \in Nat
    BY <1>0, <1>1, <2>2, OpTypes DEF Onward, worldVars
  <2>5. BlobInv(slot, blob)'
    <3>1. /\ KeysOf("AndroidGcm", blob.name, slot)' = KeysOf("AndroidGcm", blob.name, slot)
          /\ KeysOf("AndroidGcm", blob.name, slot) # {}
          /\ \A k \in KeysOf("AndroidGcm", blob.name, slot) : k.level # "Software"
      BY <1>0, <1>5, <2>1, <2>2, <2>3 DEF KeysOf
    <3>2. blob.name <= names' /\ blob.root <= root' /\ blob.kind \notin SoftKinds
      BY <1>0, <1>1, <2>3, <2>4 DEF SoftKinds, worldVars
    <3>3. QED
      BY <2>3, <3>1, <3>2 DEF BlobInv
  <2>6. /\ names' \in 0 .. MaxNames /\ keys' \subseteq Key /\ KeyNames'
        /\ UNCHANGED <<worldVars, procVars, cached, srk, vault>>
    BY <1>1, <2>2 DEF HardwareInv, TypeOK, KeyNames
  <2>7. QED
    BY <1>0, <2>1, <2>2, <2>3, <2>4, <2>5, <2>6, EnrolledKeeps
<1>6. QED
  BY <1>3, <1>4, <1>5

\* AndroidKeyStore::complete_unwrap: the slot is in the associated data, and the only loss
\* reported is a key a new fingerprint spoilt.
LEMMA AndroidUnwrapKeeps == ASSUME HardwareInv, AndroidUnwrap PROVE HardwareInv'
<1>0. /\ op # Idle /\ op.stage = "complete" /\ ~op.creating /\ op.made[op.slot].kind = "AndroidGcm"
  BY OpTypes DEF AndroidUnwrap, Handle, At, HardwareInv, OpInv
<1>1. /\ UNCHANGED <<worldVars, procVars, cached, keys, srk, names, vault>>
      /\ names' = names /\ keys' \subseteq keys /\ keys' = keys /\ cached' \in Levels \cup {NoLevel}
  BY DEF AndroidUnwrap, HardwareInv, TypeOK
<1>2. vault # NoVault /\ op.made = vault
  BY <1>0, UnwrapBlobs
<1>3. ASSUME NEW e \in Errors, Failed(e), e = "PermanentlyInvalidated" => op.made[op.slot].name \in spoilt
      PROVE  HardwareInv'
  <2>1. e = "PermanentlyInvalidated" => KeyGone(vault[op.slot])
    BY <1>0, <1>2, <1>3 DEF KeyGone
  <2>2. QED
    BY <1>0, <1>1, <1>2, <1>3, <2>1, FailedKeeps
<1>4. \A e \in KeystoreErrors \cup {"AuthFailed"} :
         MapKeystoreError[e] \in Errors \ {"PermanentlyInvalidated"}
  BY DEF MapKeystoreError, KeystoreErrors, Errors
<1>5. MapKeystoreError["KeyInvalidated"] \in Errors
  BY DEF MapKeystoreError, Errors
<1>6. CASE Released(op.slot)
  BY <1>0, <1>1, <1>6, ReleasedKeeps
<1>7. CASE \E e \in KeystoreErrors \cup {"AuthFailed"} : Failed(MapKeystoreError[e])
  BY <1>3, <1>4, <1>7
<1>8. CASE Failed(MapKeystoreError["KeyInvalidated"]) /\ op.made[op.slot].name \in spoilt
  BY <1>3, <1>5, <1>8
<1>9. QED
  BY <1>6, <1>7, <1>8 DEF AndroidUnwrap, KeystoreErrors

-----------------------------------------------------------------------------
(* tpm2.rs *)

\* A call that fails for any other reason than a lost seed reports no loss (map_tpm_error,
\* and the parse of begin_unwrap).
LEMMA NoLossKeeps ==
    ASSUME HardwareInv, op # Idle, TpmFails \/ Failed("HardwareAbsent") \/ Failed("MalformedBlob"),
           UNCHANGED <<worldVars, procVars, cached, keys, srk, names, vault>>
    PROVE  HardwareInv'
<1>1. PICK e \in {"Transient", "Cancelled", "Backend", "HardwareAbsent", "MalformedBlob"} : Failed(e)
  BY DEF TpmFails, MapTpmError
<1>2. e \in Errors /\ e # "PermanentlyInvalidated"
  BY <1>1 DEF Errors
<1>3. names' = names /\ keys' \subseteq keys /\ keys' = keys /\ cached' \in Levels \cup {NoLevel}
  BY DEF HardwareInv, TypeOK
<1>4. QED
  BY <1>1, <1>2, <1>3, FailedKeeps

\* The storage root key is found, or a primary made (open_context, ensure_srk).
LEMMA TpmOpenKeeps == ASSUME HardwareInv, TpmOpen PROVE HardwareInv'
<1>0. /\ op # Idle /\ backend = "Tpm2" /\ op.stage \in {"enrol", "complete"}
      /\ ~op.creating => op.made[op.slot].kind = backend
  BY OpTypes DEF TpmOpen, Handle, At, HardwareInv, OpInv
<1>1. UNCHANGED <<worldVars, procVars, cached, keys, srk, names, vault>>
  BY DEF TpmOpen
<1>2. ASSUME NEW r \in 0 .. MaxRoots, NEW st \in {"seal", "persist"}, UNCHANGED answer,
             op' = [op EXCEPT !.stage = st, !.srk = r]
      PROVE  HardwareInv'
  <2>1. op \in Operation /\ st \in Stages /\ root \in Nat /\ srk' \in 0 .. root
    BY <1>0, <1>1, OpTypes DEF Stages, HardwareInv, TypeOK
  <2>2. PICK o : o = [op EXCEPT !.stage = st, !.srk = r]
    OBVIOUS
  <2>3. o \in Operation
    BY <2>1, <2>2 DEF Operation
  <2>4. /\ o.creating = op.creating /\ o.slot = op.slot /\ o.made = op.made /\ o.name = op.name
        /\ o.stage = st
    BY <2>1, <2>2 DEF Operation
  <2>5. op' = o /\ UNCHANGED <<worldVars, procVars, cached, keys, names, vault, answer>>
    BY <1>1, <1>2, <2>2
  <2>6. o.stage \in {"complete", "persist", "seal"} /\ o.stage # "complete"
    BY <2>4
  <2>7. QED
    BY <1>0, <2>1, <2>3, <2>4, <2>5, <2>6, AdvanceKeeps
<1>3. srk \in 0 .. MaxRoots /\ root \in 0 .. MaxRoots
  BY HardwareAssumption DEF HardwareInv, TypeOK
<1>4. CASE TpmFails \/ Failed("HardwareAbsent")
  BY <1>0, <1>1, <1>4, NoLossKeeps
<1>5. CASE UNCHANGED answer /\ op' = [op EXCEPT !.stage = "seal", !.srk = srk]
  BY <1>2, <1>3, <1>5
<1>6. CASE UNCHANGED answer /\ op' = [op EXCEPT !.stage = "persist", !.srk = root]
  BY <1>2, <1>3, <1>6
<1>7. QED
  BY <1>4, <1>5, <1>6 DEF TpmOpen

\* The primary is made persistent, or the one that took its handle is used (ensure_srk).
LEMMA PersistSrkKeeps == ASSUME HardwareInv, PersistSrk PROVE HardwareInv'
<1>0. /\ op # Idle /\ backend = "Tpm2" /\ op.stage = "persist"
      /\ ~op.creating => op.made[op.slot].kind = backend
  BY OpTypes DEF PersistSrk, At, HardwareInv, OpInv
<1>1. UNCHANGED <<worldVars, procVars, cached, keys, names, vault>>
  BY DEF PersistSrk
<1>2. ASSUME NEW r \in 0 .. MaxRoots, UNCHANGED answer, srk' \in 0 .. root,
             op' = [op EXCEPT !.stage = "seal", !.srk = r]
      PROVE  HardwareInv'
  <2>1. op \in Operation /\ "seal" \in Stages
    BY <1>0, OpTypes DEF Stages
  <2>2. PICK o : o = [op EXCEPT !.stage = "seal", !.srk = r]
    OBVIOUS
  <2>3. o \in Operation
    BY <2>1, <2>2 DEF Operation
  <2>4. /\ o.creating = op.creating /\ o.slot = op.slot /\ o.made = op.made /\ o.name = op.name
        /\ o.stage = "seal"
    BY <2>1, <2>2 DEF Operation
  <2>5. op' = o /\ UNCHANGED <<worldVars, procVars, cached, keys, names, vault, answer>>
    BY <1>1, <1>2, <2>2
  <2>6. QED
    BY <1>0, <1>2, <2>3, <2>4, <2>5, AdvanceKeeps
<1>3. /\ srk \in 0 .. MaxRoots /\ root \in 0 .. MaxRoots /\ srk \in 0 .. root /\ root \in 0 .. root
      /\ op \in Operation /\ op.srk \in 0 .. MaxRoots
  BY <1>0, OpTypes, HardwareAssumption DEF HardwareInv, TypeOK
<1>4. CASE TpmFails /\ UNCHANGED srk
  BY <1>0, <1>1, <1>4, NoLossKeeps
<1>5. CASE op.srk = root /\ srk' = op.srk /\ op' = [op EXCEPT !.stage = "seal"] /\ UNCHANGED answer
  <2>1. op' = [op EXCEPT !.stage = "seal", !.srk = op.srk]
    BY <1>3, <1>5 DEF Operation
  <2>2. QED
    BY <1>2, <1>3, <1>5, <2>1
<1>6. CASE UNCHANGED srk /\ op' = [op EXCEPT !.stage = "seal", !.srk = srk] /\ UNCHANGED answer
  BY <1>2, <1>3, <1>6
<1>7. QED
  BY <1>4, <1>5, <1>6 DEF PersistSrk

\* What a step adds is a blob under a fresh name and the present root: the names drawn go
\* up by one, and no key goes.
LEMMA FreshEnrolled ==
    ASSUME HardwareInv, op # Idle, op.creating, names < MaxNames, names' = names + 1,
           UNCHANGED <<worldVars, procVars, cached, srk, vault>>, keys \subseteq keys',
           \A k \in keys' : k \in keys \/ (k.kind # "AndroidGcm" /\ k.name = names'),
           keys' \subseteq Key,
           NEW kind \in Kinds, kind \in SoftKinds => optedIn, kind # "AndroidGcm",
           NEW slot \in Slots, slot = op.slot, NEW r \in 0 .. root,
           NEW name, name = names + 1,
           kind = "SecretService" => KeysOf(kind, name, slot)' # {},
           Enrolled([kind |-> kind, name |-> name, slot |-> slot, root |-> r, whole |-> TRUE])
    PROVE  HardwareInv'
<1>1. /\ names \in Nat /\ root \in 1 .. MaxRoots /\ MaxNames \in Nat /\ MaxRoots \in Nat
      /\ name \in 1 .. MaxNames /\ names' \in 0 .. MaxNames /\ r \in 0 .. MaxRoots
  BY HardwareAssumption DEF HardwareInv, TypeOK
<1>2. PICK blob : blob = [kind |-> kind, name |-> name, slot |-> slot, root |-> r, whole |-> TRUE]
  OBVIOUS
<1>3. /\ blob \in Blob /\ blob.kind = kind /\ blob.name = name /\ blob.slot = slot
      /\ blob.root = r /\ blob.whole
  BY <1>1, <1>2 DEF Blob
<1>4. Onward
  BY <1>1 DEF Onward, worldVars
<1>5. KeyNames'
  BY <1>1 DEF HardwareInv, TypeOK, KeyNames, Key
<1>6. BlobInv(slot, blob)'
  <2>1. blob.name <= names' /\ blob.root <= root'
    BY <1>1, <1>3 DEF worldVars
  <2>2. blob.kind \in SoftKinds => optedIn'
    BY <1>3 DEF worldVars
  <2>3. blob.kind \in KeyKinds => KeysOf(blob.kind, blob.name, slot)' # {}
    BY <1>3 DEF KeyKinds, KeysOf
  <2>4. QED
    BY <1>3, <2>1, <2>2, <2>3 DEF BlobInv
<1>7. QED
  BY <1>1, <1>2, <1>3, <1>4, <1>5, <1>6, EnrolledKeeps

\* The secret is sealed under the seed of now (Tpm2KeyStore::enroll).
LEMMA TpmSealKeeps == ASSUME HardwareInv, TpmSeal PROVE HardwareInv'
<1>0. /\ op # Idle /\ op.creating /\ op.slot \in Slots /\ names < MaxNames
      /\ UNCHANGED <<worldVars, procVars, cached, keys, srk, vault>>
  BY OpTypes DEF TpmSeal, At
<1>1. CASE TpmFails /\ UNCHANGED names
  BY <1>0, <1>1, NoLossKeeps
<1>2. ASSUME op.srk = root, names' = names + 1,
             Enrolled([kind |-> "Tpm2", name |-> names', slot |-> op.slot, root |-> op.srk,
                       whole |-> TRUE])
      PROVE  HardwareInv'
  <2>1. root \in 0 .. root /\ keys' = keys /\ keys' \subseteq Key
    BY <1>0, HardwareAssumption DEF HardwareInv, TypeOK
  <2>2. PICK slot, name, r : slot = op.slot /\ name = names + 1 /\ r = root
    OBVIOUS
  <2>3. Enrolled([kind |-> "Tpm2", name |-> name, slot |-> slot, root |-> r, whole |-> TRUE])
    BY <1>2, <2>2
  <2>4. "Tpm2" \in Kinds /\ "Tpm2" \notin SoftKinds
    BY DEF Kinds, SoftKinds
  <2>5. QED
    BY <1>0, <1>2, <2>1, <2>2, <2>3, <2>4, FreshEnrolled
<1>3. QED
  BY <1>1, <1>2 DEF TpmSeal

\* The sealed tag is the slot's, and the loss reported is that of an older seed
\* (Tpm2KeyStore::complete_unwrap).
LEMMA TpmUnsealKeeps == ASSUME HardwareInv, TpmUnseal PROVE HardwareInv'
<1>0. /\ op # Idle /\ ~op.creating /\ backend = "Tpm2" /\ op.stage = "seal"
      /\ op.made[op.slot].kind = "Tpm2"
      /\ UNCHANGED <<worldVars, procVars, cached, keys, srk, names, vault>>
  BY OpTypes DEF TpmUnseal, At, HardwareInv, OpInv
<1>1. PICK blob : blob = op.made[op.slot]
  OBVIOUS
<1>2. /\ vault # NoVault /\ blob = vault[op.slot] /\ blob \in Blob /\ blob.kind = "Tpm2"
      /\ ~altered => BlobInv(op.slot, blob)
  BY <1>0, <1>1, UnwrapBlobs
<1>3. CASE TpmFails \/ Failed("MalformedBlob")
  BY <1>0, <1>3, NoLossKeeps
<1>4. CASE Released(op.slot)
  BY <1>0, <1>4, ReleasedKeeps
<1>5. ASSUME op.srk = root, ~(blob.root = root /\ blob.whole), Failed(MapTpmError["Integrity"])
      PROVE  HardwareInv'
  <2>1. MapTpmError["Integrity"] = "PermanentlyInvalidated"
    BY DEF MapTpmError
  <2>2. ~altered => KeyGone(blob)
    <3>1. blob.root \in Nat /\ root \in Nat
      BY <1>0, <1>2, OpTypes, HardwareAssumption DEF Blob
    <3>2. ~altered => blob.root < root
      BY <1>2, <1>5, <3>1 DEF BlobInv
    <3>3. QED
      BY <1>2, <3>2 DEF KeyGone
  <2>3. "PermanentlyInvalidated" \in Errors
    BY DEF Errors
  <2>4. /\ UNCHANGED <<worldVars, procVars, srk, vault>> /\ names' = names /\ keys' = keys
        /\ cached' \in Levels \cup {NoLevel}
    BY <1>0 DEF HardwareInv, TypeOK
  <2>5. QED
    BY <1>0, <1>2, <1>5, <2>1, <2>2, <2>3, <2>4, FailedKeeps
<1>6. QED
  BY <1>1, <1>3, <1>4, <1>5 DEF TpmUnseal, TagMatches

-----------------------------------------------------------------------------
(* secret_service.rs and mock.rs *)

\* The credential is stored before the blob names it (SecretServiceKeyStore::enroll).
LEMMA KeyringEnrollKeeps == ASSUME HardwareInv, KeyringEnroll PROVE HardwareInv'
<1>0. /\ op # Idle /\ op.creating /\ op.slot \in Slots /\ names < MaxNames /\ optedIn
      /\ vault = NoVault /\ backend = "SecretService"
      /\ UNCHANGED <<worldVars, procVars, cached, srk, vault>>
  BY OpTypes DEF KeyringEnroll, At, HardwareInv, OpInv, Consent
<1>1. CASE KeyringFails /\ UNCHANGED <<keys, names>>
  <2>1. UNCHANGED <<worldVars, procVars, cached, keys, srk, names, vault>>
    BY <1>0, <1>1
  <2>2. PICK e \in {"Transient", "Backend"} : Failed(e)
    BY <1>1 DEF KeyringFails, MapKeyringError
  <2>3. e \in Errors /\ e # "PermanentlyInvalidated"
    BY <2>2 DEF Errors
  <2>4. names' = names /\ keys' \subseteq keys /\ cached' \in Levels \cup {NoLevel}
    BY <2>1 DEF HardwareInv, TypeOK
  <2>5. QED
    BY <1>0, <2>1, <2>2, <2>3, <2>4, FailedKeeps
<1>2. ASSUME names' = names + 1,
             keys' = keys \cup {[kind |-> "SecretService", name |-> names', slot |-> op.slot,
                                 level |-> NoLevel]},
             Enrolled([kind |-> "SecretService", name |-> names', slot |-> op.slot, root |-> 0,
                       whole |-> TRUE])
      PROVE  HardwareInv'
  <2>1. PICK slot, name : slot = op.slot /\ name = names + 1
    OBVIOUS
  <2>2. PICK new : new = [kind |-> "SecretService", name |-> name, slot |-> slot, level |-> NoLevel]
    OBVIOUS
  <2>3. names + 1 \in 1 .. MaxNames /\ 0 \in 0 .. root
    BY <1>0, OpTypes, HardwareAssumption DEF HardwareInv, TypeOK
  <2>4. new \in Key /\ new.kind = "SecretService" /\ new.name = name /\ new.slot = slot
    BY <1>0, <2>1, <2>2, <2>3 DEF Key
  <2>5. keys' = keys \cup {new}
    BY <1>2, <2>1, <2>2
  <2>6. keys' \subseteq Key
    BY <2>4, <2>5 DEF HardwareInv, TypeOK
  <2>7. KeysOf("SecretService", name, slot)' # {}
    BY <2>4, <2>5 DEF KeysOf
  <2>8. Enrolled([kind |-> "SecretService", name |-> name, slot |-> slot, root |-> 0, whole |-> TRUE])
    BY <1>2, <2>1
  <2>9. "SecretService" \in Kinds
    BY DEF Kinds
  <2>10. QED
    BY <1>0, <1>2, <2>1, <2>3, <2>4, <2>5, <2>6, <2>7, <2>8, <2>9, FreshEnrolled
<1>3. QED
  BY <1>1, <1>2 DEF KeyringEnroll

\* A credential that is not there was removed, if the header is passman's
\* (SecretServiceKeyStore::complete_unwrap).
LEMMA KeyringUnwrapKeeps == ASSUME HardwareInv, KeyringUnwrap PROVE HardwareInv'
<1>0. /\ op # Idle /\ ~op.creating /\ op.made[op.slot].kind = "SecretService" /\ op.slot \in Slots
      /\ UNCHANGED <<worldVars, procVars, cached, keys, srk, names, vault>>
  BY OpTypes DEF KeyringUnwrap, Handle, At, HardwareInv, OpInv
<1>1. /\ UNCHANGED <<worldVars, procVars, srk, vault>> /\ names' = names /\ keys' = keys
      /\ cached' \in Levels \cup {NoLevel}
  BY <1>0 DEF HardwareInv, TypeOK
<1>2. PICK blob : blob = op.made[op.slot]
  OBVIOUS
<1>3. /\ vault # NoVault /\ blob = vault[op.slot] /\ blob.kind = "SecretService"
      /\ ~altered => BlobInv(op.slot, blob)
  BY <1>0, <1>2, UnwrapBlobs
<1>4. PICK found : found = IF blob.whole THEN KeysOf("SecretService", blob.name, op.slot) ELSE {}
  OBVIOUS
<1>5. CASE KeyringFails
  <2>1. PICK e \in {"Transient", "Backend"} : Failed(e)
    BY <1>5 DEF KeyringFails, MapKeyringError
  <2>2. e \in Errors /\ e # "PermanentlyInvalidated"
    BY <2>1 DEF Errors
  <2>3. QED
    BY <1>0, <1>1, <2>1, <2>2, FailedKeeps
<1>6. CASE found # {} /\ Released((CHOOSE k \in found : TRUE).slot)
  <2>1. \A k \in found : k.slot = op.slot
    BY <1>4 DEF KeysOf
  <2>2. PICK k : k = CHOOSE x \in found : TRUE
    OBVIOUS
  <2>3. k \in found
    BY <1>6, <2>2
  <2>4. Released(op.slot)
    BY <1>6, <2>1, <2>2, <2>3
  <2>5. QED
    BY <1>0, <2>4, ReleasedKeeps
<1>7. CASE found = {} /\ Failed(MapKeyringError["NoEntry"])
  <2>1. MapKeyringError["NoEntry"] = "PermanentlyInvalidated" /\ "PermanentlyInvalidated" \in Errors
    BY DEF MapKeyringError, Errors
  <2>2. ~altered => KeyGone(blob)
    BY <1>3, <1>4, <1>7 DEF BlobInv, KeyKinds, KeyGone
  <2>3. QED
    BY <1>0, <1>1, <1>3, <1>7, <2>1, <2>2, FailedKeeps
<1>8. QED
  BY <1>2, <1>4, <1>5, <1>6, <1>7 DEF KeyringUnwrap

\* The mock seals under the key of its store, and reports no loss (MockKeyStore::enroll,
\* complete_unwrap, check_forced).
LEMMA MockKeeps == ASSUME HardwareInv, MockEnroll \/ MockUnwrap \/ MockForced PROVE HardwareInv'
<1>0. op # Idle /\ backend = "SoftwareMock" /\ optedIn /\ op.slot \in Slots
  BY OpTypes DEF MockEnroll, MockUnwrap, MockForced, Handle, At, HardwareInv, OpInv
<1>1. ASSUME UNCHANGED <<worldVars, procVars, cached, keys, srk, names, vault>>,
             \E e \in {"Transient", "HardwareAbsent", "Cancelled", "Backend"} : Failed(e)
      PROVE  HardwareInv'
  <2>1. PICK e \in {"Transient", "HardwareAbsent", "Cancelled", "Backend"} : Failed(e)
    BY <1>1
  <2>2. e \in Errors /\ e # "PermanentlyInvalidated"
    BY <2>1 DEF Errors
  <2>3. names' = names /\ keys' \subseteq keys /\ keys' = keys /\ cached' \in Levels \cup {NoLevel}
    BY <1>1 DEF HardwareInv, TypeOK
  <2>4. QED
    BY <1>0, <1>1, <2>1, <2>2, <2>3, FailedKeeps
<1>2. CASE MockForced
  BY <1>1, <1>2 DEF MockForced
<1>3. CASE MockUnwrap
  <2>1. ~op.creating /\ UNCHANGED <<worldVars, procVars, cached, keys, srk, names, vault>>
    BY <1>0, <1>3 DEF MockUnwrap, Handle, At, HardwareInv, OpInv
  <2>2. Failed("Cancelled") \/ Failed("Backend") \/ Released(op.slot)
    BY <1>3 DEF MockUnwrap
  <2>3. QED
    BY <1>0, <1>1, <2>1, <2>2, ReleasedKeeps
<1>4. CASE MockEnroll
  <2>0. /\ op.creating /\ names < MaxNames /\ UNCHANGED <<worldVars, procVars, cached, keys, srk, vault>>
    BY <1>0, <1>4 DEF MockEnroll, At, HardwareInv, OpInv
  <2>1. CASE Failed("Cancelled") /\ UNCHANGED names
    BY <1>1, <2>0, <2>1
  <2>2. ASSUME names' = names + 1,
               Enrolled([kind |-> "SoftwareMock", name |-> names', slot |-> op.slot, root |-> root,
                         whole |-> TRUE])
        PROVE  HardwareInv'
    <3>1. root \in 0 .. root /\ keys' = keys /\ keys' \subseteq Key
      BY <2>0, HardwareAssumption DEF HardwareInv, TypeOK
    <3>2. PICK slot, name, r : slot = op.slot /\ name = names + 1 /\ r = root
      OBVIOUS
    <3>3. Enrolled([kind |-> "SoftwareMock", name |-> name, slot |-> slot, root |-> r, whole |-> TRUE])
      BY <2>2, <3>2
    <3>4. "SoftwareMock" \in Kinds
      BY DEF Kinds
    <3>5. QED
      BY <1>0, <2>0, <2>2, <3>1, <3>2, <3>3, <3>4, FreshEnrolled
  <2>3. QED
    BY <1>4, <2>1, <2>2 DEF MockEnroll
<1>5. QED
  BY <1>2, <1>3, <1>4

-----------------------------------------------------------------------------
(* The core's operations and the process *)

\* begin_unwrap of a blob: it is of this backend's kind, or malformed.
LEMMA BeginUnwrapKeeps == ASSUME HardwareInv, BeginUnwrap PROVE HardwareInv'
<1>0. /\ op # Idle /\ ~op.creating /\ op \in Operation
      /\ UNCHANGED <<worldVars, procVars, cached, keys, srk, names, vault>>
  BY OpTypes DEF BeginUnwrap, HardwareInv, OpInv
<1>1. CASE Failed("MalformedBlob")
  BY <1>0, <1>1, NoLossKeeps
<1>2. ASSUME op.made[op.slot].kind = backend, op' = [op EXCEPT !.stage = "complete"], UNCHANGED answer
      PROVE  HardwareInv'
  <2>1. PICK o : o = [op EXCEPT !.stage = "complete"]
    OBVIOUS
  <2>2. o \in Operation
    BY <1>0, <2>1 DEF Operation, Stages
  <2>3. /\ o.creating = op.creating /\ o.slot = op.slot /\ o.made = op.made /\ o.name = op.name
        /\ o.stage = "complete"
    BY <1>0, <2>1 DEF Operation
  <2>4. op' = o /\ srk' \in 0 .. root
    BY <1>0, <1>2, <2>1 DEF HardwareInv, TypeOK
  <2>5. QED
    BY <1>0, <1>2, <2>2, <2>3, <2>4, AdvanceKeeps
<1>3. QED
  BY <1>1, <1>2 DEF BeginUnwrap

\* A create starts with nothing made, an unlock with the blobs of the header
\* (create_vault, unlock).
LEMMA BeginKeeps == ASSUME HardwareInv, BeginCreate \/ BeginUnlock PROVE HardwareInv'
<1>0. /\ op = Idle /\ backend # "none" /\ (backend = "SoftwareMock" => allow)
      /\ UNCHANGED <<platform, spoilt, root, altered, optedIn, removed, backend, allow>>
      /\ UNCHANGED <<cached, keys, srk, names, vault>> /\ answer' = NoAnswer
  BY DEF BeginCreate, BeginUnlock, worldVars, procVars
<1>1. /\ op' \in Operation /\ op'.slot = "VaultKey" /\ op'.name = 0
      /\ \/ /\ vault = NoVault /\ op'.creating /\ op'.stage = "enrol"
            /\ \A s \in Slots : op'.made[s] = Idle
         \/ vault # NoVault /\ ~op'.creating /\ op'.stage = "begin" /\ op'.made = vault
  <2>1. 0 \in 0 .. MaxRoots /\ 0 \in 0 .. MaxNames
    BY HardwareAssumption
  <2>2. CASE BeginCreate
    <3>1. PICK made : made = [s \in Slots |-> Idle]
      OBVIOUS
    <3>2. made \in [Slots -> Blob \cup {Idle}] /\ \A s \in Slots : made[s] = Idle
      BY <3>1
    <3>3. op' = [stage |-> "enrol", creating |-> TRUE, slot |-> "VaultKey", made |-> made,
                 name |-> 0, srk |-> 0]
      BY <2>2, <3>1 DEF BeginCreate
    <3>4. op' \in Operation
      BY <2>1, <3>2, <3>3 DEF Operation, Stages, Slots
    <3>5. QED
      BY <2>2, <3>2, <3>3, <3>4 DEF BeginCreate
  <2>3. CASE BeginUnlock
    <3>1. vault # NoVault /\ vault \in [Slots -> Blob \cup {Idle}]
      BY <2>3 DEF BeginUnlock, HardwareInv, TypeOK, Vault
    <3>2. op' = [stage |-> "begin", creating |-> FALSE, slot |-> "VaultKey", made |-> vault,
                 name |-> 0, srk |-> 0]
      BY <2>3 DEF BeginUnlock
    <3>3. op' \in Operation
      BY <2>1, <3>1, <3>2 DEF Operation, Stages, Slots
    <3>4. QED
      BY <3>1, <3>2, <3>3
  <2>4. QED
    BY <2>2, <2>3
<1>2. NoAnswer \in Answer /\ NoAnswer.result = "none"
  BY DEF NoAnswer, Answer, Slots
<1>3. TypeOK'
  <2>1. op' \in Operation \cup {Idle} /\ backend' # "none" /\ answer' \in Answer
    BY <1>0, <1>1, <1>2
  <2>2. QED
    BY <1>0, <2>1 DEF HardwareInv, TypeOK
<1>4. KeyNames' /\ Consent' /\ SlotBound' /\ LossIsReal'
  BY <1>0, <1>2 DEF HardwareInv, KeyNames, Consent, SlotBound, LossIsReal
<1>5. OpInv'
  BY <1>0, <1>1 DEF HardwareInv, OpInv, Consent
<1>6. BlobsInv'
  BY <1>0, <1>1 DEF HardwareInv, BlobsInv, BlobInv, KeysOf
<1>7. QED
  BY <1>3, <1>4, <1>5, <1>6 DEF HardwareInv

\* The header holds the two blobs, or stays as it was (the write at the end of create_vault).
LEMMA WriteVaultKeeps == ASSUME HardwareInv, WriteVault PROVE HardwareInv'
<1>0. /\ op # Idle /\ op.stage = "write" /\ op.creating /\ vault = NoVault
      /\ \A s \in Slots : op.made[s] # Idle
      /\ op' = Idle /\ answer' = NoAnswer
      /\ UNCHANGED <<platform, spoilt, root, altered, optedIn, removed, backend, allow>>
      /\ UNCHANGED <<cached, keys, srk, names>>
      /\ vault' = NoVault \/ vault' = op.made
  BY OpTypes DEF WriteVault, HardwareInv, OpInv, worldVars, procVars
<1>1. NoAnswer \in Answer /\ NoAnswer.result = "none"
  BY DEF NoAnswer, Answer, Slots
<1>2. op.made \in Vault
  BY <1>0, OpTypes DEF Vault
<1>3. TypeOK'
  BY <1>0, <1>1, <1>2 DEF HardwareInv, TypeOK
<1>4. KeyNames' /\ Consent' /\ SlotBound' /\ LossIsReal' /\ OpInv'
  BY <1>0, <1>1 DEF HardwareInv, KeyNames, Consent, SlotBound, LossIsReal, OpInv
<1>5. BlobsInv'
  <2>1. ASSUME ~altered, NEW s \in Slots, NEW b, b = op.made[s] PROVE BlobInv(s, b)'
    <3>1. BlobInv(s, b)
      BY <1>0, <2>1 DEF HardwareInv, BlobsInv
    <3>2. QED
      BY <1>0, <3>1 DEF BlobInv, KeysOf
  <2>2. QED
    BY <1>0, <2>1 DEF BlobsInv, BlobInv
<1>6. QED
  BY <1>3, <1>4, <1>5 DEF HardwareInv

\* A process starts with the backend of its platform, the keyring only by consent
\* (select_linux_backend), or ends with nothing under way.
LEMMA ProcessKeeps ==
    ASSUME HardwareInv, (\E allowed \in BOOLEAN : Launch(allowed)) \/ Exit
    PROVE  HardwareInv'
<1>0. NoAnswer \in Answer /\ NoAnswer.result = "none"
  BY DEF NoAnswer, Answer, Slots
<1>1. /\ op' = Idle /\ answer' = NoAnswer
      /\ UNCHANGED <<platform, spoilt, altered, removed>> /\ UNCHANGED <<keys, srk, names, vault>>
      /\ cached' \in Levels \cup {NoLevel} /\ allow' \in BOOLEAN
      /\ optedIn' \in BOOLEAN /\ (optedIn \/ allow' => optedIn')
      /\ backend' \in Kinds \cup {"none"} /\ (backend' = "SecretService" => allow')
      /\ root' = root \/ (root < MaxRoots /\ root' = root + 1)
  <2>1. CASE Exit
    BY <2>1 DEF Exit, worldVars, HardwareInv, TypeOK
  <2>2. ASSUME NEW allowed \in BOOLEAN, Launch(allowed)
        PROVE  /\ op' = Idle /\ answer' = NoAnswer
               /\ UNCHANGED <<platform, spoilt, altered, removed>> /\ UNCHANGED <<keys, srk, names, vault>>
               /\ cached' = cached /\ allow' = allowed
               /\ optedIn' = (optedIn \/ allowed)
               /\ backend' \in Kinds \cup {"none"} /\ (backend' = "SecretService" => allow')
               /\ root' = root \/ (root < MaxRoots /\ root' = root + 1)
    <3>1. op = Idle
      BY <2>2 DEF Launch, HardwareInv, TypeOK
    <3>2. /\ backend' \in Kinds \cup {"none"} /\ (backend' = "SecretService" => allow')
          /\ root' = root \/ (root < MaxRoots /\ root' = root + 1)
      BY <2>2 DEF Launch, LinuxBackend, Kinds
    <3>3. QED
      BY <2>2, <3>1, <3>2 DEF Launch
  <2>3. QED
    BY <2>1, <2>2 DEF HardwareInv, TypeOK
<1>2. /\ root \in 1 .. MaxRoots /\ MaxRoots \in Nat /\ srk \in 0 .. root /\ names \in Nat
      /\ root' \in 1 .. MaxRoots /\ srk' \in 0 .. root' /\ root <= root'
  BY <1>1, HardwareAssumption DEF HardwareInv, TypeOK
<1>3. TypeOK'
  BY <1>0, <1>1, <1>2 DEF HardwareInv, TypeOK
<1>4. Onward
  BY <1>1, <1>2 DEF Onward
<1>5. KeyNames' /\ Consent' /\ SlotBound' /\ LossIsReal'
  BY <1>0, <1>1 DEF HardwareInv, KeyNames, Consent, SlotBound, LossIsReal
<1>6. QED
  BY <1>1, <1>3, <1>4, <1>5, RestKeeps

\* invalidate destroys the key of a blob, with no operation under way.
LEMMA InvalidateKeeps ==
    ASSUME HardwareInv, NEW slot \in Slots, Invalidate(slot)
    PROVE  HardwareInv'
<1>0. /\ op = Idle /\ op' = Idle /\ vault # NoVault /\ answer' = NoAnswer
      /\ UNCHANGED <<platform, spoilt, root, altered, optedIn, backend, allow>>
      /\ UNCHANGED <<cached, srk, names, vault>>
      /\ keys' = keys \ KeysOf(vault[slot].kind, vault[slot].name, slot)
      /\ KeysOf(vault[slot].kind, vault[slot].name, slot) # {}
      /\ removed' = removed \cup {vault[slot].name}
  BY DEF Invalidate, procVars
<1>1. PICK k \in keys : k.name = vault[slot].name
  BY <1>0 DEF KeysOf
<1>2. /\ names \in Nat /\ root \in Nat /\ k.name \in 1 .. names
  BY <1>1, HardwareAssumption DEF HardwareInv, TypeOK, KeyNames, Key
<1>3. NoAnswer \in Answer /\ NoAnswer.result = "none"
  BY DEF NoAnswer, Answer, Slots
<1>4. TypeOK'
  BY <1>0, <1>1, <1>2, <1>3 DEF HardwareInv, TypeOK
<1>5. Onward
  BY <1>0, <1>1, <1>2 DEF Onward, KeysOf
<1>6. KeyNames' /\ Consent' /\ SlotBound' /\ LossIsReal'
  BY <1>0, <1>3 DEF HardwareInv, KeyNames, Consent, SlotBound, LossIsReal
<1>7. QED
  BY <1>0, <1>4, <1>5, <1>6, RestKeeps

-----------------------------------------------------------------------------
(* The world *)

\* What the world does while an operation waits keeps the blobs made, and what the
\* operation knows.
LEMMA WorldKeeps ==
    ASSUME HardwareInv, TypeOK', Onward, KeyNames',
           UNCHANGED <<platform, altered, optedIn, backend, allow, cached, names, vault, op, answer>>
    PROVE  HardwareInv'
<1>1. names \in Nat /\ root \in Nat
  BY HardwareAssumption DEF HardwareInv, TypeOK
<1>2. Consent' /\ SlotBound'
  BY DEF HardwareInv, Consent, SlotBound
<1>3. ASSUME ~altered, NEW s \in Slots, NEW b, BlobInv(s, b) PROVE BlobInv(s, b)'
  BY <1>1, <1>3, BlobStays
<1>4. BlobsInv'
  <2>1. ASSUME ~altered, vault # NoVault, NEW s \in Slots, NEW b, b = vault[s] PROVE BlobInv(s, b)'
    BY <1>3, <2>1 DEF HardwareInv, BlobsInv
  <2>2. ASSUME ~altered, op # Idle, NEW s \in Slots, NEW b, b = op.made[s], b # Idle
        PROVE  BlobInv(s, b)'
    BY <1>3, <2>2 DEF HardwareInv, BlobsInv
  <2>3. QED
    BY <2>1, <2>2 DEF BlobsInv, BlobInv
<1>5. LossIsReal'
  <2>1. ASSUME answer.result = "PermanentlyInvalidated", ~altered, vault # NoVault,
               NEW b, b = vault[answer.asked]
        PROVE  KeyGone(b)'
    <3>1. b \in Blob /\ KeyGone(b)
      BY <2>1 DEF HardwareInv, TypeOK, LossIsReal, Vault, Answer
    <3>2. QED
      BY <1>1, <3>1, LossStays
  <2>2. spoilt # {} => spoilt' # {}
    BY DEF Onward
  <2>3. QED
    BY <2>1, <2>2 DEF HardwareInv, LossIsReal, KeyGone
<1>6. OpInv'
  <2>1. ASSUME op # Idle, op.stage = "prompt", NEW n, n = op.name, NEW s, s = op.slot
        PROVE  n \in removed' \/ KeysOf("AndroidGcm", n, s)' # {}
    <3>1. n \in removed \/ KeysOf("AndroidGcm", n, s) # {}
      BY <2>1 DEF HardwareInv, OpInv
    <3>2. QED
      BY <3>1 DEF KeysOf, Onward
  <2>2. op' = op /\ vault' = vault /\ backend' = backend /\ optedIn' = optedIn /\ names' = names
    OBVIOUS
  <2>3. op # Idle /\ op.stage = "prompt" =>
           (op.name \in removed \/ KeysOf("AndroidGcm", op.name, op.slot) # {})'
    BY <2>1, <2>2 DEF KeysOf
  <2>4. QED
    BY <2>2, <2>3 DEF HardwareInv, OpInv
<1>7. QED
  BY <1>2, <1>4, <1>5, <1>6 DEF HardwareInv

\* TPM clears, other processes' SRKs, fingerprints, removed keys.
LEMMA WorldStepsKeep ==
    ASSUME HardwareInv, TpmClear \/ OthersSrk \/ BiometricReenrol \/ KeyRemoved
    PROVE  HardwareInv'
<1>0. /\ names \in Nat /\ root \in 1 .. MaxRoots /\ srk \in 0 .. root /\ MaxRoots \in Nat
      /\ keys \subseteq Key /\ \A k \in keys : k.name \in 1 .. names /\ k.name \in 1 .. MaxNames
  BY HardwareAssumption DEF HardwareInv, TypeOK, KeyNames, Key
<1>1. /\ UNCHANGED <<platform, altered, optedIn, backend, allow, cached, names, vault, op, answer>>
      /\ root' \in root .. MaxRoots /\ srk' \in 0 .. root'
      /\ spoilt \subseteq spoilt' /\ spoilt' \subseteq 1 .. MaxNames
      /\ removed \subseteq removed' /\ removed' \subseteq 1 .. names
      /\ keys' \subseteq keys /\ \A k \in keys : k \in keys' \/ k.name \in removed'
  <2>0. spoilt \subseteq 1 .. MaxNames /\ removed \subseteq 1 .. names
    BY DEF HardwareInv, TypeOK
  <2>1. CASE TpmClear
    BY <1>0, <2>0, <2>1 DEF TpmClear, procVars
  <2>2. CASE OthersSrk
    BY <1>0, <2>0, <2>2 DEF OthersSrk, procVars, worldVars
  <2>3. CASE BiometricReenrol
    <3>1. /\ UNCHANGED <<platform, altered, optedIn, backend, allow, cached, names, vault, op, answer>>
          /\ UNCHANGED <<root, srk, removed, keys>>
          /\ spoilt' = spoilt \cup {k.name : k \in keys}
      BY <2>3 DEF BiometricReenrol, procVars
    <3>2. root' \in root .. MaxRoots /\ srk' \in 0 .. root'
      BY <1>0, <3>1
    <3>3. {k.name : k \in keys} \subseteq 1 .. MaxNames
      BY <1>0
    <3>4. QED
      BY <2>0, <3>1, <3>2, <3>3
  <2>4. CASE KeyRemoved
    <3>1. PICK k \in keys : keys' = keys \ {k} /\ removed' = removed \cup {k.name}
      BY <2>4 DEF KeyRemoved
    <3>2. /\ UNCHANGED <<platform, altered, optedIn, backend, allow, cached, names, vault, op, answer>>
          /\ UNCHANGED <<root, srk, spoilt>>
      BY <2>4 DEF KeyRemoved, procVars
    <3>3. root' \in root .. MaxRoots /\ srk' \in 0 .. root'
      BY <1>0, <3>2
    <3>4. removed' \subseteq 1 .. names
      BY <1>0, <2>0, <3>1
    <3>5. QED
      BY <2>0, <3>1, <3>2, <3>3, <3>4
  <2>5. QED
    BY <2>1, <2>2, <2>3, <2>4
<1>2. TypeOK'
  BY <1>0, <1>1 DEF HardwareInv, TypeOK
<1>3. Onward /\ KeyNames'
  BY <1>0, <1>1 DEF Onward, HardwareInv, KeyNames
<1>4. QED
  BY <1>1, <1>2, <1>3, WorldKeeps

\* A damaged header is a header still.
LEMMA AlterKeeps == ASSUME HardwareInv, Alter PROVE HardwareInv'
<1>0. /\ op = Idle /\ vault # NoVault /\ vault \in Vault /\ altered'
      /\ UNCHANGED <<platform, spoilt, root, optedIn, removed, backend, allow>>
      /\ UNCHANGED <<cached, keys, srk, names, op, answer>>
  BY DEF Alter, procVars, HardwareInv, TypeOK
<1>1. vault' \in Vault
  <2>1. CASE vault' = [s \in Slots |-> vault[IF s = "VaultKey" THEN "TotpSeed" ELSE "VaultKey"]]
    BY <1>0, <2>1 DEF Vault, Slots
  <2>2. ASSUME NEW s \in Slots, vault' = [vault EXCEPT ![s].whole = FALSE] PROVE vault' \in Vault
    <3>1. PICK f \in BOOLEAN : f = FALSE
      OBVIOUS
    <3>2. [vault[s] EXCEPT !.whole = f] \in Blob
      BY <1>0, <2>2 DEF Vault, Blob
    <3>3. QED
      BY <1>0, <2>2, <3>1, <3>2 DEF Vault
  <2>3. ASSUME NEW s \in Slots, NEW k \in Kinds, vault' = [vault EXCEPT ![s].kind = k]
        PROVE  vault' \in Vault
    <3>1. [vault[s] EXCEPT !.kind = k] \in Blob
      BY <1>0, <2>3 DEF Vault, Blob
    <3>2. QED
      BY <1>0, <2>3, <3>1 DEF Vault
  <2>4. QED
    BY <2>1, <2>2, <2>3 DEF Alter
<1>2. vault' # NoVault
  BY <1>1, HardwareAssumption
<1>3. TypeOK'
  BY <1>0, <1>1 DEF HardwareInv, TypeOK
<1>4. KeyNames' /\ Consent' /\ SlotBound'
  BY <1>0 DEF HardwareInv, KeyNames, Consent, SlotBound
<1>5. LossIsReal' /\ OpInv' /\ BlobsInv'
  BY <1>0 DEF LossIsReal, OpInv, BlobsInv
<1>6. QED
  BY <1>3, <1>4, <1>5 DEF HardwareInv

-----------------------------------------------------------------------------
(* The theorems *)

\* Every step keeps the invariant.
LEMMA HardwareNext == HardwareInv /\ [Next]_vars => HardwareInv'
<1> SUFFICES ASSUME HardwareInv, [Next]_vars PROVE HardwareInv'
  OBVIOUS
<1>1. CASE UNCHANGED vars
  <2>1. /\ UNCHANGED <<platform, spoilt, root, altered, optedIn, removed, backend, allow>>
        /\ UNCHANGED <<cached, keys, srk, names, vault, op, answer>>
    BY <1>1 DEF vars, worldVars, procVars
  <2>2. TypeOK' /\ KeyNames' /\ Consent' /\ SlotBound'
    BY <2>1 DEF HardwareInv, TypeOK, KeyNames, Consent, SlotBound
  <2>3. Onward
    BY <2>1, HardwareAssumption DEF Onward, HardwareInv, TypeOK
  <2>4. QED
    BY <2>1, <2>2, <2>3, WorldKeeps
<1>2. CASE (\E allowed \in BOOLEAN : Launch(allowed)) \/ Exit
  BY <1>2, ProcessKeeps
<1>3. CASE BeginCreate \/ BeginUnlock
  BY <1>3, BeginKeeps
<1>4. CASE WriteVault
  BY <1>4, WriteVaultKeeps
<1>5. CASE BeginUnwrap
  BY <1>5, BeginUnwrapKeeps
<1>6. CASE AndroidEnroll
  BY <1>6, AndroidEnrollKeeps
<1>7. CASE AndroidWrapped \/ AndroidWrapFails
  BY <1>7, AndroidWrapKeeps
<1>8. CASE AndroidUnwrap
  BY <1>8, AndroidUnwrapKeeps
<1>9. CASE TpmOpen
  BY <1>9, TpmOpenKeeps
<1>10. CASE PersistSrk
  BY <1>10, PersistSrkKeeps
<1>11. CASE TpmSeal
  BY <1>11, TpmSealKeeps
<1>12. CASE TpmUnseal
  BY <1>12, TpmUnsealKeeps
<1>13. CASE KeyringEnroll
  BY <1>13, KeyringEnrollKeeps
<1>14. CASE KeyringUnwrap
  BY <1>14, KeyringUnwrapKeeps
<1>15. CASE MockEnroll \/ MockUnwrap \/ MockForced
  BY <1>15, MockKeeps
<1>16. CASE \E slot \in Slots : Invalidate(slot)
  BY <1>16, InvalidateKeeps
<1>17. CASE TpmClear \/ OthersSrk \/ BiometricReenrol \/ KeyRemoved
  BY <1>17, WorldStepsKeep
<1>18. CASE Alter
  BY <1>18, AlterKeeps
<1>19. QED
  BY <1>1, <1>2, <1>3, <1>4, <1>5, <1>6, <1>7, <1>8, <1>9, <1>10, <1>11, <1>12, <1>13, <1>14,
     <1>15, <1>16, <1>17, <1>18 DEF Next

\* The inductive invariant, for whatever the world does to the keys between two steps of a
\* backend's call.
THEOREM HardwareInvariant == Spec => []HardwareInv
<1>1. HardwareInv /\ [Next]_vars => HardwareInv'
  BY HardwareNext
<1>2. QED
  BY HardwareInit, <1>1, PTL DEF Spec

\* Every variable keeps its type, and no operation is under way without a backend.
THEOREM HardwareTypes == Spec => []TypeOK
<1>1. HardwareInv => TypeOK
  BY DEF HardwareInv
<1>2. QED
  BY HardwareInvariant, <1>1, PTL

\* What complete_unwrap of any backend releases was enrolled for the slot it was asked for,
\* even with the slots of the header swapped or altered.
THEOREM SlotsBound == Spec => []SlotBound
<1>1. HardwareInv => SlotBound
  BY DEF HardwareInv
<1>2. QED
  BY HardwareInvariant, <1>1, PTL

\* PermanentlyInvalidated, the error that sends the user to the recovery file, is answered
\* only when the key is lost or the header damaged (map_keystore_error, map_tpm_error,
\* map_keyring_error).
THEOREM LossesReal == Spec => []LossIsReal
<1>1. HardwareInv => LossIsReal
  BY DEF HardwareInv
<1>2. QED
  BY HardwareInvariant, <1>1, PTL

\* No enrolment, retry or clean-up of passman's takes or replaces the key of a blob it
\* wrote (random_alias, the discards of AndroidKeyStore::enroll, the uuid of the keyring).
THEOREM KeysStay == Spec => []KeysKept
<1>1. HardwareInv => KeysKept
  <2> SUFFICES ASSUME HardwareInv, ~altered, NEW blob \in Blobs, blob.kind \in KeyKinds
               PROVE  blob.name \in removed \/ KeysOf(blob.kind, blob.name, blob.slot) # {}
    BY DEF KeysKept, KeyKinds
  <2>1. PICK s \in Slots : \/ vault # NoVault /\ blob = vault[s]
                           \/ op # Idle /\ blob = op.made[s] /\ blob # Idle
    BY DEF Blobs
  <2>2. BlobInv(s, blob)
    BY <2>1 DEF HardwareInv, BlobsInv
  <2>3. QED
    BY <2>2 DEF BlobInv
<1>2. QED
  BY HardwareInvariant, <1>1, PTL

\* A vault rests on a keyring or a mock only after --allow-software-hsm, and on no Android
\* key outside secure hardware (select_linux_backend, security_level, the second check of
\* AndroidKeyStore::enroll).
THEOREM NeverDowngraded == Spec => []NoSilentDowngrade
<1>1. HardwareInv => NoSilentDowngrade
  <2> SUFFICES ASSUME HardwareInv, vault # NoVault, ~altered, NEW s \in Slots
               PROVE  /\ vault[s].kind \in SoftKinds => optedIn
                      /\ vault[s].kind = "AndroidGcm" =>
                            \A k \in KeysOf("AndroidGcm", vault[s].name, s) : k.level # "Software"
    BY DEF NoSilentDowngrade, SoftKinds
  <2>1. BlobInv(s, vault[s])
    BY DEF HardwareInv, BlobsInv
  <2>2. QED
    BY <2>1 DEF BlobInv
<1>2. QED
  BY HardwareInvariant, <1>1, PTL
===============================================================================

----------------------------- MODULE PassmanApp -----------------------------
(***************************************************************************)
(* The core of passman: the locked App and the unlocked session of         *)
(* passman-core (app.rs, unlocked.rs), the vault they keep on disk         *)
(* (passman-vault, vault.rs) and the advisory lockout and TOTP verifier    *)
(* they consult.                                                           *)
(*                                                                         *)
(* Several Apps may be opened on one vault path, one after the other when  *)
(* the platform has file locks and at the same time when it has not.  An   *)
(* operation that reads the vault, waits (for a prompt, a code or a slow   *)
(* key derivation) and writes it back is split at the wait: "op" holds the *)
(* copy it read.  A step may be interrupted by the end of its process.     *)
(*                                                                         *)
(* A vault key is a number, fresh whenever a salt or a hardware key is;    *)
(* an entry's label, policy and fields are one version number.  Operations *)
(* that only read (list, reveal, generate, estimate) change nothing here.  *)
(***************************************************************************)
EXTENDS Lockout, Totp, FiniteSets

CONSTANTS
    Apps,             \* App values that may be opened on the vault path
    Ids,              \* entry ids
    Versions,         \* contents an entry may have
    Passwords,        \* master passwords
    StrongPasswords,  \* those that pass the export gate
    SessionLength,    \* SESSION_SECS
    PostCopy,         \* POST_COPY_SECS
    FileLock,         \* TRUE: the platform locks files (not so on Android)
    ClockMayStepBack, \* TRUE: the wall clock may be set back
    Jumps,            \* by how much the clock may advance at once
    MaxClock,         \* bound on the clock
    MaxKey,           \* bound on the keys minted
    MaxExports,       \* bound on the recovery files delivered
    NoVault, NoSession, Idle

Absent     == 0                             \* an id without a row
NoEnvelope == [key |-> 0, ver |-> Absent]   \* an id without an envelope; keys start at 1

Envelope == [key : Nat, ver : Versions \cup {Absent}]
Rows     == [Ids -> Versions \cup {Absent}]
NoRows   == [id \in Ids |-> Absent]

\* passman_vault::Vault, the probe and the sealed index being under "key"
Vault == [key : Nat, pw : Passwords, seed : Nat, born : Nat, rows : Rows,
          env : [Ids -> Envelope], rl : LockoutState, exported : BOOLEAN]

\* passman_core::UnlockedApp
Session == [key : Nat, rows : Rows, expiry : Nat]

\* The operation an App is in the middle of, with the vault it has read.
UnlockOp == [kind : {"unlock", "unlockTotp"}, vault : Vault, rl : LockoutState, now : Nat]
EditOp   == [kind : {"add", "update", "remove"}, vault : Vault, id : Ids,
             ver : Versions \cup {Absent}]
ReauthOp == [kind : {"change", "export", "exportTotp"}, vault : Vault]

\* What EntryStore sees of an edit
Edit == [kind : {"add", "update", "remove"}, id : Ids, ver : Versions \cup {Absent}]

\* A delivered recovery file
Export == [pw : Passwords, seed : Nat, born : Nat, rows : Rows, recs : Rows]

ASSUME AppAssumption ==
    /\ Versions \subseteq Nat \ {Absent}
    /\ StrongPasswords \subseteq Passwords
    /\ SessionLength \in Nat /\ PostCopy \in Nat
    /\ FileLock \in BOOLEAN /\ ClockMayStepBack \in BOOLEAN
    /\ Jumps \subseteq Nat \ {0}
    /\ MaxClock \in Nat \ {0} /\ MaxKey \in Nat /\ MaxExports \in Nat
    /\ NoVault \notin Vault \cup Rows /\ NoSession \notin Session
    /\ Idle \notin UnlockOp \cup EditOp \cup ReauthOp \cup Edit

VARIABLES
    clock,        \* the wall clock
    disk,         \* the vault file
    nextKey,      \* the next key to be minted
    minted,       \* entry ids generated so far
    exports,      \* recovery files delivered
    running,      \* the Apps that are open
    session,      \* the unlocked session of each App
    op,           \* the operation each App is in the middle of
    lockout_mem,  \* App::lockout_mem
    last_step,    \* App::verifier, its last accepted step
    fails,        \* history: failed unlocks of this App since its last success
    spent,        \* history: codes accepted since the verifier was built
    reused        \* history: some code was accepted twice by one verifier

fileVars == <<disk, nextKey, minted, exports>>
totpVars == <<last_step, spent, reused>>
lockVars == <<lockout_mem, fails>>
vars == <<clock, fileVars, running, session, op, lockVars, totpVars>>

TypeOK ==
    /\ clock \in 1 .. MaxClock
    /\ disk \in Vault \cup {NoVault}
    /\ nextKey \in Nat \ {0}
    /\ minted \subseteq Ids
    /\ exports \subseteq Export
    /\ running \subseteq Apps
    /\ session \in [Apps -> Session \cup {NoSession}]
    /\ op \in [Apps -> UnlockOp \cup EditOp \cup ReauthOp \cup {Idle}]
    /\ lockout_mem \in [Apps -> LockoutState]
    /\ last_step \in [Apps -> Nat \cup {NoStep}]
    /\ fails \in [Apps -> 0 .. CounterMax]
    /\ spent \in [Apps -> SUBSET Nat]
    /\ reused \in BOOLEAN

-----------------------------------------------------------------------------
(* Predicates of the code's guards *)

Free(a)   == a \in running /\ op[a] = Idle
Locked(a) == Free(a) /\ session[a] = NoSession

\* Mutant: the expiry is not checked.
UnlockedAtAnyTime(a) == Free(a) /\ session[a] # NoSession

\* UnlockedApp::ensure_unlocked
Unlocked(a) == Free(a) /\ session[a] # NoSession /\ clock < session[a].expiry

Doing(a, kinds) == a \in running /\ op[a] # Idle /\ op[a].kind \in kinds

Stop(a) == op' = [op EXCEPT ![a] = Idle]

\* Vault::check_index_envelope_sets
IndexMatchesEnvelopes(v) == \A id \in Ids : v.rows[id] = Absent <=> v.env[id] = NoEnvelope

\* decrypt_entry succeeds: there is an envelope and it is under this key
Decrypts(v, key, id) == v.env[id] # NoEnvelope /\ v.env[id].key = key

\* build_unlocked
NewSession(v) == [key |-> v.key, rows |-> v.rows, expiry |-> clock + SessionLength]

\* Vault::create followed by add_or_update_entry for every row
Sealed(key, pw, seed, born, exported, rows, recs) ==
    [key |-> key, pw |-> pw, seed |-> seed, born |-> born, exported |-> exported,
     rl |-> NoFailures, rows |-> rows,
     env |-> [id \in Ids |-> IF rows[id] = Absent THEN NoEnvelope
                             ELSE [key |-> key, ver |-> recs[id]]]]

Records(v) == [id \in Ids |-> v.env[id].ver]

Codes == 0 .. CurrentStep(MaxClock) + SkewSteps \cup {BadCode}

-----------------------------------------------------------------------------
(* Opening, closing and creating *)

Init ==
    /\ clock = 1
    /\ disk = NoVault /\ nextKey = 1 /\ minted = {} /\ exports = {}
    /\ running = {}
    /\ session = [a \in Apps |-> NoSession]
    /\ op = [a \in Apps |-> Idle]
    /\ lockout_mem = [a \in Apps |-> NoFailures]
    /\ last_step = [a \in Apps |-> NoStep]
    /\ fails = [a \in Apps |-> 0]
    /\ spent = [a \in Apps |-> {}]
    /\ reused = FALSE

\* Mutant: the lock file is opened but not locked.
OpenUnlocked(a) ==
    /\ a \notin running
    /\ running' = running \cup {a}
    /\ UNCHANGED <<clock, fileVars, session, op, lockVars, totpVars>>

\* App::open with InstanceLock::acquire
Open(a) ==
    /\ a \notin running
    /\ FileLock => running = {}
    /\ running' = running \cup {a}
    /\ UNCHANGED <<clock, fileVars, session, op, lockVars, totpVars>>

\* The process ends, at any moment; what was in memory is gone and the lock free.
Exit(a) ==
    /\ a \in running
    /\ running' = running \ {a}
    /\ session' = [session EXCEPT ![a] = NoSession]
    /\ Stop(a)
    /\ lockout_mem' = [lockout_mem EXCEPT ![a] = NoFailures]
    /\ fails' = [fails EXCEPT ![a] = 0]
    /\ last_step' = [last_step EXCEPT ![a] = NoStep]
    /\ spent' = [spent EXCEPT ![a] = {}]
    /\ UNCHANGED <<clock, fileVars, reused>>

\* Write a newly built vault, drop the cached verifier, start a session.
Provision(a, v) ==
    /\ Locked(a)
    /\ nextKey <= MaxKey
    /\ nextKey' = nextKey + 1
    /\ disk' = v
    /\ session' = [session EXCEPT ![a] = NewSession(v)]
    /\ last_step' = [last_step EXCEPT ![a] = NoStep]
    /\ spent' = [spent EXCEPT ![a] = {}]
    /\ UNCHANGED <<clock, minted, exports, running, op, lockVars, reused>>

CreateVault(a, pw) ==
    Provision(a, Sealed(nextKey, pw, nextKey, nextKey, FALSE, NoRows, NoRows))

\* With the right password of the file; any other leaves everything as it is.
ImportRecovery(a, x) ==
    Provision(a, Sealed(nextKey, x.pw, x.seed, nextKey, FALSE, x.rows, x.recs))

-----------------------------------------------------------------------------
(* App::unlock *)

Merged(a) == MergeLockout(disk.rl, lockout_mem[a])

\* The hardware reports a lockout, or the advisory window is still open.
UnlockRefused(a) ==
    /\ Locked(a) /\ disk # NoVault
    /\ lockout_mem' = [lockout_mem EXCEPT ![a] = Merged(a)]
    /\ UNCHANGED <<clock, fileVars, running, session, op, fails, totpVars>>

UnlockLoad(a) ==
    /\ Locked(a) /\ disk # NoVault
    /\ ~LockedOut(Merged(a), clock)
    /\ lockout_mem' = [lockout_mem EXCEPT ![a] = Merged(a)]
    /\ op' = [op EXCEPT ![a] =
                [kind |-> "unlock", vault |-> disk, rl |-> Merged(a), now |-> clock]]
    /\ UNCHANGED <<clock, fileVars, running, session, fails, totpVars>>

\* App::record_failure: the write of the whole vault read earlier is best effort.
RecordFailure(a) ==
    LET s == AfterFailure(op[a].rl, op[a].now)
    IN  /\ lockout_mem' = [lockout_mem EXCEPT ![a] = s]
        /\ fails' = [fails EXCEPT ![a] = Lesser(@ + 1, CounterMax)]
        /\ disk' \in {disk, [op[a].vault EXCEPT !.rl = s]}
        /\ Stop(a)

\* TotpVerifier::verify on the App's long-lived verifier
AcceptCode(a, code) ==
    /\ Accepts(last_step[a], code, clock)
    /\ last_step' = [last_step EXCEPT ![a] = code]
    /\ spent' = [spent EXCEPT ![a] = @ \cup {code}]
    /\ reused' = (reused \/ code \in spent[a])

UnlockTotpAccepted(a, code) ==
    /\ Doing(a, {"unlock"})
    /\ AcceptCode(a, code)
    /\ op' = [op EXCEPT ![a].kind = "unlockTotp"]
    /\ UNCHANGED <<clock, fileVars, running, session, lockVars>>

UnlockTotpRejected(a, code) ==
    /\ Doing(a, {"unlock"})
    /\ ~Accepts(last_step[a], code, clock)
    /\ RecordFailure(a)
    /\ UNCHANGED <<clock, nextKey, minted, exports, running, session, totpVars>>

\* The probe does not open under the key of a wrong password.
UnlockWrongPassword(a, pw) ==
    /\ Doing(a, {"unlockTotp"})
    /\ pw # op[a].vault.pw
    /\ RecordFailure(a)
    /\ UNCHANGED <<clock, nextKey, minted, exports, running, session, totpVars>>

\* Cancelled prompt, hardware error, refused key derivation: no penalty.
UnlockAborted(a) ==
    /\ Doing(a, {"unlock", "unlockTotp"})
    /\ Stop(a)
    /\ UNCHANGED <<clock, fileVars, running, session, lockVars, totpVars>>

\* The counter on disk is cleared, best effort, when it is not clean already.
UnlockSucceeds(a) ==
    /\ Doing(a, {"unlockTotp"})
    /\ IndexMatchesEnvelopes(op[a].vault)
    /\ lockout_mem' = [lockout_mem EXCEPT ![a] = NoFailures]
    /\ fails' = [fails EXCEPT ![a] = 0]
    /\ disk' \in {disk} \cup (IF op[a].vault.rl = NoFailures THEN {}
                              ELSE {[op[a].vault EXCEPT !.rl = NoFailures]})
    /\ session' = [session EXCEPT ![a] = NewSession(op[a].vault)]
    /\ Stop(a)
    /\ UNCHANGED <<clock, nextKey, minted, exports, running, totpVars>>

-----------------------------------------------------------------------------
(* The session's operations on entries *)

Load(a, fields) == disk # NoVault /\ op' = [op EXCEPT ![a] = fields]

AddLoad(a, id, ver) ==
    /\ Unlocked(a)
    /\ id \notin minted
    /\ minted' = minted \cup {id}
    /\ Load(a, [kind |-> "add", vault |-> disk, id |-> id, ver |-> ver])
    /\ UNCHANGED <<clock, disk, nextKey, exports, running, session, lockVars, totpVars>>

UpdateLoad(a, id, ver) ==
    /\ Unlocked(a)
    /\ session[a].rows[id] # Absent
    /\ Load(a, [kind |-> "update", vault |-> disk, id |-> id, ver |-> ver])
    /\ UNCHANGED <<clock, fileVars, running, session, lockVars, totpVars>>

RemoveLoad(a, id) ==
    /\ Unlocked(a)
    /\ Load(a, [kind |-> "remove", vault |-> disk, id |-> id, ver |-> Absent])
    /\ UNCHANGED <<clock, fileVars, running, session, lockVars, totpVars>>

\* Vault::add_or_update_entry and Vault::remove_entry on the copy that was read
Upserted(v, key, id, ver) ==
    [v EXCEPT !.rows[id] = ver, !.env[id] = [key |-> key, ver |-> ver]]

\* Mutant: the index keeps the row of the removed envelope.
RemovedKeepsRow(v, id) == [v EXCEPT !.env[id] = NoEnvelope]

Removed(v, id) == [v EXCEPT !.rows[id] = Absent, !.env[id] = NoEnvelope]

\* Mutant: an envelope is written under a key the index does not open with.
SealsWithAny(v, key) == TRUE

\* decrypt_index, which both edits need before they re-seal the index
SealsWith(v, key) == v.key = key

\* Mutant: the session keeps its key after a password change.
RefreshedRows(a, v) == [session EXCEPT ![a].rows = v.rows]

\* The session takes over the key and the index of the vault it has written.
Refreshed(a, v) == [session EXCEPT ![a].key = v.key, ![a].rows = v.rows]

\* persist_and_refresh
EditCommit(a) ==
    /\ Doing(a, {"add", "update", "remove"})
    /\ SealsWith(op[a].vault, session[a].key)
    /\ op[a].kind = "remove" => op[a].vault.env[op[a].id] # NoEnvelope
    /\ disk' = IF op[a].kind = "remove" THEN Removed(op[a].vault, op[a].id)
               ELSE Upserted(op[a].vault, session[a].key, op[a].id, op[a].ver)
    /\ session' = Refreshed(a, disk')
    /\ Stop(a)
    /\ UNCHANGED <<clock, nextKey, minted, exports, running, lockVars, totpVars>>

\* Unknown id, key mismatch or failed write: the file is untouched.
EditFailed(a) ==
    /\ Doing(a, {"add", "update", "remove"})
    /\ Stop(a)
    /\ UNCHANGED <<clock, fileVars, running, session, lockVars, totpVars>>

\* Mutant: a copy late in the session prolongs it.
Prolonged(expiry) == clock + PostCopy

Clamped(expiry) == Lesser(expiry, clock + PostCopy)

\* copy_to_clipboard, which also shortens the session
CopyToClipboard(a, id) ==
    /\ Unlocked(a)
    /\ disk # NoVault /\ Decrypts(disk, session[a].key, id)
    /\ session' = [session EXCEPT ![a].expiry = Clamped(@)]
    /\ UNCHANGED <<clock, fileVars, running, op, lockVars, totpVars>>

\* verify_totp_code, which does not look at the expiry
VerifyTotpCode(a, code) ==
    /\ Free(a) /\ session[a] # NoSession
    /\ AcceptCode(a, code)
    /\ UNCHANGED <<clock, fileVars, running, session, op, lockVars>>

\* Drop of the session, by the user or by the worker that found it expired
LockSession(a) ==
    /\ Free(a) /\ session[a] # NoSession
    /\ session' = [session EXCEPT ![a] = NoSession]
    /\ UNCHANGED <<clock, fileVars, running, op, lockVars, totpVars>>

-----------------------------------------------------------------------------
(* Password change and recovery export *)

ReauthLoad(a, kind) ==
    /\ Unlocked(a)
    /\ Load(a, [kind |-> kind, vault |-> disk])
    /\ UNCHANGED <<clock, fileVars, running, session, lockVars, totpVars>>

\* Wrong password, rejected code, hardware error, failed write
ReauthFailed(a) ==
    /\ Doing(a, {"change", "export", "exportTotp"})
    /\ Stop(a)
    /\ UNCHANGED <<clock, fileVars, running, session, lockVars, totpVars>>

\* Mutant: the rebuilt vault starts with fresh metadata.
RebuiltAsNew(v, key, pw, rows) ==
    Sealed(key, pw, v.seed, v.born, FALSE, rows, Records(v))

\* reencrypt_vault: the rows of the session's index with the records of the vault;
\* the metadata is carried over, the failure count is not.
Rebuilt(v, key, pw, rows) ==
    Sealed(key, pw, v.seed, v.born, v.exported, rows, Records(v))

\* change_master_password
ChangeCommit(a, new) ==
    /\ Doing(a, {"change"})
    /\ \A id \in Ids :
          session[a].rows[id] # Absent => Decrypts(op[a].vault, session[a].key, id)
    /\ nextKey <= MaxKey
    /\ nextKey' = nextKey + 1
    /\ disk' = Rebuilt(op[a].vault, nextKey, new, session[a].rows)
    /\ session' = Refreshed(a, disk')
    /\ Stop(a)
    /\ UNCHANGED <<clock, minted, exports, running, lockVars, totpVars>>

ExportTotpAccepted(a, code) ==
    /\ Doing(a, {"export"})
    /\ AcceptCode(a, code)
    /\ op' = [op EXCEPT ![a].kind = "exportTotp"]
    /\ UNCHANGED <<clock, fileVars, running, session, lockVars>>

\* export_recovery: last_export_at is on disk before the bytes are returned, and
\* what the shell gets it may fail to save.
ExportCommit(a) ==
    LET v == op[a].vault
        s == session[a]
        recs == [id \in Ids |-> IF s.rows[id] = Absent THEN Absent ELSE Records(v)[id]]
    IN  /\ Doing(a, {"exportTotp"})
        /\ v.pw \in StrongPasswords
        /\ \A id \in Ids : s.rows[id] # Absent => Decrypts(v, v.key, id)
        /\ exports' \in {exports, exports \cup {[pw |-> v.pw, seed |-> v.seed, born |-> v.born,
                                                 rows |-> s.rows, recs |-> recs]}}
        /\ disk' = [v EXCEPT !.exported = TRUE]
        /\ Stop(a)
        /\ UNCHANGED <<clock, nextKey, minted, running, session, lockVars, totpVars>>

-----------------------------------------------------------------------------
(* The clock, and the specification *)

Tick ==
    /\ \E j \in Jumps : clock + j <= MaxClock /\ clock' = clock + j
    /\ UNCHANGED <<fileVars, running, session, op, lockVars, totpVars>>

StepBack ==
    /\ ClockMayStepBack
    /\ clock' \in 1 .. clock - 1
    /\ UNCHANGED <<fileVars, running, session, op, lockVars, totpVars>>

UnlockStep(a) ==
    \/ UnlockRefused(a) \/ UnlockLoad(a) \/ UnlockAborted(a) \/ UnlockSucceeds(a)
    \/ \E code \in Codes : UnlockTotpAccepted(a, code) \/ UnlockTotpRejected(a, code)
    \/ \E pw \in Passwords : UnlockWrongPassword(a, pw)

EditStep(a) ==
    \/ \E id \in Ids, ver \in Versions : AddLoad(a, id, ver) \/ UpdateLoad(a, id, ver)
    \/ \E id \in Ids : RemoveLoad(a, id) \/ CopyToClipboard(a, id)
    \/ EditCommit(a) \/ EditFailed(a)

ReauthStep(a) ==
    \/ ReauthLoad(a, "change") \/ ReauthFailed(a)
    \/ \E new \in Passwords : ChangeCommit(a, new)
    \/ Cardinality(exports) < MaxExports /\ ReauthLoad(a, "export")
    \/ \E code \in Codes : ExportTotpAccepted(a, code) \/ VerifyTotpCode(a, code)
    \/ ExportCommit(a)

Next ==
    \/ \E a \in Apps :
          \/ Open(a) \/ Exit(a) \/ LockSession(a)
          \/ \E pw \in Passwords : CreateVault(a, pw)
          \/ \E x \in exports : ImportRecovery(a, x)
          \/ UnlockStep(a) \/ EditStep(a) \/ ReauthStep(a)
    \/ Tick \/ StepBack

Spec == Init /\ [][Next]_vars

-----------------------------------------------------------------------------
(* Properties *)

\* Every vault ever written has one row per envelope, the row and the record of
\* an entry are of the same edit, and every envelope is under the vault's own key
\* (vault.rs check_index_envelope_sets; unlocked.rs reencrypt_vault, upsert_entry):
\* the right password opens it with all its entries.
Coherent(v) ==
    \A id \in Ids :
        IF v.rows[id] = Absent THEN v.env[id] = NoEnvelope
        ELSE v.env[id] = [key |-> v.key, ver |-> v.rows[id]]

VaultCoherent == disk # NoVault => Coherent(disk)

\* What is left of it when two Apps write the same file: still one row per
\* envelope, and all of them under the vault's key.
Opens(v) ==
    /\ IndexMatchesEnvelopes(v)
    /\ \A id \in Ids : v.rows[id] # Absent => Decrypts(v, v.key, id)

VaultOpens == disk # NoVault => Opens(disk)

\* A live session holds the key and the index of the vault on disk, so that what
\* it lists is what is there and its next operation can decrypt (unlocked.rs
\* persist_and_refresh, change_master_password).
SessionCurrent ==
    \A a \in Apps : session[a] # NoSession =>
        /\ disk # NoVault
        /\ session[a].key = disk.key
        /\ session[a].rows = disk.rows

\* No TOTP code is accepted twice by one verifier, whichever of unlock, export
\* and confirmation it was given to (verifier.rs verify, app.rs verify_totp).
NoCodeReused == ~reused

\* The process never forgets one of its failures, whether or not the write to the
\* vault header succeeded (app.rs record_failure, merge_lockout).
FailuresCounted == \A a \in Apps : fails[a] <= lockout_mem[a].counter

\* Two failures recorded in one vault are at least the window of the first apart,
\* across processes, restarts and failed writes (app.rs unlock's advisory gate).
FailuresSpaced ==
    [][/\ disk # NoVault /\ disk' # NoVault
       /\ disk'.key = disk.key
       /\ disk'.rl # disk.rl /\ disk'.rl # NoFailures
       /\ LockoutWindow(disk.rl.counter) > 0
       => disk'.rl.last >= disk.rl.last + LockoutWindow(disk.rl.counter)]_vars

\* The count on disk goes down only when somebody gets in or the vault is rebuilt
\* under a new key: no retry, crash or stale write clears it (app.rs
\* record_failure, unlock step 8).
CountKept ==
    [][/\ disk # NoVault /\ disk' # NoVault
       /\ disk'.rl.counter < disk.rl.counter
       => \/ disk'.key # disk.key
          \/ \E a \in Apps : session[a] = NoSession /\ session'[a] # NoSession]_vars

\* An expired session starts nothing: no edit, export or password change begins
\* ("Every operation first checks the session", unlocked.rs:4-8).
Expired(a) == session[a] # NoSession /\ clock >= session[a].expiry
ExpiredStartsNothing ==
    [][\A a \in Apps : Expired(a) /\ op[a] = Idle => op'[a] = Idle]_vars

\* The life of a session never grows (unlocked.rs ensure_unlocked "No sliding").
SessionNeverExtended ==
    [][\A a \in Apps : session[a] # NoSession /\ session'[a] # NoSession
                          => session'[a].expiry <= session[a].expiry]_vars

\* If a recovery file of this vault was handed out, the vault says so, and a later
\* password change warns (unlocked.rs export_recovery: last_export_at is written
\* before the bytes are returned; existing_export_now_stale).
ExportsKnown ==
    \A x \in exports : disk # NoVault /\ x.born = disk.born => disk.exported

\* The same for the vault's whole lineage, import included: a recovery file with
\* this vault's seed exists, so changing the password makes it stale
\* (unlocked.rs:57-62 existing_export_now_stale).
StaleExportsKnown ==
    \A x \in exports : disk # NoVault /\ x.seed = disk.seed => disk.exported

\* The inductive invariant of PassmanApp_proofs: what an App in the middle of an
\* operation remembers agrees with its state, whatever other Apps do to the file
\* (app.rs unlock, unlocked.rs upsert_entry, verifier.rs verify).
UnlockKinds == {"unlock", "unlockTotp"}
OpConsistent ==
    \A a \in Apps : op[a] # Idle =>
        /\ op[a].kind \in UnlockKinds => session[a] = NoSession /\ op[a].rl = lockout_mem[a]
        /\ op[a].kind \notin UnlockKinds => session[a] # NoSession
        /\ op[a].kind \in {"add", "update"} => op[a].ver # Absent
        /\ Opens(op[a].vault)
CodesSpent == \A a \in Apps : \A code \in spent[a] : code <= last_step[a]
IInv ==
    /\ TypeOK /\ OpConsistent /\ CodesSpent
    /\ VaultOpens /\ NoCodeReused /\ FailuresCounted

-----------------------------------------------------------------------------
(* What the module promises about entries is the specification EntryStore *)

StoredEntries(v) ==
    [id \in Ids |-> IF Decrypts(v, v.key, id) THEN v.env[id].ver ELSE Absent]

Entries == IF disk = NoVault THEN NoVault ELSE StoredEntries(disk)

\* The edit an App is in the middle of
EditOf(a) ==
    IF op[a] # Idle /\ op[a].kind \in {"add", "update", "remove"}
    THEN [kind |-> op[a].kind, id |-> op[a].id, ver |-> op[a].ver]
    ELSE Idle

Store == INSTANCE EntryStore WITH
    Clients <- Apps,
    Contents <- Versions,
    NoRequest <- Idle,
    NoStore <- NoVault,
    store <- Entries,
    pending <- [a \in Apps |-> EditOf(a)],
    saved <- {x.recs : x \in exports}

\* Each edit takes effect at one moment between its request and its answer, and
\* nothing else (an unlock, a failure, a password change, an export, a crash)
\* touches an entry.
EntriesLinearizable == Store!Spec
=============================================================================

# A verification project for passman

TLA+ models of passman's core and its shells, the TLC runs that check them on
small instances, and machine-checked proofs of what the runs check. Paths are
relative to the repository; `app.rs`, `unlocked.rs`, `worker.rs`, `lockout.rs`
and `storage.rs` are under `src/crates/passman-core/src`, `vault.rs` under
`src/crates/passman-vault/src`, `commands.rs` under `src/crates/passman-cli/src`,
`android.rs`, `store.rs` and `linux/` under `src/crates/passman-hsm/src`, `ui.rs`
under `src/crates/passman-gtk/src` and `lib.rs` under `src/crates/passman-uniffi/src`.

## The system

passman is a local password manager. Its vault is one file; a master password
and a key kept by the device's security hardware open it, and each unlock also
asks for a TOTP code.

| Part | State it keeps | Operations | What makes it correct |
|---|---|---|---|
| `App` (app.rs) | vault path, instance lock, the process's lockout record, one TOTP verifier | open, create, unlock, import | failures are not forgotten, a code is used once, a session starts only after all checks |
| `UnlockedApp` (unlocked.rs) | vault key, index, session expiry | list, reveal, copy, add, update, remove, export, change password, confirm a code, lock | what is on disk always opens; index and file agree; edits take effect whole; expiry is final |
| Vault format (passman-vault) | header, sealed index, one envelope per entry | create, open, upsert, remove, set counters | one row per envelope, all under one key |
| Lockout (lockout.rs) | failure count and time, in the header and in memory | window, remaining, merge | no failed write, restart or clock shortens it |
| TOTP (passman-totp) | last accepted step | verify | replay refused |
| Storage (storage.rs) | the file, a temp file, the lock file | atomic write, lock | old or new, never torn; one App per vault |
| Session worker (worker.rs) | two channels, the loop it is in, the live clipboard cookie | 13 requests | each awaited request is answered, a session ends, a copied secret does not outlive it |
| GTK shell (ui.rs) | page, button states, clear timers | clicks, response poll | page follows worker |
| Binding (lib.rs) | mutex over session and responses | calls, posted lock and clear | one answer per call, its own |
| HSM backends (passman-hsm) | hardware keys, handles | select, enrol, unwrap in two phases, invalidate | a blob gives its secret for its own slot only; "lost" is said of lost keys only; no silent software key |
| Recovery file (passman-recovery) | none | export, import | round trip on the same host, nothing but the written file accepted |
| CLI (passman-cli) | one command per process, a clear-requested flag | init, list, add, get, rm, export, import, passwd | no vault replaced, a truthful exit code, the clipboard cleared |
| Policy (passman-policy) | none | resolve, generate, validate | every minimum met, every choice fair |
| Android app, crypto, platform | see `PROJECT.json` | | |

The shells own an end of the worker's two channels; the worker owns the `App`,
the session borrowed from it, and the clipboard; both the App and the session
read and write the vault file. Several Apps meet at the file: one after the
other when the platform has file locks, at the same time when it has not
(`classify_lock`, storage.rs:225-239).

What is hard here: an operation reads the vault, waits for a prompt, a code or a
multi-second key derivation, and writes the whole vault back; some writes are
best effort; a process may end at any point; the wall clock may be set back;
clears, locks and answers cross on the channels; the session may expire while
any of this is under way. `PROJECT.json` lists each hazard at its line.

## The modules

    Lockout   Totp        operators, extended by
        PassmanApp        the core, several Apps on one vault file
            EntryStore    the abstract specification it implements (INSTANCE)
            PassmanApp_proofs
    SessionWorker         the worker, its queues and the clipboard, extended by
        SessionWorker_proofs
        GtkShell          one user, a polled response queue, clear timers
            GtkShell_proofs       (with SessionWorker_proofs)
        BindingCall       several threads, a mutex, paired calls
            BindingCall_proofs    (with SessionWorker_proofs)
    AtomicFile            the abstract register: a write is seen whole or not
    VaultStorage          atomic_write call by call, the instance lock; implements
                          AtomicFile, extended by
        CommandLine       the passman command, several processes on one file
            CommandLine_proofs    of both
    HardwareSlots         the four hardware-key backends and the core's two uses
        HardwareSlots_proofs
    FileFormats  PasswordGenerator  TotpCodes   algorithms
        Algorithms_proofs         of the last two, extended by
        FileFormats_proofs        for its lemmas on recursive functions
    MCPassmanApp, MCGtkShell, MCBindingCall, MCCommandLine, MCHardwareSlots,
    MCAlgorithms          instances for TLC

**Lockout** has the operators of lockout.rs. The schedule is a constant, a
function from 0 that must not decrease, so that the theorems hold for the code's
0, 0, 0, 10, 20, ... 1280, 1440 minutes and for the runs' short one.

**Totp** represents a code by the step it was generated for, or by `BadCode`.
`Accepts` is `TotpVerifier::verify`: in the skew window and later than the last
accepted step. Two steps with the same digits, which the code treats as the
later step, are in TotpCodes.

**PassmanApp** is the core. `disk` is the vault file; `session`, `op`,
`lockout_mem` and `last_step` are what one App has in memory, and `Exit` loses
them at any moment. A vault key is a number, fresh for each salt or hardware
key, and an envelope opens under the key it was sealed with. An operation with
a wait in it is split there, and `op` holds the copy of the vault the code holds:

| code | actions |
|---|---|
| `App::open`, process end | `Open`, `Exit` |
| `create_vault`, `import_recovery` | `CreateVault`, `ImportRecovery` |
| `unlock` | `UnlockRefused`, `UnlockLoad`, `UnlockTotpAccepted`, `UnlockTotpRejected`, `UnlockWrongPassword`, `UnlockAborted`, `UnlockSucceeds` |
| `add_entry`, `update_entry`, `remove_entry` | `AddLoad`, `UpdateLoad`, `RemoveLoad`, then `EditCommit` or `EditFailed` |
| `change_master_password` | `ReauthLoad`, `ChangeCommit` or `ReauthFailed` |
| `export_recovery` | `ReauthLoad`, `ExportTotpAccepted`, `ExportCommit` or `ReauthFailed` |
| `copy_to_clipboard`, `verify_totp_code`, `lock` | `CopyToClipboard`, `VerifyTotpCode`, `LockSession` |
| the clock | `Tick`, `StepBack` |

A best-effort write is a choice between the new file and the old one. A write
is one step, which is what VaultStorage shows of `atomic_write`. `fails`, `spent`
and `reused` are history variables the code does not have. `create_vault` and
`import_recovery` are offered to a locked App only, which is where every shell
calls them; the CLI refuses to create over an existing vault, which CommandLine
has and this model does not.

**EntryStore** is what a user is promised about entries: a map changed only by
requested edits, each whole and at one moment. `EntriesLinearizable` says that
PassmanApp implements it, the store being what the vault's own key decrypts, so
that an unlock, a recorded failure, a re-key, an export and a process end are
all stutters.

**SessionWorker** is worker.rs with its channels as sequences. A request is
taken from the queue in one step, where the session is checked, and handled in
another, where its effects and its answer happen, so that time passes and
clients act while a slow operation runs. `Handle` has one disjunct for each way
the two loops treat a request; every way out of the unlocked loop goes through
`EndSession` or `Stop`. Requests whose handling differs only in the data they
return share the kind `"op"`. Requests carry an `id`, which the code's do not,
to tell whose answer a response is; no action looks at it.

A clear of the clipboard (`clear_clipboard_impl`, unlocked.rs:650-671) is its clipboard
calls: `Compare` reads the digest and finds the secret, `Overwrite` is what is left of
it, in the same step as what the worker does next (a handled clear, the end of a
session, Quit). Either call may find the clipboard out of reach, in which case nothing is
overwritten and the worker goes on as if it had been: no caller looks at the outcome.
`clearing` says that a clear is between the two and whether a foreign value came in
meanwhile; `missed`, a history variable, which clear, an asked-for one or the wipe at the
end of the session, last failed to remove the secret it was for.

**GtkShell** and **BindingCall** own the other ends. The first polls: a response
is handled when the main loop gets to it, a `Copied` starts a 30 s timer, and
the unlock button can be triggered by the Enter key while it is insensitive.
The second pairs: a call holds the mutex from its drain of the response queue
to its answer, and `lock()` and `clear_clipboard()` only send. The model drains
and sends in one step: an answer the worker sends between the two stays in the
queue exactly like one it sends just after.

**VaultStorage** is storage.rs. A file is what it holds now and what of it is on
stable storage; `settled` are the files the vault's path may name after a power
loss. `CreateTemp`, `WriteAll`, `SyncAll`, `Rename` and `SyncDir` are the calls of
`atomic_write`, `WriteFails` any of the first four failing; the directory's sync is
best effort, so the file before the last rename may come back with a power
loss, whole. `StorageCrash`, `FlushDir` and `StoragePowerLoss` are the kernel and
the machine. `VaultFileAtomic` says that this implements **AtomicFile**, a register
whose write happens at one moment or not at all, also across a power loss.

**CommandLine** is main.rs, commands.rs and process.rs: each process runs one
command, `job` is the stage it is at, and each write of the vault is one
`atomic_write` of VaultStorage that other processes, kills and power losses
interleave with.

| code | actions |
|---|---|
| `open_app` | `NoLockFile`, `AlreadyRunning`, `OpenApp` |
| checks before a prompt | `Refused`, `PathTaken`, `Checked` (with `ensure_dirs`) |
| `unlock` | `UnlockRefused`, `UnlockBad` then `Penalised`, `UnlockClean`, `UnlockCounted` then `Pardoned` |
| `cmd_*` | `PrintEntries`, `Add`, `Rm`, `Passwd`, `InitVault`, `Import`, `Export`, `Copy`, then `Saved` or `NotSaved`; `NotFound`, `CommandRefused` |
| the provisioning URI | `PrintUri` |
| `write_new_file_0600` | `CreateFile`, `WriteFile`, `SyncFile`, `FileTaken`, `FileFails` |
| `wait_for_clear`, `clear_clipboard_with` | `Wait`, `Cleared`, `NotOurs` |
| exit code, kill, signal | `Reap`, `Kill`, `Signal` |

A vault is named by its TOTP seed, because only who has seen the seed can unlock
it: `shown` are the seeds whose URI was printed. `init` draws a seed; a recovery file
carries the one of its vault, and `import` enrols that one again (app.rs:432-441) in a
fresh header with no export recorded, so that what it provides is the exported vault
again and opens with the authenticator entry the user already has. A vault or a recovery
file that the user deletes has settled on the disk before; otherwise the loss would be
the user's.

**HardwareSlots** has the backends as the core uses them: enrol `VaultKey`, then
`TotpSeed`, then write the header; or unwrap the vault key and then the seed, each
with `begin_unwrap` and `complete_unwrap`. A blob keeps its kind, its random name,
the slot bound into it and the generation of its root (TPM owner seed, or the
key of one mock). The actions are named for the backend: `AndroidEnroll`,
`AndroidWrapped`, `AndroidWrapFails`, `AndroidUnwrap`; `TpmOpen`, `PersistSrk`,
`TpmSeal`, `TpmUnseal`; `KeyringEnroll`, `KeyringUnwrap`; `MockEnroll`, `MockUnwrap`,
`MockForced`. The rest is the world: a cleared TPM, another user of the TPM's
persistent handle, a new fingerprint, deleted keys, a damaged header.
`altered`, `optedIn` and `removed` are history variables.

**FileFormats** has the vault file, the recovery file and the wrap blobs as
sequences of cells: a fixed-width field or a length prefix is one cell, a byte of
a body another. A u16 prefix counts to `Max16` and is clamped beyond it, as in
the code. Encryption is ideal: what was sealed is a set of (key, nonce,
associated data, ciphertext). The encoders and the parsers are operators; the
state is a file, written once and then edited by the disk. A parser reads one
field after another (`ReadAll`) and counted groups of fields (`ReadGroups`).
`IsVault`, `IsRecovery` and `IsBlob` are the documents that each format can hold.

**PasswordGenerator** is `generate` with each random word a step: the rejection of
words beyond the zone, one draw per owed class and then from all, and the
shuffle. A charset's symbols may hold letters and digits, as `SymbolSet::Custom` allows, and
`Distinct` then drops what is repeated, as `effective_set` does. **TotpCodes** is `verify` with the truncated HMAC of each step an
arbitrary number, so that codes collide in every way they can. MCAlgorithms
runs the three side by side, since they share nothing.

## What the runs check

The runs of PassmanApp and of CommandLine check deadlock; those of `GtkShell` and
`BindingCall` come to rest when the bounded number of requests is used up, that
of HardwareSlots when its names and roots are, and that of the algorithms when
the file cannot be edited again, the password is done or the clock has run out.

| run | instance | shows |
|---|---|---|
| `app_entries` | 2 ids with 2 contents, 2 keys, 1 recovery file, locked file | `VaultCoherent`, `SessionCurrent`, `ExportsKnown`, and that PassmanApp implements EntryStore |
| `app_access` | 1 App that restarts, 2 passwords, clock 1..4 set back at will, skew 1, windows of 1 and 2 units from the second failure on | `FailuresCounted`, `FailuresSpaced`, `CountKept`, `NoCodeReused`, `ExpiredStartsNothing`, `SessionNeverExtended` |
| `app_lockless` | 2 Apps at once, 2 ids, 2 keys, no file lock | `VaultOpens`, and `IInv`, the invariant of the proofs |
| `gtk_session` | 5 requests, 1 secret, clock 0..4, session of 2 | `NothingStranded`, `ForeignKept`, `PageFollowsWorker`, `ExpiredSessionLocks`, `UnlockAnswered` |
| `binding_session` | 2 threads, 4 calls, session of 1 | `NothingStranded`, `EveryCallReturns`, `DropStops` |
| `commands` | 2 processes, 1 label with up to 2 entries, a strong and a weak password, 2 seeds, 1 clear tick, file lock | `VaultFileAtomic` (implements AtomicFile), `NeverReplaced`, `ExportRecorded`, `NothingLostUnshown`, `ExitTruthful`, `SecretGoes` |
| `hardware` | the three platforms, 4 random names, 3 generations of the root | `SlotBound`, `LossIsReal`, `KeysKept`, `NoSilentDowngrade` |
| `formats` | vaults of both versions with 0 to 2 entries, recovery files over a grid of Argon2 parameters and host memories, blobs at and beyond the prefix's range, two edits; 2425 policies, some with a letter among the symbols, with every word of 16; every assignment of HMACs to steps | `RoundTrips`, `WholeOrRefused`, `GeneratedAsAsked`, `DrawsUniform`, `FreshCodeAccepted` |

Each property has a mutant in `PROJECT.json`: a plausible bug in the named
definition with which TLC finds the property violated.

*Bounds.* With the file lock one App that exits and opens again behaves as two
would, except for who holds the lock; `app_entries` has two for that reason.
Two keys allow one re-key or import after the creation: stale key and new
key. Two ids and two contents tell an update from an add and one entry from the
other. The lockout properties relate one failure to the next, and the schedule
of `app_access` has a free failure, a window and a longer one, and the count
reaches its ceiling. Time is in units that only order the
events: session lengths and windows are a few units, which keeps expiry before,
at and after a copy's clamp reachable. Five GTK requests allow unlock, copy,
lock, unlock, copy; four calls allow two threads to unlock, copy, lock and
retry. Two processes are enough for the file, since a third one would only be
turned away as well; two seeds are a vault and a second one that an `init` makes after
the user gave up the first, whose recovery file may still be there; an atomic write begins with one file on the path's record
(`MaxUnsettled`), which leaves two a power loss can choose from while it runs.
Four names are two vaults' worth of slots, or a vault and a failed attempt at one;
three roots a TPM cleared twice. `Max16` = 12 and `Bucket` = 4 put bodies on both
sides of the prefix's range and of a bucket's edge; two edits are a cut and a
change, or two exchanges. With 16 words, pools of 1 to 6 characters and 2 to 4
places, zones with and without rejected words occur. Codes of two binary digits
for steps with 6 HMACs collide within the window of three steps and across it.

*Fairness.* Only liveness uses it. The worker thread is fair for receiving and
handling (an operation ends: the code's own assumption, it has no time-out for
a prompt), and for the idle poll while the queue is empty, which is when
`recv_timeout` can time out, or once its wipe has begun. `Compare` is not fair: a
clear may find the clipboard out of reach each time. Time passes. GTK's main loop polls
and fires timers; a thread inside the binding proceeds when it can. Weak fairness is
enough for the mutex since calls are bounded. Users are not fair: no click and
no call has to happen. Of the commands only a `get` in its wait is fair: it
sleeps a bounded number of times and then clears; a kill is always possible and
is counted as the end of the promise, since nothing can run after it.

### Where the code and its words disagree

* `overlapping_copies`: `ClearClipboard` forgets the worker's `live_cookie`
  whichever cookie it was sent for (worker.rs:526-529). Copy A, copy B, A's
  timer, Lock: nothing wipes B, and B's own clear is dropped by the locked loop.
  `gtk_session` therefore has one copy at a time (`OverlappingCopies = FALSE`),
  and there nothing is stranded.
* `failed_clear`: `ClearClipboard` also forgets the cookie when the clear came to
  nothing because the clipboard could not be read or written (`Unavailable`,
  unlocked.rs:658 and 669; worker.rs:523-529). The comment at worker.rs:381-383 has it
  that a clear "that wiped it forgets it"; here a Lock, Quit or expiry soon after, with
  the clipboard in reach again, does not try, and the secret stays. `NothingStranded`
  therefore excuses a secret whose clear was carried out and failed; `WipedAtTheEnd`,
  which excuses only the wipe at the end of the session, is violated.
* `binding_mixed_answers`: `lock()` returns before its `Locked` is sent. If the
  next call drains before that and waits after it, it takes this `Locked` for
  its answer, and its own answer is left for a later call (lib.rs:655-661,
  "pairing stays one-to-one").
* `export_staleness_after_import`: an import starts with no `last_export_at`,
  so the next password change reports that no export is stale, though the
  imported file exists (unlocked.rs:57-61). Within the life of one vault file
  the report is right: `ExportsKnown`.

Smaller things seen on the way: `Session`'s doc says its drop joins the thread
(worker.rs:140-141), the code detaches it; `lockout_mem`'s doc (app.rs:82-88)
speaks of coalesced writes that `record_failure` no longer does; the module doc
of storage.rs (11-13) promises that a second instance cannot race a save, which
on Android rests on there being one process (and `EntriesLinearizable` does
fail in the configuration of `app_lockless`, as the mutant of `Open` shows);
`lock()` and `clear_clipboard()` wait for the mutex that a running call holds
(lib.rs:655-658 says they never wait; 663-668 admits it for a hung operation);
a second Lock click is reported as an automatic lock (ui.rs:1282-1304);
`verify_totp_code` is the one session operation that does not check the expiry
(unlocked.rs:5-7; lib.rs:620 documents `SessionLocked`): an expired session still
verifies a code and consumes its step.

Of the clipboard: the digest is read and compared and the clipboard overwritten in
separate calls (unlocked.rs:655, 661, 667), and what another program copies in between
is overwritten, although unlocked.rs:211-212 says that "a foreign value is left
untouched". The clipboard has no compare-and-set, so the window can only be made small.
The model has the step, and `ForeignKept` excuses it (`clearing = "raced"`): a value that
was there when the digest was read is never overwritten.

Of the commands and the storage: `passman init` opens the App first, and the App opens
its lock file next to the vault (storage.rs:196-210); the vault's directory is made only
afterwards, by `cmd_init` (commands.rs:257-259). Where nothing else has made it, as on a
new machine, `init` and `import` end with "could not open the vault" (`NoLockFile`),
although `src/README.md`:31-37 shows `init` as the first command, and the GTK shell opens the
App in the same way. The model therefore lets the user make the directory (`MakeDir`).
`init` writes the vault before it prints the TOTP secret, so that a kill in between
leaves an empty vault nobody can unlock, and `init` refuses from then on until the file is
deleted (`NothingLostUnshown` says that no such vault ever has an entry; one that an
`import` wrote before it was killed opens with the old authenticator entry); `import`
can print its secret, and then exit with 1 because the session expired before the
entries were counted; `write_new_file_0600` leaves a partial file behind when it fails, and never syncs the directory; `passwd` says that "your previous
recovery export no longer works" (commands.rs:556-558), while the old file still
imports under the old password.

Of the hardware backends: the core never calls `invalidate`, which store.rs:117-121
describes as part of rotation and re-enrolment, so an enrolment that fails at
its second slot leaves a key behind (app.rs:202); store.rs:107 documents
`PermanentlyInvalidated` for a key that is gone, but a deleted Android key is
reported as `Backend`; a TPM that is out of reach at start, with
`--allow-software-hsm`, selects the keyring for a vault enrolled in the TPM, and its
unlock then ends in `MalformedBlob`.

Of the formats and the generator: the vault's parser accepts, and drops, any
value of the absent export timestamp, the one place where two files read as the
same vault (`WholeOrRefused` names it); `generate` counts the characters of a
custom symbol set as symbols where `validate` counts them by what they are, which
differs only for symbol sets with letters or digits, and no shell makes one
(`GeneratedAsAsked` says of those only that length and charset are right, and
`DrawsUniform` that their draws are fair);
`generate` refuses a set of one character although a password of it exists.

## What is proved

Eight modules hold the proofs. Every theorem is for all values of the constants
that meet the named assumptions of the modules (`...Assumption`): sets that are
different things are disjoint, bounds are naturals, the lockout schedule starts
at zero and does not decrease, the powers in the code's table are powers, letters and
digits differ and no class repeats a character, a document has the fields of its type.
The hypotheses of a theorem, where it has one, are in its statement:

* `FileLock`: the instance lock works. On every desktop `InstanceLock::acquire`
  locks a file, so this is the platform; on Android locking is not supported, the
  code goes on without, and there is one process (storage.rs:231-237). Without it
  `EntriesLinearizable` is false, as the mutant of `Open` shows.
* `FactOverwrite`: the setting that lets a clear overwrite the clipboard. With it
  off the code clears nothing and a copied secret stays, by the user's choice.
* `OverlappingCopies = FALSE` (the shell) and `OneSecret` (the binding): a clear is
  for the secret that was copied last. `overlapping_copies` is the counterexample
  without it. The binding's callers can clear any secret at any moment, so there it
  is said of the secrets rather than of the order.

### The core: PassmanApp_proofs

With or without the lock:

* `MergeOnlyLengthens`: the comment of `merge_lockout` ("can only *lengthen* a
  lockout, never shorten one") for every non-decreasing schedule and any clock.
* `Invariant`: `Spec => []IInv`, and from it `TypeCorrect`, `VaultAlwaysOpens`,
  `CodesOnce` and `CountRemembered`.
* `NeverExtended` and `ExpiredStays`, action properties about the end of a session.

`VaultOpens` is not inductive: an App that commits writes back the copy in its
`op`, so that copy has to open too, and it is another App that may have written
`disk` since. `IInv` adds `OpConsistent` (the copy in `op` opens; an unlock in
progress has no session and its lockout record is the process's; anything else
in progress has a session) and `CodesSpent` (no code accepted so far is later
than the last accepted step, from which a second acceptance is impossible).
Most actions touch one App, so `IInv` is cut into a part about the shared
variables (`Whole`) and one part per App (`Part`); `OnePart` says that an action
that respects its own part and the shared one respects all, and each action has
a lemma with those two obligations. `SealedOpens`, `UpsertedOpens`,
`RemovedOpens` and `HeaderOpens` say that each way of making a vault keeps it
readable.

Under the lock: `VaultStaysCoherent`, `SessionStaysCurrent`, `ExportsStayKnown`,
`CountStaysKept`, `FailuresStaySpaced`, and `StoreImplemented`, the refinement of
EntryStore. None of them is inductive by itself either; `LockInv` adds to `IInv`

* `LoneApp`, one App is open;
* `AppInv`, the copy in the open App's `op` *is* the vault on disk, its session has the
  vault's key and rows, an add has an id the vault does not have, and an unlock in
  progress began when the window of the vault's record was over (`WaitedOut`);
* `FileInv`, the vault and each recovery file hold the records of their own rows,
  under keys and ids that were drawn, and a record without a time counts nothing.

`AppInv` is what makes a commit safe. An App may wait for a prompt between its
load and its commit, and the lock is the only reason that nothing happens to the
file meanwhile. `FailuresStaySpaced` needs `WaitedOut`: the record an unlock
writes is dated at its start, which was after the window of the record it
replaces. The refinement maps the disk to the map of its decrypted entries, and
each step to `Submit`, `Apply`, `Refuse`, `Save` or `Replace` of EntryStore, or to none.

### The storage and the commands: CommandLine_proofs

Of VaultStorage alone, with or without the lock: `StorageInvariant`, `AlwaysWhole`
(the path names no file or a whole one now and after a power loss; where files are
locked one process writes) and `StorageAtomic`, the refinement of AtomicFile.
`StorageInv` says what the temp file of each write holds at each stage of
`atomic_write`; a rename before the sync, or a write after it, would break it.
The rename is the step that the register sees.

Of CommandLine, under the lock: `CommandAtomic`, `CommandTypes`, `UnshownNotLost`,
`VaultKept`, `ExportsRecorded` and `ExitsTruthful`, all from `CommandInv`. It says what
each command relies on at each of its stages (`ProviderJob` for init and import,
`OwnerJob` for the rest: the session's copy is the vault until the command's own
write is renamed, and what it asks to write is its edit of that copy), that the
files a power loss may bring back are older states of the same vault
(`SameVault`), that every recovery file, on disk or as a power loss may bring it back,
has a seed that was shown (`FileShown`), and that every vault is empty or has such a seed
(`UnshownEmpty`). The last two carry each other: a file is written by a command that has
unlocked the vault, and a vault with entries comes from such a file or from such a
command. That is why `import` may be killed anywhere. `ExportsRecorded` is about a vault
that is there before and after a step, so that an import, which starts a history afresh,
falls outside it (`StaleExportsKnown` is the finding about that).

### The hardware: HardwareSlots_proofs

`HardwareTypes`, `SlotsBound`, `LossesReal`, `KeysStay` and `NeverDowngraded`, for any
number of names and roots and with no hypothesis. `HardwareInv` says that the
blobs of the header, and those that an operation has made or read so far, are
what passman wrote for their slot, with a key that is there unless somebody else
destroyed it, until the header is damaged (`BlobInv`). Whatever the world does
between two calls of a backend is a step of `Onward` (names, roots and losses only
grow), and `BlobStays` shows once that such a step keeps every blob as good.

### The worker and its shells: SessionWorker_proofs, GtkShell_proofs, BindingCall_proofs

SessionWorker_proofs has the lemmas about the worker under any client: what a
receive and a send do to the queues, the cases of `Handle`, and that the worker's
steps keep `WorkerInv`, in which only a copy is answered `copied`.

* `ShellTypes`, `PageAlwaysFollows` and `ForeignStays` hold in every setting. The last needs
  that between `Compare` and `Overwrite` the clipboard holds nothing foreign but what has come
  in since, which is marked so (`Matched`).
  `PageFollowsWorker` speaks of empty queues, and is inductive only as `PageInv`: the
  last response on its way that changes the page shows the worker's state, and if
  there is none the page does.
* `NothingStaysStranded` uses `ClipInv`: while a secret is on the clipboard that no clear
  has missed, the session remembers its cookie and every clear, answer and timer on its
  way is for that secret; and a copy that is still to be done is alone on its way.
* `BindingTypes` for any number of threads, with the fact that exactly the thread
  that waits for an answer holds the mutex; `BindingStrandsNothing`.

### The generator and the codes: Algorithms_proofs

* `WordsFair`: as many words below the rejection zone of `uniform_from` give one choice
  as any other, for every number of choices and every width of the word.
* `AllDrawsUniform` and `AllGeneratedAsAsked`, for every policy that resolves to a request
  (`PolicyAssumption`) over letters and digits that differ, with any set of symbols
  (`GeneratorAssumption`). The symbols may repeat a letter: `DistinctSeq` says that
  `effective_set` then keeps every character once, without which a draw that is uniform
  over places would favour it. The minimums, and the refusals, are for sets of symbols
  with no letter or digit among them (`OnlySymbols`), as those of every shell.
  `GeneratedAsAsked` is of the finished password; `BufInv` carries it there: while
  characters are drawn, each place that is owed to a class holds a character of it,
  and from the end of the drawing on the buffer has the length and the minimum of each
  class, which a swap of the shuffle keeps. `RefusedHaveNone` is the other half: a request
  is refused only when no valid password exists or it leaves no choice.
* `FreshCodesAccepted`, for every base, number of digits, skew, step length and HMAC, and
  with the digits that the user types: `CodeShown` says that they are parsed back to
  the code they show. `CodeAssumption` says that `POW10` holds powers.

### The file formats: FileFormats_proofs

`WrittenIsRead` and `DamagedIsRefused`: `RoundTrips` and `WholeOrRefused` hold of every
document, of any number of entries with bodies of any length, under any number of edits.
`FileInv`, the inductive invariant, says little (a file is a sequence of numbers, a
document is one of its format, a file without edits is as written), so both theorems
are about the encoders and the parsers:

* A layout is a sequence of fields, and `Typed(layout)` are the values that fit it. `Enc`
  writes them as one piece of cells per field.
* `Comes`: a reader in front of such pieces reads those values, and leaves what follows.
  `Stands`: a reader that succeeded has read the values of such pieces, and they stand at
  its start. The two are what `RoundTrips` and `WholeOrRefused` need of a parser. They are
  shown of one field (`FieldTaken`, `FieldStands`), then of a layout (`ReadBack`,
  `ReadStands`) and of a counted loop over layouts (`GroupsBack`, `GroupsStand`).
* Each format is a layout: `AndroidEncodes`, `TpmEncodes`, `BlobEncodes`, `ExportBytes`,
  `EntryRows`, `HeadBytes`, `EnvRows`, `IndexBytes`. The remaining lemmas split the values of a
  layout into the fields of the document and back, strip the padding
  (`StrippedPadded`), and say of the ideal encryption that what opens was sealed so
  (`OpenedSeal`).
* A vault is decided in two steps: a file that is accepted encodes to itself, but for
  an absent timestamp (`VaultWhole`), and a parsed vault that opens under the document's
  seals has its index, hence its rows, and by `check_index_envelope_sets` an envelope for
  each and no other (`OpenWhole`).

### Recursive functions

Both modules have to say what a recursive function (`ReadAll`, `FlattenSeq`, a filter, the
digits of a number) computes for every input, while an induction theorem with an
operator as its parameter cannot be used here. They take sets instead: `Least` says that
a set of naturals that is not empty has a least member, `UpTo` that a set with 0 and with
the successor of each of its members up to a bound has every number up to the bound, and
`Repeated` that a step can be repeated, whose recursive function is then the code's
(`ReadAllRepeats`, `GroupsRepeat`, `RowRepeats`). A statement is proved by induction as the
membership of each number in the set of those it holds of.

### What is only model-checked

Liveness (`ExpiredSessionLocks`, `UnlockAnswered`, `EveryCallReturns`, `DropStops`,
`SecretGoes`): fairness is out of the prover's reach. Every invariant, every action
property and both refinements that the passing runs check are stated by a theorem.

## What is not modelled, and the plan

* HMAC, AEAD, HKDF and Argon2id are ideal functions; zeroizing of memory, core
  dump hardening and file modes have no counterpart in a model of this kind.
* The strength estimate (entropy.rs) is floating point over zxcvbn: CommandLine
  takes its verdict, a set of strong passwords.
* Temp files' random names, aliases and uuids do not collide.
* The worker's `"op"` requests are not told apart; a worker without a clipboard
  and a prompt that never answers are not in the runs.
* The GTK shell's add page, create page, dialogs and list; the binding's type
  conversions and callbacks; the Android application's Kotlin code (its calls are
  the threads of BindingCall); settings (read once); packaging and fuzz targets.
* Five hazards have no property. An edit that was written but is answered
  `Locked` (worker.rs:552) and a second `Unlock` by the Enter key (ui.rs:742) need a
  composition of PassmanApp with the worker or the shell, which has more states
  than a run allows. That an expired session still verifies a code
  (unlocked.rs:339), that a refused second slot leaves a key behind (app.rs:202),
  and that `init` fails at the lock while its directory is missing (commands.rs:258) are
  what the code does and are modelled so; they are noted above.

What could be proved next: which of `NothingLostUnshown`, `NeverReplaced` and
`ExportRecorded` of CommandLine survive without the lock, and the types there; and the
pairing of calls and answers in BindingCall, as far as `binding_mixed_answers` leaves it
true.

----------------------------- MODULE CommandLine -----------------------------
(***************************************************************************)
(* The passman command: passman-cli (main.rs, commands.rs, process.rs) on  *)
(* top of the vault file of VaultStorage.                                  *)
(*                                                                         *)
(* Several processes run one command each.  A job walks through the stages *)
(* of its command; every write of the vault is the atomic_write of         *)
(* VaultStorage, step by step, and a job may be killed, or the power may   *)
(* fail, between any two steps.  An init draws a TOTP seed for its vault,  *)
(* and an import takes over the seed of its recovery file; of a vault's    *)
(* entries only the labels matter here.                                    *)
(***************************************************************************)
EXTENDS VaultStorage

CONSTANTS
    Labels,           \* entry labels
    MaxEntries,       \* bound on the entries with one label
    Passwords,        \* master passwords
    StrongPasswords,  \* those the export gate lets through
    MaxSeeds,         \* bound on the TOTP seeds drawn
    ClearTicks,       \* ticks a copy stays on the clipboard
    NoLabel, NoImage, NoJob

\* How many entries carry each label
Entries == [Labels -> 0 .. MaxEntries]
NoEntries == [l \in Labels |-> 0]

Seeds == 1 .. MaxSeeds

Image    == [seed : Seeds, pw : Passwords, entries : Entries, exported : BOOLEAN]
Recovery == [seed : Seeds, pw : Passwords, entries : Entries]

RecoveryFile == [data : Recovery \cup {Torn}, stable : Recovery \cup {Torn}]

\* The commands with a label, and the others
Labelled  == {"add", "get", "show", "rm"}
Commands  == Labelled \cup {"init", "list", "export", "import", "passwd"}
Providers == {"init", "import"}

Stages == {"check", "unlock", "penalty", "pardon", "session",
           "save", "print", "file", "fileWrite", "fileSync", "wait", "exit"}

Job == [cmd : Commands \cup {"none"}, label : Labels \cup {NoLabel}, stage : Stages,
        image : Image \cup {NoImage}, ticks : 0 .. ClearTicks, code : 0 .. 6]

ASSUME CommandAssumption ==
    /\ Images = Image
    /\ MaxEntries \in Nat /\ MaxSeeds \in Nat /\ ClearTicks \in Nat
    /\ StrongPasswords \subseteq Passwords
    /\ NoLabel \notin Labels /\ NoImage \notin Image /\ NoJob \notin Job
    /\ Torn \notin Recovery /\ NoFile \notin RecoveryFile

VARIABLES
    job,          \* the command each process runs
    interrupted,  \* CLIPBOARD_CLEAR_REQUESTED of each process
    dir,          \* the vault's directory exists
    minted,       \* how many seeds were drawn
    shown,        \* seeds whose provisioning URI was printed
    file,         \* the recovery file
    fileSettled,  \* what its path may name after a power loss
    clip          \* "secret" while it holds a copy that a get answers for, else "other"

fileVars == <<file, fileSettled>>
outVars  == <<dir, minted, shown, fileVars, clip>>
vars     == <<storageVars, job, interrupted, outVars>>

TypeOK ==
    /\ StorageTypeOK
    /\ job \in [Procs -> Job \cup {NoJob}]
    /\ interrupted \subseteq Procs
    /\ dir \in BOOLEAN
    /\ minted \in 0 .. MaxSeeds
    /\ shown \subseteq 1 .. minted
    /\ file \in RecoveryFile \cup {NoFile}
    /\ fileSettled \subseteq RecoveryFile \cup {NoFile}
    /\ clip \in {"secret", "other"}

Init ==
    /\ StorageInit
    /\ job = [p \in Procs |-> NoJob]
    /\ interrupted = {}
    /\ dir = FALSE
    /\ minted = 0 /\ shown = {}
    /\ file = NoFile /\ fileSettled = {NoFile}
    /\ clip = "other"

-----------------------------------------------------------------------------
(* Moving a job along *)

In(p, stage) == job[p] # NoJob /\ job[p].stage = stage
Runs(p, cmds) == job[p] # NoJob /\ job[p].cmd \in cmds

NewJob(cmd, label, stage) ==
    [cmd |-> cmd, label |-> label, stage |-> stage,
     image |-> NoImage, ticks |-> 0, code |-> 0]

Goto(p, stage) == job' = [job EXCEPT ![p].stage = stage]

\* A job that has ended keeps its exit code only.
Ended(code) == [NewJob("none", NoLabel, "exit") EXCEPT !.code = code]

\* process.rs: the exit code of a tagged error, 1 for any other
Exit(p, code) == job' = [job EXCEPT ![p] = Ended(code)]

\* A write begins, and the job goes to the stage that waits for it.
Save(p, stage, image) ==
    /\ StartWrite(p, image)
    /\ Goto(p, stage)
    /\ UNCHANGED <<vault, settled, holders, interrupted, outVars>>

Fail(p, stage, code) ==
    /\ In(p, stage)
    /\ Exit(p, code)
    /\ UNCHANGED <<storageVars, interrupted, outVars>>

-----------------------------------------------------------------------------
(* A new process, up to the instance lock: nothing of it is seen before that *)

\* Not in the model: gen, unreadable settings and a missing backend end the process here,
\* and it has touched nothing.
AtOnce(p, code) ==
    /\ job[p] = NoJob
    /\ Exit(p, code)
    /\ UNCHANGED <<storageVars, interrupted, outVars>>

\* The lock file cannot be created where there is no directory.
NoLockFile(p) == ~dir /\ AtOnce(p, 1)

AlreadyRunning(p) == dir /\ ~LockFree(p) /\ AtOnce(p, 6)

\* open_app
OpenApp(p, cmd, label) ==
    /\ job[p] = NoJob
    /\ label = NoLabel <=> cmd \notin Labelled
    /\ dir
    /\ Acquire(p)
    /\ job' = [job EXCEPT ![p] = NewJob(cmd, label, "check")]
    /\ UNCHANGED <<vault, settled, write, interrupted, outVars>>

-----------------------------------------------------------------------------
(* The checks before anything is asked *)

\* cmd_init and cmd_import refuse to overwrite; the others need a vault.
MayRun(p) == (vault = NoFile) <=> Runs(p, Providers)

Refused(p) == ~MayRun(p) /\ Fail(p, "check", 1)

\* cmd_export looks at its path first.
PathTaken(p) == Runs(p, {"export"}) /\ file # NoFile /\ Fail(p, "check", 1)

\* ensure_dirs in the commands that provide a vault, a prompt in the others
Checked(p) ==
    /\ In(p, "check")
    /\ MayRun(p)
    /\ Runs(p, {"export"}) => file = NoFile
    /\ dir' = TRUE
    /\ Goto(p, IF Runs(p, Providers) THEN "session" ELSE "unlock")
    /\ UNCHANGED <<storageVars, interrupted, minted, shown, fileVars, clip>>

-----------------------------------------------------------------------------
(* unlock *)

Readable == vault # NoFile /\ vault.data # Torn

\* Cancelled, transient, no hardware key, corrupt: 1.  Locked out: 5.
UnlockRefused(p) == \E code \in {1, 5} : Fail(p, "unlock", code)

\* A wrong password or code is counted in the header, then reported; the count itself is
\* PassmanApp's.
UnlockBad(p) ==
    /\ In(p, "unlock")
    /\ Readable
    /\ Save(p, "penalty", vault.data)

Penalised(p) ==
    /\ In(p, "penalty")
    /\ Returned(p, "ok") \/ Returned(p, "failed")
    /\ Exit(p, 4)
    /\ UNCHANGED <<vault, settled, holders, interrupted, outVars>>

Session(p, image) ==
    job' = [job EXCEPT ![p].stage = "session", ![p].image = image]

\* Only who has seen the seed can give a code.
UnlockClean(p) ==
    /\ In(p, "unlock")
    /\ Readable
    /\ vault.data.seed \in shown
    /\ Session(p, vault.data)
    /\ UNCHANGED <<storageVars, interrupted, outVars>>

\* A count in the header is cleared, best effort, before the session starts.
UnlockCounted(p) ==
    /\ In(p, "unlock")
    /\ Readable
    /\ vault.data.seed \in shown
    /\ Save(p, "pardon", vault.data)

Pardoned(p) ==
    /\ In(p, "pardon")
    /\ Returned(p, "ok") \/ Returned(p, "failed")
    /\ Session(p, vault.data)
    /\ UNCHANGED <<vault, settled, holders, interrupted, outVars>>

-----------------------------------------------------------------------------
(* The commands, once unlocked or, for the providers, once checked *)

Doing(p, cmd) == In(p, "session") /\ Runs(p, {cmd})

Carrying(p) == job[p].image.entries[job[p].label]

\* find_entry
UniqueMatch(p) == Carrying(p) = 1

NotFound(p) ==
    In(p, "session") /\ Runs(p, {"get", "show", "rm"}) /\ Carrying(p) = 0 /\ Fail(p, "session", 3)

\* Several entries with the label, passwords that do not match, an expired session, a
\* refused re-authentication, a weak password, an unreadable or foreign recovery file,
\* a clipboard out of reach, a hardware that does not enrol
CommandRefused(p) == Fail(p, "session", 1)

\* list, and get --show
PrintEntries(p) ==
    /\ Doing(p, "list") \/ (Doing(p, "show") /\ UniqueMatch(p))
    /\ Fail(p, "session", 0)

Edit(p, entries) == Save(p, "save", [vault.data EXCEPT !.entries = entries])

Add(p) ==
    /\ Doing(p, "add")
    /\ [vault.data.entries EXCEPT ![job[p].label] = @ + 1] \in Entries
    /\ Edit(p, [vault.data.entries EXCEPT ![job[p].label] = @ + 1])

Rm(p) ==
    /\ Doing(p, "rm")
    /\ UniqueMatch(p)
    /\ Edit(p, [vault.data.entries EXCEPT ![job[p].label] = @ - 1])

Passwd(p, new) ==
    /\ Doing(p, "passwd")
    /\ Save(p, "save", [vault.data EXCEPT !.pw = new])

\* The write of a new vault: a fresh header, in which no export is recorded
Provide(p, seed, pw, entries) ==
    /\ StartWrite(p, [seed |-> seed, pw |-> pw, entries |-> entries, exported |-> FALSE])
    /\ Goto(p, "save")
    /\ UNCHANGED <<vault, settled, holders, interrupted, dir, shown, fileVars, clip>>

\* App::create_vault draws the seed.
InitVault(p, pw) ==
    /\ Doing(p, "init")
    /\ minted < MaxSeeds
    /\ minted' = minted + 1
    /\ Provide(p, minted', pw, NoEntries)

\* Mutant: the seed is drawn anew, as the vault key is.
ImportReseeds(p) ==
    /\ Doing(p, "import")
    /\ file # NoFile /\ file.data # Torn
    /\ minted < MaxSeeds
    /\ minted' = minted + 1
    /\ Provide(p, minted', file.data.pw, file.data.entries)

\* App::import_recovery enrols the seed of the recovery file again.
Import(p) ==
    /\ Doing(p, "import")
    /\ file # NoFile /\ file.data # Torn
    /\ Provide(p, file.data.seed, file.data.pw, file.data.entries)
    /\ UNCHANGED minted

\* Mutant: the vault is not told of the export.
ExportUntold(p) ==
    /\ Doing(p, "export")
    /\ vault.data.pw \in StrongPasswords
    /\ Save(p, "save", vault.data)

\* UnlockedApp::export_recovery writes last_export_at before it returns the bytes.
Export(p) ==
    /\ Doing(p, "export")
    /\ vault.data.pw \in StrongPasswords
    /\ Save(p, "save", [vault.data EXCEPT !.exported = TRUE])

\* Mutant: what the write returned is not looked at.
SavedOrNot(p) ==
    /\ In(p, "save")
    /\ Returned(p, "ok") \/ Returned(p, "failed")
    /\ IF Runs(p, Providers) /\ Readable THEN Goto(p, "print")
       ELSE IF Runs(p, {"export"}) THEN Goto(p, "file")
       ELSE Exit(p, 0)
    /\ UNCHANGED <<vault, settled, holders, interrupted, outVars>>

Saved(p) ==
    /\ In(p, "save")
    /\ Returned(p, "ok")
    /\ IF Runs(p, Providers) THEN Goto(p, "print")
       ELSE IF Runs(p, {"export"}) THEN Goto(p, "file")
       ELSE Exit(p, 0)
    /\ UNCHANGED <<vault, settled, holders, interrupted, outVars>>

NotSaved(p) ==
    /\ In(p, "save")
    /\ Returned(p, "failed")
    /\ Exit(p, 1)
    /\ UNCHANGED <<vault, settled, holders, interrupted, outVars>>

\* The provisioning URI goes to stdout; import then counts the entries, and fails if the
\* session has expired by now.
PrintUri(p) ==
    /\ In(p, "print")
    /\ shown' = shown \cup {vault.data.seed}
    /\ Exit(p, 0) \/ (Runs(p, {"import"}) /\ Exit(p, 1))
    /\ UNCHANGED <<storageVars, interrupted, dir, minted, fileVars, clip>>

-----------------------------------------------------------------------------
(* write_new_file_0600: create, write and sync, without a temp file *)

\* The same file with other contents, wherever the directory names it
FileBecomes(f) ==
    /\ file' = f
    /\ fileSettled' = {IF g = file THEN f ELSE g : g \in fileSettled}

FileUnchanged(p) == UNCHANGED <<storageVars, interrupted, dir, minted, shown, clip>>

\* create_new: nothing may be there
CreateFile(p) ==
    /\ In(p, "file")
    /\ file = NoFile
    /\ file' = [data |-> Torn, stable |-> Torn]
    /\ fileSettled' = fileSettled \cup {file'}
    /\ Goto(p, "fileWrite")
    /\ FileUnchanged(p)

FileTaken(p) == file # NoFile /\ Fail(p, "file", 1)

WriteFile(p) ==
    /\ In(p, "fileWrite")
    /\ FileBecomes([file EXCEPT !.data = [seed |-> vault.data.seed, pw |-> vault.data.pw,
                                          entries |-> vault.data.entries]])
    /\ Goto(p, "fileSync")
    /\ FileUnchanged(p)

SyncFile(p) ==
    /\ In(p, "fileSync")
    /\ FileBecomes([file EXCEPT !.stable = file.data])
    /\ Exit(p, 0)
    /\ FileUnchanged(p)

\* What was created stays: there is no cleanup.
FileFails(p) == \E stage \in {"file", "fileWrite", "fileSync"} : Fail(p, stage, 1)

-----------------------------------------------------------------------------
(* get: a copy waits for its end and is cleared *)

ClipUnchanged(p) == UNCHANGED <<storageVars, interrupted, dir, minted, shown, fileVars>>

Copy(p) ==
    /\ Doing(p, "get")
    /\ UniqueMatch(p)
    /\ clip' = "secret"
    /\ Goto(p, "wait")
    /\ ClipUnchanged(p)

\* Mutant: only a signal ends the wait.
WaitOverBySignal(p) == p \in interrupted

WaitOver(p) == job[p].ticks = ClearTicks \/ p \in interrupted

\* wait_for_clear
Wait(p) ==
    /\ In(p, "wait")
    /\ ~WaitOver(p)
    /\ job' = [job EXCEPT ![p].ticks = @ + 1]
    /\ UNCHANGED <<storageVars, interrupted, outVars>>

\* Mutant: the digests never match.
NeverOurs == FALSE

\* clear_clipboard_with compares digests.
Ours == clip = "secret"

\* Cleared; or StillOurs, when the settings forbid the overwrite, and Unavailable: then the
\* user is told, and the copy is nobody's.
Cleared(p) ==
    /\ In(p, "wait") /\ WaitOver(p)
    /\ Ours
    /\ clip' = "other"
    /\ Exit(p, 0)
    /\ ClipUnchanged(p)

\* Replaced or Empty
NotOurs(p) == In(p, "wait") /\ WaitOver(p) /\ ~Ours /\ Fail(p, "wait", 0)

-----------------------------------------------------------------------------
(* The end of a process, and the world around it *)

Gone(p) ==
    /\ job' = [job EXCEPT ![p] = NoJob]
    /\ interrupted' = interrupted \ {p}

Reap(p) ==
    /\ In(p, "exit")
    /\ Gone(p)
    /\ Release(p)
    /\ UNCHANGED <<vault, settled, write, outVars>>

\* SIGKILL, or SIGINT and SIGTERM where no handler is installed
Kill(p) ==
    /\ job[p] # NoJob
    /\ Gone(p)
    /\ StorageCrash(p)
    /\ clip' = IF In(p, "wait") THEN "other" ELSE clip
    /\ UNCHANGED <<dir, minted, shown, fileVars>>

\* on_clipboard_signal, installed for a get that copies once the backend is chosen
Signal(p) ==
    /\ Runs(p, {"get"}) /\ ~In(p, "exit")
    /\ p \notin interrupted
    /\ interrupted' = interrupted \cup {p}
    /\ UNCHANGED <<storageVars, job, outVars>>

AtRest == \A p \in Procs : job[p] = NoJob

MakeDir == ~dir /\ dir' = TRUE
           /\ UNCHANGED <<storageVars, job, interrupted, minted, shown, fileVars, clip>>

CopyOther == clip' = "other"
             /\ UNCHANGED <<storageVars, job, interrupted, dir, minted, shown, fileVars>>

KernelFlush ==
    /\ FlushDir
    /\ file' = IF file = NoFile THEN NoFile ELSE [file EXCEPT !.stable = file.data]
    /\ fileSettled' = {file'}
    /\ UNCHANGED <<job, interrupted, dir, minted, shown, clip>>

\* Somebody puts another file where the recovery file is to go.
OtherFile ==
    /\ file = NoFile
    /\ file' = [data |-> Torn, stable |-> Torn]
    /\ fileSettled' = fileSettled \cup {file'}
    /\ UNCHANGED <<storageVars, job, interrupted, dir, minted, shown, clip>>

\* The user gives up a vault or a recovery file, long after it was written.
OnStableStorage == settled = {vault} /\ fileSettled = {Survivor(file)}

LoseVault ==
    /\ AtRest
    /\ OnStableStorage
    /\ TakeAway
    /\ UNCHANGED <<job, interrupted, outVars>>

DeleteFile ==
    /\ AtRest
    /\ OnStableStorage
    /\ file # NoFile
    /\ file' = NoFile /\ fileSettled' = {NoFile}
    /\ UNCHANGED <<storageVars, job, interrupted, dir, minted, shown, clip>>

PowerLoss ==
    /\ StoragePowerLoss
    /\ job' = [p \in Procs |-> NoJob]
    /\ interrupted' = {}
    /\ \E f \in fileSettled : file' = Survivor(f)
    /\ fileSettled' = {file'}
    /\ clip' = "other"
    /\ UNCHANGED <<dir, minted, shown>>

-----------------------------------------------------------------------------
JobStep(p) ==
    \/ NoLockFile(p) \/ AlreadyRunning(p)
    \/ \E cmd \in Commands, label \in Labels \cup {NoLabel} : OpenApp(p, cmd, label)
    \/ Refused(p) \/ PathTaken(p) \/ Checked(p)
    \/ UnlockRefused(p) \/ UnlockBad(p) \/ Penalised(p)
    \/ UnlockClean(p) \/ UnlockCounted(p) \/ Pardoned(p)
    \/ NotFound(p) \/ CommandRefused(p) \/ PrintEntries(p) \/ Add(p) \/ Rm(p)
    \/ \E pw \in Passwords : Passwd(p, pw) \/ InitVault(p, pw)
    \/ Import(p) \/ Export(p) \/ Saved(p) \/ NotSaved(p) \/ PrintUri(p)
    \/ CreateFile(p) \/ FileTaken(p) \/ WriteFile(p) \/ SyncFile(p) \/ FileFails(p)
    \/ Copy(p) \/ Wait(p) \/ Cleared(p) \/ NotOurs(p)

Next ==
    \/ \E p \in Procs :
          \/ JobStep(p)
          \/ WriteStep(p) /\ UNCHANGED <<job, interrupted, outVars>>
          \/ Reap(p) \/ Kill(p) \/ Signal(p)
    \/ MakeDir \/ CopyOther \/ KernelFlush \/ OtherFile \/ LoseVault \/ DeleteFile
    \/ PowerLoss

\* A get in its wait sleeps for a bounded time and goes on.
Fairness == \A p \in Procs :
    /\ WF_vars(Wait(p))
    /\ WF_vars(Cleared(p) \/ NotOurs(p))

Spec == Init /\ [][Next]_vars /\ Fairness

-----------------------------------------------------------------------------
(* Properties *)

\* An init or an import never replaces a vault: whatever two processes do at once, and
\* wherever one is killed, its write takes effect where there is no vault, and no other step
\* changes which vault the path names (the checks of cmd_init and cmd_import, under the
\* instance lock).
NeverReplaced ==
    [][/\ Readable /\ Readable' => vault'.data.seed = vault.data.seed
       /\ \A p \in Procs : Runs(p, Providers) /\ Rename(p) => vault = NoFile]_vars

\* The vault knows of the recovery file with its seed.
Known == file # NoFile /\ file.data # Torn /\ file.data.seed = vault.data.seed
         => vault.data.exported

\* No command makes a recovery file that the vault does not know of, or a vault that is there
\* forget one, so that a password change can tell that it is stale (cmd_export,
\* export_recovery); only a power loss that takes the vault back can.  The vault that an
\* import provides does not know of the file it came from: StaleExportsKnown of MCPassmanApp.
ExportRecorded == [][Readable /\ Known /\ Readable' /\ ~PowerLoss => Known']_vars

\* Killed before it prints the TOTP secret, an init leaves a vault that opens for nobody; an
\* import does not, because the secret is the recovery file's, and the file came from a
\* vault that was opened.  So no entry is ever behind a secret nobody was shown.
NothingLostUnshown ==
    Readable /\ vault.data.seed \notin shown => vault.data.entries = NoEntries

SameContents(a, b) == a.entries = b.entries /\ a.pw = b.pw /\ a.seed = b.seed

\* What a job may report when it ends with this step
Succeeds(j) ==
    CASE j.cmd \in Providers -> /\ Readable /\ vault.data.seed \in shown'
                               /\ j.cmd = "import" => SameContents(file.data, vault.data)
      [] j.cmd = "add" -> vault.data.entries = [j.image.entries EXCEPT ![j.label] = @ + 1]
      [] j.cmd = "rm"  -> vault.data.entries = [j.image.entries EXCEPT ![j.label] = 0]
      [] j.cmd = "export" -> /\ file' # NoFile /\ file'.stable # Torn
                             /\ SameContents(file'.data, vault.data)
      [] OTHER -> TRUE

Reported(p, code) ==
    /\ code = 0 /\ job[p] # NoJob => Succeeds(job[p])
    /\ code = 3 => vault.data.entries[job[p].label] = 0
    /\ code # 0 /\ Runs(p, {"add", "rm", "passwd"}) /\ job[p].image # NoImage
       => SameContents(vault.data, job[p].image)

\* The exit code tells the truth: 0 only of what is in the vault or the file, 3 only when
\* no entry has the label, and an edit that reports a failure has changed nothing (commands.rs, process.rs).
ExitTruthful ==
    [][\A p \in Procs : In(p, "exit")' /\ ~In(p, "exit") => Reported(p, job'[p].code)]_vars

\* A copied secret goes from the clipboard, unless its process is killed, the clipboard is
\* out of reach or the settings forbid it (cmd_get).
SecretGoes == clip = "secret" ~> clip # "secret"
=============================================================================

---------------------------- MODULE VaultStorage ----------------------------
(***************************************************************************)
(* The vault file and its writers: passman-core, storage.rs.               *)
(*                                                                         *)
(* atomic_write makes a temp file, writes it, syncs it, renames it over    *)
(* the vault and syncs the directory.  A file is what it holds now and     *)
(* what of it is on stable storage; the directory is the file it names now *)
(* and those it may name after a power loss.  The kernel writes back       *)
(* whenever it likes.  Temp files have random names and are looked at by   *)
(* nobody else, so one left behind is not modelled.                        *)
(***************************************************************************)
EXTENDS Naturals, FiniteSets

CONSTANTS
    Procs,    \* processes on one vault path
    Images,   \* contents of a whole vault file
    MaxUnsettled, \* bound on the files a power loss may bring back when a write begins
    FileLock, \* TRUE: the platform locks files
    Torn,     \* contents of a file that is not whole
    NoFile, NoWrite

\* A file: its contents, and those a power loss leaves
File == [data : Images \cup {Torn}, stable : Images \cup {Torn}]

WriteStages == {"create", "write", "sync", "rename", "syncdir", "ok", "failed"}

Write == [stage : WriteStages, image : Images, temp : File \cup {NoFile}]

ASSUME StorageAssumption ==
    /\ FileLock \in BOOLEAN /\ MaxUnsettled \in Nat
    /\ Torn \notin Images
    /\ NoFile \notin File \cup Images \cup {Torn}
    /\ NoWrite \notin Write \cup [data : Images, done : {"waiting", "applied", "refused"}]

VARIABLES
    vault,    \* the file the vault path names
    settled,  \* those it may name after a power loss
    write,    \* the atomic_write each process is in
    holders   \* the processes that hold the instance lock

storageVars == <<vault, settled, write, holders>>

StorageTypeOK ==
    /\ vault \in File \cup {NoFile}
    /\ settled \subseteq File \cup {NoFile}
    /\ vault \in settled
    /\ write \in [Procs -> Write \cup {NoWrite}]
    /\ holders \subseteq Procs

StorageInit ==
    /\ vault = NoFile
    /\ settled = {NoFile}
    /\ write = [p \in Procs |-> NoWrite]
    /\ holders = {}

-----------------------------------------------------------------------------
(* The instance lock *)

\* Mutant: the lock file is opened but not locked.
FreeOrIgnored(p) == TRUE

\* try_lock with classify_lock: WouldBlock is AlreadyRunning, Unsupported is let through.
LockFree(p) == FileLock => holders = {}

\* InstanceLock::acquire
Acquire(p) ==
    /\ LockFree(p)
    /\ holders' = holders \cup {p}

\* Drop, and the kernel when the process dies
Release(p) == holders' = holders \ {p}

-----------------------------------------------------------------------------
(* atomic_write *)

At(p, stage) == write[p] # NoWrite /\ write[p].stage = stage

Advance(p, stage, temp) ==
    write' = [write EXCEPT ![p].stage = stage, ![p].temp = temp]

StartWrite(p, image) ==
    /\ write[p] = NoWrite
    /\ Cardinality(settled) <= MaxUnsettled
    /\ write' = [write EXCEPT ![p] =
                    [stage |-> "create", image |-> image, temp |-> NoFile]]

\* temp_sibling, opened with create_new: an empty file
CreateTemp(p) ==
    /\ At(p, "create")
    /\ Advance(p, "write", [data |-> Torn, stable |-> Torn])
    /\ UNCHANGED <<vault, settled, holders>>

WriteAll(p) ==
    /\ At(p, "write")
    /\ Advance(p, "sync", [write[p].temp EXCEPT !.data = write[p].image])
    /\ UNCHANGED <<vault, settled, holders>>

\* Mutant: the temp file is not synced before the rename.
SyncNothing(p) ==
    /\ At(p, "sync")
    /\ Advance(p, "rename", write[p].temp)
    /\ UNCHANGED <<vault, settled, holders>>

SyncAll(p) ==
    /\ At(p, "sync")
    /\ Advance(p, "rename", [write[p].temp EXCEPT !.stable = write[p].temp.data])
    /\ UNCHANGED <<vault, settled, holders>>

\* One of create, write, sync and rename fails; the temp file is removed, best effort.
WriteFails(p) ==
    /\ write[p] # NoWrite
    /\ write[p].stage \in {"create", "write", "sync", "rename"}
    /\ Advance(p, "failed", NoFile)
    /\ UNCHANGED <<vault, settled, holders>>

Rename(p) ==
    /\ At(p, "rename")
    /\ vault' = write[p].temp
    /\ settled' = settled \cup {vault'}
    /\ Advance(p, "syncdir", NoFile)
    /\ UNCHANGED holders

\* The directory's sync is best effort: the write has succeeded either way.
SyncDir(p) ==
    /\ At(p, "syncdir")
    /\ settled' \in {settled, {vault}}
    /\ Advance(p, "ok", NoFile)
    /\ UNCHANGED <<vault, holders>>

WriteStep(p) ==
    CreateTemp(p) \/ WriteAll(p) \/ SyncAll(p) \/ WriteFails(p) \/ Rename(p) \/ SyncDir(p)

\* The caller of atomic_write goes on.
Returned(p, stage) ==
    /\ At(p, stage)
    /\ write' = [write EXCEPT ![p] = NoWrite]

-----------------------------------------------------------------------------
(* The world around it *)

\* The process ends, in the middle of whatever it does.
StorageCrash(p) ==
    /\ write' = [write EXCEPT ![p] = NoWrite]
    /\ Release(p)
    /\ UNCHANGED <<vault, settled>>

\* The kernel writes the directory back.
FlushDir ==
    /\ settled' = {vault}
    /\ UNCHANGED <<vault, write, holders>>

\* What a file is after a power loss
Survivor(f) == IF f = NoFile THEN NoFile ELSE [data |-> f.stable, stable |-> f.stable]

StoragePowerLoss ==
    /\ \E f \in settled : vault' = Survivor(f)
    /\ settled' = {vault'}
    /\ write' = [p \in Procs |-> NoWrite]
    /\ holders' = {}

\* The user takes the file away while passman is not running.
TakeAway ==
    /\ \A p \in Procs : write[p] = NoWrite
    /\ vault' = NoFile
    /\ settled' = {NoFile}
    /\ UNCHANGED <<write, holders>>

StorageNext ==
    \/ \E p \in Procs :
          \/ Acquire(p) /\ UNCHANGED <<vault, settled, write>>
          \/ /\ p \in holders
             /\ \E image \in Images : StartWrite(p, image)
             /\ UNCHANGED <<vault, settled, holders>>
          \/ WriteStep(p)
          \/ \E stage \in {"ok", "failed"} : Returned(p, stage)
                /\ UNCHANGED <<vault, settled, holders>>
          \/ StorageCrash(p)
    \/ FlushDir \/ StoragePowerLoss \/ TakeAway

StorageSpec == StorageInit /\ [][StorageNext]_storageVars

-----------------------------------------------------------------------------
(* storage.rs promises "either the old file intact or the fully-written new one": the *)
(* file the path names is whole, and so is whatever it may name after a power loss.   *)
Whole(f) == f = NoFile \/ (f.data \in Images /\ f.stable = f.data)

WholeFile == \A f \in settled : Whole(f)

\* With file locks no two processes write at once.
OneWriter == FileLock => \A p, q \in Procs : write[p] # NoWrite /\ write[q] # NoWrite => p = q

\* The register this file implements: the rename is the moment a write takes effect.
Reader(f) == IF f = NoFile THEN NoFile ELSE f.data
Restart(f) == IF f = NoFile THEN NoFile ELSE f.stable

Asked(p) ==
    IF write[p] = NoWrite THEN NoWrite
    ELSE [data |-> write[p].image,
          done |-> CASE write[p].stage \in {"syncdir", "ok"} -> "applied"
                     [] write[p].stage = "failed" -> "refused"
                     [] OTHER -> "waiting"]

Register == INSTANCE AtomicFile WITH
    Clients   <- Procs,
    Contents  <- Images,
    Missing   <- NoFile,
    NoRequest <- NoWrite,
    value     <- Reader(vault),
    kept      <- {Restart(f) : f \in settled},
    request   <- [p \in Procs |-> Asked(p)]

\* Every write of the vault is atomic: it is seen whole or not at all, by a reader and
\* after a crash or a power loss (atomic_write).
VaultFileAtomic == Register!Spec
=============================================================================

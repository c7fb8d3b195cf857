-------------------------- MODULE CommandLine_proofs --------------------------
(***************************************************************************)
(* Proofs about VaultStorage, with the file lock or without it, and then   *)
(* about CommandLine, which is built on it; for any processes, labels,     *)
(* passwords, contents and bounds.  Those about CommandLine are for a      *)
(* platform that locks files, as the desktops that passman-cli is built    *)
(* for do: FileLock is a hypothesis of each.                               *)
(***************************************************************************)
EXTENDS CommandLine, TLAPS

-----------------------------------------------------------------------------
(* The storage: its inductive invariant *)

\* What the temp file of a write holds at each stage of atomic_write: it is not
\* renamed before all of the image is in it and on stable storage.
TempAsFar(w) ==
    /\ w.stage \in {"write", "sync", "rename"} => w.temp \in File
    /\ w.stage \in {"sync", "rename"} => w.temp.data = w.image
    /\ w.stage = "rename" => w.temp.stable = w.image

TempsAsFar == \A p \in Procs : write[p] # NoWrite => TempAsFar(write[p])

\* Only who holds the instance lock writes, and one process holds it.
WritersHold ==
    FileLock => /\ \A p \in Procs : write[p] # NoWrite => p \in holders
                /\ \A p, q \in holders : p = q

StorageInv == StorageTypeOK /\ WholeFile /\ TempsAsFar /\ WritersHold

\* Nothing is written at the start, whatever file the vault path names.
LEMMA StorageInitInv == StorageInit => StorageInv
  BY DEF StorageInit, StorageInv, StorageTypeOK, WholeFile, Whole, TempsAsFar, WritersHold

\* A file that is whole reads after a power loss as it does now.
LEMMA WholeSurvives ==
    ASSUME NEW f \in File \cup {NoFile}, Whole(f)
    PROVE  Survivor(f) = f /\ Restart(f) = Reader(f)
  BY StorageAssumption DEF Whole, Survivor, File, Restart, Reader

-----------------------------------------------------------------------------
(* Each step preserves it *)

\* A step that leaves the file alone keeps the invariant if the one write it moves
\* along is as far as its stage says, and it takes no lock.
LEMMA WriteMoves ==
    ASSUME StorageInv, NEW p \in Procs, NEW w \in Write \cup {NoWrite},
           write' = [write EXCEPT ![p] = w],
           w # NoWrite => TempAsFar(w) /\ (FileLock => p \in holders),
           UNCHANGED <<vault, settled, holders>>
    PROVE  StorageInv'
<1>1. StorageTypeOK'
  BY DEF StorageInv, StorageTypeOK
<1>2. WholeFile'
  BY DEF StorageInv, WholeFile, Whole
<1>3. TempsAsFar'
  BY DEF StorageInv, StorageTypeOK, TempsAsFar, TempAsFar
<1>4. WritersHold'
  BY DEF StorageInv, StorageTypeOK, WritersHold
<1>5. QED
  BY <1>1, <1>2, <1>3, <1>4 DEF StorageInv

\* The write of a process that Advance moves along
LEMMA Advanced ==
    ASSUME StorageInv, NEW p \in Procs, write[p] # NoWrite,
           NEW stage \in WriteStages, NEW temp \in File \cup {NoFile}, Advance(p, stage, temp)
    PROVE  \E w \in Write :
              /\ write' = [write EXCEPT ![p] = w]
              /\ w.stage = stage /\ w.image = write[p].image /\ w.temp = temp
<1> DEFINE w == [[write[p] EXCEPT !.stage = stage] EXCEPT !.temp = temp]
<1>1. write \in [Procs -> Write \cup {NoWrite}] /\ write[p] \in Write
  BY DEF StorageInv, StorageTypeOK
<1>2. w \in Write /\ w.stage = stage /\ w.image = write[p].image /\ w.temp = temp
  BY <1>1 DEF Write
<1>3. write' = [write EXCEPT ![p] = w]
  BY <1>1 DEF Advance
<1>4. QED
  BY <1>2, <1>3

\* Every step of atomic_write, the failing ones included
LEMMA WriteStepInv == ASSUME StorageInv, NEW p \in Procs, WriteStep(p) PROVE StorageInv'
<1>0. /\ write[p] # NoWrite /\ write[p] \in Write /\ TempAsFar(write[p])
      /\ FileLock => p \in holders
  BY DEF StorageInv, StorageTypeOK, TempsAsFar, WritersHold, WriteStep, At, CreateTemp, WriteAll,
         SyncAll, WriteFails, Rename, SyncDir
<1>1. CASE CreateTemp(p)
  <2> DEFINE temp == [data |-> Torn, stable |-> Torn]
  <2>1. temp \in File
    BY DEF File
  <2>2. PICK w \in Write : write' = [write EXCEPT ![p] = w] /\ w.stage = "write" /\ w.temp = temp
    BY <1>0, <1>1, <2>1, Advanced DEF CreateTemp, WriteStages
  <2>3. QED
    BY <1>0, <1>1, <2>1, <2>2, WriteMoves DEF CreateTemp, TempAsFar
<1>2. CASE WriteAll(p)
  <2> DEFINE temp == [write[p].temp EXCEPT !.data = write[p].image]
  <2>1. temp \in File /\ temp.data = write[p].image
    BY <1>0, <1>2 DEF File, Write, WriteAll, At, TempAsFar
  <2>2. PICK w \in Write : /\ write' = [write EXCEPT ![p] = w]
                           /\ w.stage = "sync" /\ w.image = write[p].image /\ w.temp = temp
    BY <1>0, <1>2, <2>1, Advanced DEF WriteAll, WriteStages
  <2>3. QED
    BY <1>0, <1>2, <2>1, <2>2, WriteMoves DEF WriteAll, TempAsFar
<1>3. CASE SyncAll(p)
  <2> DEFINE temp == [write[p].temp EXCEPT !.stable = write[p].temp.data]
  <2>1. temp \in File /\ temp.data = write[p].image /\ temp.stable = write[p].image
    BY <1>0, <1>3 DEF File, Write, SyncAll, At, TempAsFar
  <2>2. PICK w \in Write : /\ write' = [write EXCEPT ![p] = w]
                           /\ w.stage = "rename" /\ w.image = write[p].image /\ w.temp = temp
    BY <1>0, <1>3, <2>1, Advanced DEF SyncAll, WriteStages
  <2>3. QED
    BY <1>0, <1>3, <2>1, <2>2, WriteMoves DEF SyncAll, TempAsFar
<1>4. CASE WriteFails(p)
  <2>1. PICK w \in Write : write' = [write EXCEPT ![p] = w] /\ w.stage = "failed"
    BY <1>0, <1>4, Advanced DEF WriteFails, WriteStages
  <2>2. QED
    BY <1>0, <1>4, <2>1, WriteMoves DEF WriteFails, TempAsFar
<1>5. CASE Rename(p)
  <2>1. PICK w \in Write : write' = [write EXCEPT ![p] = w] /\ w.stage = "syncdir"
    BY <1>0, <1>5, Advanced DEF Rename, WriteStages
  <2>2. vault' \in File /\ Whole(vault')
    BY <1>0, <1>5 DEF Rename, At, TempAsFar, Whole, Write
  <2>3. settled' = settled \cup {vault'} /\ holders' = holders
    BY <1>5 DEF Rename
  <2>4. StorageTypeOK' /\ WholeFile'
    BY <2>1, <2>2, <2>3 DEF StorageInv, StorageTypeOK, WholeFile, Whole
  <2>5. TempsAsFar' /\ WritersHold'
    BY <1>0, <2>1, <2>3 DEF StorageInv, StorageTypeOK, TempsAsFar, TempAsFar, WritersHold
  <2>6. QED
    BY <2>4, <2>5 DEF StorageInv
<1>6. CASE SyncDir(p)
  <2>1. PICK w \in Write : write' = [write EXCEPT ![p] = w] /\ w.stage = "ok"
    BY <1>0, <1>6, Advanced DEF SyncDir, WriteStages
  <2>2. StorageTypeOK' /\ WholeFile'
    BY <1>6, <2>1 DEF SyncDir, StorageInv, StorageTypeOK, WholeFile, Whole
  <2>3. TempsAsFar' /\ WritersHold'
    BY <1>0, <1>6, <2>1 DEF SyncDir, StorageInv, StorageTypeOK, TempsAsFar, TempAsFar, WritersHold
  <2>4. QED
    BY <2>2, <2>3 DEF StorageInv
<1>7. QED
  BY <1>1, <1>2, <1>3, <1>4, <1>5, <1>6 DEF WriteStep

\* A process asks for a write, and goes on with its result.
LEMMA StartWriteInv ==
    ASSUME StorageInv, NEW p \in Procs, FileLock => p \in holders, NEW image \in Images,
           StartWrite(p, image), UNCHANGED <<vault, settled, holders>>
    PROVE  StorageInv'
<1> DEFINE w == [stage |-> "create", image |-> image, temp |-> NoFile]
<1>1. w \in Write /\ TempAsFar(w)
  BY DEF Write, WriteStages, TempAsFar
<1>2. QED
  BY <1>1, WriteMoves DEF StartWrite

\* A process that goes on with the result of its write leaves the file as it is.
LEMMA ReturnedInv ==
    ASSUME StorageInv, NEW p \in Procs, NEW stage, Returned(p, stage),
           UNCHANGED <<vault, settled, holders>>
    PROVE  StorageInv'
  BY WriteMoves DEF Returned

\* InstanceLock::acquire lets one process in.
LEMMA AcquireInv ==
    ASSUME StorageInv, NEW p \in Procs, Acquire(p), UNCHANGED <<vault, settled, write>>
    PROVE  StorageInv'
<1>1. StorageTypeOK' /\ WholeFile' /\ TempsAsFar'
  BY DEF Acquire, StorageInv, StorageTypeOK, WholeFile, Whole, TempsAsFar, TempAsFar
<1>2. WritersHold'
  BY DEF Acquire, LockFree, StorageInv, WritersHold
<1>3. QED
  BY <1>1, <1>2 DEF StorageInv

\* The world around it
LEMMA StorageWorldInv ==
    ASSUME StorageInv,
           \/ \E p \in Procs : StorageCrash(p)
           \/ FlushDir \/ StoragePowerLoss \/ TakeAway
    PROVE  StorageInv'
<1>1. CASE \E p \in Procs : StorageCrash(p)
  <2>1. StorageTypeOK' /\ WholeFile' /\ TempsAsFar'
    BY <1>1 DEF StorageCrash, Release, StorageInv, StorageTypeOK, WholeFile, Whole, TempsAsFar, TempAsFar
  <2>2. WritersHold'
    BY <1>1 DEF StorageCrash, Release, StorageInv, StorageTypeOK, WritersHold
  <2>3. QED
    BY <2>1, <2>2 DEF StorageInv
<1>2. CASE FlushDir
  BY <1>2 DEF FlushDir, StorageInv, StorageTypeOK, WholeFile, Whole, TempsAsFar, TempAsFar, WritersHold
<1>3. CASE StoragePowerLoss
  <2>1. PICK f \in settled : vault' = Survivor(f)
    BY <1>3 DEF StoragePowerLoss
  <2>2. f \in File \cup {NoFile} /\ Whole(f) /\ vault' = f
    BY <2>1, WholeSurvives DEF StorageInv, StorageTypeOK, WholeFile
  <2>3. QED
    BY <1>3, <2>2 DEF StoragePowerLoss, StorageInv, StorageTypeOK, WholeFile, Whole, TempsAsFar, WritersHold
<1>4. CASE TakeAway
  BY <1>4 DEF TakeAway, StorageInv, StorageTypeOK, WholeFile, Whole, TempsAsFar, TempAsFar, WritersHold
<1>5. QED
  BY <1>1, <1>2, <1>3, <1>4

\* Every step of the storage, and a stutter, preserves its invariant.
LEMMA StorageNextInv == StorageInv /\ [StorageNext]_storageVars => StorageInv'
<1> SUFFICES ASSUME StorageInv, [StorageNext]_storageVars PROVE StorageInv'
  OBVIOUS
<1>1. ASSUME NEW p \in Procs, Acquire(p), UNCHANGED <<vault, settled, write>> PROVE StorageInv'
  BY <1>1, AcquireInv
<1>2. ASSUME NEW p \in holders, NEW image \in Images, StartWrite(p, image),
             UNCHANGED <<vault, settled, holders>>
      PROVE  StorageInv'
  BY <1>2, StartWriteInv DEF StorageInv, StorageTypeOK
<1>3. ASSUME NEW p \in Procs, NEW stage, Returned(p, stage), UNCHANGED <<vault, settled, holders>>
      PROVE  StorageInv'
  BY <1>3, ReturnedInv
<1>4. CASE UNCHANGED storageVars
  BY <1>4 DEF storageVars, StorageInv, StorageTypeOK, WholeFile, Whole, TempsAsFar, TempAsFar,
              WritersHold
<1>5. QED
  BY <1>1, <1>2, <1>3, <1>4, WriteStepInv, StorageWorldInv DEF StorageNext

-----------------------------------------------------------------------------
(* What the storage guarantees *)

\* At any moment, and after a power loss at any moment, the vault path names no file or a
\* whole one, and two processes never write at once where files can be locked
\* (storage.rs atomic_write, InstanceLock).
THEOREM StorageInvariant == StorageSpec => []StorageInv
  BY StorageInitInv, StorageNextInv, PTL DEF StorageSpec

\* In particular the file is whole, and one process writes (atomic_write creates, fills and
\* syncs the temp file before the rename; InstanceLock::acquire comes before any write).
THEOREM AlwaysWhole == StorageSpec => [](WholeFile /\ OneWriter)
<1>1. StorageInv => WholeFile /\ OneWriter
  BY DEF StorageInv, WritersHold, OneWriter
<1>2. QED
  BY <1>1, StorageInvariant, PTL

-----------------------------------------------------------------------------
(* The file implements the register of AtomicFile *)

\* What a reader sees of the file, and after a power loss, is the register's
LEMMA Restarts ==
    ASSUME StorageInv
    PROVE  /\ {Restart(f) : f \in settled} = {Reader(f) : f \in settled}
           /\ Restart(vault) = Reader(vault)
           /\ \A f \in settled : Restart(f) = Reader(f)
  BY WholeSurvives DEF StorageInv, StorageTypeOK, WholeFile

\* Requests change only where writes do.
LEMMA AskedChanges ==
    ASSUME StorageInv, NEW p \in Procs, NEW w \in Write \cup {NoWrite},
           write' = [write EXCEPT ![p] = w]
    PROVE  [q \in Procs |-> Asked(q)]' = [[q \in Procs |-> Asked(q)] EXCEPT ![p] = Asked(p)']
  BY DEF StorageInv, StorageTypeOK, Asked

\* At the start the file holds the register's value, and nobody asked for a write.
LEMMA RegisterInit == StorageInit => Register!Init
  BY DEF StorageInit, Register!Init, Reader, Restart, Asked

\* The steps of one atomic_write: the rename applies it, a failure refuses it, and
\* the rest is not seen, but that the directory's sync settles the file.
LEMMA RegisterWrite ==
    ASSUME StorageInv, StorageInv', NEW p \in Procs, WriteStep(p)
    PROVE  [Register!Next]_(Register!vars)
<1> DEFINE asked == [q \in Procs |-> Asked(q)]
           kept  == {Restart(f) : f \in settled}
<1>0. /\ write[p] # NoWrite /\ write[p] \in Write /\ TempAsFar(write[p])
      /\ Asked(p) = [data |-> write[p].image, done |-> Asked(p).done]
  BY DEF StorageInv, StorageTypeOK, TempsAsFar, WriteStep, At, CreateTemp, WriteAll,
         SyncAll, WriteFails, Rename, SyncDir, Asked
<1>1. ASSUME NEW stage \in WriteStages, NEW temp \in File \cup {NoFile}, Advance(p, stage, temp)
      PROVE  /\ asked' = [asked EXCEPT ![p] = Asked(p)']
             /\ write'[p] # NoWrite /\ write'[p] \in Write
             /\ write'[p].stage = stage /\ write'[p].image = write[p].image
  <2>1. PICK w \in Write : write' = [write EXCEPT ![p] = w]
                           /\ w.stage = stage /\ w.image = write[p].image
    BY <1>0, <1>1, Advanced
  <2>2. QED
    BY <2>1, AskedChanges, StorageAssumption DEF StorageInv, StorageTypeOK
<1>2. ASSUME NEW stage \in WriteStages, NEW temp \in File \cup {NoFile}, Advance(p, stage, temp),
             NEW done \in {"waiting", "applied", "refused"}, Asked(p)'.done = done
      PROVE  /\ asked' = [asked EXCEPT ![p].done = done]
             /\ asked[p].done = done => asked' = asked
  <2>1. Asked(p)' = [data |-> write[p].image, done |-> done]
    BY <1>1, <1>2 DEF Asked
  <2>2. Asked(p)' = [Asked(p) EXCEPT !.done = done]
    BY <1>0, <2>1
  <2>3. asked' = [asked EXCEPT ![p] = Asked(p)'] /\ asked[p] = Asked(p)
    BY <1>1, <1>2
  <2>4. asked' = [asked EXCEPT ![p].done = done]
    BY <2>2, <2>3
  <2>5. ASSUME asked[p].done = done PROVE asked' = asked
    <3>1. Asked(p)' = asked[p]
      BY <1>0, <2>1, <2>3, <2>5
    <3>2. QED
      BY <2>3, <3>1
  <2>6. QED
    BY <2>4, <2>5
<1>3. ASSUME WriteStep(p), UNCHANGED <<vault, settled>>, asked' = asked
      PROVE  UNCHANGED Register!vars
  BY <1>3 DEF Register!vars, Reader, Restart
<1>4. CASE CreateTemp(p) \/ WriteAll(p) \/ SyncAll(p)
  <2>1. PICK stage \in {"write", "sync", "rename"}, temp \in File : Advance(p, stage, temp)
    BY <1>0, <1>4 DEF CreateTemp, WriteAll, SyncAll, At, TempAsFar, File, Write
  <2>2. asked[p].done = "waiting"
    BY <1>0, <1>4 DEF CreateTemp, WriteAll, SyncAll, At, Asked
  <2>3. Asked(p)'.done = "waiting"
    BY <1>1, <2>1, ZenonT(60) DEF WriteStages, Asked
  <2>4. asked' = asked
    BY <1>2, <2>1, <2>2, <2>3 DEF WriteStages
  <2>5. QED
    BY <1>3, <1>4, <2>4 DEF CreateTemp, WriteAll, SyncAll
<1>5. CASE WriteFails(p)
  <2>1. Register!Waiting(p)
    <3>1. Asked(p) = [data |-> write[p].image, done |-> "waiting"]
      BY <1>0, <1>5 DEF WriteFails, Asked
    <3>2. Asked(p) # NoWrite
      BY <1>0, <3>1, StorageAssumption, SMTT(30) DEF Write
    <3>3. QED
      BY <3>1, <3>2 DEF Register!Waiting
  <2>2. asked' = [asked EXCEPT ![p].done = "refused"]
    BY <1>1, <1>2, <1>5 DEF WriteFails, WriteStages, Asked
  <2>3. Register!Refuse(p)
    BY <1>5, <2>1, <2>2 DEF Register!Refuse, WriteFails, Reader, Restart
  <2>4. QED
    BY <2>3 DEF Register!Next
<1>6. CASE Rename(p)
  <2>1. Register!Waiting(p)
    <3>1. Asked(p) = [data |-> write[p].image, done |-> "waiting"]
      BY <1>0, <1>6, SMTT(30) DEF Rename, At, Asked
    <3>2. Asked(p) # NoWrite
      BY <1>0, <3>1, StorageAssumption DEF Write
    <3>3. QED
      BY <3>1, <3>2 DEF Register!Waiting
  <2>2. asked' = [asked EXCEPT ![p].done = "applied"]
    BY <1>1, <1>2, <1>6 DEF Rename, WriteStages, Asked
  <2>3. /\ vault' # NoFile /\ vault'.data = write[p].image /\ vault'.stable = write[p].image
        /\ settled' = settled \cup {vault'}
    BY <1>0, <1>6, StorageAssumption DEF Rename, At, TempAsFar
  <2>4. Reader(vault)' = Asked(p).data /\ Restart(vault)' = Reader(vault)'
    BY <1>0, <2>3 DEF Reader, Restart
  <2>5. kept' = kept \cup {Reader(vault)'}
    BY <2>3, <2>4 DEF Restart
  <2>6. Register!Apply(p)
    BY <2>1, <2>2, <2>4, <2>5 DEF Register!Apply
  <2>7. QED
    BY <2>6 DEF Register!Next
<1>7. CASE SyncDir(p)
  <2>1. asked' = asked
    <3>1. asked[p].done = "applied"
      BY <1>0, <1>7 DEF SyncDir, At, Asked
    <3>2. Asked(p)'.done = "applied"
      BY <1>1, <1>7 DEF SyncDir, WriteStages, Asked
    <3>3. QED
      BY <1>2, <1>7, <3>1, <3>2 DEF SyncDir, WriteStages
  <2>2. CASE settled' = settled
    BY <1>3, <1>7, <2>1, <2>2 DEF SyncDir
  <2>3. CASE settled' = {vault}
    <3>1. Register!Settle
      BY <1>7, <2>1, <2>3, Restarts DEF SyncDir, Register!Settle, Reader
    <3>2. QED
      BY <3>1 DEF Register!Next
  <2>4. QED
    BY <1>7, <2>2, <2>3 DEF SyncDir
<1>8. QED
  BY <1>4, <1>5, <1>6, <1>7 DEF WriteStep

\* A request is submitted when its write starts, and forgotten when its caller goes on.
LEMMA RegisterCaller ==
    ASSUME StorageInv, NEW p \in Procs, UNCHANGED <<vault, settled>>,
           \/ \E image \in Images : StartWrite(p, image)
           \/ \E stage \in {"ok", "failed"} : Returned(p, stage)
           \/ StorageCrash(p)
    PROVE  Register!Next
<1> DEFINE asked == [q \in Procs |-> Asked(q)]
<1>1. CASE \E image \in Images : StartWrite(p, image)
  <2>1. PICK image \in Images : StartWrite(p, image)
    BY <1>1
  <2> DEFINE w == [stage |-> "create", image |-> image, temp |-> NoFile]
  <2>2. w \in Write /\ write' = [write EXCEPT ![p] = w] /\ write[p] = NoWrite
    BY <2>1 DEF Write, WriteStages, StartWrite
  <2>3. asked' = [asked EXCEPT ![p] = Asked(p)']
    BY <2>2, AskedChanges
  <2>4. Asked(p)' = [data |-> image, done |-> "waiting"]
    BY <2>2, StorageAssumption DEF Asked, StorageInv, StorageTypeOK
  <2>5. asked[p] = NoWrite
    BY <2>2 DEF Asked
  <2>6. Register!Submit(p)
    BY <2>3, <2>4, <2>5 DEF Register!Submit, Reader, Restart
  <2>7. QED
    BY <2>6 DEF Register!Next
<1>2. ASSUME write' = [write EXCEPT ![p] = NoWrite] PROVE Register!Next
  <2>1. asked' = [asked EXCEPT ![p] = NoWrite]
    BY <1>2, AskedChanges DEF StorageInv, StorageTypeOK, Asked
  <2>2. Register!Forget(p)
    BY <2>1 DEF Register!Forget, Reader, Restart
  <2>3. QED
    BY <2>2 DEF Register!Next
<1>3. QED
  BY <1>1, <1>2 DEF Returned, StorageCrash

\* The kernel's write-back settles the register, a power loss takes it back to a
\* value it may have, and the user's removal empties it.
LEMMA RegisterWorld ==
    ASSUME StorageInv, FlushDir \/ StoragePowerLoss \/ TakeAway
    PROVE  Register!Next
<1> DEFINE asked == [q \in Procs |-> Asked(q)]
           kept  == {Restart(f) : f \in settled}
<1>1. CASE FlushDir
  <2>1. Register!Settle
    BY <1>1, Restarts DEF FlushDir, Register!Settle, Reader, Restart, Asked
  <2>2. QED
    BY <2>1 DEF Register!Next
<1>2. CASE StoragePowerLoss
  <2>1. PICK f \in settled : vault' = Survivor(f)
    BY <1>2 DEF StoragePowerLoss
  <2>2. vault' = f /\ Restart(f) = Reader(f)
    BY <2>1, WholeSurvives DEF StorageInv, StorageTypeOK, WholeFile
  <2>3. Reader(vault)' \in kept /\ kept' = {Reader(vault)'}
    BY <1>2, <2>2 DEF StoragePowerLoss, Reader, Restart
  <2>4. asked' = [q \in Procs |-> NoWrite]
    BY <1>2 DEF StoragePowerLoss, Asked
  <2>5. Register!PowerLoss
    BY <2>3, <2>4 DEF Register!PowerLoss
  <2>6. QED
    BY <2>5 DEF Register!Next
<1>3. CASE TakeAway
  <2>1. \A q \in Procs : asked[q] = NoWrite
    BY <1>3 DEF TakeAway, Asked
  <2>2. Reader(vault)' = NoFile /\ kept' = {NoFile} /\ asked' = asked
    BY <1>3 DEF TakeAway, Reader, Restart, Asked
  <2>3. Register!Remove
    BY <2>1, <2>2 DEF Register!Remove
  <2>4. QED
    BY <2>3 DEF Register!Next
<1>4. QED
  BY <1>1, <1>2, <1>3

\* Every step of the storage is a step of the register, or is not seen.
LEMMA RegisterStep ==
    ASSUME StorageInv, StorageInv', [StorageNext]_storageVars
    PROVE  [Register!Next]_(Register!vars)
<1>1. CASE UNCHANGED <<vault, settled, write>>
  BY <1>1 DEF Register!vars, Reader, Restart, Asked
<1>2. ASSUME NEW p \in Procs, UNCHANGED <<vault, settled>>,
             \/ \E image \in Images : StartWrite(p, image)
             \/ \E stage \in {"ok", "failed"} : Returned(p, stage)
             \/ StorageCrash(p)
      PROVE  Register!Next
  BY <1>2, RegisterCaller
<1>3. CASE \E p \in Procs : WriteStep(p)
  BY <1>3, RegisterWrite
<1>4. CASE FlushDir \/ StoragePowerLoss \/ TakeAway
  BY <1>4, RegisterWorld
<1>5. QED
  BY <1>1, <1>2, <1>3, <1>4 DEF StorageNext, storageVars, StorageCrash

\* atomic_write is the replacement of a register's value: whatever else runs, dies or
\* loses power in between, the vault is seen, and kept, as the old file or the new one
\* (storage.rs "either the old file intact or the fully-written new one").
THEOREM StorageAtomic == StorageSpec => VaultFileAtomic
<1>1. StorageInv /\ StorageInv' /\ [StorageNext]_storageVars => [Register!Next]_(Register!vars)
  BY RegisterStep
<1>2. QED
  BY <1>1, RegisterInit, StorageInvariant, PTL DEF StorageSpec, VaultFileAtomic, Register!Spec

-----------------------------------------------------------------------------
(* The commands: what each command relies on between its steps *)

\* A job that has not ended
Active(p) == job[p] # NoJob /\ job[p].stage # "exit"

\* The vault has not changed since the write began, or is what was written.
Pending(w) == w.stage \in {"create", "write", "sync", "rename", "failed"}

\* An import writes what the recovery file holds.
FromFile(j, image) == j.cmd = "import" => file # NoFile /\ SameContents(file.data, image)

\* An init or an import: there is no vault until its own is in place.
ProviderJob(p) ==
    LET j == job[p]  w == write[p]
    IN  /\ j.stage \in {"check", "session", "save", "print"}
        /\ j.image = NoImage
        /\ j.stage = "session" => vault = NoFile
        /\ j.stage = "print" => vault # NoFile /\ FromFile(j, vault.data)
        /\ j.stage = "save" =>
              /\ FromFile(j, w.image)
              /\ IF Pending(w) THEN vault = NoFile
                 ELSE vault # NoFile /\ vault.data = w.image

\* What an edit of the vault in image "old" asks for
Edited(j, new) ==
    LET old == j.image
    IN  /\ j.cmd \in {"add", "rm", "passwd", "export"}
        /\ new.seed = old.seed
        /\ old.exported => new.exported
        /\ j.cmd = "add" => new.entries = [old.entries EXCEPT ![j.label] = @ + 1]
        /\ j.cmd = "rm"  => new.entries = [old.entries EXCEPT ![j.label] = 0]
        /\ j.cmd = "export" => new.exported

\* The other commands: the vault is there, only who knows its seed gets past the
\* unlock, and the session's copy is the vault until a write of its own.
OwnerJob(p) ==
    LET j == job[p]  w == write[p]
    IN  /\ j.stage # "print"
        /\ j.stage # "check" => vault # NoFile
        /\ j.stage \in {"check", "unlock", "penalty", "pardon"} => j.image = NoImage
        /\ j.stage \notin {"check", "unlock", "penalty"} => vault.data.seed \in shown
        /\ j.stage \in {"penalty", "pardon"} => w.image = vault.data
        /\ j.stage \in {"session", "save"} => j.image # NoImage
        /\ j.stage = "session" => vault.data = j.image
        /\ j.stage = "save" =>
              /\ Edited(j, w.image)
              /\ vault.data = IF Pending(w) THEN j.image ELSE w.image
        /\ j.stage \in {"file", "fileWrite", "fileSync"} =>
              j.cmd = "export" /\ vault.data.exported
        /\ j.stage = "wait" => j.cmd = "get"
        /\ j.stage \in {"fileWrite", "fileSync"} => file # NoFile
        /\ j.stage = "fileSync" => /\ file.data \in Recovery
                                   /\ SameContents(file.data, vault.data)

JobInv(p) ==
    /\ write[p] # NoWrite <=> Active(p) /\ job[p].stage \in {"penalty", "pardon", "save"}
    /\ Active(p) => /\ p \in holders
                    /\ job[p].cmd \in Commands
                    /\ job[p].cmd \in Labelled => job[p].label \in Labels
                    /\ IF job[p].cmd \in Providers THEN ProviderJob(p) ELSE OwnerJob(p)

\* What a power loss may leave of the vault is an older state of the same vault, or
\* none; seeds are those that were drawn.
SameVault ==
    \A f \in settled : f # NoFile => vault # NoFile /\ f.data.seed = vault.data.seed

SeedsDrawn ==
    /\ vault # NoFile => vault.data.seed <= minted
    /\ \A p \in Procs : write[p] # NoWrite => write[p].image.seed <= minted

\* What is in a recovery file is of a vault that was opened, before a power loss and after.
ShownOnly(g) == /\ g.data # Torn => g.data.seed \in shown
                /\ g.stable # Torn => g.stable.seed \in shown

FileShown == file \in fileSettled /\ \A g \in fileSettled : g # NoFile => ShownOnly(g)

\* No entry is, or is about to be, behind a seed that nobody was shown.
EmptyOrShown(image) == image.seed \in shown \/ image.entries = NoEntries

UnshownEmpty ==
    /\ \A f \in settled : f # NoFile => EmptyOrShown(f.data)
    /\ \A p \in Procs : write[p] # NoWrite => EmptyOrShown(write[p].image)

CommandInv ==
    /\ TypeOK /\ StorageInv
    /\ \A p \in Procs : JobInv(p)
    /\ SameVault /\ SeedsDrawn /\ FileShown /\ UnshownEmpty

\* The type of everything but the storage
OutsideOK ==
    /\ interrupted \subseteq Procs
    /\ dir \in BOOLEAN
    /\ minted \in 0 .. MaxSeeds
    /\ shown \subseteq 1 .. minted
    /\ file \in RecoveryFile \cup {NoFile}
    /\ fileSettled \subseteq RecoveryFile \cup {NoFile}
    /\ clip \in {"secret", "other"}

\* What the invariant says of the types, for the steps that need no more.
LEMMA InvType ==
    CommandInv => /\ OutsideOK
                  /\ job \in [Procs -> Job \cup {NoJob}]
                  /\ vault \in File \cup {NoFile} /\ vault \in settled
                  /\ settled \subseteq File \cup {NoFile}
                  /\ write \in [Procs -> Write \cup {NoWrite}]
                  /\ holders \subseteq Procs
                  /\ \A f \in settled : Whole(f)
  BY DEF CommandInv, TypeOK, OutsideOK, StorageInv, StorageTypeOK, WholeFile

\* Before any command
LEMMA CommandInit == Init => CommandInv
<1> SUFFICES ASSUME Init PROVE CommandInv
  OBVIOUS
<1>1. StorageInv
  BY StorageInitInv DEF Init
<1>2. TypeOK
  <2>1. minted \in 0 .. MaxSeeds /\ shown \subseteq 1 .. minted
    BY CommandAssumption DEF Init
  <2>2. job \in [Procs -> Job \cup {NoJob}]
    BY DEF Init
  <2>3. file \in RecoveryFile \cup {NoFile} /\ fileSettled \subseteq RecoveryFile \cup {NoFile}
    BY DEF Init
  <2>4. QED
    BY <1>1, <2>1, <2>2, <2>3 DEF Init, StorageInv, TypeOK
<1>3. \A p \in Procs : JobInv(p)
  BY DEF Init, StorageInit, JobInv, Active
<1>4. SameVault /\ SeedsDrawn /\ FileShown /\ UnshownEmpty
  BY DEF Init, StorageInit, SameVault, SeedsDrawn, FileShown, UnshownEmpty
<1>5. QED
  BY <1>1, <1>2, <1>3, <1>4 DEF CommandInv

\* A step of one job, of its write and of the lock, that leaves the vault, the
\* recovery file and the printed seeds alone, has only its own part to keep.
LEMMA JobMoves ==
    ASSUME CommandInv, NEW p \in Procs, NEW j \in Job \cup {NoJob}, NEW w \in Write \cup {NoWrite},
           job' = [job EXCEPT ![p] = j], write' = [write EXCEPT ![p] = w],
           \A q \in Procs \ {p} : q \in holders => q \in holders',
           UNCHANGED <<vault, settled, shown, fileVars>>,
           minted <= minted', OutsideOK',
           StorageInv', JobInv(p)',
           w # NoWrite => w.image.seed <= minted' /\ EmptyOrShown(w.image)
    PROVE  CommandInv'
<1>1. TypeOK'
  BY InvType DEF TypeOK, OutsideOK, StorageInv, fileVars
<1>2. ASSUME NEW q \in Procs PROVE JobInv(q)'
  <2>1. CASE q = p
    BY <2>1
  <2>2. CASE q # p
    <3>1. job'[q] = job[q] /\ write'[q] = write[q]
      BY <2>2, InvType
    <3>2. QED
      BY <2>2, <3>1 DEF CommandInv, JobInv, Active, ProviderJob, FromFile, OwnerJob, fileVars
  <2>3. QED
    BY <2>1, <2>2
<1>3. SameVault'
  BY DEF CommandInv, SameVault
<1>4. SeedsDrawn'
  <2>1. \A q \in Procs : write'[q] # NoWrite => write'[q].image.seed <= minted'
    <3> SUFFICES ASSUME NEW q \in Procs, write'[q] # NoWrite PROVE write'[q].image.seed <= minted'
      OBVIOUS
    <3>1. CASE q = p
      BY <3>1, InvType
    <3>2. CASE q # p
      <4>1. write[q] \in Write /\ write[q].image.seed \in Nat /\ write[q].image.seed <= minted
        BY <3>2, InvType, CommandAssumption DEF CommandInv, SeedsDrawn, Write, Image, Seeds
      <4>2. QED
        BY <3>2, <4>1, InvType DEF OutsideOK
    <3>3. QED
      BY <3>1, <3>2
  <2>2. ASSUME NEW s \in Nat, s <= minted PROVE s <= minted'
    BY <2>2, InvType DEF OutsideOK
  <2>3. vault' # NoFile => vault'.data.seed <= minted'
    <3>1. vault # NoFile => vault.data.seed \in Nat
      BY InvType, CommandAssumption DEF Whole, Image, Seeds
    <3>2. QED
      BY <2>2, <3>1 DEF CommandInv, SeedsDrawn
  <2>4. QED
    BY <2>1, <2>3 DEF SeedsDrawn
<1>5. FileShown'
  BY DEF CommandInv, FileShown, ShownOnly, fileVars
<1>6. UnshownEmpty'
  <2>1. \A i : EmptyOrShown(i) => EmptyOrShown(i)'
    BY DEF EmptyOrShown
  <2>2. \A q \in Procs : write'[q] # NoWrite => EmptyOrShown(write'[q].image)
    BY InvType DEF CommandInv, UnshownEmpty
  <2>3. QED
    BY <2>1, <2>2 DEF CommandInv, UnshownEmpty, EmptyOrShown
<1>7. QED
  BY <1>1, <1>2, <1>3, <1>4, <1>5, <1>6 DEF CommandInv

-----------------------------------------------------------------------------
(* Steps that only move a job along *)

\* A job that ends is one of the type, and keeps nothing but its exit code.
LEMMA EndedType ==
    ASSUME NEW code \in 0 .. 6
    PROVE  /\ Ended(code) \in Job /\ Ended(code) # NoJob
           /\ Ended(code).stage = "exit" /\ Ended(code).code = code
<1>1. Ended(code) = [cmd |-> "none", label |-> NoLabel, stage |-> "exit",
                     image |-> NoImage, ticks |-> 0, code |-> code]
  BY DEF Ended, NewJob
<1>2. Ended(code) \in Job
  BY <1>1, CommandAssumption DEF Job, Stages
<1>3. QED
  BY <1>1, <1>2, CommandAssumption

\* A command starts as a job at its check, with nothing read from the vault yet.
LEMMA NewJobType ==
    ASSUME NEW cmd \in Commands, NEW label \in Labels \cup {NoLabel}
    PROVE  /\ NewJob(cmd, label, "check") \in Job /\ NewJob(cmd, label, "check") # NoJob
           /\ NewJob(cmd, label, "check").cmd = cmd /\ NewJob(cmd, label, "check").label = label
           /\ NewJob(cmd, label, "check").stage = "check"
           /\ NewJob(cmd, label, "check").image = NoImage
<1>1. NewJob(cmd, label, "check") \in Job
  BY CommandAssumption DEF NewJob, Job, Stages
<1>2. QED
  BY <1>1, CommandAssumption DEF NewJob

\* A step that moves one job along, and neither a file nor a seed, has that job to answer for.
LEMMA JobOnly ==
    ASSUME CommandInv, NEW p \in Procs, NEW j \in Job \cup {NoJob}, job' = [job EXCEPT ![p] = j],
           UNCHANGED <<storageVars, minted, shown, fileVars>>,
           interrupted' \subseteq Procs, dir' \in BOOLEAN, clip' \in {"secret", "other"},
           JobInv(p)'
    PROVE  CommandInv'
<1> DEFINE w == write[p]
<1>1. w \in Write \cup {NoWrite} /\ write' = [write EXCEPT ![p] = w]
  BY InvType DEF storageVars
<1>2. StorageInv'
  BY StorageNextInv DEF CommandInv
<1>3. OutsideOK'
  BY InvType DEF OutsideOK, fileVars
<1>4. w # NoWrite => w.image.seed <= minted' /\ EmptyOrShown(w.image)
  BY DEF CommandInv, SeedsDrawn, UnshownEmpty
<1>5. minted <= minted'
  BY InvType DEF OutsideOK
<1> HIDE DEF w
<1>6. QED
  BY <1>1, <1>2, <1>3, <1>4, <1>5, JobMoves DEF storageVars

\* A job without a write underway ends.
LEMMA JobEnds ==
    ASSUME CommandInv, NEW p \in Procs, write[p] = NoWrite, NEW code \in 0 .. 6, Exit(p, code),
           UNCHANGED <<storageVars, minted, shown, fileVars, interrupted, dir>>,
           clip' \in {"secret", "other"}
    PROVE  CommandInv'
<1>1. job' = [job EXCEPT ![p] = Ended(code)]
  BY DEF Exit
<1>2. JobInv(p)'
  BY <1>1, EndedType, InvType DEF JobInv, Active, storageVars
<1>3. interrupted' \subseteq Procs /\ dir' \in BOOLEAN
  BY InvType DEF OutsideOK
<1>4. QED
  BY <1>1, <1>2, <1>3, EndedType, JobOnly

\* Every way a job is turned away, refused or done without touching anything
LEMMA FailInv ==
    ASSUME CommandInv, NEW p \in Procs, NEW stage, stage \notin {"penalty", "pardon", "save"},
           NEW code \in 0 .. 6, Fail(p, stage, code)
    PROVE  CommandInv'
<1>1. write[p] = NoWrite
  BY DEF CommandInv, JobInv, Fail, In
<1>2. clip' \in {"secret", "other"}
  BY InvType DEF Fail, OutsideOK, outVars
<1>3. QED
  BY <1>1, <1>2, JobEnds DEF Fail, outVars

\* The early returns of main.rs: a command that is refused, or that only prints, ends.
LEMMA QuietSteps ==
    ASSUME CommandInv, NEW p \in Procs,
           \/ NoLockFile(p) \/ AlreadyRunning(p)
           \/ Refused(p) \/ PathTaken(p) \/ UnlockRefused(p)
           \/ NotFound(p) \/ CommandRefused(p) \/ PrintEntries(p)
           \/ FileTaken(p) \/ FileFails(p) \/ NotOurs(p)
    PROVE  CommandInv'
<1>1. CASE NoLockFile(p) \/ AlreadyRunning(p)
  <2>1. PICK code \in 0 .. 6 : AtOnce(p, code)
    BY <1>1 DEF NoLockFile, AlreadyRunning
  <2>2. write[p] = NoWrite /\ clip' \in {"secret", "other"}
    BY <2>1, InvType DEF CommandInv, JobInv, Active, AtOnce, OutsideOK, outVars
  <2>3. QED
    BY <2>1, <2>2, JobEnds DEF AtOnce, outVars
<1>2. CASE \/ Refused(p) \/ PathTaken(p) \/ UnlockRefused(p)
           \/ NotFound(p) \/ CommandRefused(p) \/ PrintEntries(p)
           \/ FileTaken(p) \/ FileFails(p) \/ NotOurs(p)
  <2>1. PICK stage \in {"check", "unlock", "session", "file", "fileWrite", "fileSync", "wait"},
             code \in 0 .. 6 : Fail(p, stage, code)
    BY <1>2 DEF Refused, PathTaken, UnlockRefused, NotFound, CommandRefused, PrintEntries,
                FileTaken, FileFails, NotOurs
  <2>2. QED
    BY <2>1, FailInv
<1>3. QED
  BY <1>1, <1>2

\* The job of p with its stage changed
LEMMA StageOf ==
    ASSUME NEW p \in Procs, NEW stage \in Stages, job \in [Procs -> Job \cup {NoJob}],
           job[p] # NoJob, Goto(p, stage)
    PROVE  \E j \in Job :
              /\ job' = [job EXCEPT ![p] = j] /\ job'[p] = j /\ j # NoJob
              /\ j.stage = stage /\ j.cmd = job[p].cmd /\ j.label = job[p].label
              /\ j.image = job[p].image
<1> DEFINE j == [job[p] EXCEPT !.stage = stage]
<1>1. job[p] \in Job
  OBVIOUS
<1>2. /\ j \in Job /\ j.stage = stage /\ j.cmd = job[p].cmd /\ j.label = job[p].label
      /\ j.image = job[p].image
  BY <1>1 DEF Job
<1>3. job' = [job EXCEPT ![p] = j]
  BY DEF Goto
<1> HIDE DEF j
<1>4. QED
  BY <1>2, <1>3, CommandAssumption

\* An idle tick, the checks, an unlock that clears nothing, and a copy
LEMMA MoveSteps ==
    ASSUME CommandInv, NEW p \in Procs,
           Checked(p) \/ UnlockClean(p) \/ Copy(p) \/ Wait(p) \/ Cleared(p) \/ Signal(p)
    PROVE  CommandInv'
<1>1. CASE Checked(p)
  <2> DEFINE stage == IF Runs(p, Providers) THEN "session" ELSE "unlock"
  <2>1. job[p] # NoJob /\ job[p].stage = "check" /\ Goto(p, stage) /\ stage \in Stages
    BY <1>1 DEF Checked, In, Stages
  <2>2. PICK j \in Job : /\ job' = [job EXCEPT ![p] = j] /\ job'[p] = j /\ j # NoJob
                         /\ j.stage = stage /\ j.cmd = job[p].cmd /\ j.label = job[p].label
                         /\ j.image = job[p].image
    BY <2>1, StageOf, InvType
  <2>3. JobInv(p)'
    BY <1>1, <2>1, <2>2 DEF CommandInv, JobInv, Active, ProviderJob, OwnerJob, Checked, MayRun, Runs,
                            storageVars
  <2>4. QED
    BY <1>1, <2>2, <2>3, InvType, JobOnly DEF Checked, OutsideOK
<1>2. CASE UnlockClean(p)
  <2> DEFINE j == [[job[p] EXCEPT !.stage = "session"] EXCEPT !.image = vault.data]
  <2>1. job[p] \in Job /\ job[p] # NoJob /\ job[p].stage = "unlock" /\ vault.data \in Image
    BY <1>2, InvType, CommandAssumption, StorageAssumption DEF UnlockClean, In, Readable, Whole
  <2>2. j \in Job /\ j.stage = "session" /\ j.cmd = job[p].cmd /\ j.label = job[p].label
        /\ j.image = vault.data
    BY <2>1 DEF Job, Stages
  <2>3. job' = [job EXCEPT ![p] = j]
    BY <1>2, InvType DEF UnlockClean, Session
  <2> HIDE DEF j
  <2>4. JobInv(p)'
    BY <1>2, <2>1, <2>2, <2>3, InvType, CommandAssumption
       DEF CommandInv, JobInv, Active, ProviderJob, OwnerJob, UnlockClean, Readable,
           storageVars, outVars
  <2>5. QED
    BY <1>2, <2>2, <2>3, <2>4, InvType, JobOnly DEF UnlockClean, OutsideOK, outVars
<1>3. CASE Copy(p)
  <2>1. job[p] # NoJob /\ job[p].stage = "session" /\ job[p].cmd = "get" /\ Goto(p, "wait")
    BY <1>3 DEF Copy, Doing, In, Runs
  <2>2. PICK j \in Job : /\ job' = [job EXCEPT ![p] = j] /\ job'[p] = j /\ j # NoJob
                         /\ j.stage = "wait" /\ j.cmd = job[p].cmd /\ j.label = job[p].label
                         /\ j.image = job[p].image
    BY <2>1, StageOf, InvType DEF Stages
  <2>3. JobInv(p)'
    BY <1>3, <2>1, <2>2 DEF CommandInv, JobInv, Active, ProviderJob, OwnerJob, Copy, ClipUnchanged,
                            Providers, storageVars
  <2>4. QED
    BY <1>3, <2>2, <2>3, InvType, JobOnly DEF Copy, ClipUnchanged, OutsideOK
<1>4. CASE Wait(p)
  <2> DEFINE j == [job[p] EXCEPT !.ticks = job[p].ticks + 1]
  <2>1. job[p] \in Job /\ job[p] # NoJob /\ job[p].stage = "wait" /\ job[p].ticks # ClearTicks
    BY <1>4, InvType DEF Wait, In, WaitOver
  <2>2. job[p].ticks \in 0 .. ClearTicks
    BY <2>1 DEF Job
  <2>3. job[p].ticks + 1 \in 0 .. ClearTicks
    BY <2>1, <2>2, CommandAssumption
  <2>4. j \in Job /\ j.stage = "wait" /\ j.cmd = job[p].cmd /\ j.label = job[p].label
        /\ j.image = job[p].image
    BY <2>1, <2>3 DEF Job
  <2>5. job' = [job EXCEPT ![p] = j]
    BY <1>4, InvType DEF Wait
  <2> HIDE DEF j
  <2>6. JobInv(p)'
    BY <1>4, <2>1, <2>4, <2>5, InvType, CommandAssumption
       DEF CommandInv, JobInv, Active, ProviderJob, OwnerJob, Wait, storageVars, outVars
  <2>7. QED
    BY <1>4, <2>4, <2>5, <2>6, InvType, JobOnly DEF Wait, OutsideOK, outVars
<1>5. CASE Cleared(p)
  <2>1. write[p] = NoWrite
    BY <1>5 DEF CommandInv, JobInv, Cleared, In
  <2>2. QED
    BY <1>5, <2>1, JobEnds DEF Cleared, ClipUnchanged
<1>6. CASE Signal(p)
  <2>1. job[p] \in Job \cup {NoJob} /\ job' = [job EXCEPT ![p] = job[p]]
    BY <1>6, InvType DEF Signal
  <2>2. JobInv(p)'
    BY <1>6 DEF CommandInv, JobInv, Active, ProviderJob, FromFile, OwnerJob, Signal, storageVars,
                outVars, fileVars
  <2>3. QED
    BY <1>6, <2>1, <2>2, InvType, JobOnly DEF Signal, OutsideOK, outVars
<1>7. QED
  BY <1>1, <1>2, <1>3, <1>4, <1>5, <1>6

-----------------------------------------------------------------------------
(* The lock and the end of a process *)

\* Only one process gets past the door.
LEMMA OpenInv ==
    ASSUME FileLock, CommandInv, NEW p \in Procs, NEW cmd \in Commands,
           NEW label \in Labels \cup {NoLabel}, OpenApp(p, cmd, label)
    PROVE  CommandInv'
<1> DEFINE j == NewJob(cmd, label, "check")
<1>1. /\ j \in Job /\ j # NoJob /\ j.cmd = cmd /\ j.label = label /\ j.stage = "check"
      /\ j.image = NoImage
  BY NewJobType
<1>2. job[p] = NoJob /\ write[p] = NoWrite /\ write' = [write EXCEPT ![p] = NoWrite]
  BY InvType DEF OpenApp, CommandInv, JobInv, Active
<1>3. StorageInv'
  BY AcquireInv DEF OpenApp, CommandInv
<1>4. job' = [job EXCEPT ![p] = j] /\ holders' = holders \cup {p}
  BY DEF OpenApp, Acquire
<1>5. cmd \in Labelled => label \in Labels
  BY CommandAssumption DEF OpenApp
<1> HIDE DEF j
<1>6. JobInv(p)'
  BY <1>1, <1>2, <1>4, <1>5, InvType DEF JobInv, Active, ProviderJob, OwnerJob
<1>7. OutsideOK' /\ minted <= minted'
  BY InvType DEF OpenApp, OutsideOK, outVars, fileVars
<1>8. QED
  BY <1>1, <1>2, <1>3, <1>4, <1>6, <1>7, JobMoves DEF OpenApp, outVars

\* A job is reaped or killed, and with it its write, its lock and its copy.
LEMMA EndInv ==
    ASSUME CommandInv, NEW p \in Procs, Reap(p) \/ Kill(p)
    PROVE  CommandInv'
<1>1. write' = [write EXCEPT ![p] = NoWrite] /\ holders' = holders \ {p}
      /\ job' = [job EXCEPT ![p] = NoJob]
  BY InvType DEF Reap, Kill, Gone, Release, StorageCrash, CommandInv, JobInv, Active, In
<1>2. StorageCrash(p)
  BY <1>1 DEF Reap, Kill, StorageCrash, Release
<1>3. StorageInv'
  BY <1>2, StorageWorldInv DEF CommandInv
<1>4. JobInv(p)'
  BY <1>1, InvType DEF JobInv, Active
<1>5. OutsideOK' /\ minted <= minted'
  BY InvType DEF Reap, Kill, Gone, OutsideOK, outVars, fileVars
<1>6. UNCHANGED <<vault, settled, shown, fileVars>>
  BY DEF Reap, Kill, StorageCrash, outVars
<1>7. QED
  BY <1>1, <1>3, <1>4, <1>5, <1>6, JobMoves

-----------------------------------------------------------------------------
(* Writes begin and return *)

\* A write that begins keeps the invariant if the image is of a seed that was drawn,
\* and empty unless the seed was shown, and its job is at the stage that waits.
LEMMA SaveInv ==
    ASSUME FileLock, CommandInv, NEW p \in Procs, p \in holders, NEW j \in Job,
           job' = [job EXCEPT ![p] = j], NEW image \in Images, StartWrite(p, image),
           UNCHANGED <<vault, settled, holders, interrupted, dir, shown, fileVars, clip>>,
           minted' \in minted .. MaxSeeds, image.seed <= minted',
           EmptyOrShown(image),
           \A w \in Write : w.image = image /\ w.stage = "create" /\ write'[p] = w => JobInv(p)'
    PROVE  CommandInv'
<1> DEFINE w == [stage |-> "create", image |-> image, temp |-> NoFile]
<1>1. w \in Write /\ write' = [write EXCEPT ![p] = w]
  BY DEF Write, WriteStages, StartWrite
<1>2. StorageInv'
  BY StartWriteInv DEF CommandInv
<1>3. JobInv(p)'
  BY <1>1, InvType
<1>4. OutsideOK' /\ minted <= minted'
  BY InvType, CommandAssumption DEF OutsideOK, fileVars
<1>5. QED
  BY <1>1, <1>2, <1>3, <1>4, JobMoves

\* The save of a command that has unlocked the vault, or has failed to
LEMMA OwnerSaves ==
    ASSUME FileLock, CommandInv, NEW p \in Procs, In(p, "unlock") \/ In(p, "session"),
           job[p].cmd \notin Providers,
           NEW stage \in {"penalty", "pardon", "save"}, NEW image \in Images, Save(p, stage, image),
           image.seed = vault.data.seed, vault # NoFile,
           stage \in {"penalty", "pardon"} => In(p, "unlock") /\ image = vault.data,
           stage = "pardon" => vault.data.seed \in shown,
           stage = "save" => In(p, "session") /\ Edited(job[p], image)
    PROVE  CommandInv'
<1>1. PICK j \in Job : /\ job' = [job EXCEPT ![p] = j] /\ job'[p] = j /\ j # NoJob
                       /\ j.stage = stage /\ j.cmd = job[p].cmd /\ j.label = job[p].label
                       /\ j.image = job[p].image
  BY StageOf, InvType DEF Save, Stages, In
<1>2. Active(p) /\ p \in holders /\ OwnerJob(p) /\ job[p].cmd \in Commands
      /\ (job[p].cmd \in Labelled => job[p].label \in Labels)
  BY DEF CommandInv, JobInv, Active, In
<1>3. image.seed <= minted /\ minted \in Nat
  BY InvType DEF CommandInv, SeedsDrawn, OutsideOK
<1>4. EmptyOrShown(image)
  <2>1. CASE stage = "save"
    BY <1>2, <2>1 DEF OwnerJob, In, EmptyOrShown
  <2>2. CASE stage \in {"penalty", "pardon"}
    BY <2>2, InvType DEF CommandInv, UnshownEmpty
  <2>3. QED
    BY <2>1, <2>2
<1>5. minted' \in minted .. MaxSeeds /\ minted' = minted
  BY InvType, CommandAssumption DEF Save, outVars, OutsideOK
<1>6. ASSUME NEW w \in Write, w.image = image, w.stage = "create", write'[p] = w
      PROVE  JobInv(p)'
  <2>1. /\ Active(p)' /\ p \in holders' /\ w # NoWrite /\ job'[p] = j
        /\ vault' = vault /\ shown' = shown
    BY <1>1, <1>2, <1>6, StorageAssumption DEF Active, Save, outVars
  <2>2. vault.data = job[p].image \/ stage # "save"
    BY <1>2 DEF OwnerJob, In
  <2>3. Edited(job[p], image) => Edited(j, image)
    BY <1>1 DEF Edited
  <2>4. OwnerJob(p)'
    BY <1>1, <1>2, <1>6, <2>1, <2>2, <2>3 DEF OwnerJob, Pending, In
  <2>5. QED
    BY <1>1, <1>2, <1>6, <2>1, <2>4 DEF JobInv
<1>7. QED
  BY <1>1, <1>2, <1>3, <1>4, <1>5, <1>6, SaveInv DEF Save, outVars, fileVars

\* A vault that is there is whole.
LEMMA VaultImage ==
    ASSUME CommandInv, vault # NoFile
    PROVE  vault.data \in Image /\ vault.data.seed \in Nat
  BY InvType, CommandAssumption DEF Whole, Image, Seeds

\* What a command in its session knows
LEMMA InSession ==
    ASSUME CommandInv, NEW p \in Procs, In(p, "session"), job[p].cmd \notin Providers
    PROVE  /\ vault # NoFile /\ vault.data \in Image /\ job[p].image = vault.data
           /\ job[p].cmd \in Commands
           /\ job[p].cmd \in Labelled => job[p].label \in Labels
<1>1. OwnerJob(p) /\ job[p].cmd \in Commands /\ (job[p].cmd \in Labelled => job[p].label \in Labels)
  BY DEF CommandInv, JobInv, Active, In
<1>2. QED
  BY <1>1, VaultImage DEF OwnerJob, In

\* The edit of a command is written.
LEMMA EditSaves ==
    ASSUME FileLock, CommandInv, NEW p \in Procs,
           Add(p) \/ Rm(p) \/ Export(p) \/ \E pw \in Passwords : Passwd(p, pw)
    PROVE  CommandInv'
<1>1. In(p, "session") /\ job[p].cmd \in {"add", "rm", "export", "passwd"}
  BY DEF Add, Rm, Export, Passwd, Doing, Runs
<1>2. /\ vault # NoFile /\ vault.data \in Image /\ job[p].image = vault.data
      /\ job[p].cmd \in {"add", "rm"} => job[p].label \in Labels
  BY <1>1, InSession DEF Providers, Labelled
<1>3. ASSUME NEW image \in Image, Save(p, "save", image), image.seed = vault.data.seed,
             Edited(job[p], image)
      PROVE  CommandInv'
  BY <1>1, <1>2, <1>3, OwnerSaves, CommandAssumption DEF Providers
<1>4. CASE Add(p)
  <2> DEFINE entries == [vault.data.entries EXCEPT ![job[p].label] = @ + 1]
             image == [vault.data EXCEPT !.entries = entries]
  <2>1. entries \in Entries /\ Save(p, "save", image) /\ job[p].cmd = "add"
    BY <1>4 DEF Add, Edit, Doing, Runs
  <2> HIDE DEF entries
  <2>2. image \in Image /\ image.seed = vault.data.seed /\ image.entries = entries
        /\ image.exported = vault.data.exported
    BY <1>2, <2>1 DEF Image
  <2> HIDE DEF image
  <2>3. Edited(job[p], image)
    BY <1>2, <2>1, <2>2 DEF Edited, entries
  <2>4. QED
    BY <1>3, <2>1, <2>2, <2>3
<1>5. CASE Rm(p)
  <2> DEFINE entries == [vault.data.entries EXCEPT ![job[p].label] = @ - 1]
             image == [vault.data EXCEPT !.entries = entries]
  <2>1. Save(p, "save", image) /\ job[p].cmd = "rm" /\ vault.data.entries[job[p].label] = 1
    BY <1>2, <1>5 DEF Rm, Edit, Doing, Runs, UniqueMatch, Carrying
  <2>2. entries = [vault.data.entries EXCEPT ![job[p].label] = 0]
    BY <2>1
  <2>3. vault.data.entries \in Entries /\ job[p].label \in Labels
    BY <1>2, <2>1 DEF Image
  <2>4. entries \in Entries
    BY <2>2, <2>3, CommandAssumption DEF Entries
  <2> HIDE DEF entries
  <2>5. image \in Image /\ image.seed = vault.data.seed /\ image.entries = entries
        /\ image.exported = vault.data.exported
    BY <1>2, <2>4 DEF Image
  <2> HIDE DEF image
  <2>6. Edited(job[p], image)
    BY <1>2, <2>1, <2>2, <2>5 DEF Edited
  <2>7. QED
    BY <1>3, <2>1, <2>5, <2>6
<1>6. CASE Export(p)
  <2> DEFINE image == [vault.data EXCEPT !.exported = TRUE]
  <2>1. Save(p, "save", image) /\ job[p].cmd = "export"
    BY <1>6 DEF Export, Doing, Runs
  <2>2. image \in Image /\ image.seed = vault.data.seed /\ image.exported
    BY <1>2 DEF Image
  <2> HIDE DEF image
  <2>3. Edited(job[p], image)
    BY <1>2, <2>1, <2>2 DEF Edited
  <2>4. QED
    BY <1>3, <2>1, <2>2, <2>3
<1>7. ASSUME NEW pw \in Passwords, Passwd(p, pw) PROVE CommandInv'
  <2> DEFINE image == [vault.data EXCEPT !.pw = pw]
  <2>1. Save(p, "save", image) /\ job[p].cmd = "passwd"
    BY <1>7 DEF Passwd, Doing, Runs
  <2>2. image \in Image /\ image.seed = vault.data.seed /\ image.exported = vault.data.exported
    BY <1>2 DEF Image
  <2> HIDE DEF image
  <2>3. Edited(job[p], image)
    BY <1>2, <2>1, <2>2 DEF Edited
  <2>4. QED
    BY <1>3, <2>1, <2>2, <2>3
<1>8. QED
  BY <1>4, <1>5, <1>6, <1>7

\* The counter in the header is raised or cleared: the vault is written as it is.
LEMMA HeaderSaves ==
    ASSUME FileLock, CommandInv, NEW p \in Procs, UnlockBad(p) \/ UnlockCounted(p)
    PROVE  CommandInv'
<1>1. In(p, "unlock") /\ vault # NoFile
  BY DEF UnlockBad, UnlockCounted, Readable
<1>2. vault.data \in Image /\ job[p].cmd \notin Providers
  BY <1>1, VaultImage DEF CommandInv, JobInv, Active, ProviderJob, In
<1>3. CASE UnlockBad(p)
  BY <1>1, <1>2, <1>3, OwnerSaves, CommandAssumption DEF UnlockBad
<1>4. CASE UnlockCounted(p)
  BY <1>1, <1>2, <1>4, OwnerSaves, CommandAssumption DEF UnlockCounted
<1>5. QED
  BY <1>3, <1>4

\* A vault is provided: nothing under a seed that nobody was shown, and what the recovery
\* file holds if it is an import.
LEMMA ProvideInv ==
    ASSUME FileLock, CommandInv, NEW p \in Procs, In(p, "session"), job[p].cmd \in Providers,
           NEW seed \in Seeds, NEW pw \in Passwords, NEW entries \in Entries,
           Provide(p, seed, pw, entries), minted' \in minted .. MaxSeeds, seed <= minted',
           seed \in shown \/ entries = NoEntries,
           job[p].cmd = "import" => /\ file # NoFile /\ file.data.entries = entries
                                    /\ file.data.pw = pw /\ file.data.seed = seed
    PROVE  CommandInv'
<1> DEFINE image == [seed |-> seed, pw |-> pw, entries |-> entries, exported |-> FALSE]
<1>1. PICK j \in Job : /\ job' = [job EXCEPT ![p] = j] /\ job'[p] = j /\ j # NoJob
                       /\ j.stage = "save" /\ j.cmd = job[p].cmd /\ j.label = job[p].label
                       /\ j.image = job[p].image
  BY StageOf, InvType DEF Provide, Stages, In
<1>2. Active(p) /\ p \in holders /\ ProviderJob(p) /\ job[p].cmd \in Commands
      /\ (job[p].cmd \in Labelled => job[p].label \in Labels)
  BY DEF CommandInv, JobInv, Active, In
<1>3. image \in Images /\ StartWrite(p, image)
  BY CommandAssumption DEF Image, Provide
<1>4. EmptyOrShown(image) /\ image.seed <= minted'
  BY DEF EmptyOrShown
<1>5. FromFile(job[p], image)
  BY DEF FromFile, SameContents
<1> HIDE DEF image
<1>6. ASSUME NEW w \in Write, w.image = image, w.stage = "create", write'[p] = w
      PROVE  JobInv(p)'
  <2>1. Active(p)' /\ p \in holders' /\ w # NoWrite /\ job'[p] = j /\ vault' = vault
        /\ file' = file
    BY <1>1, <1>2, <1>6, StorageAssumption DEF Active, Provide, fileVars
  <2>2. vault = NoFile
    BY <1>2 DEF ProviderJob, In
  <2>3. FromFile(j, image)'
    BY <1>1, <1>5, <2>1 DEF FromFile
  <2>4. ProviderJob(p)'
    BY <1>1, <1>2, <1>5, <1>6, <2>1, <2>2 DEF ProviderJob, FromFile, Pending, In
  <2>5. QED
    BY <1>1, <1>2, <1>6, <2>1, <2>4 DEF JobInv
<1>7. UNCHANGED <<vault, settled, holders, interrupted, dir, shown, fileVars, clip>>
  BY DEF Provide
<1>8. QED
  BY <1>1, <1>2, <1>3, <1>4, <1>6, <1>7, SaveInv

\* What an import reads: the seed of a vault that was opened
LEMMA FileContents ==
    ASSUME CommandInv, file # NoFile, file.data # Torn
    PROVE  /\ file.data.seed \in Seeds /\ file.data.seed \in shown /\ file.data.seed <= minted
           /\ file.data.pw \in Passwords /\ file.data.entries \in Entries
<1>1. file \in RecoveryFile /\ file.data.seed \in shown /\ shown \subseteq 1 .. minted
      /\ minted \in Nat
  BY InvType DEF OutsideOK, CommandInv, FileShown, ShownOnly
<1>2. file.data \in Recovery
  BY <1>1 DEF RecoveryFile
<1>3. file.data.seed \in 1 .. minted
  BY <1>1
<1>4. QED
  BY <1>1, <1>2, <1>3 DEF Recovery

\* init saves an empty vault under a seed just drawn, import what the recovery file holds.
LEMMA ProviderSaves ==
    ASSUME FileLock, CommandInv, NEW p \in Procs,
           Import(p) \/ \E pw \in Passwords : InitVault(p, pw)
    PROVE  CommandInv'
<1>1. ASSUME NEW pw \in Passwords, InitVault(p, pw) PROVE CommandInv'
  <2>1. NoEntries \in Entries
    BY CommandAssumption DEF NoEntries, Entries
  <2>2. minted' \in Seeds /\ minted' \in minted .. MaxSeeds /\ minted' <= minted'
    BY <1>1, InvType, CommandAssumption DEF InitVault, OutsideOK, Seeds
  <2>3. In(p, "session") /\ job[p].cmd = "init" /\ Provide(p, minted', pw, NoEntries)
    BY <1>1 DEF InitVault, Doing, Runs
  <2>4. job[p].cmd \in Providers /\ job[p].cmd # "import"
    BY <2>3 DEF Providers
  <2>5. QED
    BY <2>1, <2>2, <2>3, <2>4, ProvideInv
<1>2. CASE Import(p)
  <2>1. file # NoFile /\ file.data # Torn /\ minted' = minted /\ In(p, "session")
        /\ job[p].cmd = "import"
        /\ Provide(p, file.data.seed, file.data.pw, file.data.entries)
    BY <1>2 DEF Import, Doing, Runs
  <2>2. minted' \in minted .. MaxSeeds
    BY <2>1, InvType, CommandAssumption DEF OutsideOK
  <2>3. job[p].cmd \in Providers
    BY <2>1 DEF Providers
  <2>4. QED
    BY <2>1, <2>2, <2>3, FileContents, ProvideInv
<1>3. QED
  BY <1>1, <1>2

\* A write returns, and its job goes on.
LEMMA ReturnInv ==
    ASSUME CommandInv, NEW p \in Procs, NEW stage, Returned(p, stage),
           UNCHANGED <<vault, settled, holders, interrupted, outVars>>,
           NEW j \in Job, job' = [job EXCEPT ![p] = j],
           write'[p] = NoWrite => JobInv(p)'
    PROVE  CommandInv'
<1>1. write' = [write EXCEPT ![p] = NoWrite]
  BY DEF Returned
<1>2. StorageInv'
  BY ReturnedInv DEF CommandInv
<1>3. JobInv(p)'
  BY <1>1, InvType
<1>4. OutsideOK' /\ minted <= minted'
  BY InvType DEF OutsideOK, outVars, fileVars
<1>5. QED
  BY <1>1, <1>2, <1>3, <1>4, JobMoves DEF outVars

\* A command that exits with the result of its write leaves no write behind.
LEMMA ReturnExits ==
    ASSUME CommandInv, NEW p \in Procs, NEW stage, Returned(p, stage), NEW code \in 0 .. 6,
           Exit(p, code), UNCHANGED <<vault, settled, holders, interrupted, outVars>>
    PROVE  CommandInv'
<1>1. Ended(code) \in Job /\ job' = [job EXCEPT ![p] = Ended(code)]
  BY EndedType DEF Exit
<1>2. write'[p] = NoWrite => JobInv(p)'
  BY <1>1, EndedType, InvType DEF JobInv, Active
<1>3. QED
  BY <1>1, <1>2, ReturnInv

\* The four ways a command goes on with the result of a write it waited for.
LEMMA ReturnSteps ==
    ASSUME CommandInv, NEW p \in Procs, Penalised(p) \/ Pardoned(p) \/ Saved(p) \/ NotSaved(p)
    PROVE  CommandInv'
<1>0. job[p] \in Job /\ JobInv(p)
  BY InvType DEF CommandInv, Penalised, Pardoned, Saved, NotSaved, In
<1>1. CASE Penalised(p) \/ NotSaved(p)
  BY <1>1, ReturnExits DEF Penalised, NotSaved
<1>2. CASE Pardoned(p)
  <2> DEFINE j == [[job[p] EXCEPT !.stage = "session"] EXCEPT !.image = vault.data]
  <2>1. /\ Active(p) /\ job[p].stage = "pardon" /\ OwnerJob(p) /\ job[p].cmd \notin Providers
        /\ vault # NoFile /\ vault.data \in Image /\ vault.data.seed \in shown
    BY <1>0, <1>2, VaultImage DEF Pardoned, In, JobInv, Active, ProviderJob, OwnerJob
  <2>2. j \in Job /\ j.stage = "session" /\ j.cmd = job[p].cmd /\ j.label = job[p].label
        /\ j.image = vault.data
    BY <1>0, <2>1 DEF Job, Stages
  <2>3. job' = [job EXCEPT ![p] = j]
    BY <1>2, InvType DEF Pardoned, Session
  <2> HIDE DEF j
  <2>4. write'[p] = NoWrite => JobInv(p)'
    BY <1>0, <1>2, <2>1, <2>2, <2>3, InvType, CommandAssumption
       DEF JobInv, Active, OwnerJob, Pardoned, outVars
  <2>5. QED
    BY <1>2, <2>2, <2>3, <2>4, ReturnInv DEF Pardoned
<1>3. CASE Saved(p)
  <2>1. /\ Active(p) /\ job[p].stage = "save" /\ ~Pending(write[p])
        /\ job[p].cmd \in Commands /\ (job[p].cmd \in Labelled => job[p].label \in Labels)
        /\ p \in holders
    BY <1>0, <1>3 DEF Saved, In, JobInv, Active, Returned, At, Pending
  <2>2. ASSUME NEW stage \in {"print", "file"}, Goto(p, stage),
               job[p].cmd \in Providers <=> stage = "print",
               stage = "file" => job[p].cmd = "export"
        PROVE  CommandInv'
    <3>1. PICK j \in Job : /\ job' = [job EXCEPT ![p] = j] /\ job'[p] = j /\ j # NoJob
                           /\ j.stage = stage /\ j.cmd = job[p].cmd /\ j.label = job[p].label
                           /\ j.image = job[p].image
      BY <2>1, <2>2, StageOf, InvType DEF Stages, Active
    <3>2. UNCHANGED <<vault, shown, file, holders>>
      BY <1>3 DEF Saved, outVars, fileVars
    <3>3. CASE stage = "print"
      <4>1. ProviderJob(p)'
        BY <1>0, <2>1, <2>2, <3>1, <3>2, <3>3 DEF JobInv, ProviderJob, FromFile
      <4>2. write'[p] = NoWrite => JobInv(p)'
        BY <2>1, <2>2, <3>1, <3>2, <3>3, <4>1 DEF JobInv, Active
      <4>3. QED
        BY <1>3, <3>1, <4>2, ReturnInv DEF Saved
    <3>4. CASE stage = "file"
      <4>1. OwnerJob(p)'
        BY <1>0, <2>1, <2>2, <3>1, <3>2, <3>4 DEF JobInv, OwnerJob, Edited
      <4>2. write'[p] = NoWrite => JobInv(p)'
        BY <2>1, <2>2, <3>1, <3>2, <3>4, <4>1 DEF JobInv, Active
      <4>3. QED
        BY <1>3, <3>1, <4>2, ReturnInv DEF Saved
    <3>5. QED
      BY <3>3, <3>4
  <2>3. CASE Exit(p, 0)
    BY <1>3, <2>3, ReturnExits DEF Saved
  <2>4. QED
    BY <1>3, <2>2, <2>3 DEF Saved, Runs, Providers
<1>4. QED
  BY <1>1, <1>2, <1>3

-----------------------------------------------------------------------------
(* Steps that print, and that make the recovery file *)

\* With the file lock the other processes are not at work.
LEMMA OthersRest ==
    ASSUME FileLock, CommandInv, NEW p \in Procs, Active(p), NEW q \in Procs, q # p
    PROVE  ~Active(q) /\ write[q] = NoWrite
  BY DEF CommandInv, JobInv, StorageInv, WritersHold

\* A step of the one job at work keeps what the others rely on.
LEMMA OthersKeep ==
    ASSUME FileLock, CommandInv, NEW p \in Procs, Active(p), NEW j, job' = [job EXCEPT ![p] = j],
           \A q \in Procs \ {p} : write'[q] = write[q], JobInv(p)'
    PROVE  \A q \in Procs : JobInv(q)'
<1> SUFFICES ASSUME NEW q \in Procs, q # p PROVE JobInv(q)'
  OBVIOUS
<1>1. ~Active(q) /\ write[q] = NoWrite
  BY OthersRest
<1>2. job'[q] = job[q] /\ write'[q] = write[q]
  BY InvType
<1>3. QED
  BY <1>1, <1>2 DEF JobInv, Active

\* The URI is printed after the save: from then on the seed of the vault has been shown.
LEMMA PrintInv ==
    ASSUME FileLock, CommandInv, NEW p \in Procs, PrintUri(p)
    PROVE  CommandInv'
<1>1. /\ Active(p) /\ ProviderJob(p) /\ write[p] = NoWrite
      /\ vault # NoFile /\ vault.data.seed \in 1 .. minted
  <2>1. Active(p) /\ ProviderJob(p) /\ write[p] = NoWrite /\ vault # NoFile
    BY DEF CommandInv, JobInv, Active, PrintUri, In, OwnerJob, ProviderJob
  <2>2. vault.data \in Image /\ vault.data.seed <= minted
    BY <2>1, VaultImage DEF CommandInv, SeedsDrawn
  <2>3. QED
    BY <2>1, <2>2, InvType DEF Image, Seeds, OutsideOK
<1>2. PICK code \in {0, 1} : job' = [job EXCEPT ![p] = Ended(code)]
  BY DEF PrintUri, Exit
<1>3. UNCHANGED storageVars /\ UNCHANGED <<interrupted, dir, minted, fileVars, clip>>
      /\ shown' = shown \cup {vault.data.seed}
  BY DEF PrintUri
<1>4. StorageInv'
  BY <1>3, StorageNextInv DEF CommandInv
<1>5. JobInv(p)'
  BY <1>1, <1>2, <1>3, EndedType, InvType DEF JobInv, Active, storageVars
<1>6. \A q \in Procs : JobInv(q)'
  BY <1>1, <1>2, <1>3, <1>5, OthersKeep DEF storageVars
<1>7. OutsideOK'
  BY <1>1, <1>3, InvType DEF OutsideOK, fileVars
<1>8. TypeOK'
  BY <1>2, <1>4, <1>7, EndedType, InvType DEF TypeOK, OutsideOK, StorageInv
<1>9. SameVault' /\ SeedsDrawn' /\ FileShown'
  BY <1>3 DEF CommandInv, SameVault, SeedsDrawn, FileShown, ShownOnly, storageVars, fileVars
<1>10. UnshownEmpty'
  BY <1>3 DEF CommandInv, UnshownEmpty, EmptyOrShown, storageVars
<1>11. QED
  BY <1>4, <1>6, <1>8, <1>9, <1>10 DEF CommandInv

\* The export at work writes its file, from the vault that was unlocked.
LEMMA FileInv ==
    ASSUME FileLock, CommandInv, NEW p \in Procs, Active(p), job[p].cmd = "export",
           job[p].stage \in {"file", "fileWrite", "fileSync"},
           NEW j \in Job, job' = [job EXCEPT ![p] = j],
           UNCHANGED <<storageVars, interrupted, dir, minted, shown, clip>>,
           file' \in RecoveryFile \cup {NoFile}, fileSettled' \subseteq RecoveryFile \cup {NoFile},
           file' \in fileSettled',
           \A g \in fileSettled' : g # NoFile => ShownOnly(g),
           JobInv(p)'
    PROVE  CommandInv'
<1>1. \A g \in fileSettled' : g # NoFile => ShownOnly(g)'
  BY DEF ShownOnly
<1>2. StorageInv'
  BY StorageNextInv DEF CommandInv
<1>3. \A q \in Procs : JobInv(q)'
  BY OthersKeep DEF storageVars
<1>4. TypeOK'
  BY <1>2, InvType DEF TypeOK, OutsideOK, StorageInv
<1>5. SameVault' /\ SeedsDrawn' /\ FileShown'
  BY <1>1 DEF CommandInv, SameVault, SeedsDrawn, FileShown, storageVars
<1>6. UnshownEmpty'
  BY DEF CommandInv, UnshownEmpty, EmptyOrShown, storageVars
<1>7. QED
  BY <1>2, <1>3, <1>4, <1>5, <1>6 DEF CommandInv

\* The recovery file is created, filled and synced only by an export under the lock.
LEMMA FileSteps ==
    ASSUME FileLock, CommandInv, NEW p \in Procs, CreateFile(p) \/ WriteFile(p) \/ SyncFile(p)
    PROVE  CommandInv'
<1>1. /\ Active(p) /\ job[p].stage \in {"file", "fileWrite", "fileSync"}
      /\ job[p].cmd = "export" /\ OwnerJob(p) /\ p \in holders /\ write[p] = NoWrite
      /\ vault # NoFile
  BY DEF CommandInv, JobInv, Active, OwnerJob, ProviderJob, CreateFile, WriteFile, SyncFile, In
<1>2. vault.data \in Image /\ vault.data.seed \in shown
  BY <1>1, VaultImage DEF OwnerJob
<1>3. /\ file \in RecoveryFile \cup {NoFile} /\ file \in fileSettled
      /\ fileSettled \subseteq RecoveryFile \cup {NoFile}
      /\ \A g \in fileSettled : g # NoFile => ShownOnly(g)
  BY InvType DEF OutsideOK, CommandInv, FileShown
<1>4. UNCHANGED <<storageVars, interrupted, dir, minted, shown, clip>>
  BY DEF CreateFile, WriteFile, SyncFile, FileUnchanged
<1>5. CASE CreateFile(p)
  <2>1. file' = [data |-> Torn, stable |-> Torn] /\ fileSettled' = fileSettled \cup {file'}
    BY <1>5 DEF CreateFile
  <2>2. file' \in RecoveryFile /\ file' # NoFile /\ file'.data = Torn /\ file'.stable = Torn
    <3>1. file' \in RecoveryFile /\ file' \in File
      BY <2>1 DEF RecoveryFile, File
    <3>2. QED
      BY <2>1, <3>1, StorageAssumption
  <2>3. PICK j \in Job : /\ job' = [job EXCEPT ![p] = j] /\ job'[p] = j /\ j # NoJob
                         /\ j.stage = "fileWrite" /\ j.cmd = job[p].cmd /\ j.label = job[p].label
                         /\ j.image = job[p].image
    BY <1>1, <1>5, StageOf, InvType DEF CreateFile, Stages, Active
  <2>4. JobInv(p)'
    BY <1>1, <1>4, <2>2, <2>3 DEF JobInv, Active, OwnerJob, CommandInv, storageVars,
           Commands, Labelled, Providers
  <2>5. QED
    <3>1. ShownOnly(file')
      BY <2>2 DEF ShownOnly
    <3>2. QED
      BY <1>1, <1>3, <1>4, <2>1, <2>2, <2>3, <2>4, <3>1, FileInv
<1>6. CASE WriteFile(p)
  <2> DEFINE rec == [seed |-> vault.data.seed, pw |-> vault.data.pw, entries |-> vault.data.entries]
             new == [file EXCEPT !.data = rec]
  <2>1. file \in RecoveryFile /\ rec \in Recovery /\ rec.seed \in shown
        /\ SameContents(rec, vault.data)
    BY <1>1, <1>2, <1>3, <1>6 DEF WriteFile, In, OwnerJob, Image, Recovery, SameContents
  <2>2. new \in RecoveryFile /\ new.data = rec /\ new.stable = file.stable
    BY <2>1 DEF RecoveryFile
  <2>3. file' = new /\ fileSettled' = {IF g = file THEN new ELSE g : g \in fileSettled}
    BY <1>6 DEF WriteFile, FileBecomes
  <2> HIDE DEF new, rec
  <2>4. file' \in RecoveryFile /\ file' \in fileSettled'
        /\ fileSettled' \subseteq RecoveryFile \cup {NoFile}
        /\ \A g \in fileSettled' : g # NoFile => ShownOnly(g)
    <3>1. ShownOnly(new)
      BY <1>3, <2>1, <2>2, CommandAssumption DEF ShownOnly
    <3>2. QED
      BY <1>3, <2>1, <2>2, <2>3, <3>1
  <2>5. PICK j \in Job : /\ job' = [job EXCEPT ![p] = j] /\ job'[p] = j /\ j # NoJob
                         /\ j.stage = "fileSync" /\ j.cmd = job[p].cmd /\ j.label = job[p].label
                         /\ j.image = job[p].image
    BY <1>1, <1>6, StageOf, InvType DEF WriteFile, Stages, Active
  <2>6. file' # NoFile
    BY <2>4, CommandAssumption
  <2>7. JobInv(p)'
    BY <1>1, <1>4, <2>1, <2>2, <2>3, <2>5, <2>6 DEF JobInv, Active, OwnerJob, CommandInv, storageVars,
           Commands, Labelled, Providers
  <2>8. QED
    BY <1>1, <1>4, <2>4, <2>5, <2>7, FileInv
<1>7. CASE SyncFile(p)
  <2> DEFINE new == [file EXCEPT !.stable = file.data]
  <2>1. file \in RecoveryFile /\ file.data \in Recovery
    BY <1>1, <1>3, <1>7 DEF SyncFile, In, OwnerJob
  <2>2. new \in RecoveryFile /\ new.data = file.data /\ new.stable = file.data
    BY <2>1 DEF RecoveryFile
  <2>3. file' = new /\ fileSettled' = {IF g = file THEN new ELSE g : g \in fileSettled}
    BY <1>7 DEF SyncFile, FileBecomes
  <2> HIDE DEF new
  <2>4. file' \in RecoveryFile /\ file' \in fileSettled'
        /\ fileSettled' \subseteq RecoveryFile \cup {NoFile}
        /\ \A g \in fileSettled' : g # NoFile => ShownOnly(g)
    <3>1. ShownOnly(new)
      BY <1>3, <2>1, <2>2, CommandAssumption DEF ShownOnly
    <3>2. QED
      BY <1>3, <2>1, <2>2, <2>3, <3>1
  <2>5. Ended(0) \in Job /\ job' = [job EXCEPT ![p] = Ended(0)]
    BY <1>7, EndedType DEF SyncFile, Exit
  <2>6. JobInv(p)'
    BY <1>1, <1>4, <2>5, EndedType, InvType DEF JobInv, Active, CommandInv, storageVars
  <2>7. QED
    BY <1>1, <1>4, <2>4, <2>5, <2>6, FileInv
<1>8. QED
  BY <1>5, <1>6, <1>7

-----------------------------------------------------------------------------
(* Steps of the storage *)

\* The write of a job moves on: what it does to the vault is what its job expects.
LEMMA WriteStepKeeps ==
    ASSUME FileLock, CommandInv, NEW p \in Procs, WriteStep(p), UNCHANGED <<job, interrupted, outVars>>
    PROVE  CommandInv'
<1>0. /\ write[p] # NoWrite /\ write[p] \in Write /\ TempAsFar(write[p])
      /\ Active(p) /\ job[p].stage \in {"penalty", "pardon", "save"}
  BY InvType DEF CommandInv, JobInv, StorageInv, TempsAsFar, WriteStep, At, CreateTemp, WriteAll,
                 SyncAll, WriteFails, Rename, SyncDir
<1>1. StorageInv'
  BY WriteStepInv DEF CommandInv
<1>2. job' = [job EXCEPT ![p] = job[p]] /\ job[p] \in Job
  BY <1>0, InvType DEF Active
<1>3. ASSUME NEW stage \in WriteStages, NEW temp \in File \cup {NoFile}, Advance(p, stage, temp)
      PROVE  \E w \in Write : /\ write' = [write EXCEPT ![p] = w] /\ write'[p] = w /\ w # NoWrite
                              /\ w.stage = stage /\ w.image = write[p].image
  <2>1. PICK w \in Write : /\ write' = [write EXCEPT ![p] = w]
                           /\ w.stage = stage /\ w.image = write[p].image
    BY <1>0, <1>3, Advanced DEF CommandInv
  <2>2. QED
    BY <2>1, InvType, StorageAssumption
<1>4. ASSUME NEW w \in Write, w # NoWrite, w.image = write[p].image,
             write' = [write EXCEPT ![p] = w], UNCHANGED <<vault, settled, holders>>,
             Pending(w) <=> Pending(write[p])
      PROVE  CommandInv'
  <2>1. JobInv(p)'
    BY <1>0, <1>4, InvType DEF CommandInv, JobInv, Active, ProviderJob, FromFile, OwnerJob, outVars,
                               fileVars
  <2>2. OutsideOK' /\ minted <= minted'
    BY InvType DEF OutsideOK, outVars, fileVars
  <2>3. w.image.seed <= minted' /\ EmptyOrShown(w.image)
    BY <1>0, <1>4 DEF CommandInv, SeedsDrawn, UnshownEmpty, outVars
  <2>4. QED
    BY <1>1, <1>2, <1>4, <2>1, <2>2, <2>3, JobMoves DEF outVars
<1>5. ASSUME NEW w \in Write, w # NoWrite, write'[p] = w, w.image = write[p].image,
             write' = [write EXCEPT ![p] = w],
             vault' # NoFile /\ (vault = NoFile \/ vault'.data.seed = vault.data.seed),
             vault'.data.seed <= minted,
             \A f \in settled' : f \in settled \/ f = vault',
             vault = NoFile => \A f \in settled' : f # NoFile => f = vault',
             EmptyOrShown(vault'.data),
             JobInv(p)'
      PROVE  CommandInv'
  <2>1. \A q \in Procs : JobInv(q)'
    BY <1>0, <1>2, <1>5, InvType, OthersKeep
  <2>2. TypeOK'
    BY <1>1, InvType DEF TypeOK, OutsideOK, StorageInv, outVars, fileVars
  <2>3. SameVault'
    BY <1>5 DEF CommandInv, SameVault
  <2>4. \A q \in Procs : write'[q] # NoWrite => q = p /\ write'[q].image = write[p].image
    BY <1>0, <1>5, InvType, OthersRest
  <2>5. SeedsDrawn' /\ FileShown'
    BY <1>0, <1>5, <2>4 DEF CommandInv, SeedsDrawn, FileShown, ShownOnly, outVars, fileVars
  <2>6. UnshownEmpty'
    BY <1>0, <1>5, <2>4 DEF CommandInv, UnshownEmpty, EmptyOrShown, outVars
  <2>7. QED
    BY <1>1, <2>1, <2>2, <2>3, <2>5, <2>6 DEF CommandInv
<1>6. CASE CreateTemp(p) \/ WriteAll(p) \/ SyncAll(p) \/ WriteFails(p)
  <2>1. PICK stage \in {"write", "sync", "rename", "failed"}, temp \in File \cup {NoFile} :
            Advance(p, stage, temp)
    BY <1>0, <1>6 DEF CreateTemp, WriteAll, SyncAll, WriteFails, At, TempAsFar, File, Write
  <2>2. PICK w \in Write : write' = [write EXCEPT ![p] = w] /\ w # NoWrite
                           /\ w.stage = stage /\ w.image = write[p].image
    BY <1>3, <2>1 DEF WriteStages
  <2>3. UNCHANGED <<vault, settled, holders>> /\ Pending(w) /\ Pending(write[p])
    BY <1>6, <2>2 DEF CreateTemp, WriteAll, SyncAll, WriteFails, At, Pending
  <2>4. QED
    BY <1>4, <2>2, <2>3
<1>7. CASE SyncDir(p)
  <2>1. PICK w \in Write : /\ write' = [write EXCEPT ![p] = w] /\ write'[p] = w /\ w # NoWrite
                           /\ w.stage = "ok" /\ w.image = write[p].image
    BY <1>3, <1>7 DEF SyncDir, WriteStages
  <2>2. vault' = vault /\ holders' = holders /\ settled' \in {settled, {vault}}
        /\ ~Pending(w) /\ ~Pending(write[p])
    BY <1>7, <2>1 DEF SyncDir, At, Pending
  <2>3. vault # NoFile
    BY <1>0, <2>2 DEF CommandInv, JobInv, ProviderJob, OwnerJob
  <2>4. vault.data.seed <= minted /\ EmptyOrShown(vault.data)
    BY <2>3, InvType DEF CommandInv, SeedsDrawn, UnshownEmpty
  <2>5. JobInv(p)'
    BY <1>0, <2>1, <2>2, InvType DEF CommandInv, JobInv, Active, ProviderJob, FromFile, OwnerJob,
                                     outVars, fileVars
  <2>6. \A f \in settled' : f \in settled \/ f = vault'
    BY <2>2
  <2>7. QED
    BY <1>5, <2>1, <2>2, <2>3, <2>4, <2>5, <2>6
<1>8. CASE Rename(p)
  <2> DEFINE image == write[p].image
  <2>1. PICK w \in Write : /\ write' = [write EXCEPT ![p] = w] /\ write'[p] = w /\ w # NoWrite
                           /\ w.stage = "syncdir" /\ w.image = image
    BY <1>3, <1>8 DEF Rename, WriteStages
  <2>2. /\ vault' \in File /\ vault' # NoFile /\ vault'.data = image
        /\ settled' = settled \cup {vault'} /\ holders' = holders
        /\ ~Pending(w) /\ Pending(write[p])
    BY <1>0, <1>8, <2>1, StorageAssumption DEF Rename, At, TempAsFar, Pending
  <2>3. vault = NoFile \/ image.seed = vault.data.seed
    BY <1>0, <2>2 DEF CommandInv, JobInv, ProviderJob, OwnerJob, Edited
  <2>4. vault = NoFile => \A f \in settled : f = NoFile
    BY DEF CommandInv, SameVault
  <2>5. image.seed <= minted /\ EmptyOrShown(image)
    BY <1>0 DEF CommandInv, SeedsDrawn, UnshownEmpty
  <2> HIDE DEF image
  <2>6. JobInv(p)'
    <3>1. CASE job[p].cmd \in Providers
      BY <1>0, <2>1, <2>2, <3>1 DEF CommandInv, JobInv, Active, ProviderJob, FromFile, outVars,
                                    fileVars, image
    <3>2. CASE job[p].cmd \notin Providers
      BY <1>0, <2>1, <2>2, <2>3, <3>2 DEF CommandInv, JobInv, Active, OwnerJob, Edited, outVars, image
    <3>3. QED
      BY <3>1, <3>2
  <2>7. QED
    BY <1>5, <2>1, <2>2, <2>3, <2>4, <2>5, <2>6 DEF image
<1>9. QED
  BY <1>6, <1>7, <1>8 DEF WriteStep

-----------------------------------------------------------------------------
(* The world around it *)

\* The directory and the clipboard tell nothing about the vault.
LEMMA MakeDirInv == ASSUME CommandInv, MakeDir \/ CopyOther PROVE CommandInv'
<1>1. StorageInv'
  BY StorageNextInv DEF MakeDir, CopyOther, CommandInv
<1>2. TypeOK'
  BY <1>1, InvType DEF MakeDir, CopyOther, TypeOK, OutsideOK, StorageInv, fileVars
<1>3. \A p \in Procs : JobInv(p)'
  BY DEF MakeDir, CopyOther, CommandInv, JobInv, Active, ProviderJob, FromFile, OwnerJob,
         storageVars, fileVars
<1>4. SameVault' /\ SeedsDrawn' /\ FileShown' /\ UnshownEmpty'
  BY DEF MakeDir, CopyOther, CommandInv, SameVault, SeedsDrawn, FileShown, ShownOnly, UnshownEmpty,
         EmptyOrShown, storageVars, fileVars
<1>5. QED
  BY <1>1, <1>2, <1>3, <1>4 DEF CommandInv

\* The kernel writes both files back.
LEMMA KernelFlushInv == ASSUME CommandInv, KernelFlush PROVE CommandInv'
<1> DEFINE new == [file EXCEPT !.stable = file.data]
<1>1. /\ settled' = {vault} /\ vault' = vault /\ write' = write /\ holders' = holders
      /\ UNCHANGED <<job, interrupted, dir, minted, shown, clip>>
      /\ fileSettled' = {file'}
      /\ file = NoFile => file' = NoFile
      /\ file # NoFile => file' = new
  BY DEF KernelFlush, FlushDir
<1>2. file # NoFile => /\ file \in RecoveryFile /\ new \in RecoveryFile /\ new # NoFile
                       /\ new.data = file.data /\ new.stable = file.data
  <2>1. file # NoFile => file \in RecoveryFile
    BY InvType DEF OutsideOK
  <2>2. QED
    BY <2>1, CommandAssumption DEF RecoveryFile
<1> HIDE DEF new
<1>3. StorageInv'
  BY StorageWorldInv DEF KernelFlush, CommandInv
<1>4. TypeOK'
  BY <1>1, <1>2, <1>3, InvType DEF TypeOK, OutsideOK, StorageInv
<1>5. \A p \in Procs : JobInv(p)'
  BY <1>1, <1>2 DEF CommandInv, JobInv, Active, ProviderJob, FromFile, OwnerJob
<1>6. SameVault' /\ SeedsDrawn' /\ FileShown'
  BY <1>1, <1>2 DEF CommandInv, SameVault, SeedsDrawn, FileShown, ShownOnly
<1>7. UnshownEmpty'
  BY <1>1, InvType DEF CommandInv, UnshownEmpty, EmptyOrShown
<1>8. QED
  BY <1>3, <1>4, <1>5, <1>6, <1>7 DEF CommandInv

\* Somebody's file is where the recovery file was to go.
LEMMA OtherFileInv == ASSUME CommandInv, OtherFile PROVE CommandInv'
<1>1. /\ file = NoFile /\ UNCHANGED <<storageVars, job, interrupted, dir, minted, shown, clip>>
      /\ file' = [data |-> Torn, stable |-> Torn] /\ fileSettled' = fileSettled \cup {file'}
  BY DEF OtherFile
<1>2. file' \in RecoveryFile /\ file' # NoFile /\ file'.data = Torn /\ file'.stable = Torn
  BY <1>1, CommandAssumption DEF RecoveryFile
<1>3. StorageInv'
  BY <1>1, StorageNextInv DEF CommandInv
<1>4. TypeOK'
  BY <1>1, <1>2, <1>3, InvType DEF TypeOK, OutsideOK, StorageInv
<1>5. \A p \in Procs : JobInv(p)'
  BY <1>1, <1>2 DEF CommandInv, JobInv, Active, ProviderJob, FromFile, OwnerJob, storageVars
<1>6. SameVault' /\ SeedsDrawn' /\ FileShown'
  BY <1>1, <1>2 DEF CommandInv, SameVault, SeedsDrawn, FileShown, ShownOnly, storageVars
<1>7. UnshownEmpty'
  BY <1>1 DEF CommandInv, UnshownEmpty, EmptyOrShown, storageVars
<1>8. QED
  BY <1>3, <1>4, <1>5, <1>6, <1>7 DEF CommandInv

\* The user gives up the vault, or the recovery file.
LEMMA GiveUpInv == ASSUME CommandInv, LoseVault \/ DeleteFile PROVE CommandInv'
<1>0. /\ \A p \in Procs : ~Active(p) /\ write[p] = NoWrite
      /\ settled = {vault} /\ fileSettled = {Survivor(file)} /\ file \in fileSettled
      /\ UNCHANGED <<job, interrupted, dir, minted, shown, clip, write>>
  BY DEF LoseVault, DeleteFile, AtRest, OnStableStorage, CommandInv, JobInv, Active, FileShown,
         TakeAway, outVars, storageVars
<1>1. \A p \in Procs : JobInv(p)'
  BY <1>0 DEF JobInv, Active
<1>2. CASE LoseVault
  <2>1. vault' = NoFile /\ settled' = {NoFile} /\ UNCHANGED fileVars
    BY <1>2 DEF LoseVault, TakeAway, outVars
  <2>2. StorageInv'
    BY <1>2, StorageWorldInv DEF LoseVault, CommandInv
  <2>3. TypeOK'
    BY <1>0, <2>1, <2>2, InvType DEF TypeOK, OutsideOK, StorageInv, fileVars
  <2>4. SameVault' /\ SeedsDrawn' /\ FileShown' /\ UnshownEmpty'
    BY <1>0, <2>1 DEF CommandInv, SameVault, SeedsDrawn, FileShown, ShownOnly, UnshownEmpty, fileVars
  <2>5. QED
    BY <1>1, <2>2, <2>3, <2>4 DEF CommandInv
<1>3. CASE DeleteFile
  <2>1. UNCHANGED storageVars /\ file' = NoFile /\ fileSettled' = {NoFile}
    BY <1>3 DEF DeleteFile
  <2>2. StorageInv'
    BY <2>1, StorageNextInv DEF CommandInv
  <2>3. TypeOK'
    BY <1>0, <2>1, <2>2, InvType DEF TypeOK, OutsideOK, StorageInv
  <2>4. SameVault' /\ SeedsDrawn' /\ FileShown' /\ UnshownEmpty'
    BY <1>0, <2>1 DEF CommandInv, SameVault, SeedsDrawn, FileShown, UnshownEmpty, EmptyOrShown,
                      storageVars
  <2>5. QED
    BY <1>1, <2>2, <2>3, <2>4 DEF CommandInv
<1>4. QED
  BY <1>2, <1>3

\* A power loss leaves an older state of the same vault and of the recovery file.
LEMMA PowerLossInv == ASSUME CommandInv, PowerLoss PROVE CommandInv'
<1>1. PICK f \in settled : vault' = Survivor(f)
  BY DEF PowerLoss, StoragePowerLoss
<1>2. PICK g \in fileSettled : file' = Survivor(g)
  BY DEF PowerLoss
<1>3. /\ job' = [p \in Procs |-> NoJob] /\ write' = [p \in Procs |-> NoWrite]
      /\ settled' = {vault'} /\ fileSettled' = {file'} /\ interrupted' = {} /\ clip' = "other"
      /\ UNCHANGED <<dir, minted, shown>>
  BY DEF PowerLoss, StoragePowerLoss
<1>4. vault' = f
  BY <1>1, InvType, WholeSurvives
<1>5. /\ file' \in RecoveryFile \cup {NoFile}
      /\ g = NoFile => file' = NoFile
      /\ g # NoFile => /\ file' # NoFile /\ file'.data = g.stable /\ file'.stable = g.stable
  <2>1. CASE g = NoFile
    BY <1>2, <2>1 DEF Survivor
  <2>2. CASE g # NoFile
    <3>1. g \in RecoveryFile /\ file' = [data |-> g.stable, stable |-> g.stable]
      BY <1>2, <2>2, InvType DEF OutsideOK, Survivor
    <3>2. file' \in RecoveryFile
      BY <3>1 DEF RecoveryFile
    <3>3. QED
      BY <2>2, <3>1, <3>2, CommandAssumption
  <2>3. QED
    BY <2>1, <2>2
<1>6. StorageInv'
  BY StorageWorldInv DEF PowerLoss, CommandInv
<1>7. TypeOK'
  BY <1>3, <1>5, <1>6, InvType DEF TypeOK, OutsideOK, StorageInv
<1>8. \A p \in Procs : JobInv(p)'
  BY <1>3 DEF JobInv, Active
<1>9. SameVault'
  BY <1>3 DEF SameVault
<1>10. SeedsDrawn'
  BY <1>3, <1>4, <1>5 DEF CommandInv, SameVault, SeedsDrawn
<1>11. FileShown'
  BY <1>3, <1>5 DEF CommandInv, FileShown, ShownOnly
<1>12. UnshownEmpty'
  BY <1>3, <1>4 DEF CommandInv, UnshownEmpty, EmptyOrShown
<1>13. QED
  BY <1>6, <1>7, <1>8, <1>9, <1>10, <1>11, <1>12 DEF CommandInv

-----------------------------------------------------------------------------
(* The invariant *)

\* Every step of a command preserves the invariant.
LEMMA JobStepInv ==
    ASSUME FileLock, CommandInv, NEW p \in Procs, JobStep(p) PROVE CommandInv'
<1>1. CASE \E cmd \in Commands, label \in Labels \cup {NoLabel} : OpenApp(p, cmd, label)
  BY <1>1, OpenInv
<1>2. CASE \/ NoLockFile(p) \/ AlreadyRunning(p)
           \/ Refused(p) \/ PathTaken(p) \/ UnlockRefused(p)
           \/ NotFound(p) \/ CommandRefused(p) \/ PrintEntries(p)
           \/ FileTaken(p) \/ FileFails(p) \/ NotOurs(p)
  BY <1>2, QuietSteps
<1>3. CASE Checked(p) \/ UnlockClean(p) \/ Copy(p) \/ Wait(p) \/ Cleared(p)
  BY <1>3, MoveSteps
<1>4. CASE Add(p) \/ Rm(p) \/ Export(p) \/ \E pw \in Passwords : Passwd(p, pw)
  BY <1>4, EditSaves
<1>5. CASE UnlockBad(p) \/ UnlockCounted(p)
  BY <1>5, HeaderSaves
<1>6. CASE Import(p) \/ \E pw \in Passwords : InitVault(p, pw)
  BY <1>6, ProviderSaves
<1>7. CASE Penalised(p) \/ Pardoned(p) \/ Saved(p) \/ NotSaved(p)
  BY <1>7, ReturnSteps
<1>8. CASE PrintUri(p)
  BY <1>8, PrintInv
<1>9. CASE CreateFile(p) \/ WriteFile(p) \/ SyncFile(p)
  BY <1>9, FileSteps
<1>10. QED
  BY <1>1, <1>2, <1>3, <1>4, <1>5, <1>6, <1>7, <1>8, <1>9 DEF JobStep

\* Every step of the system, the world's included, preserves the invariant.
LEMMA CommandNextInv == ASSUME FileLock PROVE CommandInv /\ [Next]_vars => CommandInv'
<1> SUFFICES ASSUME CommandInv, [Next]_vars PROVE CommandInv'
  OBVIOUS
<1>1. ASSUME NEW p \in Procs,
             \/ JobStep(p)
             \/ WriteStep(p) /\ UNCHANGED <<job, interrupted, outVars>>
             \/ Reap(p) \/ Kill(p) \/ Signal(p)
      PROVE  CommandInv'
  BY <1>1, JobStepInv, WriteStepKeeps, EndInv, MoveSteps
<1>2. CASE \/ MakeDir \/ CopyOther \/ KernelFlush \/ OtherFile \/ LoseVault \/ DeleteFile
           \/ PowerLoss
  BY <1>2, MakeDirInv, KernelFlushInv, OtherFileInv, GiveUpInv, PowerLossInv
<1>3. CASE UNCHANGED vars
  <2>1. StorageInv'
    BY <1>3, StorageNextInv DEF vars, CommandInv
  <2>2. QED
    BY <1>3, <2>1 DEF vars, storageVars, outVars, fileVars, CommandInv, TypeOK, StorageTypeOK, JobInv,
          Active, ProviderJob, FromFile, OwnerJob, SameVault, SeedsDrawn, FileShown, ShownOnly,
          UnshownEmpty, EmptyOrShown
<1>4. QED
  BY <1>1, <1>2, <1>3 DEF Next

\* What each command relies on between its steps holds wherever the others, the kernel
\* or the user interfere (commands.rs; storage.rs InstanceLock).
THEOREM CommandInvariant == ASSUME FileLock PROVE Spec => []CommandInv
<1>1. Init => CommandInv
  BY CommandInit
<1>2. CommandInv /\ [Next]_vars => CommandInv'
  BY CommandNextInv
<1>3. QED
  BY <1>1, <1>2, PTL DEF Spec

-----------------------------------------------------------------------------
(* What the commands guarantee *)

\* Every write of the vault by a command is one that VaultStorage allows: it is made by
\* a process that holds the instance lock, and a job that ends has no write underway.
LEMMA StorageSteps ==
    ASSUME FileLock, CommandInv, [Next]_vars PROVE [StorageNext]_storageVars
<1>1. ASSUME NEW p \in Procs, NEW image \in Images, StartWrite(p, image), Active(p),
             UNCHANGED <<vault, settled, holders>>
      PROVE  StorageNext
  BY <1>1 DEF StorageNext, CommandInv, JobInv
<1>2. ASSUME NEW p \in Procs, Add(p) \/ Rm(p) \/ Export(p) \/ \E pw \in Passwords : Passwd(p, pw)
      PROVE  StorageNext
  <2>1. In(p, "session") /\ Active(p) /\ job[p].cmd \in {"add", "rm", "export", "passwd"}
    BY <1>2 DEF Add, Rm, Export, Passwd, Doing, Runs, In, Active
  <2>2. PICK image : Save(p, "save", image)
    BY <1>2 DEF Add, Rm, Export, Passwd, Edit
  <2>3. CommandInv'
    BY <1>2, EditSaves
  <2>4. image \in Images
    <3>1. write' = [write EXCEPT ![p] = [stage |-> "create", image |-> image, temp |-> NoFile]]
      BY <2>2 DEF Save, StartWrite
    <3>2. write'[p] = [stage |-> "create", image |-> image, temp |-> NoFile]
      BY <3>1, InvType
    <3>3. write' \in [Procs -> Write \cup {NoWrite}]
      BY <2>3 DEF CommandInv, StorageInv, StorageTypeOK
    <3>4. write'[p] # NoWrite
      <4>1. job'[p].stage = "save" /\ job'[p] # NoJob
        BY <2>1, <2>2, StageOf, InvType DEF Save, Stages, In
      <4>2. QED
        BY <2>3, <4>1 DEF CommandInv, JobInv, Active
    <3>5. write'[p] \in Write
      BY <3>3, <3>4
    <3>6. QED
      BY <3>2, <3>5 DEF Write
  <2>5. QED
    BY <1>1, <2>1, <2>2, <2>4 DEF Save
<1>3. ASSUME NEW p \in Procs, UnlockBad(p) \/ UnlockCounted(p) PROVE StorageNext
  BY <1>1, <1>3, VaultImage, CommandAssumption
     DEF UnlockBad, UnlockCounted, Readable, Save, In, Active
<1>4. ASSUME NEW p \in Procs, NEW seed \in Seeds, NEW pw \in Passwords, NEW entries \in Entries,
             In(p, "session"), Provide(p, seed, pw, entries)
      PROVE  StorageNext
  <2>1. [seed |-> seed, pw |-> pw, entries |-> entries, exported |-> FALSE] \in Images
    BY <1>4, CommandAssumption DEF Image
  <2>2. QED
    BY <1>1, <1>4, <2>1 DEF Provide, In, Active
<1>5. ASSUME NEW p \in Procs, Import(p) \/ \E pw \in Passwords : InitVault(p, pw)
      PROVE  StorageNext
  <2>1. NoEntries \in Entries
    BY CommandAssumption DEF NoEntries, Entries
  <2>2. ASSUME NEW pw \in Passwords, InitVault(p, pw) PROVE StorageNext
    <3>1. minted' \in Seeds
      BY <2>2, InvType, CommandAssumption DEF InitVault, OutsideOK, Seeds
    <3>2. QED
      BY <1>4, <2>1, <2>2, <3>1 DEF InitVault, Doing
  <2>3. CASE Import(p)
    BY <1>4, <2>3, FileContents DEF Import, Doing
  <2>4. QED
    BY <1>5, <2>2, <2>3
<1>6. ASSUME NEW p \in Procs, Penalised(p) \/ Pardoned(p) \/ Saved(p) \/ NotSaved(p)
      PROVE  StorageNext
  BY <1>6 DEF Penalised, Pardoned, Saved, NotSaved, StorageNext
<1>7. ASSUME NEW p \in Procs, Reap(p) \/ Kill(p) PROVE StorageNext
  <2>1. StorageCrash(p)
    BY <1>7, InvType DEF Reap, Kill, StorageCrash, CommandInv, JobInv, Active, In
  <2>2. QED
    BY <2>1 DEF StorageNext
<1>8. ASSUME NEW p \in Procs, NEW cmd \in Commands, NEW label \in Labels \cup {NoLabel},
             OpenApp(p, cmd, label)
      PROVE  StorageNext
  BY <1>8 DEF OpenApp, StorageNext
<1>9. ASSUME NEW p \in Procs, JobStep(p) PROVE [StorageNext]_storageVars
  <2>1. CASE \/ NoLockFile(p) \/ AlreadyRunning(p)
             \/ Refused(p) \/ PathTaken(p) \/ UnlockRefused(p)
             \/ NotFound(p) \/ CommandRefused(p) \/ PrintEntries(p)
             \/ FileTaken(p) \/ FileFails(p) \/ NotOurs(p)
    BY <2>1 DEF NoLockFile, AlreadyRunning, AtOnce, Refused, PathTaken, UnlockRefused, NotFound,
                CommandRefused, PrintEntries, FileTaken, FileFails, NotOurs, Fail
  <2>2. CASE \/ Checked(p) \/ UnlockClean(p) \/ PrintUri(p) \/ CreateFile(p) \/ WriteFile(p)
             \/ SyncFile(p) \/ Copy(p) \/ Wait(p) \/ Cleared(p)
    BY <2>2 DEF Checked, UnlockClean, PrintUri, CreateFile, WriteFile, SyncFile, FileUnchanged, Copy,
                Wait, Cleared, ClipUnchanged
  <2>3. QED
    BY <1>2, <1>3, <1>5, <1>6, <1>8, <1>9, <2>1, <2>2 DEF JobStep
<1>10. CASE \/ MakeDir \/ CopyOther \/ KernelFlush \/ OtherFile \/ LoseVault \/ DeleteFile
            \/ PowerLoss
  BY <1>10 DEF MakeDir, CopyOther, KernelFlush, OtherFile, LoseVault, DeleteFile, PowerLoss, StorageNext
<1>11. ASSUME NEW p \in Procs, WriteStep(p) \/ Signal(p) PROVE [StorageNext]_storageVars
  BY <1>11 DEF Signal, StorageNext
<1>12. QED
  BY <1>7, <1>9, <1>10, <1>11 DEF Next, vars

\* Whatever two commands do at once and wherever one is killed, the vault file is the
\* register of AtomicFile (storage.rs atomic_write under commands.rs).
THEOREM CommandAtomic == ASSUME FileLock PROVE Spec => VaultFileAtomic
<1>1. Init => Register!Init
  BY RegisterInit DEF Init
<1>2. CommandInv /\ CommandInv' /\ [Next]_vars => [Register!Next]_(Register!vars)
  BY StorageSteps, RegisterStep DEF CommandInv
<1>3. Spec => []CommandInv
  BY CommandInvariant
<1>4. QED
  BY <1>1, <1>2, <1>3, PTL DEF Spec, VaultFileAtomic, Register!Spec

\* The variables of the command keep their types.
THEOREM CommandTypes == ASSUME FileLock PROVE Spec => []TypeOK
<1>1. CommandInv => TypeOK
  BY DEF CommandInv
<1>2. Spec => []CommandInv
  BY CommandInvariant
<1>3. QED
  BY <1>1, <1>2, PTL

\* An entry is never behind a TOTP secret that nobody was shown, although init and import
\* print it only after the vault is written (cmd_init, cmd_import, App::import_recovery).
THEOREM UnshownNotLost == ASSUME FileLock PROVE Spec => []NothingLostUnshown
<1>1. CommandInv => NothingLostUnshown
  BY InvType DEF CommandInv, UnshownEmpty, EmptyOrShown, NothingLostUnshown, Readable
<1>2. Spec => []CommandInv
  BY CommandInvariant
<1>3. QED
  BY <1>1, <1>2, PTL

\* The vault the path names changes by a rename, a removal or a power loss only.
LEMMA VaultMoves ==
    ASSUME [Next]_vars
    PROVE  \/ vault' = vault \/ vault' = NoFile
           \/ \E p \in Procs : Rename(p)
           \/ PowerLoss
<1>1. ASSUME NEW p \in Procs, JobStep(p) PROVE UNCHANGED vault
  BY <1>1 DEF JobStep, NoLockFile, AlreadyRunning, AtOnce, OpenApp, Refused, PathTaken, Checked,
         UnlockRefused, UnlockBad, Penalised, UnlockClean, UnlockCounted, Pardoned, NotFound,
         CommandRefused, PrintEntries, Add, Rm, Edit, Passwd, InitVault, Provide, Import, Export,
         Saved, NotSaved, PrintUri, CreateFile, FileTaken, WriteFile, SyncFile, FileFails, Copy, Wait,
         Cleared, NotOurs, ClipUnchanged, FileUnchanged, Fail, Save, storageVars
<1>2. ASSUME NEW p \in Procs, WriteStep(p), ~Rename(p) PROVE UNCHANGED vault
  BY <1>2 DEF WriteStep, CreateTemp, WriteAll, SyncAll, WriteFails, SyncDir
<1>3. ASSUME NEW p \in Procs, Reap(p) \/ Kill(p) \/ Signal(p) PROVE UNCHANGED vault
  BY <1>3 DEF Reap, Kill, Signal, StorageCrash, storageVars
<1>4. CASE MakeDir \/ CopyOther \/ KernelFlush \/ OtherFile \/ DeleteFile \/ UNCHANGED vars
  BY <1>4 DEF MakeDir, CopyOther, KernelFlush, OtherFile, DeleteFile, FlushDir, storageVars, vars
<1>5. LoseVault => vault' = NoFile
  BY DEF LoseVault, TakeAway
<1>6. QED
  BY <1>1, <1>2, <1>3, <1>4, <1>5 DEF Next

\* A rename puts in place what the write's job expects there.
LEMMA RenameSteps ==
    ASSUME CommandInv, NEW p \in Procs, Rename(p)
    PROVE  /\ Active(p) /\ job[p].stage \in {"penalty", "pardon", "save"} /\ Pending(write[p])
           /\ JobInv(p)
           /\ vault' # NoFile /\ vault'.data = write[p].image
           /\ vault = NoFile \/ vault'.data.seed = vault.data.seed
<1>1. /\ write[p] # NoWrite /\ write[p] \in Write /\ TempAsFar(write[p])
      /\ Active(p) /\ job[p].stage \in {"penalty", "pardon", "save"} /\ Pending(write[p])
      /\ JobInv(p)
  BY InvType DEF CommandInv, JobInv, StorageInv, TempsAsFar, At, Rename, Pending
<1>2. vault' # NoFile /\ vault'.data = write[p].image
  BY <1>1, StorageAssumption DEF Rename, At, TempAsFar
<1>3. vault = NoFile \/ write[p].image.seed = vault.data.seed
  BY <1>1 DEF JobInv, ProviderJob, OwnerJob, Edited
<1>4. QED
  BY <1>1, <1>2, <1>3

\* No init or import replaces a vault, whatever two processes do at once and wherever one
\* is killed (cmd_init, cmd_import).
THEOREM VaultKept == ASSUME FileLock PROVE Spec => NeverReplaced
<1>1. ASSUME CommandInv, [Next]_vars, Readable, Readable' PROVE vault'.data.seed = vault.data.seed
  <2>1. CASE PowerLoss
    <3>1. PICK f \in settled : vault' = Survivor(f)
      BY <2>1 DEF PowerLoss, StoragePowerLoss
    <3>2. vault' = f
      BY <1>1, <3>1, InvType, WholeSurvives
    <3>3. QED
      BY <1>1, <3>2 DEF CommandInv, SameVault, Readable
  <2>2. QED
    BY <1>1, <2>1, VaultMoves, RenameSteps DEF Readable
<1>2. Spec => []CommandInv
  BY CommandInvariant
<1>3. ASSUME CommandInv, NEW p \in Procs, Runs(p, Providers), Rename(p) PROVE vault = NoFile
  BY <1>3, RenameSteps DEF Runs, JobInv, ProviderJob
<1>4. CommandInv /\ [Next]_vars
      => [/\ Readable /\ Readable' => vault'.data.seed = vault.data.seed
          /\ \A p \in Procs : Runs(p, Providers) /\ Rename(p) => vault = NoFile]_vars
  BY <1>1, <1>3
<1>5. QED
  BY <1>2, <1>4, PTL DEF Spec, NeverReplaced

\* The contents of the recovery file change only by the export that writes it.
LEMMA FileMoves ==
    ASSUME CommandInv, [Next]_vars, ~PowerLoss
    PROVE  \/ file' = NoFile
           \/ file' # NoFile /\ file'.data = Torn
           \/ file # NoFile /\ file'.data = file.data
           \/ \E p \in Procs : WriteFile(p)
<1> SUFFICES ASSUME ~\E p \in Procs : WriteFile(p), file' # NoFile, file'.data # Torn
             PROVE  file # NoFile /\ file'.data = file.data
  BY CommandAssumption, StorageAssumption DEF RecoveryFile
<1>1. CASE UNCHANGED file
  BY <1>1
<1>2. CASE file' = [data |-> Torn, stable |-> Torn]
  BY <1>2
<1>3. ASSUME NEW p \in Procs, SyncFile(p) PROVE file # NoFile /\ file'.data = file.data
  <2>1. file # NoFile /\ file' = [file EXCEPT !.stable = file.data]
    BY <1>3 DEF SyncFile, FileBecomes, In, CommandInv, JobInv, Active, OwnerJob, ProviderJob
  <2>2. QED
    BY <2>1, InvType DEF OutsideOK, RecoveryFile
<1>4. CASE KernelFlush
  <2>1. file # NoFile /\ file' = [file EXCEPT !.stable = file.data]
    BY <1>4 DEF KernelFlush
  <2>2. QED
    BY <2>1, InvType DEF OutsideOK, RecoveryFile
<1>5. CASE DeleteFile
  BY <1>5 DEF DeleteFile
<1>6. ASSUME NEW p \in Procs, JobStep(p), ~SyncFile(p), ~CreateFile(p) PROVE UNCHANGED file
  BY <1>6 DEF JobStep, NoLockFile, AlreadyRunning, AtOnce, OpenApp, Refused, PathTaken, Checked,
         UnlockRefused, UnlockBad, Penalised, UnlockClean, UnlockCounted, Pardoned, NotFound,
         CommandRefused, PrintEntries, Add, Rm, Edit, Passwd, InitVault, Provide, Import, Export,
         Saved, NotSaved, PrintUri, FileTaken, FileFails, Copy, Wait, Cleared, NotOurs, ClipUnchanged,
         Fail, Save, outVars, fileVars
<1>7. ASSUME NEW p \in Procs, \/ WriteStep(p) /\ UNCHANGED <<job, interrupted, outVars>>
                              \/ Reap(p) \/ Kill(p) \/ Signal(p)
      PROVE  UNCHANGED file
  BY <1>7 DEF Reap, Kill, Signal, outVars, fileVars
<1>8. CASE MakeDir \/ CopyOther \/ LoseVault \/ UNCHANGED vars
  BY <1>1, <1>8 DEF MakeDir, CopyOther, LoseVault, vars, outVars, fileVars
<1>9. QED
  BY <1>1, <1>2, <1>3, <1>4, <1>5, <1>6, <1>7, <1>8 DEF Next, CreateFile, OtherFile

\* The vault knows of every recovery file a command makes from it, and while it is there no
\* command makes it forget one (cmd_export, export_recovery).
THEOREM ExportsRecorded == ASSUME FileLock PROVE Spec => ExportRecorded
<1>1. ASSUME CommandInv, CommandInv', [Next]_vars, Readable, Known, Readable', ~PowerLoss
      PROVE  Known'
  <2> SUFFICES ASSUME vault' # NoFile, file' # NoFile, file'.data # Torn,
                      file'.data.seed = vault'.data.seed
               PROVE  vault'.data.exported
    BY <1>1 DEF Known, Readable
  <2>1. CASE \E p \in Procs : WriteFile(p)
    <3>1. PICK p \in Procs : WriteFile(p)
      BY <2>1
    <3>2. vault' = vault /\ vault.data.exported
      BY <1>1, <3>1 DEF WriteFile, FileUnchanged, storageVars, In, CommandInv, JobInv, Active,
                        OwnerJob, ProviderJob
    <3>3. QED
      BY <3>2
  <2>2. CASE ~\E p \in Procs : WriteFile(p)
    <3>1. file # NoFile /\ file'.data = file.data
      BY <1>1, <2>2, FileMoves
    <3>2. CASE vault' = vault
      BY <1>1, <3>1, <3>2, VaultImage, StorageAssumption, CommandAssumption DEF Known, Readable
    <3>3. ASSUME NEW p \in Procs, Rename(p) PROVE vault'.data.exported
      <4>1. /\ JobInv(p) /\ Active(p) /\ vault'.data = write[p].image /\ Pending(write[p])
            /\ job[p].stage \in {"penalty", "pardon", "save"}
        BY <1>1, <3>3, RenameSteps
      <4>2. OwnerJob(p)
        BY <1>1, <4>1 DEF JobInv, ProviderJob, Readable
      <4>3. vault # NoFile /\ vault.data \in Image
        BY <1>1, <4>1, <4>2, VaultImage DEF OwnerJob
      <4>4. vault.data.exported => write[p].image.exported
        BY <4>1, <4>2 DEF OwnerJob, Edited
      <4>5. vault.data.seed = vault'.data.seed
        BY <1>1, <3>3, <4>3, RenameSteps
      <4>6. QED
        BY <1>1, <3>1, <4>1, <4>3, <4>4, <4>5, StorageAssumption, CommandAssumption DEF Known, Readable
    <3>4. QED
      BY <1>1, <3>2, <3>3, VaultMoves
  <2>3. QED
    BY <2>1, <2>2
<1>2. Spec => []CommandInv
  BY CommandInvariant
<1>3. CommandInv /\ CommandInv' /\ [Next]_vars
      => [Readable /\ Known /\ Readable' /\ ~PowerLoss => Known']_vars
  BY <1>1
<1>4. QED
  BY <1>2, <1>3, PTL DEF Spec, ExportRecorded

\* A job ends with an exit code in these steps only, each a step of its own.
LEMMA WhoExits ==
    ASSUME CommandInv, NEW p \in Procs, [Next]_vars, In(p, "exit")', ~In(p, "exit")
    PROVE  \/ NoLockFile(p) \/ AlreadyRunning(p) \/ Refused(p) \/ PathTaken(p)
           \/ UnlockRefused(p) \/ Penalised(p) \/ NotFound(p) \/ CommandRefused(p)
           \/ PrintEntries(p) \/ NotSaved(p) \/ PrintUri(p)
           \/ Saved(p) /\ Exit(p, 0)
           \/ FileTaken(p) \/ SyncFile(p) \/ FileFails(p) \/ Cleared(p) \/ NotOurs(p)
<1>1. ASSUME NEW stage \in Stages, stage # "exit", job[p] # NoJob, Goto(p, stage) PROVE FALSE
  BY <1>1, StageOf, InvType DEF In
<1>2. ASSUME NEW image, job[p] # NoJob, Session(p, image) PROVE FALSE
  <2>1. job[p] \in Job /\ job'[p] = [[job[p] EXCEPT !.stage = "session"] EXCEPT !.image = image]
    BY <1>2, InvType DEF Session
  <2>2. job'[p].stage = "session"
    BY <2>1 DEF Job
  <2>3. QED
    BY <2>2 DEF In
<1>3. ASSUME NEW stage \in {"penalty", "pardon", "save"}, NEW image, Save(p, stage, image),
             job[p] # NoJob
      PROVE  FALSE
  BY <1>1, <1>3 DEF Save, Stages
<1>4. ASSUME NEW cmd \in Commands, NEW label \in Labels \cup {NoLabel}, OpenApp(p, cmd, label)
      PROVE  FALSE
  BY <1>4, NewJobType, InvType DEF OpenApp, In
<1>5. ~Wait(p)
  <2>1. ASSUME Wait(p) PROVE job'[p].stage = "wait"
    <3>1. job[p] \in Job /\ job'[p] = [job[p] EXCEPT !.ticks = @ + 1]
      BY <2>1, InvType DEF Wait, In
    <3>2. QED
      BY <2>1, <3>1 DEF Job, Wait, In
  <2>2. QED
    BY <2>1 DEF In
<1>6. ~Checked(p) /\ ~UnlockClean(p) /\ ~Pardoned(p) /\ ~CreateFile(p) /\ ~WriteFile(p) /\ ~Copy(p)
  BY <1>1, <1>2 DEF Checked, UnlockClean, Pardoned, CreateFile, WriteFile, Copy, Doing, In, Stages
<1>7. /\ ~UnlockBad(p) /\ ~UnlockCounted(p) /\ ~Add(p) /\ ~Rm(p) /\ ~Export(p)
      /\ \A pw \in Passwords : ~Passwd(p, pw)
  BY <1>3 DEF UnlockBad, UnlockCounted, Add, Rm, Edit, Export, Passwd, Doing, In
<1>8. ~Import(p) /\ \A pw \in Passwords : ~InitVault(p, pw)
  BY <1>1 DEF Import, InitVault, Provide, Doing, In, Stages
<1>9. Saved(p) => Exit(p, 0)
  BY <1>1 DEF Saved, In, Stages
<1>10. ASSUME NEW q \in Procs, q # p PROVE ~JobStep(q) /\ ~Reap(q) /\ ~Kill(q)
  <2>1. \A j : job' # [job EXCEPT ![q] = j]
    BY <1>10, InvType DEF In
  <2>2. ~Reap(q) /\ ~Kill(q)
    BY <2>1 DEF Reap, Kill, Gone
  <2>3. \A stage, code : ~Goto(q, stage) /\ ~Exit(q, code) /\ ~Fail(q, stage, code)
    BY <2>1 DEF Goto, Exit, Fail
  <2>4. \A stage, image : ~Session(q, image) /\ ~Save(q, stage, image)
    <3>1. ASSUME NEW image, Session(q, image) PROVE FALSE
      BY <1>10, <3>1, InvType DEF Session, In
    <3>2. QED
      BY <2>3, <3>1 DEF Save
  <2>5. \A cmd, label : ~OpenApp(q, cmd, label)
    BY <2>1 DEF OpenApp
  <2>6. ~Wait(q)
    BY <2>1 DEF Wait
  <2>7. /\ ~UnlockBad(q) /\ ~UnlockCounted(q) /\ ~Add(q) /\ ~Rm(q) /\ ~Export(q)
        /\ \A pw \in Passwords : ~Passwd(q, pw)
    BY <2>4 DEF UnlockBad, UnlockCounted, Add, Rm, Edit, Export, Passwd
  <2>8. ~Import(q) /\ \A pw \in Passwords : ~InitVault(q, pw)
    BY <2>3 DEF Import, InitVault, Provide
  <2>9. /\ ~NoLockFile(q) /\ ~AlreadyRunning(q) /\ ~Refused(q) /\ ~PathTaken(q) /\ ~UnlockRefused(q)
        /\ ~NotFound(q) /\ ~CommandRefused(q) /\ ~PrintEntries(q) /\ ~FileTaken(q) /\ ~FileFails(q)
        /\ ~NotOurs(q)
    BY <2>3 DEF NoLockFile, AlreadyRunning, AtOnce, Refused, PathTaken, UnlockRefused, NotFound,
                CommandRefused, PrintEntries, FileTaken, FileFails, NotOurs
  <2>10. /\ ~Penalised(q) /\ ~Saved(q) /\ ~NotSaved(q) /\ ~PrintUri(q) /\ ~Checked(q)
         /\ ~CreateFile(q) /\ ~WriteFile(q) /\ ~SyncFile(q) /\ ~Copy(q) /\ ~Cleared(q)
         /\ ~UnlockClean(q) /\ ~Pardoned(q)
    BY <2>3, <2>4 DEF Penalised, Saved, NotSaved, PrintUri, Checked, CreateFile, WriteFile, SyncFile,
                      Copy, Cleared, UnlockClean, Pardoned
  <2>11. QED
    BY <2>2, <2>5, <2>6, <2>7, <2>8, <2>9, <2>10 DEF JobStep
<1>11. ~Reap(p) /\ ~Kill(p)
  BY InvType DEF Reap, Kill, Gone, In
<1>12. job' # job /\ job' # [q \in Procs |-> NoJob]
  BY DEF In
<1>13. JobStep(p)
  BY <1>10, <1>11, <1>12 DEF Next, Signal, MakeDir, CopyOther, KernelFlush, OtherFile, LoseVault,
         DeleteFile, PowerLoss, vars
<1>14. QED
  BY <1>4, <1>5, <1>6, <1>7, <1>8, <1>9, <1>13 DEF JobStep

\* What an edit asks for leaves all but its own part as it was: until it is in place the
\* vault is the session's copy, and then it is what the edit says.
LEMMA SavedOrKept ==
    ASSUME CommandInv, NEW p \in Procs, In(p, "save"), job[p].cmd \notin Providers
    PROVE  /\ Edited(job[p], write[p].image)
           /\ vault.data = IF Pending(write[p]) THEN job[p].image ELSE write[p].image
  BY DEF CommandInv, JobInv, Active, In, OwnerJob

\* What each ending step reports is so.
LEMMA ReportedTruly ==
    ASSUME CommandInv, NEW p \in Procs, [Next]_vars, In(p, "exit")', ~In(p, "exit")
    PROVE  Reported(p, job'[p].code)
<1>0. \A code \in 0 .. 6 : Exit(p, code) => job'[p].code = code
  BY EndedType, InvType DEF Exit
<1>1. ASSUME NEW code \in {1, 6}, AtOnce(p, code) PROVE Reported(p, job'[p].code)
  BY <1>0, <1>1 DEF AtOnce, Reported, Runs
<1>2. ASSUME NEW stage, Fail(p, stage, 1) \/ Fail(p, stage, 4) \/ Fail(p, stage, 5),
             stage \notin {"penalty", "pardon", "save"},
             stage = "session" \/ stage \in {"check", "unlock"} \/ job[p].cmd = "export"
      PROVE  Reported(p, job'[p].code)
  <2>1. job'[p].code \in {1, 4, 5} /\ In(p, stage)
    BY <1>0, <1>2 DEF Fail
  <2>2. ASSUME Runs(p, {"add", "rm", "passwd"}), job[p].image # NoImage
        PROVE  vault.data = job[p].image
    BY <1>2, <2>1, <2>2, InSession DEF In, Runs, CommandInv, JobInv, Active, OwnerJob, Providers
  <2>3. QED
    BY <2>1, <2>2 DEF Reported, SameContents
<1>3. CASE NoLockFile(p) \/ AlreadyRunning(p)
  BY <1>1, <1>3 DEF NoLockFile, AlreadyRunning
<1>4. CASE Refused(p) \/ PathTaken(p) \/ UnlockRefused(p) \/ CommandRefused(p)
  BY <1>2, <1>4 DEF Refused, PathTaken, UnlockRefused, CommandRefused
<1>5. CASE FileTaken(p) \/ FileFails(p)
  <2>1. PICK stage \in {"file", "fileWrite", "fileSync"} : Fail(p, stage, 1)
    BY <1>5 DEF FileTaken, FileFails
  <2>2. job[p].cmd = "export"
    BY <2>1 DEF Fail, In, CommandInv, JobInv, Active, OwnerJob, ProviderJob
  <2>3. QED
    BY <1>2, <2>1, <2>2
<1>6. CASE Penalised(p)
  <2>1. job'[p].code = 4 /\ job[p].image = NoImage
    BY <1>0, <1>6 DEF Penalised, In, CommandInv, JobInv, Active, OwnerJob, ProviderJob
  <2>2. QED
    BY <2>1 DEF Reported
<1>7. CASE NotFound(p)
  <2>1. job'[p].code = 3 /\ job[p].cmd \in {"get", "show", "rm"} /\ In(p, "session")
        /\ job[p].image.entries[job[p].label] = 0
    BY <1>0, <1>7 DEF NotFound, Fail, Runs, Carrying
  <2>2. vault.data = job[p].image
    BY <2>1, InSession DEF Providers
  <2>3. QED
    BY <2>1, <2>2 DEF Reported, SameContents
<1>8. CASE PrintEntries(p) \/ Cleared(p) \/ NotOurs(p)
  <2>1. job'[p].code = 0
    BY <1>0, <1>8 DEF PrintEntries, Cleared, NotOurs, Fail
  <2>2. job[p].cmd \in {"list", "show", "get"}
    BY <1>8 DEF PrintEntries, Cleared, NotOurs, Fail, Doing, Runs, In, CommandInv, JobInv, Active,
                OwnerJob, ProviderJob
  <2>3. QED
    BY <2>1, <2>2 DEF Reported, Succeeds, Providers
<1>9. CASE Saved(p) /\ Exit(p, 0)
  <2>1. job'[p].code = 0 /\ In(p, "save") /\ ~Pending(write[p])
    BY <1>0, <1>9 DEF Saved, Returned, At, Pending
  <2>2. job[p].cmd \notin Providers \cup {"export"}
    <3>1. ASSUME job[p].cmd \in Providers \cup {"export"} PROVE FALSE
      <4>1. Goto(p, "print") \/ Goto(p, "file")
        BY <1>9, <3>1 DEF Saved, Runs, In
      <4>2. QED
        BY <2>1, <4>1, StageOf, InvType DEF In, Stages
    <3>2. QED
      BY <3>1
  <2>3. Edited(job[p], write[p].image) /\ vault.data = write[p].image
    BY <2>1, <2>2, SavedOrKept
  <2>4. QED
    BY <2>1, <2>2, <2>3 DEF Reported, Succeeds, Edited
<1>10. CASE NotSaved(p)
  <2>1. job'[p].code = 1 /\ In(p, "save") /\ Pending(write[p])
    BY <1>0, <1>10 DEF NotSaved, Returned, At, Pending
  <2>2. ASSUME Runs(p, {"add", "rm", "passwd"}) PROVE vault.data = job[p].image
    BY <2>1, <2>2, SavedOrKept DEF Runs, Providers
  <2>3. QED
    BY <2>1, <2>2 DEF Reported, SameContents
<1>11. CASE PrintUri(p)
  <2>1. /\ job[p].cmd \in Providers /\ vault # NoFile
        /\ job[p].cmd = "import" => SameContents(file.data, vault.data)
    BY <1>11 DEF PrintUri, In, CommandInv, JobInv, Active, OwnerJob, ProviderJob, FromFile
  <2>2. Readable /\ vault.data.seed \in shown'
    BY <1>11, <2>1, VaultImage, CommandAssumption, StorageAssumption DEF PrintUri, Readable
  <2>3. job'[p].code \in {0, 1}
    BY <1>0, <1>11 DEF PrintUri
  <2>4. QED
    BY <2>1, <2>2, <2>3 DEF Reported, Succeeds, Runs, Providers
<1>12. CASE SyncFile(p)
  <2>1. job'[p].code = 0 /\ job[p].cmd = "export" /\ file # NoFile /\ file.data \in Recovery
        /\ SameContents(file.data, vault.data) /\ file' = [file EXCEPT !.stable = file.data]
    BY <1>0, <1>12 DEF SyncFile, FileBecomes, In, CommandInv, JobInv, Active, OwnerJob, ProviderJob
  <2>2. file' \in RecoveryFile /\ file'.stable = file.data /\ file'.data = file.data
    BY <2>1, InvType DEF OutsideOK, RecoveryFile
  <2>3. QED
    BY <2>1, <2>2, CommandAssumption DEF Reported, Succeeds, Providers
<1>13. QED
  BY <1>3, <1>4, <1>5, <1>6, <1>7, <1>8, <1>9, <1>10, <1>11, <1>12, WhoExits

\* The exit code of every command tells the truth about the vault and the recovery file
\* (commands.rs, process.rs).
THEOREM ExitsTruthful == ASSUME FileLock PROVE Spec => ExitTruthful
<1>1. CommandInv /\ [Next]_vars
      => [\A p \in Procs : In(p, "exit")' /\ ~In(p, "exit") => Reported(p, job'[p].code)]_vars
  BY ReportedTruly
<1>2. Spec => []CommandInv
  BY CommandInvariant
<1>3. QED
  BY <1>1, <1>2, PTL DEF Spec, ExitTruthful
=============================================================================

-------------------------- MODULE PassmanApp_proofs --------------------------
(***************************************************************************)
(* Proofs about PassmanApp, for any Apps, ids, passwords, schedule, clock  *)
(* and bounds: what holds with the file lock or without it, and then what  *)
(* holds where the platform locks files (FileLock is a hypothesis of each  *)
(* theorem that needs it).                                                 *)
(***************************************************************************)
EXTENDS PassmanApp, TLAPS

-----------------------------------------------------------------------------
(* Lockout *)

\* A recorded failure is a state of the type: the count saturates
\* (lockout.rs after_failure).
LEMMA AfterFailureType ==
    ASSUME NEW s \in LockoutState, NEW now \in Nat
    PROVE  /\ AfterFailure(s, now) \in LockoutState
           /\ AfterFailure(s, now).counter = Lesser(s.counter + 1, CounterMax)
  BY LockoutAssumption DEF AfterFailure, LockoutState, Lesser

\* The merge of two records is a record at least as severe as both
\* (app.rs merge_lockout).
LEMMA MergeType ==
    ASSUME NEW s \in LockoutState, NEW t \in LockoutState
    PROVE  /\ MergeLockout(s, t) \in LockoutState
           /\ MergeLockout(s, t).counter >= s.counter
           /\ MergeLockout(s, t).counter >= t.counter
           /\ MergeLockout(s, t).last >= s.last
           /\ MergeLockout(s, t).last >= t.last
  BY LockoutAssumption DEF MergeLockout, LockoutState, Greater

\* "No failures" is a record (lockout.rs reset).
LEMMA NoFailuresType == NoFailures \in LockoutState
  BY LockoutAssumption DEF NoFailures, LockoutState

\* A longer streak of failures never has a shorter window (lockout.rs
\* lockout_minutes).
LEMMA WindowMonotone ==
    ASSUME NEW m \in Nat, NEW n \in Nat, m <= n
    PROVE  /\ LockoutWindow(m) \in Nat /\ LockoutWindow(n) \in Nat
           /\ LockoutWindow(m) <= LockoutWindow(n)
<1>1. /\ Lesser(m, CapAtAttempts) \in 0 .. CapAtAttempts
      /\ Lesser(n, CapAtAttempts) \in 0 .. CapAtAttempts
      /\ Lesser(m, CapAtAttempts) <= Lesser(n, CapAtAttempts)
  BY LockoutAssumption DEF Lesser
<1>2. QED
  BY <1>1, LockoutAssumption DEF LockoutWindow

\* While either the disk's record or the memory's holds the door shut, the merged
\* record does, for at least as long, also when the clock was set back
\* (app.rs merge_lockout, unlock).
THEOREM MergeOnlyLengthens ==
    ASSUME NEW s \in LockoutState, NEW t \in LockoutState, NEW now \in Nat
    PROVE  /\ Remaining(MergeLockout(s, t), now) >= Remaining(s, now)
           /\ Remaining(MergeLockout(s, t), now) >= Remaining(t, now)
<1> DEFINE m == MergeLockout(s, t)
<1>1. /\ s.counter \in Nat /\ s.last \in Nat /\ t.counter \in Nat /\ t.last \in Nat
      /\ m.counter \in Nat /\ m.last \in Nat
  BY MergeType, LockoutAssumption DEF LockoutState
<1>2. m.last = s.last \/ m.last = t.last
  BY DEF MergeLockout, Greater
<1>3. m.counter >= s.counter /\ m.counter >= t.counter
      /\ m.last >= s.last /\ m.last >= t.last
  BY MergeType
<1>4. /\ LockoutWindow(s.counter) \in Nat /\ LockoutWindow(t.counter) \in Nat
      /\ LockoutWindow(m.counter) \in Nat
      /\ LockoutWindow(s.counter) <= LockoutWindow(m.counter)
      /\ LockoutWindow(t.counter) <= LockoutWindow(m.counter)
  <2>1. LockoutWindow(s.counter) <= LockoutWindow(m.counter)
        /\ LockoutWindow(s.counter) \in Nat /\ LockoutWindow(m.counter) \in Nat
    BY <1>1, <1>3, WindowMonotone
  <2>2. LockoutWindow(t.counter) <= LockoutWindow(m.counter)
        /\ LockoutWindow(t.counter) \in Nat
    BY <1>1, <1>3, WindowMonotone
  <2>3. QED
    BY <2>1, <2>2
<1> HIDE DEF m
<1>5. Remaining(m, now) >= Remaining(s, now)
  BY <1>1, <1>2, <1>3, <1>4 DEF Remaining
<1>6. Remaining(m, now) >= Remaining(t, now)
  BY <1>1, <1>2, <1>3, <1>4 DEF Remaining
<1>7. QED
  BY <1>5, <1>6 DEF m

-----------------------------------------------------------------------------
(* Vaults *)

\* A vault that is built anew opens under its own key, with every row it was given
\* (app.rs create_vault, import_recovery; unlocked.rs reencrypt_vault).
LEMMA SealedOpens ==
    ASSUME NEW key \in Nat \ {0}, NEW pw \in Passwords, NEW seed \in Nat, NEW born \in Nat,
           NEW exported \in BOOLEAN, NEW rows \in Rows, NEW recs \in Rows
    PROVE  /\ Sealed(key, pw, seed, born, exported, rows, recs) \in Vault
           /\ Opens(Sealed(key, pw, seed, born, exported, rows, recs))
<1> DEFINE v == Sealed(key, pw, seed, born, exported, rows, recs)
           e == [id \in Ids |-> IF rows[id] = Absent THEN NoEnvelope
                                ELSE [key |-> key, ver |-> recs[id]]]
<1>1. e \in [Ids -> Envelope]
  BY AppAssumption DEF Rows, Envelope, NoEnvelope, Absent
<1>2. v \in Vault
  BY <1>1, NoFailuresType DEF Sealed, Vault
<1>3. \A id \in Ids : /\ v.rows[id] = Absent <=> v.env[id] = NoEnvelope
                      /\ v.rows[id] # Absent => v.env[id].key = v.key
  BY DEF Sealed, NoEnvelope
<1>4. QED
  BY <1>2, <1>3 DEF Opens, IndexMatchesEnvelopes, Decrypts

\* Adding or replacing an entry under the key of the index keeps a vault that opens
\* (vault.rs add_or_update_entry).
LEMMA UpsertedOpens ==
    ASSUME NEW v \in Vault, Opens(v), NEW key, SealsWith(v, key),
           NEW id \in Ids, NEW ver \in Versions \cup {Absent}, ver # Absent
    PROVE  Upserted(v, key, id, ver) \in Vault /\ Opens(Upserted(v, key, id, ver))
<1> DEFINE w == Upserted(v, key, id, ver)
<1>1. v.key = key /\ key \in Nat
  BY DEF SealsWith, Vault
<1>2. [key |-> key, ver |-> ver] \in Envelope /\ [key |-> key, ver |-> ver] # NoEnvelope
  BY <1>1 DEF Envelope, NoEnvelope
<1>3. w \in Vault
  BY <1>2 DEF Upserted, Vault, Rows
<1>4. /\ w.key = key
      /\ w.rows = [v.rows EXCEPT ![id] = ver]
      /\ w.env = [v.env EXCEPT ![id] = [key |-> key, ver |-> ver]]
  BY <1>1 DEF Upserted, Vault
<1>5. v.rows \in [Ids -> Versions \cup {Absent}] /\ v.env \in [Ids -> Envelope]
  BY DEF Vault, Rows
<1>6. \A i \in Ids : /\ w.rows[i] = Absent <=> w.env[i] = NoEnvelope
                     /\ w.rows[i] # Absent => w.env[i] # NoEnvelope /\ w.env[i].key = w.key
  BY <1>1, <1>2, <1>4, <1>5 DEF Opens, IndexMatchesEnvelopes, Decrypts
<1>7. QED
  BY <1>3, <1>6 DEF Opens, IndexMatchesEnvelopes, Decrypts

\* So does removing one, which takes the row and the envelope together
\* (vault.rs remove_entry).
LEMMA RemovedOpens ==
    ASSUME NEW v \in Vault, Opens(v), NEW id \in Ids
    PROVE  Removed(v, id) \in Vault /\ Opens(Removed(v, id))
<1> DEFINE w == Removed(v, id)
<1>1. NoEnvelope \in Envelope
  BY DEF NoEnvelope, Envelope
<1>2. w \in Vault
  BY <1>1 DEF Removed, Vault, Rows
<1>3. /\ w.key = v.key
      /\ w.rows = [v.rows EXCEPT ![id] = Absent]
      /\ w.env = [v.env EXCEPT ![id] = NoEnvelope]
  BY DEF Removed, Vault
<1>4. v.rows \in [Ids -> Versions \cup {Absent}] /\ v.env \in [Ids -> Envelope]
  BY DEF Vault, Rows
<1>5. \A i \in Ids : /\ w.rows[i] = Absent <=> w.env[i] = NoEnvelope
                     /\ w.rows[i] # Absent => w.env[i] # NoEnvelope /\ w.env[i].key = w.key
  BY <1>3, <1>4 DEF Opens, IndexMatchesEnvelopes, Decrypts
<1>6. QED
  BY <1>2, <1>5 DEF Opens, IndexMatchesEnvelopes, Decrypts

\* Writing the failure count or the export time back touches nothing else
\* (vault.rs set_rate_limit, set_metadata).
LEMMA HeaderOpens ==
    ASSUME NEW v \in Vault, Opens(v), NEW s \in LockoutState
    PROVE  /\ [v EXCEPT !.rl = s] \in Vault /\ Opens([v EXCEPT !.rl = s])
           /\ [v EXCEPT !.exported = TRUE] \in Vault /\ Opens([v EXCEPT !.exported = TRUE])
<1>1. [v EXCEPT !.rl = s] \in Vault /\ [v EXCEPT !.exported = TRUE] \in Vault
  BY DEF Vault
<1>2. /\ [v EXCEPT !.rl = s].key = v.key /\ [v EXCEPT !.exported = TRUE].key = v.key
      /\ [v EXCEPT !.rl = s].rows = v.rows /\ [v EXCEPT !.exported = TRUE].rows = v.rows
      /\ [v EXCEPT !.rl = s].env = v.env /\ [v EXCEPT !.exported = TRUE].env = v.env
  BY DEF Vault
<1>3. QED
  BY <1>1, <1>2 DEF Opens, IndexMatchesEnvelopes, Decrypts

\* The records of a vault are contents, absent where there is no envelope
\* (unlocked.rs reencrypt_vault and export_recovery decrypt them).
LEMMA RecordsType == ASSUME NEW v \in Vault PROVE Records(v) \in Rows
  BY DEF Records, Rows, Vault, Envelope

\* A new session is one of the type (app.rs build_unlocked).
LEMMA NewSessionType ==
    ASSUME NEW v \in Vault, clock \in Nat PROVE NewSession(v) \in Session
  BY AppAssumption DEF NewSession, Session, Vault

-----------------------------------------------------------------------------
(* The inductive invariant *)

EditKinds   == {"add", "update", "remove"}
ReauthKinds == {"change", "export", "exportTotp"}

\* What an App in the middle of an operation remembers has the type of its kind
\* (app.rs unlock; unlocked.rs upsert_entry, change_master_password, export_recovery).
LEMMA OpTypes ==
    ASSUME TypeOK, NEW a \in Apps, op[a] # Idle
    PROVE  /\ op[a].kind \in UnlockKinds \cup EditKinds \cup ReauthKinds
           /\ op[a].kind \in UnlockKinds => op[a] \in UnlockOp
           /\ op[a].kind \in EditKinds => op[a] \in EditOp
           /\ op[a].kind \in ReauthKinds => op[a] \in ReauthOp
           /\ op[a].vault \in Vault
  BY DEF TypeOK, UnlockOp, EditOp, ReauthOp, UnlockKinds, EditKinds, ReauthKinds

\* The invariant holds before anything is opened.
LEMMA InitIInv == Init => IInv
<1> SUFFICES ASSUME Init PROVE IInv
  OBVIOUS
<1>1. clock \in 1 .. MaxClock /\ nextKey \in Nat \ {0}
  BY AppAssumption DEF Init
<1>2. session \in [Apps -> Session \cup {NoSession}]
      /\ op \in [Apps -> UnlockOp \cup EditOp \cup ReauthOp \cup {Idle}]
  BY DEF Init
<1>3. lockout_mem \in [Apps -> LockoutState] /\ fails \in [Apps -> 0 .. CounterMax]
  BY NoFailuresType, LockoutAssumption DEF Init
<1>4. TypeOK
  BY <1>1, <1>2, <1>3 DEF Init, TypeOK
<1>5. QED
  BY <1>4, NoFailuresType, LockoutAssumption
     DEF Init, IInv, OpConsistent, CodesSpent, VaultOpens, NoCodeReused, FailuresCounted,
         NoFailures, LockoutState

\* Only one App's part of the state changes in a step of that App: a property of
\* the parts is kept if the step keeps it for that App.
Part(a) ==
    /\ session[a] \in Session \cup {NoSession}
    /\ op[a] \in UnlockOp \cup EditOp \cup ReauthOp \cup {Idle}
    /\ lockout_mem[a] \in LockoutState
    /\ last_step[a] \in Nat \cup {NoStep}
    /\ fails[a] \in 0 .. CounterMax
    /\ spent[a] \subseteq Nat
    /\ fails[a] <= lockout_mem[a].counter
    /\ \A code \in spent[a] : code <= last_step[a]
    /\ op[a] # Idle =>
          /\ op[a].kind \in UnlockKinds => session[a] = NoSession /\ op[a].rl = lockout_mem[a]
          /\ op[a].kind \notin UnlockKinds => session[a] # NoSession
          /\ op[a].kind \in {"add", "update"} => op[a].ver # Absent
          /\ Opens(op[a].vault)
Whole ==
    /\ clock \in 1 .. MaxClock
    /\ disk \in Vault \cup {NoVault}
    /\ disk # NoVault => Opens(disk)
    /\ nextKey \in Nat \ {0}
    /\ minted \subseteq Ids
    /\ exports \subseteq Export
    /\ running \subseteq Apps
    /\ reused = FALSE
Functions ==
    /\ session = [a \in Apps |-> session[a]]
    /\ op = [a \in Apps |-> op[a]]
    /\ lockout_mem = [a \in Apps |-> lockout_mem[a]]
    /\ last_step = [a \in Apps |-> last_step[a]]
    /\ fails = [a \in Apps |-> fails[a]]
    /\ spent = [a \in Apps |-> spent[a]]
Untouched(b) ==
    /\ session'[b] = session[b] /\ op'[b] = op[b]
    /\ lockout_mem'[b] = lockout_mem[b] /\ fails'[b] = fails[b]
    /\ last_step'[b] = last_step[b] /\ spent'[b] = spent[b]

\* The invariant, taken apart
LEMMA IInvParts == IInv <=> Whole /\ Functions /\ \A a \in Apps : Part(a)
<1>1. ASSUME IInv PROVE Whole /\ Functions /\ \A a \in Apps : Part(a)
  BY <1>1 DEF IInv, TypeOK, OpConsistent, CodesSpent, VaultOpens, NoCodeReused,
              FailuresCounted, Whole, Functions, Part
<1>2. ASSUME Whole, Functions, \A a \in Apps : Part(a) PROVE IInv
  <2>1. TypeOK
    BY <1>2 DEF TypeOK, Whole, Functions, Part
  <2>2. QED
    BY <1>2, <2>1 DEF IInv, OpConsistent, CodesSpent, VaultOpens, NoCodeReused,
                      FailuresCounted, Whole, Part
<1>3. QED
  BY <1>1, <1>2

\* A step of one App that keeps the shared part and its own keeps the invariant.
LEMMA OnePart ==
    ASSUME IInv, NEW a \in Apps, Whole', Functions', Part(a)',
           \A b \in Apps \ {a} : Untouched(b)
    PROVE  IInv'
<1>1. ASSUME NEW b \in Apps PROVE Part(b)'
  <2>1. CASE b = a
    BY <2>1
  <2>2. CASE b # a
    BY <2>2, IInvParts DEF Untouched, Part
  <2>3. QED
    BY <2>1, <2>2
<1>2. TypeOK'
  BY <1>1 DEF TypeOK, Whole, Functions, Part
<1>3. QED
  BY <1>1, <1>2 DEF IInv, OpConsistent, CodesSpent, VaultOpens, NoCodeReused,
                    FailuresCounted, Whole, Part

-----------------------------------------------------------------------------
(* Each action preserves it *)

\* App::open and the end of a process
LEMMA OpenExit ==
    ASSUME IInv, NEW a \in Apps, Open(a) \/ Exit(a)
    PROVE  IInv'
<1>0. Whole /\ Functions /\ Part(a)
  BY IInvParts
<1>1. Whole'
  BY <1>0 DEF Open, Exit, fileVars, totpVars, Whole
<1>2. Functions' /\ \A b \in Apps \ {a} : Untouched(b)
  BY <1>0 DEF Open, Exit, Stop, fileVars, totpVars, lockVars, Functions, Untouched
<1>3. Part(a)'
  BY <1>0, NoFailuresType, LockoutAssumption
     DEF Open, Exit, Stop, fileVars, totpVars, lockVars, Functions, Part, LockoutState, NoFailures
<1>4. QED
  BY <1>1, <1>2, <1>3, OnePart

\* create_vault and import_recovery
LEMMA ProvisionStep ==
    ASSUME IInv, NEW a \in Apps, NEW v \in Vault, Opens(v), Provision(a, v)
    PROVE  IInv'
<1>0. Whole /\ Functions /\ Part(a)
  BY IInvParts
<1>1. Whole'
  BY <1>0 DEF Provision, lockVars, Whole
<1>2. Functions' /\ \A b \in Apps \ {a} : Untouched(b)
  BY <1>0 DEF Provision, lockVars, Functions, Untouched
<1>3. Part(a)'
  <2>1. NewSession(v) \in Session
    BY <1>0, NewSessionType, AppAssumption DEF Whole
  <2>2. op'[a] = Idle /\ session'[a] = NewSession(v) /\ last_step'[a] = NoStep /\ spent'[a] = {}
        /\ lockout_mem' = lockout_mem /\ fails' = fails
    BY <1>0 DEF Provision, lockVars, Functions, Locked, Free
  <2>3. QED
    BY <1>0, <2>1, <2>2 DEF Part
<1>4. QED
  BY <1>1, <1>2, <1>3, OnePart

\* create_vault writes an empty vault.
LEMMA CreateStep ==
    ASSUME IInv, NEW a \in Apps, NEW pw \in Passwords, CreateVault(a, pw)
    PROVE  IInv'
<1>1. nextKey \in Nat \ {0} /\ NoRows \in Rows
  BY IInvParts DEF Whole, NoRows, Rows
<1>2. QED
  BY <1>1, SealedOpens, ProvisionStep DEF CreateVault

\* import_recovery writes the entries of the file.
LEMMA ImportStep ==
    ASSUME IInv, NEW a \in Apps, NEW x \in exports, ImportRecovery(a, x)
    PROVE  IInv'
<1>1. nextKey \in Nat \ {0} /\ x \in Export
  BY IInvParts DEF Whole
<1>2. x.pw \in Passwords /\ x.seed \in Nat /\ x.rows \in Rows /\ x.recs \in Rows
  BY <1>1 DEF Export
<1>3. QED
  BY <1>1, <1>2, SealedOpens, ProvisionStep DEF ImportRecovery

\* App::unlock up to the code prompt
LEMMA UnlockStartStep ==
    ASSUME IInv, NEW a \in Apps, UnlockRefused(a) \/ UnlockLoad(a)
    PROVE  IInv'
<1>0. Whole /\ Functions /\ Part(a)
  BY IInvParts
<1>1. Whole'
  BY <1>0 DEF UnlockRefused, UnlockLoad, fileVars, totpVars, Whole
<1>2. Functions' /\ \A b \in Apps \ {a} : Untouched(b)
  BY <1>0 DEF UnlockRefused, UnlockLoad, fileVars, totpVars, Functions, Untouched
<1>3. Part(a)'
  <2>1. disk \in Vault /\ Opens(disk) /\ disk.rl \in LockoutState /\ lockout_mem[a] \in LockoutState
    BY <1>0 DEF UnlockRefused, UnlockLoad, Whole, Part, Vault
  <2>2. Merged(a) \in LockoutState /\ Merged(a).counter >= lockout_mem[a].counter
    BY <2>1, MergeType DEF Merged
  <2>3. fails[a] <= Merged(a).counter
    BY <1>0, <2>1, <2>2, LockoutAssumption DEF Part, LockoutState
  <2>4. /\ lockout_mem'[a] = Merged(a) /\ session[a] = NoSession /\ session' = session
        /\ fails' = fails /\ last_step' = last_step /\ spent' = spent
        /\ \/ op'[a] = Idle
           \/ op'[a] = [kind |-> "unlock", vault |-> disk, rl |-> Merged(a), now |-> clock]
    BY <1>0 DEF UnlockRefused, UnlockLoad, Functions, Locked, Free, totpVars
  <2>5. clock \in Nat
    BY <1>0, AppAssumption DEF Whole
  <2>6. op'[a] # Idle => /\ op'[a] \in UnlockOp /\ op'[a].kind \in UnlockKinds
                         /\ op'[a].kind \notin {"add", "update"}
                         /\ op'[a].rl = Merged(a) /\ op'[a].vault = disk
    BY <2>1, <2>2, <2>4, <2>5 DEF UnlockOp, UnlockKinds
  <2>7. QED
    BY <1>0, <2>1, <2>2, <2>3, <2>4, <2>6 DEF Part, Opens, IndexMatchesEnvelopes, Decrypts
<1>4. QED
  BY <1>1, <1>2, <1>3, OnePart

\* record_failure, after a rejected code or a wrong password
LEMMA FailureStep ==
    ASSUME IInv, NEW a \in Apps, Doing(a, UnlockKinds), RecordFailure(a),
           UNCHANGED <<clock, nextKey, minted, exports, running, session, totpVars>>
    PROVE  IInv'
<1> DEFINE s == AfterFailure(op[a].rl, op[a].now)
<1>0. Whole /\ Functions /\ Part(a)
  BY IInvParts
<1>1. op[a] \in UnlockOp /\ op[a].vault \in Vault /\ Opens(op[a].vault)
  BY OpTypes DEF IInv, Doing, OpConsistent
<1>2. op[a].rl = lockout_mem[a] /\ session[a] = NoSession
  BY <1>0 DEF Part, Doing
<1>3. s \in LockoutState /\ s.counter = Lesser(lockout_mem[a].counter + 1, CounterMax)
  BY <1>1, <1>2, AfterFailureType DEF UnlockOp
<1> HIDE DEF s
<1>4. disk' \in Vault \cup {NoVault} /\ (disk' # NoVault => Opens(disk'))
  BY <1>0, <1>1, <1>3, HeaderOpens DEF RecordFailure, Whole, s
<1>5. Whole'
  BY <1>0, <1>4 DEF Whole, totpVars
<1>6. Functions' /\ \A b \in Apps \ {a} : Untouched(b)
  BY <1>0 DEF RecordFailure, Stop, totpVars, Functions, Untouched
<1>7. Part(a)'
  <2>1. /\ lockout_mem'[a] = s /\ fails'[a] = Lesser(fails[a] + 1, CounterMax)
        /\ op'[a] = Idle /\ session' = session /\ last_step' = last_step /\ spent' = spent
    BY <1>0 DEF RecordFailure, Stop, totpVars, Functions, s
  <2>2. fails'[a] \in 0 .. CounterMax /\ fails'[a] <= s.counter
    BY <1>0, <1>3, <2>1, LockoutAssumption, SMTT(30) DEF Part, LockoutState, Lesser
  <2>3. QED
    BY <1>0, <1>3, <2>1, <2>2 DEF Part
<1>8. QED
  BY <1>5, <1>6, <1>7, OnePart

\* The two ways an unlock fails: a rejected code, a wrong password
LEMMA UnlockFailsStep ==
    ASSUME IInv, NEW a \in Apps,
           \/ \E code \in Codes : UnlockTotpRejected(a, code)
           \/ \E pw \in Passwords : UnlockWrongPassword(a, pw)
    PROVE  IInv'
<1>1. Doing(a, UnlockKinds)
  BY DEF UnlockTotpRejected, UnlockWrongPassword, Doing, UnlockKinds
<1>2. RecordFailure(a) /\ UNCHANGED <<clock, nextKey, minted, exports, running, session, totpVars>>
  BY DEF UnlockTotpRejected, UnlockWrongPassword
<1>3. QED
  BY <1>1, <1>2, FailureStep

\* A cancelled or failed unlock, and the one that succeeds
LEMMA UnlockEndStep ==
    ASSUME IInv, NEW a \in Apps, UnlockAborted(a) \/ UnlockSucceeds(a)
    PROVE  IInv'
<1>0. Whole /\ Functions /\ Part(a)
  BY IInvParts
<1>1. op[a] \in UnlockOp /\ op[a].vault \in Vault /\ Opens(op[a].vault)
  BY OpTypes DEF IInv, Doing, OpConsistent, UnlockAborted, UnlockSucceeds, UnlockKinds
<1>2. disk' \in Vault \cup {NoVault} /\ (disk' # NoVault => Opens(disk'))
  <2>1. disk' = disk \/ disk' = [op[a].vault EXCEPT !.rl = NoFailures]
    BY DEF UnlockAborted, UnlockSucceeds, fileVars
  <2>2. QED
    BY <1>0, <1>1, <2>1, HeaderOpens, NoFailuresType DEF Whole
<1>3. Whole'
  BY <1>0, <1>2 DEF UnlockAborted, UnlockSucceeds, fileVars, totpVars, Whole
<1>4. Functions' /\ \A b \in Apps \ {a} : Untouched(b)
  BY <1>0 DEF UnlockAborted, UnlockSucceeds, Stop, totpVars, lockVars, Functions, Untouched
<1>5. Part(a)'
  <2>1. CASE UnlockAborted(a)
    BY <1>0, <2>1 DEF UnlockAborted, Stop, totpVars, lockVars, Functions, Part
  <2>2. CASE UnlockSucceeds(a)
    <3>1. NewSession(op[a].vault) \in Session
      BY <1>0, <1>1, NewSessionType, AppAssumption DEF Whole
    <3>2. /\ session'[a] = NewSession(op[a].vault) /\ op'[a] = Idle
          /\ lockout_mem'[a] = NoFailures /\ fails'[a] = 0
          /\ last_step' = last_step /\ spent' = spent
      BY <1>0, <2>2 DEF UnlockSucceeds, Stop, totpVars, Functions
    <3>3. NoFailures.counter = 0 /\ 0 \in 0 .. CounterMax
      BY LockoutAssumption DEF NoFailures
    <3>4. QED
      BY <1>0, <3>1, <3>2, <3>3, NoFailuresType DEF Part
  <2>3. QED
    BY <2>1, <2>2
<1>6. QED
  BY <1>3, <1>4, <1>5, OnePart

\* A code accepted by the App's verifier: it is later than any it accepted before
\* (verifier.rs verify).
LEMMA AcceptedCode ==
    ASSUME IInv, NEW a \in Apps, NEW code, AcceptCode(a, code)
    PROVE  /\ reused' = FALSE
           /\ last_step'[a] = code /\ code \in Nat
           /\ spent'[a] = spent[a] \cup {code}
           /\ spent'[a] \subseteq Nat /\ \A c \in spent'[a] : c <= last_step'[a]
           /\ last_step' = [x \in Apps |-> last_step'[x]]
           /\ spent' = [x \in Apps |-> spent'[x]]
           /\ \A b \in Apps \ {a} : last_step'[b] = last_step[b] /\ spent'[b] = spent[b]
<1>0. Whole /\ Functions /\ Part(a)
  BY IInvParts
<1>1. code \in Nat /\ code > last_step[a]
  <2>1. CurrentStep(clock) \in Int
    BY <1>0, AppAssumption, TotpAssumption DEF Whole, CurrentStep
  <2>2. QED
    BY <2>1, TotpAssumption DEF AcceptCode, Accepts, SkewWindow
<1>2. last_step[a] \in Int /\ \A c \in spent[a] : c \in Nat /\ c <= last_step[a]
  BY <1>0 DEF Part, NoStep
<1>3. code \notin spent[a] /\ \A c \in spent[a] : c <= code
  BY <1>1, <1>2
<1>4. last_step' = [last_step EXCEPT ![a] = code] /\ spent' = [spent EXCEPT ![a] = @ \cup {code}]
  BY DEF AcceptCode
<1>5. reused' = FALSE
  BY <1>0, <1>3 DEF AcceptCode, Whole
<1>6. last_step'[a] = code /\ spent'[a] = spent[a] \cup {code}
      /\ last_step' = [x \in Apps |-> last_step'[x]] /\ spent' = [x \in Apps |-> spent'[x]]
      /\ \A b \in Apps \ {a} : last_step'[b] = last_step[b] /\ spent'[b] = spent[b]
  BY <1>0, <1>4 DEF Functions
<1>7. QED
  BY <1>0, <1>1, <1>3, <1>5, <1>6 DEF Part

\* A code accepted at the unlock, at an export, or by the confirmation
LEMMA AcceptStep ==
    ASSUME IInv, NEW a \in Apps, NEW code,
           \/ UnlockTotpAccepted(a, code) \/ ExportTotpAccepted(a, code) \/ VerifyTotpCode(a, code)
    PROVE  IInv'
<1>0. Whole /\ Functions /\ Part(a)
  BY IInvParts
<1>1. AcceptCode(a, code)
  BY DEF UnlockTotpAccepted, ExportTotpAccepted, VerifyTotpCode
<1>2. Whole'
  BY <1>0, <1>1, AcceptedCode
     DEF UnlockTotpAccepted, ExportTotpAccepted, VerifyTotpCode, fileVars, Whole
<1>3. Functions' /\ \A b \in Apps \ {a} : Untouched(b)
  BY <1>0, <1>1, AcceptedCode
     DEF UnlockTotpAccepted, ExportTotpAccepted, VerifyTotpCode, lockVars, Functions, Untouched
<1>4. Part(a)'
  <2>1. last_step'[a] \in Nat /\ spent'[a] \subseteq Nat /\ \A c \in spent'[a] : c <= last_step'[a]
    BY <1>1, AcceptedCode
  <2>2. session' = session /\ lockout_mem' = lockout_mem /\ fails' = fails
    BY DEF UnlockTotpAccepted, ExportTotpAccepted, VerifyTotpCode, lockVars
  <2>3. CASE UnlockTotpAccepted(a, code)
    <3>1. op[a] \in UnlockOp /\ op[a] # Idle
      BY <2>3, OpTypes DEF IInv, UnlockTotpAccepted, Doing, UnlockKinds
    <3>2. op'[a] = [op[a] EXCEPT !.kind = "unlockTotp"]
      BY <1>0, <2>3 DEF UnlockTotpAccepted, Functions
    <3>3. op'[a] \in UnlockOp /\ op'[a].kind = "unlockTotp"
          /\ op'[a].vault = op[a].vault /\ op'[a].rl = op[a].rl
      BY <3>1, <3>2 DEF UnlockOp
    <3>4. op[a].kind \in UnlockKinds
      BY <3>1 DEF UnlockOp, UnlockKinds
    <3>5. QED
      BY <1>0, <2>1, <2>2, <3>1, <3>3, <3>4
         DEF Part, UnlockKinds, Opens, IndexMatchesEnvelopes, Decrypts
  <2>4. CASE ExportTotpAccepted(a, code)
    <3>1. op[a] \in ReauthOp /\ op[a] # Idle
      BY <2>4, OpTypes DEF IInv, ExportTotpAccepted, Doing, ReauthKinds
    <3>2. op'[a] = [op[a] EXCEPT !.kind = "exportTotp"]
      BY <1>0, <2>4 DEF ExportTotpAccepted, Functions
    <3>3. op'[a] \in ReauthOp /\ op'[a].kind = "exportTotp" /\ op'[a].vault = op[a].vault
      BY <3>1, <3>2 DEF ReauthOp
    <3>4. op[a].kind \notin UnlockKinds
      BY <3>1 DEF ReauthOp, UnlockKinds
    <3>5. QED
      BY <1>0, <2>1, <2>2, <3>1, <3>3, <3>4
         DEF Part, UnlockKinds, Opens, IndexMatchesEnvelopes, Decrypts
  <2>5. CASE VerifyTotpCode(a, code)
    BY <1>0, <2>1, <2>2, <2>5 DEF VerifyTotpCode, Part
  <2>6. QED
    BY <2>3, <2>4, <2>5
<1>5. QED
  BY <1>2, <1>3, <1>4, OnePart

\* What the load of an edit, a password change or an export leaves in "op"
LoadedOp(a) ==
    /\ op' = [op EXCEPT ![a] = op'[a]]
    /\ op'[a] \in EditOp \cup ReauthOp /\ op'[a].vault = disk
    /\ op'[a].kind \notin UnlockKinds
    /\ op'[a].kind \in {"add", "update"} => op'[a].ver # Absent

\* An edit, a password change or an export reads the vault.
LEMMA LoadStep ==
    ASSUME IInv, NEW a \in Apps,
           \/ \E id \in Ids, ver \in Versions : AddLoad(a, id, ver) \/ UpdateLoad(a, id, ver)
           \/ \E id \in Ids : RemoveLoad(a, id)
           \/ ReauthLoad(a, "change") \/ ReauthLoad(a, "export")
    PROVE  IInv'
<1>0. Whole /\ Functions /\ Part(a)
  BY IInvParts
<1>1. disk # NoVault /\ disk \in Vault /\ Opens(disk) /\ session[a] # NoSession
      /\ minted' \subseteq Ids
      /\ UNCHANGED <<clock, disk, nextKey, exports, running, session, lockVars, totpVars>>
  BY <1>0 DEF AddLoad, UpdateLoad, RemoveLoad, ReauthLoad, Load, Unlocked, Whole, fileVars
<1>2. LoadedOp(a)
  <2>1. ASSUME NEW id \in Ids, NEW ver \in Versions, NEW kind \in {"add", "update"},
               Load(a, [kind |-> kind, vault |-> disk, id |-> id, ver |-> ver])
        PROVE  LoadedOp(a)
    <3>1. op'[a] = [kind |-> kind, vault |-> disk, id |-> id, ver |-> ver]
          /\ op' = [op EXCEPT ![a] = op'[a]]
      BY <1>0, <2>1 DEF Load, Functions
    <3>2. QED
      BY <1>1, <3>1, AppAssumption DEF EditOp, UnlockKinds, LoadedOp
  <2>2. ASSUME NEW id \in Ids,
               Load(a, [kind |-> "remove", vault |-> disk, id |-> id, ver |-> Absent])
        PROVE  LoadedOp(a)
    <3>1. op'[a] = [kind |-> "remove", vault |-> disk, id |-> id, ver |-> Absent]
          /\ op' = [op EXCEPT ![a] = op'[a]]
      BY <1>0, <2>2 DEF Load, Functions
    <3>2. QED
      BY <1>1, <3>1 DEF EditOp, UnlockKinds, LoadedOp
  <2>3. ASSUME NEW kind \in {"change", "export"}, Load(a, [kind |-> kind, vault |-> disk])
        PROVE  LoadedOp(a)
    <3>1. op'[a] = [kind |-> kind, vault |-> disk] /\ op' = [op EXCEPT ![a] = op'[a]]
      BY <1>0, <2>3 DEF Load, Functions
    <3>2. QED
      BY <1>1, <3>1 DEF ReauthOp, UnlockKinds, LoadedOp
  <2>4. QED
    BY <2>1, <2>2, <2>3 DEF AddLoad, UpdateLoad, RemoveLoad, ReauthLoad
<1>3. Whole'
  BY <1>0, <1>1 DEF Whole, totpVars
<1>4. Functions' /\ \A b \in Apps \ {a} : Untouched(b)
  BY <1>0, <1>1, <1>2 DEF Functions, Untouched, totpVars, lockVars, LoadedOp
<1>5. Part(a)'
  BY <1>0, <1>1, <1>2
     DEF Part, totpVars, lockVars, LoadedOp, Opens, IndexMatchesEnvelopes, Decrypts
<1>6. QED
  BY <1>3, <1>4, <1>5, OnePart

\* A step that writes a vault that opens, or keeps the file, and ends the operation
\* of a live session with that session or its successor
LEMMA CommitStep ==
    ASSUME IInv, NEW a \in Apps,
           disk' \in Vault \cup {NoVault}, disk' # NoVault => Opens(disk'),
           nextKey' \in Nat \ {0}, exports' \subseteq Export,
           \/ session' = session
           \/ session[a] \in Session /\ session' = Refreshed(a, disk') /\ disk' \in Vault,
           Stop(a),
           UNCHANGED <<clock, minted, running, lockVars, totpVars>>
    PROVE  IInv'
<1>0. Whole /\ Functions /\ Part(a)
  BY IInvParts
<1>1. Whole'
  BY <1>0 DEF Whole, totpVars
<1>2. Functions' /\ \A b \in Apps \ {a} : Untouched(b)
  BY <1>0 DEF Refreshed, Stop, lockVars, totpVars, Functions, Untouched
<1>3. session'[a] \in Session \cup {NoSession}
  <2>1. CASE session' = session
    BY <1>0, <2>1 DEF Part
  <2>2. CASE session[a] \in Session /\ session' = Refreshed(a, disk') /\ disk' \in Vault
    <3>1. session'[a] = [[session[a] EXCEPT !.key = disk'.key] EXCEPT !.rows = disk'.rows]
      BY <1>0, <2>2 DEF Refreshed, Functions
    <3>2. disk'.key \in Nat /\ disk'.rows \in Rows
      BY <2>2 DEF Vault
    <3>3. QED
      BY <2>2, <3>1, <3>2 DEF Session
  <2>3. QED
    BY <2>1, <2>2
<1>4. Part(a)'
  BY <1>0, <1>3 DEF Stop, lockVars, totpVars, Functions, Part
<1>5. QED
  BY <1>1, <1>2, <1>4, OnePart

\* persist_and_refresh after an edit, a failed edit, and a failed reauthentication
LEMMA EditEndStep ==
    ASSUME IInv, NEW a \in Apps, EditCommit(a) \/ EditFailed(a) \/ ReauthFailed(a)
    PROVE  IInv'
<1>0. Whole /\ Functions /\ Part(a)
  BY IInvParts
<1>1. CASE EditCommit(a)
  <2>1. op[a] # Idle /\ op[a].kind \in EditKinds /\ op[a].kind \notin UnlockKinds
    BY <1>1 DEF EditCommit, Doing, EditKinds, UnlockKinds
  <2>2. op[a] \in EditOp /\ op[a].vault \in Vault /\ Opens(op[a].vault) /\ session[a] \in Session
    BY <1>0, <2>1, OpTypes DEF IInv, Part
  <2>3. op[a].kind # "remove" => op[a].ver # Absent
    BY <1>0, <2>1 DEF Part, EditKinds
  <2>4. op[a].id \in Ids /\ op[a].ver \in Versions \cup {Absent}
    BY <2>2 DEF EditOp
  <2>5. SealsWith(op[a].vault, session[a].key)
    BY <1>1 DEF EditCommit
  <2>6. disk' \in Vault /\ Opens(disk')
    <3>1. CASE op[a].kind = "remove"
      BY <1>1, <2>2, <2>4, <3>1, RemovedOpens DEF EditCommit
    <3>2. CASE op[a].kind # "remove"
      BY <1>1, <2>2, <2>3, <2>4, <2>5, <3>2, UpsertedOpens DEF EditCommit
    <3>3. QED
      BY <3>1, <3>2
  <2>7. QED
    BY <1>0, <1>1, <2>2, <2>6, CommitStep DEF EditCommit, Whole
<1>2. CASE EditFailed(a) \/ ReauthFailed(a)
  BY <1>0, <1>2, CommitStep DEF EditFailed, ReauthFailed, fileVars, Whole
<1>3. QED
  BY <1>1, <1>2

\* change_master_password
LEMMA ChangeStep ==
    ASSUME IInv, NEW a \in Apps, NEW new \in Passwords, ChangeCommit(a, new)
    PROVE  IInv'
<1>0. Whole /\ Functions /\ Part(a)
  BY IInvParts
<1>1. op[a] # Idle /\ op[a].kind \in ReauthKinds /\ op[a].kind \notin UnlockKinds
  BY DEF ChangeCommit, Doing, ReauthKinds, UnlockKinds
<1>2. op[a].vault \in Vault /\ session[a] \in Session
  BY <1>0, <1>1, OpTypes DEF IInv, Part
<1>3. Records(op[a].vault) \in Rows /\ session[a].rows \in Rows
      /\ op[a].vault.seed \in Nat /\ op[a].vault.born \in Nat /\ op[a].vault.exported \in BOOLEAN
  BY <1>2, RecordsType DEF Vault, Session
<1>4. disk' \in Vault /\ Opens(disk')
  BY <1>0, <1>3, SealedOpens DEF ChangeCommit, Rebuilt, Whole
<1>5. nextKey' \in Nat \ {0} /\ session' = Refreshed(a, disk') /\ Stop(a)
      /\ UNCHANGED <<clock, minted, exports, running, lockVars, totpVars>>
  BY <1>0 DEF ChangeCommit, Whole
<1>6. exports' \subseteq Export
  BY <1>0, <1>5 DEF Whole
<1>7. QED
  BY <1>2, <1>4, <1>5, <1>6, CommitStep

\* export_recovery
LEMMA ExportStep ==
    ASSUME IInv, NEW a \in Apps, ExportCommit(a)
    PROVE  IInv'
<1> DEFINE v == op[a].vault
           recs == [id \in Ids |-> IF session[a].rows[id] = Absent THEN Absent ELSE Records(v)[id]]
           x == [pw |-> v.pw, seed |-> v.seed, born |-> v.born, rows |-> session[a].rows,
                 recs |-> recs]
<1>0. Whole /\ Functions /\ Part(a)
  BY IInvParts
<1>1. op[a] # Idle /\ op[a].kind \in ReauthKinds /\ op[a].kind \notin UnlockKinds
  BY DEF ExportCommit, Doing, ReauthKinds, UnlockKinds
<1>2. v \in Vault /\ Opens(v) /\ session[a] \in Session
  BY <1>0, <1>1, OpTypes DEF IInv, Part
<1>3. recs \in Rows
  BY <1>2, RecordsType DEF Rows
<1>4. x \in Export
  BY <1>2, <1>3 DEF Export, Vault, Session
<1>5. disk' = [v EXCEPT !.exported = TRUE] /\ exports' \in {exports, exports \cup {x}}
      /\ Stop(a) /\ session' = session
      /\ UNCHANGED <<clock, nextKey, minted, running, lockVars, totpVars>>
  BY DEF ExportCommit
<1> HIDE DEF x, v
<1>6. disk' \in Vault /\ Opens(disk')
  BY <1>2, <1>5, HeaderOpens, NoFailuresType
<1>7. exports' \subseteq Export /\ nextKey' \in Nat \ {0}
  BY <1>0, <1>4, <1>5 DEF Whole
<1>8. QED
  BY <1>5, <1>6, <1>7, CommitStep

\* copy_to_clipboard and the end of a session
LEMMA SessionStep ==
    ASSUME IInv, NEW a \in Apps,
           LockSession(a) \/ \E id \in Ids : CopyToClipboard(a, id)
    PROVE  IInv'
<1>0. Whole /\ Functions /\ Part(a)
  BY IInvParts
<1>1. Whole'
  BY <1>0 DEF LockSession, CopyToClipboard, fileVars, totpVars, Whole
<1>2. Functions' /\ \A b \in Apps \ {a} : Untouched(b)
  BY <1>0 DEF LockSession, CopyToClipboard, totpVars, lockVars, Functions, Untouched
<1>3. op' = op /\ op[a] = Idle /\ lockout_mem' = lockout_mem /\ fails' = fails
      /\ last_step' = last_step /\ spent' = spent
  BY DEF LockSession, CopyToClipboard, totpVars, lockVars, Free, Unlocked
<1>4. session'[a] \in Session \cup {NoSession}
  <2>1. CASE LockSession(a)
    BY <1>0, <2>1 DEF LockSession, Functions
  <2>2. CASE \E id \in Ids : CopyToClipboard(a, id)
    <3>1. session[a] \in Session /\ clock \in Nat /\ PostCopy \in Nat
      BY <1>0, <2>2, AppAssumption DEF CopyToClipboard, Unlocked, Part, Whole
    <3>2. session'[a] = [session[a] EXCEPT !.expiry = Clamped(session[a].expiry)]
      BY <1>0, <2>2 DEF CopyToClipboard, Functions
    <3>3. Clamped(session[a].expiry) \in Nat
      BY <3>1 DEF Session, Clamped, Lesser
    <3>4. QED
      BY <3>1, <3>2, <3>3 DEF Session
  <2>3. QED
    BY <2>1, <2>2 DEF LockSession
<1>5. Part(a)'
  BY <1>0, <1>3, <1>4 DEF Part
<1>6. QED
  BY <1>1, <1>2, <1>5, OnePart

\* The clock moves, or nothing does.
LEMMA ClockStep ==
    ASSUME IInv, Tick \/ StepBack \/ UNCHANGED vars
    PROVE  IInv'
<1>0. Whole /\ Functions /\ \A a \in Apps : Part(a)
  BY IInvParts
<1>1. clock' \in 1 .. MaxClock
  BY <1>0, AppAssumption DEF Whole, Tick, StepBack, vars
<1>2. UNCHANGED <<fileVars, running, session, op, lockVars, totpVars>>
  BY DEF Tick, StepBack, vars
<1>3. TypeOK'
  BY <1>1, <1>2 DEF IInv, TypeOK, fileVars, lockVars, totpVars
<1>4. QED
  BY <1>2, <1>3 DEF IInv, OpConsistent, CodesSpent, VaultOpens, NoCodeReused, FailuresCounted,
                    fileVars, lockVars, totpVars, Opens, IndexMatchesEnvelopes, Decrypts

\* Every step of the specification preserves the invariant.
LEMMA StepIInv == IInv /\ [Next]_vars => IInv'
<1> SUFFICES ASSUME IInv, [Next]_vars PROVE IInv'
  OBVIOUS
<1>1. ASSUME NEW a \in Apps,
             \/ Open(a) \/ Exit(a) \/ LockSession(a)
             \/ \E pw \in Passwords : CreateVault(a, pw)
             \/ \E x \in exports : ImportRecovery(a, x)
      PROVE  IInv'
  BY <1>1, OpenExit, SessionStep, CreateStep, ImportStep
<1>2. ASSUME NEW a \in Apps, UnlockStep(a) PROVE IInv'
  BY <1>2, UnlockStartStep, UnlockFailsStep, UnlockEndStep, AcceptStep DEF UnlockStep
<1>3. ASSUME NEW a \in Apps, EditStep(a) PROVE IInv'
  BY <1>3, LoadStep, SessionStep, EditEndStep DEF EditStep
<1>4. ASSUME NEW a \in Apps, ReauthStep(a) PROVE IInv'
  BY <1>4, LoadStep, EditEndStep, ChangeStep, AcceptStep, ExportStep DEF ReauthStep
<1>5. CASE Tick \/ StepBack \/ UNCHANGED vars
  BY <1>5, ClockStep
<1>6. QED
  BY <1>1, <1>2, <1>3, <1>4, <1>5 DEF Next

\* What an App remembers in the middle of an operation agrees with its state, and
\* all that follows from it below.
THEOREM Invariant == Spec => []IInv
  BY InitIInv, StepIInv, PTL DEF Spec

-----------------------------------------------------------------------------
(* The theorems *)

\* Every variable keeps its type: no operation writes a vault, a session or a count
\* outside the code's own types (app.rs, unlocked.rs, lockout.rs).
THEOREM TypeCorrect == Spec => []TypeOK
<1>1. IInv => TypeOK
  BY DEF IInv
<1>2. QED
  BY <1>1, Invariant, PTL

\* With or without the file lock, and whatever crashes, stale writes and failed
\* writes come between, the vault on disk has one envelope for each row and its own
\* key opens them all (vault.rs check_index_envelope_sets, decrypt_index).
THEOREM VaultAlwaysOpens == Spec => []VaultOpens
<1>1. IInv => VaultOpens
  BY DEF IInv
<1>2. QED
  BY <1>1, Invariant, PTL

\* No verifier accepts a code twice, also when the clock is set back between
\* (verifier.rs verify).
THEOREM CodesOnce == Spec => []NoCodeReused
<1>1. IInv => NoCodeReused
  BY DEF IInv
<1>2. QED
  BY <1>1, Invariant, PTL

\* The process's count is never below the failures it has seen since its last
\* success, whatever happens to the file (app.rs record_failure).
THEOREM CountRemembered == Spec => []FailuresCounted
<1>1. IInv => FailuresCounted
  BY DEF IInv
<1>2. QED
  BY <1>1, Invariant, PTL

\* A session's end is never moved to a later time, by any operation
\* (unlocked.rs ensure_unlocked, copy_to_clipboard).
THEOREM NeverExtended == Spec => SessionNeverExtended
<1> DEFINE Kept(a) == session[a] # NoSession /\ session'[a] # NoSession
                      => session'[a].expiry <= session[a].expiry
<1>1. ASSUME IInv, Next PROVE \A a \in Apps : Kept(a)
  <2>0. Whole /\ Functions /\ \A a \in Apps : Part(a)
    BY <1>1, IInvParts
  <2>1. ASSUME NEW a \in Apps, session[a] # NoSession
        PROVE  session[a] \in Session /\ session[a].expiry \in Nat
    BY <2>0, <2>1 DEF Part, Session
  <2>2. ASSUME NEW a \in Apps, session'[a] = session[a] PROVE Kept(a)
    BY <2>1, <2>2
  <2>3. CASE session' = session
    BY <2>2, <2>3
  <2>4. ASSUME NEW b \in Apps, NEW s, session' = [session EXCEPT ![b] = s],
               \/ session[b] = NoSession
               \/ s = NoSession
               \/ session[b] \in Session /\ s.expiry <= session[b].expiry
        PROVE  \A a \in Apps : Kept(a)
    BY <2>0, <2>2, <2>4 DEF Functions
  <2>5. ASSUME NEW b \in Apps,
               \/ Exit(b) \/ LockSession(b)
               \/ \E pw \in Passwords : CreateVault(b, pw)
               \/ \E x \in exports : ImportRecovery(b, x)
        PROVE  \A a \in Apps : Kept(a)
    BY <2>4, <2>5 DEF Exit, LockSession, CreateVault, ImportRecovery, Provision, Locked
  <2>6. ASSUME NEW b \in Apps, UnlockSucceeds(b) PROVE \A a \in Apps : Kept(a)
    <3>1. session[b] = NoSession
      BY <1>1, <2>6 DEF UnlockSucceeds, Doing, IInv, OpConsistent, UnlockKinds
    <3>2. QED
      BY <2>4, <2>6, <3>1 DEF UnlockSucceeds
  <2>7. ASSUME NEW b \in Apps, EditCommit(b) \/ \E new \in Passwords : ChangeCommit(b, new)
        PROVE  \A a \in Apps : Kept(a)
    <3>1. session[b] \in Session
      BY <2>0, <2>7 DEF EditCommit, ChangeCommit, Doing, Part, UnlockKinds
    <3>2. session' = Refreshed(b, disk')
      BY <2>7 DEF EditCommit, ChangeCommit
    <3> DEFINE s == [[session[b] EXCEPT !.key = disk'.key] EXCEPT !.rows = disk'.rows]
    <3>4. session' = [session EXCEPT ![b] = s]
      BY <2>0, <3>2 DEF Refreshed, Functions
    <3>5. s.expiry <= session[b].expiry
      BY <3>1 DEF Session
    <3> HIDE DEF s, Kept
    <3>6. QED
      BY <2>4, <3>1, <3>4, <3>5
  <2>8. ASSUME NEW b \in Apps, NEW id \in Ids, CopyToClipboard(b, id)
        PROVE  \A a \in Apps : Kept(a)
    <3>1. session[b] \in Session /\ session[b].expiry \in Nat /\ clock \in Nat
      BY <2>0, <2>1, <2>8, AppAssumption DEF CopyToClipboard, Unlocked, Whole
    <3>2. session' = [session EXCEPT ![b] = [session[b] EXCEPT !.expiry = Clamped(session[b].expiry)]]
      BY <2>0, <2>8 DEF CopyToClipboard, Functions
    <3>3. Clamped(session[b].expiry) <= session[b].expiry
      BY <3>1, AppAssumption DEF Clamped, Lesser
    <3>4. [session[b] EXCEPT !.expiry = Clamped(session[b].expiry)].expiry <= session[b].expiry
      BY <3>1, <3>3 DEF Session
    <3>5. QED
      BY <2>4, <3>1, <3>2, <3>4
  <2>9. ASSUME NEW b \in Apps, Open(b) \/ UnlockStep(b) \/ EditStep(b) \/ ReauthStep(b)
        PROVE  \A a \in Apps : Kept(a)
    <3>1. CASE session' = session
      BY <2>3, <3>1
    <3>2. \/ session' = session
          \/ UnlockSucceeds(b) \/ EditCommit(b)
          \/ \E new \in Passwords : ChangeCommit(b, new)
          \/ \E id \in Ids : CopyToClipboard(b, id)
      BY <2>9 DEF Open, UnlockStep, EditStep, ReauthStep, UnlockRefused, UnlockLoad,
                  UnlockAborted, UnlockTotpAccepted, UnlockTotpRejected, UnlockWrongPassword,
                  AddLoad, UpdateLoad, RemoveLoad, EditFailed, ReauthLoad, ReauthFailed,
                  ExportTotpAccepted, VerifyTotpCode, ExportCommit
    <3>3. QED
      BY <2>6, <2>7, <2>8, <3>1, <3>2
  <2>10. CASE Tick \/ StepBack
    BY <2>3, <2>10 DEF Tick, StepBack
  <2>11. QED
    BY <1>1, <2>5, <2>9, <2>10 DEF Next
<1>2. ASSUME IInv, UNCHANGED vars PROVE \A a \in Apps : Kept(a)
  <2>1. \A a \in Apps : session[a] # NoSession => session[a].expiry \in Nat
    BY <1>2, IInvParts DEF Part, Session
  <2>2. QED
    BY <1>2, <2>1 DEF vars
<1>3. QED
  BY <1>1, <1>2, Invariant, PTL DEF Spec, SessionNeverExtended

\* Once a session's time is over nothing begins in it, though the key is still in
\* memory until the worker drops it (unlocked.rs ensure_unlocked, worker.rs).
THEOREM ExpiredStays == Spec => ExpiredStartsNothing
<1> DEFINE Rests(a) == Expired(a) /\ op[a] = Idle => op'[a] = Idle
<1>1. ASSUME IInv, Next PROVE \A a \in Apps : Rests(a)
  <2>0. Functions /\ clock \in Nat
    BY <1>1, IInvParts, AppAssumption DEF Whole
  <2>1. SUFFICES ASSUME NEW a \in Apps, Expired(a), op[a] = Idle PROVE op'[a] = Idle
    OBVIOUS
  <2>2. session[a] # NoSession /\ session[a].expiry \in Nat /\ ~ (clock < session[a].expiry)
    BY <1>1, <2>0, <2>1, IInvParts DEF Part, Session, Expired
  <2>3. ASSUME NEW b \in Apps, NEW o, op' = [op EXCEPT ![b] = o], b # a \/ o = Idle
        PROVE  op'[a] = Idle
    BY <2>0, <2>1, <2>3 DEF Functions
  <2>4. CASE op' = op
    BY <2>1, <2>4
  <2>5. ASSUME NEW b \in Apps,
               \/ Exit(b) \/ UnlockAborted(b) \/ UnlockSucceeds(b) \/ EditCommit(b)
               \/ EditFailed(b) \/ ReauthFailed(b) \/ ExportCommit(b)
               \/ \E code \in Codes : UnlockTotpRejected(b, code)
               \/ \E pw \in Passwords : UnlockWrongPassword(b, pw)
               \/ \E new \in Passwords : ChangeCommit(b, new)
        PROVE  op'[a] = Idle
    BY <2>3, <2>5 DEF Exit, Stop, UnlockAborted, UnlockSucceeds, EditCommit, EditFailed, ReauthFailed,
           ExportCommit, UnlockTotpRejected, UnlockWrongPassword, RecordFailure, ChangeCommit
  <2>6. ASSUME NEW b \in Apps,
               \/ Open(b) \/ LockSession(b) \/ UnlockRefused(b)
               \/ \E pw \in Passwords : CreateVault(b, pw)
               \/ \E x \in exports : ImportRecovery(b, x)
               \/ \E id \in Ids : CopyToClipboard(b, id)
               \/ \E code \in Codes : VerifyTotpCode(b, code)
        PROVE  op'[a] = Idle
    BY <2>4, <2>6 DEF Open, LockSession, UnlockRefused, CreateVault, ImportRecovery, Provision,
           CopyToClipboard, VerifyTotpCode
  <2>7. ASSUME NEW b \in Apps,
               \/ UnlockLoad(b)
               \/ \E id \in Ids, ver \in Versions : AddLoad(b, id, ver) \/ UpdateLoad(b, id, ver)
               \/ \E id \in Ids : RemoveLoad(b, id)
               \/ ReauthLoad(b, "change") \/ ReauthLoad(b, "export")
        PROVE  op'[a] = Idle
    <3>1. b # a
      BY <2>2, <2>7 DEF UnlockLoad, AddLoad, UpdateLoad, RemoveLoad, ReauthLoad, Locked, Unlocked
    <3>2. QED
      BY <2>3, <2>7, <3>1 DEF UnlockLoad, AddLoad, UpdateLoad, RemoveLoad, ReauthLoad, Load
  <2>8. ASSUME NEW b \in Apps,
               \E code \in Codes : UnlockTotpAccepted(b, code) \/ ExportTotpAccepted(b, code)
        PROVE  op'[a] = Idle
    <3>1. b # a
      BY <2>1, <2>8 DEF UnlockTotpAccepted, ExportTotpAccepted, Doing
    <3>2. QED
      BY <2>0, <2>1, <2>8, <3>1 DEF UnlockTotpAccepted, ExportTotpAccepted, Functions
  <2>9. ASSUME Tick \/ StepBack PROVE op'[a] = Idle
    BY <2>4, <2>9 DEF Tick, StepBack
  <2>10. QED
    BY <1>1, <2>5, <2>6, <2>7, <2>8, <2>9 DEF Next, UnlockStep, EditStep, ReauthStep
<1>2. ASSUME UNCHANGED vars PROVE \A a \in Apps : Rests(a)
  BY <1>2 DEF vars
<1>3. QED
  BY <1>1, <1>2, Invariant, PTL DEF Spec, ExpiredStartsNothing

-----------------------------------------------------------------------------
(* Where the platform locks files: one App is open at a time, and what it  *)
(* read when it began an operation is still the vault when it writes, so   *)
(* that PassmanApp implements EntryStore.  First the inductive invariant.  *)

\* A record without a time is one without a failure (lockout.rs: 0 = none).
Dated(s) == s.last = 0 => s.counter = 0

\* The entries of an index
Present(rows) == {id \in Ids : rows[id] # Absent}

\* What is on disk and in the recovery files: keys and ids are those that were drawn,
\* and a file holds the index and the records of the same edits.
FileInv ==
    /\ disk # NoVault => /\ Coherent(disk) /\ Dated(disk.rl)
                         /\ disk.key < nextKey /\ disk.born < nextKey
                         /\ Present(disk.rows) \subseteq minted
    /\ \A x \in exports : /\ x.recs = x.rows /\ x.born < nextKey
                          /\ Present(x.rows) \subseteq minted
    /\ ExportsKnown

\* The unlock in progress began when the window of the vault it read was over.
WaitedOut(o) ==
    LET window == LockoutWindow(o.vault.rl.counter)
    IN  window > 0 => o.now >= o.vault.rl.last + window

\* The one App that is open: its session is the vault's, and so is the copy it has
\* read, whatever it waits for.
AppInv(a) ==
    /\ a \notin running => session[a] = NoSession /\ op[a] = Idle
    /\ Dated(lockout_mem[a])
    /\ session[a] # NoSession =>
          disk # NoVault /\ session[a].key = disk.key /\ session[a].rows = disk.rows
    /\ op[a] # Idle =>
          /\ disk # NoVault /\ op[a].vault = disk
          /\ op[a].kind \in UnlockKinds =>
                /\ op[a].now # 0 /\ WaitedOut(op[a])
                /\ op[a].rl.counter >= disk.rl.counter
          /\ op[a].kind = "add" => disk.rows[op[a].id] = Absent /\ op[a].id \in minted
          /\ op[a].kind = "update" => disk.rows[op[a].id] # Absent
          /\ op[a].kind = "remove" => op[a].ver = Absent

LoneApp == \A a, b \in running : a = b

LockInv == IInv /\ LoneApp /\ FileInv /\ \A a \in Apps : AppInv(a)

\* The invariant holds before anything is opened.
LEMMA LockInit == Init => LockInv
  BY InitIInv DEF Init, LockInv, LoneApp, FileInv, ExportsKnown, AppInv, Dated, NoFailures

\* A step of one App
AppStep(a) ==
    \/ Open(a) \/ Exit(a) \/ LockSession(a)
    \/ \E pw \in Passwords : CreateVault(a, pw)
    \/ \E x \in exports : ImportRecovery(a, x)
    \/ UnlockStep(a) \/ EditStep(a) \/ ReauthStep(a)

\* A step of one App leaves what the others remember alone.
LEMMA OthersUntouched ==
    ASSUME IInv, NEW a \in Apps, AppStep(a)
    PROVE  \A b \in Apps \ {a} : Untouched(b)
<1>0. Functions
  BY IInvParts
<1>1. CASE Open(a) \/ Exit(a) \/ LockSession(a)
  BY <1>0, <1>1 DEF Open, Exit, Stop, LockSession, fileVars, totpVars, lockVars, Functions, Untouched
<1>2. CASE \/ \E pw \in Passwords : CreateVault(a, pw)
           \/ \E x \in exports : ImportRecovery(a, x)
  <2>1. PICK v : Provision(a, v)
    BY <1>2 DEF CreateVault, ImportRecovery
  <2>2. QED
    BY <1>0, <2>1 DEF Provision, lockVars, Functions, Untouched
<1>3. CASE UnlockStep(a)
  BY <1>0, <1>3 DEF UnlockStep, UnlockRefused, UnlockLoad, UnlockAborted, UnlockSucceeds,
         UnlockTotpAccepted, AcceptCode, UnlockTotpRejected, UnlockWrongPassword, RecordFailure, Stop,
         fileVars, totpVars, lockVars, Functions, Untouched
<1>4. CASE EditStep(a)
  BY <1>0, <1>4 DEF EditStep, AddLoad, UpdateLoad, RemoveLoad, Load, CopyToClipboard, EditCommit,
         EditFailed, Refreshed, Stop, fileVars, totpVars, lockVars, Functions, Untouched
<1>5. CASE ReauthStep(a)
  BY <1>0, <1>5 DEF ReauthStep, ReauthLoad, Load, ReauthFailed, ChangeCommit, Refreshed,
         ExportTotpAccepted, VerifyTotpCode, AcceptCode, ExportCommit, Stop,
         fileVars, totpVars, lockVars, Functions, Untouched
<1>6. QED
  BY <1>1, <1>2, <1>3, <1>4, <1>5 DEF AppStep

\* A step of the App that is open keeps the invariant if it keeps the file's part and
\* its own: no other App has anything to keep.
LEMMA LoneStep ==
    ASSUME LockInv, NEW a \in running, AppStep(a), running' = running, FileInv', AppInv(a)'
    PROVE  LockInv'
<1>0. a \in Apps
  BY DEF LockInv, IInv, TypeOK
<1>1. IInv'
  BY <1>0, StepIInv DEF LockInv, AppStep, Next
<1>2. ASSUME NEW b \in Apps, b # a PROVE AppInv(b)'
  <2>1. b \notin running /\ AppInv(b) /\ Untouched(b)
    BY <1>0, <1>2, OthersUntouched DEF LockInv, LoneApp
  <2>2. QED
    BY <2>1 DEF AppInv, Untouched
<1>3. QED
  BY <1>1, <1>2 DEF LockInv, LoneApp

-----------------------------------------------------------------------------
(* Vaults under the lock *)

\* Only the index, the envelopes and the key decide whether a vault is coherent.
LEMMA SameEntries ==
    ASSUME NEW v, NEW w, w.key = v.key, w.rows = v.rows, w.env = v.env, Coherent(v)
    PROVE  Coherent(w)
  BY DEF Coherent

\* Writing the failure count or the export time back changes nothing else
\* (vault.rs set_rate_limit, set_metadata).
LEMMA HeaderKept ==
    ASSUME NEW v \in Vault, NEW s \in LockoutState
    PROVE  /\ LET w == [v EXCEPT !.rl = s]
              IN  /\ w.rl = s /\ w.key = v.key /\ w.rows = v.rows /\ w.env = v.env
                  /\ w.born = v.born /\ w.exported = v.exported
           /\ LET w == [v EXCEPT !.exported = TRUE]
              IN  /\ w.rl = v.rl /\ w.key = v.key /\ w.rows = v.rows /\ w.env = v.env
                  /\ w.born = v.born /\ w.exported
  BY DEF Vault

\* In a coherent vault an entry's record is its row, and it decrypts if it is there.
LEMMA CoherentRecords ==
    ASSUME NEW v \in Vault, Coherent(v)
    PROVE  /\ Records(v) = v.rows
           /\ StoredEntries(v) = v.rows
           /\ \A id \in Ids : v.rows[id] # Absent <=> v.env[id] # NoEnvelope
<1>1. v.rows \in [Ids -> Versions \cup {Absent}]
  BY DEF Vault, Rows
<1>2. \A id \in Ids : IF v.rows[id] = Absent THEN v.env[id] = NoEnvelope
                      ELSE v.env[id] = [key |-> v.key, ver |-> v.rows[id]] /\ v.env[id] # NoEnvelope
  BY <1>1 DEF Coherent, NoEnvelope
<1>3. ASSUME NEW id \in Ids
      PROVE  v.env[id].ver = v.rows[id] /\ (v.rows[id] # Absent <=> Decrypts(v, v.key, id))
  <2>1. CASE v.rows[id] = Absent
    <3>1. v.env[id] = NoEnvelope
      BY <1>2, <2>1
    <3>2. v.env[id].ver = Absent
      BY <3>1 DEF NoEnvelope
    <3>3. QED
      BY <2>1, <3>1, <3>2 DEF Decrypts
  <2>2. CASE v.rows[id] # Absent
    <3>1. v.env[id] = [key |-> v.key, ver |-> v.rows[id]] /\ v.env[id] # NoEnvelope
      BY <1>2, <2>2
    <3>2. v.env[id].ver = v.rows[id] /\ v.env[id].key = v.key
      BY <3>1
    <3>3. QED
      BY <2>2, <3>1, <3>2 DEF Decrypts
  <2>3. QED
    BY <2>1, <2>2
<1>4. QED
  BY <1>1, <1>2, <1>3 DEF Records, StoredEntries

\* Adding or replacing an entry leaves a coherent vault (vault.rs add_or_update_entry).
LEMMA UpsertedCoherent ==
    ASSUME NEW v \in Vault, Coherent(v), NEW id \in Ids, NEW ver \in Versions,
           NEW w, w = Upserted(v, v.key, id, ver)
    PROVE  /\ Coherent(w)
           /\ w.key = v.key /\ w.rows = [v.rows EXCEPT ![id] = ver]
           /\ w.rl = v.rl /\ w.born = v.born /\ w.exported = v.exported
<1>1. v.rows \in [Ids -> Versions \cup {Absent}] /\ v.env \in [Ids -> Envelope]
  BY DEF Vault, Rows
<1>2. /\ w.key = v.key /\ w.rows = [v.rows EXCEPT ![id] = ver]
      /\ w.env = [v.env EXCEPT ![id] = [key |-> v.key, ver |-> ver]]
      /\ w.rl = v.rl /\ w.born = v.born /\ w.exported = v.exported
  BY DEF Upserted, Vault
<1>3. ver # Absent
  BY AppAssumption
<1>4. QED
  BY <1>1, <1>2, <1>3 DEF Coherent

\* So does removing one (vault.rs remove_entry).
LEMMA RemovedCoherent ==
    ASSUME NEW v \in Vault, Coherent(v), NEW id \in Ids, NEW w, w = Removed(v, id)
    PROVE  /\ Coherent(w)
           /\ w.key = v.key /\ w.rows = [v.rows EXCEPT ![id] = Absent]
           /\ w.rl = v.rl /\ w.born = v.born /\ w.exported = v.exported
<1>1. v.rows \in [Ids -> Versions \cup {Absent}] /\ v.env \in [Ids -> Envelope]
  BY DEF Vault, Rows
<1>2. /\ w.key = v.key /\ w.rows = [v.rows EXCEPT ![id] = Absent]
      /\ w.env = [v.env EXCEPT ![id] = NoEnvelope]
      /\ w.rl = v.rl /\ w.born = v.born /\ w.exported = v.exported
  BY DEF Removed, Vault
<1>3. QED
  BY <1>1, <1>2 DEF Coherent

-----------------------------------------------------------------------------
(* Steps that leave the file alone *)

\* The types that the invariant gives of what the one App holds
LEMMA LockTypes ==
    ASSUME LockInv, NEW a \in Apps
    PROVE  /\ Whole /\ Functions /\ Part(a) /\ AppInv(a) /\ FileInv
           /\ disk # NoVault => disk \in Vault /\ disk.rl \in LockoutState
  BY IInvParts DEF LockInv, Whole, Vault

\* A step that leaves the file, the keys and the recovery files alone has only its own
\* App's part to keep.
LEMMA FileRests ==
    ASSUME LockInv, NEW a \in running, AppStep(a), running' = running,
           UNCHANGED <<disk, nextKey, exports>>, minted \subseteq minted', AppInv(a)'
    PROVE  LockInv'
<1>1. FileInv'
  BY DEF LockInv, FileInv, ExportsKnown, Coherent, Dated
<1>2. QED
  BY <1>1, LoneStep

\* An operation that ends, or a session that does, without a write
LEMMA EndsQuietly ==
    ASSUME LockInv, NEW a \in running,
           UnlockAborted(a) \/ EditFailed(a) \/ ReauthFailed(a) \/ LockSession(a)
    PROVE  LockInv'
<1>0. a \in Apps /\ AppInv(a) /\ Functions
  BY LockTypes DEF LockInv, IInv, TypeOK
<1>1. AppStep(a) /\ running' = running /\ UNCHANGED <<disk, nextKey, exports, minted>>
  BY DEF AppStep, UnlockStep, EditStep, ReauthStep, UnlockAborted, EditFailed, ReauthFailed,
         LockSession, fileVars
<1>2. AppInv(a)'
  BY <1>0, <1>1 DEF UnlockAborted, EditFailed, ReauthFailed, LockSession, Stop, fileVars, lockVars,
         Functions, AppInv, Free, WaitedOut
<1>3. QED
  BY <1>0, <1>1, <1>2, FileRests

\* An accepted code changes nothing but the kind of the operation.
LEMMA AcceptsQuietly ==
    ASSUME LockInv, NEW a \in running, NEW code \in Codes,
           UnlockTotpAccepted(a, code) \/ ExportTotpAccepted(a, code) \/ VerifyTotpCode(a, code)
    PROVE  LockInv'
<1>0. a \in Apps /\ AppInv(a) /\ Functions /\ IInv
  BY LockTypes DEF LockInv, IInv, TypeOK
<1>1. AppStep(a) /\ running' = running /\ UNCHANGED <<disk, nextKey, exports, minted>>
  BY DEF AppStep, UnlockStep, ReauthStep, UnlockTotpAccepted, ExportTotpAccepted, VerifyTotpCode,
         fileVars
<1>2. AppInv(a)'
  <2>1. UNCHANGED <<session, lockout_mem>>
    BY DEF UnlockTotpAccepted, ExportTotpAccepted, VerifyTotpCode, lockVars
  <2>2. CASE op' = op
    BY <1>0, <1>1, <2>1, <2>2 DEF AppInv, WaitedOut
  <2>3. CASE UnlockTotpAccepted(a, code)
    <3>1. op[a] \in UnlockOp /\ op[a] # Idle /\ op[a].kind \in UnlockKinds
      BY <1>0, <2>3, OpTypes DEF IInv, UnlockTotpAccepted, Doing, UnlockKinds
    <3>2. op'[a] = [op[a] EXCEPT !.kind = "unlockTotp"]
      BY <1>0, <2>3 DEF UnlockTotpAccepted, Functions
    <3>3. /\ op'[a].kind = "unlockTotp" /\ op'[a].vault = op[a].vault
          /\ op'[a].rl = op[a].rl /\ op'[a].now = op[a].now
      BY <3>1, <3>2 DEF UnlockOp
    <3>4. QED
      BY <1>0, <1>1, <2>1, <2>3, <3>1, <3>3 DEF AppInv, WaitedOut, UnlockTotpAccepted, Doing
  <2>4. CASE ExportTotpAccepted(a, code)
    <3>1. op[a] \in ReauthOp /\ op[a] # Idle
      BY <1>0, <2>4, OpTypes DEF IInv, ExportTotpAccepted, Doing, ReauthKinds
    <3>2. op'[a] = [op[a] EXCEPT !.kind = "exportTotp"]
      BY <1>0, <2>4 DEF ExportTotpAccepted, Functions
    <3>3. op'[a].kind = "exportTotp" /\ op'[a].vault = op[a].vault
      BY <3>1, <3>2 DEF ReauthOp
    <3>4. QED
      BY <1>0, <1>1, <2>1, <2>4, <3>1, <3>3 DEF AppInv, ExportTotpAccepted, Doing, UnlockKinds
  <2>5. QED
    BY <2>2, <2>3, <2>4 DEF VerifyTotpCode
<1>3. QED
  BY <1>0, <1>1, <1>2, FileRests

\* An unlock begins with the merged record, and with the clock past its window; or it is
\* refused.
LEMMA UnlockBegins ==
    ASSUME LockInv, NEW a \in running, UnlockRefused(a) \/ UnlockLoad(a)
    PROVE  LockInv'
<1> DEFINE m == Merged(a)
<1>0. /\ a \in Apps /\ AppInv(a) /\ Functions /\ Dated(disk.rl) /\ Dated(lockout_mem[a])
      /\ disk.rl \in LockoutState /\ lockout_mem[a] \in LockoutState /\ clock \in Nat \ {0}
      /\ session[a] = NoSession /\ op[a] = Idle /\ disk # NoVault
  <2>1. a \in Apps /\ disk # NoVault /\ session[a] = NoSession /\ op[a] = Idle
    BY DEF LockInv, IInv, TypeOK, UnlockRefused, UnlockLoad, Locked, Free
  <2>2. /\ AppInv(a) /\ Functions /\ Dated(disk.rl) /\ Dated(lockout_mem[a])
        /\ disk.rl \in LockoutState
    BY <2>1, LockTypes DEF AppInv, FileInv
  <2>3. lockout_mem[a] \in LockoutState /\ clock \in 1 .. MaxClock
    BY <2>1, LockTypes DEF LockInv, IInv, TypeOK
  <2>4. QED
    BY <2>1, <2>2, <2>3, AppAssumption
<1>1. AppStep(a) /\ running' = running /\ UNCHANGED <<disk, nextKey, exports, minted, session>>
  BY DEF AppStep, UnlockStep, UnlockRefused, UnlockLoad, fileVars
<1>2. /\ m \in LockoutState /\ m.counter >= disk.rl.counter /\ m.last >= disk.rl.last
      /\ Dated(m) /\ m.counter \in Nat /\ m.last \in Nat
      /\ disk.rl.counter \in Nat /\ disk.rl.last \in Nat
  <2>1. m \in LockoutState /\ m.counter >= disk.rl.counter /\ m.last >= disk.rl.last
        /\ m.counter >= lockout_mem[a].counter /\ m.last >= lockout_mem[a].last
    BY <1>0, MergeType DEF Merged
  <2>2. /\ m.counter \in Nat /\ m.last \in Nat /\ disk.rl.counter \in Nat /\ disk.rl.last \in Nat
        /\ lockout_mem[a].counter \in Nat /\ lockout_mem[a].last \in Nat
    BY <1>0, <2>1, LockoutAssumption DEF LockoutState
  <2>3. m.counter = disk.rl.counter \/ m.counter = lockout_mem[a].counter
    BY DEF Merged, MergeLockout, Greater
  <2>4. Dated(m)
    BY <1>0, <2>1, <2>2, <2>3 DEF Dated
  <2>5. QED
    BY <2>1, <2>2, <2>4
<1>3. lockout_mem'[a] = m
  BY <1>0 DEF UnlockRefused, UnlockLoad, Functions
<1>4. CASE UnlockRefused(a)
  BY <1>0, <1>1, <1>2, <1>3, <1>4, FileRests DEF UnlockRefused, AppInv
<1>5. CASE UnlockLoad(a)
  <2> DEFINE o == [kind |-> "unlock", vault |-> disk, rl |-> m, now |-> clock]
  <2>1. op'[a] = o
    BY <1>0, <1>5 DEF UnlockLoad, Functions
  <2>2. WaitedOut(o)
    <3>1. /\ LockoutWindow(disk.rl.counter) \in Nat /\ LockoutWindow(m.counter) \in Nat
          /\ LockoutWindow(disk.rl.counter) <= LockoutWindow(m.counter)
      BY <1>2, WindowMonotone
    <3>2. \/ m.last = 0 \/ clock >= m.last + LockoutWindow(m.counter)
          \/ LockoutWindow(m.counter) = 0
      BY <1>0, <1>2, <1>5, <3>1 DEF UnlockLoad, LockedOut, Remaining
    <3>3. m.last = 0 => LockoutWindow(disk.rl.counter) = 0
      <4>1. m.last = 0 => disk.rl.counter = 0
        BY <1>2 DEF Dated
      <4>2. LockoutWindow(0) = 0
        BY LockoutAssumption DEF LockoutWindow, Lesser
      <4>3. QED
        BY <4>1, <4>2
    <3> HIDE DEF m
    <3>4. o.vault.rl = disk.rl /\ o.now = clock
      OBVIOUS
    <3> HIDE DEF o
    <3>5. QED
      BY <1>0, <1>2, <3>1, <3>2, <3>3, <3>4 DEF WaitedOut
  <2> HIDE DEF m
  <2>3. /\ o.kind = "unlock" /\ o.vault = disk /\ o.now # 0 /\ o.rl.counter >= disk.rl.counter
        /\ "unlock" \in UnlockKinds
    BY <1>0, <1>2 DEF UnlockKinds
  <2> HIDE DEF o
  <2>4. AppInv(a)'
    BY <1>0, <1>1, <1>2, <1>3, <2>1, <2>2, <2>3 DEF AppInv
  <2>5. QED
    BY <1>0, <1>1, <2>4, FileRests
<1>6. QED
  BY <1>4, <1>5

\* What the load of an edit or of a re-authentication leaves in "op"
Begun(a) ==
    /\ op'[a].vault = disk
    /\ op'[a].kind \notin UnlockKinds
    /\ op'[a].kind = "add" => disk.rows[op'[a].id] = Absent /\ op'[a].id \in minted'
    /\ op'[a].kind = "update" => disk.rows[op'[a].id] # Absent
    /\ op'[a].kind = "remove" => op'[a].ver = Absent

\* An edit, a password change or an export begins with the vault it reads: the id of a
\* new entry is fresh, and an entry to update is in the index of the session.
LEMMA LoadBegins ==
    ASSUME LockInv, NEW a \in running,
           \/ \E id \in Ids, ver \in Versions : AddLoad(a, id, ver) \/ UpdateLoad(a, id, ver)
           \/ \E id \in Ids : RemoveLoad(a, id)
           \/ ReauthLoad(a, "change")
           \/ Cardinality(exports) < MaxExports /\ ReauthLoad(a, "export")
    PROVE  LockInv'
<1>0. a \in Apps /\ AppInv(a) /\ Functions /\ session[a] # NoSession
  BY LockTypes DEF LockInv, IInv, TypeOK, AddLoad, UpdateLoad, RemoveLoad, ReauthLoad, Unlocked
<1>1. /\ AppStep(a) /\ minted \subseteq minted'
      /\ UNCHANGED <<running, disk, nextKey, exports, session, lockout_mem>>
  BY DEF AppStep, EditStep, ReauthStep, AddLoad, UpdateLoad, RemoveLoad, ReauthLoad, fileVars, lockVars
<1>2. disk # NoVault /\ Present(disk.rows) \subseteq minted /\ session[a].rows = disk.rows
  BY <1>0, LockTypes DEF AppInv, FileInv
<1>3. Begun(a)
  <2>1. ASSUME NEW id \in Ids, NEW ver \in Versions, AddLoad(a, id, ver) PROVE Begun(a)
    <3>1. op'[a] = [kind |-> "add", vault |-> disk, id |-> id, ver |-> ver]
          /\ id \notin minted /\ id \in minted'
      BY <1>0, <2>1 DEF AddLoad, Load, Functions
    <3>2. disk.rows[id] = Absent
      BY <1>2, <3>1 DEF Present
    <3>3. QED
      BY <3>1, <3>2 DEF Begun, UnlockKinds
  <2>2. ASSUME NEW id \in Ids, NEW ver \in Versions, UpdateLoad(a, id, ver) PROVE Begun(a)
    <3>1. op'[a] = [kind |-> "update", vault |-> disk, id |-> id, ver |-> ver]
          /\ session[a].rows[id] # Absent
      BY <1>0, <2>2 DEF UpdateLoad, Load, Functions
    <3>2. QED
      BY <1>2, <3>1 DEF Begun, UnlockKinds
  <2>3. ASSUME NEW id \in Ids, RemoveLoad(a, id) PROVE Begun(a)
    <3>1. op'[a] = [kind |-> "remove", vault |-> disk, id |-> id, ver |-> Absent]
      BY <1>0, <2>3 DEF RemoveLoad, Load, Functions
    <3>2. QED
      BY <3>1 DEF Begun, UnlockKinds
  <2>4. ASSUME NEW kind \in {"change", "export"}, ReauthLoad(a, kind) PROVE Begun(a)
    <3>1. op'[a] = [kind |-> kind, vault |-> disk]
      BY <1>0, <2>4 DEF ReauthLoad, Load, Functions
    <3>2. QED
      BY <3>1 DEF Begun, UnlockKinds
  <2>5. QED
    BY <2>1, <2>2, <2>3, <2>4
<1>4. AppInv(a)'
  BY <1>0, <1>1, <1>2, <1>3 DEF AppInv, Begun
<1>5. QED
  BY <1>0, <1>1, <1>4, FileRests

\* A copy shortens the session and leaves its key and index (unlocked.rs
\* copy_to_clipboard).
LEMMA CopyKeeps ==
    ASSUME LockInv, NEW a \in running, NEW id \in Ids, CopyToClipboard(a, id)
    PROVE  LockInv'
<1>0. /\ a \in Apps /\ AppInv(a) /\ Functions /\ session[a] \in Session
      /\ session[a] # NoSession /\ op[a] = Idle
  <2>1. a \in Apps /\ session[a] # NoSession /\ op[a] = Idle
    BY DEF LockInv, IInv, TypeOK, CopyToClipboard, Unlocked, Free
  <2>2. QED
    BY <2>1, LockTypes DEF Part
<1>1. /\ AppStep(a)
      /\ UNCHANGED <<running, disk, nextKey, exports, minted, op, lockout_mem>>
  BY DEF AppStep, EditStep, CopyToClipboard, fileVars, lockVars
<1>2. session'[a].key = session[a].key /\ session'[a].rows = session[a].rows
  <2>1. session'[a] = [session[a] EXCEPT !.expiry = Clamped(session[a].expiry)]
    BY <1>0 DEF CopyToClipboard, Functions
  <2>2. QED
    BY <1>0, <2>1 DEF Session
<1>3. AppInv(a)'
  BY <1>0, <1>1, <1>2 DEF AppInv
<1>4. QED
  BY <1>0, <1>1, <1>3, FileRests

\* One App is let in; at its end nothing of it stays (InstanceLock::acquire, Drop).
LEMMA OpenExitKeeps ==
    ASSUME FileLock, LockInv, NEW a \in Apps, Open(a) \/ Exit(a)
    PROVE  LockInv'
<1>0. Functions /\ AppInv(a) /\ AppStep(a) /\ running \subseteq Apps
  BY LockTypes DEF AppStep, LockInv, IInv, TypeOK
<1>1. IInv'
  BY OpenExit DEF LockInv
<1>2. LoneApp'
  BY DEF LockInv, LoneApp, Open, Exit
<1>3. FileInv'
  BY DEF Open, Exit, fileVars, LockInv, FileInv, ExportsKnown, Coherent, Dated
<1>4. AppInv(a)'
  BY <1>0, NoFailuresType
     DEF Open, Exit, Stop, fileVars, lockVars, Functions, AppInv, Dated, NoFailures, WaitedOut
<1>5. ASSUME NEW b \in Apps, b # a PROVE AppInv(b)'
  <2>1. AppInv(b) /\ Untouched(b) /\ UNCHANGED disk /\ minted' = minted
    BY <1>0, <1>5, OthersUntouched DEF LockInv, Open, Exit, fileVars
  <2>2. b \notin running' => b \notin running
    BY <1>5 DEF Open, Exit
  <2>3. QED
    BY <2>1, <2>2 DEF AppInv, Untouched, WaitedOut
<1>6. QED
  BY <1>1, <1>2, <1>3, <1>4, <1>5 DEF LockInv

-----------------------------------------------------------------------------
(* Steps that write the file *)

\* A step that writes a coherent vault, under keys and ids already drawn, whose export
\* mark is right, has only its own App's part to keep.
LEMMA WriteKeeps ==
    ASSUME LockInv, NEW a \in running, AppStep(a), running' = running, AppInv(a)',
           NEW w, disk' = w, Coherent(w), Dated(w.rl),
           nextKey' \in {nextKey, nextKey + 1}, w.key < nextKey', w.born < nextKey',
           Present(w.rows) \subseteq minted, minted' = minted, exports' = exports,
           \A x \in exports : x.born = w.born => w.exported
    PROVE  LockInv'
<1>1. nextKey \in Nat /\ \A x \in exports : x.born \in Nat /\ x.born < nextKey
  <2>1. Whole /\ FileInv
    BY IInvParts DEF LockInv
  <2>2. QED
    BY <2>1 DEF Whole, FileInv, Export
<1>2. \A x \in exports : x.born < nextKey'
  BY <1>1
<1>3. Coherent(disk)' /\ Dated(disk.rl)'
  BY DEF Coherent, Dated
<1>4. FileInv'
  BY <1>2, <1>3 DEF LockInv, FileInv, ExportsKnown, Present
<1>5. QED
  BY <1>4, LoneStep

\* Rewriting the failure count of the vault, or leaving it, keeps the file's part.
LEMMA CountWritten ==
    ASSUME LockInv, NEW a \in running, AppStep(a), running' = running, AppInv(a)',
           disk # NoVault, NEW s \in LockoutState, Dated(s),
           disk' \in {disk, [disk EXCEPT !.rl = s]},
           UNCHANGED <<nextKey, minted, exports>>
    PROVE  LockInv'
<1>0. disk \in Vault /\ FileInv /\ nextKey \in Nat
  BY IInvParts DEF LockInv, Whole
<1>1. CASE disk' = disk
  BY <1>1, FileRests
<1>2. CASE disk' = [disk EXCEPT !.rl = s]
  <2>1. PICK w : w = [disk EXCEPT !.rl = s]
    OBVIOUS
  <2>2. /\ w.rl = s /\ w.key = disk.key /\ w.rows = disk.rows /\ w.env = disk.env
        /\ w.born = disk.born /\ w.exported = disk.exported
    BY <1>0, <2>1, HeaderKept
  <2>3. Coherent(w)
    BY <1>0, <2>2, SameEntries DEF FileInv
  <2>4. /\ w.key < nextKey' /\ w.born < nextKey' /\ Present(w.rows) \subseteq minted
        /\ \A x \in exports : x.born = w.born => w.exported
    BY <1>0, <2>2 DEF FileInv, ExportsKnown, Present
  <2>5. QED
    BY <1>2, <2>1, <2>2, <2>3, <2>4, WriteKeeps
<1>3. QED
  BY <1>1, <1>2

\* A rejected code or a wrong password is counted from the record the unlock read, at
\* the time it began, and the write is to the vault it read, which is still the one on
\* disk (app.rs unlock, record_failure).
LEMMA FailureWrites ==
    ASSUME LockInv, NEW a \in running,
           \/ \E code \in Codes : UnlockTotpRejected(a, code)
           \/ \E pw \in Passwords : UnlockWrongPassword(a, pw)
    PROVE  \E s \in LockoutState :
              /\ s.counter >= disk.rl.counter /\ s.last = op[a].now /\ s.last # 0
              /\ disk # NoVault /\ op[a].vault = disk /\ WaitedOut(op[a])
              /\ disk' \in {disk, [disk EXCEPT !.rl = s]}
              /\ session[a] = NoSession /\ op[a].kind \in UnlockKinds
              /\ op'[a] = Idle /\ lockout_mem'[a] = s
              /\ UNCHANGED <<nextKey, minted, exports, running, session>>
<1>1. /\ a \in Apps /\ RecordFailure(a) /\ op[a] # Idle /\ op[a].kind \in UnlockKinds
      /\ UNCHANGED <<nextKey, minted, exports, running, session>>
  BY DEF LockInv, IInv, TypeOK, UnlockTotpRejected, UnlockWrongPassword, Doing, UnlockKinds
<1>2. Functions /\ AppInv(a) /\ Part(a) /\ op[a] \in UnlockOp
  BY <1>1, LockTypes, OpTypes DEF LockInv, IInv
<1>3. /\ disk # NoVault /\ op[a].vault = disk /\ op[a].now # 0 /\ session[a] = NoSession
      /\ WaitedOut(op[a]) /\ op[a].rl.counter >= disk.rl.counter /\ disk.rl \in LockoutState
  BY <1>1, <1>2, LockTypes DEF AppInv, Part
<1>4. PICK s : s = AfterFailure(op[a].rl, op[a].now)
  OBVIOUS
<1>5. s \in LockoutState /\ s.last = op[a].now /\ s.counter = Lesser(op[a].rl.counter + 1, CounterMax)
  BY <1>2, <1>4, AfterFailureType DEF UnlockOp, AfterFailure
<1>6. s.counter >= disk.rl.counter
  <2>1. op[a].rl.counter \in 0 .. CounterMax /\ disk.rl.counter \in 0 .. CounterMax
    BY <1>2, <1>3 DEF UnlockOp, LockoutState
  <2>2. QED
    BY <1>3, <1>5, <2>1, LockoutAssumption DEF Lesser
<1>7. disk' \in {disk, [disk EXCEPT !.rl = s]} /\ op'[a] = Idle /\ lockout_mem'[a] = s
  BY <1>1, <1>2, <1>3, <1>4 DEF RecordFailure, Stop, Functions
<1>8. QED
  BY <1>1, <1>3, <1>5, <1>6, <1>7

\* Counting a failure keeps the invariant.
LEMMA FailureKeeps ==
    ASSUME LockInv, NEW a \in running,
           \/ \E code \in Codes : UnlockTotpRejected(a, code)
           \/ \E pw \in Passwords : UnlockWrongPassword(a, pw)
    PROVE  LockInv'
<1>1. AppStep(a) /\ AppInv(a)
  BY LockTypes DEF LockInv, IInv, TypeOK, AppStep, UnlockStep
<1>2. PICK s \in LockoutState :
              /\ s.last # 0 /\ disk # NoVault
              /\ disk' \in {disk, [disk EXCEPT !.rl = s]}
              /\ session[a] = NoSession
              /\ op'[a] = Idle /\ lockout_mem'[a] = s
              /\ UNCHANGED <<nextKey, minted, exports, running, session>>
  BY FailureWrites
<1>3. Dated(s)
  BY <1>2 DEF Dated
<1>4. AppInv(a)'
  BY <1>2, <1>3 DEF AppInv
<1>5. QED
  BY <1>1, <1>2, <1>3, <1>4, CountWritten

\* The unlock that succeeds starts a session on the vault it read, which is still the
\* one on disk, its count cleared or not (app.rs unlock, build_unlocked).
LEMMA SuccessWrites ==
    ASSUME LockInv, NEW a \in running, UnlockSucceeds(a)
    PROVE  /\ disk # NoVault /\ disk' \in {disk, [disk EXCEPT !.rl = NoFailures]}
           /\ disk' # NoVault /\ disk'.key = disk.key /\ disk'.rows = disk.rows
           /\ session[a] = NoSession /\ session'[a] # NoSession
           /\ session'[a].key = disk.key /\ session'[a].rows = disk.rows
           /\ op[a].kind \in UnlockKinds /\ op'[a] = Idle /\ lockout_mem'[a] = NoFailures
           /\ UNCHANGED <<nextKey, minted, exports, running>>
<1>1. /\ a \in Apps /\ op[a] # Idle /\ op[a].kind \in UnlockKinds
      /\ UNCHANGED <<nextKey, minted, exports, running>>
  BY DEF LockInv, IInv, TypeOK, UnlockSucceeds, Doing, UnlockKinds
<1>2. Functions /\ AppInv(a) /\ Part(a) /\ Whole
  BY <1>1, LockTypes
<1>3. disk # NoVault /\ op[a].vault = disk /\ session[a] = NoSession
  BY <1>1, <1>2 DEF AppInv, Part
<1>4. disk \in Vault /\ NoFailures \in LockoutState
  BY <1>1, <1>3, LockTypes, NoFailuresType
<1>5. /\ disk' \in {disk, [disk EXCEPT !.rl = NoFailures]} /\ op'[a] = Idle
      /\ lockout_mem'[a] = NoFailures /\ session'[a] = NewSession(disk)
  BY <1>1, <1>2, <1>3 DEF UnlockSucceeds, Stop, Functions
<1>6. disk' # NoVault /\ disk'.key = disk.key /\ disk'.rows = disk.rows
  <2>1. CASE disk' = disk
    BY <1>3, <2>1
  <2>2. CASE disk' = [disk EXCEPT !.rl = NoFailures]
    <3>1. disk' \in Vault
      BY <1>4, <2>2 DEF Vault
    <3>2. QED
      BY <1>4, <2>2, <3>1, HeaderKept, AppAssumption
  <2>3. QED
    BY <1>5, <2>1, <2>2
<1>7. session'[a] # NoSession
  BY <1>2, <1>4, <1>5, NewSessionType, AppAssumption DEF Whole
<1>8. QED
  BY <1>1, <1>3, <1>5, <1>6, <1>7 DEF NewSession

\* Starting a session keeps the invariant.
LEMMA SuccessKeeps ==
    ASSUME LockInv, NEW a \in running, UnlockSucceeds(a)
    PROVE  LockInv'
<1>1. AppStep(a)
  BY DEF AppStep, UnlockStep
<1>2. NoFailures \in LockoutState /\ Dated(NoFailures)
  BY NoFailuresType DEF Dated, NoFailures
<1>3. AppInv(a)'
  BY <1>2, SuccessWrites DEF AppInv
<1>4. QED
  BY <1>1, <1>2, <1>3, SuccessWrites, CountWritten

\* A new vault is coherent, under a key nobody has used, and holds nothing or the
\* entries of a recovery file (app.rs create_vault, import_recovery).
LEMMA ProvisionWrites ==
    ASSUME LockInv, NEW a \in Apps,
           \/ \E pw \in Passwords : CreateVault(a, pw)
           \/ \E x \in exports : ImportRecovery(a, x)
    PROVE  \E v \in Vault : /\ Provision(a, v) /\ Coherent(v) /\ v.key = nextKey /\ v.born = nextKey
                            /\ v.rl = NoFailures /\ Present(v.rows) \subseteq minted
                            /\ v.rows = NoRows \/ \E x \in exports : v.rows = x.recs
<1>1. FileInv /\ nextKey \in Nat \ {0} /\ exports \subseteq Export
  BY DEF LockInv, IInv, TypeOK
<1>2. ASSUME NEW pw \in Passwords, CreateVault(a, pw)
      PROVE  \E v \in Vault : /\ Provision(a, v) /\ Coherent(v) /\ v.key = nextKey /\ v.born = nextKey
                              /\ v.rl = NoFailures /\ Present(v.rows) \subseteq minted
                              /\ v.rows = NoRows
  <2>1. PICK v : v = Sealed(nextKey, pw, nextKey, nextKey, FALSE, NoRows, NoRows)
    OBVIOUS
  <2>2. v \in Vault
    BY <1>1, <2>1, SealedOpens DEF NoRows, Rows
  <2>3. Coherent(v) /\ v.key = nextKey /\ v.born = nextKey /\ v.rl = NoFailures /\ v.rows = NoRows
    BY <2>1 DEF Sealed, Coherent, NoRows
  <2>4. Present(v.rows) = {}
    BY <2>3 DEF Present, NoRows
  <2>5. QED
    BY <1>2, <2>1, <2>2, <2>3, <2>4 DEF CreateVault
<1>3. ASSUME NEW x \in exports, ImportRecovery(a, x)
      PROVE  \E v \in Vault : /\ Provision(a, v) /\ Coherent(v) /\ v.key = nextKey /\ v.born = nextKey
                              /\ v.rl = NoFailures /\ Present(v.rows) \subseteq minted
                              /\ v.rows = x.recs
  <2>1. PICK v : v = Sealed(nextKey, x.pw, x.seed, nextKey, FALSE, x.rows, x.recs)
    OBVIOUS
  <2>2. /\ x.pw \in Passwords /\ x.seed \in Nat /\ x.rows \in Rows /\ x.recs \in Rows
        /\ x.recs = x.rows /\ Present(x.rows) \subseteq minted
    BY <1>1 DEF Export, FileInv
  <2>3. v \in Vault
    BY <1>1, <2>1, <2>2, SealedOpens
  <2>4. Coherent(v) /\ v.key = nextKey /\ v.born = nextKey /\ v.rl = NoFailures /\ v.rows = x.rows
    BY <2>1, <2>2 DEF Sealed, Coherent
  <2>5. QED
    BY <1>3, <2>1, <2>2, <2>3, <2>4 DEF ImportRecovery
<1>4. QED
  BY <1>2, <1>3

\* Writing a new vault keeps the invariant: its session is its own, and no recovery file
\* of it has been delivered.
LEMMA ProvisionKeeps ==
    ASSUME LockInv, NEW a \in running,
           \/ \E pw \in Passwords : CreateVault(a, pw)
           \/ \E x \in exports : ImportRecovery(a, x)
    PROVE  LockInv'
<1>0. /\ a \in Apps /\ AppStep(a) /\ Functions /\ AppInv(a) /\ FileInv
      /\ nextKey \in Nat \ {0} /\ exports \subseteq Export
  <2>1. a \in Apps /\ nextKey \in Nat \ {0} /\ exports \subseteq Export
    BY DEF LockInv, IInv, TypeOK
  <2>2. QED
    BY <2>1, LockTypes DEF AppStep
<1>1. PICK v \in Vault : /\ Provision(a, v) /\ Coherent(v) /\ v.key = nextKey /\ v.born = nextKey
                         /\ v.rl = NoFailures /\ Present(v.rows) \subseteq minted
  BY <1>0, ProvisionWrites
<1>2. /\ disk' = v /\ nextKey' = nextKey + 1 /\ op'[a] = Idle
      /\ session'[a].key = v.key /\ session'[a].rows = v.rows
      /\ UNCHANGED <<minted, exports, running, lockout_mem>>
  BY <1>0, <1>1 DEF Provision, lockVars, Functions, Locked, Free, NewSession
<1>3. v # NoVault
  BY AppAssumption
<1>4. AppInv(a)'
  BY <1>0, <1>2, <1>3 DEF AppInv
<1>5. Dated(v.rl)
  BY <1>1 DEF Dated, NoFailures
<1>6. \A x \in exports : x.born # v.born
  BY <1>0, <1>1 DEF FileInv, Export
<1>7. QED
  BY <1>0, <1>1, <1>2, <1>4, <1>5, <1>6, WriteKeeps

\* What a session hands to the vault it has written (persist_and_refresh)
LEMMA RefreshedSession ==
    ASSUME Functions, NEW a \in Apps, session[a] \in Session, NEW w, session' = Refreshed(a, w)
    PROVE  session'[a].key = w.key /\ session'[a].rows = w.rows
<1>1. session'[a] = [[session[a] EXCEPT !.key = w.key] EXCEPT !.rows = w.rows]
  BY DEF Refreshed, Functions
<1>2. QED
  BY <1>1 DEF Session

\* An edit is applied to the vault on disk, which is still the one it read, and changes
\* one row of it (unlocked.rs upsert_entry, remove_entry).
LEMMA EditWrites ==
    ASSUME LockInv, NEW a \in running, EditCommit(a)
    PROVE  \E w \in Vault :
              /\ disk # NoVault /\ disk' = w /\ Coherent(w)
              /\ w.key = disk.key /\ w.rl = disk.rl
              /\ w.born = disk.born /\ w.exported = disk.exported
              /\ op[a] \in EditOp /\ op[a] # Idle /\ op[a].kind \in EditKinds
              /\ w.rows = [disk.rows EXCEPT ![op[a].id] = op[a].ver]
              /\ disk.rows[op[a].id] = Absent <=> op[a].kind = "add"
              /\ op[a].kind = "add" => op[a].id \in minted
              /\ op[a].kind = "remove" => op[a].ver = Absent
<1>1. a \in Apps /\ op[a] # Idle /\ op[a].kind \in EditKinds /\ op[a].kind \notin UnlockKinds
  BY DEF LockInv, IInv, TypeOK, EditCommit, Doing, EditKinds, UnlockKinds
<1>2. AppInv(a) /\ Part(a) /\ FileInv /\ op[a] \in EditOp
  BY <1>1, LockTypes, OpTypes DEF LockInv, IInv
<1>3. /\ disk # NoVault /\ op[a].vault = disk /\ session[a] # NoSession /\ session[a].key = disk.key
      /\ op[a].id \in Ids /\ op[a].ver \in Versions \cup {Absent} /\ disk \in Vault
      /\ Coherent(disk)
      /\ op[a].kind = "add" => disk.rows[op[a].id] = Absent /\ op[a].id \in minted
      /\ op[a].kind = "update" => disk.rows[op[a].id] # Absent
      /\ op[a].kind = "remove" => op[a].ver = Absent
  BY <1>1, <1>2, LockTypes DEF AppInv, Part, EditOp, FileInv
<1>4. CASE op[a].kind = "remove"
  <2>1. PICK w : w = Removed(disk, op[a].id)
    OBVIOUS
  <2>2. disk' = w /\ disk.env[op[a].id] # NoEnvelope
    BY <1>3, <1>4, <2>1 DEF EditCommit
  <2>3. /\ Coherent(w) /\ w.rows = [disk.rows EXCEPT ![op[a].id] = Absent]
        /\ w.key = disk.key /\ w.rl = disk.rl /\ w.born = disk.born /\ w.exported = disk.exported
    BY <1>3, <2>1, RemovedCoherent
  <2>4. w \in Vault
    BY <1>3, <2>1, RemovedOpens DEF LockInv, IInv, VaultOpens
  <2>5. disk.rows[op[a].id] # Absent
    BY <1>3, <2>2 DEF Coherent
  <2>6. QED
    BY <1>1, <1>2, <1>3, <1>4, <2>2, <2>3, <2>4, <2>5
<1>5. CASE op[a].kind # "remove"
  <2>1. op[a].ver \in Versions /\ SealsWith(disk, disk.key) /\ op[a].ver # Absent
    BY <1>1, <1>2, <1>3, <1>5 DEF Part, EditKinds, SealsWith
  <2>2. PICK w : w = Upserted(disk, disk.key, op[a].id, op[a].ver)
    OBVIOUS
  <2>3. disk' = w
    BY <1>3, <1>5, <2>2 DEF EditCommit
  <2>4. /\ Coherent(w) /\ w.rows = [disk.rows EXCEPT ![op[a].id] = op[a].ver]
        /\ w.key = disk.key /\ w.rl = disk.rl /\ w.born = disk.born /\ w.exported = disk.exported
    BY <1>3, <2>1, <2>2, UpsertedCoherent
  <2>5. w \in Vault
    BY <1>3, <2>1, <2>2, UpsertedOpens DEF LockInv, IInv, VaultOpens
  <2>6. disk.rows[op[a].id] = Absent <=> op[a].kind = "add"
    BY <1>1, <1>3, <1>5 DEF EditKinds
  <2>7. QED
    BY <1>1, <1>2, <1>3, <1>5, <2>3, <2>4, <2>5, <2>6
<1>6. QED
  BY <1>4, <1>5

\* Applying an edit keeps the invariant: the session takes over the result
\* (unlocked.rs persist_and_refresh).
LEMMA EditKeeps ==
    ASSUME LockInv, NEW a \in running, EditCommit(a)
    PROVE  LockInv'
<1>1. /\ a \in Apps /\ AppStep(a) /\ op[a] # Idle /\ op[a].kind \notin UnlockKinds
      /\ UNCHANGED <<nextKey, minted, exports, running, lockout_mem>>
  BY DEF LockInv, IInv, TypeOK, AppStep, EditStep, EditCommit, Doing, UnlockKinds, lockVars
<1>2. Functions /\ AppInv(a) /\ Part(a) /\ FileInv /\ nextKey \in Nat
  BY <1>1, LockTypes DEF LockInv, IInv, Whole
<1>3. PICK w \in Vault :
              /\ disk # NoVault /\ disk' = w /\ Coherent(w)
              /\ w.key = disk.key /\ w.rl = disk.rl
              /\ w.born = disk.born /\ w.exported = disk.exported
              /\ op[a] \in EditOp
              /\ w.rows = [disk.rows EXCEPT ![op[a].id] = op[a].ver]
              /\ disk.rows[op[a].id] = Absent <=> op[a].kind = "add"
              /\ op[a].kind = "add" => op[a].id \in minted
  BY EditWrites
<1>4. Present(w.rows) \subseteq minted
  <2>1. /\ disk.rows \in [Ids -> Versions \cup {Absent}] /\ Present(disk.rows) \subseteq minted
        /\ op[a].id \in Ids
    BY <1>1, <1>2, <1>3, LockTypes DEF FileInv, Vault, Rows, EditOp
  <2>2. op[a].id \in minted
    BY <1>3, <2>1 DEF Present
  <2>3. Present(w.rows) \subseteq Present(disk.rows) \cup {op[a].id}
    BY <1>3, <2>1 DEF Present
  <2>4. QED
    BY <2>1, <2>2, <2>3
<1>5. op'[a] = Idle /\ session'[a].key = w.key /\ session'[a].rows = w.rows
  <2>1. session' = Refreshed(a, w) /\ op'[a] = Idle /\ session[a] \in Session
    BY <1>1, <1>2, <1>3 DEF EditCommit, Stop, Functions, Part
  <2>2. QED
    BY <1>1, <1>2, <2>1, RefreshedSession
<1>6. w # NoVault
  BY AppAssumption
<1>7. AppInv(a)'
  BY <1>1, <1>2, <1>3, <1>5, <1>6 DEF AppInv
<1>8. /\ Dated(w.rl) /\ w.key < nextKey' /\ w.born < nextKey'
      /\ \A x \in exports : x.born = w.born => w.exported
  BY <1>1, <1>2, <1>3 DEF FileInv, ExportsKnown
<1>9. QED
  BY <1>1, <1>3, <1>4, <1>7, <1>8, WriteKeeps

\* A password change rebuilds the vault that is still the one on disk: the same entries
\* and the same export mark under a fresh key (unlocked.rs change_master_password,
\* reencrypt_vault).
LEMMA ChangeWrites ==
    ASSUME LockInv, NEW a \in running, NEW new \in Passwords, ChangeCommit(a, new)
    PROVE  \E w \in Vault :
              /\ disk # NoVault /\ disk' = w /\ Coherent(w) /\ w.key = nextKey
              /\ w.rows = disk.rows /\ w.rl = NoFailures
              /\ w.born = disk.born /\ w.exported = disk.exported
              /\ op[a] # Idle /\ op[a].kind \in ReauthKinds
<1>1. a \in Apps /\ op[a] # Idle /\ op[a].kind \in ReauthKinds /\ op[a].kind \notin UnlockKinds
  BY DEF LockInv, IInv, TypeOK, ChangeCommit, Doing, ReauthKinds, UnlockKinds
<1>2. AppInv(a) /\ Part(a) /\ FileInv /\ nextKey \in Nat \ {0}
  BY <1>1, LockTypes DEF LockInv, IInv, Whole
<1>3. /\ disk # NoVault /\ op[a].vault = disk /\ session[a].rows = disk.rows /\ disk \in Vault
  BY <1>1, <1>2, LockTypes DEF AppInv, Part
<1>4. /\ disk.seed \in Nat /\ disk.born \in Nat /\ disk.exported \in BOOLEAN
      /\ disk.rows \in Rows /\ Records(disk) = disk.rows
  BY <1>2, <1>3, CoherentRecords DEF Vault, FileInv
<1>5. PICK w : w = Sealed(nextKey, new, disk.seed, disk.born, disk.exported, disk.rows, disk.rows)
  OBVIOUS
<1>6. w \in Vault
  BY <1>2, <1>4, <1>5, SealedOpens
<1>7. disk' = w
  BY <1>3, <1>4, <1>5 DEF ChangeCommit, Rebuilt
<1>8. /\ Coherent(w) /\ w.key = nextKey /\ w.rows = disk.rows
      /\ w.born = disk.born /\ w.exported = disk.exported /\ w.rl = NoFailures
  BY <1>5 DEF Sealed, Coherent
<1>9. QED
  BY <1>1, <1>3, <1>6, <1>7, <1>8

\* A password change keeps the invariant.
LEMMA ChangeKeeps ==
    ASSUME LockInv, NEW a \in running, NEW new \in Passwords, ChangeCommit(a, new)
    PROVE  LockInv'
<1>1. /\ a \in Apps /\ AppStep(a) /\ op[a] # Idle /\ op[a].kind \notin UnlockKinds
      /\ nextKey' = nextKey + 1 /\ UNCHANGED <<minted, exports, running, lockout_mem>>
  BY DEF LockInv, IInv, TypeOK, AppStep, ReauthStep, ChangeCommit, Doing, UnlockKinds, lockVars
<1>2. Functions /\ AppInv(a) /\ Part(a) /\ FileInv /\ nextKey \in Nat \ {0}
  BY <1>1, LockTypes DEF LockInv, IInv, Whole
<1>3. PICK w \in Vault :
              /\ disk # NoVault /\ disk' = w /\ Coherent(w) /\ w.key = nextKey
              /\ w.rows = disk.rows /\ w.rl = NoFailures
              /\ w.born = disk.born /\ w.exported = disk.exported
  BY ChangeWrites
<1>4. op'[a] = Idle /\ session'[a].key = w.key /\ session'[a].rows = w.rows
  <2>1. session' = Refreshed(a, w) /\ op'[a] = Idle /\ session[a] \in Session
    BY <1>1, <1>2, <1>3 DEF ChangeCommit, Stop, Functions, Part
  <2>2. QED
    BY <1>1, <1>2, <2>1, RefreshedSession
<1>5. w # NoVault
  BY AppAssumption
<1>6. AppInv(a)'
  BY <1>1, <1>2, <1>3, <1>4, <1>5 DEF AppInv
<1>7. disk.born \in Nat
  BY <1>1, <1>3, LockTypes DEF Vault
<1>8. /\ Dated(w.rl) /\ w.key < nextKey' /\ w.born < nextKey'
      /\ Present(w.rows) \subseteq minted
      /\ \A x \in exports : x.born = w.born => w.exported
  BY <1>1, <1>2, <1>3, <1>7 DEF FileInv, ExportsKnown, Dated, NoFailures, Present
<1>9. QED
  BY <1>1, <1>3, <1>6, <1>8, WriteKeeps

\* What an export writes is the vault it read, marked, and what it delivers are that
\* vault's entries (unlocked.rs export_recovery).
LEMMA ExportWrites ==
    ASSUME LockInv, NEW a \in running, ExportCommit(a)
    PROVE  \E w, x :
              /\ w \in Vault
              /\ disk # NoVault /\ disk' = w
              /\ w.rl = disk.rl /\ w.key = disk.key /\ w.rows = disk.rows /\ w.env = disk.env
              /\ w.born = disk.born /\ w.exported
              /\ exports' \in {exports, exports \cup {x}}
              /\ x.rows = disk.rows /\ x.recs = disk.rows /\ x.born = disk.born
              /\ op[a] # Idle /\ op[a].kind \in ReauthKinds /\ op'[a] = Idle
<1> DEFINE recs == [id \in Ids |-> IF session[a].rows[id] = Absent THEN Absent
                                   ELSE Records(disk)[id]]
<1>1. a \in Apps /\ op[a] # Idle /\ op[a].kind \in ReauthKinds /\ op[a].kind \notin UnlockKinds
  BY DEF LockInv, IInv, TypeOK, ExportCommit, Doing, ReauthKinds, UnlockKinds
<1>2. Functions /\ AppInv(a) /\ FileInv /\ session[a] # NoSession
  BY <1>1, LockTypes DEF Part
<1>3. disk # NoVault /\ op[a].vault = disk /\ disk \in Vault /\ session[a].rows = disk.rows
  BY <1>1, <1>2, LockTypes DEF AppInv
<1>4. PICK x : x = [pw |-> disk.pw, seed |-> disk.seed, born |-> disk.born,
                    rows |-> session[a].rows, recs |-> recs]
  OBVIOUS
<1>5. disk' = [disk EXCEPT !.exported = TRUE] /\ exports' \in {exports, exports \cup {x}}
      /\ op'[a] = Idle
  BY <1>1, <1>2, <1>3, <1>4 DEF ExportCommit, Stop, Functions
<1>6. x.rows = disk.rows /\ x.recs = disk.rows /\ x.born = disk.born
  <2>1. Records(disk) = disk.rows /\ disk.rows \in [Ids -> Versions \cup {Absent}]
    BY <1>2, <1>3, CoherentRecords DEF FileInv, Vault, Rows
  <2>2. recs = disk.rows
    BY <1>3, <2>1
  <2>3. QED
    BY <1>3, <1>4, <2>2
<1>7. PICK w : w = disk'
  OBVIOUS
<1>8. /\ w.rl = disk.rl /\ w.key = disk.key /\ w.rows = disk.rows /\ w.env = disk.env
      /\ w.born = disk.born /\ w.exported
  BY <1>3, <1>5, <1>7, HeaderKept, NoFailuresType
<1>9. w \in Vault
  BY <1>3, <1>5, <1>7 DEF Vault
<1>10. QED
  BY <1>1, <1>3, <1>5, <1>6, <1>7, <1>8, <1>9

\* An export keeps the invariant.
LEMMA ExportKeeps ==
    ASSUME LockInv, NEW a \in running, ExportCommit(a)
    PROVE  LockInv'
<1>1. /\ a \in Apps /\ AppStep(a) /\ op[a] # Idle /\ op[a].kind \notin UnlockKinds
      /\ UNCHANGED <<nextKey, minted, running, session, lockout_mem>>
  BY DEF LockInv, IInv, TypeOK, AppStep, ReauthStep, ExportCommit, Doing, UnlockKinds, lockVars
<1>2. AppInv(a) /\ FileInv
  BY <1>1, LockTypes
<1>3. PICK w, x :
              /\ w \in Vault
              /\ disk # NoVault /\ disk' = w
              /\ w.rl = disk.rl /\ w.key = disk.key /\ w.rows = disk.rows /\ w.env = disk.env
              /\ w.born = disk.born /\ w.exported
              /\ exports' \in {exports, exports \cup {x}}
              /\ x.rows = disk.rows /\ x.recs = disk.rows /\ x.born = disk.born
              /\ op'[a] = Idle
  BY ExportWrites
<1>4. Coherent(disk)' /\ Dated(disk.rl)'
  <2>1. Coherent(w)
    BY <1>2, <1>3, SameEntries DEF FileInv
  <2>2. QED
    BY <1>2, <1>3, <2>1 DEF FileInv, Coherent, Dated
<1>5. FileInv'
  <2>1. /\ disk'.key < nextKey' /\ disk'.born < nextKey'
        /\ Present(disk'.rows) \subseteq minted'
    BY <1>1, <1>2, <1>3 DEF FileInv, Present
  <2>2. \A y \in exports' : y.recs = y.rows /\ y.born < nextKey' /\ Present(y.rows) \subseteq minted'
    BY <1>1, <1>2, <1>3 DEF FileInv, Present
  <2>3. ExportsKnown'
    BY <1>3, AppAssumption DEF ExportsKnown
  <2>4. QED
    BY <1>4, <2>1, <2>2, <2>3 DEF FileInv, Present
<1>6. w # NoVault
  BY <1>3, AppAssumption
<1>7. AppInv(a)'
  BY <1>1, <1>2, <1>3, <1>6, SMTT(30) DEF AppInv
<1>8. QED
  BY <1>1, <1>5, <1>7, LoneStep

-----------------------------------------------------------------------------
(* Every step *)

\* Only an open App takes a step other than being opened.
LEMMA Acts ==
    ASSUME NEW a \in Apps, AppStep(a)
    PROVE  Open(a) \/ a \in running
  BY DEF AppStep, Open, Exit, LockSession, CreateVault, ImportRecovery, Provision, UnlockStep,
         UnlockRefused, UnlockLoad, UnlockAborted, UnlockSucceeds, UnlockTotpAccepted,
         UnlockTotpRejected, UnlockWrongPassword, EditStep, AddLoad, UpdateLoad, RemoveLoad,
         CopyToClipboard, EditCommit, EditFailed, ReauthStep, ReauthLoad, ReauthFailed, ChangeCommit,
         ExportTotpAccepted, VerifyTotpCode, ExportCommit, Doing, Free, Locked, Unlocked

\* Every step preserves the invariant where files are locked.
LEMMA LockNext == ASSUME FileLock PROVE LockInv /\ [Next]_vars => LockInv'
<1> SUFFICES ASSUME LockInv, [Next]_vars PROVE LockInv'
  OBVIOUS
<1>1. ASSUME NEW a \in Apps, AppStep(a) PROVE LockInv'
  <2>1. CASE Open(a) \/ Exit(a)
    BY <2>1, OpenExitKeeps
  <2>2. CASE a \in running
    <3>1. CASE \/ LockSession(a)
               \/ \E pw \in Passwords : CreateVault(a, pw)
               \/ \E x \in exports : ImportRecovery(a, x)
      BY <2>2, <3>1, EndsQuietly, ProvisionKeeps
    <3>2. CASE UnlockStep(a)
      BY <2>2, <3>2, UnlockBegins, EndsQuietly, SuccessKeeps, AcceptsQuietly, FailureKeeps
         DEF UnlockStep
    <3>3. CASE EditStep(a)
      BY <2>2, <3>3, LoadBegins, CopyKeeps, EditKeeps, EndsQuietly DEF EditStep
    <3>4. CASE ReauthStep(a)
      BY <2>2, <3>4, LoadBegins, EndsQuietly, ChangeKeeps, AcceptsQuietly, ExportKeeps DEF ReauthStep
    <3>5. QED
      BY <1>1, <2>1, <3>1, <3>2, <3>3, <3>4 DEF AppStep
  <2>3. QED
    BY <1>1, <2>1, <2>2, Acts
<1>2. CASE Tick \/ StepBack \/ UNCHANGED vars
  <2>1. IInv'
    BY <1>2, ClockStep DEF LockInv
  <2>2. UNCHANGED <<fileVars, running, session, op, lockVars>>
    BY <1>2 DEF Tick, StepBack, vars
  <2>3. UNCHANGED <<disk, nextKey, minted, exports, running, session, op, lockout_mem>>
    BY <2>2 DEF fileVars, lockVars
  <2>4. QED
    BY <2>1, <2>3 DEF LockInv, LoneApp, FileInv, ExportsKnown, Coherent, Dated, AppInv, WaitedOut
<1>3. QED
  BY <1>1, <1>2 DEF Next, AppStep

\* One App at a time, whose copy of the vault is the vault on disk from the moment it
\* reads it to the moment it writes it back (storage.rs InstanceLock; app.rs,
\* unlocked.rs): what the theorems below follow from.
THEOREM LockInvariant == ASSUME FileLock PROVE Spec => []LockInv
  BY LockInit, LockNext, PTL DEF Spec

-----------------------------------------------------------------------------
(* The theorems under the lock *)

\* Every vault written holds, for each row of its index, the record of the same edit
\* under the vault's own key, and nothing else (vault.rs check_index_envelope_sets;
\* unlocked.rs reencrypt_vault).
THEOREM VaultStaysCoherent == ASSUME FileLock PROVE Spec => []VaultCoherent
<1>1. LockInv => VaultCoherent
  BY DEF LockInv, FileInv, VaultCoherent
<1>2. QED
  BY <1>1, LockInvariant, PTL

\* A live session lists what is in the vault and holds the key that opens it, whatever
\* failed or was cancelled before (unlocked.rs persist_and_refresh,
\* change_master_password).
THEOREM SessionStaysCurrent == ASSUME FileLock PROVE Spec => []SessionCurrent
<1>1. LockInv => SessionCurrent
  BY DEF LockInv, AppInv, SessionCurrent
<1>2. QED
  BY <1>1, LockInvariant, PTL

\* A vault of which a recovery file was delivered is marked as exported until it is
\* replaced, through password changes and failures (unlocked.rs export_recovery,
\* reencrypt_vault).
THEOREM ExportsStayKnown == ASSUME FileLock PROVE Spec => []ExportsKnown
<1>1. LockInv => ExportsKnown
  BY DEF LockInv, FileInv
<1>2. QED
  BY <1>1, LockInvariant, PTL

\* What a step can do to the failure record on disk
LEMMA CountSteps ==
    ASSUME LockInv, Next, disk # NoVault
    PROVE  \/ disk' = disk
           \/ disk'.key # disk.key
           \/ disk'.rl = disk.rl
           \/ /\ disk' \in {disk, [disk EXCEPT !.rl = NoFailures]}
              /\ \E a \in Apps : session[a] = NoSession /\ session'[a] # NoSession
           \/ \E s \in LockoutState, a \in Apps :
                 /\ disk' = [disk EXCEPT !.rl = s]
                 /\ s.counter >= disk.rl.counter /\ s.last = op[a].now
                 /\ op[a].vault = disk /\ op[a] \in UnlockOp /\ WaitedOut(op[a])
<1>0. running \subseteq Apps /\ Whole /\ FileInv
  BY IInvParts DEF LockInv, Whole
<1>1. ASSUME NEW a \in Apps,
             \/ \E pw \in Passwords : CreateVault(a, pw)
             \/ \E x \in exports : ImportRecovery(a, x)
      PROVE  disk'.key # disk.key
  <2>1. PICK v \in Vault : Provision(a, v) /\ v.key = nextKey
    BY <1>1, ProvisionWrites
  <2>2. disk'.key = nextKey /\ disk.key < nextKey /\ disk.key \in Nat /\ nextKey \in Nat
    BY <1>0, <2>1 DEF Provision, FileInv, Whole, Vault
  <2>3. QED
    BY <2>2
<1>2. ASSUME NEW a \in running,
             \/ \E code \in Codes : UnlockTotpRejected(a, code)
             \/ \E pw \in Passwords : UnlockWrongPassword(a, pw)
      PROVE  \/ disk' = disk
             \/ \E s \in LockoutState, b \in Apps :
                 /\ disk' = [disk EXCEPT !.rl = s]
                 /\ s.counter >= disk.rl.counter /\ s.last = op[b].now
                 /\ op[b].vault = disk /\ op[b] \in UnlockOp /\ WaitedOut(op[b])
  <2>1. a \in Apps /\ op[a] # Idle /\ op[a].kind \in UnlockKinds
    BY <1>0, <1>2 DEF UnlockTotpRejected, UnlockWrongPassword, Doing, UnlockKinds
  <2>2. op[a] \in UnlockOp
    BY <2>1, OpTypes DEF LockInv, IInv
  <2>3. PICK s \in LockoutState :
              /\ s.counter >= disk.rl.counter /\ s.last = op[a].now
              /\ op[a].vault = disk /\ WaitedOut(op[a])
              /\ disk' \in {disk, [disk EXCEPT !.rl = s]}
    BY <1>2, FailureWrites
  <2>4. QED
    BY <2>1, <2>2, <2>3
<1>3. ASSUME NEW a \in running, UnlockSucceeds(a)
      PROVE  /\ disk' \in {disk, [disk EXCEPT !.rl = NoFailures]}
             /\ \E b \in Apps : session[b] = NoSession /\ session'[b] # NoSession
  BY <1>0, <1>3, SuccessWrites
<1>4. ASSUME NEW a \in running, EditCommit(a) PROVE disk'.rl = disk.rl
  BY <1>4, EditWrites
<1>5. ASSUME NEW a \in running, NEW new \in Passwords, ChangeCommit(a, new)
      PROVE  disk'.key # disk.key
  <2>1. disk'.key = nextKey
    BY <1>5, ChangeWrites
  <2>2. disk.key < nextKey /\ disk.key \in Nat /\ nextKey \in Nat
    BY <1>0 DEF FileInv, Whole, Vault
  <2>3. QED
    BY <2>1, <2>2
<1>6. ASSUME NEW a \in running, ExportCommit(a) PROVE disk'.rl = disk.rl
  BY <1>6, ExportWrites
<1>7. ASSUME NEW a \in Apps,
             \/ Open(a) \/ Exit(a) \/ LockSession(a)
             \/ UnlockRefused(a) \/ UnlockLoad(a) \/ UnlockAborted(a)
             \/ \E code \in Codes : UnlockTotpAccepted(a, code)
             \/ \E id \in Ids, ver \in Versions : AddLoad(a, id, ver) \/ UpdateLoad(a, id, ver)
             \/ \E id \in Ids : RemoveLoad(a, id) \/ CopyToClipboard(a, id)
             \/ EditFailed(a) \/ ReauthFailed(a)
             \/ ReauthLoad(a, "change") \/ ReauthLoad(a, "export")
             \/ \E code \in Codes : ExportTotpAccepted(a, code) \/ VerifyTotpCode(a, code)
      PROVE  disk' = disk
  BY <1>7 DEF Open, Exit, LockSession, UnlockRefused, UnlockLoad, UnlockAborted, UnlockTotpAccepted,
         AddLoad, UpdateLoad, RemoveLoad, CopyToClipboard, EditFailed, ReauthFailed, ReauthLoad,
         ExportTotpAccepted, VerifyTotpCode, fileVars
<1>8. ASSUME Tick \/ StepBack PROVE disk' = disk
  BY <1>8 DEF Tick, StepBack, fileVars
<1>9. ASSUME NEW a \in Apps, AppStep(a), ~ Open(a) PROVE a \in running
  BY <1>9, Acts
<1>10. QED
  BY <1>1, <1>2, <1>3, <1>4, <1>5, <1>6, <1>7, <1>8, <1>9
     DEF Next, AppStep, UnlockStep, EditStep, ReauthStep

\* The failure count of a vault goes down only when somebody gets in or when it is
\* rebuilt under a new key: no failed write, crash or cancelled operation clears it
\* (app.rs record_failure, unlock step 8).
THEOREM CountStaysKept == ASSUME FileLock PROVE Spec => CountKept
<1> DEFINE P == disk # NoVault /\ disk' # NoVault /\ disk'.rl.counter < disk.rl.counter
                => \/ disk'.key # disk.key
                   \/ \E a \in Apps : session[a] = NoSession /\ session'[a] # NoSession
<1>1. ASSUME LockInv, Next PROVE P
  <2>1. SUFFICES ASSUME disk # NoVault, disk'.rl.counter < disk.rl.counter,
                        disk'.key = disk.key,
                        ~ \E a \in Apps : session[a] = NoSession /\ session'[a] # NoSession
                 PROVE  FALSE
    OBVIOUS
  <2>2. disk \in Vault /\ disk.rl.counter \in Nat
    BY <1>1, <2>1, IInvParts, LockoutAssumption DEF LockInv, Whole, Vault, LockoutState
  <2>3. disk' = disk \/ disk'.rl = disk.rl
           \/ \E s \in LockoutState : disk' = [disk EXCEPT !.rl = s] /\ s.counter >= disk.rl.counter
    BY <1>1, <2>1, CountSteps
  <2>4. disk'.rl.counter >= disk.rl.counter
    BY <2>2, <2>3 DEF Vault
  <2>5. disk'.rl.counter \in Int
    BY <2>2, <2>3, LockoutAssumption DEF Vault, LockoutState
  <2>6. QED
    BY <2>1, <2>2, <2>4, <2>5
<1>2. ASSUME LockInv, UNCHANGED vars PROVE P
  <2>1. disk' = disk
    BY <1>2 DEF vars, fileVars
  <2>2. disk # NoVault => disk.rl.counter \in Nat
    BY <1>2, IInvParts, LockoutAssumption DEF LockInv, Whole, Vault, LockoutState
  <2>3. QED
    BY <2>1, <2>2
<1>3. QED
  BY <1>1, <1>2, LockInvariant, PTL DEF Spec, CountKept

\* Two failures recorded in one vault are at least the window of the first apart,
\* whether the process that saw the first still runs or not (app.rs unlock, lockout.rs
\* remaining): the record an unlock leaves is dated when its window was already over.
THEOREM FailuresStaySpaced == ASSUME FileLock PROVE Spec => FailuresSpaced
<1> DEFINE P == /\ disk # NoVault /\ disk' # NoVault
                /\ disk'.key = disk.key
                /\ disk'.rl # disk.rl /\ disk'.rl # NoFailures
                /\ LockoutWindow(disk.rl.counter) > 0
                => disk'.rl.last >= disk.rl.last + LockoutWindow(disk.rl.counter)
<1>1. ASSUME LockInv, Next PROVE P
  <2>1. SUFFICES ASSUME disk # NoVault, disk'.key = disk.key, disk'.rl # disk.rl,
                        disk'.rl # NoFailures, LockoutWindow(disk.rl.counter) > 0
                 PROVE  disk'.rl.last >= disk.rl.last + LockoutWindow(disk.rl.counter)
    OBVIOUS
  <2>2. disk \in Vault
    BY <1>1, <2>1, IInvParts DEF LockInv, Whole
  <2>3. disk' # [disk EXCEPT !.rl = NoFailures]
    BY <2>1, <2>2 DEF Vault
  <2>4. PICK s \in LockoutState, a \in Apps :
              /\ disk' = [disk EXCEPT !.rl = s] /\ s.last = op[a].now
              /\ op[a].vault = disk /\ WaitedOut(op[a])
    BY <1>1, <2>1, <2>3, CountSteps
  <2>5. disk'.rl = s
    BY <2>2, <2>4 DEF Vault
  <2>6. QED
    BY <2>1, <2>4, <2>5 DEF WaitedOut
<1>2. ASSUME LockInv, UNCHANGED vars PROVE P
  BY <1>2 DEF vars, fileVars
<1>3. QED
  BY <1>1, <1>2, LockInvariant, PTL DEF Spec, FailuresSpaced

-----------------------------------------------------------------------------
(* The refinement: every step of an App is one step of the map of entries *)
(* (EntryStore), or none.                                               *)

Edits == [a \in Apps |-> EditOf(a)]
Saved == {x.recs : x \in exports}

\* The entries of the vault are the rows of its index: every one decrypts to the
\* record of its row (vault.rs check_index_envelope_sets, decrypt_entry).
LEMMA EntriesAreRows ==
    ASSUME LockInv
    PROVE  /\ disk = NoVault => Entries = NoVault
           /\ disk # NoVault => Entries = disk.rows /\ Entries # NoVault /\ disk \in Vault
<1>1. disk # NoVault => disk \in Vault /\ Coherent(disk)
  BY IInvParts DEF LockInv, Whole, FileInv
<1>2. disk # NoVault => disk.rows \in Rows
  BY <1>1 DEF Vault
<1>3. QED
  BY <1>1, <1>2, CoherentRecords, AppAssumption DEF Entries

\* The same of the next state
LEMMA EntriesAreRowsNext ==
    ASSUME LockInv'
    PROVE  /\ disk' = NoVault => Entries' = NoVault
           /\ disk' # NoVault => Entries' = disk'.rows
<1>1. disk' # NoVault => disk' \in Vault /\ Coherent(disk)'
  <2>1. IInv' /\ FileInv'
    BY DEF LockInv
  <2>2. QED
    BY <2>1 DEF IInv, TypeOK, FileInv
<1>2. ASSUME NEW w, w = disk', w # NoVault PROVE Entries' = w.rows
  <2>1. w \in Vault /\ Coherent(w)
    BY <1>1, <1>2 DEF Coherent
  <2>2. StoredEntries(w) = w.rows
    BY <2>1, CoherentRecords
  <2>3. QED
    BY <1>2, <2>2 DEF Entries, StoredEntries
<1>3. QED
  BY <1>2 DEF Entries

\* A step of one App changes at most its own pending edit.
LEMMA EditsChange ==
    ASSUME IInv, NEW a \in Apps, AppStep(a)
    PROVE  Edits' = [Edits EXCEPT ![a] = EditOf(a)']
<1>1. \A b \in Apps \ {a} : op'[b] = op[b]
  BY OthersUntouched DEF Untouched
<1>2. \A b \in Apps \ {a} : EditOf(b)' = EditOf(b)
  BY <1>1 DEF EditOf
<1>3. QED
  BY <1>2 DEF Edits

\* A step that keeps the entries, the pending edit and the copies is not seen.
LEMMA NotSeen ==
    ASSUME IInv, NEW a \in Apps, AppStep(a),
           Entries' = Entries, EditOf(a)' = EditOf(a), Saved' = Saved
    PROVE  UNCHANGED Store!vars
<1>1. Edits' = Edits
  BY EditsChange DEF Edits
<1>2. QED
  BY <1>1 DEF Store!vars, Edits, Saved

\* Nor is one that leaves the file and the copies alone, if the App is not in the
\* middle of an edit before it or after it.
LEMMA NoEdit ==
    ASSUME IInv, NEW a \in Apps, AppStep(a), Entries' = Entries, Saved' = Saved,
           op[a] # Idle => op[a].kind \notin EditKinds,
           op'[a] # Idle => op'[a].kind \notin EditKinds
    PROVE  UNCHANGED Store!vars
  BY NotSeen DEF EditOf, EditKinds

-----------------------------------------------------------------------------
(* The steps *)

\* A new vault replaces the entries by none or by those of a recovery file.
LEMMA StoreReplaced ==
    ASSUME LockInv, LockInv', NEW a \in running,
           \/ \E pw \in Passwords : CreateVault(a, pw)
           \/ \E x \in exports : ImportRecovery(a, x)
    PROVE  Store!Replace
<1>1. a \in Apps
  BY DEF LockInv, IInv, TypeOK
<1>2. PICK v \in Vault : /\ Provision(a, v)
                         /\ v.rows = NoRows \/ \E x \in exports : v.rows = x.recs
  BY <1>1, ProvisionWrites
<1>3. disk' = v /\ op' = op /\ exports' = exports
  BY <1>2 DEF Provision
<1>4. Entries' = v.rows
  BY <1>3, EntriesAreRowsNext, AppAssumption
<1>5. Edits' = Edits /\ Saved' = Saved
  BY <1>3 DEF Edits, EditOf, Saved
<1>6. QED
  BY <1>2, <1>4, <1>5 DEF Store!Replace, Store!Empty, NoRows, Edits, Saved

\* The load of an edit submits it.
LEMMA StoreSubmitted ==
    ASSUME LockInv, LockInv', NEW a \in running,
           \/ \E id \in Ids, ver \in Versions : AddLoad(a, id, ver) \/ UpdateLoad(a, id, ver)
           \/ \E id \in Ids : RemoveLoad(a, id)
    PROVE  \E r \in Store!Request : Store!Submit(a, r)
<1>0. a \in Apps /\ IInv /\ Functions /\ AppStep(a)
  BY LockTypes DEF LockInv, IInv, TypeOK, AppStep, EditStep
<1>1. PICK r, o : /\ r \in Store!Request
                 /\ op' = [op EXCEPT ![a] = o] /\ o # Idle /\ o.kind \in EditKinds
                 /\ r = [kind |-> o.kind, id |-> o.id, ver |-> o.ver]
  <2>1. ASSUME NEW id \in Ids, NEW ver \in Versions, NEW kind \in {"add", "update"},
               op' = [op EXCEPT ![a] = [kind |-> kind, vault |-> disk, id |-> id, ver |-> ver]],
               disk \in Vault
        PROVE  \E r, o :
                  /\ r \in Store!Request
                  /\ op' = [op EXCEPT ![a] = o] /\ o # Idle /\ o.kind \in EditKinds
                  /\ r = [kind |-> o.kind, id |-> o.id, ver |-> o.ver]
    <3>1. PICK o : o = [kind |-> kind, vault |-> disk, id |-> id, ver |-> ver]
      OBVIOUS
    <3>2. o # Idle
      BY <2>1, <3>1, AppAssumption DEF EditOp
    <3>3. [kind |-> o.kind, id |-> o.id, ver |-> o.ver] \in Store!Request
      BY <2>1, <3>1 DEF Store!Request
    <3>4. o.kind \in EditKinds
      BY <2>1, <3>1 DEF EditKinds
    <3>5. QED
      BY <2>1, <3>1, <3>2, <3>3, <3>4
  <2>2. ASSUME NEW id \in Ids, disk \in Vault,
               op' = [op EXCEPT ![a] = [kind |-> "remove", vault |-> disk, id |-> id, ver |-> Absent]]
        PROVE  \E r, o :
                  /\ r \in Store!Request
                  /\ op' = [op EXCEPT ![a] = o] /\ o # Idle /\ o.kind \in EditKinds
                  /\ r = [kind |-> o.kind, id |-> o.id, ver |-> o.ver]
    <3>1. PICK o : o = [kind |-> "remove", vault |-> disk, id |-> id, ver |-> Absent]
      OBVIOUS
    <3>2. o # Idle
      BY <2>2, <3>1, AppAssumption DEF EditOp
    <3>3. [kind |-> o.kind, id |-> o.id, ver |-> o.ver] \in Store!Request
      BY <2>2, <3>1 DEF Store!Request
    <3>4. o.kind \in EditKinds
      BY <3>1 DEF EditKinds
    <3>5. QED
      BY <2>2, <3>1, <3>2, <3>3, <3>4
  <2>3. disk \in Vault
    BY EntriesAreRows DEF AddLoad, UpdateLoad, RemoveLoad, Load
  <2>4. QED
    BY <2>1, <2>2, <2>3 DEF AddLoad, UpdateLoad, RemoveLoad, Load
<1>2. op[a] = Idle /\ disk # NoVault /\ UNCHANGED <<disk, exports>>
  BY DEF AddLoad, UpdateLoad, RemoveLoad, Load, Unlocked, Free, fileVars
<1>3. Edits[a] = Idle
  BY <1>0, <1>2 DEF Edits, EditOf
<1>4. Edits' = [Edits EXCEPT ![a] = r]
  <2>1. op'[a] = o
    BY <1>0, <1>1 DEF Functions
  <2>2. EditOf(a)' = r
    BY <1>1, <2>1 DEF EditOf, EditKinds
  <2>3. QED
    BY <1>0, <2>2, EditsChange
<1>5. Entries # NoVault /\ Entries' = Entries /\ Saved' = Saved
  BY <1>2, EntriesAreRows DEF Entries, Saved
<1>6. Store!Submit(a, r)
  BY <1>3, <1>4, <1>5 DEF Store!Submit, Edits, Saved
<1>7. QED
  BY <1>1, <1>6

\* A commit applies the edit to the entries as they are.
LEMMA StoreApplied ==
    ASSUME LockInv, LockInv', NEW a \in running, EditCommit(a)
    PROVE  Store!Apply(a)
<1>0. a \in Apps /\ IInv /\ Functions /\ AppStep(a)
  BY LockTypes DEF LockInv, IInv, TypeOK, AppStep, EditStep
<1>1. PICK w \in Vault :
              /\ disk # NoVault /\ disk' = w
              /\ op[a] \in EditOp /\ op[a] # Idle /\ op[a].kind \in EditKinds
              /\ w.rows = [disk.rows EXCEPT ![op[a].id] = op[a].ver]
              /\ disk.rows[op[a].id] = Absent <=> op[a].kind = "add"
  BY EditWrites
<1>2. PICK r : r = [kind |-> op[a].kind, id |-> op[a].id, ver |-> op[a].ver]
  OBVIOUS
<1>3. r.kind = op[a].kind /\ r.id = op[a].id /\ r.ver = op[a].ver /\ r # Idle
  <2>1. r \in Edit
    BY <1>1, <1>2 DEF Edit, EditOp
  <2>2. QED
    BY <1>2, <2>1, AppAssumption
<1>4. Edits[a] = r
  BY <1>0, <1>1, <1>2 DEF Edits, EditOf, EditKinds
<1>5. Entries = disk.rows /\ Entries' = [disk.rows EXCEPT ![r.id] = r.ver]
  BY <1>1, <1>3, EntriesAreRows, EntriesAreRowsNext, AppAssumption
<1>6. Edits' = [Edits EXCEPT ![a] = Idle] /\ Saved' = Saved
  <2>1. op'[a] = Idle /\ exports' = exports
    BY <1>0 DEF EditCommit, Stop, Functions
  <2>2. EditOf(a)' = Idle
    BY <2>1 DEF EditOf
  <2>3. QED
    BY <1>0, <2>1, <2>2, EditsChange DEF Saved
<1>7. QED
  BY <1>1, <1>3, <1>4, <1>5, <1>6 DEF Store!Apply, Edits, Saved

\* An edit that fails, or whose process ends, is refused.
LEMMA StoreRefused ==
    ASSUME LockInv, NEW a \in running, EditFailed(a) \/ Exit(a)
    PROVE  Store!Refuse(a) \/ UNCHANGED Store!vars
<1>0. a \in Apps /\ IInv /\ Functions /\ AppStep(a) /\ op'[a] = Idle
      /\ UNCHANGED <<disk, exports>>
  <2>1. a \in Apps /\ IInv /\ Functions
    BY LockTypes DEF LockInv, IInv, TypeOK
  <2>2. QED
    BY <2>1 DEF AppStep, EditStep, EditFailed, Exit, Stop, fileVars, Functions
<1>1. Edits' = [Edits EXCEPT ![a] = Idle]
  <2>1. EditOf(a)' = Idle
    BY <1>0 DEF EditOf
  <2>2. QED
    BY <1>0, <2>1, EditsChange
<1>2. Entries' = Entries /\ Saved' = Saved
  BY <1>0 DEF Entries, Saved
<1>3. CASE EditOf(a) = Idle
  BY <1>0, <1>1, <1>2, <1>3 DEF Store!vars, Edits, Saved
<1>4. CASE EditOf(a) # Idle
  BY <1>0, <1>1, <1>2, <1>4 DEF Store!Refuse, Edits, Saved
<1>5. QED
  BY <1>3, <1>4

\* An export saves the entries, or delivers nothing.
LEMMA StoreSaved ==
    ASSUME LockInv, LockInv', NEW a \in running, ExportCommit(a)
    PROVE  Store!Save \/ UNCHANGED Store!vars
<1>0. a \in Apps /\ IInv /\ AppStep(a)
  BY DEF LockInv, IInv, TypeOK, AppStep, ReauthStep
<1>1. PICK w, x :
              /\ w \in Vault /\ disk # NoVault /\ disk' = w /\ w.rows = disk.rows
              /\ exports' \in {exports, exports \cup {x}} /\ x.recs = disk.rows
              /\ op[a] # Idle /\ op[a].kind \in ReauthKinds /\ op'[a] = Idle
  BY ExportWrites
<1>2. Entries = disk.rows /\ Entries' = Entries /\ Entries # NoVault
  BY <1>1, EntriesAreRows, EntriesAreRowsNext, AppAssumption
<1>3. op[a].kind \notin EditKinds
  BY <1>1 DEF EditKinds, ReauthKinds
<1>4. CASE exports' = exports
  <2>1. Saved' = Saved
    BY <1>4 DEF Saved
  <2>2. QED
    BY <1>0, <1>1, <1>2, <1>3, <2>1, NoEdit
<1>5. CASE exports' = exports \cup {x}
  <2>1. Saved' = Saved \cup {Entries}
    BY <1>1, <1>2, <1>5 DEF Saved
  <2>2. EditOf(a)' = EditOf(a)
    BY <1>1, <1>3 DEF EditOf, EditKinds
  <2>3. Edits' = Edits
    BY <1>0, <2>2, EditsChange DEF Edits
  <2>4. QED
    BY <1>2, <2>1, <2>3 DEF Store!Save, Edits, Saved
<1>6. QED
  BY <1>1, <1>4, <1>5

\* An unlock, a password change, a code, a copy and the end of a session are not seen.
LEMMA StoreUnseen ==
    ASSUME LockInv, LockInv', NEW a \in running,
           \/ LockSession(a) \/ UnlockStep(a)
           \/ \E id \in Ids : CopyToClipboard(a, id)
           \/ ReauthStep(a) /\ ~ ExportCommit(a)
    PROVE  UNCHANGED Store!vars
<1>0. a \in Apps /\ IInv /\ Functions /\ AppStep(a)
  BY LockTypes DEF LockInv, IInv, TypeOK, AppStep, EditStep
<1>1. CASE op' = op /\ disk' = disk /\ exports' = exports
  <2>1. Entries' = Entries /\ EditOf(a)' = EditOf(a) /\ Saved' = Saved
    BY <1>1 DEF Entries, EditOf, Saved
  <2>2. QED
    BY <1>0, <2>1, NotSeen
<1>2. ASSUME disk' = disk \/ (disk' # NoVault /\ disk # NoVault /\ disk'.rows = disk.rows),
             exports' = exports,
             op[a] = Idle \/ op[a].kind \in UnlockKinds \cup ReauthKinds,
             op'[a] = Idle \/ op'[a].kind \in UnlockKinds \cup ReauthKinds
      PROVE  UNCHANGED Store!vars
  <2>1. Entries' = Entries
    BY <1>2, EntriesAreRows, EntriesAreRowsNext DEF Entries
  <2>2. Saved' = Saved
    BY <1>2 DEF Saved
  <2>3. /\ op[a] # Idle => op[a].kind \notin EditKinds
        /\ op'[a] # Idle => op'[a].kind \notin EditKinds
    BY <1>2 DEF UnlockKinds, ReauthKinds, EditKinds
  <2>4. QED
    BY <1>0, <2>1, <2>2, <2>3, NoEdit
<1>3. CASE \/ LockSession(a) \/ UnlockRefused(a)
           \/ \E id \in Ids : CopyToClipboard(a, id)
           \/ \E code \in Codes : VerifyTotpCode(a, code)
  BY <1>1, <1>3 DEF LockSession, UnlockRefused, CopyToClipboard, VerifyTotpCode, fileVars
<1>4. CASE UnlockLoad(a)
  <2>1. op[a] = Idle /\ disk' = disk /\ exports' = exports /\ op'[a].kind = "unlock"
    BY <1>0, <1>4 DEF UnlockLoad, Locked, Free, fileVars, Functions
  <2>2. QED
    BY <1>2, <2>1 DEF UnlockKinds
<1>5. CASE ReauthLoad(a, "change") \/ ReauthLoad(a, "export")
  <2>1. op[a] = Idle /\ disk' = disk /\ exports' = exports /\ op'[a].kind \in {"change", "export"}
    BY <1>0, <1>5 DEF ReauthLoad, Load, Unlocked, Free, fileVars, Functions
  <2>2. QED
    BY <1>2, <2>1 DEF ReauthKinds
<1>6. CASE UnlockAborted(a) \/ ReauthFailed(a)
  <2>1. /\ op[a].kind \in UnlockKinds \cup ReauthKinds /\ disk' = disk /\ exports' = exports
        /\ op'[a] = Idle
    BY <1>0, <1>6 DEF UnlockAborted, ReauthFailed, Doing, Stop, fileVars, Functions, UnlockKinds,
           ReauthKinds
  <2>2. QED
    BY <1>2, <2>1
<1>7. CASE \E code \in Codes : UnlockTotpAccepted(a, code) \/ ExportTotpAccepted(a, code)
  <2>1. /\ op[a] # Idle /\ op[a].kind \in {"unlock", "export"} /\ disk' = disk /\ exports' = exports
        /\ op'[a] \in {[op[a] EXCEPT !.kind = "unlockTotp"], [op[a] EXCEPT !.kind = "exportTotp"]}
    BY <1>0, <1>7 DEF UnlockTotpAccepted, ExportTotpAccepted, Doing, fileVars, Functions
  <2>2. op[a] \in UnlockOp \cup ReauthOp
    BY <1>0, <2>1, OpTypes DEF IInv, UnlockKinds, ReauthKinds
  <2>3. op'[a].kind \in {"unlockTotp", "exportTotp"}
    BY <2>1, <2>2 DEF UnlockOp, ReauthOp
  <2>4. QED
    BY <1>2, <2>1, <2>3 DEF UnlockKinds, ReauthKinds
<1>8. CASE \/ \E code \in Codes : UnlockTotpRejected(a, code)
           \/ \E pw \in Passwords : UnlockWrongPassword(a, pw)
  <2>1. PICK s \in LockoutState :
              /\ disk # NoVault /\ disk' \in {disk, [disk EXCEPT !.rl = s]}
              /\ op[a].kind \in UnlockKinds /\ op'[a] = Idle /\ exports' = exports
    BY <1>8, FailureWrites
  <2>2. disk \in Vault
    BY <1>0, <2>1, LockTypes
  <2>3. disk' # NoVault /\ disk'.rows = disk.rows
    <3>1. disk' \in Vault /\ disk'.rows = disk.rows
      BY <2>1, <2>2 DEF Vault
    <3>2. QED
      BY <3>1, AppAssumption
  <2>4. QED
    BY <1>2, <2>1, <2>3
<1>9. CASE UnlockSucceeds(a)
  BY <1>2, <1>9, SuccessWrites
<1>10. CASE \E new \in Passwords : ChangeCommit(a, new)
  <2>1. PICK w \in Vault : /\ disk # NoVault /\ disk' = w /\ w.rows = disk.rows
                           /\ op[a] # Idle /\ op[a].kind \in ReauthKinds
    BY <1>10, ChangeWrites
  <2>2. op'[a] = Idle /\ exports' = exports
    BY <1>0, <1>10 DEF ChangeCommit, Stop, Functions
  <2>3. QED
    BY <1>2, <2>1, <2>2, AppAssumption
<1>11. QED
  BY <1>3, <1>4, <1>5, <1>6, <1>7, <1>8, <1>9, <1>10 DEF UnlockStep, ReauthStep

-----------------------------------------------------------------------------
(* The theorem *)

\* There is no vault and nothing is pending at first.
LEMMA StoreInit == Init => Store!Init
<1> SUFFICES ASSUME Init PROVE Store!Init
  OBVIOUS
<1>1. Entries = NoVault /\ Saved = {} /\ Edits = [a \in Apps |-> Idle]
  BY DEF Init, Entries, Saved, Edits, EditOf
<1>2. QED
  BY <1>1 DEF Store!Init, Edits, Saved

\* Every step of an App is a step of the map of entries, or is not seen by it.
LEMMA StoreStep ==
    ASSUME LockInv, LockInv', [Next]_vars
    PROVE  [Store!Next]_(Store!vars)
<1>1. ASSUME NEW a \in Apps, AppStep(a) PROVE [Store!Next]_(Store!vars)
  <2>1. CASE Open(a)
    <3>1. UNCHANGED <<disk, exports, op>>
      BY <2>1 DEF Open, fileVars
    <3>2. Entries' = Entries /\ EditOf(a)' = EditOf(a) /\ Saved' = Saved
      BY <3>1 DEF Entries, EditOf, Saved
    <3>3. QED
      BY <1>1, <3>2, NotSeen DEF LockInv
  <2>2. CASE a \in running
    <3>1. CASE \/ \E pw \in Passwords : CreateVault(a, pw)
               \/ \E x \in exports : ImportRecovery(a, x)
      BY <2>2, <3>1, StoreReplaced DEF Store!Next
    <3>2. CASE \/ \E id \in Ids, ver \in Versions : AddLoad(a, id, ver) \/ UpdateLoad(a, id, ver)
               \/ \E id \in Ids : RemoveLoad(a, id)
      BY <2>2, <3>2, StoreSubmitted DEF Store!Next
    <3>3. CASE EditCommit(a)
      BY <2>2, <3>3, StoreApplied DEF Store!Next
    <3>4. CASE EditFailed(a) \/ Exit(a)
      BY <2>2, <3>4, StoreRefused DEF Store!Next
    <3>5. CASE ExportCommit(a)
      BY <2>2, <3>5, StoreSaved DEF Store!Next
    <3>6. CASE \/ LockSession(a) \/ UnlockStep(a)
               \/ \E id \in Ids : CopyToClipboard(a, id)
               \/ ReauthStep(a) /\ ~ ExportCommit(a)
      BY <2>2, <3>6, StoreUnseen
    <3>7. QED
      BY <1>1, <2>1, <3>1, <3>2, <3>3, <3>4, <3>5, <3>6 DEF AppStep, EditStep
  <2>3. QED
    BY <1>1, <2>1, <2>2, Acts
<1>2. CASE Tick \/ StepBack \/ UNCHANGED vars
  <2>1. UNCHANGED <<disk, exports, op>>
    BY <1>2 DEF Tick, StepBack, vars, fileVars
  <2>2. Entries' = Entries /\ Edits' = Edits /\ Saved' = Saved
    BY <2>1 DEF Entries, Edits, EditOf, Saved
  <2>3. QED
    BY <2>2 DEF Store!vars, Edits, Saved
<1>3. QED
  BY <1>1, <1>2 DEF Next, AppStep

\* Each edit takes effect at one moment between its request and its answer, on the
\* entries as they are at that moment, and nothing else touches an entry: not a failed
\* or a cancelled operation, an unlock, a password change, an export or a crash
\* (unlocked.rs upsert_entry, remove_entry, reencrypt_vault; storage.rs InstanceLock).
THEOREM StoreImplemented == ASSUME FileLock PROVE Spec => EntriesLinearizable
<1>1. LockInv /\ LockInv' /\ [Next]_vars => [Store!Next]_(Store!vars)
  BY StoreStep
<1>2. QED
  BY StoreInit, <1>1, LockInvariant, PTL DEF Spec, EntriesLinearizable, Store!Spec
================================================================================

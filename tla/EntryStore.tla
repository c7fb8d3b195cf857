----------------------------- MODULE EntryStore -----------------------------
(***************************************************************************)
(* What passman promises about the entries of a vault: a map from ids to   *)
(* contents that changes only by the edits clients ask for, each applied   *)
(* whole at one moment, or by being replaced by a fresh map or by a saved  *)
(* copy of an earlier one.                                                 *)
(***************************************************************************)
CONSTANTS Clients, Ids, Contents, Absent, NoRequest, NoStore

VARIABLES
    store,    \* id |-> contents, or NoStore
    pending,  \* the edit each client waits for
    saved     \* the copies taken

vars == <<store, pending, saved>>

Empty == [id \in Ids |-> Absent]

Request == [kind : {"add", "update"}, id : Ids, ver : Contents]
           \cup [kind : {"remove"}, id : Ids, ver : {Absent}]

Init ==
    /\ store = NoStore
    /\ pending = [c \in Clients |-> NoRequest]
    /\ saved = {}

Submit(c, r) ==
    /\ pending[c] = NoRequest
    /\ store # NoStore
    /\ pending' = [pending EXCEPT ![c] = r]
    /\ UNCHANGED <<store, saved>>

\* Only what is there is updated or removed, only what is not there is added.
Apply(c) ==
    /\ pending[c] # NoRequest
    /\ (store[pending[c].id] = Absent) <=> (pending[c].kind = "add")
    /\ store' = [store EXCEPT ![pending[c].id] = pending[c].ver]
    /\ pending' = [pending EXCEPT ![c] = NoRequest]
    /\ UNCHANGED saved

Refuse(c) ==
    /\ pending[c] # NoRequest
    /\ pending' = [pending EXCEPT ![c] = NoRequest]
    /\ UNCHANGED <<store, saved>>

\* A copy is exact, and it is taken of the store as it is.
Save ==
    /\ store # NoStore
    /\ saved' = saved \cup {store}
    /\ UNCHANGED <<store, pending>>

Replace ==
    /\ store' \in {Empty} \cup saved
    /\ UNCHANGED <<pending, saved>>

Next ==
    \/ \E c \in Clients :
          \/ \E r \in Request : Submit(c, r)
          \/ Apply(c) \/ Refuse(c)
    \/ Save \/ Replace

Spec == Init /\ [][Next]_vars
=============================================================================

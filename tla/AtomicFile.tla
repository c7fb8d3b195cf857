----------------------------- MODULE AtomicFile -----------------------------
(***************************************************************************)
(* What passman promises about the vault file: a register whose value is   *)
(* replaced by one requested value at a time, each whole, or not at all.   *)
(* A power loss takes it back to a value it had since it was last known to *)
(* be on stable storage, and a client that dies leaves it as it is.        *)
(***************************************************************************)
CONSTANTS Clients, Contents, Missing, NoRequest

VARIABLES
    value,    \* what a reader sees
    kept,     \* what it may be after a power loss
    request   \* the replacement each client waits for

vars == <<value, kept, request>>

Request == [data : Contents, done : {"waiting", "applied", "refused"}]

Init ==
    /\ value = Missing
    /\ kept = {Missing}
    /\ request = [c \in Clients |-> NoRequest]

Waiting(c) == request[c] # NoRequest /\ request[c].done = "waiting"

Submit(c) ==
    /\ request[c] = NoRequest
    /\ \E d \in Contents :
           request' = [request EXCEPT ![c] = [data |-> d, done |-> "waiting"]]
    /\ UNCHANGED <<value, kept>>

Apply(c) ==
    /\ Waiting(c)
    /\ value' = request[c].data
    /\ kept' = kept \cup {value'}
    /\ request' = [request EXCEPT ![c].done = "applied"]

Refuse(c) ==
    /\ Waiting(c)
    /\ request' = [request EXCEPT ![c].done = "refused"]
    /\ UNCHANGED <<value, kept>>

\* The client goes on, or dies, with its request in any state.
Forget(c) ==
    /\ request' = [request EXCEPT ![c] = NoRequest]
    /\ UNCHANGED <<value, kept>>

Settle == kept' = {value} /\ UNCHANGED <<value, request>>

PowerLoss ==
    /\ value' \in kept
    /\ kept' = {value'}
    /\ request' = [c \in Clients |-> NoRequest]

\* Somebody else removes the file while no client is at work.
Remove ==
    /\ \A c \in Clients : request[c] = NoRequest
    /\ value' = Missing
    /\ kept' = {Missing}
    /\ UNCHANGED request

Next ==
    \/ \E c \in Clients : Submit(c) \/ Apply(c) \/ Refuse(c) \/ Forget(c)
    \/ Settle \/ PowerLoss \/ Remove

Spec == Init /\ [][Next]_vars
=============================================================================

----------------------------- MODULE BindingCall -----------------------------
(***************************************************************************)
(* The UniFFI binding (passman-uniffi, lib.rs) over the session worker:    *)
(* threads of the foreign program call one PassmanApp, whose mutex a call  *)
(* holds from its drain of the response queue until it has its answer.     *)
(* lock() and clear_clipboard() take the mutex only to send.               *)
(*                                                                         *)
(* Draining and sending are one step: what the worker answers in between   *)
(* is left in the queue, as what it answers just after the send is.        *)
(***************************************************************************)
EXTENDS SessionWorker

CONSTANTS
    Threads,
    MaxCalls     \* bound on the calls made

NoCall == [phase |-> "idle", kind |-> "none", id |-> 0]

Awaited == {"unlock", "op", "copy", "verify"}   \* go through call()
Posted  == {"clear", "lock"}                    \* fire and forget

ASSUME BindingAssumption == MaxCalls \in Nat /\ None \notin Threads

VARIABLES
    owner,    \* the thread that holds the mutex
    call,     \* what each thread is doing
    nextId,   \* the id of the next request
    dropped   \* the PassmanApp has been released

bindingVars == <<owner, call, nextId, dropped>>
vars == <<workerVars, bindingVars>>

TypeOK ==
    /\ WorkerTypeOK
    /\ owner \in Threads \cup {None}
    /\ call \in [Threads -> {NoCall} \cup [phase : {"wanting", "waiting"}, id : 1 .. MaxCalls,
                                           kind : Awaited \cup Posted]]
    /\ nextId \in 1 .. MaxCalls + 1
    /\ dropped \in BOOLEAN

Init ==
    /\ WorkerInit
    /\ owner = None
    /\ call = [t \in Threads |-> NoCall]
    /\ nextId = 1
    /\ dropped = FALSE

\* A thread calls an entry point.
Enter(t, kind) ==
    /\ ~dropped /\ call[t] = NoCall
    /\ nextId <= MaxCalls
    /\ call' = [call EXCEPT ![t] = [phase |-> "wanting", id |-> nextId, kind |-> kind]]
    /\ nextId' = nextId + 1
    /\ UNCHANGED <<workerVars, owner, dropped>>

Wants(t, kinds) == owner = None /\ call[t].phase = "wanting" /\ call[t].kind \in kinds

SendCall(t) ==
    \E s \in IF call[t].kind \in {"copy", "clear"} THEN Secrets ELSE {None} :
        Send(call[t].id, call[t].kind, s)

\* call(): take the mutex, discard what is in the response queue, send
SendAndWait(t) ==
    /\ Wants(t, Awaited)
    /\ owner' = t
    /\ responses' = <<>>
    /\ SendCall(t)
    /\ call' = [call EXCEPT ![t].phase = "waiting"]
    /\ UNCHANGED <<clock, session, current, clips, nextId, dropped>>

\* call(): the first response that arrives is the answer
Return(t) ==
    /\ owner = t
    /\ responses # <<>>
    /\ responses' = Tail(responses)
    /\ owner' = None
    /\ call' = [call EXCEPT ![t] = NoCall]
    /\ UNCHANGED <<clock, requests, session, current, clips, nextId, dropped>>

\* lock() and clear_clipboard()
Post(t) ==
    /\ Wants(t, Posted)
    /\ SendCall(t)
    /\ call' = [call EXCEPT ![t] = NoCall]
    /\ UNCHANGED <<clock, responses, session, current, clips, owner, nextId, dropped>>

\* The last reference is released, when no call runs; Session's Drop sends Quit.
DropApp ==
    /\ ~dropped /\ \A t \in Threads : call[t] = NoCall
    /\ nextId <= MaxCalls
    /\ dropped' = TRUE
    /\ Send(nextId, "quit", None)
    /\ nextId' = nextId + 1
    /\ UNCHANGED <<clock, responses, session, current, clips, owner, call>>

Thread(t) == SendAndWait(t) \/ Return(t) \/ Post(t)

Next ==
    \/ (Worker \/ Tick) /\ UNCHANGED bindingVars
    \/ \E t \in Threads : Thread(t) \/ \E kind \in Awaited \cup Posted : Enter(t, kind)
    \/ DropApp

\* A thread inside an entry point runs on when it can; entering one is its choice.
Spec ==
    /\ Init /\ [][Next]_vars
    /\ WorkerFairness
    /\ \A t \in Threads : WF_vars(Thread(t))

-----------------------------------------------------------------------------
(* Properties *)

Answered(t) == owner = t /\ owner' = None

\* No call is given an answer meant for another one: it gets its own, or the news
\* that the session is locked ("pairing stays one-to-one", lib.rs PassmanApp::call).
AnswersNotMixed ==
    [][\A t \in Threads : Answered(t)
          => \/ Head(responses).kind = "locked"
             \/ Head(responses).re.id = call[t].id]_vars

\* Every call returns, whatever state the worker is in when it gets the request
\* (worker.rs run_worker: each awaited request is answered; one that the unlocked
\* loop ignores is answered by the Locked at the session's end).
EveryCallReturns == \A t \in Threads : call[t] # NoCall ~> call[t] = NoCall

\* Releasing the app stops its worker, whichever loop it is in and whatever is still
\* queued before the Quit (worker.rs Session's Drop).
DropStops == dropped ~> mode = "stopped"
=============================================================================

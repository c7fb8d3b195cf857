-------------------------- MODULE BindingCall_proofs --------------------------
(***************************************************************************)
(* Proofs about BindingCall, for any number of threads and calls.          *)
(***************************************************************************)
EXTENDS BindingCall, SessionWorker_proofs

\* The types, and that the mutex is held by exactly the thread that waits for an answer.
BindingInv ==
    /\ TypeOK /\ WorkerInv
    /\ \A t \in Threads : owner = t <=> call[t].phase = "waiting"

Call == [phase : {"wanting", "waiting"}, id : 1 .. MaxCalls, kind : Awaited \cup Posted]

\* No call is made, and the mutex is free (PassmanApp::open).
LEMMA BindingInit == Init => BindingInv
<1> SUFFICES ASSUME Init PROVE BindingInv
  OBVIOUS
<1>1. WorkerInv
  BY WorkerInitInv DEF Init
<1>2. dropped \in BOOLEAN
  BY DEF Init
<1>3. nextId \in 1 .. MaxCalls + 1
  BY BindingAssumption DEF Init
<1>4. /\ call \in [Threads -> {NoCall} \cup Call] /\ owner = None
      /\ \A t \in Threads : call[t].phase # "waiting"
  BY DEF Init, NoCall
<1>5. TypeOK
  BY <1>1, <1>2, <1>3, <1>4 DEF TypeOK, WorkerInv, Call
<1>6. QED
  BY <1>1, <1>4, <1>5, BindingAssumption DEF BindingInv

\* A thread's request names a secret if it is a copy or a clear (PassmanApp::copy,
\* clear_clipboard).
LEMMA CallSends ==
    ASSUME BindingInv, NEW t \in Threads, call[t].phase = "wanting", SendCall(t),
           UNCHANGED <<clock, session, current, clips>>,
           responses' \in {responses, <<>>}
    PROVE  WorkerInv' /\ call[t] \in Call
<1>1. call[t] \in Call
  BY DEF BindingInv, TypeOK, Call, NoCall
<1>2. PICK s \in (IF call[t].kind \in {"copy", "clear"} THEN Secrets ELSE {None}) :
         Send(call[t].id, call[t].kind, s)
  BY DEF SendCall
<1>3. /\ call[t].id \in Nat \ {0} /\ call[t].kind \in Kinds
      /\ s \in Secrets \cup {None} /\ (call[t].kind \in {"copy", "clear"} => s \in Secrets)
  BY <1>1, <1>2, BindingAssumption DEF Call, Awaited, Posted, Kinds
<1>4. responses' \in Seq(Given) \cap Seq(Response)
  <2>1. responses \in Seq(Given) /\ responses \in Seq(Response)
    BY DEF BindingInv, WorkerInv, WorkerTypeOK
  <2>2. <<>> \in Seq(Given) /\ <<>> \in Seq(Response)
    OBVIOUS
  <2>3. QED
    BY <2>1, <2>2
<1>5. WorkerInv'
  BY <1>2, <1>3, <1>4, SendKeeps DEF BindingInv
<1>6. QED
  BY <1>1, <1>5

\* Every step keeps it: only a waiting thread gives the mutex back (PassmanApp::call).
LEMMA BindingNext == BindingInv /\ [Next]_vars => BindingInv'
<1> SUFFICES ASSUME BindingInv, [Next]_vars PROVE BindingInv'
  OBVIOUS
<1>0. /\ call \in [Threads -> {NoCall} \cup Call] /\ nextId \in 1 .. MaxCalls + 1 /\ MaxCalls \in Nat
      /\ NoCall.phase = "idle"
  BY BindingAssumption DEF BindingInv, TypeOK, Call, NoCall
<1>1. CASE (Worker \/ Tick) /\ UNCHANGED bindingVars
  <2>1. WorkerInv' /\ UNCHANGED <<owner, call, nextId, dropped>>
    BY <1>1, WorkerKeeps DEF BindingInv, bindingVars
  <2>2. QED
    BY <2>1 DEF BindingInv, TypeOK, WorkerInv
<1>2. CASE UNCHANGED vars
  <2>1. UNCHANGED <<owner, call, nextId, dropped>>
    BY <1>2 DEF vars, bindingVars
  <2>2. WorkerInv'
    BY <1>2 DEF vars, workerVars, channels, session, clips, BindingInv, WorkerInv, WorkerTypeOK
  <2>3. QED
    BY <2>1, <2>2 DEF BindingInv, TypeOK, WorkerInv
<1>3. ASSUME NEW t \in Threads, NEW c \in {NoCall} \cup Call, call' = [call EXCEPT ![t] = c],
             WorkerInv', owner' \in Threads \cup {None}, nextId' \in 1 .. MaxCalls + 1,
             dropped' = dropped,
             owner' = t <=> c.phase = "waiting",
             \A u \in Threads \ {t} : owner' = u <=> owner = u
      PROVE  BindingInv'
  <2>1. call' \in [Threads -> {NoCall} \cup Call] /\ call'[t] = c
        /\ \A u \in Threads \ {t} : call'[u] = call[u]
    BY <1>0, <1>3
  <2>2. TypeOK'
    BY <1>3, <2>1 DEF BindingInv, TypeOK, WorkerInv, Call
  <2>3. \A u \in Threads : owner' = u <=> call'[u].phase = "waiting"
    BY <1>3, <2>1 DEF BindingInv
  <2>4. QED
    BY <1>3, <2>2, <2>3 DEF BindingInv
<1>4. ASSUME NEW t \in Threads, NEW kind \in Awaited \cup Posted, Enter(t, kind)
      PROVE  BindingInv'
  <2>1. PICK c : c = [phase |-> "wanting", id |-> nextId, kind |-> kind]
    OBVIOUS
  <2>2. c \in Call /\ c.phase = "wanting" /\ call' = [call EXCEPT ![t] = c]
    BY <1>0, <1>4, <2>1 DEF Call, Enter
  <2>3. owner # t /\ owner' = owner /\ owner \in Threads \cup {None} /\ dropped' = dropped
    BY <1>0, <1>4 DEF Enter, BindingInv, TypeOK
  <2>4. nextId' \in 1 .. MaxCalls + 1
    BY <1>0, <1>4 DEF Enter
  <2>5. WorkerInv'
    BY <1>4 DEF Enter, workerVars, channels, session, clips, BindingInv, WorkerInv, WorkerTypeOK
  <2>6. QED
    BY <1>3, <2>2, <2>3, <2>4, <2>5
<1>5. ASSUME NEW t \in Threads, SendAndWait(t) PROVE BindingInv'
  <2>1. WorkerInv' /\ call[t] \in Call
    BY <1>5, CallSends DEF SendAndWait, Wants
  <2>2. PICK c : c = [call[t] EXCEPT !.phase = "waiting"]
    OBVIOUS
  <2>3. c \in Call /\ c.phase = "waiting" /\ call' = [call EXCEPT ![t] = c]
    BY <2>1, <2>2, <1>5 DEF Call, SendAndWait
  <2>4. owner = None /\ owner' = t /\ nextId' = nextId /\ dropped' = dropped
    BY <1>5 DEF SendAndWait, Wants
  <2>5. QED
    BY <1>0, <1>3, <2>1, <2>3, <2>4, BindingAssumption
<1>6. ASSUME NEW t \in Threads, Return(t) PROVE BindingInv'
  <2>1. WorkerInv'
    BY <1>6, TakeKeeps DEF Return, BindingInv
  <2>2. /\ owner = t /\ owner' = None /\ nextId' = nextId /\ dropped' = dropped
        /\ call' = [call EXCEPT ![t] = NoCall]
    BY <1>6 DEF Return
  <2>3. QED
    BY <1>0, <1>3, <2>1, <2>2, BindingAssumption
<1>7. ASSUME NEW t \in Threads, Post(t) PROVE BindingInv'
  <2>1. WorkerInv'
    BY <1>7, CallSends DEF Post, Wants
  <2>2. /\ owner = None /\ owner' = owner /\ nextId' = nextId /\ dropped' = dropped
        /\ call' = [call EXCEPT ![t] = NoCall]
    BY <1>7 DEF Post, Wants
  <2>3. QED
    BY <1>0, <1>3, <2>1, <2>2, BindingAssumption
<1>8. CASE DropApp
  <2>1. nextId \in Nat \ {0} /\ "quit" \in Kinds /\ nextId' \in 1 .. MaxCalls + 1
    BY <1>0, <1>8 DEF DropApp, Kinds
  <2>2. WorkerInv'
    BY <1>8, <2>1, SendKeeps DEF DropApp, BindingInv, WorkerInv, WorkerTypeOK
  <2>3. owner' = owner /\ call' = call /\ dropped' \in BOOLEAN
    BY <1>8 DEF DropApp
  <2>4. QED
    BY <2>1, <2>2, <2>3 DEF BindingInv, TypeOK, WorkerInv
<1>9. QED
  BY <1>1, <1>2, <1>4, <1>5, <1>6, <1>7, <1>8 DEF Next, Thread

\* The types, for any number of threads of the foreign program.
THEOREM BindingTypes == Spec => []TypeOK
<1>1. BindingInv => TypeOK
  BY DEF BindingInv
<1>2. Init /\ [][Next]_vars => []BindingInv
  BY BindingInit, BindingNext, PTL
<1>3. QED
  BY <1>1, <1>2, PTL DEF Spec

-----------------------------------------------------------------------------
(* The clipboard *)

OneSecret == \A s, t \in Secrets : s = t

\* A secret on the clipboard is the one the session remembers, unless a clear of it failed.
Remembered ==
    clipboard \in Secrets => missed # "no" \/ (mode = "unlocked" /\ live_cookie = clipboard)

\* Every step keeps that, if there is only one secret a clear can be for.
LEMMA RememberedNext ==
    ASSUME FactOverwrite, OneSecret, BindingInv, Remembered, [Next]_vars
    PROVE  Remembered'
<1>1. ASSUME UNCHANGED <<session, clips>> PROVE Remembered'
  BY <1>1 DEF Remembered, session, clips
<1>2. ASSUME NEW cookie, NEW which \in {"clear", "exit"}, Overwrite(cookie, which),
             clipboard \in Secrets => missed # "no" \/ cookie = clipboard
      PROVE  Remembered'
  BY <1>2, WorkerAssumption DEF Overwrite, Remembered
<1>3. CASE Worker \/ Tick
  <2>1. CASE Tick \/ Receive
    BY <1>1, <2>1 DEF Tick, Receive
  <2>2. CASE WipeOnExit
    BY <1>2, <2>2 DEF WipeOnExit, Remembered
  <2>3. CASE Handle
    <3>1. current # None /\ current.req \in Asked
      BY <2>3, HandleCases DEF BindingInv, WorkerInv
    <3>2. CASE mode = "locked" /\ UNCHANGED clips
      BY <3>2 DEF Remembered, clips
    <3>3. CASE Copy
      BY <3>3 DEF Copy, Remembered
    <3>4. CASE ClearClipboard
      <4>1. current.req.secret \in Secrets
        BY <3>1, <3>4 DEF ClearClipboard, InHand, Asked
      <4>2. QED
        BY <1>2, <3>4, <4>1 DEF ClearClipboard, OneSecret
    <3>5. CASE Stop /\ ~WipeOnExit
      BY <3>5 DEF Stop, Remembered, clips
    <3>6. CASE EndSession(current.req)
      BY <2>2, <3>6 DEF EndSession
    <3>7. UNCHANGED <<live_cookie, clips>> => UNCHANGED clips
      OBVIOUS
    <3>8. QED
      BY <1>1, <2>2, <2>3, <3>2, <3>3, <3>4, <3>5, <3>6, <3>7, HandleCases DEF BindingInv
  <2>4. CASE Compare
    BY <2>4 DEF Compare, session, Remembered
  <2>5. QED
    BY <1>3, <2>1, <2>2, <2>3, <2>4 DEF Worker, IdleTick, EndSession
<1>4. CASE \E t \in Threads : Thread(t) \/ \E kind \in Awaited \cup Posted : Enter(t, kind)
  BY <1>1, <1>4 DEF Thread, SendAndWait, Return, Post, Enter, workerVars
<1>5. CASE DropApp \/ UNCHANGED vars
  BY <1>1, <1>5 DEF DropApp, vars, workerVars
<1>6. QED
  BY <1>3, <1>4, <1>5 DEF Next

\* No secret outlives its session on the clipboard unless a clear of it could not reach the
\* clipboard, in whatever order the threads lock, clear, copy and release the app, as long as
\* every clear is of the secret that was copied and clears overwrite (worker.rs unlocked_loop,
\* Session's Drop).
THEOREM BindingStrandsNothing ==
    ASSUME FactOverwrite, OneSecret
    PROVE  Spec => []NothingStranded
<1>1. Init => Remembered
  BY WorkerAssumption DEF Init, WorkerInit, Remembered
<1>2. BindingInv /\ Remembered /\ [Next]_vars => Remembered'
  BY RememberedNext
<1>3. Remembered => NothingStranded
  BY DEF Remembered, NothingStranded
<1>4. Init /\ [][Next]_vars => [](BindingInv /\ Remembered)
  BY <1>1, <1>2, BindingInit, BindingNext, PTL
<1>5. QED
  BY <1>3, <1>4, PTL DEF Spec
===============================================================================

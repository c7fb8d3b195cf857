------------------------- MODULE SessionWorker_proofs -------------------------
(***************************************************************************)
(* Facts about the session worker that the proofs of both its shells use:  *)
(* what its steps do to the two channels, the session and the clipboard,   *)
(* for any number of requests, any secrets and any length of a session.    *)
(***************************************************************************)
EXTENDS SessionWorker, TLAPS

-----------------------------------------------------------------------------
(* Channels *)

\* Taking the first message of a channel leaves the others, one place nearer.
LEMMA Taken ==
    ASSUME NEW S, NEW q \in Seq(S), q # <<>>
    PROVE  /\ Tail(q) \in Seq(S) /\ Head(q) \in S /\ Head(q) = q[1] /\ 1 \in DOMAIN q
           /\ \A i \in DOMAIN Tail(q) : i + 1 \in DOMAIN q /\ Tail(q)[i] = q[i + 1]
           /\ \A i \in DOMAIN q : i # 1 => i - 1 \in DOMAIN Tail(q) /\ Tail(q)[i - 1] = q[i]
  OBVIOUS

\* Sending adds a message behind the others.
LEMMA Sent ==
    ASSUME NEW S, NEW q \in Seq(S), NEW x \in S
    PROVE  /\ Append(q, x) \in Seq(S)
           /\ DOMAIN Append(q, x) = DOMAIN q \cup {Len(q) + 1} /\ Len(q) + 1 \notin DOMAIN q
           /\ \A i \in DOMAIN q : Append(q, x)[i] = q[i]
           /\ Append(q, x)[Len(q) + 1] = x
           /\ \A i \in DOMAIN q : i < Len(q) + 1
  OBVIOUS

-----------------------------------------------------------------------------
(* The invariant of the worker under any client *)

\* The requests a client makes: a copy and a clear name a secret.
Asked == {r \in Request : r.kind \in {"copy", "clear"} => r.secret \in Secrets}

\* The responses the worker makes: a Copied answers a copy.
Given == {r \in Response : r.kind = "copied" => r.re \in Asked /\ r.re.kind = "copy"}

WorkerInv ==
    /\ WorkerTypeOK
    /\ requests \in Seq(Asked) /\ responses \in Seq(Given)
    /\ current \in [req : Asked, expired : BOOLEAN] \cup {None}

\* The worker starts locked, with nothing asked and nothing copied (run_worker).
LEMMA WorkerInitInv == WorkerInit => WorkerInv
<1> SUFFICES ASSUME WorkerInit PROVE WorkerInv
  OBVIOUS
<1>1. WorkerTypeOK
  BY WorkerAssumption DEF WorkerInit, WorkerTypeOK
<1>2. QED
  BY <1>1 DEF WorkerInit, WorkerInv

\* A client's request keeps the worker's invariant (the send of Session, and of the calls
\* of the binding).
LEMMA SendKeeps ==
    ASSUME WorkerInv, NEW id \in Nat \ {0}, NEW kind \in Kinds, NEW secret \in Secrets \cup {None},
           kind \in {"copy", "clear"} => secret \in Secrets,
           Send(id, kind, secret), responses' \in Seq(Given) \cap Seq(Response),
           UNCHANGED <<clock, session, current, clips>>
    PROVE  WorkerInv'
<1>1. PICK r : r = [id |-> id, kind |-> kind, secret |-> secret]
  OBVIOUS
<1>2. r \in Asked /\ r \in Request
  BY <1>1 DEF Asked, Request
<1>3. requests' = Append(requests, r)
  BY <1>1 DEF Send
<1>4. requests' \in Seq(Asked) /\ requests' \in Seq(Request)
  BY <1>2, <1>3 DEF WorkerInv, WorkerTypeOK
<1>5. QED
  BY <1>4 DEF WorkerInv, WorkerTypeOK, session, clips

\* So does taking a response.
LEMMA TakeKeeps ==
    ASSUME WorkerInv, responses # <<>>, responses' = Tail(responses),
           UNCHANGED <<clock, requests, session, current, clips>>
    PROVE  WorkerInv'
<1>1. responses' \in Seq(Given) /\ responses' \in Seq(Response)
  BY DEF WorkerInv, WorkerTypeOK
<1>2. QED
  BY <1>1 DEF WorkerInv, WorkerTypeOK, session, clips

\* What handling a request comes to (the arms of locked_loop and unlocked_loop): it is
\* answered or not with the session as it was, or it opens or ends the session, or it is
\* one of the two that touch the clipboard alone.
LEMMA HandleCases ==
    ASSUME WorkerInv, Handle
    PROVE  /\ current # None /\ current' = None /\ UNCHANGED <<clock, requests>>
           /\ \/ UNCHANGED <<responses, session, clips>>
              \/ UNCHANGED <<session, clips>>
                    /\ \E k \in {"unlockFailed", "ok", "error", "checked"} : Reply(k)
              \/ UNCHANGED <<session, clips>> /\ mode = "locked" /\ Reply("locked")
              \/ /\ mode = "locked" /\ mode' = "unlocked" /\ Reply("unlocked")
                 /\ expiry' \in 0 .. MaxClock /\ UNCHANGED <<live_cookie, clips>>
              \/ Copy \/ ClearClipboard
              \/ mode = "unlocked" /\ EndSession(current.req)
              \/ Stop
<1>1. current # None /\ current' = None /\ UNCHANGED <<clock, requests>>
  BY DEF Handle, TryUnlock, DropClear, RefuseLocked, Stop, LockNow, Operate, Copy,
         ClearClipboard, VerifyTotp, IgnoreUnlock, Over, InHand
<1>2. CASE TryUnlock
  <2>1. clock + SessionLength <= MaxClock => clock + SessionLength \in 0 .. MaxClock
    BY WorkerAssumption DEF WorkerInv, WorkerTypeOK
  <2>2. QED
    BY <1>1, <1>2, <2>1 DEF TryUnlock, session
<1>3. CASE DropClear \/ IgnoreUnlock
  BY <1>1, <1>3 DEF DropClear, IgnoreUnlock
<1>4. CASE RefuseLocked
  BY <1>1, <1>4 DEF RefuseLocked
<1>5. CASE LockNow
  BY <1>1, <1>5 DEF LockNow
<1>6. CASE Operate \/ VerifyTotp
  BY <1>1, <1>6 DEF Operate, VerifyTotp
<1>7. QED
  BY <1>1, <1>2, <1>3, <1>4, <1>5, <1>6 DEF Handle

\* A clear leaves one of the things a clipboard may hold, and says so (clear_clipboard_impl).
LEMMA OverwriteKeeps ==
    ASSUME WorkerInv, NEW cookie, NEW which \in {"clear", "exit"}, Overwrite(cookie, which)
    PROVE  /\ clipboard' \in Secrets \cup {Fact, Foreign} /\ clearing' = "no"
           /\ missed' \in {"no", "clear", "exit"}
           /\ clipboard' = clipboard \/ (clearing # "no" /\ clipboard' = Fact)
  BY DEF Overwrite, WorkerInv, WorkerTypeOK

\* Every step of the worker keeps its invariant.
LEMMA WorkerKeeps == ASSUME WorkerInv, Worker \/ Tick PROVE WorkerInv'
<1>1. CASE Tick
  BY <1>1, WorkerAssumption DEF Tick, WorkerInv, WorkerTypeOK, channels, session, clips
<1>2. CASE Receive
  <2>1. /\ requests # <<>> /\ requests' = Tail(requests)
        /\ UNCHANGED <<clock, responses, mode, expiry, live_cookie, clipboard, clearing, missed>>
    BY <1>2 DEF Receive, session, clips
  <2>2. PICK e \in BOOLEAN : e = (mode = "unlocked" /\ IsExpired)
    OBVIOUS
  <2>3. current' = [req |-> Head(requests), expired |-> e]
    BY <1>2, <2>2 DEF Receive
  <2>4. Head(requests) \in Asked /\ Head(requests) \in Request
    BY <2>1, Taken DEF WorkerInv, WorkerTypeOK
  <2>5. requests' \in Seq(Asked) /\ requests' \in Seq(Request)
    BY <2>1, Taken DEF WorkerInv, WorkerTypeOK
  <2>6. QED
    BY <2>1, <2>3, <2>4, <2>5 DEF WorkerInv, WorkerTypeOK
<1>3. ASSUME NEW re \in Asked \cup {None}, EndSession(re),
             UNCHANGED <<clock, requests>>, current' \in {current, None}
      PROVE  WorkerInv'
  <2>1. [re |-> re, kind |-> "locked"] \in Given /\ [re |-> re, kind |-> "locked"] \in Response
    BY <1>3 DEF Given, Response, Asked
  <2>2. responses' \in Seq(Given) /\ responses' \in Seq(Response)
    BY <1>3, <2>1 DEF EndSession, WorkerInv, WorkerTypeOK
  <2>3. /\ clipboard' \in Secrets \cup {Fact, Foreign} /\ clearing' = "no"
        /\ missed' \in {"no", "clear", "exit"}
    BY <1>3, OverwriteKeeps DEF EndSession, WipeOnExit
  <2>4. QED
    BY <1>3, <2>2, <2>3 DEF EndSession, WorkerInv, WorkerTypeOK
<1>4. CASE IdleTick
  BY <1>3, <1>4 DEF IdleTick
<1>5. CASE Handle
  <2>1. /\ current # None /\ current' = None /\ UNCHANGED <<clock, requests>>
        /\ current.req \in Asked /\ current.req \in Request
    BY <1>5, HandleCases DEF WorkerInv, WorkerTypeOK
  <2>2. ASSUME NEW k \in {"unlocked", "unlockFailed", "ok", "checked", "error", "locked"}, Reply(k)
        PROVE  responses' \in Seq(Given) /\ responses' \in Seq(Response)
    <3>1. [re |-> current.req, kind |-> k] \in Given /\ [re |-> current.req, kind |-> k] \in Response
      BY <2>1, <2>2 DEF Given, Response
    <3>2. QED
      BY <2>2, <3>1 DEF Reply, WorkerInv, WorkerTypeOK
  <2>3. CASE UNCHANGED <<responses, session, clips>>
    BY <2>1, <2>3 DEF WorkerInv, WorkerTypeOK, session, clips
  <2>4. CASE /\ UNCHANGED <<session, clips>>
             /\ \E k \in {"unlockFailed", "ok", "error", "checked", "locked"} : Reply(k)
    <3>1. responses' \in Seq(Given) /\ responses' \in Seq(Response)
      BY <2>2, <2>4
    <3>2. QED
      BY <2>1, <2>4, <3>1 DEF WorkerInv, WorkerTypeOK, session, clips
  <2>5. CASE /\ mode = "locked" /\ mode' = "unlocked" /\ Reply("unlocked")
             /\ expiry' \in 0 .. MaxClock /\ UNCHANGED <<live_cookie, clips>>
    <3>1. responses' \in Seq(Given) /\ responses' \in Seq(Response)
      BY <2>2, <2>5
    <3>2. QED
      BY <2>1, <2>5, <3>1 DEF WorkerInv, WorkerTypeOK, clips
  <2>6. CASE Copy
    <3>1. [re |-> current.req, kind |-> "copied"] \in Given \cap Response
      BY <2>1, <2>6 DEF Copy, InHand, Given, Response
    <3>2. responses' \in Seq(Given) /\ responses' \in Seq(Response)
      BY <2>6, <3>1 DEF Copy, Reply, WorkerInv, WorkerTypeOK
    <3>3. expiry' \in 0 .. MaxClock
      BY <2>6, WorkerAssumption DEF Copy, Shortened, WorkerInv, WorkerTypeOK
    <3>4. current.req.secret \in Secrets
      BY <2>1, <2>6 DEF Copy, InHand, Asked
    <3>5. QED
      BY <2>1, <2>6, <3>2, <3>3, <3>4 DEF Copy, WorkerInv, WorkerTypeOK
  <2>7. CASE ClearClipboard
    <3>1. /\ clipboard' \in Secrets \cup {Fact, Foreign} /\ clearing' = "no"
          /\ missed' \in {"no", "clear", "exit"}
      BY <2>7, OverwriteKeeps DEF ClearClipboard
    <3>2. QED
      BY <2>1, <2>7, <3>1 DEF ClearClipboard, WorkerInv, WorkerTypeOK
  <2>8. CASE mode = "unlocked" /\ EndSession(current.req)
    BY <1>3, <2>1, <2>8
  <2>9. CASE Stop
    <3>1. /\ clipboard' \in Secrets \cup {Fact, Foreign} /\ clearing' \in {"no", clearing}
          /\ missed' \in {"no", "clear", "exit"}
      BY <2>9, OverwriteKeeps DEF Stop, WipeOnExit, clips, WorkerInv, WorkerTypeOK
    <3>2. QED
      BY <2>1, <2>9, <3>1 DEF Stop, WorkerInv, WorkerTypeOK
  <2>10. QED
    BY <1>5, <2>3, <2>4, <2>5, <2>6, <2>7, <2>8, <2>9, HandleCases
<1>6. CASE Compare
  BY <1>6 DEF Compare, channels, session, WorkerInv, WorkerTypeOK
<1>7. QED
  BY <1>1, <1>2, <1>4, <1>5, <1>6 DEF Worker
===============================================================================

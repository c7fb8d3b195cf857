---------------------------- MODULE GtkShell_proofs ----------------------------
(***************************************************************************)
(* Proofs about GtkShell: the page follows the worker, and a secret does   *)
(* not outlive its session on the clipboard, for any number of requests    *)
(* and any lengths of the session and of the delay of a clear.             *)
(***************************************************************************)
EXTENDS GtkShell, SessionWorker_proofs

-----------------------------------------------------------------------------
(* Types *)

\* The shell never sends Quit while it runs.
ShellInv ==
    /\ TypeOK /\ WorkerInv
    /\ \A i \in DOMAIN requests : requests[i].kind # "quit"
    /\ current # None => current.req.kind # "quit"
    /\ mode # "stopped"

\* The steps of a client that append a request: a click, or a timer's clear.
ClientSends(kind, secret) ==
    /\ Send(1, kind, secret)
    /\ UNCHANGED <<clock, responses, session, current, clips, page>>
    /\ kind = "copy" => secret \in Secrets /\ (OverlappingCopies \/ ~CopyUnsettled) /\ timers' = timers
    /\ kind = "clear" => \E t \in timers : t.cookie = secret /\ timers' = timers \ {t}
    /\ kind \notin {"copy", "clear"} => secret = None /\ timers' = timers
    /\ waiting' \in BOOLEAN /\ sent' \in 0 .. MaxSent

\* What the shell does is a request, a response taken, a foreign write or nothing.
LEMMA ShellCases ==
    ASSUME ShellInv, [Next]_vars
    PROVE  \/ (Worker \/ Tick) /\ UNCHANGED shellVars
           \/ \E kind \in Kinds \ {"quit"}, secret \in Secrets \cup {None} : ClientSends(kind, secret)
           \/ HandleResponse \/ ForeignWrite \/ UNCHANGED vars
<1>1. ASSUME NEW kind \in {"unlock", "op", "verify", "lock"}, Click(kind, None), waiting' \in BOOLEAN
      PROVE  ClientSends(kind, None)
  BY <1>1, GtkAssumption DEF Click, ClientSends, ShellInv, TypeOK, session
<1>2. ASSUME NEW s \in Secrets, Click("copy", s), OverlappingCopies \/ ~CopyUnsettled, UNCHANGED waiting
      PROVE  ClientSends("copy", s)
  BY <1>2, GtkAssumption DEF Click, ClientSends, ShellInv, TypeOK, session
<1>3. ASSUME TimerFires PROVE \E s \in Secrets : ClientSends("clear", s)
  <2>1. PICK t \in timers :
           /\ timers' = timers \ {t} /\ Send(1, "clear", t.cookie)
           /\ UNCHANGED <<clock, responses, session, current, clips>>
           /\ UNCHANGED <<page, waiting, sent>>
    BY <1>3 DEF TimerFires
  <2>2. t.cookie \in Secrets /\ ClientSends("clear", t.cookie)
    BY <2>1 DEF ClientSends, ShellInv, TypeOK
  <2>3. QED
    BY <2>2
<1>4. CASE ClickUnlock \/ ClickOp
  BY <1>1, <1>4 DEF ClickUnlock, ClickOp, Kinds, ShellInv, TypeOK
<1>5. CASE ClickCopy
  BY <1>2, <1>5 DEF ClickCopy, Kinds
<1>6. CASE TimerFires
  BY <1>3, <1>6 DEF Kinds
<1>7. QED
  BY <1>4, <1>5, <1>6 DEF Next

\* A response is taken: what it answers, and the page and the timers after it.
LEMMA ResponseTaken ==
    ASSUME ShellInv, HandleResponse
    PROVE  /\ responses # <<>> /\ Head(responses) = responses[1] /\ 1 \in DOMAIN responses
           /\ Head(responses) \in Given /\ responses' = Tail(responses)
           /\ UNCHANGED <<clock, requests, mode, expiry, live_cookie, session, current, clips, sent>>
           /\ page' = IF Head(responses).kind = "unlocked" THEN "vault"
                      ELSE IF Head(responses).kind = "locked" THEN "gate" ELSE page
           /\ waiting' \in BOOLEAN
           /\ Head(responses).kind # "copied" => timers' = timers
           /\ Head(responses).kind = "copied" =>
                 /\ Head(responses).re \in Asked /\ Head(responses).re.kind = "copy"
                 /\ \A t \in timers' : t \in timers \/
                       (t.cookie = Head(responses).re.secret /\ t.due = clock + PostCopy)
<1>1. responses # <<>> /\ responses \in Seq(Given)
  BY DEF HandleResponse, ShellInv, WorkerInv
<1>2. Head(responses) = responses[1] /\ 1 \in DOMAIN responses /\ Head(responses) \in Given
  BY <1>1, Taken
<1>3. waiting' \in BOOLEAN
  <2>1. waiting' = (waiting /\ Head(responses).kind \notin {"unlocked", "unlockFailed"})
    BY DEF HandleResponse, Shown
  <2>2. QED
    BY <2>1
<1>4. QED
  BY <1>1, <1>2, <1>3 DEF HandleResponse, Shown, Given, session

\* The shell starts on the unlock page with nothing under way.
LEMMA ShellInit == Init => ShellInv
<1> SUFFICES ASSUME Init PROVE ShellInv
  OBVIOUS
<1>1. WorkerInv /\ requests = <<>> /\ current = None /\ mode = "locked"
  BY WorkerInitInv DEF Init, WorkerInit
<1>2. TypeOK
  <2>1. waiting \in BOOLEAN /\ page \in {"gate", "vault"} /\ timers = {} /\ sent = 0
    BY DEF Init
  <2>2. sent \in 0 .. MaxSent
    BY <2>1, GtkAssumption
  <2>3. QED
    BY <1>1, <2>1, <2>2 DEF TypeOK, WorkerInv
<1>3. QED
  BY <1>1, <1>2 DEF ShellInv

\* Every step keeps the types, and the worker is not stopped.
LEMMA ShellNext == ShellInv /\ [Next]_vars => ShellInv'
<1> SUFFICES ASSUME ShellInv, [Next]_vars PROVE ShellInv'
  OBVIOUS
<1>1. CASE (Worker \/ Tick) /\ UNCHANGED shellVars
  <2>1. WorkerInv'
    BY <1>1, WorkerKeeps DEF ShellInv
  <2>2. TypeOK'
    BY <1>1, <2>1 DEF ShellInv, TypeOK, WorkerInv, shellVars
  <2>3. CASE Tick
    BY <2>1, <2>2, <2>3 DEF Tick, ShellInv, channels, session
  <2>4. CASE Receive
    <3>1. /\ requests # <<>> /\ requests' = Tail(requests) /\ requests \in Seq(Asked) /\ mode' = mode
          /\ current'.req = Head(requests)
      BY <2>4 DEF Receive, session, ShellInv, WorkerInv
    <3>2. QED
      BY <2>1, <2>2, <3>1, Taken DEF ShellInv
  <2>5. CASE IdleTick \/ Compare
    BY <2>1, <2>2, <2>5 DEF IdleTick, EndSession, Compare, channels, session, ShellInv
  <2>6. CASE Handle
    <3>1. mode' \in {mode, "locked", "unlocked"}
      BY <2>6, HandleCases DEF ShellInv, Stop, InHand, EndSession, Copy, ClearClipboard, session
    <3>2. QED
      BY <2>1, <2>2, <2>6, <3>1, HandleCases DEF ShellInv
  <2>7. QED
    BY <1>1, <2>3, <2>4, <2>5, <2>6 DEF Worker
<1>2. ASSUME NEW kind \in Kinds \ {"quit"}, NEW secret \in Secrets \cup {None}, ClientSends(kind, secret)
      PROVE  ShellInv'
  <2>1. /\ Send(1, kind, secret) /\ UNCHANGED <<clock, responses, session, current, clips, page>>
        /\ mode' = mode
    BY <1>2 DEF ClientSends, session
  <2>2. kind \in {"copy", "clear"} => secret \in Secrets
    BY <1>2 DEF ClientSends, ShellInv, TypeOK
  <2>3. WorkerInv'
    BY <1>2, <2>1, <2>2, SendKeeps DEF ShellInv, WorkerInv, WorkerTypeOK
  <2>4. timers' \subseteq timers
    BY <1>2 DEF ClientSends
  <2>5. TypeOK'
    BY <1>2, <2>1, <2>3, <2>4 DEF ClientSends, ShellInv, TypeOK, WorkerInv
  <2>6. PICK r : r = [id |-> 1, kind |-> kind, secret |-> secret]
    OBVIOUS
  <2>7. r \in Request /\ r.kind # "quit" /\ requests' = Append(requests, r)
    BY <1>2, <2>1, <2>6 DEF Request, Send
  <2>8. \A i \in DOMAIN requests' : requests'[i].kind # "quit"
    BY <2>7, Sent DEF ShellInv, TypeOK, WorkerTypeOK
  <2>9. QED
    BY <2>1, <2>3, <2>5, <2>8 DEF ShellInv
<1>3. CASE HandleResponse
  <2>1. WorkerInv'
    BY <1>3, ResponseTaken, TakeKeeps DEF ShellInv
  <2>2. \A t \in timers' : t.cookie \in Secrets /\ t.due <= MaxClock + PostCopy
    <3>1. clock + PostCopy <= MaxClock + PostCopy
      BY WorkerAssumption DEF ShellInv, TypeOK, WorkerTypeOK
    <3>2. QED
      BY <1>3, <3>1, ResponseTaken DEF ShellInv, TypeOK, Asked
  <2>3. TypeOK'
    BY <1>3, <2>1, <2>2, ResponseTaken DEF ShellInv, TypeOK, WorkerInv
  <2>4. QED
    BY <1>3, <2>1, <2>3, ResponseTaken DEF ShellInv
<1>4. CASE ForeignWrite
  BY <1>4 DEF ForeignWrite, channels, session, shellVars, ShellInv, TypeOK, WorkerInv, WorkerTypeOK
<1>5. CASE UNCHANGED vars
  BY <1>5 DEF vars, workerVars, channels, session, clips, shellVars, ShellInv, TypeOK, WorkerInv,
              WorkerTypeOK
<1>6. QED
  BY <1>1, <1>2, <1>3, <1>4, <1>5, ShellCases

\* The types, for every setting: also with overlapping copies, or no fact to overwrite with.
THEOREM ShellTypes == Spec => []TypeOK
<1>1. ShellInv => TypeOK
  BY DEF ShellInv
<1>2. Init /\ [][Next]_vars => []ShellInv
  BY ShellInit, ShellNext, PTL
<1>3. QED
  BY <1>1, <1>2, PTL DEF Spec

-----------------------------------------------------------------------------
(* The page *)

PageKinds == {"unlocked", "locked"}

\* The kind of response that shows the page of the worker's mode
Owed == IF mode = "unlocked" THEN "unlocked" ELSE "locked"

\* The last response on its way that changes the page shows the state the worker is in, and
\* if there is none the page does already.
PageInv ==
    \/ /\ \A i \in DOMAIN responses : responses[i].kind \notin PageKinds
       /\ page = "vault" <=> mode = "unlocked"
    \/ \E i \in DOMAIN responses :
          /\ responses[i].kind = Owed
          /\ \A j \in DOMAIN responses : j > i => responses[j].kind \notin PageKinds

\* A response of another kind changes nothing of that.
LEMMA OtherResponse ==
    ASSUME ShellInv, PageInv, NEW r \in Response, r.kind \notin PageKinds,
           responses' = Append(responses, r), UNCHANGED <<page, mode>>
    PROVE  PageInv'
<1>1. responses \in Seq(Response) /\ \A i \in DOMAIN responses : i \in Nat
  BY DEF ShellInv, TypeOK, WorkerTypeOK
<1>2. /\ DOMAIN responses' = DOMAIN responses \cup {Len(responses) + 1}
      /\ Len(responses) + 1 \notin DOMAIN responses
      /\ \A i \in DOMAIN responses : responses'[i] = responses[i]
      /\ responses'[Len(responses) + 1] = r
  BY <1>1, Sent
<1>3. QED
  BY <1>2 DEF PageInv, Owed

\* A response of the kind owed settles it.
LEMMA OwedResponse ==
    ASSUME ShellInv, NEW r \in Response, r.kind = Owed', responses' = Append(responses, r)
    PROVE  PageInv'
<1>1. responses \in Seq(Response)
  BY DEF ShellInv, TypeOK, WorkerTypeOK
<1>2. PICK n : n = Len(responses) + 1
  OBVIOUS
<1>3. /\ n \in DOMAIN responses' /\ responses'[n] = r
      /\ \A j \in DOMAIN responses' : ~(j > n)
  BY <1>1, <1>2, Sent
<1>4. QED
  BY <1>3 DEF PageInv

\* Every step keeps it: the worker announces each change of its mode (drive_unlocked), and
\* the shell follows (handle_response).
LEMMA PageNext == ShellInv /\ PageInv /\ [Next]_vars => PageInv'
<1> SUFFICES ASSUME ShellInv, PageInv, [Next]_vars PROVE PageInv'
  OBVIOUS
<1>1. ASSUME UNCHANGED <<responses, page, mode>> PROVE PageInv'
  BY <1>1 DEF PageInv, Owed
<1>2. CASE (Worker \/ Tick) /\ UNCHANGED shellVars
  <2>1. UNCHANGED page
    BY <1>2 DEF shellVars
  <2>2. CASE Tick \/ Receive \/ Compare
    BY <1>1, <2>1, <2>2 DEF Tick, Receive, Compare, channels, session
  <2>3. ASSUME NEW re \in Request \cup {None}, EndSession(re) PROVE PageInv'
    <3>1. PICK r : r = [re |-> re, kind |-> "locked"]
      OBVIOUS
    <3>2. r \in Response /\ r.kind = Owed' /\ responses' = Append(responses, r)
      BY <2>3, <3>1 DEF EndSession, Response, Owed
    <3>3. QED
      BY <3>2, OwedResponse
  <2>4. CASE IdleTick
    BY <2>3, <2>4 DEF IdleTick
  <2>5. CASE Handle
    <3>0. current # None /\ current.req \in Request
      BY <2>5, HandleCases DEF ShellInv, TypeOK, WorkerTypeOK
    <3>1. ASSUME NEW k \in {"unlockFailed", "ok", "error", "checked", "copied"}, Reply(k), mode' = mode
          PROVE  PageInv'
      <4>1. PICK r : r = [re |-> current.req, kind |-> k]
        OBVIOUS
      <4>2. r \in Response /\ r.kind \notin PageKinds /\ responses' = Append(responses, r)
        BY <3>0, <3>1, <4>1 DEF Reply, Response, PageKinds
      <4>3. QED
        BY <2>1, <3>1, <4>2, OtherResponse
    <3>2. ASSUME NEW k \in PageKinds, Reply(k), k = Owed' PROVE PageInv'
      <4>1. PICK r : r = [re |-> current.req, kind |-> k]
        OBVIOUS
      <4>2. r \in Response /\ r.kind = Owed' /\ responses' = Append(responses, r)
        BY <3>0, <3>2, <4>1 DEF Reply, Response, PageKinds
      <4>3. QED
        BY <4>2, OwedResponse
    <3>3. CASE UNCHANGED <<responses, session, clips>>
      BY <1>1, <2>1, <3>3 DEF session
    <3>4. CASE /\ UNCHANGED <<session, clips>>
               /\ \E k \in {"unlockFailed", "ok", "error", "checked"} : Reply(k)
      BY <3>1, <3>4 DEF session
    <3>5. CASE UNCHANGED <<session, clips>> /\ mode = "locked" /\ Reply("locked")
      BY <3>2, <3>5 DEF session, PageKinds, Owed
    <3>6. CASE mode' = "unlocked" /\ Reply("unlocked")
      BY <3>2, <3>6 DEF PageKinds, Owed
    <3>7. CASE Copy
      BY <3>1, <3>7 DEF Copy
    <3>8. CASE ClearClipboard
      BY <1>1, <2>1, <3>8 DEF ClearClipboard
    <3>9. CASE EndSession(current.req)
      BY <2>3, <3>0, <3>9
    <3>10. ~Stop
      BY DEF Stop, InHand, ShellInv
    <3>11. QED
      BY <2>5, <3>3, <3>4, <3>5, <3>6, <3>7, <3>8, <3>9, <3>10, HandleCases DEF ShellInv
  <2>6. QED
    BY <1>2, <2>2, <2>4, <2>5 DEF Worker
<1>3. CASE \E kind \in Kinds \ {"quit"}, secret \in Secrets \cup {None} : ClientSends(kind, secret)
  BY <1>1, <1>3 DEF ClientSends, session
<1>4. CASE HandleResponse
  <2>1. /\ responses # <<>> /\ responses \in Seq(Given) /\ responses' = Tail(responses)
        /\ Head(responses) = responses[1] /\ mode' = mode
        /\ page' = IF Head(responses).kind = "unlocked" THEN "vault"
                   ELSE IF Head(responses).kind = "locked" THEN "gate" ELSE page
    BY <1>4, ResponseTaken DEF ShellInv, WorkerInv
  <2>2. /\ 1 \in DOMAIN responses /\ \A i \in DOMAIN responses : i \in Nat
        /\ \A i \in DOMAIN responses' : i + 1 \in DOMAIN responses /\ responses'[i] = responses[i + 1]
        /\ \A i \in DOMAIN responses : i # 1 =>
              i - 1 \in DOMAIN responses' /\ responses'[i - 1] = responses[i]
        /\ \A i \in DOMAIN responses' : i \in Nat \ {0}
    BY <2>1, Taken
  <2>3. CASE /\ \A i \in DOMAIN responses : responses[i].kind \notin PageKinds
             /\ page = "vault" <=> mode = "unlocked"
    BY <2>1, <2>2, <2>3 DEF PageInv, PageKinds
  <2>4. ASSUME NEW i \in DOMAIN responses, responses[i].kind = Owed,
               \A j \in DOMAIN responses : j > i => responses[j].kind \notin PageKinds
        PROVE  PageInv'
    <3>1. CASE i = 1
      <4>1. \A j \in DOMAIN responses' : responses'[j].kind \notin PageKinds
        BY <2>2, <2>4, <3>1
      <4>2. page' = "vault" <=> mode' = "unlocked"
        BY <2>1, <2>4, <3>1 DEF Owed
      <4>3. QED
        BY <4>1, <4>2 DEF PageInv
    <3>2. CASE i # 1
      <4>1. PICK n : n = i - 1
        OBVIOUS
      <4>2. n \in DOMAIN responses' /\ responses'[n].kind = Owed'
        BY <2>1, <2>2, <2>4, <3>2, <4>1 DEF Owed
      <4>3. \A j \in DOMAIN responses' : j > n => responses'[j].kind \notin PageKinds
        BY <2>2, <2>4, <4>1
      <4>4. QED
        BY <4>2, <4>3 DEF PageInv
    <3>3. QED
      BY <3>1, <3>2
  <2>5. QED
    BY <2>3, <2>4 DEF PageInv
<1>5. CASE ForeignWrite
  BY <1>1, <1>5 DEF ForeignWrite, channels, session, shellVars
<1>6. CASE UNCHANGED vars
  BY <1>1, <1>6 DEF vars, workerVars, channels, session, shellVars
<1>7. QED
  BY <1>2, <1>3, <1>4, <1>5, <1>6, ShellCases

\* With nothing on its way the shell shows the page of the worker's state, however the
\* user's clicks, the idle lock and the answers interleave (ui.rs handle_response,
\* worker.rs drive_unlocked).
THEOREM PageAlwaysFollows == Spec => []PageFollowsWorker
<1>1. Init => PageInv
  BY DEF Init, WorkerInit, PageInv
<1>2. PageInv => PageFollowsWorker
  BY DEF PageInv, PageFollowsWorker
<1>3. Init /\ [][Next]_vars => [](ShellInv /\ PageInv)
  BY <1>1, ShellInit, ShellNext, PageNext, PTL
<1>4. QED
  BY <1>2, <1>3, PTL DEF Spec

-----------------------------------------------------------------------------
(* The clipboard *)

\* A clear about to be handled is that of the secret on the clipboard, if there is one, and
\* so are the copies answered and the timers set; the secret has its cookie in the session.
Cookies ==
    /\ mode = "unlocked" /\ live_cookie = clipboard
    /\ \A i \in DOMAIN requests : requests[i].kind = "clear" => requests[i].secret = clipboard
    /\ current # None /\ current.req.kind = "clear" => current.req.secret = clipboard
    /\ \A i \in DOMAIN responses : responses[i].kind = "copied" => responses[i].re.secret = clipboard
    /\ \A t \in timers : t.cookie = clipboard

\* Nothing of an earlier copy is left to be done.
NoneAfter == timers = {} /\ \A i \in DOMAIN responses : responses[i].kind # "copied"

\* A copy not yet done is alone on its way.
CopyAlone ==
    /\ \A i \in DOMAIN requests : requests[i].kind = "copy" =>
          /\ \A j \in DOMAIN requests : requests[j].kind \in {"copy", "clear"} => j = i
          /\ NoneAfter
    /\ current # None /\ current.req.kind = "copy" =>
          /\ \A j \in DOMAIN requests : requests[j].kind \notin {"copy", "clear"}
          /\ NoneAfter

\* A secret on the clipboard has its cookie in the session, unless a clear of it failed.
ClipInv == (clipboard \in Secrets => Cookies \/ missed # "no") /\ CopyAlone

\* A step that adds no copy, no clear and no copied keeps the copies alone, and the cookies if
\* clipboard and session stay.
LEMMA NoCopyStep ==
    ASSUME ShellInv, ClipInv, UNCHANGED <<requests, timers>>, current' = current \/ current' = None,
           \/ responses' = responses
           \/ \E r \in Response : r.kind # "copied" /\ responses' = Append(responses, r)
    PROVE  /\ CopyAlone'
           /\ Cookies /\ UNCHANGED <<mode, live_cookie, clipboard>> => Cookies'
<1>1. responses \in Seq(Response)
  BY DEF ShellInv, TypeOK, WorkerTypeOK
<1>2. \A i \in DOMAIN responses' : responses'[i].kind = "copied" =>
         i \in DOMAIN responses /\ responses[i] = responses'[i]
  <2>1. CASE responses' = responses
    BY <2>1
  <2>2. ASSUME NEW r \in Response, r.kind # "copied", responses' = Append(responses, r)
        PROVE  \A i \in DOMAIN responses' : responses'[i].kind = "copied" =>
                  i \in DOMAIN responses /\ responses[i] = responses'[i]
    BY <1>1, <2>2, Sent
  <2>3. QED
    BY <2>1, <2>2
<1>3. NoneAfter => NoneAfter'
  BY <1>2 DEF NoneAfter
<1>4. CopyAlone'
  BY <1>3 DEF ClipInv, CopyAlone
<1>5. Cookies /\ UNCHANGED <<mode, live_cookie, clipboard>> => Cookies'
  BY <1>2 DEF Cookies
<1>6. QED
  BY <1>4, <1>5

\* A clear that is for the secret there, if a clear of it did not fail before, takes it away
\* or fails (clear_clipboard_impl).
LEMMA OverwriteClears ==
    ASSUME FactOverwrite, NEW cookie, NEW which \in {"clear", "exit"}, Overwrite(cookie, which),
           clipboard \in Secrets => cookie = clipboard \/ missed # "no"
    PROVE  clipboard' \in Secrets => missed' # "no"
  BY WorkerAssumption DEF Overwrite

\* A session ends with its secret wiped, or with the wipe failed (wipe_clipboard_on_exit).
LEMMA EndWipes ==
    ASSUME FactOverwrite, ShellInv, ClipInv, NEW re \in Request \cup {None}, EndSession(re),
           UNCHANGED <<requests, timers>>, current' = current \/ current' = None
    PROVE  ClipInv'
<1>1. PICK r : r = [re |-> re, kind |-> "locked"]
  OBVIOUS
<1>2. r \in Response /\ r.kind # "copied" /\ responses' = Append(responses, r)
  BY <1>1 DEF EndSession, Response
<1>3. clipboard' \in Secrets => missed' # "no"
  BY OverwriteClears DEF EndSession, WipeOnExit, ClipInv, Cookies
<1>4. CopyAlone'
  BY <1>2, NoCopyStep
<1>5. QED
  BY <1>3, <1>4 DEF ClipInv

\* Handling a request keeps it: a copy is alone when it is done, and a clear finds the secret
\* it is for (unlocked_loop).
LEMMA HandleClips ==
    ASSUME FactOverwrite, ShellInv, ClipInv, Handle, UNCHANGED shellVars
    PROVE  ClipInv'
<1>0. /\ current # None /\ current' = None /\ UNCHANGED <<requests, timers>>
      /\ current.req \in Request /\ current.req \in Asked
      /\ responses \in Seq(Response)
  BY HandleCases DEF ShellInv, TypeOK, WorkerTypeOK, WorkerInv, shellVars
<1>1. ASSUME NEW k \in {"unlocked", "unlockFailed", "ok", "error", "checked", "locked"}, Reply(k)
      PROVE  \E r \in Response : r.kind # "copied" /\ responses' = Append(responses, r)
  <2>1. PICK r : r = [re |-> current.req, kind |-> k]
    OBVIOUS
  <2>2. r \in Response /\ r.kind # "copied" /\ responses' = Append(responses, r)
    BY <1>0, <1>1, <2>1 DEF Reply, Response
  <2>3. QED
    BY <2>2
<1>2. CASE UNCHANGED <<responses, session, clips>>
  BY <1>0, <1>2, NoCopyStep DEF ClipInv, session, clips
<1>3. CASE /\ UNCHANGED <<session, clips>>
           /\ \E k \in {"unlockFailed", "ok", "error", "checked", "locked"} : Reply(k)
  <2>1. \E r \in Response : r.kind # "copied" /\ responses' = Append(responses, r)
    BY <1>1, <1>3
  <2>2. QED
    BY <1>0, <1>3, <2>1, NoCopyStep DEF ClipInv, session, clips
<1>4. CASE mode = "locked" /\ mode' = "unlocked" /\ Reply("unlocked") /\ UNCHANGED <<live_cookie, clips>>
  <2>1. clipboard' \in Secrets => missed' # "no"
    BY <1>4 DEF ClipInv, Cookies, clips
  <2>2. \E r \in Response : r.kind # "copied" /\ responses' = Append(responses, r)
    BY <1>1, <1>4
  <2>3. QED
    BY <1>0, <2>1, <2>2, NoCopyStep DEF ClipInv
<1>5. CASE Copy
  <2>1. PICK r : r = [re |-> current.req, kind |-> "copied"]
    OBVIOUS
  <2>2. /\ r \in Response /\ responses' = Append(responses, r) /\ r.re = current.req
        /\ current.req.kind = "copy" /\ mode' = "unlocked"
        /\ clipboard' = current.req.secret /\ live_cookie' = current.req.secret
    BY <1>0, <1>5, <2>1 DEF Copy, InHand, Reply, Response
  <2>3. /\ \A i \in DOMAIN requests : requests[i].kind \notin {"copy", "clear"}
        /\ timers = {} /\ \A i \in DOMAIN responses : responses[i].kind # "copied"
    BY <1>0, <2>2 DEF ClipInv, CopyAlone, NoneAfter
  <2>4. \A i \in DOMAIN responses' : responses'[i].kind = "copied" => responses'[i] = r
    BY <1>0, <2>2, <2>3, Sent
  <2>5. Cookies'
    BY <1>0, <2>2, <2>3, <2>4 DEF Cookies
  <2>6. CopyAlone'
    BY <1>0, <2>3 DEF CopyAlone
  <2>7. QED
    BY <2>5, <2>6 DEF ClipInv
<1>6. CASE ClearClipboard
  <2>1. clipboard' \in Secrets => missed' # "no"
    BY <1>6, OverwriteClears DEF ClearClipboard, InHand, ClipInv, Cookies
  <2>2. CopyAlone'
    BY <1>0, <1>6, NoCopyStep DEF ClearClipboard
  <2>3. QED
    BY <2>1, <2>2 DEF ClipInv
<1>7. CASE EndSession(current.req)
  BY <1>0, <1>7, EndWipes
<1>8. ~Stop
  BY DEF Stop, InHand, ShellInv
<1>9. QED
  BY <1>2, <1>3, <1>4, <1>5, <1>6, <1>7, <1>8, HandleCases DEF ShellInv

\* The worker takes a request in hand.
LEMMA ReceiveClips ==
    ASSUME ShellInv, ClipInv, Receive, UNCHANGED shellVars
    PROVE  ClipInv'
<1>1. /\ requests # <<>> /\ requests \in Seq(Request) /\ requests' = Tail(requests)
      /\ current = None /\ current' # None /\ current'.req = Head(requests)
      /\ UNCHANGED <<responses, mode, live_cookie, clipboard, missed, timers>>
  <2>1. current' \in [req : Asked, expired : BOOLEAN] \cup {None}
    BY WorkerKeeps DEF ShellInv, WorkerInv, Worker
  <2>2. PICK e \in BOOLEAN : e = (mode = "unlocked" /\ IsExpired)
    OBVIOUS
  <2>3. current' = [req |-> Head(requests), expired |-> e]
    BY <2>2 DEF Receive
  <2>4. requests # <<>> /\ requests \in Seq(Request)
    BY DEF Receive, ShellInv, TypeOK, WorkerTypeOK
  <2>5. current' # None
    BY <2>3, <2>4, Taken, WorkerAssumption
  <2>6. QED
    BY <2>3, <2>4, <2>5 DEF Receive, session, clips, shellVars
<1>2. /\ Head(requests) = requests[1] /\ 1 \in DOMAIN requests
      /\ \A i \in DOMAIN requests' : i + 1 \in DOMAIN requests /\ requests'[i] = requests[i + 1]
      /\ \A i \in DOMAIN requests' : i \in Nat \ {0}
  BY <1>1, Taken
<1>3. NoneAfter' = NoneAfter
  BY <1>1 DEF NoneAfter
<1>4. Cookies => Cookies'
  BY <1>1, <1>2 DEF Cookies
<1>5. CopyAlone'
  <2>1. ASSUME NEW i \in DOMAIN requests', requests'[i].kind = "copy"
        PROVE  /\ \A j \in DOMAIN requests' : requests'[j].kind \in {"copy", "clear"} => j = i
               /\ NoneAfter'
    <3>1. i + 1 \in DOMAIN requests /\ requests[i + 1].kind = "copy"
      BY <1>2, <2>1
    <3>2. /\ \A j \in DOMAIN requests : requests[j].kind \in {"copy", "clear"} => j = i + 1
          /\ NoneAfter
      BY <3>1 DEF ClipInv, CopyAlone
    <3>3. ASSUME NEW j \in DOMAIN requests', requests'[j].kind \in {"copy", "clear"} PROVE j = i
      <4>1. j + 1 = i + 1
        BY <1>2, <3>2, <3>3
      <4>2. QED
        BY <1>2, <4>1
    <3>4. QED
      BY <1>3, <3>2, <3>3
  <2>2. ASSUME current'.req.kind = "copy"
        PROVE  (\A j \in DOMAIN requests' : requests'[j].kind \notin {"copy", "clear"}) /\ NoneAfter'
    <3>1. /\ \A j \in DOMAIN requests : requests[j].kind \in {"copy", "clear"} => j = 1
          /\ NoneAfter
      BY <1>1, <1>2, <2>2 DEF ClipInv, CopyAlone
    <3>2. \A j \in DOMAIN requests' : j + 1 # 1
      BY <1>2
    <3>3. QED
      BY <1>2, <1>3, <3>1, <3>2
  <2>3. QED
    BY <2>1, <2>2 DEF CopyAlone
<1>6. QED
  BY <1>1, <1>4, <1>5 DEF ClipInv

\* A copy is asked for when none is unsettled; a timer sends the clear of its own cookie.
LEMMA ClientClips ==
    ASSUME OverlappingCopies = FALSE, ShellInv, ClipInv,
           NEW kind \in Kinds, NEW secret \in Secrets \cup {None}, ClientSends(kind, secret)
    PROVE  ClipInv'
<1>0. /\ UNCHANGED <<responses, mode, live_cookie, current, clipboard, missed>>
      /\ requests \in Seq(Request)
  BY DEF ClientSends, session, clips, ShellInv, TypeOK, WorkerTypeOK
<1>1. PICK r : r = [id |-> 1, kind |-> kind, secret |-> secret]
  OBVIOUS
<1>2. r \in Request /\ r.kind = kind /\ r.secret = secret /\ requests' = Append(requests, r)
  BY <1>1 DEF Request, ClientSends, Send
<1>3. PICK n : n = Len(requests) + 1
  OBVIOUS
<1>4. /\ DOMAIN requests' = DOMAIN requests \cup {n} /\ n \notin DOMAIN requests
      /\ \A i \in DOMAIN requests : requests'[i] = requests[i]
      /\ requests'[n] = r
  BY <1>0, <1>2, <1>3, Sent
<1>5. timers' \subseteq timers /\ (NoneAfter => NoneAfter')
  BY <1>0 DEF ClientSends, NoneAfter
<1>6. Cookies => Cookies'
  <2>1. kind = "clear" => \E t \in timers : t.cookie = secret
    BY DEF ClientSends
  <2>2. QED
    BY <1>0, <1>2, <1>4, <1>5, <2>1 DEF Cookies
<1>7. CopyAlone'
  <2>1. CASE kind = "copy"
    <3>1. ~CopyUnsettled
      BY <2>1 DEF ClientSends
    <3>2. /\ \A i \in DOMAIN requests : requests[i].kind \notin {"copy", "clear"}
          /\ NoneAfter /\ ~(current # None /\ current.req.kind = "copy")
      BY <3>1 DEF CopyUnsettled, NoneAfter
    <3>3. QED
      BY <1>0, <1>4, <1>5, <3>2 DEF CopyAlone
  <2>2. CASE kind = "clear"
    <3>1. timers # {}
      BY <2>2 DEF ClientSends
    <3>2. /\ \A i \in DOMAIN requests : requests[i].kind # "copy"
          /\ ~(current # None /\ current.req.kind = "copy")
      BY <3>1 DEF ClipInv, CopyAlone, NoneAfter
    <3>3. QED
      BY <1>0, <1>2, <1>4, <2>2, <3>2 DEF CopyAlone
  <2>3. CASE kind \notin {"copy", "clear"}
    BY <1>0, <1>2, <1>4, <1>5, <2>3 DEF ClipInv, CopyAlone
  <2>4. QED
    BY <2>1, <2>2, <2>3
<1>8. QED
  BY <1>0, <1>6, <1>7 DEF ClipInv

\* A Copied that is taken becomes the timer of its secret.
LEMMA ResponseClips ==
    ASSUME ShellInv, ClipInv, HandleResponse
    PROVE  ClipInv'
<1>1. /\ UNCHANGED <<requests, mode, live_cookie, current, clipboard, missed>>
      /\ responses # <<>> /\ responses \in Seq(Given) /\ responses' = Tail(responses)
      /\ Head(responses) = responses[1] /\ 1 \in DOMAIN responses
      /\ Head(responses).kind # "copied" => timers' = timers
      /\ Head(responses).kind = "copied" =>
            \A t \in timers' : t \in timers \/ t.cookie = Head(responses).re.secret
  BY ResponseTaken DEF ShellInv, WorkerInv, clips
<1>2. \A i \in DOMAIN responses' : i + 1 \in DOMAIN responses /\ responses'[i] = responses[i + 1]
  BY <1>1, Taken
<1>3. NoneAfter => NoneAfter'
  BY <1>1, <1>2 DEF NoneAfter
<1>4. Cookies => Cookies'
  BY <1>1, <1>2 DEF Cookies
<1>5. CopyAlone'
  BY <1>1, <1>3 DEF ClipInv, CopyAlone
<1>6. QED
  BY <1>1, <1>4, <1>5 DEF ClipInv

\* Every step keeps it.
LEMMA ClipNext ==
    ASSUME FactOverwrite, OverlappingCopies = FALSE, ShellInv, ClipInv, [Next]_vars
    PROVE  ClipInv'
<1>1. ASSUME UNCHANGED <<requests, responses, mode, live_cookie, current, timers>>,
             UNCHANGED <<clipboard, missed>> \/ clipboard' \notin Secrets
      PROVE  ClipInv'
  BY <1>1 DEF ClipInv, Cookies, CopyAlone, NoneAfter
<1>2. CASE (Worker \/ Tick) /\ UNCHANGED shellVars
  <2>1. CASE Tick \/ Compare
    BY <1>1, <1>2, <2>1 DEF Tick, Compare, channels, session, clips, shellVars
  <2>2. CASE Receive
    BY <1>2, <2>2, ReceiveClips
  <2>3. CASE Handle
    BY <1>2, <2>3, HandleClips
  <2>4. CASE IdleTick
    BY <1>2, <2>4, EndWipes DEF IdleTick, shellVars
  <2>5. QED
    BY <1>2, <2>1, <2>2, <2>3, <2>4 DEF Worker
<1>3. CASE \E kind \in Kinds \ {"quit"}, secret \in Secrets \cup {None} : ClientSends(kind, secret)
  BY <1>3, ClientClips
<1>4. CASE HandleResponse
  BY <1>4, ResponseClips
<1>5. CASE ForeignWrite
  BY <1>1, <1>5, WorkerAssumption DEF ForeignWrite, channels, session, shellVars
<1>6. CASE UNCHANGED vars
  BY <1>1, <1>6 DEF vars, workerVars, channels, session, clips, shellVars
<1>7. QED
  BY <1>2, <1>3, <1>4, <1>5, <1>6, ShellCases

\* No secret stays on the clipboard once its session is over, unless a clear of it could not
\* reach the clipboard; if clears overwrite and the user leaves each copy the time to be
\* cleared: a clear of another secret makes the session forget the one that is there
\* (unlocked_loop, clear_clipboard_impl, wipe_clipboard_on_exit).
THEOREM NothingStaysStranded ==
    ASSUME FactOverwrite, OverlappingCopies = FALSE
    PROVE  Spec => []NothingStranded
<1>1. Init => ClipInv
  BY WorkerAssumption DEF Init, WorkerInit, ClipInv, CopyAlone
<1>2. ShellInv /\ ClipInv /\ [Next]_vars => ClipInv'
  BY ClipNext
<1>3. ClipInv => NothingStranded
  BY DEF ClipInv, Cookies, NothingStranded
<1>4. Init /\ [][Next]_vars => [](ShellInv /\ ClipInv)
  BY <1>1, <1>2, ShellInit, ShellNext, PTL
<1>5. QED
  BY <1>3, <1>4, PTL DEF Spec

\* The cookie of a clear is a secret's.
LEMMA DueSecret == ASSUME WorkerInv PROVE DueCookie \in Secrets \cup {None}
<1>1. CASE InHand({"clear"})
  BY <1>1 DEF DueCookie, InHand, WorkerInv, Asked
<1>2. CASE ~InHand({"clear"})
  BY <1>2 DEF DueCookie, WorkerInv, WorkerTypeOK
<1>3. QED
  BY <1>1, <1>2

\* Between the comparison and the overwrite, what is there is the secret that was compared,
\* or has been put there since (clear_clipboard_impl).
Matched == clearing = "matched" => clipboard # Foreign

\* Every step keeps it: nothing but the clear is done between the two, and who replaces the
\* clipboard then makes it a race.
LEMMA MatchedNext == ShellInv /\ Matched /\ [Next]_vars => Matched'
<1> SUFFICES ASSUME ShellInv, Matched, [Next]_vars PROVE Matched'
  OBVIOUS
<1>1. ASSUME UNCHANGED clips PROVE Matched'
  BY <1>1 DEF clips, Matched
<1>2. ASSUME clearing' \in {"no", "raced"} PROVE Matched'
  BY <1>2 DEF Matched
<1>3. CASE Worker \/ Tick
  <2>1. CASE Tick \/ Receive
    BY <1>1, <2>1 DEF Tick, Receive
  <2>2. CASE Compare
    BY <2>2, DueSecret, WorkerAssumption DEF Compare, Ours, Matched, ShellInv
  <2>3. ASSUME NEW re, EndSession(re) PROVE Matched'
    BY <1>2, <2>3 DEF EndSession, WipeOnExit, Overwrite
  <2>4. CASE IdleTick
    BY <2>3, <2>4 DEF IdleTick
  <2>5. CASE Copy
    BY <1>2, <2>5 DEF Copy
  <2>6. CASE ClearClipboard
    BY <1>2, <2>6 DEF ClearClipboard, Overwrite
  <2>7. CASE Handle
    <3>1. ~Stop
      BY DEF Stop, InHand, ShellInv
    <3>2. UNCHANGED <<live_cookie, clips>> => UNCHANGED clips
      OBVIOUS
    <3>3. QED
      BY <1>1, <2>3, <2>5, <2>6, <2>7, <3>1, <3>2, HandleCases DEF ShellInv
  <2>8. QED
    BY <1>3, <2>1, <2>2, <2>4, <2>7 DEF Worker
<1>4. CASE \E kind \in Kinds \ {"quit"}, secret \in Secrets \cup {None} : ClientSends(kind, secret)
  BY <1>1, <1>4 DEF ClientSends
<1>5. CASE ForeignWrite
  BY <1>2, <1>5 DEF ForeignWrite
<1>6. CASE HandleResponse \/ UNCHANGED vars
  BY <1>1, <1>6 DEF HandleResponse, vars, workerVars
<1>7. QED
  BY <1>3, <1>4, <1>5, <1>6, ShellCases

\* The worker overwrites nothing that the user or another program had put on the clipboard
\* when it compared the digests, whatever the settings and the copies; what comes between
\* the comparison and the overwrite is lost (clear_clipboard_impl, Replaced).
THEOREM ForeignStays == Spec => ForeignKept
<1>1. ShellInv /\ Matched /\ [Next]_vars
      => [clipboard = Foreign /\ clipboard' # Foreign
             => clipboard' \in Secrets \/ clearing = "raced"]_workerVars
  <2> SUFFICES ASSUME ShellInv, Matched, [Next]_vars, clipboard = Foreign, clipboard' # Foreign,
                      clearing # "raced"
               PROVE  clipboard' \in Secrets
    OBVIOUS
  <2>1. clearing = "no"
    BY DEF ShellInv, TypeOK, WorkerTypeOK, Matched
  <2>2. \A cookie, which : ~Overwrite(cookie, which)
    BY <2>1 DEF Overwrite
  <2>3. CASE Worker \/ Tick
    <3>1. ~Tick /\ ~Receive /\ ~Compare
      BY DEF Tick, Receive, Compare, clips
    <3>2. ~IdleTick
      BY <2>2 DEF IdleTick, EndSession, WipeOnExit
    <3>3. Handle
      BY <2>3, <3>1, <3>2 DEF Worker
    <3>4. current # None /\ current.req \in Asked
      BY <3>3, HandleCases DEF ShellInv, WorkerInv
    <3>5. ~ClearClipboard /\ \A re : ~EndSession(re)
      BY <2>2 DEF ClearClipboard, EndSession, WipeOnExit
    <3>6. ~Stop
      BY DEF Stop, InHand, ShellInv
    <3>7. Copy
      BY <3>3, <3>5, <3>6, HandleCases DEF ShellInv, clips
    <3>8. QED
      BY <3>4, <3>7 DEF Copy, InHand, Asked
  <2>4. CASE \E kind \in Kinds \ {"quit"}, secret \in Secrets \cup {None} : ClientSends(kind, secret)
    BY <2>4 DEF ClientSends, clips
  <2>5. CASE HandleResponse \/ ForeignWrite \/ UNCHANGED vars
    BY <2>5 DEF HandleResponse, ForeignWrite, vars, workerVars, clips
  <2>6. QED
    BY <2>3, <2>4, <2>5, ShellCases
<1>2. Init => Matched
  BY DEF Init, WorkerInit, Matched
<1>3. Init /\ [][Next]_vars => [](ShellInv /\ Matched)
  BY <1>2, MatchedNext, ShellInit, ShellNext, PTL
<1>4. QED
  BY <1>1, <1>3, PTL DEF Spec, ForeignKept
================================================================================

------------------------------- MODULE GtkShell -------------------------------
(***************************************************************************)
(* The GTK shell (passman-gtk, ui.rs) over the session worker: the main    *)
(* loop that sends a request for a click, polls the responses, and clears  *)
(* the clipboard by a timer.  Responses are taken one by one, which allows *)
(* a click between two that one poll would drain.                          *)
(*                                                                         *)
(* The add page, the dialogs and the widgets' texts are left out; the two  *)
(* pages are the unlock page ("gate") and the vault page.                  *)
(***************************************************************************)
EXTENDS SessionWorker

CONSTANTS
    MaxSent,           \* bound on the requests the user makes
    OverlappingCopies  \* FALSE: no copy is asked for while another is to be cleared

ASSUME GtkAssumption == MaxSent \in Nat /\ OverlappingCopies \in BOOLEAN

VARIABLES
    page,
    waiting,              \* the unlock button is insensitive
    timers,               \* pending clears: a cookie and when it is due
    sent                  \* requests the user made

shellVars == <<page, waiting, timers, sent>>
vars == <<workerVars, shellVars>>

TypeOK ==
    /\ WorkerTypeOK
    /\ page \in {"gate", "vault"}
    /\ waiting \in BOOLEAN
    /\ \A t \in timers : t.cookie \in Secrets /\ t.due <= MaxClock + PostCopy
    /\ sent \in 0 .. MaxSent

Init ==
    /\ WorkerInit
    /\ page = "gate"
    /\ waiting = FALSE
    /\ timers = {}
    /\ sent = 0

Click(kind, secret) ==
    /\ sent < MaxSent
    /\ sent' = sent + 1
    /\ Send(1, kind, secret)
    /\ UNCHANGED <<clock, responses, session, current, clips, page, timers>>

\* The button or the Enter key, which works on an insensitive button too
ClickUnlock ==
    /\ page = "gate"
    /\ Click("unlock", None)
    /\ waiting' = TRUE

\* Any other button, Lock included
ClickOp ==
    /\ page = "vault"
    /\ \E kind \in {"op", "verify", "lock"} : Click(kind, None)
    /\ UNCHANGED waiting

\* A copy was asked for and its clear has not been sent yet.
CopyUnsettled ==
    \/ timers # {}
    \/ current # None /\ current.req.kind = "copy"
    \/ \E i \in DOMAIN requests : requests[i].kind \in {"copy", "clear"}
    \/ \E i \in DOMAIN responses : responses[i].kind = "copied"

ClickCopy ==
    /\ page = "vault"
    /\ OverlappingCopies \/ ~CopyUnsettled
    /\ \E s \in Secrets : Click("copy", s)
    /\ UNCHANGED waiting

\* Mutant: a failed unlock leaves the button as it is.
FailureForgotten(r) ==
    /\ page' = IF r.kind = "unlocked" THEN "vault" ELSE IF r.kind = "locked" THEN "gate" ELSE page
    /\ waiting' = (waiting /\ r.kind # "unlocked")

\* handle_response: the page and the unlock button
Shown(r) ==
    /\ page' = IF r.kind = "unlocked" THEN "vault" ELSE IF r.kind = "locked" THEN "gate" ELSE page
    /\ waiting' = (waiting /\ r.kind \notin {"unlocked", "unlockFailed"})

HandleResponse ==
    /\ responses # <<>>
    /\ responses' = Tail(responses)
    /\ LET r == Head(responses)
       IN  /\ Shown(r)
           /\ timers' = IF r.kind # "copied" THEN timers
                        ELSE timers \cup {[cookie |-> r.re.secret, due |-> clock + PostCopy]}
    /\ UNCHANGED <<clock, requests, session, current, clips, sent>>

\* The timer of a copy sends its clear; CLIPBOARD_CLEAR_SECS is POST_COPY_SECS.
TimerFires ==
    \E t \in timers :
        /\ clock >= t.due
        /\ timers' = timers \ {t}
        /\ Send(1, "clear", t.cookie)
        /\ UNCHANGED <<clock, responses, session, current, clips>>
        /\ UNCHANGED <<page, waiting, sent>>

\* The user, or another program, puts something else on the clipboard.
ForeignWrite ==
    /\ clipboard' = Foreign
    /\ clearing' = IF clearing = "no" THEN "no" ELSE "raced"
    /\ UNCHANGED <<clock, channels, session, current, missed, shellVars>>

Next ==
    \/ (Worker \/ Tick) /\ UNCHANGED shellVars
    \/ ClickUnlock \/ ClickOp \/ ClickCopy
    \/ HandleResponse \/ TimerFires \/ ForeignWrite

\* The main loop polls the responses and fires what is due; the user is not fair.
Spec ==
    /\ Init /\ [][Next]_vars
    /\ WorkerFairness
    /\ WF_vars(HandleResponse) /\ WF_vars(TimerFires)

-----------------------------------------------------------------------------
(* Properties *)

\* When nothing is on its way the shell shows the page of the state the worker is
\* in: no lost or late Locked leaves the vault page over a locked session.
PageFollowsWorker ==
    requests = <<>> /\ responses = <<>> /\ current = None
    => (page = "vault" <=> mode = "unlocked")

\* Each press of Unlock is answered: the button does not stay insensitive.
UnlockAnswered == waiting ~> ~waiting
=============================================================================

---------------------------- MODULE SessionWorker ----------------------------
(***************************************************************************)
(* The session worker of passman-core (worker.rs): one thread that owns    *)
(* the App, the session and the clipboard, driven by a request queue and   *)
(* answering on a response queue.  The shells that own the other ends are  *)
(* the modules GtkShell and BindingCall.                                   *)
(*                                                                         *)
(* A request is received in one step, where the session check is made, and *)
(* handled in another, where its effects and its reply happen, so that     *)
(* time and the clients move while a slow operation runs.                  *)
(*   "unlock"  Unlock and Create                                           *)
(*   "op"      Refresh, Reveal, Generate, Add, Remove, ExportRecovery      *)
(*   "copy", "clear", "verify", "lock", "quit"   the request so named      *)
(* A clipboard cookie is the secret it is the digest of.  The clipboard is *)
(* read, compared with a cookie and overwritten in that order and in two   *)
(* steps, each of which may find it out of reach.                          *)
(***************************************************************************)
EXTENDS Integers, Sequences

CONSTANTS
    Secrets,         \* values that may be copied
    SessionLength,   \* SESSION_SECS
    PostCopy,        \* POST_COPY_SECS
    FactOverwrite,   \* the setting clipboard.fact_overwrite
    MaxClock,        \* bound on the clock
    None             \* no secret, no request in hand

Kinds == {"unlock", "op", "copy", "clear", "verify", "lock", "quit"}

\* id distinguishes requests; the code has no such field.
Request  == [id : Nat \ {0}, kind : Kinds, secret : Secrets \cup {None}]
\* "re" is the request answered, None for a Locked that answers none.
Response == [re : Request \cup {None},
             kind : {"unlocked", "unlockFailed", "ok", "copied", "checked", "error", "locked"}]

Fact    == "a fact"            \* what a clear writes
Foreign == "something else"    \* what the user or another program put there

ASSUME WorkerAssumption ==
    /\ SessionLength \in Nat \ {0} /\ PostCopy \in Nat /\ MaxClock \in Nat
    /\ FactOverwrite \in BOOLEAN
    /\ {Fact, Foreign, None} \cap Secrets = {} /\ None \notin {Fact, Foreign}
    /\ None \notin [req : Request, expired : BOOLEAN]

VARIABLES
    clock,
    requests,      \* the request channel
    responses,     \* the response channel
    mode,          \* which loop the thread is in
    expiry,        \* UnlockedApp::session_expiry
    current,       \* the request in hand and whether it found the session expired
    live_cookie,   \* unlocked_loop's live_cookie
    clipboard,     \* the operating system's clipboard
    clearing,      \* a clear under way: "matched" once the digest was read and found to be
                   \* the cookie's, "raced" if the clipboard was replaced after that
    missed         \* which clear, if any, left the last copied secret where it was because
                   \* the clipboard was out of reach; a history variable

channels == <<requests, responses>>
session  == <<mode, expiry, live_cookie>>
clips    == <<clipboard, clearing, missed>>
workerVars == <<clock, channels, session, current, clips>>

WorkerTypeOK ==
    /\ clock \in 0 .. MaxClock
    /\ requests \in Seq(Request) /\ responses \in Seq(Response)
    /\ mode \in {"locked", "unlocked", "stopped"}
    /\ expiry \in 0 .. MaxClock
    /\ current \in [req : Request, expired : BOOLEAN] \cup {None}
    /\ live_cookie \in Secrets \cup {None}
    /\ clipboard \in Secrets \cup {Fact, Foreign}
    /\ clearing \in {"no", "matched", "raced"}
    /\ missed \in {"no", "clear", "exit"}

WorkerInit ==
    /\ clock = 0
    /\ requests = <<>> /\ responses = <<>>
    /\ mode = "locked" /\ expiry = 0
    /\ current = None
    /\ live_cookie = None
    /\ clipboard = Foreign /\ clearing = "no" /\ missed = "no"

\* Mutant: a copy late in the session prolongs it.
Prolonged(e) == clock + PostCopy

\* The end of a session after a copy
Shortened(e) == IF e <= clock + PostCopy THEN e ELSE clock + PostCopy

IsExpired == clock >= expiry

Reply(kind) == responses' = Append(responses, [re |-> current.req, kind |-> kind])

InHand(kinds) == current # None /\ current.req.kind \in kinds

-----------------------------------------------------------------------------
(* Clearing the clipboard *)

\* What ends an unlocked session: the idle poll, a Lock or a Quit, an operation whose
\* session check failed, or an Add or Remove that is done and finds the session expired
\* when it lists the entries for its answer.
Idle == current = None /\ IsExpired
Over ==
    \/ InHand({"lock"})
    \/ InHand({"op", "copy"}) /\ current.expired
    \/ InHand({"op"}) /\ IsExpired

\* The cookie a clear that is due is for, if it has one.
DueCookie ==
    IF InHand({"clear"}) THEN current.req.secret
    ELSE IF Idle \/ Over \/ InHand({"quit"}) THEN live_cookie
    ELSE None

\* Mutant: the digest is not compared.
AnyContents(cookie) == cookie # None

\* ct_eq of the digest read and the cookie's
Ours(cookie) == cookie # None /\ clipboard = cookie

\* clear_clipboard_impl up to the overwrite: the clipboard can be read and holds the secret.
Compare ==
    /\ mode = "unlocked" /\ clearing = "no"
    /\ FactOverwrite /\ Ours(DueCookie)
    /\ clearing' = "matched"
    /\ UNCHANGED <<clock, channels, session, current, clipboard, missed>>

\* The rest of it.  Without a match: Replaced, Empty, StillOurs, or Unavailable since the
\* clipboard could not be read.  With one: Cleared, or Unavailable after all.  No caller
\* looks at the outcome.
Overwrite(cookie, which) ==
    /\ \/ UNCHANGED clipboard
       \/ clearing # "no" /\ clipboard' = Fact
    /\ clearing' = "no"
    /\ missed' = IF FactOverwrite /\ clipboard' = cookie THEN which ELSE missed

-----------------------------------------------------------------------------
(* Leaving the unlocked loop *)

\* Mutant: the clipboard is left as it is.
NoWipe == clearing' = "no" /\ UNCHANGED <<clipboard, missed>>

\* wipe_clipboard_on_exit
WipeOnExit == Overwrite(live_cookie, "exit")

\* Mutant: the client is not told.
EndSilently(re) ==
    /\ WipeOnExit
    /\ mode' = "locked"
    /\ live_cookie' = None
    /\ UNCHANGED <<responses, expiry>>

\* Back to the locked loop; drive_unlocked reports it, whatever the reason.
EndSession(re) ==
    /\ WipeOnExit
    /\ mode' = "locked"
    /\ live_cookie' = None
    /\ responses' = Append(responses, [re |-> re, kind |-> "locked"])
    /\ UNCHANGED expiry

\* Mutant: only an operation notices the expiry.
NeverTicks == FALSE /\ UNCHANGED workerVars

\* The poll of an idle unlocked loop; a request may arrive after the timeout.
IdleTick ==
    /\ mode = "unlocked" /\ Idle
    /\ EndSession(None)
    /\ UNCHANGED <<clock, requests, current>>

-----------------------------------------------------------------------------
(* Receiving and handling a request *)

Receive ==
    /\ mode # "stopped" /\ current = None /\ clearing = "no"
    /\ requests # <<>>
    /\ requests' = Tail(requests)
    /\ current' = [req |-> Head(requests), expired |-> mode = "unlocked" /\ IsExpired]
    /\ UNCHANGED <<clock, responses, session, clips>>

\* An unlock or a creation; success only while a whole session fits the bound.
TryUnlock ==
    /\ mode = "locked" /\ InHand({"unlock"})
    /\ \/ /\ clock + SessionLength <= MaxClock
          /\ mode' = "unlocked"
          /\ expiry' = clock + SessionLength
          /\ Reply("unlocked")
       \/ /\ UNCHANGED <<mode, expiry>>
          /\ Reply("unlockFailed")
    /\ UNCHANGED <<live_cookie, clips>>

\* Fire and forget: no reply, and nothing is cleared.
DropClear ==
    /\ mode = "locked" /\ InHand({"clear"})
    /\ UNCHANGED <<responses, session, clips>>

\* Mutant: a locked worker ignores what it cannot do.
IgnoresOthers ==
    /\ mode = "locked" /\ InHand({"op", "copy", "verify", "lock"})
    /\ UNCHANGED <<responses, session, clips>>

RefuseLocked ==
    /\ mode = "locked" /\ InHand({"op", "copy", "verify", "lock"})
    /\ Reply("locked")
    /\ UNCHANGED <<session, clips>>

\* Mutants: Quit leaves the clipboard; Quit ends the session but not the thread.
StopUnwiped ==
    /\ InHand({"quit"})
    /\ mode' = "stopped"
    /\ live_cookie' = None
    /\ NoWipe
    /\ UNCHANGED <<responses, expiry>>
StopAsLock ==
    /\ InHand({"quit"})
    /\ EndSession(current.req)

\* Quit, from either loop
Stop ==
    /\ InHand({"quit"})
    /\ mode' = "stopped"
    /\ IF mode = "unlocked" THEN WipeOnExit ELSE UNCHANGED clips
    /\ live_cookie' = None
    /\ UNCHANGED <<responses, expiry>>

LockNow ==
    /\ mode = "unlocked" /\ Over
    /\ EndSession(current.req)

\* The operation did what it does, or failed without locking.
Operate ==
    /\ mode = "unlocked" /\ InHand({"op", "copy"}) /\ ~current.expired /\ clearing = "no"
    /\ \/ current.req.kind = "op" /\ Reply("ok")
       \/ Reply("error")
    /\ UNCHANGED <<session, clips>>

Copy ==
    /\ mode = "unlocked" /\ InHand({"copy"}) /\ ~current.expired /\ clearing = "no"
    /\ clipboard' = current.req.secret /\ missed' = "no"
    /\ live_cookie' = current.req.secret
    /\ expiry' = Shortened(expiry)
    /\ Reply("copied")
    /\ UNCHANGED <<mode, clearing>>

\* The cookie is forgotten whichever secret was to be cleared and whatever came of it.
ClearClipboard ==
    /\ mode = "unlocked" /\ InHand({"clear"})
    /\ Overwrite(current.req.secret, "clear")
    /\ live_cookie' = None
    /\ UNCHANGED <<responses, mode, expiry>>

VerifyTotp ==
    /\ mode = "unlocked" /\ InHand({"verify"})
    /\ Reply("checked")
    /\ UNCHANGED <<session, clips>>

\* "Already unlocked; ignore a stray create/unlock": there is no reply.
IgnoreUnlock ==
    /\ mode = "unlocked" /\ InHand({"unlock"})
    /\ UNCHANGED <<responses, session, clips>>

Handle ==
    /\ \/ TryUnlock \/ DropClear \/ RefuseLocked \/ Stop \/ LockNow
       \/ Operate \/ Copy \/ ClearClipboard \/ VerifyTotp \/ IgnoreUnlock
    /\ current' = None
    /\ UNCHANGED <<clock, requests>>

Worker == Receive \/ Compare \/ Handle \/ IdleTick

Tick ==
    /\ clock < MaxClock
    /\ clock' = clock + 1
    /\ UNCHANGED <<channels, session, current, clips>>

\* What a client does to the worker: append a request.
Send(id, kind, secret) ==
    requests' = Append(requests, [id |-> id, kind |-> kind, secret |-> secret])

\* The thread runs, an operation it is in ends, a poll with an empty queue comes and what
\* it has begun is finished, and time passes; the second is the code's assumption that no
\* prompt hangs.  The clipboard need never be in reach.
WorkerFairness ==
    /\ WF_workerVars(Receive) /\ WF_workerVars(Handle)
    /\ WF_workerVars(IdleTick /\ (requests = <<>> \/ clearing # "no"))
    /\ WF_workerVars(Tick)

-----------------------------------------------------------------------------
(* Properties of the worker under any client *)

\* "A foreign value is left untouched" (unlocked.rs clear_clipboard): the worker never
\* overwrites what somebody else had put on the clipboard when it read the digest, however
\* late a clear comes.  What comes between that and the overwrite, it does.
ForeignKept ==
    [][clipboard = Foreign /\ clipboard' # Foreign
          => clipboard' \in Secrets \/ clearing = "raced"]_workerVars

\* Once the session is over no secret stays on the clipboard, however the session ended
\* (Lock, an expired operation, the idle poll, Quit) and whatever clears were on their way,
\* unless a clear of it was carried out and found the clipboard out of reach (worker.rs
\* unlocked_loop: "On the lock transition we proactively wipe it", since a late clear is
\* dropped; that wipe is best effort).
NothingStranded ==
    mode # "unlocked" /\ current = None /\ clipboard \in Secrets => missed # "no"

\* "If it is still believed live (a later ClearClipboard that wiped it forgets it). On the
\* lock transition we proactively wipe it" (worker.rs unlocked_loop): a secret outlives its
\* session only if that last wipe could not reach the clipboard, also when an earlier
\* ClearClipboard could not.
WipedAtTheEnd ==
    mode # "unlocked" /\ current = None /\ clipboard \in Secrets => missed = "exit"

\* A session is not left open after its expiry (worker.rs EXPIRY_POLL): the idle
\* poll or the next operation ends it.
ExpiredSessionLocks == (mode = "unlocked" /\ IsExpired) ~> mode # "unlocked"
=============================================================================

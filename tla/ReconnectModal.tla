--------------------------- MODULE ReconnectModal ---------------------------
(***************************************************************************)
(* The script of the admin panel's reconnect dialog,                       *)
(* AdminPanel/Components/Layout/ReconnectModal.razor.js, in one page of the *)
(* browser.  Its handlers run to the next await without interruption; the  *)
(* calls of Blazor they await are answered at any later time, in any order, *)
(* beside the events of the framework, the clicks of the user and the      *)
(* changes of the tab.                                                     *)
(***************************************************************************)
EXTENDS Naturals

CONSTANT MaxCalls   \* bound: handlers of the script in flight at once

ASSUME CallsAssumption == MaxCalls \in Nat \ {0}

VARIABLES
    page,       \* "live", or "reloading" once location.reload was called
    dialog,     \* the dialog is open
    look,       \* class of the dialog: what it says and which button it shows
    armed,      \* the listener of visibilitychange is registered
    visible,    \* document.visibilityState is "visible"
    dismissed,  \* the user closed the dialog with Escape
    waiting,    \* handlers waiting: in retry for reconnect and for resumeCircuit,
                \* in resume for resumeCircuit
    circuit,    \* of the page: "connected"; the connection is "lost"; on the
                \* server only its state is "saved"; or "gone"
    attempts,   \* the framework's own attempts: "idle", "trying", "over"
    reachable,  \* the server can be reached
    dropped     \* the server has given up the circuit the page began with

script == <<page, dialog, look, armed, waiting>>
world == <<visible, dismissed, circuit, attempts, reachable, dropped>>
vars == <<script, world>>

Looks == {"hide", "show", "retrying", "failed", "paused", "resume-failed"}
Awaits == {"reconnect", "restore", "resume"}
ResumeButton == look \in {"paused", "resume-failed"}
InFlight == waiting["reconnect"] + waiting["restore"] + waiting["resume"]

TypeOK ==
    /\ page \in {"live", "reloading"} /\ dialog \in BOOLEAN /\ look \in Looks
    /\ armed \in BOOLEAN /\ visible \in BOOLEAN /\ dismissed \in BOOLEAN
    /\ waiting \in [Awaits -> Nat] /\ InFlight =< MaxCalls
    /\ circuit \in {"connected", "lost", "saved", "gone"}
    /\ attempts \in {"idle", "trying", "over"}
    /\ reachable \in BOOLEAN /\ dropped \in BOOLEAN

Init ==
    /\ page = "live" /\ dialog = FALSE /\ look = "hide" /\ armed = FALSE
    /\ visible = TRUE /\ dismissed = FALSE /\ waiting = [a \in Awaits |-> 0]
    /\ circuit = "connected" /\ attempts = "idle"
    /\ reachable = TRUE /\ dropped = FALSE

-----------------------------------------------------------------------------
(* handleReconnectStateChanged, one operator per state of the event.       *)

OnShow == dialog' = TRUE /\ UNCHANGED <<page, armed>>

(* Mutant of OnHide: no branch for the state.                              *)
OnHideIgnored == UNCHANGED <<page, dialog, armed>>

OnHide == dialog' = FALSE /\ UNCHANGED <<page, armed>>

(* Mutant of OnFailed: treated as a rejection.                             *)
OnFailedReloads == page' = "reloading" /\ UNCHANGED <<dialog, armed>>

OnFailed == armed' = TRUE /\ UNCHANGED <<page, dialog>>
OnRejected == page' = "reloading" /\ UNCHANGED <<dialog, armed>>

-----------------------------------------------------------------------------
(* The framework and the server. *)

(* The connection is lost, and the framework begins its attempts.          *)
LoseConnection ==
    /\ page = "live" /\ circuit = "connected"
    /\ circuit' = "lost" /\ attempts' = "trying" /\ reachable' \in BOOLEAN
    /\ look' = "show" /\ OnShow /\ dismissed' = FALSE
    /\ UNCHANGED <<visible, waiting, dropped>>

(* The server pauses the circuit; nothing but resume brings it back.       *)
PauseCircuit ==
    /\ page = "live" /\ circuit = "connected"
    /\ circuit' = "saved" /\ dropped' = TRUE
    /\ look' = "paused" /\ OnShow /\ dismissed' = FALSE
    /\ UNCHANGED <<visible, waiting, attempts, reachable>>

(* The circuit is evicted, its saved state expires, or the server restarts. *)
DropCircuit ==
    /\ page = "live" /\ circuit \in {"lost", "saved"}
    /\ circuit' \in IF circuit = "lost" THEN {"saved", "gone"} ELSE {"gone"}
    /\ dropped' = TRUE
    /\ UNCHANGED <<script, visible, dismissed, attempts, reachable>>

ChangeReachable ==
    /\ page = "live" /\ circuit # "connected"
    /\ reachable' = ~reachable
    /\ UNCHANGED <<script, visible, dismissed, circuit, attempts, dropped>>

(* The circuit is connected again: the framework ends its own attempts and *)
(* raises "hide".  close() on a closed dialog does nothing.                *)
Connected ==
    /\ circuit' = "connected" /\ attempts' = "idle"
    /\ look' = "hide" /\ OnHide

AttemptConnects ==
    /\ page = "live" /\ attempts = "trying" /\ reachable
    /\ circuit \in {"lost", "saved"} /\ Connected
    /\ UNCHANGED <<visible, dismissed, waiting, reachable, dropped>>

AttemptRejected ==
    /\ page = "live" /\ attempts = "trying" /\ reachable
    /\ circuit \in {"saved", "gone"} /\ attempts' = "over"
    /\ OnRejected
    /\ UNCHANGED <<look, visible, dismissed, waiting, circuit, reachable, dropped>>

(* An attempt that does not reach the server: "retrying", which the script *)
(* does not handle, or after the last one "failed".                        *)
AttemptFails ==
    /\ page = "live" /\ attempts = "trying" /\ ~reachable
    /\ \/ look' = "retrying" /\ UNCHANGED <<page, dialog, armed, attempts>>
       \/ look' = "failed" /\ attempts' = "over" /\ OnFailed
    /\ UNCHANGED <<visible, dismissed, waiting, circuit, reachable, dropped>>

-----------------------------------------------------------------------------
(* retry, resume and retryWhenDocumentBecomesVisible. *)

Calling(a) == waiting[a] > 0
Begin(a) == InFlight < MaxCalls /\ waiting' = [waiting EXCEPT ![a] = @ + 1]
Finish(a) == waiting' = [waiting EXCEPT ![a] = @ - 1]

(* retry up to the await of reconnect. *)
BeginRetry == armed' = FALSE /\ Begin("reconnect")

ClickRetry ==
    /\ page = "live" /\ visible /\ look = "failed" /\ BeginRetry
    /\ UNCHANGED <<page, dialog, look, world>>

ClickResume ==
    /\ page = "live" /\ visible /\ ResumeButton /\ dialog /\ Begin("resume")
    /\ UNCHANGED <<page, dialog, look, armed, world>>

(* Mutant of ShowTab: retryWhenDocumentBecomesVisible tests for "hidden".  *)
ShowTabUnheard ==
    /\ page = "live" /\ ~visible /\ visible' = TRUE
    /\ UNCHANGED <<script, dismissed, circuit, attempts, reachable, dropped>>

(* visibilitychange: the tab is shown; the listener runs when it is there. *)
ShowTab ==
    /\ page = "live" /\ ~visible /\ visible' = TRUE
    /\ IF armed THEN BeginRetry ELSE UNCHANGED <<armed, waiting>>
    /\ UNCHANGED <<page, dialog, look, dismissed, circuit, attempts, reachable, dropped>>

(* visibilitychange: the tab is hidden, and the listener returns at once.  *)
HideTab ==
    /\ page = "live" /\ visible /\ visible' = FALSE
    /\ UNCHANGED <<script, dismissed, circuit, attempts, reachable, dropped>>

(* Escape closes a modal dialog. *)
Dismiss ==
    /\ page = "live" /\ visible /\ dialog
    /\ dialog' = FALSE /\ dismissed' = TRUE
    /\ UNCHANGED <<page, look, armed, waiting, visible, circuit, attempts, reachable, dropped>>

(* reconnect returns true: the circuit was still there, or another call    *)
(* has connected the page already.                                         *)
Reconnects ==
    /\ page = "live" /\ Calling("reconnect") /\ Finish("reconnect")
    /\ \/ circuit = "lost" /\ reachable /\ Connected
       \/ circuit = "connected" /\ UNCHANGED <<page, dialog, look, armed, circuit, attempts>>
    /\ UNCHANGED <<visible, dismissed, reachable, dropped>>

(* Mutant of ReconnectRefused: the call of reconnect is not awaited. *)
ReconnectNotAwaited ==
    /\ page = "live" /\ Calling("reconnect") /\ reachable
    /\ circuit \in {"saved", "gone"}
    /\ waiting' = [waiting EXCEPT !["restore"] = @ + 1]
    /\ UNCHANGED <<page, dialog, look, armed, world>>

(* reconnect returns false: the server was reached and has no circuit; the *)
(* handler goes on to await resumeCircuit.                                 *)
ReconnectRefused ==
    /\ page = "live" /\ Calling("reconnect") /\ reachable
    /\ circuit \in {"saved", "gone"}
    /\ waiting' = [waiting EXCEPT !["reconnect"] = @ - 1, !["restore"] = @ + 1]
    /\ UNCHANGED <<page, dialog, look, armed, world>>

(* Outcomes of resumeCircuit.  The saved state is consumed, so that a page *)
(* which another call has resumed may be answered either way.              *)
Restored == circuit = "saved" /\ reachable
Restorable == Restored \/ circuit = "connected"
NotRestored == circuit # "saved" /\ reachable

(* resumeCircuit of retry returns true: the dialog is closed. *)
RetryRestored ==
    /\ page = "live" /\ Calling("restore") /\ Restorable /\ Finish("restore")
    /\ Connected
    /\ UNCHANGED <<visible, dismissed, reachable, dropped>>

RetryReloads ==
    /\ page = "live" /\ Calling("restore") /\ NotRestored /\ Finish("restore")
    /\ page' = "reloading"
    /\ UNCHANGED <<dialog, look, armed, world>>

(* Mutant of RetryThrows: the catch block is empty. *)
RetryThrowsUnarmed ==
    /\ page = "live" /\ ~reachable
    /\ \E a \in {"reconnect", "restore"} : Calling(a) /\ Finish(a)
    /\ UNCHANGED <<page, dialog, look, armed, world>>

(* reconnect or resumeCircuit throws: the server was not reached.          *)
RetryThrows ==
    /\ page = "live" /\ ~reachable
    /\ \E a \in {"reconnect", "restore"} : Calling(a) /\ Finish(a)
    /\ armed' = TRUE
    /\ UNCHANGED <<page, dialog, look, world>>

(* resumeCircuit of resume returns true: the framework hides the dialog.   *)
Resumes ==
    /\ page = "live" /\ Calling("resume") /\ Restorable /\ Finish("resume")
    /\ Connected
    /\ UNCHANGED <<visible, dismissed, reachable, dropped>>

ResumeReloads ==
    /\ page = "live" /\ Calling("resume") /\ NotRestored /\ Finish("resume")
    /\ page' = "reloading"
    /\ UNCHANGED <<dialog, look, armed, world>>

(* resumeCircuit of resume throws: classList.replace changes the look of a *)
(* dialog that still says paused.                                          *)
ResumeThrows ==
    /\ page = "live" /\ Calling("resume") /\ ~reachable /\ Finish("resume")
    /\ look' = IF look = "paused" THEN "resume-failed" ELSE look
    /\ UNCHANGED <<page, dialog, armed, world>>

(* The answer of a resumption is lost: the server has consumed the state,  *)
(* and the page does not know the circuit it was given.                    *)
AnswerLost ==
    /\ page = "live" /\ circuit = "saved" /\ reachable
    /\ circuit' = "gone"
    /\ \/ Calling("restore") /\ Finish("restore") /\ armed' = TRUE /\ UNCHANGED look
       \/ /\ Calling("resume") /\ Finish("resume") /\ UNCHANGED armed
          /\ look' = IF look = "paused" THEN "resume-failed" ELSE look
    /\ UNCHANGED <<page, dialog, visible, dismissed, attempts, reachable, dropped>>

-----------------------------------------------------------------------------
Attempt == AttemptConnects \/ AttemptRejected \/ AttemptFails
RetryAnswers == Reconnects \/ ReconnectRefused \/ RetryRestored \/ RetryReloads \/ RetryThrows
ResumeAnswers == Resumes \/ ResumeReloads \/ ResumeThrows

Next ==
    \/ LoseConnection \/ PauseCircuit \/ DropCircuit \/ ChangeReachable \/ Attempt
    \/ ClickRetry \/ ClickResume \/ ShowTab \/ HideTab \/ Dismiss
    \/ RetryAnswers \/ ResumeAnswers \/ AnswerLost

Spec == Init /\ [][Next]_vars

(* The framework goes on with its attempts and every call is answered or   *)
(* throws.  Nothing is assumed of the user, the tab or the server.         *)
Fairness == WF_vars(Attempt) /\ WF_vars(RetryAnswers) /\ WF_vars(ResumeAnswers)

FairSpec == Spec /\ Fairness

-----------------------------------------------------------------------------
(* Properties. *)

(* WayBack: a page without its circuit is never left alone.  The framework *)
(* still tries, a retry waits for its answer, the listener waits for the   *)
(* tab, or the dialog offers to resume, unless the user dismissed it.  The *)
(* listener is removed when retry begins and put back by its catch block,  *)
(* while other handlers, clicks and events run in between.                 *)
WayBack ==
    page = "live" /\ circuit # "connected" =>
        \/ attempts = "trying" \/ armed
        \/ waiting["reconnect"] + waiting["restore"] > 0
        \/ ResumeButton /\ (dialog \/ dismissed)

(* DialogTells: the dialog covers the page exactly while the page has no   *)
(* circuit and the user has not dismissed it: no late answer of a call     *)
(* closes the dialog of a later outage, and none is left open.             *)
DialogTells ==
    page = "live" => (dialog <=> circuit # "connected" /\ ~dismissed)

(* ReloadJustified: the page, with what the user has typed, is reloaded    *)
(* only when the server answers and has given up the circuit (the comment  *)
(* at line 33), never because the server cannot be reached.                *)
ReloadJustified == [][page' # page => reachable /\ dropped]_vars

(* ReturnsByItself: once the server stays reachable, a user who only comes *)
(* back to the tab again and again gets the page connected or reloaded,    *)
(* without a click, whatever calls failed before; only a paused session    *)
(* waits for the button.                                                   *)
Down == page = "live" /\ circuit # "connected" /\ ~ResumeButton
ReturnsByItself ==
    <>[]reachable /\ []<>visible /\ []<>(~visible) => (Down ~> ~Down)
=============================================================================

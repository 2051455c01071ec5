------------------------ MODULE ReconnectModalProofs ------------------------
(***************************************************************************)
(* The safety properties of ReconnectModal, for any number of handlers of  *)
(* the script in flight.                                                   *)
(***************************************************************************)
EXTENDS ReconnectModal, TLAPS

(* The framework tries only for a page without its circuit; the server is  *)
(* asked to resume, and the user is offered it, only after the circuit was *)
(* given up.                                                               *)
TriesWhenDown == circuit = "connected" => attempts = "idle"
AsksWhenDropped ==
    \/ circuit \in {"saved", "gone"} \/ ResumeButton
    \/ waiting["restore"] + waiting["resume"] > 0
    => dropped

ModalInv == TypeOK /\ TriesWhenDown /\ AsksWhenDropped /\ WayBack /\ DialogTells

LEMMA InitModal == Init => ModalInv
<1> SUFFICES ASSUME Init PROVE ModalInv
    OBVIOUS
<1>1. waiting \in [Awaits -> Nat] /\ InFlight = 0 /\ waiting["restore"] + waiting["resume"] = 0
    BY DEF Init, InFlight, Awaits
<1>2. InFlight =< MaxCalls
    BY <1>1, CallsAssumption DEF CallsAssumption
<1>3. TypeOK
    BY <1>1, <1>2 DEF Init, TypeOK, Looks
<1> QED
    BY <1>1, <1>3 DEF Init, ModalInv, TriesWhenDown, AsksWhenDropped, WayBack, DialogTells, ResumeButton

(* A call that begins or ends changes the number of its own kind only.     *)
LEMMA BeginCounts ==
    ASSUME NEW a \in Awaits, TypeOK, Begin(a)
    PROVE  /\ waiting' \in [Awaits -> Nat] /\ InFlight' =< MaxCalls /\ waiting'[a] > 0
           /\ \A b \in Awaits \ {a} : waiting'[b] = waiting[b]
<1>1. /\ waiting["reconnect"] \in Nat /\ waiting["restore"] \in Nat /\ waiting["resume"] \in Nat
      /\ waiting \in [Awaits -> Nat] /\ InFlight < MaxCalls
      /\ waiting' = [waiting EXCEPT ![a] = waiting[a] + 1]
    BY DEF TypeOK, Awaits, Begin
<1>2. /\ waiting' \in [Awaits -> Nat] /\ waiting'[a] = waiting[a] + 1
      /\ \A b \in Awaits \ {a} : waiting'[b] = waiting[b]
    BY <1>1
<1>3. InFlight' = InFlight + 1
    BY <1>1, <1>2 DEF InFlight, Awaits
<1>4. InFlight \in Nat /\ waiting[a] \in Nat
    BY <1>1 DEF InFlight, Awaits
<1> QED
    BY <1>1, <1>2, <1>3, <1>4, CallsAssumption DEF CallsAssumption

LEMMA FinishCounts ==
    ASSUME NEW a \in Awaits, TypeOK, Calling(a), Finish(a)
    PROVE  /\ waiting' \in [Awaits -> Nat] /\ InFlight' =< MaxCalls
           /\ \A b \in Awaits : waiting'[b] =< waiting[b]
<1>1. /\ waiting["reconnect"] \in Nat /\ waiting["restore"] \in Nat /\ waiting["resume"] \in Nat
      /\ waiting \in [Awaits -> Nat] /\ InFlight =< MaxCalls
      /\ waiting[a] > 0 /\ waiting' = [waiting EXCEPT ![a] = waiting[a] - 1]
    BY DEF TypeOK, Awaits, Finish, Calling
<1>2. waiting[a] \in Nat /\ waiting[a] - 1 \in Nat
    BY <1>1
<1>3. /\ waiting' \in [Awaits -> Nat] /\ waiting'[a] = waiting[a] - 1
      /\ \A b \in Awaits \ {a} : waiting'[b] = waiting[b]
    BY <1>1, <1>2
<1>4. InFlight' = InFlight - 1 /\ InFlight \in Nat
    BY <1>1, <1>3 DEF InFlight, Awaits
<1>5. \A b \in Awaits : waiting[b] \in Nat
    BY <1>1
<1> QED
    BY <1>1, <1>3, <1>4, <1>5, CallsAssumption DEF CallsAssumption

(* The facts about the numbers of calls that the steps below use.          *)
Counted ==
    /\ waiting \in [Awaits -> Nat]
    /\ waiting["reconnect"] \in Nat /\ waiting["restore"] \in Nat /\ waiting["resume"] \in Nat

LEMMA CountedWhenTyped == TypeOK => Counted
BY DEF TypeOK, Counted, Awaits

LEMMA StepModal == ModalInv /\ [Next]_vars => ModalInv'
<1> SUFFICES ASSUME ModalInv, [Next]_vars PROVE ModalInv'
    OBVIOUS
<1> USE DEF ModalInv, TriesWhenDown, AsksWhenDropped, WayBack, DialogTells, ResumeButton, Looks
<1>t. TypeOK /\ Counted
    BY CountedWhenTyped
<1>u. ASSUME waiting' = waiting PROVE InFlight' =< MaxCalls /\ Counted'
    BY <1>t, <1>u DEF TypeOK, InFlight, Counted
<1>1. CASE LoseConnection
    BY <1>1, <1>t, <1>u DEF LoseConnection, OnShow, TypeOK
<1>2. CASE PauseCircuit
    BY <1>2, <1>t, <1>u DEF PauseCircuit, OnShow, TypeOK
<1>3. CASE DropCircuit
    BY <1>3, <1>t, <1>u DEF DropCircuit, script, TypeOK
<1>4. CASE ChangeReachable
    BY <1>4, <1>t, <1>u DEF ChangeReachable, script, TypeOK
<1>5. CASE AttemptConnects
    BY <1>5, <1>t, <1>u DEF AttemptConnects, Connected, OnHide, TypeOK
<1>6. CASE AttemptRejected
    BY <1>6, <1>t, <1>u DEF AttemptRejected, OnRejected, TypeOK
<1>7. CASE AttemptFails
  <2>1. CASE look' = "retrying" /\ UNCHANGED <<page, dialog, armed, attempts>>
    BY <1>7, <1>t, <1>u, <2>1 DEF AttemptFails, TypeOK
  <2>2. CASE look' = "failed" /\ attempts' = "over" /\ OnFailed
    <3>1. TypeOK'
        BY <1>7, <1>t, <1>u, <2>2 DEF AttemptFails, OnFailed, TypeOK
    <3>2. TriesWhenDown' /\ AsksWhenDropped' /\ WayBack' /\ DialogTells'
        BY <1>7, <2>2 DEF AttemptFails, OnFailed
    <3> QED
        BY <3>1, <3>2
  <2> QED
    BY <1>7, <2>1, <2>2 DEF AttemptFails
<1>8. CASE HideTab
    BY <1>8, <1>t, <1>u DEF HideTab, script, TypeOK
<1>9. CASE Dismiss
    BY <1>9, <1>t, <1>u DEF Dismiss, TypeOK
<1>10. CASE ClickRetry
  <2>1. /\ waiting' \in [Awaits -> Nat] /\ InFlight' =< MaxCalls /\ waiting'["reconnect"] > 0
        /\ \A b \in Awaits \ {"reconnect"} : waiting'[b] = waiting[b]
    BY <1>10, <1>t, BeginCounts DEF ClickRetry, BeginRetry, Awaits
  <2>2. Counted' /\ waiting'["restore"] = waiting["restore"] /\ waiting'["resume"] = waiting["resume"]
    BY <2>1 DEF Counted, Awaits
  <2>3. TypeOK'
    BY <1>10, <1>t, <2>1 DEF ClickRetry, BeginRetry, world, TypeOK
  <2>4. waiting'["reconnect"] + waiting'["restore"] > 0
    BY <2>1, <2>2 DEF Counted
  <2> QED
    BY <1>10, <2>2, <2>3, <2>4 DEF ClickRetry, world
<1>11. CASE ClickResume
  <2>1. /\ waiting' \in [Awaits -> Nat] /\ InFlight' =< MaxCalls
        /\ \A b \in Awaits \ {"resume"} : waiting'[b] = waiting[b]
    BY <1>11, <1>t, BeginCounts DEF ClickResume, Awaits
  <2>2. /\ Counted' /\ waiting'["reconnect"] = waiting["reconnect"]
        /\ waiting'["restore"] = waiting["restore"]
    BY <2>1 DEF Counted, Awaits
  <2> QED
    BY <1>11, <1>t, <2>1, <2>2 DEF ClickResume, world, TypeOK, Counted
<1>12. CASE ShowTab
  <2>1. CASE armed
    <3>1. /\ waiting' \in [Awaits -> Nat] /\ InFlight' =< MaxCalls /\ waiting'["reconnect"] > 0
          /\ \A b \in Awaits \ {"reconnect"} : waiting'[b] = waiting[b]
        BY <1>12, <1>t, <2>1, BeginCounts DEF ShowTab, BeginRetry, Awaits
    <3>2. Counted' /\ waiting'["restore"] = waiting["restore"] /\ waiting'["resume"] = waiting["resume"]
        BY <3>1 DEF Counted, Awaits
    <3>3. TypeOK'
        BY <1>12, <1>t, <2>1, <3>1 DEF ShowTab, BeginRetry, TypeOK
    <3>4. waiting'["reconnect"] + waiting'["restore"] > 0
        BY <3>1, <3>2 DEF Counted
    <3> QED
        BY <1>12, <3>2, <3>3, <3>4 DEF ShowTab
  <2>2. CASE ~armed
    BY <1>12, <1>t, <1>u, <2>2 DEF ShowTab, TypeOK
  <2> QED
    BY <2>1, <2>2
<1>13. CASE ReconnectRefused
  <2>1. /\ waiting["reconnect"] > 0 /\ dropped
        /\ waiting' = [waiting EXCEPT !["reconnect"] = waiting["reconnect"] - 1,
                                     !["restore"] = waiting["restore"] + 1]
    BY <1>13 DEF ReconnectRefused, Calling
  <2>2. /\ waiting' \in [Awaits -> Nat]
        /\ waiting'["reconnect"] = waiting["reconnect"] - 1
        /\ waiting'["restore"] = waiting["restore"] + 1 /\ waiting'["resume"] = waiting["resume"]
    BY <1>t, <2>1 DEF Counted, Awaits
  <2>3. InFlight' = InFlight /\ Counted' /\ waiting'["restore"] > 0
    BY <1>t, <2>2 DEF InFlight, Counted, Awaits
  <2> QED
    BY <1>13, <1>t, <2>1, <2>2, <2>3 DEF ReconnectRefused, world, TypeOK, Counted
<1>14. CASE Reconnects
  <2>1. /\ waiting' \in [Awaits -> Nat] /\ InFlight' =< MaxCalls
        /\ \A b \in Awaits : waiting'[b] =< waiting[b]
    BY <1>14, <1>t, FinishCounts DEF Reconnects, Awaits
  <2>2. /\ Counted' /\ waiting'["restore"] =< waiting["restore"]
        /\ waiting'["resume"] =< waiting["resume"]
    BY <2>1 DEF Counted, Awaits
  <2>3. circuit' = "connected" /\ attempts' = "idle" /\ (page' = "live" => ~dialog')
    BY <1>14 DEF Reconnects, Connected, OnHide
  <2>4. AsksWhenDropped'
    BY <1>14, <1>t, <2>2, <2>3 DEF Reconnects, Connected, Counted
  <2>5. TypeOK'
    BY <1>14, <1>t, <2>1 DEF Reconnects, Connected, OnHide, TypeOK
  <2> QED
    BY <2>3, <2>4, <2>5
<1>15. CASE RetryRestored
  <2>1. /\ waiting' \in [Awaits -> Nat] /\ InFlight' =< MaxCalls
        /\ \A b \in Awaits : waiting'[b] =< waiting[b]
    BY <1>15, <1>t, FinishCounts DEF RetryRestored, Awaits
  <2>2. dropped
    BY <1>15, <1>t DEF RetryRestored, Calling, Counted
  <2>3. dropped' /\ circuit' = "connected" /\ attempts' = "idle" /\ ~dialog'
    BY <1>15, <2>2 DEF RetryRestored, Connected, OnHide
  <2>4. TypeOK'
    BY <1>15, <1>t, <2>1 DEF RetryRestored, Connected, OnHide, TypeOK
  <2> QED
    BY <2>3, <2>4
<1>16. CASE Resumes
  <2>1. /\ waiting' \in [Awaits -> Nat] /\ InFlight' =< MaxCalls
        /\ \A b \in Awaits : waiting'[b] =< waiting[b]
    BY <1>16, <1>t, FinishCounts DEF Resumes, Awaits
  <2>2. dropped
    BY <1>16, <1>t DEF Resumes, Calling, Counted
  <2>3. dropped' /\ circuit' = "connected" /\ attempts' = "idle" /\ ~dialog'
    BY <1>16, <2>2 DEF Resumes, Connected, OnHide
  <2>4. TypeOK'
    BY <1>16, <1>t, <2>1 DEF Resumes, Connected, OnHide, TypeOK
  <2> QED
    BY <2>3, <2>4
<1>17. CASE RetryReloads
  <2>1. /\ waiting' \in [Awaits -> Nat] /\ InFlight' =< MaxCalls
        /\ \A b \in Awaits : waiting'[b] =< waiting[b]
    BY <1>17, <1>t, FinishCounts DEF RetryReloads, Awaits
  <2>2. dropped
    BY <1>17, <1>t DEF RetryReloads, Calling, Counted
  <2> QED
    BY <1>17, <1>t, <2>1, <2>2 DEF RetryReloads, world, TypeOK
<1>18. CASE ResumeReloads
  <2>1. /\ waiting' \in [Awaits -> Nat] /\ InFlight' =< MaxCalls
        /\ \A b \in Awaits : waiting'[b] =< waiting[b]
    BY <1>18, <1>t, FinishCounts DEF ResumeReloads, Awaits
  <2>2. dropped
    BY <1>18, <1>t DEF ResumeReloads, Calling, Counted
  <2> QED
    BY <1>18, <1>t, <2>1, <2>2 DEF ResumeReloads, world, TypeOK
<1>19. CASE RetryThrows
  <2>1. PICK a \in {"reconnect", "restore"} : Calling(a) /\ Finish(a)
    BY <1>19 DEF RetryThrows
  <2>2. /\ waiting' \in [Awaits -> Nat] /\ InFlight' =< MaxCalls
        /\ \A b \in Awaits : waiting'[b] =< waiting[b]
    BY <1>t, <2>1, FinishCounts DEF Awaits
  <2>3. /\ Counted' /\ waiting'["restore"] =< waiting["restore"]
        /\ waiting'["resume"] =< waiting["resume"]
    BY <2>2 DEF Counted, Awaits
  <2>4. TypeOK'
    BY <1>19, <1>t, <2>2 DEF RetryThrows, world, TypeOK
  <2>5. AsksWhenDropped'
    BY <1>19, <1>t, <2>3 DEF RetryThrows, world, Counted
  <2> QED
    BY <1>19, <2>4, <2>5 DEF RetryThrows, world
<1>20. CASE ResumeThrows
  <2>1. /\ waiting' \in [Awaits -> Nat] /\ InFlight' =< MaxCalls
        /\ waiting'["reconnect"] = waiting["reconnect"] /\ waiting'["restore"] = waiting["restore"]
    <3>1. waiting' = [waiting EXCEPT !["resume"] = waiting["resume"] - 1]
        BY <1>20 DEF ResumeThrows, Finish
    <3> QED
        BY <1>20, <1>t, <3>1, FinishCounts DEF ResumeThrows, Counted, Awaits
  <2>2. dropped
    BY <1>20, <1>t DEF ResumeThrows, Calling, Counted
  <2>3. TypeOK'
    BY <1>20, <1>t, <2>1 DEF ResumeThrows, world, TypeOK
  <2>4. WayBack'
    BY <1>20, <1>t, <2>1 DEF ResumeThrows, world, Counted
  <2> QED
    BY <1>20, <2>2, <2>3, <2>4 DEF ResumeThrows, world
<1>21. CASE AnswerLost
  <2>1. PICK a \in {"restore", "resume"} : Calling(a) /\ Finish(a)
    BY <1>21 DEF AnswerLost
  <2>2. /\ waiting' \in [Awaits -> Nat] /\ InFlight' =< MaxCalls
    BY <1>t, <2>1, FinishCounts DEF Awaits
  <2>3. dropped
    BY <1>21 DEF AnswerLost
  <2>4. TypeOK'
    BY <1>21, <1>t, <2>2 DEF AnswerLost, TypeOK
  <2>5. WayBack'
    <3>1. CASE armed'
        BY <3>1
    <3>2. CASE /\ Calling("resume") /\ Finish("resume") /\ UNCHANGED armed
               /\ look' = IF look = "paused" THEN "resume-failed" ELSE look
      <4>1. waiting' = [waiting EXCEPT !["resume"] = waiting["resume"] - 1]
        BY <3>2 DEF Finish
      <4>2. waiting'["reconnect"] = waiting["reconnect"] /\ waiting'["restore"] = waiting["restore"]
        BY <1>t, <4>1 DEF Counted, Awaits
      <4> QED
        BY <1>21, <1>t, <3>2, <4>2 DEF AnswerLost, Counted
    <3> QED
        BY <1>21, <3>1, <3>2 DEF AnswerLost
  <2> QED
    BY <1>21, <2>3, <2>4, <2>5 DEF AnswerLost
<1>22. CASE UNCHANGED vars
    BY <1>22, <1>t, <1>u DEF vars, script, world, TypeOK
<1> QED
    BY <1>1, <1>2, <1>3, <1>4, <1>5, <1>6, <1>7, <1>8, <1>9, <1>10, <1>11, <1>12, <1>13, <1>14, <1>15, <1>16, <1>17, <1>18, <1>19, <1>20, <1>21, <1>22
    DEF Next, Attempt, RetryAnswers, ResumeAnswers

(* The invariant of the dialog. *)
THEOREM ModalInvariant == Spec => []ModalInv
<1> QED
    BY InitModal, StepModal, PTL DEF Spec

(* The types of the dialog's state, for any bound on the handlers in flight. *)
THEOREM ModalTypes == Spec => []TypeOK
<1>1. ModalInv => TypeOK
    BY DEF ModalInv
<1> QED
    BY <1>1, ModalInvariant, PTL

(* A page without its circuit always has a way back, for any bound on the
   handlers in flight: no order of events, answers and clicks leaves it alone. *)
THEOREM AlwaysAWayBack == Spec => []WayBack
<1>1. ModalInv => WayBack
    BY DEF ModalInv
<1> QED
    BY <1>1, ModalInvariant, PTL

(* The dialog is open exactly while the page has no circuit and the user has
   not dismissed it, whatever late answers arrive. *)
THEOREM DialogAlwaysTells == Spec => []DialogTells
<1>1. ModalInv => DialogTells
    BY DEF ModalInv
<1> QED
    BY <1>1, ModalInvariant, PTL

(* A step that reloads the page is taken when the server answers and has    *)
(* given up the circuit: the script reloads after a refusal only, and a    *)
(* refusal follows a circuit given up.                                     *)
LEMMA ReloadStep == ModalInv /\ [Next]_vars => [page' # page => reachable /\ dropped]_vars
<1> SUFFICES ASSUME ModalInv, Next, page' # page PROVE reachable /\ dropped
    BY DEF vars, script
<1> USE DEF ModalInv, AsksWhenDropped
<1>1. Counted
    BY CountedWhenTyped
<1>2. CASE AttemptRejected
    BY <1>2 DEF AttemptRejected
<1>3. CASE RetryReloads
    BY <1>1, <1>3 DEF RetryReloads, NotRestored, Calling, Counted
<1>4. CASE ResumeReloads
    BY <1>1, <1>4 DEF ResumeReloads, NotRestored, Calling, Counted
<1> QED
    BY <1>2, <1>3, <1>4
    DEF Next, Attempt, RetryAnswers, ResumeAnswers, LoseConnection, PauseCircuit, DropCircuit,
        ChangeReachable, AttemptConnects, AttemptFails, ClickRetry, ClickResume, ShowTab, HideTab,
        Dismiss, Reconnects, ReconnectRefused, RetryRestored, RetryThrows, Resumes, ResumeThrows,
        AnswerLost, Connected, OnShow, OnHide, OnFailed, script, world

(* The page is reloaded only when the server answers and has given up the  *)
(* circuit, for any bound on the handlers in flight.                       *)
THEOREM ReloadsAreJustified == Spec => ReloadJustified
<1> QED
    BY ModalInvariant, ReloadStep, PTL DEF Spec, ReloadJustified
=============================================================================

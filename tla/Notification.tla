---------------------------- MODULE Notification ----------------------------
(***************************************************************************)
(* What the system promises about one notification, with no copies,        *)
(* channels, callbacks or processes: it is handed to the provider from the *)
(* queue, leaves the queue only sent or given up, and what is recorded of  *)
(* it is true.  Only a fault sends it more than once or brings it back.    *)
(***************************************************************************)
EXTENDS Integers

CONSTANT Extra      \* how many more sends one fault can cause

VARIABLES
    requested,  \* it was put into the queue
    live,       \* some worker may still send it, or schedule its retry
    sends,      \* how often the provider has accepted it
    dead,       \* it was given up: a copy is in the dead letter queue
    status,     \* what its row says: "Pending", "Sent" or "deleted"
    waived,     \* the operator has marked it as Sent by hand
    faults      \* what has failed in the system so far

vars == <<requested, live, sends, dead, status, waived, faults>>

Init ==
    /\ requested = FALSE /\ live = FALSE /\ sends = 0 /\ dead = FALSE
    /\ status = "Pending" /\ waived = FALSE /\ faults = 0

Request ==
    /\ ~requested
    /\ requested' = TRUE /\ live' = TRUE
    /\ UNCHANGED <<sends, dead, status, waived, faults>>

(* The provider accepts it; the answer may be lost.  Until something fails *)
(* this is the first time, and it is neither out of the queue nor given up. *)
Send ==
    /\ requested /\ (faults = 0 => live /\ ~dead)
    /\ faults' \in {faults, faults + 1}
    /\ sends' = sends + 1 /\ sends' <= 1 + Extra * faults'
    /\ UNCHANGED <<requested, live, dead, status, waived>>

(* Until something fails, what is given up was not sent. *)
GiveUp ==
    /\ live /\ (faults = 0 /\ status # "deleted" => sends = 0)
    /\ dead' = TRUE /\ live' \in {live, FALSE}
    /\ UNCHANGED <<requested, sends, status, waived, faults>>

(* It leaves the queue. *)
Settle ==
    /\ live /\ (sends > 0 \/ dead \/ waived)
    /\ live' = FALSE
    /\ UNCHANGED <<requested, sends, dead, status, waived, faults>>

(* A callback that outlived its delivery schedules a retry. *)
Revive ==
    /\ requested /\ faults > 0
    /\ live' = TRUE
    /\ UNCHANGED <<requested, sends, dead, status, waived, faults>>

(* The row never says Sent of what was not sent, and a deleted row never   *)
(* comes back; the operator may reset or delete it, or declare it sent.    *)
Record ==
    /\ status # "deleted" /\ (sends > 0 \/ waived)
    /\ status' = "Sent"
    /\ UNCHANGED <<requested, live, sends, dead, waived, faults>>

Edit ==
    /\ status # "deleted" /\ status' \in {"Pending", "deleted"}
    /\ UNCHANGED <<requested, live, sends, dead, waived, faults>>

Waive ==
    /\ waived' = TRUE
    /\ status' = IF status = "deleted" THEN status ELSE "Sent"
    /\ UNCHANGED <<requested, live, sends, dead, faults>>

Fail ==
    /\ faults' = faults + 1
    /\ UNCHANGED <<requested, live, sends, dead, status, waived>>

Next ==
    Request \/ Send \/ GiveUp \/ Settle \/ Revive \/ Record \/ Edit \/ Waive \/ Fail

Spec == Init /\ [][Next]_vars
=============================================================================

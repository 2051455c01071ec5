----------------------------- MODULE TaskQueue ------------------------------
(***************************************************************************)
(* What a work queue with its workers promises about a notification, with  *)
(* no broker messages, channels or processes: an accepted task leaves the  *)
(* queue only after it was processed or dead-lettered; it may come back,   *)
(* and may be processed again.                                             *)
(***************************************************************************)
CONSTANT Tasks

VARIABLES
    accepted,   \* tasks that were published
    live,       \* tasks some worker may still get
    processed,  \* tasks whose processing has succeeded
    dead        \* dead-lettered tasks

vars == <<accepted, live, processed, dead>>

Init == accepted = {} /\ live = {} /\ processed = {} /\ dead = {}

Accept(t) ==
    /\ t \notin accepted
    /\ accepted' = accepted \cup {t} /\ live' = live \cup {t}
    /\ UNCHANGED <<processed, dead>>

Process(t) ==
    /\ t \in accepted
    /\ processed' = processed \cup {t}
    /\ UNCHANGED <<accepted, live, dead>>

(* The task leaves the queue, or one of its copies does. *)
DeadLetter(t) ==
    /\ t \in live
    /\ dead' = dead \cup {t}
    /\ live' \in {live, live \ {t}}
    /\ UNCHANGED <<accepted, processed>>

Retire(t) ==
    /\ t \in live /\ t \in processed \cup dead
    /\ live' = live \ {t}
    /\ UNCHANGED <<accepted, processed, dead>>

(* A callback that outlived its delivery schedules a retry of the task. *)
Revive(t) ==
    /\ t \in accepted
    /\ live' = live \cup {t}
    /\ UNCHANGED <<accepted, processed, dead>>

Next == \E t \in Tasks : Accept(t) \/ Process(t) \/ DeadLetter(t) \/ Retire(t) \/ Revive(t)

Spec == Init /\ [][Next]_vars
=============================================================================

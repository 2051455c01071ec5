----------------------- MODULE TaskDeliveryRefinement -----------------------
(***************************************************************************)
(* TaskDelivery implements Notification for every task: the copies of the  *)
(* queue, the row and what the provider has accepted are one notification. *)
(***************************************************************************)
EXTENDS TaskDelivery

Note(t) == INSTANCE Notification WITH
    Extra <- Prefetch, requested <- t \in published, live <- Live(t), sends <- accepted[t],
    dead <- DeadLettered(t), status <- row[t], waived <- t \in forced

(* ImplementsNotification: every step of the queue, the callbacks,         *)
(* ProcessMessageAsync, the status worker and the admin panel, on a queue  *)
(* with a dead letter exchange, is for each task a step of its abstract    *)
(* notification or changes nothing in it: \A t \in Tasks : Note(t)!Spec,  *)
(* in the form that TLC can check.                                         *)
ImplementsNotification ==
    /\ \A t \in Tasks : Note(t)!Init
    /\ [][\A t \in Tasks : [Note(t)!Next]_(Note(t)!vars)]_allVars
=============================================================================

---------------------- MODULE ConsumerWorkerRefinement ----------------------
(***************************************************************************)
(* ConsumerWorker implements TaskQueue: a task is live while one of its    *)
(* copies is ready, delayed or delivered and unanswered.                   *)
(***************************************************************************)
EXTENDS ConsumerWorkerInv

LiveTasks == {t \in Tasks : Live(t)}
DeadTasks == {t \in Tasks : DeadLettered(t)}

Queue == INSTANCE TaskQueue WITH
    accepted <- published, live <- LiveTasks, processed <- done, dead <- DeadTasks

(* ImplementsTaskQueue: every step of the broker and of the callbacks of   *)
(* SingleConsumerWorker, on a queue with a dead letter exchange, is a step *)
(* of the abstract queue or changes nothing in it.                         *)
ImplementsTaskQueue == Queue!Spec
=============================================================================

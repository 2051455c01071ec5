--------------------------- MODULE ConsumerWorker ---------------------------
(***************************************************************************)
(* One work queue of RabbitMQ and the worker processes that consume it:    *)
(* Queue/AbstractWorkers/SingleConsumerWorker.cs.  A broker message is a   *)
(* "copy" of a task; every scheduled retry publishes a fresh copy of the   *)
(* task with the next value of the x-retry-count header.                   *)
(*                                                                         *)
(* ProcessMessageAsync is left abstract here: it succeeds, or throws a     *)
(* TransientProviderException, or throws anything else.                    *)
(***************************************************************************)
EXTENDS Integers, FiniteSets

CONSTANTS
    Tasks,         \* the notifications published to the queue
    Workers,       \* the worker processes that consume it
    MaxRetries,    \* RetryChannelPolicyOptions.MaxRetries of the queue
    Prefetch,      \* SingleConsumerWorkerSettings.PrefetchCount
    RetryManaged,  \* QueueNames.IsRetryManagedQueue(_queueName)
    Forks,         \* bound: identities of copies of one task and attempt
    MaxFaults,     \* bound: connection losses, crashes, failed starts, bad configuration
    MaxStops       \* bound: graceful shutdowns requested

ASSUME RetriesAssumption == MaxRetries \in Nat
ASSUME PrefetchAssumption == Prefetch \in Nat \ {0}
ASSUME ForksAssumption == Forks \subseteq Nat
ASSUME BoundsAssumption == MaxFaults \in Nat /\ MaxStops \in Nat

VARIABLES
    \* the broker (external)
    ready,      \* copies waiting in the queue
    delayed,    \* copies held by the x-delayed-message retry exchange
    dlq,        \* copies in the dead letter queue
    unacked,    \* deliveries the broker waits an answer for
    published,  \* tasks that were published
    \* the RabbitMQ client and the handlers of each worker
    buffer,     \* deliveries received by a client and not yet dispatched
    handlers,   \* runs of the ReceivedAsync callback
    channel,    \* "open", "dying" (lost, not noticed yet), "down", "none"
    inc,        \* incarnation of the channel: a start and a recovery open the next
    consuming,  \* the consumer tag is registered at the broker
    \* the worker's own fields
    phase,      \* life of the process; "stopping" is _shutdownRequested
    inFlight,   \* _inFlightMessages
    drained,    \* the current _drainCompletion is completed
    \* what has happened, for the properties and the bounds
    done,       \* tasks whose processing has succeeded
    thrown,     \* <<task, kind>> of the exceptions processing has thrown
    tries,      \* how often each attempt of a task was started
    faults, stops

broker  == <<ready, delayed, dlq, unacked, published>>
client  == <<buffer, handlers, channel, inc, consuming>>
process == <<phase, inFlight, drained>>
history == <<done, thrown, tries>>
vars == <<broker, client, process, history, faults, stops>>

Attempts == 0..MaxRetries
Copy == [task : Tasks, attempt : Nat, n : Forks]
Delivery == [copy : Copy, w : Workers, inc : Nat]

(* Where the callback is: in ProcessMessageAsync; before the ack of a      *)
(* success; in the catch block with a transient or another exception;      *)
(* between PublishRetryAsync and its ack; before the requeueing nack; in   *)
(* the finally block; between the decrement and TrySetResult.              *)
Kinds == {"transient", "permanent"}
Points == {"processing", "ack", "ackRetry", "nack", "finally", "signal"} \cup Kinds
Handler == [d : Delivery, pc : Points]
Phases == {"off", "running", "stopping", "closed", "exited"}

TypeOK ==
    /\ ready \subseteq Copy /\ delayed \subseteq Copy /\ dlq \subseteq Copy
    /\ unacked \subseteq Delivery /\ buffer \subseteq Delivery
    /\ handlers \subseteq Handler
    /\ published \subseteq Tasks /\ done \subseteq Tasks
    /\ thrown \subseteq Tasks \X Kinds
    /\ channel \in [Workers -> {"open", "dying", "down", "none"}]
    /\ phase \in [Workers -> Phases]
    /\ inc \in [Workers -> Nat] /\ inFlight \in [Workers -> Nat]
    /\ consuming \in [Workers -> BOOLEAN] /\ drained \in [Workers -> BOOLEAN]
    /\ tries \in [Tasks -> [Attempts -> Nat]] /\ faults \in Nat /\ stops \in Nat

Init ==
    /\ ready = {} /\ delayed = {} /\ dlq = {} /\ unacked = {} /\ published = {}
    /\ buffer = {} /\ handlers = {}
    /\ channel = [w \in Workers |-> "none"]
    /\ inc = [w \in Workers |-> 0]
    /\ consuming = [w \in Workers |-> FALSE]
    /\ phase = [w \in Workers |-> "off"]
    /\ inFlight = [w \in Workers |-> 0]
    /\ drained = [w \in Workers |-> TRUE]
    /\ done = {} /\ thrown = {} /\ tries = [t \in Tasks |-> [a \in Attempts |-> 0]]
    /\ faults = 0 /\ stops = 0

-----------------------------------------------------------------------------
Of(w, S) == {d \in S : d.w = w}
Copies(S) == {d.copy : d \in S}
Queued == ready \cup delayed \cup Copies(unacked)

(* The task is still somewhere in the queue, so some worker can get it. *)
Live(t) == \E c \in Queued : c.task = t

(* c is the fresh copy of task t with header x-retry-count = a. *)
IsFresh(c, t, a) ==
    /\ c.task = t /\ c.attempt = a
    /\ c \notin Queued \cup dlq
    /\ \A m \in Forks : m < c.n => [task |-> t, attempt |-> a, n |-> m] \in Queued \cup dlq

MoveTo(h, pc) == handlers' = (handlers \ {h}) \cup {[d |-> h.d, pc |-> pc]}

(* Mutant of Requeue: the nack says requeue: false. *)
RequeueDrops(D) == unacked' = unacked \ D /\ ready' = ready

(* Broker side of an answer that returns the delivery to the queue.  An    *)
(* answer with a delivery tag of a lost channel is ignored.                *)
Requeue(D) ==
    /\ ready' = ready \cup Copies(D \cap unacked)
    /\ unacked' = unacked \ D

Fault == faults < MaxFaults /\ faults' = faults + 1

-----------------------------------------------------------------------------
(* The broker and the client library (external). *)

(* The publisher puts a task into the queue. *)
Publish(t) ==
    /\ t \notin published
    /\ published' = published \cup {t}
    /\ \E n \in Forks :
         LET c == [task |-> t, attempt |-> 0, n |-> n] IN
         IsFresh(c, t, 0) /\ ready' = ready \cup {c}
    /\ UNCHANGED <<delayed, dlq, unacked, client, process, history, faults, stops>>

(* The x-delay of a retry copy is over: it is routed to the queue. *)
DelayElapsed(c) ==
    /\ c \in delayed
    /\ delayed' = delayed \ {c} /\ ready' = ready \cup {c}
    /\ UNCHANGED <<dlq, unacked, published, client, process, history, faults, stops>>

Deliver(w, c) ==
    /\ c \in ready /\ consuming[w] /\ channel[w] = "open"
    /\ Cardinality(Of(w, unacked)) < Prefetch
    /\ LET d == [copy |-> c, w |-> w, inc |-> inc[w]] IN
         /\ unacked' = unacked \cup {d}
         /\ buffer' = buffer \cup {d}
    /\ ready' = ready \ {c}
    /\ UNCHANGED <<delayed, dlq, published, handlers, channel, inc, consuming,
                   process, history, faults, stops>>

(* The connection breaks: the broker requeues what is unacked; the client  *)
(* does not know yet and what it still writes is never read.               *)
Break(w) ==
    /\ channel[w] = "open" /\ Fault
    /\ channel' = [channel EXCEPT ![w] = "dying"]
    /\ Requeue(Of(w, unacked))
    /\ UNCHANGED <<delayed, dlq, published, buffer, handlers, inc, consuming,
                   process, history, stops>>

Notice(w) ==
    /\ channel[w] = "dying"
    /\ channel' = [channel EXCEPT ![w] = "down"]
    /\ UNCHANGED <<broker, buffer, handlers, inc, consuming, process, history, faults, stops>>

(* Automatic recovery: the same channel object, with new delivery tags; the  *)
(* consumer is registered again unless it was cancelled.                   *)
Recover(w) ==
    /\ channel[w] = "down"
    /\ channel' = [channel EXCEPT ![w] = "open"]
    /\ inc' = [inc EXCEPT ![w] = @ + 1]
    /\ UNCHANGED <<broker, buffer, handlers, consuming, process, history, faults, stops>>

(* The client may also drop deliveries of the lost channel. *)
DiscardStale(d) ==
    /\ d \in buffer \ unacked
    /\ buffer' = buffer \ {d}
    /\ UNCHANGED <<broker, handlers, channel, inc, consuming, process, history, faults, stops>>

-----------------------------------------------------------------------------
(* The ReceivedAsync callback.  The dispatcher of one channel incarnation  *)
(* runs one callback at a time.                                            *)

DispatcherFree(d) == \A h \in handlers : h.d.w # d.w \/ h.d.inc # d.inc

(* Mutant of BeginProcessing: the completion of the last drain is reused. *)
BeginWithoutCompletion(d) ==
    /\ d \in buffer /\ DispatcherFree(d) /\ phase[d.w] = "running"
    /\ buffer' = buffer \ {d}
    /\ handlers' = handlers \cup {[d |-> d, pc |-> "processing"]}
    /\ inFlight' = [inFlight EXCEPT ![d.w] = @ + 1]
    /\ tries' = [tries EXCEPT ![d.copy.task][d.copy.attempt] = @ + 1]
    /\ UNCHANGED <<broker, channel, inc, consuming, phase, drained, done, thrown, faults, stops>>

(* TryBeginMessageProcessing returns true.  The first message in flight    *)
(* gets a new _drainCompletion; a callback that has yet to complete the    *)
(* previous one completes an object nobody awaits.                         *)
BeginProcessing(d) ==
    /\ d \in buffer /\ DispatcherFree(d) /\ phase[d.w] = "running"
    /\ buffer' = buffer \ {d}
    /\ handlers' = {h \in handlers : ~(h.d.w = d.w /\ h.pc = "signal")}
                     \cup {[d |-> d, pc |-> "processing"]}
    /\ inFlight' = [inFlight EXCEPT ![d.w] = @ + 1]
    /\ drained' = IF inFlight[d.w] = 0 THEN [drained EXCEPT ![d.w] = FALSE] ELSE drained
    /\ tries' = [tries EXCEPT ![d.copy.task][d.copy.attempt] = @ + 1]
    /\ UNCHANGED <<broker, channel, inc, consuming, phase, done, thrown, faults, stops>>

(* Mutant of RefuseDelivery: counted in flight before the flag is read. *)
RefuseCounted(d) ==
    /\ d \in buffer /\ DispatcherFree(d) /\ phase[d.w] = "stopping"
    /\ buffer' = buffer \ {d}
    /\ Requeue({d})
    /\ inFlight' = [inFlight EXCEPT ![d.w] = @ + 1]
    /\ UNCHANGED <<delayed, dlq, published, handlers, channel, inc, consuming,
                   phase, drained, history, faults, stops>>

(* TryBeginMessageProcessing returns false: nack with requeue. *)
RefuseDelivery(d) ==
    /\ d \in buffer /\ DispatcherFree(d) /\ phase[d.w] = "stopping"
    /\ buffer' = buffer \ {d}
    /\ Requeue({d})
    /\ UNCHANGED <<delayed, dlq, published, handlers, channel, inc, consuming,
                   process, history, faults, stops>>

ProcessSucceeds(h) ==
    /\ h.pc = "processing"
    /\ MoveTo(h, "ack")
    /\ done' = done \cup {h.d.copy.task}
    /\ UNCHANGED <<broker, buffer, channel, inc, consuming, process, thrown, tries, faults, stops>>

ProcessFails(h, kind) ==
    /\ h.pc = "processing"
    /\ MoveTo(h, kind)
    /\ thrown' = thrown \cup {<<h.d.copy.task, kind>>}
    /\ UNCHANGED <<broker, buffer, channel, inc, consuming, process, done, tries, faults, stops>>

Usable(h) == channel[h.d.w] \in {"open", "dying"}

(* Mutant of AckSuccess: the ack is forgotten. *)
AckForgotten(h) ==
    /\ h.pc = "ack" /\ Usable(h)
    /\ MoveTo(h, "finally")
    /\ UNCHANGED <<broker, buffer, channel, inc, consuming, process, history, faults, stops>>

AckSuccess(h) ==
    /\ h.pc = "ack" /\ Usable(h)
    /\ unacked' = unacked \ {h.d}
    /\ MoveTo(h, "finally")
    /\ UNCHANGED <<ready, delayed, dlq, published, buffer, channel, inc, consuming,
                   process, history, faults, stops>>

(* The ack of a success throws on a lost channel: the catch block treats it  *)
(* as a permanent failure of the message.                                  *)
AckSuccessThrows(h) ==
    /\ h.pc = "ack" /\ ~Usable(h)
    /\ MoveTo(h, "permanent")
    /\ UNCHANGED <<broker, buffer, channel, inc, consuming, process, history, faults, stops>>

(* Mutant of CanScheduleRetry: compares the next attempt with the limit. *)
RetryOffByOne(h) ==
    h.pc = "transient" /\ RetryManaged /\ h.d.copy.attempt + 1 < MaxRetries

CanScheduleRetry(h) ==
    h.pc = "transient" /\ RetryManaged /\ h.d.copy.attempt < MaxRetries

(* Mutant of ScheduleRetry: the header keeps the current attempt. *)
RetrySameAttempt(h) ==
    /\ CanScheduleRetry(h) /\ Usable(h)
    /\ \E n \in Forks :
         LET c == [task |-> h.d.copy.task, attempt |-> h.d.copy.attempt, n |-> n]
         IN  IsFresh(c, c.task, c.attempt) /\ delayed' = delayed \cup {c}
    /\ MoveTo(h, "ackRetry")
    /\ UNCHANGED <<ready, dlq, unacked, published, buffer, channel, inc, consuming,
                   process, history, faults, stops>>

(* Mutant of ScheduleRetry: the exchange returns the copy as unroutable. *)
RetryReturned(h) ==
    /\ CanScheduleRetry(h) /\ Usable(h)
    /\ MoveTo(h, "ackRetry")
    /\ UNCHANGED <<broker, buffer, channel, inc, consuming, process, history, faults, stops>>

(* PublishRetryAsync: the copy reaches the exchange unless the connection  *)
(* is already lost. The queue is bound to the exchange as long as nobody   *)
(* changes the broker by hand, so that the broker returns no copy as       *)
(* unroutable (OnBasicReturnAsync would only log it).                      *)
ScheduleRetry(h) ==
    /\ CanScheduleRetry(h) /\ Usable(h)
    /\ IF channel[h.d.w] = "open"
       THEN \E n \in Forks :
              LET c == [task |-> h.d.copy.task, attempt |-> h.d.copy.attempt + 1, n |-> n]
              IN  IsFresh(c, c.task, c.attempt) /\ delayed' = delayed \cup {c}
       ELSE delayed' = delayed
    /\ MoveTo(h, "ackRetry")
    /\ UNCHANGED <<ready, dlq, unacked, published, buffer, channel, inc, consuming,
                   process, history, faults, stops>>

(* Mutant of AckScheduled: the message is returned to the queue as well. *)
RetryRequeued(h) ==
    /\ h.pc = "ackRetry" /\ Usable(h)
    /\ Requeue({h.d})
    /\ MoveTo(h, "finally")
    /\ UNCHANGED <<delayed, dlq, published, buffer, channel, inc, consuming,
                   process, history, faults, stops>>

AckScheduled(h) ==
    /\ h.pc = "ackRetry" /\ Usable(h)
    /\ unacked' = unacked \ {h.d}
    /\ MoveTo(h, "finally")
    /\ UNCHANGED <<ready, delayed, dlq, published, buffer, channel, inc, consuming,
                   process, history, faults, stops>>

(* Mutant of RejectMessage: the failed message is acknowledged. *)
AckFailed(h) ==
    /\ h.pc \in Kinds /\ ~CanScheduleRetry(h) /\ Usable(h)
    /\ unacked' = unacked \ {h.d}
    /\ MoveTo(h, "finally")
    /\ UNCHANGED <<ready, delayed, dlq, published, buffer, channel, inc, consuming,
                   process, history, faults, stops>>

(* BasicReject without requeue: the broker dead-letters the message, or    *)
(* drops it when the queue has no dead letter exchange.                    *)
RejectMessage(h) ==
    /\ h.pc \in Kinds /\ ~CanScheduleRetry(h) /\ Usable(h)
    /\ unacked' = unacked \ {h.d}
    /\ dlq' = IF RetryManaged THEN dlq \cup Copies({h.d} \cap unacked) ELSE dlq
    /\ MoveTo(h, "finally")
    /\ UNCHANGED <<ready, delayed, published, buffer, channel, inc, consuming,
                   process, history, faults, stops>>

(* Mutant of FailureHandlingThrows: the inner exception is only logged. *)
FailureUnanswered(h) ==
    /\ \/ h.pc \in Kinds \cup {"ackRetry"} /\ ~Usable(h) /\ UNCHANGED faults
       \/ h.pc \in Kinds /\ Usable(h) /\ Fault
    /\ MoveTo(h, "finally")
    /\ UNCHANGED <<broker, buffer, channel, inc, consuming, process, history, stops>>

(* An exception inside the catch block: the channel is down, or the retry  *)
(* policy cannot be read from the (reloadable) configuration.              *)
FailureHandlingThrows(h) ==
    /\ \/ h.pc \in Kinds \cup {"ackRetry"} /\ ~Usable(h) /\ UNCHANGED faults
       \/ h.pc \in Kinds /\ Usable(h) /\ Fault
    /\ MoveTo(h, "nack")
    /\ UNCHANGED <<broker, buffer, channel, inc, consuming, process, history, stops>>

(* BasicNack with requeue; when it throws the exception leaves the callback. *)
RequeueFailed(h) ==
    /\ h.pc = "nack"
    /\ Requeue({h.d})
    /\ MoveTo(h, "finally")
    /\ UNCHANGED <<delayed, dlq, published, buffer, channel, inc, consuming,
                   process, history, faults, stops>>

(* Mutant of CompleteMessageProcessing: looks for an empty worker before   *)
(* the decrement.                                                          *)
CompleteTestsFirst(h) ==
    /\ h.pc = "finally"
    /\ inFlight' = [inFlight EXCEPT ![h.d.w] = IF @ > 0 THEN @ - 1 ELSE @]
    /\ IF inFlight[h.d.w] = 0
       THEN MoveTo(h, "signal")
       ELSE handlers' = handlers \ {h}
    /\ UNCHANGED <<broker, buffer, channel, inc, consuming, phase, drained, history,
                   faults, stops>>

(* The locked part of CompleteMessageProcessing. *)
CompleteMessageProcessing(h) ==
    /\ h.pc = "finally"
    /\ inFlight' = [inFlight EXCEPT ![h.d.w] = IF @ > 0 THEN @ - 1 ELSE @]
    /\ IF inFlight[h.d.w] = 1
       THEN MoveTo(h, "signal")
       ELSE handlers' = handlers \ {h}
    /\ UNCHANGED <<broker, buffer, channel, inc, consuming, phase, drained, history,
                   faults, stops>>

(* TrySetResult on the completion captured under the lock. *)
SignalDrained(h) ==
    /\ h.pc = "signal"
    /\ drained' = [drained EXCEPT ![h.d.w] = TRUE]
    /\ handlers' = handlers \ {h}
    /\ UNCHANGED <<broker, buffer, channel, inc, consuming, phase, inFlight, history,
                   faults, stops>>

HandlerStep(h) ==
    \/ ProcessSucceeds(h)
    \/ \E kind \in Kinds : ProcessFails(h, kind)
    \/ AckSuccess(h) \/ AckSuccessThrows(h)
    \/ ScheduleRetry(h) \/ AckScheduled(h) \/ RejectMessage(h)
    \/ FailureHandlingThrows(h) \/ RequeueFailed(h)
    \/ CompleteMessageProcessing(h) \/ SignalDrained(h)

-----------------------------------------------------------------------------
(* The life of the worker process. *)

(* ExecuteAsync up to BasicConsumeAsync. *)
Start(w) ==
    /\ phase[w] \in {"off", "closed", "exited"}
    /\ phase' = [phase EXCEPT ![w] = "running"]
    /\ channel' = [channel EXCEPT ![w] = "open"]
    /\ consuming' = [consuming EXCEPT ![w] = TRUE]
    /\ inc' = [inc EXCEPT ![w] = @ + 1]
    /\ inFlight' = [inFlight EXCEPT ![w] = 0]
    /\ drained' = [drained EXCEPT ![w] = TRUE]
    /\ UNCHANGED <<broker, buffer, handlers, history, faults, stops>>

(* GetConnection, CreateChannelAsync or a declaration throws: the exception  *)
(* is rethrown, the host stops and the process exits without an error code.  *)
StartFails(w) ==
    /\ phase[w] \in {"off", "closed"} /\ Fault
    /\ phase' = [phase EXCEPT ![w] = "exited"]
    /\ UNCHANGED <<broker, client, inFlight, drained, history, stops>>

RequestShutdown(w) ==
    /\ phase[w] = "running" /\ stops < MaxStops
    /\ stops' = stops + 1
    /\ phase' = [phase EXCEPT ![w] = "stopping"]
    /\ UNCHANGED <<broker, client, inFlight, drained, history, faults>>

(* BasicCancelAsync of RequestGracefulShutdownAsync; the client forgets the  *)
(* consumer even when the cancellation itself fails.                       *)
CancelConsumer(w) ==
    /\ phase[w] = "stopping" /\ consuming[w]
    /\ consuming' = [consuming EXCEPT ![w] = FALSE]
    /\ UNCHANGED <<broker, buffer, handlers, channel, inc, process, history, faults, stops>>

(* The drain completion was awaited: StopConsumingAsync cancels and closes   *)
(* the channel, and the broker requeues what was not answered.             *)
StopConsuming(w) ==
    /\ phase[w] = "stopping" /\ drained[w]
    /\ phase' = [phase EXCEPT ![w] = "closed"]
    /\ channel' = [channel EXCEPT ![w] = "none"]
    /\ consuming' = [consuming EXCEPT ![w] = FALSE]
    /\ Requeue(Of(w, unacked))
    /\ buffer' = buffer \ Of(w, buffer)
    /\ UNCHANGED <<delayed, dlq, published, handlers, inc, inFlight, drained, history,
                   faults, stops>>

(* The process dies, or the host gives up waiting for the drain. *)
Crash(w) ==
    /\ phase[w] \in {"running", "stopping"} /\ Fault
    /\ phase' = [phase EXCEPT ![w] = "off"]
    /\ channel' = [channel EXCEPT ![w] = "none"]
    /\ consuming' = [consuming EXCEPT ![w] = FALSE]
    /\ inFlight' = [inFlight EXCEPT ![w] = 0]
    /\ drained' = [drained EXCEPT ![w] = TRUE]
    /\ Requeue(Of(w, unacked))
    /\ buffer' = buffer \ Of(w, buffer)
    /\ handlers' = {h \in handlers : h.d.w # w}
    /\ UNCHANGED <<delayed, dlq, published, inc, history, stops>>

Next ==
    \/ \E t \in Tasks : Publish(t)
    \/ \E c \in delayed : DelayElapsed(c)
    \/ \E w \in Workers, c \in ready : Deliver(w, c)
    \/ \E d \in buffer : DiscardStale(d) \/ BeginProcessing(d) \/ RefuseDelivery(d)
    \/ \E h \in handlers : HandlerStep(h)
    \/ \E w \in Workers :
         \/ Break(w) \/ Notice(w) \/ Recover(w)
         \/ Start(w) \/ StartFails(w) \/ Crash(w)
         \/ RequestShutdown(w) \/ CancelConsumer(w) \/ StopConsuming(w)

Spec == Init /\ [][Next]_vars

-----------------------------------------------------------------------------
(* Properties. *)

DeadLettered(t) == \E c \in dlq : c.task = t

(* NoLoss: a published task is in the queue (ready, delayed or delivered   *)
(* and unanswered), was processed, or is dead-lettered; only a queue       *)
(* without a dead letter exchange drops a task, and only one whose         *)
(* processing threw.  It holds through every order of publish, ack, reject *)
(* and nack with connection losses, crashes and shutdowns, although retry  *)
(* copies are published without confirms (PublishRetryAsync before ack).   *)
NoLoss ==
    \A t \in published :
        Live(t) \/ t \in done \/ DeadLettered(t)
        \/ (~RetryManaged /\ \E k \in Kinds : <<t, k>> \in thrown)

(* DlqJustified: a copy is dead-lettered only after a permanent failure of *)
(* the task, or after a transient one on the last allowed attempt; an ack  *)
(* that throws, although handled like a permanent failure, never sends a   *)
(* processed message to the dead letter queue.                             *)
DlqJustified ==
    \A c \in dlq : \/ <<c.task, "permanent">> \in thrown
                  \/ (<<c.task, "transient">> \in thrown /\ c.attempt >= MaxRetries)

(* OnceWithoutFaults: as long as nothing failed below the callback (graceful *)
(* shutdowns included), a task that was processed is never processed again  *)
(* and has no other copy: duplicates need a fault.                         *)
OnceWithoutFaults ==
    faults = 0 => \A t \in done :
        /\ \A c \in ready \cup delayed \cup dlq : c.task # t
        /\ \A h \in handlers : h.d.copy.task = t => h.pc \notin {"processing", "nack"} \cup Kinds

(* WorkBounded: no attempt beyond MaxRetries is queued, and the processing *)
(* of each attempt starts at most once, and Prefetch times more for each   *)
(* fault: refusals, shutdowns and late answers never repeat it, and what   *)
(* one lost connection requeues is not multiplied by the retries.          *)
WorkBounded ==
    /\ \A c \in Queued \cup dlq : c.attempt \in Attempts
    /\ \A t \in Tasks, a \in Attempts : tries[t][a] <= 1 + Prefetch * faults

(* CounterExact: _inFlightMessages is the number of callbacks between      *)
(* TryBegin and CompleteMessageProcessing, also while callbacks of a lost  *)
(* channel run beside those of the recovered one.                          *)
InFlight(w) == {h \in handlers : h.d.w = w /\ h.pc # "signal"}
CounterExact == \A w \in Workers : inFlight[w] = Cardinality(InFlight(w))

(* DrainedBeforeClose: StopConsumingAsync closes the channel only when no  *)
(* callback of the worker is between TryBegin and its last answer.         *)
DrainedBeforeClose == \A w \in Workers : phase[w] = "closed" => InFlight(w) = {}

(* FailureReturnsToQueue: what the doc comment of ProcessMessageAsync says *)
(* (SingleConsumerWorker.cs:407-412): a message whose processing threw is  *)
(* returned to the queue, so its task stays there until it is processed.   *)
FailureReturnsToQueue ==
    \A t \in published : (\E k \in Kinds : <<t, k>> \in thrown) => Live(t) \/ t \in done

-----------------------------------------------------------------------------
(* Fairness: the broker delivers, the client library notices a lost        *)
(* connection and recovers it, callbacks run to their end (the processing  *)
(* and the callbacks are tasks of the thread pool), a requested shutdown   *)
(* proceeds, and docker restarts a crashed process (restart: on-failure).  *)
(* Nothing forces a publish, a fault, or the start of a process that was   *)
(* stopped or that exited without an error code.                           *)
Fairness ==
    /\ WF_vars(\E c \in delayed : DelayElapsed(c))
    /\ \A w \in Workers :
         /\ WF_vars(\E c \in ready : Deliver(w, c))
         /\ WF_vars(Notice(w)) /\ WF_vars(Recover(w))
         /\ WF_vars(\E d \in Of(w, buffer) : BeginProcessing(d) \/ RefuseDelivery(d))
         /\ WF_vars(\E h \in handlers : h.d.w = w /\ HandlerStep(h))
         /\ WF_vars(CancelConsumer(w)) /\ WF_vars(StopConsuming(w))
         /\ WF_vars(phase[w] = "off" /\ Start(w))

FairSpec == Spec /\ Fairness

(* Settles: a published task is eventually processed or dead-lettered,     *)
(* unless every worker was shut down or exited at its start.               *)
Settles ==
    \A t \in Tasks : t \in published ~>
        \/ (t \in done \/ DeadLettered(t))
        \/ \A w \in Workers : phase[w] \in {"closed", "exited"}

(* DrainCompletes: a graceful shutdown ends (the two-step completion of the *)
(* drain, replaced while callbacks overlap, is not missed).                *)
DrainCompletes == \A w \in Workers : phase[w] = "stopping" ~> phase[w] # "stopping"

=============================================================================

------------------------ MODULE ConsumerWorkerProofs -------------------------
(***************************************************************************)
(* Proofs, for every set of tasks and workers, every retry limit and any   *)
(* number of faults, of the safety properties of ConsumerWorker, and that  *)
(* on a queue with a dead letter exchange it implements TaskQueue.         *)
(***************************************************************************)
EXTENDS ConsumerWorkerRefinement, FiniteSetTheorems, TLAPS

-----------------------------------------------------------------------------
(* Types. *)

LEMMA DeliveriesTyped ==
    ASSUME NEW S \in SUBSET Delivery
    PROVE  Copies(S) \subseteq Copy
BY DEF Copies, Delivery

LEMMA MoveTyped ==
    ASSUME TypeOK, NEW h \in handlers, NEW pc \in Points, MoveTo(h, pc)
    PROVE  handlers' \subseteq Handler
BY DEF TypeOK, MoveTo, Handler

LEMMA RequeueTyped ==
    ASSUME TypeOK, NEW D, Requeue(D)
    PROVE  ready' \subseteq Copy /\ unacked' \subseteq Delivery
<1>1. Copies(D \cap unacked) \subseteq Copy
  <2>1. D \cap unacked \in SUBSET Delivery
    BY DEF TypeOK
  <2>2. QED BY <2>1, DeliveriesTyped
<1>2. QED BY <1>1 DEF TypeOK, Requeue

LEMMA TypeStep == TypeOK /\ [Next]_vars => TypeOK'
<1> SUFFICES ASSUME TypeOK, [Next]_vars PROVE TypeOK'
  OBVIOUS
<1> USE BoundsAssumption, ForksAssumption, RetriesAssumption
<1>1. ASSUME NEW t \in Tasks, Publish(t) PROVE TypeOK'
  BY <1>1 DEF TypeOK, Publish, IsFresh, Copy, client, process, history
<1>2. ASSUME NEW c \in delayed, DelayElapsed(c) PROVE TypeOK'
  BY <1>2 DEF TypeOK, DelayElapsed, client, process, history
<1>3. ASSUME NEW w \in Workers, NEW c \in ready, Deliver(w, c) PROVE TypeOK'
  <2>1. [copy |-> c, w |-> w, inc |-> inc[w]] \in Delivery
    BY DEF TypeOK, Delivery
  <2>2. QED BY <1>3, <2>1 DEF TypeOK, Deliver, process, history
<1>4. ASSUME NEW d \in buffer, DiscardStale(d) PROVE TypeOK'
  BY <1>4 DEF TypeOK, DiscardStale, broker, process, history
<1>5. ASSUME NEW d \in buffer, BeginProcessing(d) PROVE TypeOK'
  <2>1. d.w \in Workers /\ d.copy.task \in Tasks
    BY DEF TypeOK, Delivery, Copy
  <2>2. [d |-> d, pc |-> "processing"] \in Handler
    BY DEF TypeOK, Handler, Points
  <2>3. handlers' \subseteq Handler
    BY <1>5, <2>2 DEF TypeOK, BeginProcessing
  <2>4. inFlight' \in [Workers -> Nat] /\ drained' \in [Workers -> BOOLEAN]
    BY <1>5, <2>1 DEF TypeOK, BeginProcessing
  <2>5. tries' \in [Tasks -> [Attempts -> Nat]]
    <3>1. tries' = [tries EXCEPT ![d.copy.task][d.copy.attempt] = @ + 1]
      BY <1>5 DEF BeginProcessing
    <3>2. ASSUME NEW f \in [Attempts -> Nat], NEW a PROVE [f EXCEPT ![a] = @ + 1] \in [Attempts -> Nat]
      <4>1. \A x \in Attempts : (IF x = a THEN f[a] + 1 ELSE f[x]) \in Nat
        OBVIOUS
      <4>2. [f EXCEPT ![a] = @ + 1] = [x \in Attempts |-> IF x = a THEN f[a] + 1 ELSE f[x]]
        OBVIOUS
      <4>3. QED BY <4>1, <4>2
    <3>3. [tries[d.copy.task] EXCEPT ![d.copy.attempt] = @ + 1] \in [Attempts -> Nat]
      BY <2>1, <3>2 DEF TypeOK
    <3>4. QED BY <2>1, <3>1, <3>3 DEF TypeOK
  <2>6. QED BY <1>5, <2>3, <2>4, <2>5 DEF TypeOK, BeginProcessing, broker
<1>6. ASSUME NEW d \in buffer, RefuseDelivery(d) PROVE TypeOK'
  <2>1. ready' \subseteq Copy /\ unacked' \subseteq Delivery
    BY <1>6, RequeueTyped DEF RefuseDelivery
  <2>2. QED BY <1>6, <2>1 DEF TypeOK, RefuseDelivery, process, history
<1>7. ASSUME NEW h \in handlers, HandlerStep(h) PROVE TypeOK'
  <2>0. h \in Handler /\ h.d \in Delivery /\ h.d.copy \in Copy /\ h.d.w \in Workers
          /\ h.d.copy.task \in Tasks
    BY DEF TypeOK, Handler, Delivery, Copy
  <2>1. CASE ProcessSucceeds(h)
    <3>1. handlers' \subseteq Handler
      BY <2>1, MoveTyped DEF ProcessSucceeds, Points
    <3>2. QED BY <2>0, <2>1, <3>1 DEF TypeOK, ProcessSucceeds, broker, process
  <2>2. ASSUME NEW kind \in Kinds, ProcessFails(h, kind) PROVE TypeOK'
    <3>1. handlers' \subseteq Handler
      BY <2>2, MoveTyped DEF ProcessFails, Points
    <3>2. QED BY <2>0, <2>2, <3>1 DEF TypeOK, ProcessFails, broker, process
  <2>3. CASE AckSuccess(h)
    <3>1. handlers' \subseteq Handler
      BY <2>3, MoveTyped DEF AckSuccess, Points
    <3>2. QED BY <2>3, <3>1 DEF TypeOK, AckSuccess, process, history
  <2>4. CASE AckSuccessThrows(h)
    <3>1. handlers' \subseteq Handler
      BY <2>4, MoveTyped DEF AckSuccessThrows, Points, Kinds
    <3>2. QED BY <2>4, <3>1 DEF TypeOK, AckSuccessThrows, broker, process, history
  <2>5. CASE ScheduleRetry(h)
    <3>1. handlers' \subseteq Handler
      BY <2>5, MoveTyped DEF ScheduleRetry, Points
    <3>2. delayed' \subseteq Copy
      <4>1. h.d.copy.attempt + 1 \in Nat
        BY <2>0 DEF Copy
      <4>2. \A n \in Forks :
              [task |-> h.d.copy.task, attempt |-> h.d.copy.attempt + 1, n |-> n] \in Copy
        BY <2>0, <4>1 DEF Copy
      <4>3. delayed' = delayed \/ \E c \in Copy : delayed' = delayed \cup {c}
        BY <2>5, <4>2 DEF ScheduleRetry
      <4>4. QED BY <4>3 DEF TypeOK
    <3>3. QED BY <2>5, <3>1, <3>2 DEF TypeOK, ScheduleRetry, process, history
  <2>6. CASE AckScheduled(h)
    <3>1. handlers' \subseteq Handler
      BY <2>6, MoveTyped DEF AckScheduled, Points
    <3>2. QED BY <2>6, <3>1 DEF TypeOK, AckScheduled, process, history
  <2>7. CASE RejectMessage(h)
    <3>1. handlers' \subseteq Handler
      BY <2>7, MoveTyped DEF RejectMessage, Points
    <3>2. Copies({h.d} \cap unacked) \subseteq Copy
      BY <2>0, DeliveriesTyped
    <3>3. QED BY <2>7, <3>1, <3>2 DEF TypeOK, RejectMessage, process, history
  <2>8. CASE FailureHandlingThrows(h)
    <3>1. handlers' \subseteq Handler
      BY <2>8, MoveTyped DEF FailureHandlingThrows, Points
    <3>2. faults' \in Nat
      BY <2>8 DEF TypeOK, FailureHandlingThrows, Fault
    <3>3. QED BY <2>8, <3>1, <3>2 DEF TypeOK, FailureHandlingThrows, broker, process, history
  <2>9. CASE RequeueFailed(h)
    <3>1. handlers' \subseteq Handler
      BY <2>9, MoveTyped DEF RequeueFailed, Points
    <3>2. ready' \subseteq Copy /\ unacked' \subseteq Delivery
      BY <2>9, RequeueTyped DEF RequeueFailed
    <3>3. QED BY <2>9, <3>1, <3>2 DEF TypeOK, RequeueFailed, process, history
  <2>10. CASE CompleteMessageProcessing(h)
    <3>1. handlers' \subseteq Handler
      BY <2>10, MoveTyped DEF CompleteMessageProcessing, Points, TypeOK
    <3>2. inFlight' \in [Workers -> Nat]
      <4>1. inFlight[h.d.w] \in Nat
              /\ (IF inFlight[h.d.w] > 0 THEN inFlight[h.d.w] - 1 ELSE inFlight[h.d.w]) \in Nat
        BY <2>0 DEF TypeOK
      <4>2. QED BY <2>10, <4>1 DEF TypeOK, CompleteMessageProcessing
    <3>3. QED BY <2>10, <3>1, <3>2 DEF TypeOK, CompleteMessageProcessing, broker, history
  <2>11. CASE SignalDrained(h)
    BY <2>11 DEF TypeOK, SignalDrained, broker, history
  <2>12. QED
    BY <1>7, <2>1, <2>2, <2>3, <2>4, <2>5, <2>6, <2>7, <2>8, <2>9, <2>10, <2>11
       DEF HandlerStep
<1>8. ASSUME NEW w \in Workers, Break(w) PROVE TypeOK'
  <2>1. ready' \subseteq Copy /\ unacked' \subseteq Delivery
    BY <1>8, RequeueTyped DEF Break
  <2>2. QED BY <1>8, <2>1 DEF TypeOK, Break, Fault, process, history
<1>9. ASSUME NEW w \in Workers, Notice(w) \/ Recover(w) PROVE TypeOK'
  BY <1>9 DEF TypeOK, Notice, Recover, broker, process, history
<1>10. ASSUME NEW w \in Workers, Start(w) \/ StartFails(w) PROVE TypeOK'
  <2>1. CASE Start(w)
    <3>1. inc[w] + 1 \in Nat
      BY DEF TypeOK
    <3>2. /\ inc' \in [Workers -> Nat] /\ inFlight' \in [Workers -> Nat]
          /\ consuming' \in [Workers -> BOOLEAN] /\ drained' \in [Workers -> BOOLEAN]
          /\ channel' \in [Workers -> {"open", "dying", "down", "none"}]
          /\ phase' \in [Workers -> Phases]
      BY <2>1, <3>1 DEF TypeOK, Start, Phases
    <3>3. QED BY <2>1, <3>2 DEF TypeOK, Start, broker, history
  <2>2. CASE StartFails(w)
    <3>1. phase' \in [Workers -> Phases] /\ faults' \in Nat
      BY <2>2 DEF TypeOK, StartFails, Fault, Phases
    <3>2. QED BY <2>2, <3>1 DEF TypeOK, StartFails, broker, client, history
  <2>3. QED BY <1>10, <2>1, <2>2
<1>11. ASSUME NEW w \in Workers, RequestShutdown(w) \/ CancelConsumer(w) PROVE TypeOK'
  <2>1. CASE RequestShutdown(w)
    <3>1. phase' \in [Workers -> Phases] /\ stops' \in Nat
      BY <2>1 DEF TypeOK, RequestShutdown, Phases
    <3>2. QED BY <2>1, <3>1 DEF TypeOK, RequestShutdown, broker, client, history
  <2>2. CASE CancelConsumer(w)
    BY <2>2 DEF TypeOK, CancelConsumer, broker, process, history
  <2>3. QED BY <1>11, <2>1, <2>2
<1>12. ASSUME NEW w \in Workers, StopConsuming(w) PROVE TypeOK'
  <2>1. ready' \subseteq Copy /\ unacked' \subseteq Delivery
    BY <1>12, RequeueTyped DEF StopConsuming
  <2>2. QED BY <1>12, <2>1 DEF TypeOK, StopConsuming, history, Phases
<1>13. ASSUME NEW w \in Workers, Crash(w) PROVE TypeOK'
  <2>1. ready' \subseteq Copy /\ unacked' \subseteq Delivery
    BY <1>13, RequeueTyped DEF Crash
  <2>2. QED BY <1>13, <2>1 DEF TypeOK, Crash, Fault, history, Phases
<1>14. CASE UNCHANGED vars
  BY <1>14 DEF TypeOK, vars, broker, client, process, history
<1>15. QED
  BY <1>1, <1>2, <1>3, <1>4, <1>5, <1>6, <1>7, <1>8, <1>9, <1>10, <1>11, <1>12, <1>13,
     <1>14 DEF Next

(* TypeCorrect: the type invariant of ConsumerWorker. *)
THEOREM TypeCorrect == Spec => []TypeOK
<1>1. Init => TypeOK
  BY DEF Init, TypeOK, Phases
<1>2. QED BY <1>1, TypeStep, PTL DEF Spec

-----------------------------------------------------------------------------
(* Where deliveries and copies are. *)

(* What every step of a callback leaves alone, and how it moves. *)
LEMMA CallbackShape ==
    ASSUME TypeOK, NEW h \in handlers, HandlerStep(h)
    PROVE  /\ UNCHANGED <<buffer, channel, inc, phase>>
           /\ \/ handlers' = handlers \ {h}
              \/ \E p \in Points : handlers' = (handlers \ {h}) \cup {[d |-> h.d, pc |-> p]}
           /\ \/ unacked' = unacked
              \/ /\ h.pc \notin Answered /\ unacked' = unacked \ {h.d}
                 /\ handlers' = (handlers \ {h}) \cup {[d |-> h.d, pc |-> "finally"]}
           /\ h.pc \in Answered =>
                \A g \in handlers' : g \in handlers \/ (g.d = h.d /\ g.pc \in Answered)
<1> USE DEF Points, Kinds, MoveTo, Answered, broker, process, history
<1>1. CASE ProcessSucceeds(h)
  BY <1>1 DEF ProcessSucceeds
<1>2. CASE \E kind \in Kinds : ProcessFails(h, kind)
  BY <1>2 DEF ProcessFails
<1>3. CASE AckSuccess(h)
  BY <1>3 DEF AckSuccess
<1>4. CASE AckSuccessThrows(h)
  BY <1>4 DEF AckSuccessThrows
<1>5. CASE ScheduleRetry(h)
  BY <1>5 DEF ScheduleRetry, CanScheduleRetry
<1>6. CASE AckScheduled(h)
  BY <1>6 DEF AckScheduled
<1>7. CASE RejectMessage(h)
  BY <1>7 DEF RejectMessage
<1>8. CASE FailureHandlingThrows(h)
  BY <1>8 DEF FailureHandlingThrows
<1>9. CASE RequeueFailed(h)
  BY <1>9 DEF RequeueFailed, Requeue
<1>10. CASE CompleteMessageProcessing(h)
  BY <1>10 DEF CompleteMessageProcessing
<1>11. CASE SignalDrained(h)
  BY <1>11 DEF SignalDrained
<1>12. QED
  BY <1>1, <1>2, <1>3, <1>4, <1>5, <1>6, <1>7, <1>8, <1>9, <1>10, <1>11 DEF HandlerStep

LEMMA OneCallbackStep == TypeOK /\ OneCallback /\ [Next]_vars => OneCallback'
<1> SUFFICES ASSUME TypeOK, OneCallback, [Next]_vars PROVE OneCallback'
  OBVIOUS
<1>1. CASE handlers' \subseteq handlers
  BY <1>1 DEF OneCallback
<1>2. ASSUME NEW d \in buffer, BeginProcessing(d) PROVE OneCallback'
  <2>1. \A h \in handlers' : h \in handlers \/ h = [d |-> d, pc |-> "processing"]
    BY <1>2 DEF BeginProcessing
  <2>2. QED BY <1>2, <2>1 DEF OneCallback, BeginProcessing, DispatcherFree
<1>3. ASSUME NEW h \in handlers, HandlerStep(h) PROVE OneCallback'
  <2>1. CASE handlers' = handlers \ {h}
    BY <2>1, <1>1
  <2>2. ASSUME NEW p \in Points, handlers' = (handlers \ {h}) \cup {[d |-> h.d, pc |-> p]}
        PROVE  OneCallback'
    BY <2>2 DEF OneCallback
  <2>3. QED BY <1>3, <2>1, <2>2, CallbackShape
<1>4. QED
  <2>1. ASSUME NEW w \in Workers, \/ Break(w) \/ Notice(w) \/ Recover(w)
                                  \/ Start(w) \/ StartFails(w) \/ Crash(w)
                                  \/ RequestShutdown(w) \/ CancelConsumer(w) \/ StopConsuming(w)
        PROVE  OneCallback'
    <3>1. handlers' \subseteq handlers
      BY <2>1 DEF Break, Notice, Recover, Start, StartFails, Crash, RequestShutdown,
                  CancelConsumer, StopConsuming, client
    <3>2. QED BY <3>1, <1>1
  <2>2. ASSUME NEW t \in Tasks, Publish(t) PROVE OneCallback'
    BY <2>2, <1>1 DEF Publish, client
  <2>3. ASSUME NEW c \in delayed, DelayElapsed(c) PROVE OneCallback'
    BY <2>3, <1>1 DEF DelayElapsed, client
  <2>4. ASSUME NEW w \in Workers, NEW c \in ready, Deliver(w, c) PROVE OneCallback'
    BY <2>4, <1>1 DEF Deliver
  <2>5. ASSUME NEW d \in buffer, DiscardStale(d) \/ RefuseDelivery(d) PROVE OneCallback'
    BY <2>5, <1>1 DEF DiscardStale, RefuseDelivery
  <2>6. CASE UNCHANGED vars
    BY <2>6, <1>1 DEF vars, client
  <2>7. QED BY <1>2, <1>3, <2>1, <2>2, <2>3, <2>4, <2>5, <2>6 DEF Next

LEMMA UnackedCurrentStep == TypeOK /\ UnackedCurrent /\ [Next]_vars => UnackedCurrent'
<1> SUFFICES ASSUME TypeOK, UnackedCurrent, [Next]_vars PROVE UnackedCurrent'
  OBVIOUS
<1> USE DEF Alive
<1>0. \A d \in unacked : d.w \in Workers
  BY DEF TypeOK, Delivery
<1>1. CASE unacked' \subseteq unacked /\ UNCHANGED <<channel, inc, phase>>
  BY <1>1 DEF UnackedCurrent
<1>2. ASSUME NEW w \in Workers, NEW c \in ready, Deliver(w, c) PROVE UnackedCurrent'
  BY <1>2 DEF Deliver, UnackedCurrent, process
<1>3. ASSUME NEW w \in Workers, unacked' \subseteq unacked,
             \A d \in unacked' : d.w # w,
             channel'[w] # "none" => Alive(w)',
             \A v \in Workers : v # w =>
               channel'[v] = channel[v] /\ inc'[v] = inc[v] /\ phase'[v] = phase[v]
      PROVE  UnackedCurrent'
  BY <1>0, <1>3 DEF UnackedCurrent
<1>4. ASSUME NEW w \in Workers, Break(w) \/ StopConsuming(w) \/ Crash(w)
      PROVE  UnackedCurrent'
  <2>1. unacked' = unacked \ Of(w, unacked) /\ inc' = inc
        /\ \A v \in Workers : v # w => channel'[v] = channel[v] /\ phase'[v] = phase[v]
    BY <1>4 DEF TypeOK, Break, StopConsuming, Crash, Requeue, process
  <2>2. channel'[w] # "none" => Alive(w)'
    BY <1>4 DEF TypeOK, UnackedCurrent, Break, StopConsuming, Crash, process
  <2>3. unacked' \subseteq unacked /\ \A d \in unacked' : d.w # w
    BY <2>1 DEF Of
  <2>4. QED BY <1>3, <2>1, <2>2, <2>3
<1>5. ASSUME NEW w \in Workers, Notice(w) \/ Recover(w) \/ Start(w) \/ StartFails(w)
      PROVE  UnackedCurrent'
  <2>1. unacked' = unacked /\ channel[w] # "open"
    BY <1>5 DEF Notice, Recover, Start, StartFails, UnackedCurrent, broker
  <2>2. \A v \in Workers : v # w =>
          channel'[v] = channel[v] /\ inc'[v] = inc[v] /\ phase'[v] = phase[v]
    BY <1>5 DEF TypeOK, Notice, Recover, Start, StartFails, process, client
  <2>3. channel'[w] # "none" => Alive(w)'
    BY <1>5 DEF TypeOK, UnackedCurrent, Notice, Recover, Start, StartFails, process, client
  <2>4. \A d \in unacked' : d.w # w
    BY <2>1 DEF UnackedCurrent
  <2>5. QED BY <1>3, <2>1, <2>2, <2>3, <2>4
<1>6. ASSUME NEW w \in Workers, RequestShutdown(w) \/ CancelConsumer(w)
      PROVE  UnackedCurrent'
  <2>1. unacked' = unacked /\ channel' = channel /\ inc' = inc
        /\ \A v \in Workers : Alive(v) => Alive(v)'
    BY <1>6 DEF TypeOK, RequestShutdown, CancelConsumer, broker, client, process
  <2>2. QED BY <2>1 DEF UnackedCurrent
<1>7. ASSUME NEW h \in handlers, HandlerStep(h) PROVE UnackedCurrent'
  BY <1>1, <1>7, CallbackShape
<1>8. ASSUME NEW d \in buffer, DiscardStale(d) \/ BeginProcessing(d) \/ RefuseDelivery(d)
      PROVE  UnackedCurrent'
  BY <1>1, <1>8 DEF DiscardStale, BeginProcessing, RefuseDelivery, Requeue, broker, process
<1>9. CASE (\E t \in Tasks : Publish(t)) \/ (\E c \in delayed : DelayElapsed(c)) \/ UNCHANGED vars
  BY <1>1, <1>9 DEF Publish, DelayElapsed, vars, broker, client, process
<1>10. QED
  BY <1>2, <1>4, <1>5, <1>6, <1>7, <1>8, <1>9 DEF Next

(* The conjuncts of OnePlace as one fact about the place of each copy. *)
LEMMA OnePlaceStep ==
    TypeOK /\ OnePlace /\ [Next]_vars => OnePlace'
<1> SUFFICES ASSUME TypeOK, OnePlace, [Next]_vars PROVE OnePlace'
  OBVIOUS
<1> USE DEF Copies, Queued
<1>1. CASE UNCHANGED <<ready, delayed, dlq, unacked>>
  BY <1>1 DEF OnePlace
<1>2. ASSUME NEW D, Requeue(D), UNCHANGED <<delayed, dlq>> PROVE OnePlace'
  BY <1>2 DEF OnePlace, Requeue
<1>3. ASSUME NEW t \in Tasks, Publish(t) PROVE OnePlace'
  BY <1>3 DEF OnePlace, Publish, IsFresh
<1>4. ASSUME NEW c \in delayed, DelayElapsed(c) PROVE OnePlace'
  BY <1>4 DEF OnePlace, DelayElapsed
<1>5. ASSUME NEW w \in Workers, NEW c \in ready, Deliver(w, c) PROVE OnePlace'
  BY <1>5 DEF OnePlace, Deliver
<1>6. ASSUME NEW h \in handlers, HandlerStep(h) PROVE OnePlace'
  <2>1. CASE AckSuccess(h) \/ AckScheduled(h)
    BY <2>1 DEF OnePlace, AckSuccess, AckScheduled
  <2>2. CASE ScheduleRetry(h)
    <3>1. \/ delayed' = delayed
          \/ \E c : c \notin Queued \cup dlq /\ delayed' = delayed \cup {c}
      BY <2>2 DEF ScheduleRetry, IsFresh
    <3>2. ready' = ready /\ dlq' = dlq /\ unacked' = unacked
      BY <2>2 DEF ScheduleRetry
    <3>3. QED BY <3>1, <3>2 DEF OnePlace
  <2>3. CASE RejectMessage(h)
    <3>1. UNCHANGED <<ready, delayed>> /\ unacked' = unacked \ {h.d}
      BY <2>3 DEF RejectMessage
    <3>2. dlq' = dlq \/ (h.d \in unacked /\ dlq' = dlq \cup {h.d.copy})
      BY <2>3 DEF RejectMessage
    <3>3. QED BY <3>1, <3>2 DEF OnePlace
  <2>4. CASE RequeueFailed(h)
    BY <2>4, <1>2 DEF RequeueFailed
  <2>5. CASE \/ ProcessSucceeds(h) \/ (\E kind \in Kinds : ProcessFails(h, kind))
             \/ AckSuccessThrows(h) \/ FailureHandlingThrows(h)
             \/ CompleteMessageProcessing(h) \/ SignalDrained(h)
    BY <2>5, <1>1 DEF ProcessSucceeds, ProcessFails, AckSuccessThrows, FailureHandlingThrows,
       CompleteMessageProcessing, SignalDrained, broker
  <2>6. QED BY <1>6, <2>1, <2>2, <2>3, <2>4, <2>5 DEF HandlerStep
<1>7. ASSUME NEW d \in buffer, DiscardStale(d) \/ BeginProcessing(d) \/ RefuseDelivery(d)
      PROVE  OnePlace'
  BY <1>7, <1>1, <1>2 DEF DiscardStale, BeginProcessing, RefuseDelivery, broker
<1>8. ASSUME NEW w \in Workers, \/ Break(w) \/ Notice(w) \/ Recover(w)
                                \/ Start(w) \/ StartFails(w) \/ Crash(w)
                                \/ RequestShutdown(w) \/ CancelConsumer(w) \/ StopConsuming(w)
      PROVE  OnePlace'
  <2>1. CASE Break(w) \/ Crash(w) \/ StopConsuming(w)
    BY <2>1, <1>2 DEF Break, Crash, StopConsuming
  <2>2. QED
    BY <1>8, <2>1, <1>1 DEF Notice, Recover, Start, StartFails, RequestShutdown,
       CancelConsumer, broker
<1>9. CASE UNCHANGED vars
  BY <1>9, <1>1 DEF vars, broker
<1>10. QED
  BY <1>3, <1>4, <1>5, <1>6, <1>7, <1>8, <1>9 DEF Next

LEMMA HeldIsUnackedStep ==
    TypeOK /\ OnePlace /\ UnackedCurrent /\ HeldIsUnacked /\ OneCallback /\ [Next]_vars
        => HeldIsUnacked'
<1> SUFFICES ASSUME TypeOK, OnePlace, UnackedCurrent, HeldIsUnacked, OneCallback, [Next]_vars
             PROVE  HeldIsUnacked'
  OBVIOUS
<1>0. /\ \A d \in buffer : d \in Delivery /\ d.w \in Workers /\ d.inc \in Nat
      /\ \A h \in handlers : h \in Handler /\ h.d \in Delivery /\ h.d.w \in Workers /\ h.d.inc \in Nat
      /\ \A w \in Workers : inc[w] \in Nat
  BY DEF TypeOK, Delivery, Handler
<1>1. CASE buffer' \subseteq buffer /\ handlers' \subseteq handlers /\ unacked \subseteq unacked'
           /\ UNCHANGED <<channel, inc>>
  BY <1>1 DEF HeldIsUnacked
<1>2. ASSUME NEW w \in Workers, buffer' \subseteq buffer, handlers' \subseteq handlers,
             \A d \in unacked : d.w # w => d \in unacked',
             \A v \in Workers : v # w => channel'[v] = channel[v] /\ inc'[v] = inc[v],
             \/ inc'[w] = inc[w] /\ channel'[w] # "open"
             \/ inc'[w] = inc[w] + 1
      PROVE  HeldIsUnacked'
  BY <1>0, <1>2 DEF HeldIsUnacked
<1>3. ASSUME NEW w \in Workers, NEW c \in ready, Deliver(w, c) PROVE HeldIsUnacked'
  <2> DEFINE d == [copy |-> c, w |-> w, inc |-> inc[w]]
  <2>1. unacked' = unacked \cup {d} /\ buffer' = buffer \cup {d} /\ handlers' = handlers
        /\ channel' = channel /\ inc' = inc
    BY <1>3 DEF Deliver
  <2>2. d \notin unacked
    BY DEF OnePlace, Copies
  <2>3. QED BY <1>0, <2>1, <2>2 DEF HeldIsUnacked
<1>4. ASSUME NEW d \in buffer, BeginProcessing(d) PROVE HeldIsUnacked'
  <2>1. /\ buffer' = buffer \ {d} /\ UNCHANGED <<unacked, channel, inc>>
        /\ \A h \in handlers' : h \in handlers \/ h = [d |-> d, pc |-> "processing"]
    BY <1>4 DEF BeginProcessing, broker
  <2>2. QED BY <2>1 DEF HeldIsUnacked
<1>5. ASSUME NEW d \in buffer, RefuseDelivery(d) PROVE HeldIsUnacked'
  <2>1. /\ buffer' = buffer \ {d} /\ unacked' = unacked \ {d}
        /\ UNCHANGED <<handlers, channel, inc>>
    BY <1>5 DEF RefuseDelivery, Requeue
  <2>2. \A h \in handlers : h.d # d
    BY <1>5 DEF RefuseDelivery, DispatcherFree
  <2>3. QED BY <2>1, <2>2 DEF HeldIsUnacked
<1>6. ASSUME NEW h \in handlers, HandlerStep(h) PROVE HeldIsUnacked'
  <2>1. UNCHANGED <<buffer, channel, inc>>
    BY <1>6, CallbackShape
  <2>2. \A g \in handlers' : \/ g \in handlers \ {h}
                            \/ /\ g.d = h.d
                               /\ h.pc \in Answered => g.pc \in Answered
    BY <1>6, CallbackShape
  <2>3. CASE unacked' = unacked
    BY <2>1, <2>2, <2>3 DEF HeldIsUnacked
  <2>4. CASE /\ h.pc \notin Answered /\ unacked' = unacked \ {h.d}
             /\ handlers' = (handlers \ {h}) \cup {[d |-> h.d, pc |-> "finally"]}
    <3>1. \A g \in handlers \ {h} : g.d # h.d
      BY DEF OneCallback
    <3>2. \A e \in buffer : e = h.d => ~(e.inc = inc[e.w] /\ channel[e.w] = "open")
      BY <2>4 DEF HeldIsUnacked
    <3>3. QED BY <2>1, <2>4, <3>1, <3>2 DEF HeldIsUnacked, Answered
  <2>5. QED BY <1>6, <2>3, <2>4, CallbackShape
<1>7. ASSUME NEW w \in Workers, Break(w) \/ Crash(w) \/ StopConsuming(w) PROVE HeldIsUnacked'
  <2>1. /\ buffer' \subseteq buffer /\ handlers' \subseteq handlers
        /\ \A d \in unacked : d.w # w => d \in unacked'
        /\ inc' = inc
    BY <1>7 DEF Break, Crash, StopConsuming, Requeue, Of
  <2>2. channel'[w] # "open" /\ \A v \in Workers : v # w => channel'[v] = channel[v]
    BY <1>7 DEF TypeOK, Break, Crash, StopConsuming
  <2>3. QED BY <1>2, <2>1, <2>2
<1>8. ASSUME NEW w \in Workers, Notice(w) \/ Recover(w) \/ Start(w) PROVE HeldIsUnacked'
  <2>1. buffer' = buffer /\ handlers' = handlers /\ unacked' = unacked
    BY <1>8 DEF Notice, Recover, Start, broker
  <2>2. \A v \in Workers : v # w => channel'[v] = channel[v] /\ inc'[v] = inc[v]
    BY <1>8 DEF TypeOK, Notice, Recover, Start
  <2>3. inc'[w] = inc[w] + 1 \/ (inc'[w] = inc[w] /\ channel'[w] # "open")
    BY <1>8 DEF TypeOK, Notice, Recover, Start
  <2>4. QED BY <1>2, <2>1, <2>2, <2>3
<1>9. ASSUME NEW w \in Workers, StartFails(w) \/ RequestShutdown(w) \/ CancelConsumer(w)
      PROVE HeldIsUnacked'
  BY <1>1, <1>9 DEF StartFails, RequestShutdown, CancelConsumer, broker, client
<1>10. ASSUME NEW t \in Tasks, Publish(t) PROVE HeldIsUnacked'
  BY <1>1, <1>10 DEF Publish, client
<1>11. ASSUME NEW c \in delayed, DelayElapsed(c) PROVE HeldIsUnacked'
  BY <1>1, <1>11 DEF DelayElapsed, client
<1>12. ASSUME NEW d \in buffer, DiscardStale(d) PROVE HeldIsUnacked'
  BY <1>1, <1>12 DEF DiscardStale, broker
<1>13. CASE UNCHANGED vars
  BY <1>1, <1>13 DEF vars, client, broker
<1>14. QED
  BY <1>3, <1>4, <1>5, <1>6, <1>7, <1>8, <1>9, <1>10, <1>11, <1>12, <1>13 DEF Next

-----------------------------------------------------------------------------
(* No task is lost. *)

(* A copy that leaves the queue leaves its task safe. *)
Fate(c) ==
    \/ c \in Queued'
    \/ Settled(c.task)'
    \/ \E b \in Queued' : b.task = c.task /\ b.attempt > c.attempt
    \/ ~RetryManaged /\ \E k \in Kinds : <<c.task, k>> \in thrown'

LEMMA RequeueKeeps ==
    ASSUME NEW D, Requeue(D), delayed \subseteq delayed'
    PROVE  Queued \subseteq Queued'
BY DEF Requeue, Queued, Copies

LEMMA Monotone ==
    ASSUME TypeOK, [Next]_vars
    PROVE  done \subseteq done' /\ dlq \subseteq dlq' /\ thrown \subseteq thrown'
<1>1. ASSUME NEW h \in handlers, HandlerStep(h)
      PROVE  done \subseteq done' /\ dlq \subseteq dlq' /\ thrown \subseteq thrown'
  <2>1. CASE ProcessSucceeds(h) \/ \E kind \in Kinds : ProcessFails(h, kind)
    BY <2>1 DEF ProcessSucceeds, ProcessFails, broker
  <2>2. CASE AckSuccess(h) \/ AckSuccessThrows(h) \/ ScheduleRetry(h) \/ AckScheduled(h)
    BY <2>2 DEF AckSuccess, AckSuccessThrows, ScheduleRetry, AckScheduled, broker, history
  <2>3. CASE RejectMessage(h)
    BY <2>3 DEF RejectMessage, history
  <2>4. CASE \/ FailureHandlingThrows(h) \/ RequeueFailed(h)
             \/ CompleteMessageProcessing(h) \/ SignalDrained(h)
    BY <2>4 DEF FailureHandlingThrows, RequeueFailed, CompleteMessageProcessing,
       SignalDrained, broker, history
  <2>5. QED BY <1>1, <2>1, <2>2, <2>3, <2>4 DEF HandlerStep
<1>2. ASSUME NEW w \in Workers, \/ Break(w) \/ Notice(w) \/ Recover(w)
                                \/ Start(w) \/ StartFails(w) \/ Crash(w)
                                \/ RequestShutdown(w) \/ CancelConsumer(w) \/ StopConsuming(w)
      PROVE  done \subseteq done' /\ dlq \subseteq dlq' /\ thrown \subseteq thrown'
  BY <1>2 DEF Break, Notice, Recover, Start, StartFails, Crash, RequestShutdown,
     CancelConsumer, StopConsuming, broker, history
<1>3. ASSUME NEW d \in buffer, DiscardStale(d) \/ BeginProcessing(d) \/ RefuseDelivery(d)
      PROVE  done \subseteq done' /\ dlq \subseteq dlq' /\ thrown \subseteq thrown'
  BY <1>3 DEF DiscardStale, BeginProcessing, RefuseDelivery, broker, history
<1>4. CASE \/ \E t \in Tasks : Publish(t)
           \/ \E c \in delayed : DelayElapsed(c)
           \/ \E w \in Workers, c \in ready : Deliver(w, c)
           \/ UNCHANGED vars
  BY <1>4 DEF Publish, DelayElapsed, Deliver, vars, broker, history
<1>5. QED BY <1>1, <1>2, <1>3, <1>4 DEF Next

LEMMA CopyFate ==
    ASSUME TypeOK, AckCovered, [Next]_vars
    PROVE  \A c \in Queued : Fate(c)
<1>1. CASE Queued \subseteq Queued'
  BY <1>1 DEF Fate
<1>2. CASE UNCHANGED <<ready, delayed, unacked>>
  BY <1>1, <1>2 DEF Queued
<1>3. ASSUME NEW h \in handlers, HandlerStep(h) PROVE \A c \in Queued : Fate(c)
  <2>1. ASSUME UNCHANGED <<ready, delayed>>, unacked' = unacked \ {h.d}
        PROVE  \A c \in Queued : c \in Queued' \/ (h.d \in unacked /\ c = h.d.copy)
    BY <2>1 DEF Queued, Copies
  <2>2. CASE AckSuccess(h)
    <3>1. h.d.copy.task \in done /\ done' = done
      BY <2>2 DEF AckCovered, AckSuccess, history
    <3>2. \A c \in Queued : c \in Queued' \/ (h.d \in unacked /\ c = h.d.copy)
      BY <2>1, <2>2 DEF AckSuccess
    <3>3. QED BY <3>1, <3>2 DEF Fate, Settled
  <2>3. CASE AckScheduled(h)
    <3>1. \A c \in Queued : c \in Queued' \/ (h.d \in unacked /\ c = h.d.copy)
      BY <2>1, <2>3 DEF AckScheduled
    <3>2. CASE h.d \notin unacked
      BY <3>1, <3>2 DEF Fate
    <3>3. CASE h.d \in unacked /\ Settled(h.d.copy.task)
      <4>1. Settled(h.d.copy.task)'
        BY <3>3, Monotone DEF Settled, DeadLettered
      <4>2. QED BY <3>1, <4>1 DEF Fate
    <3>4. ASSUME h.d \in unacked,
                 NEW b \in Queued, b.task = h.d.copy.task /\ b.attempt > h.d.copy.attempt
          PROVE  \A c \in Queued : Fate(c)
      <4>1. b \in Copy /\ h.d.copy \in Copy
        BY DeliveriesTyped DEF TypeOK, Queued, Handler, Delivery
      <4>2. b # h.d.copy
        BY <3>4, <4>1 DEF Copy
      <4>3. b \in Queued'
        BY <3>1, <4>2
      <4>4. QED BY <3>1, <3>4, <4>3 DEF Fate
    <3>5. QED BY <2>3, <3>2, <3>3, <3>4 DEF AckCovered, AckScheduled
  <2>4. CASE RejectMessage(h)
    <3>1. \A c \in Queued : c \in Queued' \/ (h.d \in unacked /\ c = h.d.copy)
      BY <2>1, <2>4 DEF RejectMessage
    <3>2. CASE RetryManaged
      <4>1. h.d \in unacked => h.d.copy \in dlq'
        BY <2>4, <3>2 DEF RejectMessage, Copies
      <4>2. QED BY <3>1, <4>1 DEF Fate, Settled, DeadLettered
    <3>3. CASE ~RetryManaged
      <4>1. h.d.copy.task \in done' \/ \E k \in Kinds : <<h.d.copy.task, k>> \in thrown'
        BY <2>4 DEF AckCovered, RejectMessage, history
      <4>2. QED BY <3>1, <3>3, <4>1 DEF Fate, Settled
    <3>4. QED BY <3>2, <3>3
  <2>5. CASE ScheduleRetry(h)
    <3>1. ready' = ready /\ unacked' = unacked /\ delayed \subseteq delayed'
      BY <2>5 DEF ScheduleRetry
    <3>2. QED BY <1>1, <3>1 DEF Queued
  <2>6. CASE RequeueFailed(h)
    BY <1>1, <2>6, RequeueKeeps DEF RequeueFailed
  <2>7. CASE \/ ProcessSucceeds(h) \/ (\E kind \in Kinds : ProcessFails(h, kind))
             \/ AckSuccessThrows(h) \/ FailureHandlingThrows(h)
             \/ CompleteMessageProcessing(h) \/ SignalDrained(h)
    BY <2>7, <1>2 DEF ProcessSucceeds, ProcessFails, AckSuccessThrows, FailureHandlingThrows,
       CompleteMessageProcessing, SignalDrained, broker
  <2>8. QED BY <1>3, <2>2, <2>3, <2>4, <2>5, <2>6, <2>7 DEF HandlerStep
<1>4. ASSUME NEW w \in Workers, NEW c \in ready, Deliver(w, c) PROVE \A b \in Queued : Fate(b)
  <2>1. /\ ready' = ready \ {c} /\ delayed' = delayed
        /\ unacked' = unacked \cup {[copy |-> c, w |-> w, inc |-> inc[w]]}
    BY <1>4 DEF Deliver
  <2>2. c \in Copies(unacked)' /\ Copies(unacked) \subseteq Copies(unacked)'
    <3>1. [copy |-> c, w |-> w, inc |-> inc[w]] \in unacked' /\ unacked \subseteq unacked'
      BY <2>1
    <3>2. [copy |-> c, w |-> w, inc |-> inc[w]].copy = c
      OBVIOUS
    <3>3. QED BY <3>1, <3>2 DEF Copies
  <2>3. QED BY <1>1, <2>1, <2>2 DEF Queued
<1>5. ASSUME NEW w \in Workers, Break(w) \/ Crash(w) \/ StopConsuming(w)
      PROVE  \A c \in Queued : Fate(c)
  BY <1>1, <1>5, RequeueKeeps DEF Break, Crash, StopConsuming
<1>6. ASSUME NEW w \in Workers, \/ Notice(w) \/ Recover(w) \/ Start(w) \/ StartFails(w)
                                \/ RequestShutdown(w) \/ CancelConsumer(w)
      PROVE  \A c \in Queued : Fate(c)
  BY <1>2, <1>6 DEF Notice, Recover, Start, StartFails, RequestShutdown, CancelConsumer, broker
<1>7. ASSUME NEW d \in buffer, DiscardStale(d) \/ BeginProcessing(d) \/ RefuseDelivery(d)
      PROVE  \A c \in Queued : Fate(c)
  BY <1>1, <1>2, <1>7, RequeueKeeps DEF DiscardStale, BeginProcessing, RefuseDelivery, broker
<1>8. CASE (\E t \in Tasks : Publish(t)) \/ (\E c \in delayed : DelayElapsed(c))
  BY <1>1, <1>8 DEF Publish, DelayElapsed, Queued
<1>9. CASE UNCHANGED vars
  BY <1>2, <1>9 DEF vars, broker
<1>10. QED BY <1>3, <1>4, <1>5, <1>6, <1>7, <1>8, <1>9 DEF Next

LEMMA NoLossStep == TypeOK /\ AckCovered /\ NoLoss /\ [Next]_vars => NoLoss'
<1> SUFFICES ASSUME TypeOK, AckCovered, NoLoss, [Next]_vars, NEW t \in published'
             PROVE  \/ Live(t)' \/ t \in done' \/ DeadLettered(t)'
                    \/ ~RetryManaged /\ \E k \in Kinds : <<t, k>> \in thrown'
  BY DEF NoLoss
<1>1. CASE t \in published
  <2>1. CASE Live(t)
    BY <2>1, CopyFate DEF Live, Fate, Settled
  <2>2. CASE ~Live(t)
    BY <1>1, <2>2, Monotone DEF NoLoss, DeadLettered
  <2>3. QED BY <2>1, <2>2
<1>2. CASE t \notin published
  <2>1. Publish(t)
    <3>1. ASSUME NEW h \in handlers, HandlerStep(h) PROVE published' = published
      BY <3>1 DEF HandlerStep, ProcessSucceeds, ProcessFails, AckSuccess, AckSuccessThrows,
         ScheduleRetry, AckScheduled, RejectMessage, FailureHandlingThrows, RequeueFailed,
         CompleteMessageProcessing, SignalDrained, broker
    <3>2. ASSUME NEW w \in Workers,
                 \/ Break(w) \/ Notice(w) \/ Recover(w) \/ Start(w) \/ StartFails(w) \/ Crash(w)
                 \/ RequestShutdown(w) \/ CancelConsumer(w) \/ StopConsuming(w)
          PROVE  published' = published
      BY <3>2 DEF Break, Notice, Recover, Start, StartFails, Crash, RequestShutdown,
         CancelConsumer, StopConsuming, broker
    <3>3. ASSUME NEW d \in buffer, DiscardStale(d) \/ BeginProcessing(d) \/ RefuseDelivery(d)
          PROVE  published' = published
      BY <3>3 DEF DiscardStale, BeginProcessing, RefuseDelivery, broker
    <3>4. CASE \/ \E c \in delayed : DelayElapsed(c)
               \/ \E w \in Workers, c \in ready : Deliver(w, c)
               \/ UNCHANGED vars
      BY <1>2, <3>4 DEF DelayElapsed, Deliver, vars, broker
    <3>5. CASE \E s \in Tasks : Publish(s)
      BY <1>2, <3>5 DEF Publish
    <3>6. QED BY <1>2, <3>1, <3>2, <3>3, <3>4, <3>5 DEF Next
  <2>2. QED BY <2>1 DEF Publish, Live, Queued
<1>3. QED BY <1>1, <1>2

-----------------------------------------------------------------------------
(* Every point of a callback answers its delivery safely. *)
Covered(h) ==
    /\ h.pc = "ack" => h.d.copy.task \in done
    /\ h.pc = "ackRetry" => RetryManaged
    /\ h.pc = "ackRetry" /\ h.d \in unacked =>
         \/ Settled(h.d.copy.task)
         \/ \E c \in Queued : c.task = h.d.copy.task /\ c.attempt > h.d.copy.attempt
    /\ h.pc \in Kinds =>
         \/ h.d.copy.task \in done
         \/ \E k \in Kinds : <<h.d.copy.task, k>> \in thrown

LEMMA StaysCovered ==
    ASSUME TypeOK, AckCovered, [Next]_vars,
           NEW h \in handlers, h.d \in unacked' => h.d \in unacked
    PROVE  Covered(h)'
<1>1. Covered(h)
  BY DEF AckCovered, Covered
<1>2. Settled(h.d.copy.task) => Settled(h.d.copy.task)'
  BY Monotone DEF Settled, DeadLettered
<1>3. ASSUME RetryManaged,
             NEW c \in Queued, c.task = h.d.copy.task, c.attempt > h.d.copy.attempt
      PROVE  \/ Settled(h.d.copy.task)'
             \/ \E b \in Queued' : b.task = h.d.copy.task /\ b.attempt > h.d.copy.attempt
  <2>1. Fate(c)
    BY CopyFate
  <2>2. c.attempt \in Nat /\ h.d.copy.attempt \in Nat
    BY DeliveriesTyped DEF TypeOK, Queued, Handler, Delivery, Copy
  <2>3. ASSUME NEW b \in Queued', b.task = c.task, b.attempt > c.attempt
        PROVE  b.task = h.d.copy.task /\ b.attempt > h.d.copy.attempt
    <3>1. b \in Copy
      BY TypeStep, DeliveriesTyped DEF TypeOK, Queued
    <3>2. QED BY <1>3, <2>2, <2>3, <3>1 DEF Copy
  <2>4. QED BY <1>3, <2>1, <2>3 DEF Fate
<1>4. QED BY <1>1, <1>2, <1>3, Monotone DEF Covered

LEMMA AckCoveredStep ==
    TypeOK /\ UnackedCurrent /\ HeldIsUnacked /\ AckCovered /\ [Next]_vars => AckCovered'
<1> SUFFICES ASSUME TypeOK, UnackedCurrent, HeldIsUnacked, AckCovered, [Next]_vars
             PROVE  AckCovered'
  OBVIOUS
<1>1. CASE handlers' \subseteq handlers /\ unacked' \subseteq unacked
  <2>1. \A h \in handlers' : Covered(h)'
    BY <1>1, StaysCovered
  <2>2. QED BY <2>1 DEF AckCovered, Covered
<1>2. ASSUME NEW w \in Workers, NEW c \in ready, Deliver(w, c) PROVE AckCovered'
  <2> DEFINE d == [copy |-> c, w |-> w, inc |-> inc[w]]
  <2>1. handlers' = handlers /\ unacked' = unacked \cup {d} /\ channel[w] = "open"
    BY <1>2 DEF Deliver
  <2>2. ASSUME NEW h \in handlers, h.d = d, h.pc = "ackRetry" PROVE h.d \in unacked
    BY <2>1, <2>2 DEF HeldIsUnacked, Answered
  <2>3. ASSUME NEW h \in handlers, h.pc = "ackRetry" PROVE Covered(h)'
    BY <2>1, <2>2, <2>3, StaysCovered
  <2>4. ASSUME NEW h \in handlers, h.pc # "ackRetry" PROVE Covered(h)'
    BY <2>4, Monotone DEF AckCovered, Covered
  <2>5. QED BY <2>1, <2>3, <2>4 DEF AckCovered, Covered
<1>3. ASSUME NEW d \in buffer, BeginProcessing(d) PROVE AckCovered'
  <2>1. /\ unacked' = unacked
        /\ \A h \in handlers' : h \in handlers \/ h.pc = "processing"
    BY <1>3 DEF BeginProcessing, broker
  <2>2. \A h \in handlers' : h \in handlers => Covered(h)'
    BY <2>1, StaysCovered
  <2>3. QED BY <2>1, <2>2 DEF AckCovered, Covered, Kinds
<1>4. ASSUME NEW h \in handlers, HandlerStep(h) PROVE AckCovered'
  <2>1. unacked' \subseteq unacked
    BY <1>4, CallbackShape
  <2>2. \A g \in handlers' : g \in handlers => Covered(g)'
    BY <2>1, StaysCovered
  <2>3. ASSUME NEW p \in Points, MoveTo(h, p), Covered([d |-> h.d, pc |-> p])'
        PROVE  AckCovered'
    <3>1. \A g \in handlers' : Covered(g)'
      BY <2>2, <2>3 DEF MoveTo
    <3>2. QED BY <3>1 DEF AckCovered, Covered
  <2>4. CASE ProcessSucceeds(h)
    <3>1. Covered([d |-> h.d, pc |-> "ack"])'
      BY <2>4 DEF ProcessSucceeds, Covered, Kinds
    <3>2. QED BY <2>3, <2>4, <3>1 DEF ProcessSucceeds, Points
  <2>5. ASSUME NEW kind \in Kinds, ProcessFails(h, kind) PROVE AckCovered'
    <3>1. Covered([d |-> h.d, pc |-> kind])'
      BY <2>5 DEF ProcessFails, Covered, Kinds
    <3>2. QED BY <2>3, <2>5, <3>1 DEF ProcessFails, Points
  <2>6. CASE AckSuccessThrows(h)
    <3>1. h.d.copy.task \in done'
      BY <2>6 DEF AckSuccessThrows, AckCovered, history
    <3>2. Covered([d |-> h.d, pc |-> "permanent"])'
      BY <3>1 DEF Covered
    <3>3. QED BY <2>3, <2>6, <3>2 DEF AckSuccessThrows, Points, Kinds
  <2>7. CASE ScheduleRetry(h)
    <3>1. MoveTo(h, "ackRetry") /\ unacked' = unacked /\ RetryManaged
      BY <2>7 DEF ScheduleRetry, CanScheduleRetry
    <3>2. ASSUME h.d \in unacked
          PROVE  \E c \in Queued' : c.task = h.d.copy.task /\ c.attempt > h.d.copy.attempt
      <4>1. channel[h.d.w] = "open"
        BY <3>2 DEF UnackedCurrent
      <4>2. \E n \in Forks :
              [task |-> h.d.copy.task, attempt |-> h.d.copy.attempt + 1, n |-> n] \in delayed'
        BY <2>7, <4>1 DEF ScheduleRetry
      <4>3. h.d.copy.attempt \in Nat
        BY DEF TypeOK, Handler, Delivery, Copy
      <4>4. QED BY <4>2, <4>3 DEF Queued
    <3>3. Covered([d |-> h.d, pc |-> "ackRetry"])'
      BY <3>1, <3>2 DEF Covered, Kinds
    <3>4. QED BY <2>3, <3>1, <3>3 DEF Points
  <2>8. CASE FailureHandlingThrows(h)
    <3>1. Covered([d |-> h.d, pc |-> "nack"])'
      BY DEF Covered, Kinds
    <3>2. QED BY <2>3, <2>8, <3>1 DEF FailureHandlingThrows, Points
  <2>9. CASE AckSuccess(h) \/ AckScheduled(h) \/ RejectMessage(h) \/ RequeueFailed(h)
    <3>1. Covered([d |-> h.d, pc |-> "finally"])'
      BY DEF Covered, Kinds
    <3>2. QED
      BY <2>3, <2>9, <3>1 DEF AckSuccess, AckScheduled, RejectMessage, RequeueFailed, Points
  <2>10. CASE CompleteMessageProcessing(h)
    <3>1. Covered([d |-> h.d, pc |-> "signal"])'
      BY DEF Covered, Kinds
    <3>2. CASE MoveTo(h, "signal")
      BY <2>3, <3>1, <3>2 DEF Points
    <3>3. CASE handlers' = handlers \ {h}
      BY <1>1, <2>1, <3>3
    <3>4. QED BY <2>10, <3>2, <3>3 DEF CompleteMessageProcessing
  <2>11. CASE SignalDrained(h)
    BY <2>11, <1>1, <2>1 DEF SignalDrained
  <2>12. QED
    BY <1>4, <2>4, <2>5, <2>6, <2>7, <2>8, <2>9, <2>10, <2>11 DEF HandlerStep
<1>5. ASSUME NEW w \in Workers, \/ Break(w) \/ Notice(w) \/ Recover(w)
                                \/ Start(w) \/ StartFails(w) \/ Crash(w)
                                \/ RequestShutdown(w) \/ CancelConsumer(w) \/ StopConsuming(w)
      PROVE  AckCovered'
  <2>1. handlers' \subseteq handlers /\ unacked' \subseteq unacked
    BY <1>5 DEF Break, Notice, Recover, Start, StartFails, Crash, RequestShutdown,
       CancelConsumer, StopConsuming, Requeue, broker, client
  <2>2. QED BY <1>1, <2>1
<1>6. ASSUME NEW d \in buffer, DiscardStale(d) \/ RefuseDelivery(d) PROVE AckCovered'
  BY <1>1, <1>6 DEF DiscardStale, RefuseDelivery, Requeue, broker
<1>7. CASE (\E t \in Tasks : Publish(t)) \/ (\E c \in delayed : DelayElapsed(c)) \/ UNCHANGED vars
  BY <1>1, <1>7 DEF Publish, DelayElapsed, vars, broker, client
<1>8. QED BY <1>2, <1>3, <1>4, <1>5, <1>6, <1>7 DEF Next

LEMMA DeliveryInvariant == Spec => []DeliveryInv
<1>1. Init => DeliveryInv
  <2> SUFFICES ASSUME Init PROVE DeliveryInv
    OBVIOUS
  <2>1. TypeOK
    BY DEF Init, TypeOK, Phases
  <2>2. OnePlace /\ UnackedCurrent /\ HeldIsUnacked /\ OneCallback /\ AckCovered /\ NoLoss
    BY DEF Init, OnePlace, Copies, UnackedCurrent, HeldIsUnacked, OneCallback, AckCovered, NoLoss
  <2>3. QED BY <2>1, <2>2 DEF DeliveryInv
<1>2. DeliveryInv /\ [Next]_vars => DeliveryInv'
  BY TypeStep, OnePlaceStep, UnackedCurrentStep, HeldIsUnackedStep, OneCallbackStep,
     AckCoveredStep, NoLossStep DEF DeliveryInv
<1>3. QED BY <1>1, <1>2, PTL DEF Spec

(* NothingLost: for every number of tasks, workers, retries and faults, a  *)
(* published task stays in the queue until it was processed or was         *)
(* dead-lettered (the answers of SingleConsumerWorker lose nothing).       *)
THEOREM NothingLost == Spec => []NoLoss
<1>1. DeliveryInv => NoLoss
  BY DEF DeliveryInv
<1>2. QED BY <1>1, DeliveryInvariant, PTL

-----------------------------------------------------------------------------
(* What gets into the dead letter queue. *)

(* A callback in the catch block has thrown what it handles, or its ack    *)
(* threw on a lost channel: then its delivery is stale for ever.           *)
CatchKnown ==
    \A h \in handlers : h.pc \in Kinds =>
        \/ <<h.d.copy.task, h.pc>> \in thrown
        \/ h.pc = "permanent" /\ (h.d.inc < inc[h.d.w] \/ ~Usable(h))

LEMMA CatchKnownStep ==
    TypeOK /\ HeldIsUnacked /\ CatchKnown /\ [Next]_vars => CatchKnown'
<1> SUFFICES ASSUME TypeOK, HeldIsUnacked, CatchKnown, [Next]_vars PROVE CatchKnown'
  OBVIOUS
<1> USE DEF CatchKnown, Usable, Kinds
<1>0. \A h \in handlers : h.d.w \in Workers /\ h.d.inc \in Nat /\ h.d.inc =< inc[h.d.w]
  BY DEF TypeOK, Handler, Delivery, HeldIsUnacked
<1>1. CASE handlers' \subseteq handlers /\ UNCHANGED <<channel, inc>>
  BY <1>1, Monotone
<1>2. ASSUME NEW h \in handlers, HandlerStep(h) PROVE CatchKnown'
  <2>1. UNCHANGED <<channel, inc>>
    BY <1>2, CallbackShape
  <2>2. CASE ProcessSucceeds(h) \/ AckSuccess(h) \/ ScheduleRetry(h) \/ AckScheduled(h)
             \/ RejectMessage(h) \/ FailureHandlingThrows(h) \/ RequeueFailed(h)
             \/ CompleteMessageProcessing(h) \/ SignalDrained(h)
    <3>1. \A g \in handlers' : g \in handlers \/ g.pc \in {"ack", "finally", "ackRetry", "nack", "signal"}
      BY <2>2 DEF ProcessSucceeds, AckSuccess, ScheduleRetry, AckScheduled, RejectMessage,
         FailureHandlingThrows, RequeueFailed, CompleteMessageProcessing, SignalDrained, MoveTo
    <3>2. QED BY <2>1, <3>1, Monotone
  <2>3. ASSUME NEW kind \in Kinds, ProcessFails(h, kind) PROVE CatchKnown'
    BY <2>1, <2>3 DEF ProcessFails, MoveTo
  <2>4. CASE AckSuccessThrows(h)
    BY <2>1, <2>4, <1>0 DEF AckSuccessThrows, MoveTo, history
  <2>5. QED BY <1>2, <2>2, <2>3, <2>4 DEF HandlerStep
<1>3. ASSUME NEW d \in buffer, DiscardStale(d) \/ BeginProcessing(d) \/ RefuseDelivery(d)
      PROVE  CatchKnown'
  <2>1. UNCHANGED <<channel, inc, thrown>>
    BY <1>3 DEF DiscardStale, BeginProcessing, RefuseDelivery, history
  <2>2. \A g \in handlers' : g \in handlers \/ g.pc = "processing"
    BY <1>3 DEF DiscardStale, BeginProcessing, RefuseDelivery
  <2>3. QED BY <2>1, <2>2
<1>4. ASSUME NEW w \in Workers, \/ Break(w) \/ Notice(w) \/ Recover(w) \/ Start(w) \/ Crash(w)
                                \/ StopConsuming(w)
      PROVE  CatchKnown'
  <2>1. handlers' \subseteq handlers /\ thrown' = thrown
    BY <1>4 DEF Break, Notice, Recover, Start, Crash, StopConsuming, history
  <2>2. \A v \in Workers : \/ inc'[v] = inc[v] + 1
                           \/ inc'[v] = inc[v] /\ channel'[v] = channel[v]
                           \/ inc'[v] = inc[v] /\ channel'[v] \notin {"open", "dying"}
                           \/ inc'[v] = inc[v] /\ channel[v] = "open"
    BY <1>4 DEF TypeOK, Break, Notice, Recover, Start, Crash, StopConsuming
  <2>3. \A v \in Workers : inc[v] \in Nat
    BY DEF TypeOK
  <2>4. QED BY <2>1, <2>2, <2>3, <1>0
<1>5. ASSUME NEW w \in Workers, StartFails(w) \/ RequestShutdown(w) \/ CancelConsumer(w)
      PROVE  CatchKnown'
  BY <1>1, <1>5 DEF StartFails, RequestShutdown, CancelConsumer, client
<1>6. CASE \/ \E t \in Tasks : Publish(t)
           \/ \E c \in delayed : DelayElapsed(c)
           \/ \E w \in Workers, c \in ready : Deliver(w, c)
           \/ UNCHANGED vars
  BY <1>1, <1>6 DEF Publish, DelayElapsed, Deliver, vars, client
<1>7. QED BY <1>2, <1>3, <1>4, <1>5, <1>6 DEF Next

LEMMA DlqJustifiedStep ==
    ASSUME TypeOK, UnackedCurrent, CatchKnown, DlqJustified, [Next]_vars
    PROVE  DlqJustified'
<1>1. CASE dlq' = dlq
  BY <1>1, Monotone DEF DlqJustified
<1>2. ASSUME NEW h \in handlers, RejectMessage(h) PROVE DlqJustified'
  <2>1. CASE h.d \notin unacked \/ ~RetryManaged
    BY <1>1, <1>2, <2>1 DEF RejectMessage, Copies
  <2>2. CASE h.d \in unacked /\ RetryManaged
    <3>1. dlq' = dlq \cup {h.d.copy} /\ thrown' = thrown
      BY <1>2, <2>2 DEF RejectMessage, Copies, history
    <3>2. channel[h.d.w] = "open" /\ h.d.inc = inc[h.d.w] /\ inc[h.d.w] \in Nat
      BY <2>2 DEF UnackedCurrent, TypeOK, Delivery
    <3>3. <<h.d.copy.task, h.pc>> \in thrown
      BY <1>2, <3>2 DEF CatchKnown, RejectMessage, Usable
    <3>4. h.d.copy.attempt \in Nat
      BY <2>2, DeliveriesTyped DEF TypeOK, Delivery, Copy
    <3>5. h.pc = "transient" => h.d.copy.attempt >= MaxRetries
      BY <1>2, <2>2, <3>4, RetriesAssumption DEF RejectMessage, CanScheduleRetry
    <3>6. h.pc \in {"transient", "permanent"}
      BY <1>2 DEF RejectMessage, Kinds
    <3>7. QED BY <3>1, <3>3, <3>5, <3>6 DEF DlqJustified
  <2>3. QED BY <2>1, <2>2
<1>3. ASSUME NEW h \in handlers, HandlerStep(h), ~RejectMessage(h) PROVE dlq' = dlq
  BY <1>3 DEF HandlerStep, ProcessSucceeds, ProcessFails, AckSuccess, AckSuccessThrows,
     ScheduleRetry, AckScheduled, FailureHandlingThrows, RequeueFailed,
     CompleteMessageProcessing, SignalDrained, broker
<1>4. ASSUME NEW w \in Workers, \/ Break(w) \/ Notice(w) \/ Recover(w)
                                \/ Start(w) \/ StartFails(w) \/ Crash(w)
                                \/ RequestShutdown(w) \/ CancelConsumer(w) \/ StopConsuming(w)
      PROVE  dlq' = dlq
  BY <1>4 DEF Break, Notice, Recover, Start, StartFails, Crash, RequestShutdown,
     CancelConsumer, StopConsuming, broker
<1>5. ASSUME NEW d \in buffer, DiscardStale(d) \/ BeginProcessing(d) \/ RefuseDelivery(d)
      PROVE  dlq' = dlq
  BY <1>5 DEF DiscardStale, BeginProcessing, RefuseDelivery, broker
<1>6. CASE \/ \E t \in Tasks : Publish(t)
           \/ \E c \in delayed : DelayElapsed(c)
           \/ \E w \in Workers, c \in ready : Deliver(w, c)
           \/ UNCHANGED vars
  BY <1>1, <1>6 DEF Publish, DelayElapsed, Deliver, vars, broker
<1>7. QED BY <1>1, <1>2, <1>3, <1>4, <1>5, <1>6 DEF Next

(* DeadLettersJustified: a message is in the dead letter queue only because *)
(* its processing failed for good, for any numbers; an ack that throws     *)
(* (SingleConsumerWorker.cs, catch block) never sends a processed one.     *)
THEOREM DeadLettersJustified == Spec => []DlqJustified
<1> DEFINE Inv == CatchKnown /\ DlqJustified
<1>1. Init => Inv
  BY DEF Init, CatchKnown, DlqJustified
<1>2. DeliveryInv /\ Inv /\ [Next]_vars => Inv'
  BY CatchKnownStep, DlqJustifiedStep DEF DeliveryInv
<1>3. Inv => DlqJustified
  OBVIOUS
<1> HIDE DEF Inv
<1>4. QED BY <1>1, <1>2, <1>3, DeliveryInvariant, PTL DEF Spec

-----------------------------------------------------------------------------
(* The drain of a graceful shutdown. *)

(* A callback that moves to another point before the end stays counted. *)
LEMMA MoveKeepsCount ==
    ASSUME TypeOK, OneCallback, DrainInv, NEW h \in handlers, h.pc # "signal",
           NEW p \in Points, p # "signal", MoveTo(h, p), inFlight' = inFlight
    PROVE  IsFiniteSet(handlers)' /\ CounterExact'
<1> DEFINE g == [d |-> h.d, pc |-> p]
<1>1. IsFiniteSet(handlers')
  BY FS_RemoveElement, FS_AddElement DEF MoveTo, DrainInv
<1>2. ASSUME NEW w \in Workers PROVE inFlight'[w] = Cardinality(InFlight(w)')
  <2>1. IsFiniteSet(InFlight(w)) /\ inFlight[w] = Cardinality(InFlight(w))
    BY FS_Subset DEF DrainInv, CounterExact, InFlight
  <2>2. CASE h.d.w # w
    <3>1. InFlight(w)' = InFlight(w)
      BY <2>2 DEF InFlight, MoveTo
    <3>2. QED BY <2>1, <3>1
  <2>3. CASE h.d.w = w
    <3>1. InFlight(w)' = (InFlight(w) \ {h}) \cup {g}
      BY <2>3 DEF InFlight, MoveTo
    <3>2. h \in InFlight(w) /\ g \notin InFlight(w) \ {h}
      BY <2>3 DEF InFlight, OneCallback
    <3>3. IsFiniteSet(InFlight(w) \ {h})
          /\ Cardinality(InFlight(w) \ {h}) = Cardinality(InFlight(w)) - 1
      BY <2>1, <3>2, FS_RemoveElement
    <3>4. Cardinality((InFlight(w) \ {h}) \cup {g}) = Cardinality(InFlight(w) \ {h}) + 1
      BY <3>2, <3>3, FS_AddElement
    <3>5. Cardinality(InFlight(w)) \in Nat
      BY <2>1, FS_CardinalityType
    <3>6. QED BY <2>1, <3>1, <3>3, <3>4, <3>5
  <2>4. QED BY <2>2, <2>3
<1>3. QED BY <1>1, <1>2 DEF CounterExact

(* Callbacks of one worker leave, nothing else changes. *)
LEMMA SameCount ==
    ASSUME DrainInv, IsFiniteSet(handlers'), inFlight' = inFlight,
           \A w \in Workers : InFlight(w)' = InFlight(w)
    PROVE  CounterExact'
BY DEF DrainInv, CounterExact

LEMMA DrainStep ==
    TypeOK /\ OneCallback /\ DrainInv /\ [Next]_vars => DrainInv'
<1> SUFFICES ASSUME TypeOK, OneCallback, DrainInv, [Next]_vars PROVE DrainInv'
  OBVIOUS
<1> USE DEF Alive
<1>0. /\ \A d \in buffer : d.w \in Workers
      /\ \A h \in handlers : h \in Handler /\ h.d.w \in Workers
      /\ \A w \in Workers : inFlight[w] \in Nat
  BY DEF TypeOK, Delivery, Handler
<1>1. CASE UNCHANGED <<handlers, inFlight, drained>>
           /\ \A w \in Workers : ~Alive(w)' => ~Alive(w) \/ drained[w]
  <2>1. CounterExact' /\ IsFiniteSet(handlers)'
    BY <1>1 DEF DrainInv, CounterExact, InFlight
  <2>2. QED BY <1>1, <2>1 DEF DrainInv
<1>2. ASSUME NEW d \in buffer, BeginProcessing(d) PROVE DrainInv'
  <2> DEFINE g == [d |-> d, pc |-> "processing"]
             kept == {h \in handlers : ~(h.d.w = d.w /\ h.pc = "signal")}
  <2>1. /\ handlers' = kept \cup {g} /\ phase' = phase
        /\ inFlight' = [inFlight EXCEPT ![d.w] = inFlight[d.w] + 1]
        /\ drained' = IF inFlight[d.w] = 0 THEN [drained EXCEPT ![d.w] = FALSE] ELSE drained
        /\ Alive(d.w)
    BY <1>2 DEF BeginProcessing
  <2>2. IsFiniteSet(handlers')
    <3>1. IsFiniteSet(kept)
      BY FS_Subset DEF DrainInv
    <3>2. QED BY <2>1, <3>1, FS_AddElement
  <2>3. ASSUME NEW w \in Workers PROVE inFlight'[w] = Cardinality(InFlight(w)')
    <3>1. IsFiniteSet(InFlight(w)) /\ inFlight[w] = Cardinality(InFlight(w))
      BY FS_Subset DEF DrainInv, CounterExact, InFlight
    <3>2. CASE w # d.w
      <4>1. InFlight(w)' = InFlight(w)
        BY <2>1, <3>2 DEF InFlight
      <4>2. inFlight'[w] = inFlight[w]
        BY <1>0, <2>1, <3>2 DEF TypeOK
      <4>3. QED BY <3>1, <4>1, <4>2
    <3>3. CASE w = d.w
      <4>1. InFlight(w)' = InFlight(w) \cup {g}
        BY <2>1, <3>3 DEF InFlight
      <4>2. g \notin InFlight(w)
        BY <1>2, <3>3 DEF InFlight, BeginProcessing, DispatcherFree
      <4>3. inFlight'[w] = inFlight[w] + 1
        BY <2>1, <3>3 DEF TypeOK
      <4>4. QED BY <3>1, <4>1, <4>2, <4>3, FS_AddElement
    <3>4. QED BY <3>2, <3>3
  <2>4. \A w \in Workers : drained'[w] => inFlight'[w] = 0
    BY <1>0, <2>1 DEF DrainInv, TypeOK
  <2>5. \A h \in handlers' : h.pc = "signal" => inFlight'[h.d.w] = 0
    <3>1. \A h \in handlers' : h.pc = "signal" => h \in handlers /\ h.d.w # d.w
      BY <2>1
    <3>2. QED BY <1>0, <2>1, <3>1 DEF DrainInv, TypeOK
  <2>6. \A w \in Workers : ~Alive(w)' => inFlight'[w] = 0
    BY <1>0, <2>1 DEF DrainInv, TypeOK
  <2>7. QED BY <2>2, <2>3, <2>4, <2>5, <2>6 DEF DrainInv, CounterExact
<1>3. ASSUME NEW h \in handlers, HandlerStep(h) PROVE DrainInv'
  <2>1. ASSUME NEW p \in Points, p # "signal", h.pc # "signal", MoveTo(h, p),
               UNCHANGED <<inFlight, drained, phase>>
        PROVE  DrainInv'
    <3>1. IsFiniteSet(handlers)' /\ CounterExact'
      BY <2>1, MoveKeepsCount
    <3>2. \A g \in handlers' : g.pc = "signal" => g \in handlers
      BY <2>1 DEF MoveTo
    <3>3. QED BY <2>1, <3>1, <3>2 DEF DrainInv
  <2>2. CASE ProcessSucceeds(h)
    BY <2>1, <2>2 DEF ProcessSucceeds, Points, process
  <2>3. ASSUME NEW kind \in Kinds, ProcessFails(h, kind) PROVE DrainInv'
    BY <2>1, <2>3 DEF ProcessFails, Points, Kinds, process
  <2>4. CASE AckSuccess(h) \/ AckSuccessThrows(h) \/ AckScheduled(h)
    BY <2>1, <2>4 DEF AckSuccess, AckSuccessThrows, AckScheduled, Points, Kinds, process
  <2>5. CASE ScheduleRetry(h)
    BY <2>1, <2>5 DEF ScheduleRetry, CanScheduleRetry, Points, process
  <2>6. CASE RejectMessage(h) \/ FailureHandlingThrows(h) \/ RequeueFailed(h)
    BY <2>1, <2>6 DEF RejectMessage, FailureHandlingThrows, RequeueFailed, Points, Kinds, process
  <2>7. CASE CompleteMessageProcessing(h)
    <3> DEFINE u == h.d.w
    <3>1. /\ h.pc = "finally" /\ drained' = drained /\ phase' = phase
          /\ \/ inFlight[u] = 1 /\ handlers' = (handlers \ {h}) \cup {[d |-> h.d, pc |-> "signal"]}
             \/ inFlight[u] # 1 /\ handlers' = handlers \ {h}
      BY <2>7 DEF CompleteMessageProcessing, MoveTo
    <3>2. IsFiniteSet(handlers')
      <4>1. IsFiniteSet(handlers \ {h})
        BY FS_RemoveElement DEF DrainInv
      <4>2. IsFiniteSet((handlers \ {h}) \cup {[d |-> h.d, pc |-> "signal"]})
        BY <4>1, FS_AddElement
      <4>3. QED BY <3>1, <4>1, <4>2
    <3>3. h \in InFlight(u) /\ IsFiniteSet(InFlight(u)) /\ inFlight[u] = Cardinality(InFlight(u))
      BY <1>0, <3>1, FS_Subset DEF DrainInv, CounterExact, InFlight
    <3>4. IsFiniteSet(InFlight(u) \ {h})
          /\ Cardinality(InFlight(u) \ {h}) = Cardinality(InFlight(u)) - 1
          /\ Cardinality(InFlight(u) \ {h}) \in Nat
      BY <3>3, FS_RemoveElement, FS_CardinalityType
    <3>5. inFlight[u] > 0
      BY <1>0, <3>3, <3>4
    <3>6. inFlight' = [inFlight EXCEPT ![u] = inFlight[u] - 1]
      BY <2>7, <3>5 DEF CompleteMessageProcessing
    <3>7. ASSUME NEW w \in Workers PROVE inFlight'[w] = Cardinality(InFlight(w)')
      <4>1. CASE w # u
        <5>1. InFlight(w)' = InFlight(w)
          BY <3>1, <4>1 DEF InFlight
        <5>2. inFlight'[w] = inFlight[w]
          BY <1>0, <3>6, <4>1 DEF TypeOK
        <5>3. QED BY <5>1, <5>2 DEF DrainInv, CounterExact
      <4>2. CASE w = u
        <5>1. InFlight(w)' = InFlight(u) \ {h}
          BY <3>1, <4>2 DEF InFlight
        <5>2. inFlight'[w] = inFlight[u] - 1
          BY <1>0, <3>6, <4>2 DEF TypeOK
        <5>3. QED BY <3>3, <3>4, <5>1, <5>2
      <4>3. QED BY <4>1, <4>2
    <3>8. \A w \in Workers : inFlight[w] = 0 => w # u /\ inFlight'[w] = 0
      BY <1>0, <3>5, <3>6 DEF TypeOK
    <3>9. inFlight[u] = 1 => inFlight'[u] = 0
      BY <1>0, <3>6 DEF TypeOK
    <3>10. \A g \in handlers' : g.pc = "signal" => inFlight'[g.d.w] = 0
      BY <1>0, <3>1, <3>8, <3>9 DEF DrainInv
    <3>11. QED BY <3>1, <3>2, <3>7, <3>8, <3>10 DEF DrainInv, CounterExact
  <2>8. CASE SignalDrained(h)
    <3>1. /\ h.pc = "signal" /\ handlers' = handlers \ {h}
          /\ drained' = [drained EXCEPT ![h.d.w] = TRUE]
          /\ UNCHANGED <<inFlight, phase>>
      BY <2>8 DEF SignalDrained
    <3>2. IsFiniteSet(handlers')
      BY <3>1, FS_RemoveElement DEF DrainInv
    <3>3. CounterExact'
      <4>1. \A w \in Workers : InFlight(w)' = InFlight(w)
        BY <3>1 DEF InFlight
      <4>2. QED BY <3>1, <3>2, <4>1, SameCount
    <3>4. \A w \in Workers : drained'[w] => inFlight'[w] = 0
      BY <3>1 DEF DrainInv, TypeOK
    <3>5. QED BY <3>1, <3>2, <3>3, <3>4 DEF DrainInv
  <2>9. QED
    BY <1>3, <2>2, <2>3, <2>4, <2>5, <2>6, <2>7, <2>8 DEF HandlerStep
<1>4. ASSUME NEW w \in Workers, Start(w) \/ Crash(w) PROVE DrainInv'
  <2>1. /\ inFlight' = [inFlight EXCEPT ![w] = 0] /\ drained' = [drained EXCEPT ![w] = TRUE]
        /\ handlers' \subseteq handlers
        /\ \A v \in Workers : v # w => phase'[v] = phase[v]
    BY <1>4 DEF Start, Crash, TypeOK
  <2>2. IsFiniteSet(handlers')
    BY <2>1, FS_Subset DEF DrainInv
  <2>3. InFlight(w)' = {}
    <3>1. CASE Start(w)
      <4>1. inFlight[w] = 0 /\ handlers' = handlers
        BY <3>1 DEF Start, DrainInv
      <4>2. IsFiniteSet(InFlight(w)) /\ Cardinality(InFlight(w)) = 0
        BY <4>1, FS_Subset DEF DrainInv, CounterExact, InFlight
      <4>3. InFlight(w) = {}
        BY <4>2, FS_EmptySet
      <4>4. QED BY <4>1, <4>3 DEF InFlight
    <3>2. CASE Crash(w)
      BY <3>2 DEF Crash, InFlight
    <3>3. QED BY <1>4, <3>1, <3>2
  <2>4. ASSUME NEW v \in Workers PROVE inFlight'[v] = Cardinality(InFlight(v)')
    <3>1. CASE v = w
      BY <2>1, <2>3, <3>1, FS_EmptySet DEF TypeOK
    <3>2. CASE v # w
      <4>1. InFlight(v)' = InFlight(v)
        BY <1>4, <3>2 DEF Start, Crash, InFlight
      <4>2. QED BY <2>1, <3>2, <4>1 DEF DrainInv, CounterExact, TypeOK
    <3>3. QED BY <3>1, <3>2
  <2>5. \A v \in Workers : inFlight[v] = 0 => inFlight'[v] = 0
    BY <2>1 DEF TypeOK
  <2>6. QED BY <1>0, <2>1, <2>2, <2>4, <2>5 DEF DrainInv, CounterExact, TypeOK
<1>5. ASSUME NEW w \in Workers, \/ Break(w) \/ Notice(w) \/ Recover(w) \/ StartFails(w)
                                \/ RequestShutdown(w) \/ CancelConsumer(w) \/ StopConsuming(w)
      PROVE  DrainInv'
  <2>1. UNCHANGED <<handlers, inFlight, drained>>
    BY <1>5 DEF Break, Notice, Recover, StartFails, RequestShutdown, CancelConsumer,
       StopConsuming, client, process
  <2>2. \A v \in Workers : ~Alive(v)' => ~Alive(v) \/ drained[v]
    BY <1>5 DEF Break, Notice, Recover, StartFails, RequestShutdown, CancelConsumer,
       StopConsuming, process, TypeOK
  <2>3. QED BY <2>1, <2>2, <1>1
<1>6. CASE \/ \E t \in Tasks : Publish(t)
           \/ \E c \in delayed : DelayElapsed(c)
           \/ \E w \in Workers, c \in ready : Deliver(w, c)
           \/ UNCHANGED vars
  BY <1>1, <1>6 DEF Publish, DelayElapsed, Deliver, vars, client, process
<1>7. ASSUME NEW d \in buffer, DiscardStale(d) \/ RefuseDelivery(d) PROVE DrainInv'
  BY <1>1, <1>7 DEF DiscardStale, RefuseDelivery, process
<1>8. QED BY <1>2, <1>3, <1>4, <1>5, <1>6, <1>7 DEF Next

LEMMA DrainInvariant == Spec => []DrainInv
<1>1. Init => DrainInv
  <2> SUFFICES ASSUME Init PROVE DrainInv
    OBVIOUS
  <2>1. \A w \in Workers : InFlight(w) = {}
    BY DEF Init, InFlight
  <2>2. CounterExact
    BY <2>1, FS_EmptySet DEF Init, CounterExact
  <2>3. QED BY <2>2, FS_EmptySet DEF Init, DrainInv
<1>2. DeliveryInv /\ DrainInv /\ [Next]_vars => DrainInv'
  BY DrainStep DEF DeliveryInv
<1>3. QED BY <1>1, <1>2, DeliveryInvariant, PTL DEF Spec

(* CounterIsExact: _inFlightMessages always equals the number of callbacks *)
(* between TryBegin and CompleteMessageProcessing.                         *)
THEOREM CounterIsExact == Spec => []CounterExact
<1>1. DrainInv => CounterExact
  BY DEF DrainInv
<1>2. QED BY <1>1, DrainInvariant, PTL

(* ClosedIsDrained: a channel closed by a graceful shutdown has no callback *)
(* of its worker that still owes the broker an answer.                     *)
THEOREM ClosedIsDrained == Spec => []DrainedBeforeClose
<1>1. DrainInv => DrainedBeforeClose
  <2> SUFFICES ASSUME DrainInv, NEW w \in Workers, phase[w] = "closed"
               PROVE  InFlight(w) = {}
    BY DEF DrainedBeforeClose
  <2>1. Cardinality(InFlight(w)) = 0
    BY DEF DrainInv, CounterExact, Alive
  <2>2. IsFiniteSet(InFlight(w))
    BY FS_Subset DEF DrainInv, InFlight
  <2>3. QED BY <2>1, <2>2, FS_EmptySet
<1>2. QED BY <1>1, DrainInvariant, PTL


-----------------------------------------------------------------------------
(* What the clients hold. *)

LEMMA CopiesCounted ==
    ASSUME NEW D, IsFiniteSet(D)
    PROVE  IsFiniteSet(Copies(D)) /\ Cardinality(Copies(D)) <= Cardinality(D)
<1> DEFINE f == [d \in D |-> d.copy]
<1>1. f \in Surjection(D, Copies(D))
  BY DEF Surjection, Copies
<1>2. QED BY <1>1, FS_Surjection

(* A step puts at most what was unanswered and one more copy into the      *)
(* queue; only Deliver adds to what the clients hold.                      *)
LEMMA StepAdds ==
    ASSUME [Next]_vars
    PROVE  /\ \E c : ready' \cup delayed' \subseteq ((ready \cup delayed) \cup Copies(unacked)) \cup {c}
           /\ \/ unacked' \subseteq unacked /\ buffer' \subseteq buffer
              \/ \E w \in Workers, c \in ready : Deliver(w, c)
<1> DEFINE Adds == \E c : ready' \cup delayed' \subseteq ((ready \cup delayed) \cup Copies(unacked)) \cup {c}
           Takes == unacked' \subseteq unacked /\ buffer' \subseteq buffer
<1>1. ASSUME NEW D, Requeue(D), delayed' = delayed PROVE Adds /\ unacked' \subseteq unacked
  BY <1>1 DEF Requeue, Copies
<1>2. ASSUME NEW t \in Tasks, Publish(t) PROVE Adds /\ Takes
  BY <1>2 DEF Publish, client
<1>3. ASSUME NEW c \in delayed, DelayElapsed(c) PROVE Adds /\ Takes
  BY <1>3 DEF DelayElapsed, client
<1>4. ASSUME NEW w \in Workers, NEW c \in ready, Deliver(w, c) PROVE Adds
  BY <1>4 DEF Deliver
<1>5. ASSUME NEW d \in buffer, DiscardStale(d) \/ BeginProcessing(d) PROVE Adds /\ Takes
  BY <1>5 DEF DiscardStale, BeginProcessing, broker
<1>6. ASSUME NEW d \in buffer, RefuseDelivery(d) PROVE Adds /\ Takes
  BY <1>1, <1>6 DEF RefuseDelivery
<1>7. ASSUME NEW h \in handlers, HandlerStep(h) PROVE Adds /\ Takes
  <2>1. CASE RequeueFailed(h)
    BY <1>1, <2>1 DEF RequeueFailed
  <2>2. CASE ScheduleRetry(h)
    BY <2>2 DEF ScheduleRetry
  <2>3. CASE AckSuccess(h) \/ AckScheduled(h) \/ RejectMessage(h)
    BY <2>3 DEF AckSuccess, AckScheduled, RejectMessage
  <2>4. CASE \/ ProcessSucceeds(h) \/ (\E kind \in Kinds : ProcessFails(h, kind))
             \/ AckSuccessThrows(h) \/ FailureHandlingThrows(h)
             \/ CompleteMessageProcessing(h) \/ SignalDrained(h)
    BY <2>4 DEF ProcessSucceeds, ProcessFails, AckSuccessThrows, FailureHandlingThrows,
       CompleteMessageProcessing, SignalDrained, broker
  <2>5. QED BY <1>7, <2>1, <2>2, <2>3, <2>4 DEF HandlerStep
<1>8. ASSUME NEW w \in Workers, Break(w) \/ Crash(w) \/ StopConsuming(w) PROVE Adds /\ Takes
  BY <1>1, <1>8 DEF Break, Crash, StopConsuming
<1>9. ASSUME NEW w \in Workers, \/ Notice(w) \/ Recover(w) \/ Start(w) \/ StartFails(w)
                                \/ RequestShutdown(w) \/ CancelConsumer(w)
      PROVE  Adds /\ Takes
  BY <1>9 DEF Notice, Recover, Start, StartFails, RequestShutdown, CancelConsumer, broker, client
<1>10. CASE UNCHANGED vars
  BY <1>10 DEF vars, broker, client
<1>11. QED
  BY <1>2, <1>3, <1>4, <1>5, <1>6, <1>7, <1>8, <1>9, <1>10 DEF Next

(* A delivery without an answer is with its client.                        *)
LEMMA HeldByClient ==
    ASSUME PrefetchInv, [Next]_vars
    PROVE  \A d \in unacked' :
             d \in buffer' \/ \E h \in handlers' : h.d = d /\ h.pc \notin Answered
<1> DEFINE Held(d) == d \in buffer \/ \E h \in handlers : h.d = d /\ h.pc \notin Answered
<1>0. \A d \in unacked : Held(d)
  BY DEF PrefetchInv
<1>1. ASSUME unacked' \subseteq unacked, UNCHANGED <<buffer, handlers>>
      PROVE  \A d \in unacked' : Held(d)'
  BY <1>0, <1>1
<1>2. ASSUME NEW t \in Tasks, Publish(t) PROVE \A d \in unacked' : Held(d)'
  BY <1>1, <1>2 DEF Publish, client
<1>3. ASSUME NEW c \in delayed, DelayElapsed(c) PROVE \A d \in unacked' : Held(d)'
  BY <1>1, <1>3 DEF DelayElapsed, client
<1>4. ASSUME NEW w \in Workers, NEW c \in ready, Deliver(w, c) PROVE \A d \in unacked' : Held(d)'
  BY <1>0, <1>4 DEF Deliver
<1>5. ASSUME NEW e \in buffer, DiscardStale(e) PROVE \A d \in unacked' : Held(d)'
  BY <1>0, <1>5 DEF DiscardStale, broker
<1>6. ASSUME NEW e \in buffer, BeginProcessing(e) PROVE \A d \in unacked' : Held(d)'
  <2> DEFINE g == [d |-> e, pc |-> "processing"]
  <2>1. /\ unacked' = unacked /\ buffer' = buffer \ {e}
        /\ g \in handlers' /\ g.d = e /\ g.pc \notin Answered
        /\ \A h \in handlers : h.pc # "signal" => h \in handlers'
    BY <1>6 DEF BeginProcessing, broker, Answered
  <2> HIDE DEF g
  <2>2. QED BY <1>0, <2>1 DEF Answered
<1>7. ASSUME NEW e \in buffer, RefuseDelivery(e) PROVE \A d \in unacked' : Held(d)'
  BY <1>0, <1>7 DEF RefuseDelivery, Requeue
<1>8. ASSUME NEW h \in handlers, HandlerStep(h) PROVE \A d \in unacked' : Held(d)'
  <2>1. ASSUME NEW p \in Points \ Answered, MoveTo(h, p), unacked' = unacked, buffer' = buffer
        PROVE  \A d \in unacked' : Held(d)'
    <3> DEFINE g == [d |-> h.d, pc |-> p]
    <3>1. g \in handlers' /\ g.d = h.d /\ g.pc \notin Answered /\ handlers \ {h} \subseteq handlers'
      BY <2>1 DEF MoveTo
    <3> HIDE DEF g
    <3>2. QED BY <1>0, <2>1, <3>1
  <2>2. ASSUME handlers \ {h} \subseteq handlers', unacked' = unacked \ {h.d}, buffer' = buffer
        PROVE  \A d \in unacked' : Held(d)'
    BY <1>0, <2>2
  <2>3. ASSUME handlers \ {h} \subseteq handlers', h.pc \in Answered, unacked' = unacked, buffer' = buffer
        PROVE  \A d \in unacked' : Held(d)'
    BY <1>0, <2>3
  <2>4. CASE \/ ProcessSucceeds(h) \/ (\E kind \in Kinds : ProcessFails(h, kind))
             \/ AckSuccessThrows(h) \/ ScheduleRetry(h) \/ FailureHandlingThrows(h)
    <3>1. /\ \E p \in Points \ Answered : MoveTo(h, p)
          /\ unacked' = unacked /\ buffer' = buffer
      BY <2>4 DEF ProcessSucceeds, ProcessFails, AckSuccessThrows, ScheduleRetry,
         FailureHandlingThrows, broker, Points, Answered, Kinds
    <3>2. QED BY <2>1, <3>1
  <2>5. CASE AckSuccess(h) \/ AckScheduled(h) \/ RejectMessage(h) \/ RequeueFailed(h)
    BY <2>2, <2>5 DEF AckSuccess, AckScheduled, RejectMessage, RequeueFailed, Requeue, MoveTo
  <2>6. CASE CompleteMessageProcessing(h) \/ SignalDrained(h)
    BY <2>3, <2>6 DEF CompleteMessageProcessing, SignalDrained, broker, MoveTo, Answered
  <2>7. QED BY <1>8, <2>4, <2>5, <2>6 DEF HandlerStep
<1>9. ASSUME NEW w \in Workers, Break(w) \/ Crash(w) \/ StopConsuming(w)
      PROVE  \A d \in unacked' : Held(d)'
  <2>1. /\ unacked' = unacked \ Of(w, unacked)
        /\ \A d \in buffer : d.w # w => d \in buffer'
        /\ \A h \in handlers : h.d.w # w => h \in handlers'
    BY <1>9 DEF Break, Crash, StopConsuming, Requeue, Of
  <2>2. QED BY <1>0, <2>1 DEF Of
<1>10. ASSUME NEW w \in Workers, \/ Notice(w) \/ Recover(w) \/ Start(w) \/ StartFails(w)
                                 \/ RequestShutdown(w) \/ CancelConsumer(w)
       PROVE  \A d \in unacked' : Held(d)'
  BY <1>1, <1>10 DEF Notice, Recover, Start, StartFails, RequestShutdown, CancelConsumer, broker, client
<1>11. CASE UNCHANGED vars
  BY <1>1, <1>11 DEF vars, broker, client
<1>12. QED
  BY <1>2, <1>3, <1>4, <1>5, <1>6, <1>7, <1>8, <1>9, <1>10, <1>11 DEF Next

LEMMA PrefetchStep == TypeOK /\ PrefetchInv /\ [Next]_vars => PrefetchInv'
<1> SUFFICES ASSUME TypeOK, PrefetchInv, [Next]_vars PROVE PrefetchInv'
  OBVIOUS
<1>1. IsFiniteSet(ready' \cup delayed')
  <2>1. PICK c : ready' \cup delayed' \subseteq ((ready \cup delayed) \cup Copies(unacked)) \cup {c}
    BY StepAdds
  <2>2. IsFiniteSet((ready \cup delayed) \cup Copies(unacked))
    BY CopiesCounted, FS_Union DEF PrefetchInv
  <2>3. IsFiniteSet(((ready \cup delayed) \cup Copies(unacked)) \cup {c})
    BY <2>2, FS_AddElement
  <2>4. QED BY <2>1, <2>3, FS_Subset
<1>2. ASSUME NEW w \in Workers PROVE IsFiniteSet(Of(w, unacked))
  BY FS_Subset DEF PrefetchInv, Of
<1>3. CASE unacked' \subseteq unacked /\ buffer' \subseteq buffer
  <2>1. IsFiniteSet(unacked') /\ IsFiniteSet(buffer')
    BY <1>3, FS_Subset DEF PrefetchInv
  <2>2. ASSUME NEW w \in Workers PROVE Cardinality(Of(w, unacked'))  <= Prefetch
    <3>1. Of(w, unacked') \subseteq Of(w, unacked)
      BY <1>3 DEF Of
    <3>2. /\ Cardinality(Of(w, unacked')) <= Cardinality(Of(w, unacked))
          /\ Cardinality(Of(w, unacked')) \in Nat /\ Cardinality(Of(w, unacked)) \in Nat
      BY <1>2, <3>1, FS_Subset, FS_CardinalityType
    <3>3. QED BY <3>2, PrefetchAssumption DEF PrefetchInv
  <2>3. QED BY <1>1, <2>1, <2>2, HeldByClient DEF PrefetchInv
<1>4. ASSUME NEW v \in Workers, NEW c \in ready, Deliver(v, c) PROVE PrefetchInv'
  <2> DEFINE d == [copy |-> c, w |-> v, inc |-> inc[v]]
  <2>1. /\ unacked' = unacked \cup {d} /\ buffer' = buffer \cup {d}
        /\ Cardinality(Of(v, unacked)) < Prefetch /\ d.w = v
    BY <1>4 DEF Deliver
  <2> HIDE DEF d
  <2>2. IsFiniteSet(unacked') /\ IsFiniteSet(buffer')
    BY <2>1, FS_AddElement DEF PrefetchInv
  <2>3. ASSUME NEW w \in Workers PROVE Cardinality(Of(w, unacked')) <= Prefetch
    <3>1. CASE w # v
      <4>1. Of(w, unacked') = Of(w, unacked)
        BY <2>1, <3>1 DEF Of
      <4>2. QED BY <4>1 DEF PrefetchInv
    <3>2. CASE w = v
      <4>1. Of(v, unacked') = Of(v, unacked) \cup {d}
        BY <2>1 DEF Of
      <4>2. Cardinality(Of(v, unacked)) \in Nat
        BY <1>2, FS_CardinalityType
      <4>3. Cardinality(Of(v, unacked) \cup {d}) <= Cardinality(Of(v, unacked)) + 1
        <5> DEFINE S == Of(v, unacked)
        <5>1. Cardinality(S \cup {d}) = IF d \in S THEN Cardinality(S) ELSE Cardinality(S) + 1
          BY <1>2, FS_AddElement
        <5> HIDE DEF S
        <5>2. QED BY <4>2, <5>1 DEF S
      <4>4. Cardinality(Of(v, unacked) \cup {d}) \in Nat
        BY <1>2, FS_AddElement, FS_CardinalityType
      <4>5. Cardinality(Of(v, unacked) \cup {d}) <= Prefetch
        BY <2>1, <4>2, <4>3, <4>4, PrefetchAssumption
      <4>6. QED BY <3>2, <4>1, <4>5
    <3>3. QED BY <3>1, <3>2
  <2>4. QED BY <1>1, <2>2, <2>3, HeldByClient DEF PrefetchInv
<1>5. QED BY <1>3, <1>4, StepAdds

(* ClientsKeepTrack: for any prefetch, number of workers and losses, the   *)
(* worker counts its callbacks, completes the drain only when none is in   *)
(* flight, and answers each delivery or still holds it (ClientInv).        *)
THEOREM ClientsKeepTrack == Spec => []ClientInv
<1>1. Init => PrefetchInv
  <2> SUFFICES ASSUME Init PROVE PrefetchInv
    OBVIOUS
  <2>1. ready \cup delayed = {} /\ \A w \in Workers : Of(w, unacked) = {}
    BY DEF Init, Of
  <2>2. \A w \in Workers : Cardinality(Of(w, unacked)) <= Prefetch
    BY <2>1, FS_EmptySet, PrefetchAssumption
  <2>3. unacked = {} /\ buffer = {}
    BY DEF Init
  <2>4. QED BY <2>1, <2>2, <2>3, FS_EmptySet DEF PrefetchInv
<1>2. DeliveryInv /\ PrefetchInv /\ [Next]_vars => PrefetchInv'
  BY PrefetchStep DEF DeliveryInv
<1>3. QED BY <1>1, <1>2, DeliveryInvariant, DrainInvariant, PTL DEF Spec, ClientInv

-----------------------------------------------------------------------------
(* The refinement of TaskQueue. *)

(* Whatever the broker, a client or a callback holds was published. *)
OnlyPublished ==
    /\ \A c \in Queued \cup dlq : c.task \in published
    /\ \A d \in buffer : d.copy.task \in published
    /\ \A h \in handlers : h.d.copy.task \in published

LEMMA PublishedGrows == [Next]_vars => published \subseteq published'
<1> SUFFICES ASSUME [Next]_vars PROVE published \subseteq published'
  OBVIOUS
<1>1. ASSUME NEW h \in handlers, HandlerStep(h) PROVE published' = published
  BY <1>1 DEF HandlerStep, ProcessSucceeds, ProcessFails, AckSuccess, AckSuccessThrows,
     ScheduleRetry, AckScheduled, RejectMessage, FailureHandlingThrows, RequeueFailed,
     CompleteMessageProcessing, SignalDrained, broker
<1>2. ASSUME NEW w \in Workers, \/ Break(w) \/ Notice(w) \/ Recover(w)
                                \/ Start(w) \/ StartFails(w) \/ Crash(w)
                                \/ RequestShutdown(w) \/ CancelConsumer(w) \/ StopConsuming(w)
      PROVE  published' = published
  BY <1>2 DEF Break, Notice, Recover, Start, StartFails, Crash, RequestShutdown,
     CancelConsumer, StopConsuming, broker
<1>3. ASSUME NEW d \in buffer, DiscardStale(d) \/ BeginProcessing(d) \/ RefuseDelivery(d)
      PROVE  published' = published
  BY <1>3 DEF DiscardStale, BeginProcessing, RefuseDelivery, broker
<1>4. CASE \/ \E t \in Tasks : Publish(t)
           \/ \E c \in delayed : DelayElapsed(c)
           \/ \E w \in Workers, c \in ready : Deliver(w, c)
           \/ UNCHANGED vars
  BY <1>4 DEF Publish, DelayElapsed, Deliver, vars, broker
<1>5. QED BY <1>1, <1>2, <1>3, <1>4 DEF Next

(* The steps that only move copies about. *)
LEMMA RequeueSame ==
    ASSUME NEW D, Requeue(D), delayed' = delayed
    PROVE  Queued' = Queued
BY DEF Requeue, Queued, Copies

LEMMA QuietSteps ==
    ASSUME TypeOK, [Next]_vars
    PROVE  \/ UNCHANGED <<published, done, dlq>> /\ Queued' = Queued
           \/ \E t \in Tasks : Publish(t)
           \/ \E h \in handlers : \/ ProcessSucceeds(h) \/ AckSuccess(h) \/ ScheduleRetry(h)
                                  \/ AckScheduled(h) \/ RejectMessage(h)
<1> DEFINE Quiet == UNCHANGED <<published, done, dlq>> /\ Queued' = Queued
<1>1. ASSUME UNCHANGED <<broker, done>> PROVE Quiet
  BY <1>1 DEF broker, Queued
<1>2. ASSUME NEW h \in handlers,
             \/ (\E kind \in Kinds : ProcessFails(h, kind)) \/ AckSuccessThrows(h)
             \/ FailureHandlingThrows(h) \/ CompleteMessageProcessing(h) \/ SignalDrained(h)
      PROVE  Quiet
  BY <1>1, <1>2 DEF ProcessFails, AckSuccessThrows, FailureHandlingThrows,
     CompleteMessageProcessing, SignalDrained, history, broker
<1>3. ASSUME NEW h \in handlers, RequeueFailed(h) PROVE Quiet
  BY <1>3, RequeueSame DEF RequeueFailed, history
<1>4. ASSUME NEW w \in Workers, Break(w) \/ Crash(w) \/ StopConsuming(w) PROVE Quiet
  BY <1>4, RequeueSame DEF Break, Crash, StopConsuming, history
<1>5. ASSUME NEW w \in Workers, \/ Notice(w) \/ Recover(w) \/ Start(w) \/ StartFails(w)
                                \/ RequestShutdown(w) \/ CancelConsumer(w)
      PROVE  Quiet
  BY <1>1, <1>5 DEF Notice, Recover, Start, StartFails, RequestShutdown, CancelConsumer, history, broker
<1>6. ASSUME NEW d \in buffer, DiscardStale(d) \/ BeginProcessing(d) PROVE Quiet
  BY <1>1, <1>6 DEF DiscardStale, BeginProcessing, history, broker
<1>7. ASSUME NEW d \in buffer, RefuseDelivery(d) PROVE Quiet
  BY <1>7, RequeueSame DEF RefuseDelivery, history
<1>8. ASSUME NEW c \in delayed, DelayElapsed(c) PROVE Quiet
  BY <1>8 DEF DelayElapsed, Queued, history
<1>9. ASSUME NEW w \in Workers, NEW c \in ready, Deliver(w, c) PROVE Quiet
  <2>1. /\ ready' = ready \ {c} /\ UNCHANGED <<delayed, dlq, published, done>>
        /\ unacked' = unacked \cup {[copy |-> c, w |-> w, inc |-> inc[w]]}
    BY <1>9 DEF Deliver, history
  <2>2. Copies(unacked)' = Copies(unacked) \cup {c}
    <3> DEFINE d == [copy |-> c, w |-> w, inc |-> inc[w]]
    <3>1. d.copy = c
      OBVIOUS
    <3> HIDE DEF d
    <3>2. QED BY <2>1, <3>1 DEF Copies, d
  <2>3. QED BY <2>1, <2>2 DEF Queued
<1>10. CASE UNCHANGED vars
  BY <1>1, <1>10 DEF vars, history
<1>11. QED
  BY <1>2, <1>3, <1>4, <1>5, <1>6, <1>7, <1>8, <1>9, <1>10 DEF Next, HandlerStep

LEMMA OnlyPublishedStep == TypeOK /\ OnlyPublished /\ [Next]_vars => OnlyPublished'
<1> SUFFICES ASSUME TypeOK, OnlyPublished, [Next]_vars PROVE OnlyPublished'
  OBVIOUS
<1>1. published \subseteq published'
  BY PublishedGrows
<1>2. \A c \in (Queued \cup dlq)' : c.task \in published'
  <2>1. CASE UNCHANGED dlq /\ Queued' = Queued
    BY <1>1, <2>1 DEF OnlyPublished
  <2>2. ASSUME NEW t \in Tasks, Publish(t) PROVE \A c \in (Queued \cup dlq)' : c.task \in published'
    BY <1>1, <2>2 DEF OnlyPublished, Publish, Queued
  <2>3. ASSUME NEW h \in handlers, \/ ProcessSucceeds(h) \/ AckSuccess(h)
                                   \/ AckScheduled(h) \/ RejectMessage(h)
        PROVE  \A c \in (Queued \cup dlq)' : c.task \in published'
    <3>1. Queued' \subseteq Queued /\ dlq' \subseteq dlq \cup {h.d.copy}
      BY <2>3 DEF ProcessSucceeds, AckSuccess, AckScheduled, RejectMessage, Queued, Copies, broker
    <3>2. QED BY <1>1, <3>1 DEF OnlyPublished
  <2>4. ASSUME NEW h \in handlers, ScheduleRetry(h)
        PROVE  \A c \in (Queued \cup dlq)' : c.task \in published'
    <3>1. /\ UNCHANGED <<ready, dlq, unacked>>
          /\ \/ delayed' = delayed
             \/ \E c : c.task = h.d.copy.task /\ delayed' = delayed \cup {c}
      BY <2>4 DEF ScheduleRetry, IsFresh
    <3>2. QED BY <1>1, <3>1 DEF OnlyPublished, Queued
  <2>5. QED BY <2>1, <2>2, <2>3, <2>4, QuietSteps
<1>3. /\ \A d \in buffer' : d.copy.task \in published'
      /\ \A h \in handlers' : h.d.copy.task \in published'
  <2>1. CASE buffer' \subseteq buffer /\ \A h \in handlers' : h \in handlers
    BY <1>1, <2>1 DEF OnlyPublished
  <2>2. ASSUME NEW h \in handlers, HandlerStep(h)
        PROVE  buffer' = buffer /\ \A g \in handlers' : g \in handlers \/ g.d = h.d
    BY <2>2, CallbackShape
  <2>3. ASSUME NEW w \in Workers, NEW c \in ready, Deliver(w, c)
        PROVE  handlers' = handlers /\ \A d \in buffer' : d \in buffer \/ d.copy = c
    BY <2>3 DEF Deliver
  <2>4. ASSUME NEW d \in buffer, DiscardStale(d) \/ BeginProcessing(d) \/ RefuseDelivery(d)
        PROVE  buffer' \subseteq buffer /\ \A h \in handlers' : h \in handlers \/ h.d = d
    BY <2>4 DEF DiscardStale, BeginProcessing, RefuseDelivery
  <2>5. ASSUME NEW w \in Workers, \/ Break(w) \/ Notice(w) \/ Recover(w)
                                  \/ Start(w) \/ StartFails(w) \/ Crash(w)
                                  \/ RequestShutdown(w) \/ CancelConsumer(w) \/ StopConsuming(w)
        PROVE  buffer' \subseteq buffer /\ \A h \in handlers' : h \in handlers
    BY <2>5 DEF Break, Notice, Recover, Start, StartFails, Crash, RequestShutdown,
       CancelConsumer, StopConsuming, client
  <2>6. CASE \/ \E t \in Tasks : Publish(t)
             \/ \E c \in delayed : DelayElapsed(c)
             \/ UNCHANGED vars
    BY <2>1, <2>6 DEF Publish, DelayElapsed, vars, client
  <2>7. \A c \in ready : c \in Queued
    BY DEF Queued
  <2>8. QED
    BY <1>1, <2>1, <2>2, <2>3, <2>4, <2>5, <2>6, <2>7 DEF Next, OnlyPublished
<1>4. QED BY <1>2, <1>3 DEF OnlyPublished

-----------------------------------------------------------------------------
LEMMA RefinedStep ==
    ASSUME RetryManaged, TypeOK, AckCovered, OnlyPublished, [Next]_vars
    PROVE  [Queue!Next]_(Queue!vars)
<1> USE DEF LiveTasks, DeadTasks
<1>1. ASSUME Queued' = Queued PROVE LiveTasks' = LiveTasks
  BY <1>1 DEF Live
<1>2. ASSUME dlq' = dlq PROVE DeadTasks' = DeadTasks
  BY <1>2 DEF DeadLettered
<1>3. CASE UNCHANGED <<published, done, dlq>> /\ Queued' = Queued
  BY <1>1, <1>2, <1>3 DEF Queue!vars
<1>4. ASSUME NEW t \in Tasks, Publish(t) PROVE Queue!Next
  <2>1. PICK c : c.task = t /\ Queued' = Queued \cup {c}
    BY <1>4 DEF Publish, IsFresh, Queued
  <2>2. LiveTasks' = LiveTasks \cup {t}
    BY <2>1 DEF Live
  <2>3. Queue!Accept(t)
    BY <1>2, <1>4, <2>2 DEF Publish, Queue!Accept, history
  <2>4. QED BY <2>3 DEF Queue!Next
<1>5. ASSUME NEW h \in handlers
      PROVE  h.d.copy.task \in Tasks /\ h.d.copy.task \in published
  BY DEF TypeOK, Handler, Delivery, Copy, OnlyPublished
<1>6. ASSUME NEW h \in handlers, ProcessSucceeds(h) PROVE Queue!Next
  <2>1. Queued' = Queued /\ UNCHANGED <<dlq, published>> /\ done' = done \cup {h.d.copy.task}
    BY <1>6 DEF ProcessSucceeds, Queued, broker
  <2>2. Queue!Process(h.d.copy.task)
    BY <1>1, <1>2, <1>5, <2>1 DEF Queue!Process
  <2>3. QED BY <1>5, <2>2 DEF Queue!Next
<1>7. ASSUME NEW h \in handlers, ScheduleRetry(h) PROVE [Queue!Next]_(Queue!vars)
  <2>1. /\ UNCHANGED <<ready, dlq, unacked, published, done>>
        /\ \/ delayed' = delayed
           \/ \E c : c.task = h.d.copy.task /\ delayed' = delayed \cup {c}
    BY <1>7 DEF ScheduleRetry, IsFresh, history
  <2>2. LiveTasks' \in {LiveTasks, LiveTasks \cup {h.d.copy.task}}
    <3>1. CASE delayed' = delayed
      BY <1>1, <2>1, <3>1 DEF Queued
    <3>2. ASSUME NEW c, c.task = h.d.copy.task, delayed' = delayed \cup {c}
          PROVE  LiveTasks' = LiveTasks \cup {h.d.copy.task}
      <4>1. Queued' = Queued \cup {c}
        BY <2>1, <3>2 DEF Queued
      <4>2. QED BY <1>5, <3>2, <4>1 DEF Live
    <3>3. QED BY <2>1, <3>1, <3>2
  <2>3. UNCHANGED <<published, done, DeadTasks>>
    BY <1>2, <2>1
  <2>4. CASE LiveTasks' = LiveTasks
    BY <2>3, <2>4 DEF Queue!vars
  <2>5. CASE LiveTasks' = LiveTasks \cup {h.d.copy.task}
    <3>1. Queue!Revive(h.d.copy.task)
      BY <1>5, <2>3, <2>5 DEF Queue!Revive
    <3>2. QED BY <1>5, <3>1 DEF Queue!Next
  <2>6. QED BY <2>2, <2>4, <2>5
<1>8. ASSUME NEW h \in handlers, UNCHANGED <<ready, delayed>>, unacked' = unacked \ {h.d}
      PROVE  \/ Queued' = Queued
             \/ /\ h.d \in unacked /\ h.d.copy.task \in LiveTasks
                /\ LiveTasks' \in {LiveTasks, LiveTasks \ {h.d.copy.task}}
  <2>1. \A c \in Queued' : c \in Queued
    BY <1>8 DEF Queued, Copies
  <2>2. \A c \in Queued : c \in Queued' \/ (h.d \in unacked /\ c = h.d.copy)
    BY <1>8 DEF Queued, Copies
  <2>3. h.d \in unacked => h.d.copy \in Queued
    BY DEF Queued, Copies
  <2>4. QED BY <1>5, <2>1, <2>2, <2>3 DEF Live
<1>9. ASSUME NEW h \in handlers, AckSuccess(h) \/ AckScheduled(h)
      PROVE  [Queue!Next]_(Queue!vars)
  <2>1. /\ UNCHANGED <<ready, delayed, dlq, published, done>> /\ unacked' = unacked \ {h.d}
    BY <1>9 DEF AckSuccess, AckScheduled, history
  <2>2. DeadTasks' = DeadTasks
    BY <1>2, <2>1
  <2>3. CASE LiveTasks' = LiveTasks
    BY <2>1, <2>2, <2>3 DEF Queue!vars
  <2>4. CASE /\ h.d \in unacked /\ h.d.copy.task \in LiveTasks
             /\ LiveTasks' = LiveTasks \ {h.d.copy.task} /\ LiveTasks' # LiveTasks
    <3>1. h.d.copy.task \in done \cup DeadTasks
      <4>1. CASE AckSuccess(h)
        BY <4>1 DEF AckSuccess, AckCovered
      <4>2. CASE AckScheduled(h) /\ Settled(h.d.copy.task)
        BY <1>5, <4>2 DEF Settled
      <4>3. ASSUME AckScheduled(h), NEW c \in Queued,
                   c.task = h.d.copy.task, c.attempt > h.d.copy.attempt
            PROVE  FALSE
        <5>1. c # h.d.copy
          <6>1. c \in Copy
            BY DeliveriesTyped DEF TypeOK, Queued
          <6>2. QED BY <4>3, <6>1 DEF Copy
        <5>2. c \in Queued'
          BY <2>1, <5>1 DEF Queued, Copies
        <5>3. QED BY <1>5, <2>4, <4>3, <5>2 DEF Live
      <4>4. QED BY <1>9, <2>4, <4>1, <4>2, <4>3 DEF AckCovered, AckScheduled
    <3>2. Queue!Retire(h.d.copy.task)
      BY <2>1, <2>2, <2>4, <3>1 DEF Queue!Retire
    <3>3. QED BY <1>5, <3>2 DEF Queue!Next
  <2>5. QED BY <1>1, <1>8, <2>1, <2>3, <2>4
<1>10. ASSUME NEW h \in handlers, RejectMessage(h) PROVE [Queue!Next]_(Queue!vars)
  <2>1. /\ UNCHANGED <<ready, delayed, published, done>> /\ unacked' = unacked \ {h.d}
        /\ dlq' = dlq \cup Copies({h.d} \cap unacked)
    BY <1>10 DEF RejectMessage, history
  <2>2. CASE h.d \notin unacked
    <3>1. dlq' = dlq /\ unacked' = unacked
      BY <2>1, <2>2 DEF Copies
    <3>2. QED BY <1>3, <2>1, <3>1 DEF Queued
  <2>3. CASE h.d \in unacked
    <3>1. dlq' = dlq \cup {h.d.copy}
      BY <2>1, <2>3 DEF Copies
    <3>2. DeadTasks' = DeadTasks \cup {h.d.copy.task}
      BY <1>5, <3>1 DEF DeadLettered
    <3>3. h.d.copy.task \in LiveTasks
      BY <1>5, <2>3 DEF Live, Queued, Copies
    <3>4. LiveTasks' \in {LiveTasks, LiveTasks \ {h.d.copy.task}}
      BY <1>1, <1>8, <2>1
    <3>5. Queue!DeadLetter(h.d.copy.task)
      BY <2>1, <3>2, <3>3, <3>4 DEF Queue!DeadLetter
    <3>6. QED BY <1>5, <3>5 DEF Queue!Next
  <2>4. QED BY <2>2, <2>3
<1>11. QED
  BY <1>3, <1>4, <1>6, <1>7, <1>9, <1>10, QuietSteps

(* QueueImplementsTaskQueue: on a queue with a dead letter exchange every  *)
(* behaviour of SingleConsumerWorker, RabbitMQ and their failures is one   *)
(* of the abstract queue: a task is accepted once, and leaves the queue    *)
(* only processed or dead-lettered.                                        *)
THEOREM QueueImplementsTaskQueue == ASSUME RetryManaged PROVE Spec => ImplementsTaskQueue
<1>1. Init => Queue!Init /\ OnlyPublished
  BY DEF Init, Queue!Init, LiveTasks, DeadTasks, Live, DeadLettered, Queued, Copies, OnlyPublished
<1>2. DeliveryInv /\ OnlyPublished /\ [Next]_vars => OnlyPublished' /\ [Queue!Next]_(Queue!vars)
  BY OnlyPublishedStep, RefinedStep DEF DeliveryInv
<1>3. QED BY <1>1, <1>2, DeliveryInvariant, PTL DEF Spec, ImplementsTaskQueue, Queue!Spec
=============================================================================

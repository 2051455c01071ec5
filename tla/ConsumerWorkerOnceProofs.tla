----------------------- MODULE ConsumerWorkerOnceProofs -----------------------
(***************************************************************************)
(* As long as nothing has failed below the callbacks of SingleConsumerWorker *)
(* a task has one leading copy, and the copies it has been retried from    *)
(* only wait for their ack: it is processed at most once per attempt, and  *)
(* never again after a success. Whatever fails, each attempt is paid for:  *)
(* once by its copy, and once for each delivery a fault gave back.         *)
(***************************************************************************)
EXTENDS ConsumerWorkerProofs

Open(h) == h.pc \notin Answered

(* The callback of c has scheduled the retry and has yet to answer for c. *)
Superseded(c) == \E h \in handlers : h.pc = "ackRetry" /\ h.d.copy = c
Acking(c) == \E h \in handlers : h.pc = "ack" /\ h.d.copy = c

(* No channel is lost, so that all the clients hold is unanswered. *)
Undisturbed ==
    /\ faults = 0
    /\ \A w \in Workers : channel[w] \in {"open", "none"}
    /\ buffer \subseteq unacked
    /\ \A h \in handlers : h.pc # "nack" /\ (Open(h) => h.d \in unacked)

OneLeads ==
    \A b, c \in Queued \cup dlq :
        b.task = c.task /\ ~Superseded(b) /\ ~Superseded(c) => b = c

DoneLeavesNone ==
    /\ done \subseteq published
    /\ \A c \in Queued \cup dlq : c.task \in done => Superseded(c) \/ Acking(c)

Calm == faults = 0 => Undisturbed /\ OneLeads /\ DoneLeavesNone

-----------------------------------------------------------------------------
(* A copy that is delivered has one callback, and is nowhere else.         *)
LEMMA Alone ==
    ASSUME TypeOK, OnePlace, OneCallback, Undisturbed
    PROVE  /\ \A g, h \in handlers : Open(g) /\ Open(h) /\ g.d.copy = h.d.copy => g = h
           /\ \A h \in handlers : Open(h) => h.d.copy \in Queued \ (ready \cup delayed \cup dlq)
BY DEF OnePlace, OneCallback, Undisturbed, Queued, Copies

(* The steps that are left when nothing fails. *)
CalmHandlerStep(h) ==
    \/ ProcessSucceeds(h) \/ (\E kind \in Kinds : ProcessFails(h, kind))
    \/ AckSuccess(h) \/ ScheduleRetry(h) \/ AckScheduled(h) \/ RejectMessage(h)
    \/ CompleteMessageProcessing(h) \/ SignalDrained(h)

CalmStep ==
    \/ \E t \in Tasks : Publish(t)
    \/ \E c \in delayed : DelayElapsed(c)
    \/ \E w \in Workers, c \in ready : Deliver(w, c)
    \/ \E d \in buffer : BeginProcessing(d) \/ RefuseDelivery(d)
    \/ \E h \in handlers : CalmHandlerStep(h)
    \/ \E w \in Workers : Start(w) \/ RequestShutdown(w) \/ CancelConsumer(w) \/ StopConsuming(w)
    \/ UNCHANGED vars

LEMMA OnlyCalmSteps ==
    ASSUME TypeOK, UnackedCurrent, Calm, [Next]_vars, faults' = 0
    PROVE  faults = 0 /\ CalmStep
<1>1. faults \in Nat
  BY DEF TypeOK
<1>2. ~Fault
  BY <1>1 DEF Fault
<1>3. faults = 0
  <2>1. ASSUME NEW h \in handlers, HandlerStep(h) PROVE faults' = faults
    BY <1>2, <2>1 DEF HandlerStep, ProcessSucceeds, ProcessFails, AckSuccess, AckSuccessThrows,
       ScheduleRetry, AckScheduled, RejectMessage, FailureHandlingThrows, RequeueFailed,
       CompleteMessageProcessing, SignalDrained
  <2>2. ASSUME NEW w \in Workers, \/ Break(w) \/ Notice(w) \/ Recover(w)
                                  \/ Start(w) \/ StartFails(w) \/ Crash(w)
                                  \/ RequestShutdown(w) \/ CancelConsumer(w) \/ StopConsuming(w)
        PROVE  faults' = faults
    BY <1>2, <2>2 DEF Break, Notice, Recover, Start, StartFails, Crash, RequestShutdown,
       CancelConsumer, StopConsuming
  <2>3. ASSUME NEW d \in buffer, DiscardStale(d) \/ BeginProcessing(d) \/ RefuseDelivery(d)
        PROVE  faults' = faults
    BY <2>3 DEF DiscardStale, BeginProcessing, RefuseDelivery
  <2>4. CASE \/ \E t \in Tasks : Publish(t)
             \/ \E c \in delayed : DelayElapsed(c)
             \/ \E w \in Workers, c \in ready : Deliver(w, c)
             \/ UNCHANGED vars
    BY <2>4 DEF Publish, DelayElapsed, Deliver, vars
  <2>5. QED BY <2>1, <2>2, <2>3, <2>4 DEF Next
<1>4. Undisturbed
  BY <1>3 DEF Calm
<1>5. ASSUME NEW w \in Workers PROVE ~(Break(w) \/ Notice(w) \/ Recover(w) \/ StartFails(w) \/ Crash(w))
  BY <1>2, <1>4 DEF Break, Notice, Recover, StartFails, Crash, Undisturbed
<1>6. ASSUME NEW d \in buffer PROVE ~DiscardStale(d)
  BY <1>4 DEF DiscardStale, Undisturbed
<1>7. ASSUME NEW h \in handlers
      PROVE  ~(AckSuccessThrows(h) \/ FailureHandlingThrows(h) \/ RequeueFailed(h))
  <2>1. Open(h) => Usable(h)
    BY <1>4 DEF Undisturbed, UnackedCurrent, Usable
  <2>2. QED
    BY <1>2, <1>4, <2>1 DEF AckSuccessThrows, FailureHandlingThrows, RequeueFailed,
       Undisturbed, Open, Answered, Kinds
<1>8. QED BY <1>3, <1>5, <1>6, <1>7 DEF Next, HandlerStep, CalmHandlerStep, CalmStep

(* What a callback holds, and where it goes. *)
LEMMA UndisturbedStep ==
    ASSUME DeliveryInv, DrainInv, Calm, [Next]_vars, faults' = 0
    PROVE  Undisturbed'
<1> USE DEF DeliveryInv
<1>1. Undisturbed /\ CalmStep
  BY OnlyCalmSteps DEF Calm
<1>2. CASE UNCHANGED <<channel, buffer, handlers, unacked>>
  BY <1>1, <1>2 DEF Undisturbed, Open
<1>3. CASE (\E t \in Tasks : Publish(t)) \/ (\E c \in delayed : DelayElapsed(c)) \/ UNCHANGED vars
  BY <1>2, <1>3 DEF Publish, DelayElapsed, vars, client, broker
<1>4. ASSUME NEW w \in Workers, NEW c \in ready, Deliver(w, c) PROVE Undisturbed'
  BY <1>1, <1>4 DEF Deliver, Undisturbed, Open
<1>5. ASSUME NEW d \in buffer, BeginProcessing(d) PROVE Undisturbed'
  BY <1>1, <1>5 DEF BeginProcessing, Undisturbed, Open, Answered, broker
<1>6. ASSUME NEW d \in buffer, RefuseDelivery(d) PROVE Undisturbed'
  <2>1. /\ unacked' = unacked \ {d} /\ buffer' = buffer \ {d}
        /\ UNCHANGED <<channel, handlers, faults>>
    BY <1>6 DEF RefuseDelivery, Requeue
  <2>2. \A h \in handlers : h.d # d
    BY <1>6 DEF RefuseDelivery, DispatcherFree
  <2>3. QED BY <1>1, <2>1, <2>2 DEF Undisturbed, Open
<1>7. ASSUME NEW h \in handlers, CalmHandlerStep(h) PROVE Undisturbed'
  <2>1. HandlerStep(h)
    BY <1>7 DEF CalmHandlerStep, HandlerStep
  <2>2. UNCHANGED <<buffer, channel>>
    BY <2>1, CallbackShape
  <2>3. \A g \in handlers' : g \in handlers \/ (g.d = h.d /\ g.pc # "nack")
    BY <1>7 DEF CalmHandlerStep, ProcessSucceeds, ProcessFails, AckSuccess, ScheduleRetry,
       AckScheduled, RejectMessage, CompleteMessageProcessing, SignalDrained, MoveTo, Kinds
  <2>4. CASE unacked' = unacked
    <3>1. \A g \in handlers' : g \in handlers \/ ((Open(g) => Open(h)) /\ g.d = h.d)
      BY <2>1, <2>3, CallbackShape DEF Open
    <3>2. QED BY <1>1, <2>2, <2>3, <2>4, <3>1 DEF Undisturbed, Open
  <2>5. CASE /\ Open(h) /\ unacked' = unacked \ {h.d}
             /\ handlers' = (handlers \ {h}) \cup {[d |-> h.d, pc |-> "finally"]}
    <3>1. h.d \notin buffer
      BY <1>1, <2>5 DEF HeldIsUnacked, UnackedCurrent, Undisturbed, Open
    <3>2. \A g \in handlers' : Open(g) => g \in handlers /\ g.d # h.d
      BY <2>5 DEF OneCallback, Open, Answered
    <3>3. QED BY <1>1, <2>2, <2>3, <2>5, <3>1, <3>2 DEF Undisturbed, Open
  <2>6. QED BY <2>1, <2>4, <2>5, CallbackShape DEF Open
<1>8. ASSUME NEW w \in Workers, Start(w) \/ RequestShutdown(w) \/ CancelConsumer(w) PROVE Undisturbed'
  BY <1>1, <1>8 DEF Start, RequestShutdown, CancelConsumer, Undisturbed, Open, client, broker, TypeOK
<1>9. ASSUME NEW w \in Workers, StopConsuming(w) PROVE Undisturbed'
  <2>1. InFlight(w) = {}
    <3>1. Cardinality(InFlight(w)) = 0
      BY <1>9 DEF DrainInv, CounterExact, StopConsuming
    <3>2. IsFiniteSet(InFlight(w))
      BY FS_Subset DEF DrainInv, InFlight
    <3>3. QED BY <3>1, <3>2, FS_EmptySet
  <2>2. \A h \in handlers : Open(h) => h.d.w # w
    BY <2>1 DEF InFlight, Open, Answered
  <2>3. /\ unacked' = unacked \ Of(w, unacked) /\ buffer' = buffer \ Of(w, buffer)
        /\ handlers' = handlers /\ channel' = [channel EXCEPT ![w] = "none"]
    BY <1>9 DEF StopConsuming, Requeue
  <2>4. QED BY <1>1, <2>2, <2>3 DEF Undisturbed, Of, Open, TypeOK
<1>10. QED BY <1>1, <1>3, <1>4, <1>5, <1>6, <1>7, <1>8, <1>9 DEF CalmStep

(* The callback of a copy moves from one point to another. *)
LEMMA Moves ==
    ASSUME TypeOK, OnePlace, OneCallback, Undisturbed,
           NEW h \in handlers, Open(h), NEW p,
           handlers' = (handlers \ {h}) \cup {[d |-> h.d, pc |-> p]}
    PROVE  /\ \A c : c # h.d.copy => /\ Superseded(c)' <=> Superseded(c)
                                     /\ Acking(c)' <=> Acking(c)
           /\ Superseded(h.d.copy)' <=> p = "ackRetry"
           /\ Acking(h.d.copy)' <=> p = "ack"
           /\ Superseded(h.d.copy) <=> h.pc = "ackRetry"
           /\ Acking(h.d.copy) <=> h.pc = "ack"
<1> DEFINE g == [d |-> h.d, pc |-> p]
<1>1. g.d = h.d /\ g.pc = p
  OBVIOUS
<1>2. handlers' = (handlers \ {h}) \cup {g}
  OBVIOUS
<1>3. \A f \in handlers : Open(f) /\ f.d.copy = h.d.copy => f = h
  BY Alone
<1>4. \A f : f.pc \in {"ack", "ackRetry"} => Open(f)
  BY DEF Open, Answered
<1> HIDE DEF g
<1>5. \A c : c # h.d.copy => /\ Superseded(c)' <=> Superseded(c)
                             /\ Acking(c)' <=> Acking(c)
  BY <1>1, <1>2 DEF Superseded, Acking, Open
<1>6. /\ Superseded(h.d.copy)' <=> p = "ackRetry"
      /\ Acking(h.d.copy)' <=> p = "ack"
  BY <1>1, <1>2, <1>3, <1>4 DEF Superseded, Acking, Open
<1>7. /\ Superseded(h.d.copy) <=> h.pc = "ackRetry"
      /\ Acking(h.d.copy) <=> h.pc = "ack"
  BY <1>3, <1>4 DEF Superseded, Acking
<1>8. QED BY <1>5, <1>6, <1>7

CalmFacts == OneLeads /\ DoneLeavesNone

(* Steps that leave the copies and what their callbacks owe as they are.   *)
LEMMA SameFacts ==
    ASSUME CalmFacts, Queued' = Queued, UNCHANGED <<dlq, done, published>>,
           \A c : /\ Superseded(c)' <=> Superseded(c)
                  /\ Acking(c)' <=> Acking(c)
    PROVE  CalmFacts'
BY DEF CalmFacts, OneLeads, DoneLeavesNone

(* Steps after which a copy is in the dead letter queue or gone.           *)
LEMMA LeaveFacts ==
    ASSUME CalmFacts, NEW x, Queued' \subseteq Queued \ {x}, dlq' \subseteq dlq \cup {x},
           x \in Queued, UNCHANGED <<done, published>>,
           x \in dlq' => ~Superseded(x) /\ ~Acking(x),
           \A c : c # x => /\ Superseded(c)' <=> Superseded(c)
                           /\ Acking(c)' <=> Acking(c)
    PROVE  CalmFacts'
<1>1. \A c \in (Queued \cup dlq)' :
        /\ c \in Queued \cup dlq
        /\ ~Superseded(c)' => ~Superseded(c)
  OBVIOUS
<1>2. OneLeads'
  BY <1>1 DEF CalmFacts, OneLeads
<1>3. DoneLeavesNone'
  BY <1>1 DEF CalmFacts, DoneLeavesNone
<1>4. QED BY <1>2, <1>3 DEF CalmFacts

(* Publish and PublishRetryAsync: the new copy c takes the lead.           *)
LEMMA NewLeader ==
    ASSUME TypeOK, CalmFacts, NEW c, c \notin Queued \cup dlq, Queued' = Queued \cup {c},
           UNCHANGED <<dlq, done>>, published' = published \cup {c.task},
           c.task \notin done,
           \A b \in Queued \cup dlq : /\ Superseded(b) => Superseded(b)'
                                      /\ Acking(b)' <=> Acking(b)
                                      /\ b.task = c.task => Superseded(b)'
    PROVE  CalmFacts'
<1>1. OneLeads'
  BY DEF CalmFacts, OneLeads
<1>2. DoneLeavesNone'
  BY DEF CalmFacts, DoneLeavesNone
<1>3. QED BY <1>1, <1>2 DEF CalmFacts

-----------------------------------------------------------------------------
(* The steps, from one state of a worker that nothing has disturbed.       *)
Steady ==
    /\ DeliveryInv /\ OnlyPublished /\ Undisturbed /\ CalmFacts

LEMMA SteadyFacts ==
    ASSUME Steady
    PROVE  /\ TypeOK /\ OnePlace /\ OneCallback /\ Undisturbed /\ CalmFacts
           /\ \A g, h \in handlers : Open(g) /\ Open(h) /\ g.d.copy = h.d.copy => g = h
           /\ \A h \in handlers : Open(h) =>
                /\ h.d \in unacked /\ h.d.copy \in Queued
                /\ h.d.copy \notin ready \cup delayed \cup dlq
           /\ \A c : c \notin Queued => ~Superseded(c) /\ ~Acking(c)
           /\ \A c \in Queued \cup dlq :
                c.task \in Tasks /\ c.attempt \in Nat /\ c.task \in published
<1>1. TypeOK /\ OnePlace /\ OneCallback /\ Undisturbed /\ CalmFacts
  BY DEF Steady, DeliveryInv
<1>2. \A h \in handlers : Open(h) =>
        /\ h.d \in unacked /\ h.d.copy \in Queued
        /\ h.d.copy \notin ready \cup delayed \cup dlq
  BY <1>1, Alone DEF Undisturbed
<1>3. \A c : c \notin Queued => ~Superseded(c) /\ ~Acking(c)
  BY <1>2 DEF Superseded, Acking, Open, Answered
<1>4. Queued \cup dlq \subseteq Copy
  BY <1>1, DeliveriesTyped DEF TypeOK, Queued
<1>5. QED BY <1>1, <1>2, <1>3, <1>4, Alone DEF Copy, Steady, OnlyPublished

LEMMA BeginFacts ==
    ASSUME Steady, NEW d \in buffer, BeginProcessing(d)
    PROVE  CalmFacts'
<1> DEFINE x == d.copy
           g == [d |-> d, pc |-> "processing"]
<1>1. g.d = d /\ g.pc = "processing"
  OBVIOUS
<1>2. /\ \A h \in handlers : h.pc # "signal" => h \in handlers'
      /\ g \in handlers'
      /\ \A h \in handlers' : h \in handlers \/ h = g
  BY DEF BeginProcessing
<1>3. /\ d \in unacked /\ x \in Queued /\ x.task \in Tasks /\ x.attempt \in Nat
      /\ x.task \in published
  <2>1. d \in unacked
    BY SteadyFacts DEF Undisturbed
  <2>2. x \in Queued
    BY <2>1 DEF Queued, Copies
  <2>3. QED BY <2>1, <2>2, SteadyFacts
<1>4. \A h \in handlers : Open(h) => h.d.copy # x
  <2>1. \A h \in handlers : Open(h) /\ h.d.copy = x => h.d = d
    BY <1>3, SteadyFacts DEF OnePlace
  <2>2. QED BY <2>1 DEF BeginProcessing, DispatcherFree
<1> HIDE DEF g
<1>5. \A c : /\ Superseded(c)' <=> Superseded(c)
             /\ Acking(c)' <=> Acking(c)
  BY <1>1, <1>2 DEF Superseded, Acking, Open, Answered
<1>7. Queued' = Queued /\ UNCHANGED <<dlq, done, published>>
  BY DEF BeginProcessing, broker, Queued
<1>8. OneLeads' /\ DoneLeavesNone'
  BY <1>5, <1>7, SteadyFacts DEF CalmFacts, OneLeads, DoneLeavesNone
<1>9. QED BY <1>8 DEF CalmFacts

LEMMA PublishFacts ==
    ASSUME Steady, NEW t \in Tasks, Publish(t)
    PROVE  CalmFacts'
<1>1. PICK c : /\ c.task = t /\ c.attempt = 0 /\ c \notin Queued \cup dlq
               /\ Queued' = Queued \cup {c}
  BY DEF Publish, IsFresh, Queued
<1>2. /\ UNCHANGED <<dlq, done, handlers>> /\ published' = published \cup {t}
      /\ t \notin published
  BY DEF Publish, history, client
<1>3. /\ c.task \notin done
      /\ \A b \in Queued \cup dlq : b.task # c.task
  BY <1>1, <1>2, SteadyFacts DEF CalmFacts, DoneLeavesNone
<1>4. \A b : /\ Superseded(b)' <=> Superseded(b)
             /\ Acking(b)' <=> Acking(b)
  BY <1>2 DEF Superseded, Acking
<1>5. QED BY <1>1, <1>2, <1>3, <1>4, SteadyFacts, NewLeader

LEMMA RetryFacts ==
    ASSUME Steady, NEW h \in handlers, ScheduleRetry(h)
    PROVE  CalmFacts'
<1> DEFINE x == h.d.copy
<1>1. Open(h) /\ h.pc = "transient" /\ x.attempt < MaxRetries
  BY DEF ScheduleRetry, CanScheduleRetry, Open, Answered
<1>2. x \in Queued /\ x.task \in Tasks /\ x.attempt \in Nat /\ x.task \in published /\ h.d \in unacked
  BY <1>1, SteadyFacts
<1>3. channel[h.d.w] = "open"
  BY <1>2 DEF Steady, DeliveryInv, UnackedCurrent
<1>4. PICK c : /\ c.task = x.task /\ c.attempt = x.attempt + 1 /\ c \notin Queued \cup dlq
               /\ Queued' = Queued \cup {c}
  BY <1>3 DEF ScheduleRetry, IsFresh, Queued
<1>5. UNCHANGED <<dlq, done, published>>
      /\ handlers' = (handlers \ {h}) \cup {[d |-> h.d, pc |-> "ackRetry"]}
  BY DEF ScheduleRetry, history, MoveTo
<1>6. /\ \A b : b # x => /\ Superseded(b)' <=> Superseded(b)
                         /\ Acking(b)' <=> Acking(b)
      /\ Superseded(x)' /\ ~Superseded(x) /\ ~Acking(x)' /\ ~Acking(x)
  BY <1>1, <1>5, SteadyFacts, Moves DEF Answered
<1> HIDE DEF x
<1>7. x.task \notin done
  BY <1>2, <1>6, SteadyFacts DEF CalmFacts, DoneLeavesNone
<1>9. \A b \in Queued \cup dlq : b.task = c.task => Superseded(b)'
  BY <1>2, <1>4, <1>6, SteadyFacts DEF CalmFacts, OneLeads
<1>12. published' = published \cup {c.task}
  BY <1>2, <1>4, <1>5
<1>13. \A b \in Queued \cup dlq : /\ Superseded(b) => Superseded(b)'
                                  /\ Acking(b)' <=> Acking(b)
                                  /\ b.task = c.task => Superseded(b)'
  BY <1>6, <1>9
<1>14. c.task \notin done
  BY <1>4, <1>7
<1>15. QED
  BY <1>4, <1>5, <1>12, <1>13, <1>14, SteadyFacts, NewLeader

LEMMA SuccessFacts ==
    ASSUME Steady, NEW h \in handlers, ProcessSucceeds(h)
    PROVE  CalmFacts'
<1> DEFINE x == h.d.copy
<1>1. Open(h) /\ h.pc = "processing"
  BY DEF ProcessSucceeds, Open, Answered
<1>2. x \in Queued /\ x.task \in published
  BY <1>1, SteadyFacts
<1>3. /\ Queued' = Queued /\ UNCHANGED <<dlq, published>> /\ done' = done \cup {x.task}
      /\ handlers' = (handlers \ {h}) \cup {[d |-> h.d, pc |-> "ack"]}
  BY DEF ProcessSucceeds, broker, Queued, MoveTo
<1>4. /\ \A b : b # x => /\ Superseded(b)' <=> Superseded(b)
                         /\ Acking(b)' <=> Acking(b)
      /\ ~Superseded(x)' /\ ~Superseded(x) /\ Acking(x)'
  BY <1>1, <1>3, SteadyFacts, Moves DEF Answered
<1> HIDE DEF x
<1>5. OneLeads'
  BY <1>3, <1>4, SteadyFacts DEF CalmFacts, OneLeads
<1>6. DoneLeavesNone'
  BY <1>2, <1>3, <1>4, SteadyFacts DEF CalmFacts, OneLeads, DoneLeavesNone
<1>7. QED BY <1>5, <1>6 DEF CalmFacts

LEMMA AnswerFacts ==
    ASSUME Steady, NEW h \in handlers, AckSuccess(h) \/ AckScheduled(h) \/ RejectMessage(h)
    PROVE  CalmFacts'
<1> DEFINE x == h.d.copy
<1>1. Open(h)
  BY DEF AckSuccess, AckScheduled, RejectMessage, Open, Answered, Kinds
<1>2. x \in Queued /\ h.d \in unacked /\ x \notin ready \cup delayed \cup dlq
  BY <1>1, SteadyFacts
<1>3. /\ UNCHANGED <<ready, delayed, done, published>> /\ unacked' = unacked \ {h.d}
      /\ handlers' = (handlers \ {h}) \cup {[d |-> h.d, pc |-> "finally"]}
  BY DEF AckSuccess, AckScheduled, RejectMessage, history, MoveTo
<1>4. Queued' \subseteq Queued \ {x}
  BY <1>2, <1>3, SteadyFacts DEF OnePlace, Queued, Copies
<1>5. \A b : b # x => /\ Superseded(b)' <=> Superseded(b)
                      /\ Acking(b)' <=> Acking(b)
  BY <1>1, <1>3, SteadyFacts, Moves
<1>6. CASE AckSuccess(h) \/ AckScheduled(h)
  <2>1. dlq' = dlq
    BY <1>6 DEF AckSuccess, AckScheduled
  <2>2. QED BY <1>2, <1>3, <1>4, <1>5, <2>1, SteadyFacts, LeaveFacts
<1>7. CASE RejectMessage(h)
  <2>1. dlq' \subseteq dlq \cup {x}
    BY <1>7 DEF RejectMessage, Copies
  <2>2. ~Superseded(x) /\ ~Acking(x)
    <3>1. h.pc # "ack" /\ h.pc # "ackRetry"
      BY <1>7 DEF RejectMessage, Kinds
    <3>2. QED BY <1>1, <1>3, <3>1, SteadyFacts, Moves
  <2>3. QED BY <1>2, <1>3, <1>4, <1>5, <2>1, <2>2, SteadyFacts, LeaveFacts
<1>8. QED BY <1>6, <1>7

(* The steps that leave the copies and the answers owed as they are.       *)
SameAnswers(c) ==
    /\ Superseded(c)' <=> Superseded(c)
    /\ Acking(c)' <=> Acking(c)

OtherStep ==
    \/ \E c \in delayed : DelayElapsed(c)
    \/ \E w \in Workers, c \in ready : Deliver(w, c)
    \/ \E d \in buffer : RefuseDelivery(d)
    \/ \E h \in handlers : \/ \E kind \in Kinds : ProcessFails(h, kind)
                           \/ CompleteMessageProcessing(h) \/ SignalDrained(h)
    \/ \E w \in Workers : Start(w) \/ RequestShutdown(w) \/ CancelConsumer(w) \/ StopConsuming(w)
    \/ UNCHANGED vars

LEMMA OtherSame ==
    ASSUME Steady, OtherStep
    PROVE  /\ Queued' = Queued /\ UNCHANGED <<dlq, done, published>>
           /\ \A c : SameAnswers(c)
<1>1. UNCHANGED <<dlq, done, published>>
  BY DEF DelayElapsed, Deliver, RefuseDelivery, ProcessFails, CompleteMessageProcessing,
     SignalDrained, Start, RequestShutdown, CancelConsumer, StopConsuming, vars, broker, history, OtherStep
<1>2. Queued' = Queued
  <2>1. ASSUME NEW c \in delayed, DelayElapsed(c) PROVE Queued' = Queued
    BY <2>1 DEF DelayElapsed, Queued
  <2>2. ASSUME NEW w \in Workers, NEW c \in ready, Deliver(w, c) PROVE Queued' = Queued
    <3> DEFINE d == [copy |-> c, w |-> w, inc |-> inc[w]]
    <3>1. d.copy = c
      OBVIOUS
    <3>2. ready' = ready \ {c} /\ delayed' = delayed /\ unacked' = unacked \cup {d}
      BY <2>2 DEF Deliver
    <3> HIDE DEF d
    <3>3. QED BY <3>1, <3>2 DEF Queued, Copies
  <2>3. CASE (\E d \in buffer : RefuseDelivery(d)) \/ \E w \in Workers : StopConsuming(w)
    BY <2>3, RequeueSame DEF RefuseDelivery, StopConsuming
  <2>4. CASE \/ \E h \in handlers : \/ \E kind \in Kinds : ProcessFails(h, kind)
                                    \/ CompleteMessageProcessing(h) \/ SignalDrained(h)
             \/ \E w \in Workers : Start(w) \/ RequestShutdown(w) \/ CancelConsumer(w)
             \/ UNCHANGED vars
    BY <2>4 DEF ProcessFails, CompleteMessageProcessing, SignalDrained, Start, RequestShutdown,
       CancelConsumer, vars, broker, Queued
  <2>5. QED BY <2>1, <2>2, <2>3, <2>4 DEF OtherStep
<1>3. ASSUME \A g \in handlers : Open(g) => g \in handlers',
             \A g \in handlers' : Open(g) => g \in handlers
      PROVE  \A c : SameAnswers(c)
  BY <1>3 DEF SameAnswers, Superseded, Acking, Open, Answered
<1>4. ASSUME NEW h \in handlers, NEW kind \in Kinds, ProcessFails(h, kind)
      PROVE  \A c : SameAnswers(c)
  <2>1. /\ Open(h) /\ h.pc = "processing" /\ kind \notin {"ack", "ackRetry"} \cup Answered
        /\ handlers' = (handlers \ {h}) \cup {[d |-> h.d, pc |-> kind]}
    BY <1>4 DEF ProcessFails, Open, Answered, Kinds, MoveTo
  <2>2. /\ \A c : c # h.d.copy => SameAnswers(c)
        /\ Superseded(h.d.copy)' <=> kind = "ackRetry"
        /\ Acking(h.d.copy)' <=> kind = "ack"
        /\ Superseded(h.d.copy) <=> h.pc = "ackRetry"
        /\ Acking(h.d.copy) <=> h.pc = "ack"
    BY <2>1, SteadyFacts, Moves DEF SameAnswers
  <2>3. QED BY <2>1, <2>2 DEF SameAnswers
<1>5. ASSUME NEW h \in handlers, CompleteMessageProcessing(h) \/ SignalDrained(h)
      PROVE  \A c : SameAnswers(c)
  <2>1. ~Open(h)
    BY <1>5 DEF CompleteMessageProcessing, SignalDrained, Open, Answered
  <2>2. \A g \in handlers' : g \in handlers \/ g.pc = "signal"
    BY <1>5 DEF CompleteMessageProcessing, SignalDrained, MoveTo
  <2>3. \A g \in handlers : g # h => g \in handlers'
    BY <1>5 DEF CompleteMessageProcessing, SignalDrained, MoveTo
  <2>4. QED BY <1>3, <2>1, <2>2, <2>3 DEF Open, Answered
<1>6. CASE \/ \E c \in delayed : DelayElapsed(c)
           \/ \E w \in Workers, c \in ready : Deliver(w, c)
           \/ \E d \in buffer : RefuseDelivery(d)
           \/ \E w \in Workers : Start(w) \/ RequestShutdown(w) \/ CancelConsumer(w) \/ StopConsuming(w)
           \/ UNCHANGED vars
  <2>1. handlers' = handlers
    BY <1>6 DEF DelayElapsed, Deliver, RefuseDelivery, Start, RequestShutdown, CancelConsumer,
       StopConsuming, vars, client
  <2>2. \A c : SameAnswers(c)
    BY <2>1 DEF SameAnswers, Superseded, Acking
  <2>3. QED BY <1>1, <1>2, <2>2
<1>7. QED BY <1>1, <1>2, <1>4, <1>5, <1>6 DEF OtherStep

LEMMA OtherFacts ==
    ASSUME Steady, OtherStep
    PROVE  CalmFacts'
BY SteadyFacts, OtherSame, SameFacts DEF SameAnswers

LEMMA CalmStepKept ==
    ASSUME DeliveryInv, DrainInv, OnlyPublished, Calm, [Next]_vars
    PROVE  Calm'
<1> SUFFICES ASSUME faults' = 0 PROVE Undisturbed' /\ CalmFacts'
  BY DEF Calm, CalmFacts
<1>1. Undisturbed'
  BY UndisturbedStep
<1>2. faults = 0 /\ CalmStep
  BY OnlyCalmSteps DEF DeliveryInv
<1>3. Steady
  BY <1>2 DEF Steady, Calm, CalmFacts
<1>4. CalmFacts'
  BY <1>2, <1>3, PublishFacts, BeginFacts, SuccessFacts, AnswerFacts, RetryFacts, OtherFacts
     DEF CalmStep, CalmHandlerStep, OtherStep
<1>5. QED BY <1>1, <1>4

LEMMA AlwaysCalm == Spec => [](Calm /\ OnlyPublished /\ DeliveryInv)
<1>1. Init => Calm /\ OnlyPublished
  BY RetriesAssumption DEF Init, Calm, Undisturbed, OneLeads, DoneLeavesNone, Queued,
     Copies, OnlyPublished
<1>2. DeliveryInv /\ DrainInv /\ OnlyPublished /\ Calm /\ [Next]_vars => Calm' /\ OnlyPublished'
  BY CalmStepKept, OnlyPublishedStep DEF DeliveryInv
<1>3. QED BY <1>1, <1>2, DeliveryInvariant, DrainInvariant, PTL DEF Spec

-----------------------------------------------------------------------------
(* NeverTwiceWithoutFaults: graceful shutdowns, refusals and retries never *)
(* process a notification again that was processed, for any number of      *)
(* workers; a duplicate needs a lost connection, a crash or a              *)
(* configuration that cannot be read.                                      *)
THEOREM NeverTwiceWithoutFaults == Spec => []OnceWithoutFaults
<1>1. ASSUME Calm, OnlyPublished, DeliveryInv PROVE OnceWithoutFaults
  <2> SUFFICES ASSUME faults = 0, NEW t \in done
               PROVE  /\ \A c \in ready \cup delayed \cup dlq : c.task # t
                      /\ \A h \in handlers : h.d.copy.task = t =>
                           h.pc \notin {"processing", "nack"} \cup Kinds
    BY DEF OnceWithoutFaults
  <2>1. Steady
    BY <1>1 DEF Steady, Calm, CalmFacts
  <2>2. \A c \in Queued \cup dlq : c.task = t => Superseded(c) \/ Acking(c)
    BY <2>1, SteadyFacts DEF CalmFacts, DoneLeavesNone
  <2>3. \A c \in ready \cup delayed \cup dlq : ~Superseded(c) /\ ~Acking(c)
    BY <2>1, SteadyFacts DEF Superseded, Acking, Open, Answered
  <2>4. ASSUME NEW h \in handlers, h.d.copy.task = t, h.pc \in {"processing", "nack"} \cup Kinds
        PROVE  FALSE
    <3>1. Open(h) /\ h.pc \notin {"ack", "ackRetry"}
      BY <2>4 DEF Open, Answered, Kinds
    <3>2. Superseded(h.d.copy) \/ Acking(h.d.copy)
      BY <2>1, <2>2, <2>4, <3>1, SteadyFacts
    <3>3. PICK g \in handlers : g.pc \in {"ack", "ackRetry"} /\ g.d.copy = h.d.copy
      BY <3>2 DEF Superseded, Acking
    <3>4. Open(g)
      BY <3>3 DEF Open, Answered
    <3>5. QED BY <2>1, <3>1, <3>3, <3>4, SteadyFacts
  <2>5. QED BY <2>2, <2>3, <2>4 DEF Queued
<1>2. QED BY <1>1, AlwaysCalm, PTL

-----------------------------------------------------------------------------
(* How often something can still happen: a count of what waits in the      *)
(* queue, of what the clients hold, and of callbacks.                      *)

(* T has at most i elements more than S. *)
Change(S, T, i) ==
    \/ i = 0 /\ (T \subseteq S \/ \E a \in S : \E b : T \subseteq (S \ {a}) \cup {b})
    \/ i = 1 /\ \E b : T \subseteq S \cup {b}
    \/ i = -1 /\ \E a \in S : T \subseteq S \ {a}

LEMMA ChangeCounted ==
    ASSUME NEW S, IsFiniteSet(S), NEW T, NEW i, Change(S, T, i)
    PROVE  /\ i \in Int /\ Cardinality(S) \in Nat /\ Cardinality(T) \in Nat
           /\ Cardinality(T) <= Cardinality(S) + i
<1>1. Cardinality(S) \in Nat
  BY FS_CardinalityType
<1>2. CASE i = 0 /\ T \subseteq S
  BY <1>1, <1>2, FS_Subset, FS_CardinalityType
<1>3. ASSUME NEW b, i = 1, T \subseteq S \cup {b}
      PROVE  Cardinality(T) \in Nat /\ Cardinality(T) <= Cardinality(S) + 1
  <2>1. /\ IsFiniteSet(S \cup {b}) /\ Cardinality(S \cup {b}) \in Nat
        /\ Cardinality(S \cup {b}) <= Cardinality(S) + 1
    BY <1>1, FS_AddElement
  <2>2. Cardinality(T) \in Nat /\ Cardinality(T) <= Cardinality(S \cup {b})
    BY <1>3, <2>1, FS_Subset, FS_CardinalityType
  <2>3. QED BY <1>1, <2>1, <2>2
<1>4. ASSUME NEW a \in S, i = -1, T \subseteq S \ {a}
      PROVE  Cardinality(T) \in Nat /\ Cardinality(T) <= Cardinality(S) - 1
  <2>1. /\ IsFiniteSet(S \ {a}) /\ Cardinality(S \ {a}) \in Nat
        /\ Cardinality(S \ {a}) = Cardinality(S) - 1
    BY FS_RemoveElement, FS_CardinalityType
  <2>2. Cardinality(T) \in Nat /\ Cardinality(T) <= Cardinality(S \ {a})
    BY <1>4, <2>1, FS_Subset, FS_CardinalityType
  <2>3. QED BY <1>1, <2>1, <2>2
<1>5. ASSUME NEW a \in S, NEW b, T \subseteq (S \ {a}) \cup {b}
      PROVE  Cardinality(T) \in Nat /\ Cardinality(T) <= Cardinality(S)
  <2>1. /\ IsFiniteSet(S \ {a}) /\ Cardinality(S \ {a}) \in Nat
        /\ Cardinality(S \ {a}) = Cardinality(S) - 1
    BY FS_RemoveElement, FS_CardinalityType
  <2>2. /\ IsFiniteSet((S \ {a}) \cup {b}) /\ Cardinality((S \ {a}) \cup {b}) \in Nat
        /\ Cardinality((S \ {a}) \cup {b}) <= Cardinality(S)
    <3> DEFINE R == S \ {a}
    <3>1. IsFiniteSet(R) /\ Cardinality(R) \in Nat /\ Cardinality(R) = Cardinality(S) - 1
      BY <2>1
    <3> HIDE DEF R
    <3>2. /\ IsFiniteSet(R \cup {b})
          /\ Cardinality(R \cup {b}) = Cardinality(R) \/ Cardinality(R \cup {b}) = Cardinality(R) + 1
      BY <3>1, FS_AddElement
    <3>3. Cardinality(R \cup {b}) \in Nat /\ Cardinality(R \cup {b}) <= Cardinality(S)
      BY <1>1, <3>1, <3>2
    <3>4. QED BY <3>2, <3>3 DEF R
  <2>3. Cardinality(T) \in Nat /\ Cardinality(T) <= Cardinality((S \ {a}) \cup {b})
    BY <1>5, <2>2, FS_Subset, FS_CardinalityType
  <2>4. QED BY <1>1, <2>2, <2>3
<1>6. QED BY <1>1, <1>2, <1>3, <1>4, <1>5 DEF Change

Total(W, B, S) == Cardinality(W) + Cardinality(B) + Cardinality(S)

LEMMA TotalChanged ==
    ASSUME NEW W, NEW B, NEW S, IsFiniteSet(W), IsFiniteSet(B), IsFiniteSet(S),
           NEW W2, NEW B2, NEW S2, NEW i, NEW j, NEW k,
           Change(W, W2, i), Change(B, B2, j), Change(S, S2, k)
    PROVE  /\ Total(W, B, S) \in Nat /\ Total(W2, B2, S2) \in Nat
           /\ Total(W2, B2, S2) <= Total(W, B, S) + (i + j + k)
<1>1. /\ i \in Int /\ Cardinality(W) \in Nat /\ Cardinality(W2) \in Nat
      /\ Cardinality(W2) <= Cardinality(W) + i
  BY ChangeCounted
<1>2. /\ j \in Int /\ Cardinality(B) \in Nat /\ Cardinality(B2) \in Nat
      /\ Cardinality(B2) <= Cardinality(B) + j
  BY ChangeCounted
<1>3. /\ k \in Int /\ Cardinality(S) \in Nat /\ Cardinality(S2) \in Nat
      /\ Cardinality(S2) <= Cardinality(S) + k
  BY ChangeCounted
<1>4. QED BY <1>1, <1>2, <1>3 DEF Total

(* The deliveries D of a client return to the queue, and may be held still. *)
LEMMA TotalRequeued ==
    ASSUME NEW W, NEW B, NEW S, IsFiniteSet(W), IsFiniteSet(B), IsFiniteSet(S),
           NEW W2, NEW B2 \in SUBSET B, NEW S2 \in SUBSET S,
           NEW D, IsFiniteSet(D), Cardinality(D) <= Prefetch, W2 \subseteq W \cup Copies(D)
    PROVE  /\ Total(W, B, S) \in Nat /\ Total(W2, B2, S2) \in Nat
           /\ Total(W2, B2, S2) <= Total(W, B, S) + Prefetch
<1> DEFINE X == Copies(D)
<1>1. /\ IsFiniteSet(X) /\ Cardinality(X) \in Nat /\ Cardinality(D) \in Nat
      /\ Cardinality(X) <= Cardinality(D)
  BY CopiesCounted, FS_CardinalityType
<1> HIDE DEF X
<1>2. /\ IsFiniteSet(W \cup X) /\ Cardinality(W \cup X) \in Nat /\ Cardinality(W) \in Nat
      /\ Cardinality(W \cup X) <= Cardinality(W) + Cardinality(X)
  <2>1. IsFiniteSet(W \cup X) /\ IsFiniteSet(W \cap X)
    BY <1>1, FS_Union, FS_Subset
  <2>2. Cardinality(W \cup X) = Cardinality(W) + Cardinality(X) - Cardinality(W \cap X)
    BY <1>1, FS_Union
  <2>3. Cardinality(W \cup X) \in Nat /\ Cardinality(W \cap X) \in Nat /\ Cardinality(W) \in Nat
    BY <2>1, FS_CardinalityType
  <2>4. QED BY <1>1, <2>1, <2>2, <2>3
<1>3. Cardinality(W2) \in Nat /\ Cardinality(W2) <= Cardinality(W \cup X)
  BY <1>2, FS_Subset, FS_CardinalityType DEF X
<1>4. /\ Cardinality(B2) \in Nat /\ Cardinality(B2) <= Cardinality(B)
      /\ Cardinality(S2) \in Nat /\ Cardinality(S2) <= Cardinality(S)
      /\ Cardinality(B) \in Nat /\ Cardinality(S) \in Nat
  BY FS_Subset, FS_CardinalityType
<1>5. QED BY <1>1, <1>2, <1>3, <1>4, PrefetchAssumption DEF Total

(* A client gives up the deliveries D, of which U return to the queue.     *)
LEMMA TotalReturned ==
    ASSUME NEW W, NEW B, NEW S, IsFiniteSet(W), IsFiniteSet(B), IsFiniteSet(S),
           NEW D \in SUBSET B, NEW U \in SUBSET D,
           NEW W2, NEW B2, NEW S2 \in SUBSET S, W2 \subseteq W \cup Copies(U), B2 \subseteq B \ D
    PROVE  Total(W2, B2, S2) <= Total(W, B, S)
<1>1. /\ IsFiniteSet(D) /\ Cardinality(D) \in Nat /\ IsFiniteSet(Copies(U))
      /\ Cardinality(Copies(U)) \in Nat /\ Cardinality(Copies(U)) <= Cardinality(D)
  <2>1. IsFiniteSet(D)
    BY FS_Subset
  <2>2. IsFiniteSet(U) /\ Cardinality(U) <= Cardinality(D)
    BY <2>1, FS_Subset
  <2>3. IsFiniteSet(Copies(U)) /\ Cardinality(Copies(U)) <= Cardinality(U)
    BY <2>2, CopiesCounted
  <2>4. Cardinality(D) \in Nat /\ Cardinality(U) \in Nat /\ Cardinality(Copies(U)) \in Nat
    BY <2>1, <2>2, <2>3, FS_CardinalityType
  <2>5. QED BY <2>1, <2>2, <2>3, <2>4
<1>2. /\ Cardinality(W2) \in Nat /\ Cardinality(W) \in Nat
      /\ Cardinality(W2) <= Cardinality(W) + Cardinality(D)
  <2> DEFINE X == Copies(U)
  <2>1. IsFiniteSet(W \cup X) /\ IsFiniteSet(W \cap X)
    BY <1>1, FS_Union, FS_Subset
  <2>2. Cardinality(W \cup X) = Cardinality(W) + Cardinality(X) - Cardinality(W \cap X)
    BY <1>1, FS_Union
  <2>3. Cardinality(W \cup X) \in Nat /\ Cardinality(W \cap X) \in Nat /\ Cardinality(W) \in Nat
    BY <2>1, FS_CardinalityType
  <2>4. Cardinality(W2) \in Nat /\ Cardinality(W2) <= Cardinality(W \cup X)
    BY <2>1, FS_Subset, FS_CardinalityType
  <2> HIDE DEF X
  <2>5. QED BY <1>1, <2>2, <2>3, <2>4 DEF X
<1>3. /\ Cardinality(B2) \in Nat /\ Cardinality(B) \in Nat
      /\ Cardinality(B2) <= Cardinality(B) - Cardinality(D)
  <2>1. IsFiniteSet(B \ D) /\ (B \ D) \cup D = B /\ (B \ D) \cap D = {}
    BY FS_Subset
  <2>2. Cardinality(B) = Cardinality(B \ D) + Cardinality(D) - 0
    BY <1>1, <2>1, FS_Union, FS_EmptySet
  <2>3. Cardinality(B \ D) \in Nat /\ Cardinality(B) \in Nat
    BY <2>1, FS_CardinalityType
  <2>4. Cardinality(B2) \in Nat /\ Cardinality(B2) <= Cardinality(B \ D)
    BY <2>1, FS_Subset, FS_CardinalityType
  <2>5. QED BY <1>1, <2>2, <2>3, <2>4
<1>4. Cardinality(S2) \in Nat /\ Cardinality(S) \in Nat /\ Cardinality(S2) <= Cardinality(S)
  BY FS_Subset, FS_CardinalityType
<1>5. QED BY <1>1, <1>2, <1>3, <1>4 DEF Total

(* The chances of copies K of one task: every copy of K that waits, every  *)
(* delivery of one that is not dispatched, every callback of R, and every  *)
(* callback that will return a copy of K to the queue.                     *)
Waiting(K) == (ready \cup delayed) \cap K
Buffered(K) == {d \in buffer : d.copy \in K}
Able(K, R) ==
    {h \in handlers : h \in R \/ (h.pc = "nack" /\ h.d \in unacked /\ h.d.copy \in K)}
Chances(K, R) == Total(Waiting(K), Buffered(K), Able(K, R))

ClientsInv == DeliveryInv /\ DrainInv /\ PrefetchInv

LEMMA FiniteChances ==
    ASSUME ClientsInv, NEW K, NEW R
    PROVE  IsFiniteSet(Waiting(K)) /\ IsFiniteSet(Buffered(K)) /\ IsFiniteSet(Able(K, R))
BY FS_Subset DEF ClientsInv, DrainInv, PrefetchInv, Waiting, Buffered, Able

Shifts(K, R, i, j, k) ==
    /\ Change(Waiting(K), Waiting(K)', i) /\ Change(Buffered(K), Buffered(K)', j)
    /\ Change(Able(K, R), Able(K, R)', k)

LEMMA Shift ==
    ASSUME ClientsInv, NEW K, NEW R, NEW i, NEW j, NEW k, Shifts(K, R, i, j, k)
    PROVE  /\ Chances(K, R) \in Nat /\ Chances(K, R)' \in Nat
           /\ Chances(K, R)' <= Chances(K, R) + (i + j + k)
<1> DEFINE W == Waiting(K)
           B == Buffered(K)
           S == Able(K, R)
<1>1. IsFiniteSet(W) /\ IsFiniteSet(B) /\ IsFiniteSet(S)
  BY FiniteChances
<1>2. Change(W, W', i) /\ Change(B, B', j) /\ Change(S, S', k)
  BY DEF Shifts
<1> HIDE DEF W, B, S
<1>3. /\ Total(W, B, S) \in Nat /\ Total(W', B', S') \in Nat
      /\ Total(W', B', S') <= Total(W, B, S) + (i + j + k)
  BY <1>1, <1>2, TotalChanged
<1>4. QED BY <1>3 DEF Chances, Total, W, B, S

(* K are copies of task t; a callback of R has not answered yet, and each  *)
(* one whose retry copy can be in K is in R.                               *)
ChanceClass(t, K, R) ==
    /\ \A c \in K : c.task = t
    /\ \A h \in R : h.pc \in {"processing", "transient"}
    /\ \A h \in handlers, c \in K :
         h.pc = "transient" /\ c.task = h.d.copy.task /\ c.attempt = h.d.copy.attempt + 1 => h \in R

(* What a step may do to the number n of chances of copies of task t.      *)
Dearer(t, n, next) ==
    \/ next <= n
    \/ next <= n + 1 /\ t \notin published /\ t \in published'
    \/ next <= n + Prefetch /\ faults' = faults + 1

(* The steps around ProcessMessageAsync. *)
AroundStep ==
    \/ \E t \in Tasks : Publish(t)
    \/ \E c \in delayed : DelayElapsed(c)
    \/ \E w \in Workers, c \in ready : Deliver(w, c)
    \/ \E d \in buffer : DiscardStale(d) \/ RefuseDelivery(d)
    \/ \E h \in handlers :
         \/ AckSuccess(h) \/ AckSuccessThrows(h) \/ ScheduleRetry(h) \/ AckScheduled(h)
         \/ RejectMessage(h) \/ FailureHandlingThrows(h) \/ RequeueFailed(h)
         \/ CompleteMessageProcessing(h) \/ SignalDrained(h)
    \/ \E w \in Workers :
         \/ Break(w) \/ Notice(w) \/ Recover(w) \/ Start(w) \/ StartFails(w)
         \/ RequestShutdown(w) \/ CancelConsumer(w) \/ StopConsuming(w)

(* A callback that moves on to its answer has no chance left.              *)
LEMMA AbleLeft ==
    ASSUME NEW t, NEW K, NEW R, ChanceClass(t, K, R), NEW h \in handlers, NEW p, MoveTo(h, p),
           p \notin {"transient", "nack", "processing"}, unacked' \subseteq unacked
    PROVE  Able(K, R)' \subseteq Able(K, R) \ {h}
<1>1. ASSUME NEW g \in Able(K, R)' PROVE g \in handlers /\ g # h
  BY <1>1 DEF Able, MoveTo, ChanceClass
<1>2. QED BY <1>1 DEF Able

LEMMA ChancesRequeued ==
    ASSUME ClientsInv, NEW t, NEW K, NEW R, NEW w \in Workers, faults' = faults + 1,
           delayed' = delayed, Requeue(Of(w, unacked)),
           buffer' \subseteq buffer, handlers' \subseteq handlers
    PROVE  Dearer(t, Chances(K, R), Chances(K, R)')
<1> DEFINE D == Of(w, unacked)
<1>1. IsFiniteSet(D) /\ Cardinality(D) <= Prefetch
  BY FS_Subset DEF ClientsInv, PrefetchInv, Of
<1>2. Waiting(K)' \subseteq Waiting(K) \cup Copies(D)
  BY DEF Requeue, Of, Copies, Waiting
<1>3. Buffered(K)' \subseteq Buffered(K) /\ Able(K, R)' \subseteq Able(K, R)
  BY DEF Buffered, Able, Requeue
<1> HIDE DEF D
<1>4. Total(Waiting(K)', Buffered(K)', Able(K, R)')
        <= Total(Waiting(K), Buffered(K), Able(K, R)) + Prefetch
  BY <1>1, <1>2, <1>3, FiniteChances, TotalRequeued
<1>5. QED BY <1>4 DEF Dearer, Chances, Total

LEMMA ChancesAround ==
    ASSUME ClientsInv, NEW t, NEW K, NEW R, ChanceClass(t, K, R), AroundStep
    PROVE  Dearer(t, Chances(K, R), Chances(K, R)')
<1> USE DEF ClientsInv, DeliveryInv
<1>1. ASSUME Waiting(K)' \subseteq Waiting(K), Buffered(K)' \subseteq Buffered(K),
             Able(K, R)' \subseteq Able(K, R)
      PROVE  Dearer(t, Chances(K, R), Chances(K, R)')
  <2>1. Shifts(K, R, 0, 0, 0)
    BY <1>1 DEF Shifts, Change
  <2>2. QED BY <2>1, Shift DEF Dearer
<1>2. ASSUME handlers' = handlers, unacked' \subseteq unacked PROVE Able(K, R)' \subseteq Able(K, R)
  BY <1>2 DEF Able
<1>3. ASSUME NEW s \in Tasks, Publish(s) PROVE Dearer(t, Chances(K, R), Chances(K, R)')
  <2>1. PICK c : ready' = ready \cup {c} /\ c.task = s
    <3>1. PICK n \in Forks : ready' = ready \cup {[task |-> s, attempt |-> 0, n |-> n]}
      BY <1>3 DEF Publish
    <3>2. [task |-> s, attempt |-> 0, n |-> n].task = s
      OBVIOUS
    <3>3. QED BY <3>1, <3>2
  <2>2. /\ UNCHANGED <<delayed, unacked, buffer, handlers>> /\ s \notin published
        /\ published' = published \cup {s}
    BY <1>3 DEF Publish, client
  <2>3. Buffered(K)' \subseteq Buffered(K) /\ Able(K, R)' \subseteq Able(K, R)
    BY <1>2, <2>2 DEF Buffered
  <2>4. CASE c \in K
    <3>1. Change(Waiting(K), Waiting(K)', 1)
      BY <2>1, <2>2 DEF Waiting, Change
    <3>2. Shifts(K, R, 1, 0, 0)
      BY <2>3, <3>1 DEF Shifts, Change
    <3>3. s = t
      BY <2>1, <2>4 DEF ChanceClass
    <3>4. QED BY <2>2, <3>2, <3>3, Shift DEF Dearer
  <2>5. CASE c \notin K
    <3>1. Waiting(K)' \subseteq Waiting(K)
      BY <2>1, <2>2, <2>5 DEF Waiting
    <3>2. QED BY <1>1, <2>3, <3>1
  <2>6. QED BY <2>4, <2>5
<1>4. ASSUME NEW c \in delayed, DelayElapsed(c) PROVE Dearer(t, Chances(K, R), Chances(K, R)')
  BY <1>1, <1>2, <1>4 DEF DelayElapsed, client, Waiting, Buffered
<1>5. ASSUME NEW w \in Workers, NEW c \in ready, Deliver(w, c) PROVE Dearer(t, Chances(K, R), Chances(K, R)')
  <2> DEFINE d == [copy |-> c, w |-> w, inc |-> inc[w]]
  <2>1. /\ ready' = ready \ {c} /\ delayed' = delayed /\ handlers' = handlers
        /\ unacked' = unacked \cup {d} /\ buffer' = buffer \cup {d} /\ channel[w] = "open"
        /\ d.copy = c /\ d.w = w /\ d.inc = inc[w]
    BY <1>5 DEF Deliver
  <2> HIDE DEF d
  <2>2. c \notin delayed
    BY DEF OnePlace
  <2>3. ASSUME NEW h \in handlers, h.pc = "nack", h.d = d PROVE h.d \in unacked
    BY <2>1, <2>3 DEF HeldIsUnacked, Answered
  <2>4. Able(K, R)' \subseteq Able(K, R)
    BY <2>1, <2>3 DEF Able
  <2>5. CASE c \in K
    <3>1. Change(Waiting(K), Waiting(K)', -1)
      BY <2>1, <2>2, <2>5 DEF Waiting, Change
    <3>2. Change(Buffered(K), Buffered(K)', 1)
      BY <2>1 DEF Buffered, Change
    <3>3. Shifts(K, R, -1, 1, 0)
      BY <2>4, <3>1, <3>2 DEF Shifts, Change
    <3>4. QED BY <3>3, Shift DEF Dearer
  <2>6. CASE c \notin K
    BY <1>1, <2>1, <2>4, <2>6 DEF Waiting, Buffered
  <2>7. QED BY <2>5, <2>6
<1>6. ASSUME NEW d \in buffer, DiscardStale(d) PROVE Dearer(t, Chances(K, R), Chances(K, R)')
  BY <1>1, <1>2, <1>6 DEF DiscardStale, broker, Waiting, Buffered
<1>7. ASSUME NEW d \in buffer, RefuseDelivery(d) PROVE Dearer(t, Chances(K, R), Chances(K, R)')
  <2>1. /\ buffer' = buffer \ {d} /\ delayed' = delayed /\ handlers' = handlers
        /\ unacked' = unacked \ {d} /\ ready' \subseteq ready \cup {d.copy}
    BY <1>7 DEF RefuseDelivery, Requeue, Copies
  <2>2. Able(K, R)' \subseteq Able(K, R)
    BY <1>2, <2>1
  <2>3. CASE d.copy \in K
    <3>1. Change(Buffered(K), Buffered(K)', -1)
      BY <2>1, <2>3 DEF Buffered, Change
    <3>2. Change(Waiting(K), Waiting(K)', 1)
      BY <2>1 DEF Waiting, Change
    <3>3. Shifts(K, R, 1, -1, 0)
      BY <2>2, <3>1, <3>2 DEF Shifts, Change
    <3>4. QED BY <3>3, Shift DEF Dearer
  <2>4. CASE d.copy \notin K
    BY <1>1, <2>1, <2>2, <2>4 DEF Waiting, Buffered
  <2>5. QED BY <2>3, <2>4
<1>8. ASSUME NEW h \in handlers, CompleteMessageProcessing(h) \/ SignalDrained(h) PROVE Dearer(t, Chances(K, R), Chances(K, R)')
  <2>1. UNCHANGED <<ready, delayed, unacked, buffer>>
    BY <1>8 DEF CompleteMessageProcessing, SignalDrained, broker
  <2>2. handlers' = handlers \ {h} \/ MoveTo(h, "signal")
    BY <1>8 DEF CompleteMessageProcessing, SignalDrained
  <2>3. Able(K, R)' \subseteq Able(K, R)
    BY <2>1, <2>2, AbleLeft DEF Able
  <2>4. QED BY <1>1, <2>1, <2>3 DEF Waiting, Buffered
<1>9. ASSUME NEW h \in handlers, \/ AckSuccess(h) \/ AckSuccessThrows(h) \/ AckScheduled(h)
                                 \/ RejectMessage(h)
      PROVE  Dearer(t, Chances(K, R), Chances(K, R)')
  <2>1. UNCHANGED <<ready, delayed, buffer>> /\ unacked' \subseteq unacked
    BY <1>9 DEF AckSuccess, AckSuccessThrows, AckScheduled, RejectMessage, broker
  <2>2. \E p \in {"finally", "permanent"} : MoveTo(h, p)
    BY <1>9 DEF AckSuccess, AckSuccessThrows, AckScheduled, RejectMessage
  <2>3. Able(K, R)' \subseteq Able(K, R)
    BY <2>1, <2>2, AbleLeft
  <2>4. QED BY <1>1, <2>1, <2>3 DEF Waiting, Buffered
<1>10. ASSUME NEW h \in handlers, ScheduleRetry(h) PROVE Dearer(t, Chances(K, R), Chances(K, R)')
  <2>1. UNCHANGED <<ready, unacked, buffer>> /\ h.pc = "transient" /\ MoveTo(h, "ackRetry")
    BY <1>10 DEF ScheduleRetry, CanScheduleRetry
  <2>2. Able(K, R)' \subseteq Able(K, R) \ {h} /\ Buffered(K)' \subseteq Buffered(K)
    BY <2>1, AbleLeft DEF Buffered
  <2>3. CASE delayed' = delayed
    BY <1>1, <2>1, <2>2, <2>3 DEF Waiting
  <2>4. ASSUME NEW c, c.task = h.d.copy.task, c.attempt = h.d.copy.attempt + 1,
               delayed' = delayed \cup {c}
        PROVE  Dearer(t, Chances(K, R), Chances(K, R)')
    <3>1. CASE c \in K
      <4>1. h \in Able(K, R)
        BY <2>1, <2>4, <3>1 DEF Able, ChanceClass
      <4>2. Change(Able(K, R), Able(K, R)', -1)
        BY <2>2, <4>1 DEF Change
      <4>3. Change(Waiting(K), Waiting(K)', 1)
        BY <2>1, <2>4 DEF Waiting, Change
      <4>4. Shifts(K, R, 1, 0, -1)
        BY <2>2, <4>2, <4>3 DEF Shifts, Change
      <4>5. QED BY <4>4, Shift DEF Dearer
    <3>2. CASE c \notin K
      BY <1>1, <2>1, <2>2, <2>4, <3>2 DEF Waiting
    <3>3. QED BY <3>1, <3>2
  <2>5. QED
    <3>1. ASSUME NEW n \in Forks,
                 delayed' = delayed \cup {[task |-> h.d.copy.task, attempt |-> h.d.copy.attempt + 1,
                                           n |-> n]}
          PROVE  Dearer(t, Chances(K, R), Chances(K, R)')
      BY <2>4, <3>1
    <3>2. QED BY <1>10, <2>3, <3>1 DEF ScheduleRetry
<1>11. ASSUME NEW h \in handlers, FailureHandlingThrows(h) PROVE Dearer(t, Chances(K, R), Chances(K, R)')
  <2> DEFINE g == [d |-> h.d, pc |-> "nack"]
  <2>1. UNCHANGED <<ready, delayed, unacked, buffer>> /\ handlers' = (handlers \ {h}) \cup {g}
    BY <1>11 DEF FailureHandlingThrows, broker, MoveTo
  <2>2. Waiting(K)' \subseteq Waiting(K) /\ Buffered(K)' \subseteq Buffered(K)
    BY <2>1 DEF Waiting, Buffered
  <2>3. CASE ~Usable(h)
    <3>1. h.d \notin unacked
      BY <2>3 DEF Usable, UnackedCurrent
    <3>2. Able(K, R)' \subseteq Able(K, R)
      <4>1. g.pc = "nack" /\ g.d = h.d /\ g \notin R
        BY DEF ChanceClass
      <4>2. QED BY <2>1, <3>1, <4>1 DEF Able
    <3>3. QED BY <1>1, <2>2, <3>2
  <2>4. CASE Usable(h) /\ faults' = faults + 1
    <3>1. Change(Able(K, R), Able(K, R)', 1)
      BY <2>1 DEF Able, Change
    <3>2. Chances(K, R)' <= Chances(K, R) + 1 /\ Chances(K, R) \in Nat /\ Chances(K, R)' \in Nat
      <4>1. Shifts(K, R, 0, 0, 1)
        BY <2>2, <3>1 DEF Shifts, Change
      <4>2. QED BY <4>1, Shift
    <3>3. QED BY <2>4, <3>2, PrefetchAssumption DEF Dearer
  <2>5. QED BY <1>11, <2>3, <2>4 DEF FailureHandlingThrows, Fault
<1>12. ASSUME NEW h \in handlers, RequeueFailed(h) PROVE Dearer(t, Chances(K, R), Chances(K, R)')
  <2>1. /\ UNCHANGED <<delayed, buffer>> /\ h.pc = "nack" /\ MoveTo(h, "finally")
        /\ unacked' = unacked \ {h.d} /\ ready' = ready \cup Copies({h.d} \cap unacked)
    BY <1>12 DEF RequeueFailed, Requeue
  <2>2. Able(K, R)' \subseteq Able(K, R) \ {h} /\ Buffered(K)' \subseteq Buffered(K)
    BY <2>1, AbleLeft DEF Buffered
  <2>3. CASE h.d \notin unacked \/ h.d.copy \notin K
    <3>1. Waiting(K)' \subseteq Waiting(K)
      BY <2>1, <2>3 DEF Waiting, Copies
    <3>2. QED BY <1>1, <2>2, <3>1
  <2>4. CASE h.d \in unacked /\ h.d.copy \in K
    <3>1. Change(Able(K, R), Able(K, R)', -1)
      BY <2>1, <2>2, <2>4 DEF Able, Change
    <3>2. ready' \subseteq ready \cup {h.d.copy}
      BY <2>1 DEF Copies
    <3>3. Change(Waiting(K), Waiting(K)', 1)
      BY <2>1, <3>2 DEF Waiting, Change
    <3>4. Shifts(K, R, 1, 0, -1)
      BY <2>2, <3>1, <3>3 DEF Shifts, Change
    <3>5. QED BY <3>4, Shift DEF Dearer
  <2>5. QED BY <2>3, <2>4
<1>13. ASSUME NEW w \in Workers, Break(w) PROVE Dearer(t, Chances(K, R), Chances(K, R)')
  BY <1>13, ChancesRequeued DEF Break, Fault
<1>14. ASSUME NEW w \in Workers, \/ Notice(w) \/ Recover(w) \/ Start(w) \/ StartFails(w)
                                 \/ RequestShutdown(w) \/ CancelConsumer(w)
       PROVE  Dearer(t, Chances(K, R), Chances(K, R)')
  <2>1. UNCHANGED <<ready, delayed, unacked, buffer, handlers>>
    BY <1>14 DEF Notice, Recover, Start, StartFails, RequestShutdown, CancelConsumer, broker, client
  <2>2. QED BY <1>1, <1>2, <2>1 DEF Waiting, Buffered
<1>15. ASSUME NEW w \in Workers, StopConsuming(w) PROVE Dearer(t, Chances(K, R), Chances(K, R)')
  <2>1. /\ Requeue(Of(w, unacked)) /\ buffer' = buffer \ Of(w, buffer)
        /\ UNCHANGED <<delayed, handlers>> /\ drained[w]
    BY <1>15 DEF StopConsuming
  <2>2. Of(w, unacked) \subseteq Of(w, buffer)
    <3>1. InFlight(w) = {}
      <4>1. IsFiniteSet(InFlight(w)) /\ Cardinality(InFlight(w)) = 0
        BY <2>1, FS_Subset DEF DrainInv, CounterExact, InFlight
      <4>2. QED BY <4>1, FS_EmptySet
    <3>2. QED BY <3>1 DEF PrefetchInv, InFlight, Of, Answered
  <2>3. Able(K, R)' \subseteq Able(K, R)
    BY <1>2, <2>1 DEF Requeue
  <2>4. Chances(K, R)' <= Chances(K, R)
    <3> DEFINE D == {d \in Of(w, buffer) : d.copy \in K}
               U == {d \in Of(w, unacked) : d.copy \in K}
    <3>1. Waiting(K)' \subseteq Waiting(K) \cup Copies(U)
      BY <2>1 DEF Requeue, Of, Copies, Waiting
    <3>2. Buffered(K)' \subseteq Buffered(K) \ D /\ D \subseteq Buffered(K)
      BY <2>1 DEF Buffered, Of
    <3>3. U \subseteq D
      BY <2>2 DEF Of
    <3> HIDE DEF D, U
    <3>4. Total(Waiting(K)', Buffered(K)', Able(K, R)') <= Total(Waiting(K), Buffered(K), Able(K, R))
      BY <2>3, <3>1, <3>2, <3>3, FiniteChances, TotalReturned
    <3>5. QED BY <3>4 DEF Chances, Total
  <2>5. QED BY <2>4 DEF Dearer
<1>16. QED
  BY <1>3, <1>4, <1>5, <1>6, <1>7, <1>8, <1>9, <1>10, <1>11, <1>12, <1>13, <1>14, <1>15 DEF AroundStep

(* A publication pays for one, and a fault for Prefetch. *)
Owed(t) == (IF t \in published THEN 1 ELSE 0) + Prefetch * faults

LEMMA FaultsGrow == [Next]_vars => published \subseteq published' /\ faults' \in {faults, faults + 1}
<1> SUFFICES ASSUME [Next]_vars PROVE faults' \in {faults, faults + 1}
  BY PublishedGrows
<1>1. ASSUME NEW h \in handlers, HandlerStep(h) PROVE faults' \in {faults, faults + 1}
  BY <1>1 DEF HandlerStep, ProcessSucceeds, ProcessFails, AckSuccess, AckSuccessThrows, ScheduleRetry,
     AckScheduled, RejectMessage, FailureHandlingThrows, RequeueFailed, CompleteMessageProcessing,
     SignalDrained, Fault
<1>2. ASSUME NEW w \in Workers, \/ Break(w) \/ Notice(w) \/ Recover(w) \/ Start(w) \/ StartFails(w)
                                \/ Crash(w) \/ RequestShutdown(w) \/ CancelConsumer(w)
                                \/ StopConsuming(w)
      PROVE  faults' \in {faults, faults + 1}
  BY <1>2 DEF Break, Notice, Recover, Start, StartFails, Crash, RequestShutdown, CancelConsumer,
     StopConsuming, Fault
<1>3. CASE \/ \E t \in Tasks : Publish(t)
           \/ \E c \in delayed : DelayElapsed(c)
           \/ \E w \in Workers, c \in ready : Deliver(w, c)
           \/ \E d \in buffer : DiscardStale(d) \/ BeginProcessing(d) \/ RefuseDelivery(d)
  BY <1>3 DEF Publish, DelayElapsed, Deliver, DiscardStale, BeginProcessing, RefuseDelivery
<1>4. QED BY <1>1, <1>2, <1>3 DEF Next, vars

(* What has happened m times, with n chances left, stays paid for.         *)
LEMMA StaysPaid ==
    ASSUME faults \in Nat, published \subseteq published', faults' \in {faults, faults + 1},
           NEW t, NEW m \in Nat, NEW n \in Nat, m + n <= Owed(t)
    PROVE  /\ Owed(t) \in Nat
           /\ \A next \in Nat : Dearer(t, n, next) => m + next <= Owed(t)'
           /\ \A m2, next \in Nat :
                \/ m2 + next <= m + n
                \/ m2 + next <= m + n + 1 /\ faults' = faults + 1
                => m2 + next <= Owed(t)'
<1>1. /\ Prefetch * faults \in Nat /\ Prefetch * (faults + 1) = Prefetch * faults + Prefetch
      /\ Prefetch \in Nat /\ Prefetch >= 1
  BY PrefetchAssumption
<1>2. /\ Owed(t) \in Nat /\ Owed(t)' \in Nat /\ Owed(t) <= Owed(t)'
      /\ faults' = faults + 1 => Owed(t) + Prefetch <= Owed(t)'
      /\ t \notin published /\ t \in published' => Owed(t) + 1 <= Owed(t)'
  <2> DEFINE x == Prefetch * faults
             y == Prefetch * faults'
  <2>1. x \in Nat
    BY <1>1
  <2>2. y = x \/ (faults' = faults + 1 /\ y = x + Prefetch)
    BY <1>1
  <2>3. /\ Owed(t) = (IF t \in published THEN 1 ELSE 0) + x
        /\ Owed(t)' = (IF t \in published' THEN 1 ELSE 0) + y
    BY DEF Owed
  <2>4. faults' = faults + 1 => y = x + Prefetch
    BY <1>1
  <2> HIDE DEF x, y
  <2>5. QED BY <2>1, <1>1, <2>2, <2>3, <2>4
<1>3. \A next \in Nat : Dearer(t, n, next) => m + next <= Owed(t)'
  BY <1>1, <1>2 DEF Dearer
<1>4. QED BY <1>1, <1>2, <1>3

-----------------------------------------------------------------------------
(* How often an attempt is started: each copy that can still come to it is *)
(* one chance.                                                             *)
UpTo(t, a) == {c \in Copy : c.task = t /\ c.attempt <= a}
Coming(t, a) ==
    {h \in Handler : h.d.copy.task = t /\ h.d.copy.attempt < a /\ h.pc \in {"processing", "transient"}}
ToCome(t, a) == Chances(UpTo(t, a), Coming(t, a))

TriesPaid == \A t \in Tasks, a \in Attempts : tries[t][a] + ToCome(t, a) <= Owed(t)

LEMMA ComingClass ==
    ASSUME TypeOK, NEW t, NEW a \in Attempts
    PROVE  ChanceClass(t, UpTo(t, a), Coming(t, a))
BY DEF ChanceClass, UpTo, Coming, TypeOK, Handler, Delivery, Copy, Attempts

LEMMA TriesBegin ==
    ASSUME ClientsInv, NEW t \in Tasks, NEW a \in Attempts, NEW d \in buffer, BeginProcessing(d)
    PROVE  tries'[t][a] + ToCome(t, a)' <= tries[t][a] + ToCome(t, a)
<1> DEFINE K == UpTo(t, a)
           R == Coming(t, a)
           g == [d |-> d, pc |-> "processing"]
<1>1. /\ UNCHANGED <<ready, delayed, unacked>> /\ buffer' = buffer \ {d}
      /\ handlers' \subseteq handlers \cup {g} /\ g.d = d /\ g.pc = "processing"
      /\ tries' = [tries EXCEPT ![d.copy.task][d.copy.attempt] = @ + 1]
  BY DEF BeginProcessing, broker
<1>2. /\ tries \in [Tasks -> [Attempts -> Nat]] /\ d.copy \in Copy
      /\ d.copy.task \in Tasks /\ d.copy.attempt \in Nat /\ a \in Nat
  BY DEF ClientsInv, DeliveryInv, TypeOK, Delivery, Copy, Attempts
<1>3. Waiting(K)' \subseteq Waiting(K)
  BY <1>1 DEF Waiting
<1>4. g \notin R => Able(K, R)' \subseteq Able(K, R)
  BY <1>1 DEF Able
<1>5. Able(K, R)' \subseteq Able(K, R) \cup {g}
  BY <1>1 DEF Able
<1>6. tries'[t][a] = IF d.copy.task = t /\ d.copy.attempt = a THEN tries[t][a] + 1 ELSE tries[t][a]
  BY <1>1, <1>2
<1>7. d.copy \in K <=> d.copy.task = t /\ d.copy.attempt <= a
  BY <1>2 DEF UpTo
<1>8. g \in R => d.copy.task = t /\ d.copy.attempt < a
  BY <1>1 DEF Coming
<1>9. ASSUME d.copy \in K PROVE Change(Buffered(K), Buffered(K)', -1)
  BY <1>1, <1>9 DEF Buffered, Change
<1>10. tries[t][a] \in Nat
  BY <1>2
<1> HIDE DEF K, R, g
<1>11. CASE d.copy.task = t /\ d.copy.attempt = a
  <2>1. Shifts(K, R, 0, -1, 0)
    BY <1>2, <1>3, <1>4, <1>7, <1>8, <1>9, <1>11 DEF Shifts, Change
  <2>2. QED BY <1>6, <1>10, <1>11, <2>1, Shift DEF ToCome, K, R
<1>12. CASE d.copy.task = t /\ d.copy.attempt < a
  <2>1. Shifts(K, R, 0, -1, 1)
    BY <1>2, <1>3, <1>5, <1>7, <1>9, <1>12 DEF Shifts, Change
  <2>2. QED BY <1>2, <1>6, <1>10, <1>12, <2>1, Shift DEF ToCome, K, R
<1>13. CASE ~(d.copy.task = t /\ d.copy.attempt <= a)
  <2>1. Shifts(K, R, 0, 0, 0)
    BY <1>1, <1>2, <1>3, <1>4, <1>8, <1>13 DEF Shifts, Change, Buffered
  <2>2. QED BY <1>2, <1>6, <1>10, <1>13, <2>1, Shift DEF ToCome, K, R
<1>14. QED BY <1>2, <1>11, <1>12, <1>13

LEMMA TriesEnd ==
    ASSUME ClientsInv, NEW t \in Tasks, NEW a \in Attempts, NEW h \in handlers,
           ProcessSucceeds(h) \/ \E kind \in Kinds : ProcessFails(h, kind)
    PROVE  ToCome(t, a)' <= ToCome(t, a)
<1> DEFINE K == UpTo(t, a)
           R == Coming(t, a)
<1>1. UNCHANGED <<ready, delayed, unacked, buffer>> /\ h.pc = "processing"
  BY DEF ProcessSucceeds, ProcessFails, broker
<1>2. Waiting(K)' \subseteq Waiting(K) /\ Buffered(K)' \subseteq Buffered(K)
  BY <1>1 DEF Waiting, Buffered
<1>3. ASSUME Change(Able(K, R), Able(K, R)', 0) PROVE ToCome(t, a)' <= ToCome(t, a)
  <2> HIDE DEF K, R
  <2>1. Shifts(K, R, 0, 0, 0)
    BY <1>2, <1>3 DEF Shifts, Change
  <2>2. QED BY <2>1, Shift DEF ToCome, K, R
<1>4. ASSUME NEW p \in {"ack", "permanent"}, MoveTo(h, p) PROVE Change(Able(K, R), Able(K, R)', 0)
  <2>1. ChanceClass(t, K, R)
    BY ComingClass DEF ClientsInv, DeliveryInv
  <2> HIDE DEF K, R
  <2>2. Able(K, R)' \subseteq Able(K, R) \ {h}
    BY <1>1, <1>4, <2>1, AbleLeft
  <2>3. QED BY <2>2 DEF Change
<1>5. ASSUME MoveTo(h, "transient") PROVE Change(Able(K, R), Able(K, R)', 0)
  <2> DEFINE g == [d |-> h.d, pc |-> "transient"]
  <2>1. handlers' = (handlers \ {h}) \cup {g} /\ g.d = h.d /\ g.pc = "transient"
    BY <1>5 DEF MoveTo
  <2>2. g \in R => h \in R
    BY <1>1, <2>1 DEF Coming, ClientsInv, DeliveryInv, TypeOK
  <2> HIDE DEF K, R, g
  <2>3. Able(K, R)' \subseteq (Able(K, R) \ {h}) \cup {g}
    BY <1>1, <2>1 DEF Able
  <2>4. g \notin R => Able(K, R)' \subseteq Able(K, R)
    BY <1>1, <2>1 DEF Able
  <2>5. h \in R => h \in Able(K, R)
    BY DEF Able
  <2>6. QED BY <2>2, <2>3, <2>4, <2>5 DEF Change
<1>6. QED BY <1>3, <1>4, <1>5 DEF ProcessSucceeds, ProcessFails, Kinds

LEMMA TriesPaidStep ==
    ASSUME ClientsInv, ClientsInv', TriesPaid, [Next]_vars
    PROVE  TriesPaid'
<1> SUFFICES ASSUME NEW t \in Tasks, NEW a \in Attempts
             PROVE  tries'[t][a] + ToCome(t, a)' <= Owed(t)'
  BY DEF TriesPaid
<1>1. /\ tries[t][a] \in Nat /\ tries'[t][a] \in Nat /\ faults \in Nat
      /\ ToCome(t, a) \in Nat /\ ToCome(t, a)' \in Nat
  <2> DEFINE K == UpTo(t, a)
             R == Coming(t, a)
  <2>1. IsFiniteSet(Waiting(K)) /\ IsFiniteSet(Buffered(K)) /\ IsFiniteSet(Able(K, R))
    BY FiniteChances
  <2>2. IsFiniteSet(Waiting(K)') /\ IsFiniteSet(Buffered(K)') /\ IsFiniteSet(Able(K, R)')
    BY FS_Subset DEF ClientsInv, DrainInv, PrefetchInv, Waiting, Buffered, Able
  <2>3. ToCome(t, a) \in Nat /\ ToCome(t, a)' \in Nat
    BY <2>1, <2>2, FS_CardinalityType DEF ToCome, Chances, Total
  <2>4. QED BY <2>3 DEF ClientsInv, DeliveryInv, TypeOK
<1>2. tries[t][a] + ToCome(t, a) <= Owed(t)
  BY DEF TriesPaid
<1>3. ASSUME Dearer(t, ToCome(t, a), ToCome(t, a)'), tries' = tries
      PROVE  tries'[t][a] + ToCome(t, a)' <= Owed(t)'
  BY <1>1, <1>2, <1>3, FaultsGrow, StaysPaid
<1>4. ASSUME tries'[t][a] + ToCome(t, a)' <= tries[t][a] + ToCome(t, a)
      PROVE  tries'[t][a] + ToCome(t, a)' <= Owed(t)'
  BY <1>1, <1>2, <1>4, FaultsGrow, StaysPaid
<1>5. CASE AroundStep
  <2>1. tries' = tries
    BY <1>5 DEF AroundStep, Publish, DelayElapsed, Deliver, DiscardStale, RefuseDelivery, AckSuccess,
       AckSuccessThrows, ScheduleRetry, AckScheduled, RejectMessage, FailureHandlingThrows,
       RequeueFailed, CompleteMessageProcessing, SignalDrained, Break, Notice, Recover, Start,
       StartFails, RequestShutdown, CancelConsumer, StopConsuming, history
  <2>2. ChanceClass(t, UpTo(t, a), Coming(t, a))
    BY ComingClass DEF ClientsInv, DeliveryInv
  <2>3. QED BY <1>3, <1>5, <2>1, <2>2, ChancesAround DEF ToCome
<1>6. ASSUME NEW d \in buffer, BeginProcessing(d) PROVE tries'[t][a] + ToCome(t, a)' <= Owed(t)'
  BY <1>4, <1>6, TriesBegin
<1>7. ASSUME NEW h \in handlers, ProcessSucceeds(h) \/ \E kind \in Kinds : ProcessFails(h, kind)
      PROVE  tries'[t][a] + ToCome(t, a)' <= Owed(t)'
  <2>1. tries' = tries
    BY <1>7 DEF ProcessSucceeds, ProcessFails
  <2>2. QED BY <1>1, <1>4, <1>7, <2>1, TriesEnd
<1>8. ASSUME NEW w \in Workers, Crash(w) PROVE tries'[t][a] + ToCome(t, a)' <= Owed(t)'
  <2>1. /\ tries' = tries /\ faults' = faults + 1 /\ delayed' = delayed
        /\ Requeue(Of(w, unacked)) /\ buffer' \subseteq buffer /\ handlers' \subseteq handlers
    BY <1>8 DEF Crash, Fault, history
  <2>2. QED BY <1>3, <2>1, ChancesRequeued DEF ToCome
<1>9. CASE UNCHANGED vars
  <2>1. ToCome(t, a)' = ToCome(t, a) /\ tries' = tries
    BY <1>9 DEF ToCome, Chances, Total, Waiting, Buffered, Able, vars, broker, client, history
  <2>2. QED BY <1>1, <1>4, <2>1
<1>10. QED BY <1>5, <1>6, <1>7, <1>8, <1>9 DEF Next, HandlerStep, AroundStep

(* No copy, wherever it is, has an attempt beyond MaxRetries.              *)
AttemptsKept ==
    /\ \A c \in ready \cup delayed \cup dlq : c.attempt \in Attempts
    /\ \A d \in unacked \cup buffer : d.copy.attempt \in Attempts
    /\ \A h \in handlers : h.d.copy.attempt \in Attempts

LEMMA AttemptsStep ==
    ASSUME TypeOK, AttemptsKept, [Next]_vars
    PROVE  AttemptsKept'
<1> USE DEF AttemptsKept
<1>1. 0 \in Attempts /\ \A a \in Nat : a < MaxRetries => a + 1 \in Attempts
  BY RetriesAssumption DEF Attempts
<1>2. ASSUME NEW D, Requeue(D) PROVE /\ \A c \in ready' : c.attempt \in Attempts
                                     /\ unacked' \subseteq unacked
  BY <1>2 DEF Requeue, Copies
<1>3. ASSUME NEW t \in Tasks, Publish(t) PROVE AttemptsKept'
  <2>1. \A c \in ready' : c \in ready \/ c.attempt = 0
    BY <1>3 DEF Publish
  <2>2. QED BY <1>1, <1>3, <2>1 DEF Publish, client
<1>4. ASSUME NEW c \in delayed, DelayElapsed(c) PROVE AttemptsKept'
  BY <1>4 DEF DelayElapsed, client
<1>5. ASSUME NEW w \in Workers, NEW c \in ready, Deliver(w, c) PROVE AttemptsKept'
  <2>1. \A d \in (unacked \cup buffer)' : d \in unacked \cup buffer \/ d.copy = c
    BY <1>5 DEF Deliver
  <2>2. QED BY <1>5, <2>1 DEF Deliver
<1>6. ASSUME NEW d \in buffer, DiscardStale(d) PROVE AttemptsKept'
  BY <1>6 DEF DiscardStale, broker
<1>7. ASSUME NEW d \in buffer, BeginProcessing(d) PROVE AttemptsKept'
  <2>1. \A h \in handlers' : h \in handlers \/ h.d = d
    BY <1>7 DEF BeginProcessing
  <2>2. QED BY <1>7, <2>1 DEF BeginProcessing, broker
<1>8. ASSUME NEW d \in buffer, RefuseDelivery(d) PROVE AttemptsKept'
  BY <1>2, <1>8 DEF RefuseDelivery
<1>9. ASSUME NEW h \in handlers, HandlerStep(h) PROVE AttemptsKept'
  <2>1. \A g \in handlers' : g \in handlers \/ g.d = h.d
    BY <1>9, CallbackShape
  <2>2. buffer' = buffer /\ unacked' \subseteq unacked
    BY <1>9, CallbackShape
  <2>3. CASE ScheduleRetry(h)
    <3>1. h.d.copy.attempt \in Nat /\ h.d.copy.attempt < MaxRetries
      BY <2>3 DEF ScheduleRetry, CanScheduleRetry, TypeOK, Handler, Delivery, Copy
    <3>2. \A c \in delayed' : c \in delayed \/ c.attempt = h.d.copy.attempt + 1
      <4>1. CASE delayed' = delayed
        BY <4>1
      <4>2. ASSUME NEW n \in Forks,
                   delayed' = delayed \cup {[task |-> h.d.copy.task,
                                             attempt |-> h.d.copy.attempt + 1, n |-> n]}
            PROVE  \A c \in delayed' : c \in delayed \/ c.attempt = h.d.copy.attempt + 1
        BY <4>2
      <4>3. QED BY <2>3, <4>1, <4>2 DEF ScheduleRetry
    <3>3. QED BY <1>1, <2>1, <2>2, <2>3, <3>1, <3>2 DEF ScheduleRetry
  <2>4. CASE RejectMessage(h)
    <3>1. \A c \in dlq' : c \in dlq \/ c = h.d.copy
      BY <2>4 DEF RejectMessage, Copies
    <3>2. QED BY <2>1, <2>2, <2>4, <3>1 DEF RejectMessage
  <2>5. CASE RequeueFailed(h)
    BY <1>2, <2>1, <2>2, <2>5 DEF RequeueFailed
  <2>6. CASE \/ ProcessSucceeds(h) \/ (\E kind \in Kinds : ProcessFails(h, kind))
             \/ AckSuccess(h) \/ AckSuccessThrows(h) \/ AckScheduled(h)
             \/ FailureHandlingThrows(h) \/ CompleteMessageProcessing(h) \/ SignalDrained(h)
    <3>1. UNCHANGED <<ready, delayed, dlq>>
      BY <2>6 DEF ProcessSucceeds, ProcessFails, AckSuccess, AckSuccessThrows, AckScheduled,
         FailureHandlingThrows, CompleteMessageProcessing, SignalDrained, broker
    <3>2. QED BY <2>1, <2>2, <3>1
  <2>7. QED BY <1>9, <2>3, <2>4, <2>5, <2>6 DEF HandlerStep
<1>10. ASSUME NEW w \in Workers, Break(w) \/ StopConsuming(w) \/ Crash(w) PROVE AttemptsKept'
  <2>1. /\ Requeue(Of(w, unacked)) /\ buffer' \subseteq buffer /\ handlers' \subseteq handlers
        /\ UNCHANGED <<delayed, dlq>>
    BY <1>10 DEF Break, StopConsuming, Crash
  <2>2. QED BY <1>2, <2>1
<1>11. ASSUME NEW w \in Workers, \/ Notice(w) \/ Recover(w) \/ Start(w) \/ StartFails(w)
                                 \/ RequestShutdown(w) \/ CancelConsumer(w)
       PROVE  AttemptsKept'
  BY <1>11 DEF Notice, Recover, Start, StartFails, RequestShutdown, CancelConsumer, broker, client
<1>12. CASE UNCHANGED vars
  BY <1>12 DEF vars, broker, client
<1>13. QED
  BY <1>3, <1>4, <1>5, <1>6, <1>7, <1>8, <1>9, <1>10, <1>11, <1>12 DEF Next

LEMMA TriesInvariant == Spec => [](ClientsInv /\ AttemptsKept /\ TriesPaid)
<1>1. Init => AttemptsKept /\ TriesPaid
  <2> SUFFICES ASSUME Init PROVE AttemptsKept /\ TriesPaid
    OBVIOUS
  <2>1. AttemptsKept
    BY DEF Init, AttemptsKept
  <2>2. ASSUME NEW t \in Tasks, NEW a \in Attempts PROVE tries[t][a] + ToCome(t, a) <= Owed(t)
    <3>1. \A K, R : Waiting(K) = {} /\ Buffered(K) = {} /\ Able(K, R) = {}
      BY DEF Init, Waiting, Buffered, Able
    <3>2. ToCome(t, a) = 0
      BY <3>1, FS_EmptySet DEF ToCome, Chances, Total
    <3>3. tries[t][a] = 0 /\ Owed(t) = 0
      BY PrefetchAssumption DEF Init, Owed
    <3>4. QED BY <3>2, <3>3
  <2>3. QED BY <2>1, <2>2 DEF TriesPaid
<1>2. ClientsInv /\ ClientsInv' /\ AttemptsKept /\ TriesPaid /\ [Next]_vars => AttemptsKept' /\ TriesPaid'
  BY AttemptsStep, TriesPaidStep DEF ClientsInv, DeliveryInv
<1>3. Spec => []ClientsInv
  BY DeliveryInvariant, ClientsKeepTrack, PTL DEF ClientInv, ClientsInv
<1>4. QED BY <1>1, <1>2, <1>3, PTL DEF Spec

(* WorkIsBounded: for any prefetch and any number of workers, faults and   *)
(* stops, no attempt beyond MaxRetries is queued, and each attempt starts  *)
(* at most once and Prefetch times more for each fault (WorkBounded).      *)
THEOREM WorkIsBounded == Spec => []WorkBounded
<1>1. ClientsInv /\ AttemptsKept /\ TriesPaid => WorkBounded
  <2> SUFFICES ASSUME ClientsInv, AttemptsKept, TriesPaid PROVE WorkBounded
    OBVIOUS
  <2>1. \A c \in Queued \cup dlq : c.attempt \in Attempts
    BY DEF AttemptsKept, Queued, Copies
  <2>2. ASSUME NEW t \in Tasks, NEW a \in Attempts PROVE tries[t][a] <= 1 + Prefetch * faults
    <3> DEFINE K == UpTo(t, a)
               R == Coming(t, a)
    <3>1. IsFiniteSet(Waiting(K)) /\ IsFiniteSet(Buffered(K)) /\ IsFiniteSet(Able(K, R))
      BY FiniteChances
    <3>2. ToCome(t, a) \in Nat
      BY <3>1, FS_CardinalityType DEF ToCome, Chances, Total
    <3>3. tries[t][a] \in Nat /\ Prefetch * faults \in Nat
      BY PrefetchAssumption DEF ClientsInv, DeliveryInv, TypeOK
    <3>4. tries[t][a] + ToCome(t, a) <= Owed(t)
      BY DEF TriesPaid
    <3>5. QED BY <3>2, <3>3, <3>4 DEF Owed
  <2>3. QED BY <2>1, <2>2 DEF WorkBounded
<1>2. QED BY <1>1, TriesInvariant, PTL
=============================================================================

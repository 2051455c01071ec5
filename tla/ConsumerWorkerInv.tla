-------------------------- MODULE ConsumerWorkerInv --------------------------
(***************************************************************************)
(* The inductive invariant behind the safety properties of ConsumerWorker. *)
(* TLC checks it on the instances, ConsumerWorkerProofs proves it.         *)
(***************************************************************************)
EXTENDS ConsumerWorker

(* A copy is in one place of the broker only. *)
OnePlace ==
    /\ ready \cap delayed = {} /\ ready \cap dlq = {} /\ delayed \cap dlq = {}
    /\ (ready \cup delayed \cup dlq) \cap Copies(unacked) = {}
    /\ \A d, e \in unacked : d.copy = e.copy => d = e

(* The broker waits only for answers on the open, current channel of a     *)
(* process that is alive.                                                  *)
Alive(w) == phase[w] \in {"running", "stopping"}
UnackedCurrent ==
    /\ \A d \in unacked : channel[d.w] = "open" /\ d.inc = inc[d.w]
    /\ \A w \in Workers : channel[w] # "none" => Alive(w)

Answered == {"finally", "signal"}

(* What a client holds from its open, current channel is unanswered; older *)
(* deliveries are stale, and so is everything once the channel is lost.    *)
HeldIsUnacked ==
    /\ \A d \in buffer :
         d.inc <= inc[d.w] /\ (d.inc = inc[d.w] /\ channel[d.w] = "open" => d \in unacked)
    /\ \A h \in handlers :
         /\ h.d.inc <= inc[h.d.w]
         /\ h.pc \notin Answered /\ h.d.inc = inc[h.d.w] /\ channel[h.d.w] = "open"
              => h.d \in unacked /\ h.d \notin buffer

(* The dispatcher of a channel incarnation runs one callback. *)
OneCallback ==
    \A g, h \in handlers : g.d.w = h.d.w /\ g.d.inc = h.d.inc => g = h

(* Settled for good: processed or dead-lettered. *)
Settled(t) == t \in done \/ DeadLettered(t)

(* What makes it safe to answer the delivery at each point of the callback. *)
AckCovered ==
    \A h \in handlers :
        /\ h.pc = "ack" => h.d.copy.task \in done
        /\ h.pc = "ackRetry" => RetryManaged
        /\ h.pc = "ackRetry" /\ h.d \in unacked =>
             \/ Settled(h.d.copy.task)
             \/ \E c \in Queued : c.task = h.d.copy.task /\ c.attempt > h.d.copy.attempt
        /\ h.pc \in Kinds =>
             \/ h.d.copy.task \in done
             \/ \E k \in Kinds : <<h.d.copy.task, k>> \in thrown

DeliveryInv ==
    TypeOK /\ OnePlace /\ UnackedCurrent /\ HeldIsUnacked /\ OneCallback
    /\ AckCovered /\ NoLoss

(* The drain: the completion is set only while nothing is in flight, a     *)
(* pending TrySetResult belongs to an empty worker, and a process that is  *)
(* not alive has no callback in flight and nothing buffered.               *)
DrainInv ==
    /\ IsFiniteSet(handlers)
    /\ CounterExact
    /\ \A w \in Workers : drained[w] => inFlight[w] = 0
    /\ \A h \in handlers : h.pc = "signal" => inFlight[h.d.w] = 0
    /\ \A w \in Workers :
         ~Alive(w) => inFlight[w] = 0

(* The prefetch: the broker waits for at most Prefetch answers of a client, *)
(* which holds each of these deliveries until it has answered.             *)
PrefetchInv ==
    /\ IsFiniteSet(ready \cup delayed) /\ IsFiniteSet(unacked) /\ IsFiniteSet(buffer)
    /\ \A w \in Workers : Cardinality(Of(w, unacked)) <= Prefetch
    /\ \A d \in unacked : d \in buffer \/ \E h \in handlers : h.d = d /\ h.pc \notin Answered

(* ClientInv: the callbacks in flight are counted, the drain completes for *)
(* the right ones, and no delivery is left without an answer: it would     *)
(* take a place of the prefetch for good.                                  *)
ClientInv == DrainInv /\ PrefetchInv
=============================================================================

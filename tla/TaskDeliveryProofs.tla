------------------------- MODULE TaskDeliveryProofs -------------------------
(***************************************************************************)
(* Proofs about ProcessMessageAsync composed with the queue: what holds of *)
(* ConsumerWorker holds here as well, although a run can fail together     *)
(* with a fault, and the records of a notification agree with what the     *)
(* provider has accepted.                                                  *)
(***************************************************************************)
EXTENDS TaskDeliveryRefinement, ConsumerWorkerOnceProofs

-----------------------------------------------------------------------------
(* The queue and the callbacks. *)

(* A reply or the database is lost: the run throws, and a fault is counted. *)
FaultyRun(h) ==
    /\ h.pc = "processing"
    /\ \E kind \in Kinds : /\ MoveTo(h, kind)
                           /\ thrown' = thrown \cup {<<h.d.copy.task, kind>>}
    /\ faults' = faults + 1
    /\ UNCHANGED <<broker, buffer, channel, inc, consuming, process, done, tries, stops>>

(* The runs of ProcessMessageAsync are those of the callbacks that process. *)
Running == {h \in handlers : h.pc = "processing"}
WorkShape ==
    /\ work \subseteq Work
    /\ \A x \in work : x.h \in Running
    /\ \A h \in Running : \E x \in work : x.h = h
    /\ \A x, y \in work : x.h = y.h => x = y

(* What ConsumerWorker keeps of itself. *)
QueueInv == DeliveryInv /\ OnlyPublished /\ DrainInv /\ PrefetchInv

LEMMA FaultyRunKeeps ==
    ASSUME QueueInv, NEW h \in handlers, FaultyRun(h)
    PROVE  QueueInv' /\ faults' = faults + 1
<1> USE DEF QueueInv, DeliveryInv
<1>1. PICK kind \in Kinds : /\ handlers' = (handlers \ {h}) \cup {[d |-> h.d, pc |-> kind]}
                            /\ thrown' = thrown \cup {<<h.d.copy.task, kind>>}
  BY DEF FaultyRun, MoveTo
<1>2. /\ UNCHANGED <<ready, delayed, dlq, unacked, published, buffer, channel, inc, consuming,
                     phase, inFlight, drained, done, tries, stops>>
      /\ faults' = faults + 1 /\ h.pc = "processing"
  BY DEF FaultyRun, broker, process
<1>3. kind \notin Answered \cup {"ack", "ackRetry"}
  BY DEF Kinds, Answered
<1>4. TypeOK'
  <2>1. handlers' \subseteq Handler
    BY <1>1, MoveTyped DEF MoveTo, Points
  <2>2. h.d.copy.task \in Tasks
    BY DEF TypeOK, Handler, Delivery, Copy
  <2>3. QED BY <1>1, <1>2, <2>1, <2>2 DEF TypeOK
<1>5. OnePlace' /\ UnackedCurrent'
  BY <1>2 DEF OnePlace, UnackedCurrent, Alive, Copies
<1>6. \A g \in handlers' : g \in handlers \/ (g.d = h.d /\ g.pc = kind)
  BY <1>1
<1>7. HeldIsUnacked'
  BY <1>2, <1>3, <1>6 DEF HeldIsUnacked, Answered
<1>8. OneCallback'
  BY <1>1 DEF OneCallback
<1>9. AckCovered'
  <2>1. Queued' = Queued /\ \A t : Settled(t)' <=> Settled(t)
    BY <1>2 DEF Queued, Settled, DeadLettered
  <2>2. QED BY <1>1, <1>2, <1>3, <1>6, <2>1 DEF AckCovered
<1>10. NoLoss'
  BY <1>1, <1>2 DEF NoLoss, Live, Queued, DeadLettered
<1>11. OnlyPublished'
  BY <1>2, <1>6 DEF OnlyPublished, Queued
<1>12. DrainInv'
  <2>1. kind \in Points /\ kind # "signal"
    BY DEF Points, Kinds
  <2>2. IsFiniteSet(handlers)' /\ CounterExact'
    BY <1>1, <1>2, <2>1, MoveKeepsCount DEF MoveTo
  <2>3. QED BY <1>2, <1>6, <2>1, <2>2 DEF DrainInv, Alive
<1>13. PrefetchInv'
  <2> DEFINE g == [d |-> h.d, pc |-> kind]
  <2>1. g \in handlers' /\ g.d = h.d /\ g.pc \notin Answered /\ handlers \ {h} \subseteq handlers'
    BY <1>1, <1>3
  <2> HIDE DEF g
  <2>2. QED BY <1>2, <2>1 DEF PrefetchInv
<1>14. QED BY <1>2, <1>4, <1>5, <1>7, <1>8, <1>9, <1>10, <1>11, <1>12, <1>13

LEMMA NextKeeps ==
    ASSUME QueueInv, [Next]_vars
    PROVE  QueueInv'
BY TypeStep, OnePlaceStep, UnackedCurrentStep, HeldIsUnackedStep, OneCallbackStep, AckCoveredStep,
   NoLossStep, OnlyPublishedStep, DrainStep, PrefetchStep DEF QueueInv, DeliveryInv

(* How a run moves on, and how it ends. *)
LEMMA WorkEffect ==
    ASSUME NEW x \in work, WorkShape, WorkStep(x)
    PROVE  \/ /\ UNCHANGED vars
              /\ \E y \in Work : y.h = x.h /\ Advance(x, y)
           \/ (ProcessSucceeds(x.h) \/ \E kind \in Kinds : ProcessFails(x.h, kind)) /\ Leave(x)
           \/ FaultyRun(x.h) /\ Leave(x)
<1>1. x \in Work /\ x.h.pc = "processing"
  BY DEF WorkShape, Running
<1>2. FailureKinds \subseteq Kinds /\ "permanent" \in Kinds
  BY DEF FailureKinds, Kinds
<1>3. \A s \in Steps : [x EXCEPT !.at = s] \in Work /\ [x EXCEPT !.at = s].h = x.h
  BY <1>1 DEF Work
<1>4. \A b \in BOOLEAN : /\ [x EXCEPT !.at = "check", !.active = b] \in Work
                         /\ [x EXCEPT !.at = "check", !.active = b].h = x.h
  BY <1>1 DEF Work, Steps
<1> USE DEF Return, Throw
<1>5. CASE LoadTask(x)
  BY <1>2, <1>3, <1>5 DEF LoadTask, Steps
<1>6. CASE LoadCredential(x)
  BY <1>2, <1>4, <1>6 DEF LoadCredential
<1>14. CASE CheckCredential(x)
  BY <1>2, <1>3, <1>14 DEF CheckCredential, Steps
<1>7. CASE SendRefused(x)
  BY <1>2, <1>7 DEF SendRefused
<1>8. CASE SendAccepted(x)
  BY <1>3, <1>8 DEF SendAccepted, Steps
<1>9. CASE ReplyLost(x)
  BY <1>1, <1>2, <1>9 DEF ReplyLost, FaultyRun, TaskOf
<1>10. CASE UpdateTask(x)
  BY <1>2, <1>3, <1>10 DEF UpdateTask, Steps
<1>11. CASE DatabaseFails(x)
  BY <1>1, <1>2, <1>11 DEF DatabaseFails, FaultyRun, TaskOf
<1>12. CASE PublishStatus(x)
  BY <1>12 DEF PublishStatus
<1>13. QED BY <1>5, <1>6, <1>7, <1>8, <1>9, <1>10, <1>11, <1>12, <1>14 DEF WorkStep

(* The steps of the panel, the credentials API and the status worker.      *)
StoreStep ==
    \/ \E t \in Tasks : ApplyStatus(t) \/ OpenForm(t) \/ DeleteTask(t)
    \/ \E t \in Tasks, s \in Selectable : SubmitForm(t, s)
    \/ \E s \in CredentialStates : ChangeCredential(s)

LEMMA StoreEffect == StoreStep => UNCHANGED <<vars, work, accepted>>
BY DEF StoreStep, ApplyStatus, OpenForm, DeleteTask, SubmitForm, ChangeCredential

(* Every step is one of the queue, but for the runs that fail with a fault. *)
LEMMA QueueEffect ==
    ASSUME WorkShape, [DeliveryNext]_allVars
    PROVE  [Next]_vars \/ \E h \in handlers : FaultyRun(h)
<1>1. CASE QueueStep
  BY <1>1 DEF QueueStep, Next, HandlerStep
<1>2. CASE (\E w \in Workers : CrashWork(w)) \/ \E d \in buffer : BeginWork(d)
  BY <1>2 DEF CrashWork, BeginWork, Next
<1>3. ASSUME NEW x \in work, WorkStep(x) PROVE [Next]_vars \/ \E h \in handlers : FaultyRun(h)
  <2>1. x.h \in handlers
    BY DEF WorkShape, Running
  <2>2. QED BY <1>3, <2>1, WorkEffect DEF Next, HandlerStep
<1>4. CASE StoreStep
  BY <1>4, StoreEffect
<1>5. CASE UNCHANGED allVars
  BY <1>5 DEF allVars
<1>6. QED BY <1>1, <1>2, <1>3, <1>4, <1>5 DEF DeliveryNext, StoreStep

LEMMA SameRuns ==
    ASSUME WorkShape, work' = work, Running' = Running
    PROVE  WorkShape'
BY DEF WorkShape

LEMMA WorkShapeStep ==
    ASSUME TypeOK, WorkShape, [DeliveryNext]_allVars
    PROVE  WorkShape'
<1>1. CASE QueueStep /\ UNCHANGED store
  <2>1. ASSUME NEW h \in handlers,
               \/ AckSuccess(h) \/ AckSuccessThrows(h) \/ ScheduleRetry(h) \/ AckScheduled(h)
               \/ RejectMessage(h) \/ FailureHandlingThrows(h) \/ RequeueFailed(h)
               \/ CompleteMessageProcessing(h) \/ SignalDrained(h)
        PROVE  Running' = Running
    <3>1. h.pc # "processing"
      BY <2>1 DEF AckSuccess, AckSuccessThrows, ScheduleRetry, CanScheduleRetry, AckScheduled,
         RejectMessage, FailureHandlingThrows, RequeueFailed, CompleteMessageProcessing,
         SignalDrained, Kinds
    <3>2. \/ handlers' = handlers \ {h}
          \/ \E p \in {"finally", "permanent", "ackRetry", "nack", "signal"} : MoveTo(h, p)
      BY <2>1 DEF AckSuccess, AckSuccessThrows, ScheduleRetry, AckScheduled,
         RejectMessage, FailureHandlingThrows, RequeueFailed, CompleteMessageProcessing,
         SignalDrained
    <3>3. QED BY <3>1, <3>2 DEF MoveTo, Running
  <2>2. CASE handlers' = handlers
    BY <1>1, <2>2, SameRuns DEF store, Running
  <2>3. CASE \/ \E t \in Tasks : Publish(t)
             \/ \E c \in delayed : DelayElapsed(c)
             \/ \E w \in Workers, c \in ready : Deliver(w, c)
             \/ \E d \in buffer : DiscardStale(d) \/ RefuseDelivery(d)
             \/ \E w \in Workers :
                  \/ Break(w) \/ Notice(w) \/ Recover(w) \/ Start(w) \/ StartFails(w)
                  \/ RequestShutdown(w) \/ CancelConsumer(w) \/ StopConsuming(w)
    BY <2>2, <2>3 DEF Publish, DelayElapsed, Deliver, DiscardStale, RefuseDelivery, Break, Notice,
       Recover, Start, StartFails, RequestShutdown, CancelConsumer, StopConsuming, client
  <2>4. QED BY <1>1, <2>1, <2>3, SameRuns DEF QueueStep, store
<1>2. ASSUME NEW w \in Workers, CrashWork(w) PROVE WorkShape'
  BY <1>2 DEF CrashWork, Crash, WorkShape, Running
<1>3. ASSUME NEW d \in buffer, BeginWork(d) PROVE WorkShape'
  <2> DEFINE g == [d |-> d, pc |-> "processing"]
             y == [h |-> g, at |-> "task", active |-> FALSE]
  <2>1. /\ g \in Handler /\ g.d = d /\ g.pc = "processing"
        /\ y \in Work /\ y.h = g
    BY DEF Handler, Points, Work, Steps, TypeOK
  <2>2. Running' = Running \cup {g} /\ work' = work \cup {y}
    BY <1>3 DEF BeginWork, BeginProcessing, Running
  <2>3. \A x \in work : x.h # g
    BY <1>3, <2>1 DEF BeginWork, BeginProcessing, DispatcherFree, WorkShape, Running
  <2> HIDE DEF g, y
  <2>4. QED BY <2>1, <2>2, <2>3 DEF WorkShape
<1>4. ASSUME NEW x \in work, WorkStep(x) PROVE WorkShape'
  <2>1. CASE UNCHANGED vars /\ \E y \in Work : y.h = x.h /\ Advance(x, y)
    <3>1. Running' = Running
      BY <2>1 DEF vars, client, Running
    <3>2. QED BY <2>1, <3>1 DEF WorkShape, Advance
  <2>2. CASE /\ \/ ProcessSucceeds(x.h) \/ FaultyRun(x.h)
                \/ \E kind \in Kinds : ProcessFails(x.h, kind)
             /\ Leave(x)
    <3>1. \E p \in {"ack"} \cup Kinds : MoveTo(x.h, p)
      BY <2>2 DEF ProcessSucceeds, ProcessFails, FaultyRun
    <3>2. Running' = Running \ {x.h}
      BY <3>1 DEF Running, MoveTo, Kinds
    <3>3. QED BY <2>2, <3>2 DEF WorkShape, Leave
  <2>3. QED BY <1>4, <2>1, <2>2, WorkEffect
<1>5. CASE StoreStep \/ UNCHANGED allVars
  BY <1>5, SameRuns, StoreEffect DEF allVars, vars, client, store, Running
<1>6. QED BY <1>1, <1>2, <1>3, <1>4, <1>5 DEF DeliveryNext, StoreStep

-----------------------------------------------------------------------------
(* The row, the updates, the forms, and what the provider has accepted.    *)

RecordTypes ==
    /\ row \in [Tasks -> RowStates] /\ credential \in CredentialStates
    /\ accepted \in [Tasks -> Nat] /\ updates \subseteq Tasks
    /\ form \in [Tasks -> {"Pending", "Sent", "none"}] /\ forced \subseteq Tasks
    /\ edits \in 0..MaxEdits

Taken(t) == accepted[t] > 0 \/ t \in forced

(* Whoever says that a task was sent is right, or repeats the operator.    *)
Recorded ==
    /\ \A t \in Tasks : row[t] = "Sent" \/ form[t] = "Sent" \/ t \in updates \cup done => Taken(t)
    /\ \A x \in work : x.at \in {"update", "publish"} => accepted[TaskOf(x)] > 0

Unedited ==
    edits = 0 => /\ \A t \in Tasks : form[t] = "none"
                 /\ \A t \in done : row[t] = "Sent"
                 /\ \A x \in work : x.at = "publish" => row[TaskOf(x)] = "Sent"

Records == RecordTypes /\ Recorded /\ Unedited

LEMMA RecordsKept ==
    ASSUME Records, UNCHANGED <<row, credential, accepted, updates, panel>>,
           \A t \in done' : t \in done \/ (Taken(t) /\ (edits = 0 => row[t] = "Sent")),
           \A y \in work' : \/ y \in work \/ y.at \notin {"update", "publish"}
                            \/ \E x \in work : y.h = x.h /\ y.at = x.at
    PROVE  Records'
BY DEF Records, RecordTypes, Recorded, Unedited, panel, Taken, TaskOf

LEMMA RecordsRun ==
    ASSUME TypeOK, WorkShape, Records, NEW x \in work, WorkStep(x)
    PROVE  Records'
<1> USE DEF Records
<1>1. TaskOf(x) \in Tasks /\ x.h.d.copy.task = TaskOf(x)
  BY DEF WorkShape, Running, TypeOK, Handler, Delivery, Copy, TaskOf
<1>2. ASSUME NEW h, NEW kind, ProcessFails(h, kind) PROVE done' = done
  BY <1>2 DEF ProcessFails
<1>3. ASSUME Return(x) PROVE done' = done \cup {TaskOf(x)} /\ work' \subseteq work
  BY <1>1, <1>3 DEF Return, Leave, ProcessSucceeds
<1>4. ASSUME NEW kind, Throw(x, kind) PROVE done' = done /\ work' \subseteq work
  BY <1>2, <1>4 DEF Throw, Leave
<1>5. ASSUME UNCHANGED vars PROVE done' = done
  BY <1>5 DEF vars, history
<1>6. \A s : [x EXCEPT !.at = s].h = x.h /\ [x EXCEPT !.at = s].at = s
  BY DEF WorkShape, Work
<1>7. \A s : TaskOf([x EXCEPT !.at = s]) = TaskOf(x)
  BY <1>6 DEF TaskOf
<1>8. \A b : [x EXCEPT !.at = "check", !.active = b].at = "check"
  BY DEF WorkShape, Work
<1>9. CASE LoadTask(x)
  <2>1. CASE row[TaskOf(x)] = "deleted" /\ Throw(x, "permanent")
    BY <1>4, <1>9, <2>1, RecordsKept DEF LoadTask
  <2>2. CASE row[TaskOf(x)] = "Sent" /\ Return(x)
    <3>1. Taken(TaskOf(x))
      BY <1>1, <2>2 DEF Recorded
    <3>2. QED BY <1>3, <1>9, <2>2, <3>1, RecordsKept DEF LoadTask
  <2>3. CASE Advance(x, [x EXCEPT !.at = "credential"]) /\ UNCHANGED vars
    BY <1>5, <1>6, <1>9, <2>3, RecordsKept DEF LoadTask, Advance
  <2>4. QED BY <1>9, <2>1, <2>2, <2>3 DEF LoadTask
<1>10. CASE LoadCredential(x)
  <2>1. CASE Throw(x, "permanent")
    BY <1>4, <1>10, <2>1, RecordsKept DEF LoadCredential
  <2>2. CASE /\ Advance(x, [x EXCEPT !.at = "check", !.active = (credential = "active")])
             /\ UNCHANGED vars
    BY <1>5, <1>8, <1>10, <2>2, RecordsKept DEF LoadCredential, Advance
  <2>3. QED BY <1>10, <2>1, <2>2 DEF LoadCredential
<1>18. CASE CheckCredential(x)
  <2>1. CASE Throw(x, "permanent")
    BY <1>4, <1>18, <2>1, RecordsKept DEF CheckCredential
  <2>2. CASE Advance(x, [x EXCEPT !.at = "send"]) /\ UNCHANGED vars
    BY <1>5, <1>6, <1>18, <2>2, RecordsKept DEF CheckCredential, Advance
  <2>3. QED BY <1>18, <2>1, <2>2 DEF CheckCredential
<1>11. CASE SendRefused(x)
  BY <1>4, <1>11, RecordsKept DEF SendRefused
<1>12. CASE SendAccepted(x)
  <2>1. /\ accepted' = [accepted EXCEPT ![TaskOf(x)] = @ + 1]
        /\ UNCHANGED <<row, credential, updates, form, forced, edits, done>>
        /\ work' = (work \ {x}) \cup {[x EXCEPT !.at = "update"]}
    BY <1>5, <1>12 DEF SendAccepted, Advance, panel
  <2>2. /\ accepted' \in [Tasks -> Nat] /\ accepted'[TaskOf(x)] > 0
        /\ \A t \in Tasks : accepted[t] > 0 => accepted'[t] > 0
    BY <1>1, <2>1 DEF RecordTypes
  <2>3. \A y \in work : TaskOf(y) \in Tasks
    BY DEF WorkShape, Running, TypeOK, Handler, Delivery, Copy, TaskOf
  <2>4. \A y \in work' : y \in work \/ (y.at = "update" /\ TaskOf(y) = TaskOf(x))
    BY <1>6, <1>7, <2>1
  <2>5. Recorded'
    BY <2>1, <2>2, <2>3, <2>4 DEF Recorded, Taken
  <2>6. Unedited'
    BY <2>1, <2>4 DEF Unedited
  <2>7. QED BY <2>1, <2>2, <2>5, <2>6 DEF RecordTypes
<1>13. CASE ReplyLost(x)
  <2>1. /\ accepted' = [accepted EXCEPT ![TaskOf(x)] = @ + 1]
        /\ UNCHANGED <<row, credential, updates, form, forced, edits, done>>
        /\ work' = work \ {x}
    BY <1>13 DEF ReplyLost, Leave, panel
  <2>2. /\ accepted' \in [Tasks -> Nat]
        /\ \A t \in Tasks : accepted[t] > 0 => accepted'[t] > 0
    BY <1>1, <2>1 DEF RecordTypes
  <2>3. \A y \in work : TaskOf(y) \in Tasks
    BY DEF WorkShape, Running, TypeOK, Handler, Delivery, Copy, TaskOf
  <2>4. Recorded'
    BY <2>1, <2>2, <2>3 DEF Recorded, Taken, TaskOf
  <2>5. QED BY <2>1, <2>2, <2>4 DEF RecordTypes, Unedited, TaskOf
<1>14. CASE UpdateTask(x)
  <2>1. CASE row[TaskOf(x)] = "deleted" /\ Throw(x, "permanent") /\ UNCHANGED row
    BY <1>4, <1>14, <2>1, RecordsKept DEF UpdateTask
  <2>2. CASE /\ row' = [row EXCEPT ![TaskOf(x)] = "Sent"]
             /\ Advance(x, [x EXCEPT !.at = "publish"])
             /\ UNCHANGED vars
    <3>1. accepted[TaskOf(x)] > 0
      BY <1>14 DEF UpdateTask, Recorded
    <3>2. /\ UNCHANGED <<credential, accepted, updates, form, forced, edits, done>>
          /\ work' = (work \ {x}) \cup {[x EXCEPT !.at = "publish"]}
      BY <1>5, <1>14, <2>2 DEF UpdateTask, Advance, panel
    <3>3. /\ row' \in [Tasks -> RowStates] /\ row'[TaskOf(x)] = "Sent"
          /\ \A t \in Tasks : t # TaskOf(x) => row'[t] = row[t]
      BY <1>1, <2>2 DEF RecordTypes, RowStates
    <3>4. \A y \in work' : y \in work \/ (y.at = "publish" /\ TaskOf(y) = TaskOf(x))
      BY <1>6, <1>7, <3>2
    <3>5. Recorded'
      BY <1>1, <3>1, <3>2, <3>3, <3>4 DEF Recorded, Taken
    <3>6. \A t \in Tasks : row[t] = "Sent" => row'[t] = "Sent"
      BY <3>3
    <3>7. (\A t \in done : t \in Tasks) /\ \A y \in work : TaskOf(y) \in Tasks
      BY DEF WorkShape, Running, TypeOK, Handler, Delivery, Copy, TaskOf
    <3>8. Unedited'
      BY <3>2, <3>3, <3>6, <3>7, <3>4 DEF Unedited
    <3>9. QED BY <3>2, <3>3, <3>5, <3>8 DEF RecordTypes
  <2>3. QED BY <1>14, <2>1, <2>2 DEF UpdateTask
<1>15. CASE DatabaseFails(x)
  <2>1. done' = done /\ work' \subseteq work
    BY <1>15 DEF DatabaseFails, Leave
  <2>2. QED BY <1>15, <2>1, RecordsKept DEF DatabaseFails
<1>16. CASE PublishStatus(x)
  <2>1. /\ accepted[TaskOf(x)] > 0 /\ (edits = 0 => row[TaskOf(x)] = "Sent")
    BY <1>16 DEF PublishStatus, Recorded, Unedited
  <2>2. /\ UNCHANGED <<row, credential, accepted, form, forced, edits>>
        /\ updates' \subseteq updates \cup {TaskOf(x)}
        /\ done' = done \cup {TaskOf(x)} /\ work' \subseteq work
    BY <1>3, <1>16 DEF PublishStatus, panel
  <2>3. QED BY <1>1, <2>1, <2>2 DEF RecordTypes, Recorded, Unedited, Taken, TaskOf
<1>17. QED
  BY <1>9, <1>10, <1>11, <1>12, <1>13, <1>14, <1>15, <1>16, <1>18 DEF WorkStep

LEMMA RecordsStore ==
    ASSUME TypeOK, WorkShape, Records, StoreStep
    PROVE  Records'
<1> USE DEF Records, panel
<1>1. UNCHANGED <<done, work, accepted>>
  BY StoreEffect DEF vars, history
<1>2. (\A t \in done : t \in Tasks) /\ \A y \in work : TaskOf(y) \in Tasks
  BY DEF WorkShape, Running, TypeOK, Handler, Delivery, Copy, TaskOf
<1>3. ASSUME NEW t \in Tasks, ApplyStatus(t) PROVE Records'
  <2>1. t \in updates /\ UNCHANGED <<credential, form, forced, edits>> /\ updates' \subseteq updates
    BY <1>3 DEF ApplyStatus
  <2>2. /\ row' \in [Tasks -> RowStates]
        /\ \A u \in Tasks : row'[u] = row[u] \/ (u = t /\ row'[u] = "Sent")
    BY <1>3 DEF ApplyStatus, RecordTypes, RowStates
  <2>3. Recorded'
    BY <1>1, <1>2, <2>1, <2>2 DEF Recorded, Taken, TaskOf
  <2>4. Unedited'
    BY <1>1, <1>2, <2>1, <2>2 DEF Unedited, TaskOf
  <2>5. QED BY <1>1, <2>1, <2>2, <2>3, <2>4 DEF RecordTypes
<1>4. ASSUME NEW t \in Tasks, OpenForm(t) PROVE Records'
  <2>1. /\ UNCHANGED <<row, credential, updates, forced>> /\ edits' = edits + 1 /\ edits < MaxEdits
        /\ form' = [form EXCEPT ![t] = row[t]] /\ row[t] # "deleted"
    BY <1>4 DEF OpenForm, Edit
  <2>2. form' \in [Tasks -> {"Pending", "Sent", "none"}]
    BY <2>1 DEF RecordTypes, RowStates
  <2>3. edits' \in 0..MaxEdits /\ edits' # 0
    BY <2>1, DeliveryAssumption DEF RecordTypes
  <2>4. QED BY <1>1, <1>2, <2>1, <2>2, <2>3 DEF RecordTypes, Recorded, Unedited, Taken, TaskOf
<1>5. ASSUME NEW t \in Tasks, DeleteTask(t) PROVE Records'
  <2>1. /\ UNCHANGED <<credential, updates, form, forced>> /\ edits' = edits + 1 /\ edits < MaxEdits
        /\ row' = [row EXCEPT ![t] = "deleted"]
    BY <1>5 DEF DeleteTask, Edit
  <2>2. edits' \in 0..MaxEdits /\ edits' # 0
    BY <2>1, DeliveryAssumption DEF RecordTypes
  <2>3. QED BY <1>1, <1>2, <2>1, <2>2 DEF RecordTypes, RowStates, Recorded, Unedited, Taken, TaskOf
<1>6. ASSUME NEW t \in Tasks, NEW s \in Selectable, SubmitForm(t, s) PROVE Records'
  <2>1. /\ UNCHANGED <<credential, updates, edits>>
        /\ form[t] # "none" /\ form' = [form EXCEPT ![t] = "none"]
        /\ \A u \in Tasks : row'[u] = row[u] \/ (u = t /\ row'[u] = s)
        /\ row' \in [Tasks -> RowStates]
        /\ forced' = IF s = "Sent" /\ form[t] # "Sent" THEN forced \cup {t} ELSE forced
    BY <1>6 DEF SubmitForm, RecordTypes, RowStates, Selectable
  <2>2. edits # 0
    BY <2>1 DEF Unedited
  <2>3. s = "Sent" => Taken(t)'
    BY <1>1, <2>1 DEF Recorded, Taken
  <2>4. \A u \in Tasks : Taken(u) => Taken(u)'
    BY <1>1, <2>1 DEF Taken
  <2>5. Recorded'
    <3>1. \A u \in Tasks : form'[u] = "Sent" => form[u] = "Sent"
      BY <2>1 DEF RecordTypes
    <3>2. QED BY <1>1, <1>2, <2>1, <2>3, <2>4, <3>1 DEF Recorded, TaskOf
  <2>6. RecordTypes'
    BY <1>1, <2>1 DEF RecordTypes
  <2>7. QED BY <2>1, <2>2, <2>5, <2>6 DEF Unedited
<1>7. ASSUME NEW s \in CredentialStates, ChangeCredential(s) PROVE Records'
  <2>1. edits' \in 0..MaxEdits /\ edits' # 0
    BY <1>7, DeliveryAssumption DEF ChangeCredential, Edit, RecordTypes
  <2>2. QED
    BY <1>1, <1>7, <2>1 DEF ChangeCredential, RecordTypes, Recorded, Unedited, Taken, TaskOf
<1>8. QED BY <1>3, <1>4, <1>5, <1>6, <1>7 DEF StoreStep

LEMMA RecordsStep ==
    ASSUME TypeOK, WorkShape, Records, [DeliveryNext]_allVars
    PROVE  Records'
<1>1. CASE QueueStep /\ UNCHANGED store
  <2>1. done' = done
    BY <1>1 DEF QueueStep, Publish, DelayElapsed, Deliver, DiscardStale, RefuseDelivery, AckSuccess,
       AckSuccessThrows, ScheduleRetry, AckScheduled, RejectMessage, FailureHandlingThrows,
       RequeueFailed, CompleteMessageProcessing, SignalDrained, Break, Notice, Recover, Start,
       StartFails, RequestShutdown, CancelConsumer, StopConsuming, history
  <2>2. QED BY <1>1, <2>1, RecordsKept DEF store
<1>2. ASSUME NEW w \in Workers, CrashWork(w) PROVE Records'
  BY <1>2, RecordsKept DEF CrashWork, Crash, history
<1>3. ASSUME NEW d \in buffer, BeginWork(d) PROVE Records'
  BY <1>3, RecordsKept DEF BeginWork, BeginProcessing
<1>4. CASE UNCHANGED allVars
  BY <1>4, RecordsKept DEF allVars, vars, history, store
<1>5. QED BY <1>1, <1>2, <1>3, <1>4, RecordsRun, RecordsStore DEF DeliveryNext, StoreStep

-----------------------------------------------------------------------------
FullInv == QueueInv /\ WorkShape /\ Records

LEMMA FullInvariant == DeliverySpec => []FullInv
<1>1. DeliveryInit => FullInv
  <2> SUFFICES ASSUME DeliveryInit PROVE FullInv
    OBVIOUS
  <2>1. DeliveryInv
    BY DEF DeliveryInit, Init, DeliveryInv, TypeOK, Phases, OnePlace, UnackedCurrent, HeldIsUnacked,
       OneCallback, AckCovered, NoLoss, Copies
  <2>2. OnlyPublished /\ WorkShape
    BY DEF DeliveryInit, Init, OnlyPublished, WorkShape, Running, Queued, Copies
  <2>3. Records
    BY DeliveryAssumption DEF DeliveryInit, Init, Records, RecordTypes, RowStates, CredentialStates,
       Recorded, Unedited
  <2>4. DrainInv /\ PrefetchInv
    <3>1. Cardinality({}) = 0 /\ IsFiniteSet({})
      BY FS_EmptySet
    <3>2. \A w \in Workers : InFlight(w) = {} /\ Of(w, unacked) = {}
      BY DEF DeliveryInit, Init, InFlight, Of
    <3>3. ready \cup delayed = {}
      BY DEF DeliveryInit, Init
    <3>4. CounterExact
      BY <3>1, <3>2 DEF DeliveryInit, Init, CounterExact
    <3>5. DrainInv
      BY <3>1, <3>4 DEF DeliveryInit, Init, DrainInv
    <3>6. \A w \in Workers : Cardinality(Of(w, unacked)) <= Prefetch
      BY <3>1, <3>2, PrefetchAssumption
    <3>7. unacked = {} /\ buffer = {}
      BY DEF DeliveryInit, Init
    <3>8. PrefetchInv
      BY <3>1, <3>3, <3>6, <3>7 DEF PrefetchInv
    <3>9. QED BY <3>5, <3>8
  <2>5. QED BY <2>1, <2>2, <2>3, <2>4 DEF FullInv, QueueInv
<1>2. FullInv /\ [DeliveryNext]_allVars => FullInv'
  <2> SUFFICES ASSUME FullInv, [DeliveryNext]_allVars PROVE FullInv'
    OBVIOUS
  <2>1. QueueInv'
    BY QueueEffect, NextKeeps, FaultyRunKeeps DEF FullInv, QueueInv
  <2>2. WorkShape' /\ Records'
    BY WorkShapeStep, RecordsStep DEF FullInv, QueueInv, DeliveryInv
  <2>3. QED BY <2>1, <2>2 DEF FullInv, QueueInv
<1>3. QED BY <1>1, <1>2, PTL DEF DeliverySpec

(* DeliveryTypes: the type invariant of TaskDelivery, with the one run of  *)
(* ProcessMessageAsync that each callback awaits (DeliveryTypeOK).         *)
THEOREM DeliveryTypes == DeliverySpec => []DeliveryTypeOK
<1>1. FullInv => DeliveryTypeOK
  BY DEF FullInv, QueueInv, DeliveryInv, WorkShape, Running, Records, RecordTypes, DeliveryTypeOK
<1>2. QED BY <1>1, FullInvariant, PTL

(* NoNotificationLost: on a queue with a dead letter exchange a published  *)
(* task that left the queue was accepted by the provider or dead-lettered, *)
(* whatever fails and whatever the operator edits, unless the operator     *)
(* marked it as Sent (NotificationNotLost).                                *)
THEOREM NoNotificationLost ==
    ASSUME RetryManaged PROVE DeliverySpec => []NotificationNotLost
<1>1. FullInv => NotificationNotLost
  BY DEF FullInv, QueueInv, DeliveryInv, NoLoss, Records, Recorded, Taken, NotificationNotLost, TypeOK
<1>2. QED BY <1>1, FullInvariant, PTL

(* SuccessIsRecorded: until somebody edits, a task whose processing has    *)
(* succeeded has a row that says Sent (DoneIsRecorded).                    *)
THEOREM SuccessIsRecorded == DeliverySpec => []DoneIsRecorded
<1>1. FullInv => DoneIsRecorded
  BY DEF FullInv, QueueInv, Records, Unedited, DoneIsRecorded
<1>2. QED BY <1>1, FullInvariant, PTL

(* What a step does to the runs that are past the second query.            *)
LEMMA PostingStep ==
    ASSUME FullInv, credential = "deleted", [DeliveryNext]_allVars, NEW t \in Tasks
    PROVE  /\ Posting(t)' \subseteq Posting(t)
           /\ accepted'[t] # accepted[t] => accepted'[t] = accepted[t] + 1 /\ Posting(t)' # Posting(t)
<1>1. accepted \in [Tasks -> Nat]
  BY DEF FullInv, Records, RecordTypes
<1>2. ASSUME NEW x \in work, WorkStep(x)
      PROVE  /\ Posting(t)' \subseteq Posting(t)
             /\ accepted'[t] # accepted[t] => accepted'[t] = accepted[t] + 1 /\ Posting(t)' # Posting(t)
  <2>1. x \in Work
    BY DEF FullInv, QueueInv, WorkShape
  <2>2. \A s : [x EXCEPT !.at = s].at = s
    BY <2>1 DEF Work
  <2>3. ASSUME NEW y, y.at # "send", Advance(x, y) PROVE Posting(t)' \subseteq Posting(t) \ {x}
    BY <2>3 DEF Advance, Posting, TaskOf
  <2>4. ASSUME Leave(x) PROVE Posting(t)' \subseteq Posting(t) \ {x}
    BY <2>4 DEF Leave, Posting, TaskOf
  <2>5. CASE LoadTask(x) \/ LoadCredential(x) \/ CheckCredential(x)
    <3>1. [x EXCEPT !.at = "check", !.active = (credential = "active")].at = "check"
      BY <2>1 DEF Work
    <3>2. accepted' = accepted
      BY <2>5 DEF LoadTask, LoadCredential, CheckCredential
    <3>3. Leave(x) \/ \E y : y.at # "send" /\ Advance(x, y)
      <4>1. CASE LoadTask(x)
        BY <2>2, <4>1 DEF LoadTask, Return, Throw
      <4>2. CASE LoadCredential(x)
        BY <3>1, <4>2 DEF LoadCredential, Throw
      <4>3. CASE CheckCredential(x)
        BY <4>3 DEF CheckCredential, Sendable, Throw
      <4>4. QED BY <2>5, <4>1, <4>2, <4>3
    <3>4. QED BY <2>3, <2>4, <3>2, <3>3
  <2>6. CASE SendAccepted(x) \/ ReplyLost(x)
    <3>1. x.at = "send" /\ accepted' = [accepted EXCEPT ![TaskOf(x)] = @ + 1]
      BY <2>6 DEF SendAccepted, ReplyLost
    <3>2. Posting(t)' \subseteq Posting(t) \ {x}
      BY <2>2, <2>3, <2>4, <2>6 DEF SendAccepted, ReplyLost
    <3>3. accepted'[t] # accepted[t] => accepted'[t] = accepted[t] + 1 /\ x \in Posting(t)
      BY <1>1, <3>1 DEF Posting
    <3>4. QED BY <3>2, <3>3
  <2>7. CASE SendRefused(x) \/ DatabaseFails(x) \/ PublishStatus(x)
    <3>1. Leave(x) /\ accepted' = accepted
      BY <2>7 DEF SendRefused, DatabaseFails, PublishStatus, Throw, Return
    <3>2. QED BY <2>4, <3>1
  <2>8. CASE UpdateTask(x)
    <3>1. accepted' = accepted /\ (Leave(x) \/ Advance(x, [x EXCEPT !.at = "publish"]))
      BY <2>8 DEF UpdateTask, Throw
    <3>2. QED BY <2>2, <2>3, <2>4, <3>1
  <2>9. QED BY <1>2, <2>5, <2>6, <2>7, <2>8 DEF WorkStep
<1>3. CASE StoreStep
  BY <1>3, StoreEffect DEF Posting, TaskOf
<1>4. ASSUME NEW d \in buffer, BeginWork(d)
      PROVE  Posting(t)' \subseteq Posting(t) /\ accepted' = accepted
  BY <1>4 DEF BeginWork, Posting, TaskOf
<1>5. CASE (QueueStep /\ UNCHANGED store) \/ (\E w \in Workers : CrashWork(w)) \/ UNCHANGED allVars
  BY <1>5 DEF store, CrashWork, allVars, Posting, TaskOf
<1>6. QED BY <1>2, <1>3, <1>4, <1>5 DEF DeliveryNext, StoreStep

(* LateSendsAreUnderWay: once the credential is deleted, what is still     *)
(* sent is what was past the second query, once each                       *)
(* (DeletionEndsSending).                                                  *)
THEOREM LateSendsAreUnderWay == DeliverySpec => DeletionEndsSending
<1>1. FullInv /\ [DeliveryNext]_allVars =>
        [credential = "deleted" =>
           \A t \in Tasks :
              /\ Posting(t)' \subseteq Posting(t)
              /\ accepted'[t] # accepted[t] =>
                    accepted'[t] = accepted[t] + 1 /\ Posting(t)' # Posting(t)]_allVars
  BY PostingStep
<1>2. QED BY <1>1, FullInvariant, PTL DEF DeliverySpec, DeletionEndsSending

(* Silent: the credential is deleted, no run of t is past the second query *)
(* and t was accepted n times.                                             *)
Silent(t, n) == credential = "deleted" /\ Posting(t) = {} /\ accepted[t] = n

(* SilentForGood: from then on t is never sent again, whatever is          *)
(* redelivered, retried or edited.                                         *)
THEOREM SilentForGood ==
    ASSUME NEW t \in Tasks, NEW n
    PROVE  DeliverySpec => [](Silent(t, n) => []Silent(t, n))
<1>1. FullInv /\ Silent(t, n) /\ [DeliveryNext]_allVars => Silent(t, n)'
  <2> SUFFICES ASSUME FullInv, Silent(t, n), [DeliveryNext]_allVars PROVE Silent(t, n)'
    OBVIOUS
  <2>1. credential' = "deleted"
    <3>1. ASSUME NEW x \in work, WorkStep(x) PROVE credential' = credential
      BY <3>1 DEF WorkStep, LoadTask, LoadCredential, CheckCredential, SendRefused, SendAccepted,
         ReplyLost, UpdateTask, DatabaseFails, PublishStatus
    <3>2. CASE StoreStep
      BY <3>2 DEF StoreStep, ApplyStatus, OpenForm, DeleteTask, SubmitForm, ChangeCredential, Silent
    <3>3. CASE \/ QueueStep /\ UNCHANGED store
               \/ \E w \in Workers : CrashWork(w)
               \/ \E d \in buffer : BeginWork(d)
               \/ UNCHANGED allVars
      BY <3>3 DEF store, CrashWork, BeginWork, allVars, Silent
    <3>4. QED BY <3>1, <3>2, <3>3 DEF DeliveryNext, StoreStep, Silent
  <2>2. Posting(t)' = {} /\ accepted'[t] = accepted[t]
    BY PostingStep DEF Silent
  <2>3. QED BY <2>1, <2>2 DEF Silent
<1>2. QED BY <1>1, FullInvariant, PTL DEF DeliverySpec

-----------------------------------------------------------------------------
(* While nothing fails: what was accepted has no other copy to send from,  *)
(* unless its row was deleted meanwhile.                                   *)

Sending(c) == \E x \in work : x.at \in {"update", "publish"} /\ x.h.d.copy = c
Answering(c) == Superseded(c) \/ Acking(c) \/ Sending(c)

AcceptedLeads ==
    /\ \A t \in Tasks : accepted[t] > 0 => t \in published
    /\ faults = 0 => \A c \in Queued \cup dlq :
         accepted[c.task] > 0 /\ row[c.task] # "deleted" => Answering(c)

QuietInv == FullInv /\ Calm /\ AcceptedLeads

(* The copies of the next state are answering if those of this one are.    *)
LEMMA LeadsKept ==
    ASSUME FullInv, AcceptedLeads, faults = 0,
           \A t \in Tasks : row'[t] # "deleted" => row[t] # "deleted",
           accepted' = accepted, Queued' \subseteq Queued, dlq' = dlq,
           \A c \in Queued \cup dlq :
             Answering(c) /\ row'[c.task] # "deleted" => c \notin Queued' \cup dlq \/ Answering(c)'
    PROVE  \A c \in (Queued \cup dlq)' :
             accepted'[c.task] > 0 /\ row'[c.task] # "deleted" => Answering(c)'
<1>1. \A c \in Queued \cup dlq : c.task \in Tasks
  <2>1. Queued \cup dlq \subseteq Copy
    BY DeliveriesTyped DEF FullInv, QueueInv, DeliveryInv, TypeOK, Queued
  <2>2. QED BY <2>1 DEF Copy
<1>2. QED BY <1>1 DEF AcceptedLeads

(* A callback that is about to retry or to reject was not accepted.        *)
LEMMA FailedUnsent ==
    ASSUME Steady, FullInv, AcceptedLeads, faults = 0, NEW h \in handlers, h.pc \in Kinds
    PROVE  /\ ~Answering(h.d.copy)
           /\ ~(accepted[h.d.copy.task] > 0 /\ row[h.d.copy.task] # "deleted")
<1>1. Open(h) /\ h.pc \notin {"ack", "ackRetry", "processing"}
  BY DEF Open, Answered, Kinds
<1>2. \A g \in handlers : g.pc \in {"ack", "ackRetry", "processing"} => g.d.copy # h.d.copy
  BY <1>1, SteadyFacts DEF Open, Answered
<1>3. ~Answering(h.d.copy)
  BY <1>2 DEF Answering, Superseded, Acking, Sending, FullInv, QueueInv, WorkShape, Running
<1>4. h.d.copy \in Queued
  BY <1>1, SteadyFacts
<1>5. QED BY <1>3, <1>4 DEF AcceptedLeads

LEMMA LeadsQueue ==
    ASSUME Steady, FullInv, AcceptedLeads, faults = 0, CalmStep, QueueStep, UNCHANGED store
    PROVE  \A c \in (Queued \cup dlq)' :
             accepted'[c.task] > 0 /\ row'[c.task] # "deleted" => Answering(c)'
<1>1. UNCHANGED <<row, accepted, work>> /\ \A c : Sending(c)' <=> Sending(c)
  BY DEF store, Sending
<1>2. ASSUME OtherStep
      PROVE  \A c \in (Queued \cup dlq)' :
               accepted'[c.task] > 0 /\ row'[c.task] # "deleted" => Answering(c)'
  <2>1. Queued' = Queued /\ dlq' = dlq /\ \A c : Answering(c)' <=> Answering(c)
    BY <1>1, <1>2, OtherSame DEF SameAnswers, Answering
  <2>2. QED BY <1>1, <2>1, LeadsKept
<1>3. ASSUME NEW t \in Tasks, Publish(t)
      PROVE  \A c \in (Queued \cup dlq)' :
               accepted'[c.task] > 0 /\ row'[c.task] # "deleted" => Answering(c)'
  <2>1. PICK b : /\ b.task = t /\ t \notin published
                 /\ Queued' = Queued \cup {b} /\ dlq' = dlq /\ handlers' = handlers
    BY <1>3 DEF Publish, IsFresh, Queued, client
  <2>2. \A c : Answering(c) => Answering(c)'
    BY <1>1, <2>1 DEF Answering, Superseded, Acking
  <2>3. QED BY <1>1, <2>1, <2>2 DEF AcceptedLeads
<1>4. ASSUME NEW h \in handlers, ScheduleRetry(h)
      PROVE  \A c \in (Queued \cup dlq)' :
               accepted'[c.task] > 0 /\ row'[c.task] # "deleted" => Answering(c)'
  <2>1. h.pc \in Kinds /\ Open(h)
    BY <1>4 DEF ScheduleRetry, CanScheduleRetry, Kinds, Open, Answered
  <2>2. /\ handlers' = (handlers \ {h}) \cup {[d |-> h.d, pc |-> "ackRetry"]}
        /\ UNCHANGED <<ready, unacked, dlq>>
        /\ \/ delayed' = delayed
           \/ \E b : b.task = h.d.copy.task /\ delayed' = delayed \cup {b}
    BY <1>4 DEF ScheduleRetry, IsFresh, MoveTo
  <2>3. \A c \in (Queued \cup dlq)' : c \in Queued \cup dlq \/ c.task = h.d.copy.task
    BY <2>2 DEF Queued
  <2>4. ~(accepted[h.d.copy.task] > 0 /\ row[h.d.copy.task] # "deleted") /\ ~Answering(h.d.copy)
    BY <2>1, FailedUnsent
  <2>5. \A c : c # h.d.copy /\ Answering(c) => Answering(c)'
    BY <1>1, <2>1, <2>2, SteadyFacts, Moves DEF Answering
  <2>6. QED BY <1>1, <2>3, <2>4, <2>5 DEF AcceptedLeads
<1>5. ASSUME NEW h \in handlers, AckSuccess(h) \/ AckScheduled(h) \/ RejectMessage(h)
      PROVE  \A c \in (Queued \cup dlq)' :
               accepted'[c.task] > 0 /\ row'[c.task] # "deleted" => Answering(c)'
  <2>1. Open(h) /\ (RejectMessage(h) => h.pc \in Kinds)
    BY <1>5 DEF AckSuccess, AckScheduled, RejectMessage, Open, Answered, Kinds
  <2>2. /\ UNCHANGED <<ready, delayed>> /\ unacked' = unacked \ {h.d}
        /\ handlers' = (handlers \ {h}) \cup {[d |-> h.d, pc |-> "finally"]}
        /\ dlq' = dlq \/ (RejectMessage(h) /\ dlq' \subseteq dlq \cup {h.d.copy})
    BY <1>5 DEF AckSuccess, AckScheduled, RejectMessage, MoveTo, Copies
  <2>3. h.d \in unacked /\ h.d.copy \notin ready \cup delayed \cup dlq
    BY <2>1, SteadyFacts
  <2>4. Queued' \subseteq Queued \ {h.d.copy}
    BY <2>2, <2>3, SteadyFacts DEF OnePlace, Queued, Copies
  <2>5. \A c : c # h.d.copy /\ Answering(c) => Answering(c)'
    BY <1>1, <2>1, <2>2, SteadyFacts, Moves DEF Answering
  <2>6. RejectMessage(h) => ~(accepted[h.d.copy.task] > 0 /\ row[h.d.copy.task] # "deleted")
    BY <2>1, FailedUnsent
  <2>7. QED BY <1>1, <2>2, <2>3, <2>4, <2>5, <2>6 DEF AcceptedLeads
<1>6. ASSUME NEW h \in handlers, ProcessSucceeds(h) PROVE FALSE
  <2>1. Running' # Running
    BY <1>6 DEF ProcessSucceeds, MoveTo, Running
  <2>2. WorkShape'
    BY WorkShapeStep DEF FullInv, QueueInv, DeliveryInv, DeliveryNext
  <2>3. QED BY <1>1, <2>1, <2>2 DEF FullInv, QueueInv, WorkShape
<1>7. ASSUME NEW d \in buffer, BeginProcessing(d) PROVE FALSE
  <2>1. Running' # Running
    <3> DEFINE g == [d |-> d, pc |-> "processing"]
    <3>1. g.d = d /\ g.pc = "processing" /\ g \in handlers'
      BY <1>7 DEF BeginProcessing
    <3>2. g \notin handlers
      BY <1>7, <3>1 DEF BeginProcessing, DispatcherFree
    <3> HIDE DEF g
    <3>3. QED BY <3>1, <3>2 DEF Running
  <2>2. WorkShape'
    BY WorkShapeStep DEF FullInv, QueueInv, DeliveryInv, DeliveryNext
  <2>3. QED BY <1>1, <2>1, <2>2 DEF FullInv, QueueInv, WorkShape
<1>8. QED
  BY <1>2, <1>3, <1>4, <1>5, <1>6, <1>7 DEF CalmStep, CalmHandlerStep, OtherStep

(* What a run leaves of the row, and of what was accepted.                 *)
LEMMA LeadsRun ==
    ASSUME Steady, FullInv, AcceptedLeads, faults = 0, faults' = 0, NEW x \in work, WorkStep(x)
    PROVE  \A c \in (Queued \cup dlq)' :
             accepted'[c.task] > 0 /\ row'[c.task] # "deleted" => Answering(c)'
<1>1. /\ x.h \in handlers /\ x.h.pc = "processing" /\ Open(x.h) /\ x.h.d.copy.task = TaskOf(x)
      /\ TaskOf(x) \in Tasks
  BY DEF FullInv, QueueInv, DeliveryInv, TypeOK, Handler, Delivery, Copy, WorkShape, Running, Open, Answered, TaskOf
<1>2. \A c \in Queued \cup dlq : c.task \in Tasks
  BY SteadyFacts
<1>3. /\ Queued' = Queued /\ dlq' = dlq
      /\ \A t \in Tasks : row'[t] # "deleted" => row[t] # "deleted"
  <2>1. ASSUME NEW h, ProcessSucceeds(h) \/ (\E kind \in Kinds : ProcessFails(h, kind)) \/ FaultyRun(h)
        PROVE  UNCHANGED broker
    BY <2>1 DEF ProcessSucceeds, ProcessFails, FaultyRun
  <2>2. UNCHANGED broker
    BY <2>1, WorkEffect DEF FullInv, QueueInv, vars
  <2>3. ASSUME NEW t \in Tasks, row'[t] # "deleted" PROVE row[t] # "deleted"
    <3>1. CASE UpdateTask(x)
      BY <1>1, <2>3, <3>1 DEF UpdateTask, FullInv, QueueInv, Records, RecordTypes
    <3>2. CASE ~UpdateTask(x)
      BY <2>3, <3>2 DEF WorkStep, LoadTask, LoadCredential, CheckCredential, SendRefused, SendAccepted,
         ReplyLost, DatabaseFails, PublishStatus
    <3>3. QED BY <3>1, <3>2
  <2>4. QED BY <2>2, <2>3 DEF broker, Queued
<1>4. CASE UNCHANGED vars /\ \E y \in Work : y.h = x.h /\ Advance(x, y)
  <2>1. \A c : /\ Superseded(c)' <=> Superseded(c)
               /\ Acking(c)' <=> Acking(c)
    BY <1>4 DEF vars, client, Superseded, Acking
  <2>2. CASE LoadTask(x) \/ LoadCredential(x) \/ CheckCredential(x) \/ UpdateTask(x)
    <3>1. accepted' = accepted
      BY <2>2 DEF LoadTask, LoadCredential, CheckCredential, UpdateTask
    <3>2. ASSUME NEW c, Sending(c) PROVE Sending(c)'
      <4>1. PICK z \in work : z.at \in {"update", "publish"} /\ z.h.d.copy = c
        BY <3>2 DEF Sending
      <4>2. CASE z # x
        BY <1>4, <4>1, <4>2 DEF Sending, Advance
      <4>3. CASE z = x
        <5>1. UpdateTask(x) /\ x.at = "update"
          BY <2>2, <4>1, <4>3 DEF LoadTask, LoadCredential, CheckCredential, UpdateTask
        <5>2. x.h = [x EXCEPT !.at = "publish"].h /\ [x EXCEPT !.at = "publish"].at = "publish"
          BY DEF FullInv, QueueInv, WorkShape, Work
        <5>3. x.h.pc = "processing" /\ handlers' = handlers
          BY <1>1, <1>4 DEF vars, client
        <5>4. ~Throw(x, "permanent")
          BY <5>3, <1>1 DEF Throw, ProcessFails, MoveTo
        <5>5. work' = (work \ {x}) \cup {[x EXCEPT !.at = "publish"]}
          BY <5>1, <5>4 DEF UpdateTask, Advance
        <5>6. QED BY <4>1, <4>3, <5>2, <5>5 DEF Sending
      <4>4. QED BY <4>2, <4>3
    <3>3. QED BY <1>3, <2>1, <3>1, <3>2, LeadsKept DEF Answering
  <2>3. CASE SendAccepted(x)
    <3>1. /\ accepted' = [accepted EXCEPT ![TaskOf(x)] = @ + 1] /\ x.at = "send"
          /\ work' = (work \ {x}) \cup {[x EXCEPT !.at = "update"]}
      BY <2>3 DEF SendAccepted, Advance
    <3>2. x.h = [x EXCEPT !.at = "update"].h /\ [x EXCEPT !.at = "update"].at = "update"
      BY DEF FullInv, QueueInv, WorkShape, Work
    <3>3. Sending(x.h.d.copy)'
      BY <3>1, <3>2 DEF Sending
    <3>4. \A c : Sending(c) => Sending(c)'
      BY <3>1 DEF Sending
    <3>5. ~Superseded(x.h.d.copy) /\ x.h.d.copy \in Queued
      BY <1>1, SteadyFacts DEF Superseded, Open, Answered
    <3>6. \A c \in Queued \cup dlq : c.task = TaskOf(x) => c = x.h.d.copy \/ Superseded(c)
      BY <1>1, <3>5, SteadyFacts DEF CalmFacts, OneLeads
    <3>7. \A t \in Tasks : t # TaskOf(x) => accepted'[t] = accepted[t]
      BY <3>1 DEF FullInv, QueueInv, Records, RecordTypes
    <3>8. QED BY <1>2, <1>3, <2>1, <3>3, <3>4, <3>6, <3>7 DEF AcceptedLeads, Answering
  <2>4. CASE SendRefused(x) \/ ReplyLost(x) \/ DatabaseFails(x) \/ PublishStatus(x)
    <3>1. handlers' # handlers
      <4>1. \E p \in {"ack"} \cup Kinds : MoveTo(x.h, p)
        BY <2>4 DEF SendRefused, ReplyLost, DatabaseFails, PublishStatus, Throw, Return,
           ProcessSucceeds, ProcessFails, FailureKinds, Kinds
      <4>2. QED BY <1>1, <4>1 DEF MoveTo, Kinds
    <3>2. QED BY <1>4, <3>1 DEF vars, client
  <2>5. QED BY <2>2, <2>3, <2>4 DEF WorkStep
<1>5. CASE ProcessSucceeds(x.h) /\ Leave(x)
  <2>1. handlers' = (handlers \ {x.h}) \cup {[d |-> x.h.d, pc |-> "ack"]} /\ work' = work \ {x}
    BY <1>5 DEF ProcessSucceeds, MoveTo, Leave
  <2>2. Acking(x.h.d.copy)' /\ \A c : c # x.h.d.copy => /\ Superseded(c)' <=> Superseded(c)
                                                        /\ Acking(c)' <=> Acking(c)
    BY <1>1, <2>1, SteadyFacts, Moves
  <2>3. \A c : c # x.h.d.copy /\ Sending(c) => Sending(c)'
    BY <2>1 DEF Sending
  <2>4. accepted' = accepted
    <3>1. ~SendAccepted(x) /\ ~ReplyLost(x)
      <4>1. handlers' # handlers /\ faults' = faults
        BY <1>1, <1>5, <2>1 DEF ProcessSucceeds
      <4>2. QED BY <4>1 DEF SendAccepted, ReplyLost, vars, client, FullInv, QueueInv, DeliveryInv, TypeOK
    <3>2. QED
      BY <3>1 DEF WorkStep, LoadTask, LoadCredential, CheckCredential, SendRefused, UpdateTask, DatabaseFails, PublishStatus
  <2>5. QED BY <1>3, <2>2, <2>3, <2>4, LeadsKept DEF Answering
<1>6. ASSUME NEW kind \in Kinds, ProcessFails(x.h, kind), Leave(x)
      PROVE  \A c \in (Queued \cup dlq)' :
               accepted'[c.task] > 0 /\ row'[c.task] # "deleted" => Answering(c)'
  <2>1. handlers' = (handlers \ {x.h}) \cup {[d |-> x.h.d, pc |-> kind]} /\ work' = work \ {x}
    BY <1>6 DEF ProcessFails, MoveTo, Leave
  <2>2. \A c : c # x.h.d.copy => /\ Superseded(c)' <=> Superseded(c)
                                 /\ Acking(c)' <=> Acking(c)
    BY <1>1, <2>1, SteadyFacts, Moves
  <2>3. \A c : c # x.h.d.copy /\ Sending(c) => Sending(c)'
    BY <2>1 DEF Sending
  <2>4. /\ accepted' = accepted /\ UNCHANGED row
        /\ x.at \in {"task", "credential", "check", "send"} \/ row[TaskOf(x)] = "deleted"
    <3>1. handlers' # handlers /\ faults' = faults /\ ~Return(x)
      <4>1. ~MoveTo(x.h, "ack")
        <5>1. \A g \in handlers : g.d = x.h.d => g = x.h
          BY <1>1 DEF FullInv, QueueInv, DeliveryInv, OneCallback
        <5>2. [d |-> x.h.d, pc |-> "ack"] \notin handlers'
          BY <1>1, <2>1, <5>1 DEF Kinds
        <5>3. QED BY <5>2 DEF MoveTo
      <4>2. QED BY <1>1, <1>6, <2>1, <4>1 DEF ProcessFails, Return, ProcessSucceeds, Kinds
    <3>2. ~SendAccepted(x) /\ ~ReplyLost(x) /\ ~DatabaseFails(x) /\ ~PublishStatus(x)
      BY <3>1 DEF SendAccepted, ReplyLost, DatabaseFails, PublishStatus, vars, client, FullInv, QueueInv, DeliveryInv, TypeOK
    <3>3. QED
      BY <3>1, <3>2 DEF WorkStep, LoadTask, LoadCredential, CheckCredential, SendRefused, UpdateTask, vars, client
  <2>5. Answering(x.h.d.copy) => row[TaskOf(x)] = "deleted"
    <3>1. ~Superseded(x.h.d.copy) /\ ~Acking(x.h.d.copy)
      BY <1>1, SteadyFacts DEF Superseded, Acking, Open, Answered
    <3>2. \A z \in work : z.h.d.copy = x.h.d.copy => z = x
      BY <1>1, SteadyFacts DEF FullInv, QueueInv, WorkShape, Running, Open, Answered
    <3>3. QED BY <2>4, <3>1, <3>2 DEF Answering, Sending
  <2>6. QED BY <1>1, <1>3, <2>2, <2>3, <2>4, <2>5, LeadsKept DEF Answering
<1>7. CASE FaultyRun(x.h)
  BY <1>7, FaultyRunKeeps, <1>1 DEF FullInv, QueueInv
<1>8. QED BY <1>4, <1>5, <1>6, <1>7, WorkEffect DEF FullInv, QueueInv

LEMMA PublishedStep ==
    ASSUME FullInv, AcceptedLeads, [DeliveryNext]_allVars
    PROVE  \A t \in Tasks : accepted'[t] > 0 => t \in published'
<1>1. published \subseteq published'
  <2>1. ASSUME NEW h, FaultyRun(h) PROVE published' = published
    BY <2>1 DEF FaultyRun, broker
  <2>2. QED BY <2>1, QueueEffect, PublishedGrows DEF FullInv, QueueInv
<1>2. ASSUME NEW x \in work, WorkStep(x)
      PROVE  accepted' = accepted \/ accepted' = [accepted EXCEPT ![TaskOf(x)] = @ + 1]
  BY <1>2 DEF WorkStep, LoadTask, LoadCredential, CheckCredential, SendRefused, SendAccepted,
     ReplyLost, UpdateTask, DatabaseFails, PublishStatus
<1>3. ASSUME NEW x \in work PROVE TaskOf(x) \in published
  BY DEF FullInv, QueueInv, WorkShape, Running, OnlyPublished, TaskOf
<1>4. CASE accepted' = accepted
  BY <1>1, <1>4 DEF AcceptedLeads
<1>5. ASSUME NEW x \in work, accepted' = [accepted EXCEPT ![TaskOf(x)] = @ + 1]
      PROVE  \A t \in Tasks : accepted'[t] > 0 => t \in published'
  BY <1>1, <1>3, <1>5 DEF AcceptedLeads, FullInv, QueueInv, Records, RecordTypes
<1>6. CASE \/ QueueStep /\ UNCHANGED store
           \/ \E w \in Workers : CrashWork(w)
           \/ \E d \in buffer : BeginWork(d)
           \/ UNCHANGED allVars
  BY <1>4, <1>6 DEF store, CrashWork, BeginWork, allVars
<1>7. CASE StoreStep
  BY <1>4, <1>7, StoreEffect
<1>8. QED BY <1>2, <1>4, <1>5, <1>6, <1>7 DEF DeliveryNext, StoreStep

LEMMA AcceptedLeadsStep ==
    ASSUME QuietInv, [DeliveryNext]_allVars
    PROVE  AcceptedLeads'
<1> USE DEF QuietInv
<1>1. SUFFICES ASSUME faults' = 0
               PROVE  \A c \in (Queued \cup dlq)' :
                        accepted'[c.task] > 0 /\ row'[c.task] # "deleted" => Answering(c)'
  BY PublishedStep DEF AcceptedLeads
<1>2. [Next]_vars
  BY <1>1, QueueEffect, FaultyRunKeeps DEF FullInv, QueueInv, DeliveryInv, TypeOK
<1>3. faults = 0 /\ CalmStep
  BY <1>1, <1>2, OnlyCalmSteps DEF FullInv, QueueInv, DeliveryInv
<1>4. Steady
  BY <1>3 DEF Steady, Calm, CalmFacts, FullInv, QueueInv
<1>5. CASE QueueStep /\ UNCHANGED store
  BY <1>3, <1>4, <1>5, LeadsQueue
<1>6. ASSUME NEW w \in Workers, CrashWork(w) PROVE FALSE
  BY <1>1, <1>3, <1>6 DEF CrashWork, Crash, Fault
<1>7. ASSUME NEW d \in buffer, BeginWork(d)
      PROVE  \A c \in (Queued \cup dlq)' :
               accepted'[c.task] > 0 /\ row'[c.task] # "deleted" => Answering(c)'
  <2>1. /\ UNCHANGED <<row, accepted, dlq>> /\ Queued' = Queued /\ work \subseteq work'
        /\ \A h \in handlers : h.pc # "signal" => h \in handlers'
    BY <1>7 DEF BeginWork, BeginProcessing, broker, Queued
  <2>2. \A c : Answering(c) => Answering(c)'
    BY <2>1 DEF Answering, Superseded, Acking, Sending
  <2>3. QED BY <1>3, <2>1, <2>2, LeadsKept
<1>8. CASE StoreStep
  <2>1. /\ UNCHANGED <<vars, work, accepted>>
    BY <1>8, StoreEffect
  <2>2. ASSUME NEW t \in Tasks, row'[t] # "deleted" PROVE row[t] # "deleted"
    BY <1>8, <2>2 DEF StoreStep, ApplyStatus, OpenForm, DeleteTask, SubmitForm, ChangeCredential,
       FullInv, QueueInv, Records, RecordTypes
  <2>3. Queued' = Queued /\ dlq' = dlq /\ \A c : Answering(c)' <=> Answering(c)
    BY <2>1 DEF vars, broker, client, Queued, Answering, Superseded, Acking, Sending
  <2>4. QED BY <1>3, <2>1, <2>2, <2>3, LeadsKept
<1>9. CASE UNCHANGED allVars
  <2>1. Queued' = Queued /\ UNCHANGED <<dlq, row, accepted>> /\ \A c : Answering(c)' <=> Answering(c)
    BY <1>9 DEF allVars, vars, store, broker, client, Queued, Answering, Superseded, Acking, Sending
  <2>2. QED BY <1>3, <2>1, LeadsKept
<1>10. ASSUME NEW x \in work, WorkStep(x)
       PROVE  \A c \in (Queued \cup dlq)' :
                accepted'[c.task] > 0 /\ row'[c.task] # "deleted" => Answering(c)'
  BY <1>1, <1>3, <1>4, <1>10, LeadsRun
<1>11. QED BY <1>5, <1>6, <1>7, <1>8, <1>9, <1>10 DEF DeliveryNext, StoreStep

LEMMA QuietInvariant == DeliverySpec => []QuietInv
<1>1. DeliveryInit => Calm /\ AcceptedLeads
  <2> SUFFICES ASSUME DeliveryInit PROVE Calm /\ AcceptedLeads
    OBVIOUS
  <2>1. Calm
    BY RetriesAssumption DEF DeliveryInit, Init, Calm, Undisturbed, OneLeads, DoneLeavesNone,
       Queued, Copies
  <2>2. AcceptedLeads
    BY DEF DeliveryInit, Init, AcceptedLeads, Queued, Copies
  <2>3. QED BY <2>1, <2>2
<1>2. FullInv /\ FullInv' /\ QuietInv /\ [DeliveryNext]_allVars => QuietInv'
  <2> SUFFICES ASSUME FullInv', QuietInv, [DeliveryNext]_allVars PROVE QuietInv'
    OBVIOUS
  <2> USE DEF QuietInv
  <2>1. AcceptedLeads'
    BY AcceptedLeadsStep
  <2>2. CASE faults' # 0
    BY <2>1, <2>2 DEF Calm
  <2>3. CASE faults' = 0
    <3>1. [Next]_vars
      BY <2>3, QueueEffect, FaultyRunKeeps DEF FullInv, QueueInv, DeliveryInv, TypeOK
    <3>2. faults = 0
      BY <2>3, <3>1, OnlyCalmSteps DEF FullInv, QueueInv, DeliveryInv
    <3>3. Calm'
      BY <3>1, <3>2, CalmStepKept DEF FullInv, QueueInv, DeliveryInv
    <3>4. QED BY <2>1, <3>3
  <2>4. QED BY <2>2, <2>3
<1>3. QED BY <1>1, <1>2, FullInvariant, PTL DEF DeliverySpec, QuietInv

(* RejectedIsUnsent: while nothing fails, a task in the dead letter queue  *)
(* was never accepted by the provider, whatever the operator edits but a   *)
(* deletion of the row: the failure that put it there came before the send *)
(* (DlqMeansUnsent).                                                       *)
THEOREM RejectedIsUnsent == DeliverySpec => []DlqMeansUnsent
<1>1. QuietInv => DlqMeansUnsent
  <2> SUFFICES ASSUME QuietInv, faults = 0, NEW t \in Tasks, NEW c \in dlq, c.task = t,
                      row[t] # "deleted", accepted[t] # 0
               PROVE  FALSE
    BY DEF DlqMeansUnsent, DeadLettered
  <2>1. Steady
    BY DEF Steady, Calm, CalmFacts, FullInv, QueueInv, QuietInv
  <2>2. accepted[t] > 0
    BY DEF QuietInv, FullInv, QueueInv, Records, RecordTypes
  <2>3. Answering(c)
    BY <2>2 DEF QuietInv, AcceptedLeads
  <2>4. PICK h \in handlers : h.pc \in {"ack", "ackRetry", "processing"} /\ h.d.copy = c
    BY <2>3 DEF Answering, Superseded, Acking, Sending, QuietInv, FullInv, QueueInv, WorkShape, Running
  <2>5. QED BY <2>1, <2>4, SteadyFacts DEF Open, Answered
<1>2. QED BY <1>1, QuietInvariant, PTL

-----------------------------------------------------------------------------
(* How often a message is sent: each copy that waits in the queue, each    *)
(* delivery a client has not dispatched and each callback that may still   *)
(* send or schedule a retry is one chance to send it.                      *)

CopiesOf(t) == {c \in Copy : c.task = t}
Early == {"task", "credential", "check", "send"}
MaySend(h) ==
    \/ h.pc = "transient"
    \/ h.pc = "nack" /\ h.d \in unacked
    \/ h.pc = "processing" /\ \E x \in work : x.h = h /\ x.at \in Early
Senders(t) == {h \in handlers : h.d.copy.task = t /\ MaySend(h)}
ToSend(t) == Total(Waiting(CopiesOf(t)), Buffered(CopiesOf(t)), Senders(t))

SendsPaid == \A t \in Tasks : accepted[t] + ToSend(t) <= Owed(t)

LEMMA FiniteToSend ==
    ASSUME FullInv, NEW t
    PROVE  /\ IsFiniteSet(Waiting(CopiesOf(t))) /\ IsFiniteSet(Buffered(CopiesOf(t)))
           /\ IsFiniteSet(Senders(t)) /\ ToSend(t) \in Nat
<1>1. IsFiniteSet(Waiting(CopiesOf(t))) /\ IsFiniteSet(Buffered(CopiesOf(t)))
  BY FiniteChances DEF FullInv, QueueInv, ClientsInv
<1>2. IsFiniteSet(Senders(t))
  BY FS_Subset DEF FullInv, QueueInv, DrainInv, Senders
<1>3. QED BY <1>1, <1>2, FS_CardinalityType DEF ToSend, Total

(* Between two steps of ProcessMessageAsync its runs stay where they are.  *)
LEMMA SendersAble ==
    ASSUME FullInv, FullInv', NEW t, work' = work
    PROVE  \E R : /\ ChanceClass(t, CopiesOf(t), R)
                  /\ Senders(t) = Able(CopiesOf(t), R) /\ Senders(t)' = Able(CopiesOf(t), R)'
<1> DEFINE R == {h \in Handler :
                   /\ h.d.copy.task = t
                   /\ \/ h.pc = "transient"
                      \/ h.pc = "processing" /\ \E x \in work : x.h = h /\ x.at \in Early}
<1>1. /\ handlers \subseteq Handler /\ handlers' \subseteq Handler
      /\ \A h \in Handler : h.d.copy \in Copy
  BY DEF FullInv, QueueInv, DeliveryInv, TypeOK, Handler, Delivery
<1>2. ChanceClass(t, CopiesOf(t), R)
  BY <1>1 DEF ChanceClass, CopiesOf
<1>3. Senders(t) = Able(CopiesOf(t), R)
  BY <1>1 DEF Senders, MaySend, Able, CopiesOf
<1>4. Senders(t)' = Able(CopiesOf(t), R)'
  BY <1>1 DEF Senders, MaySend, Able, CopiesOf
<1>5. QED BY <1>2, <1>3, <1>4

LEMMA ToSendQueue ==
    ASSUME FullInv, FullInv', NEW t \in Tasks, QueueStep, UNCHANGED store
    PROVE  Dearer(t, ToSend(t), ToSend(t)')
<1>1. PICK R : /\ ChanceClass(t, CopiesOf(t), R)
               /\ Senders(t) = Able(CopiesOf(t), R) /\ Senders(t)' = Able(CopiesOf(t), R)'
  BY SendersAble DEF store
<1>2. AroundStep
  BY DEF QueueStep, AroundStep
<1>3. Dearer(t, Chances(CopiesOf(t), R), Chances(CopiesOf(t), R)')
  BY <1>1, <1>2, ChancesAround DEF FullInv, QueueInv, ClientsInv
<1>4. QED BY <1>1, <1>3 DEF ToSend, Chances, Total

(* A callback that moves on to its answer has no chance left.              *)
LEMMA SendersLeft ==
    ASSUME NEW t, NEW h \in handlers, NEW p, MoveTo(h, p), p \notin {"transient", "nack", "processing"},
           work' \subseteq work, unacked' \subseteq unacked
    PROVE  Senders(t)' \subseteq Senders(t) \ {h}
<1>1. ASSUME NEW g \in Senders(t)' PROVE g \in handlers /\ g # h
  BY <1>1 DEF Senders, MaySend, MoveTo
<1>2. QED BY <1>1 DEF Senders, MaySend

(* A run that has sent has used its chance; one that failed may leave its  *)
(* callback a chance to retry.                                             *)
LEMMA ToSendRun ==
    ASSUME FullInv, NEW t \in Tasks, NEW x \in work, WorkStep(x)
    PROVE  /\ published' = published
           /\ \/ accepted'[t] + ToSend(t)' <= accepted[t] + ToSend(t)
              \/ accepted'[t] + ToSend(t)' <= accepted[t] + ToSend(t) + 1 /\ faults' = faults + 1
<1> DEFINE h == x.h
<1> USE DEF Early
<1>1. /\ WorkShape /\ x \in Work /\ h \in handlers /\ h.pc = "processing"
      /\ accepted \in [Tasks -> Nat] /\ TaskOf(x) = h.d.copy.task
  BY DEF FullInv, WorkShape, Running, Records, RecordTypes, TaskOf
<1>2. UNCHANGED <<ready, delayed, unacked, published, buffer>>
  <2>1. CASE UNCHANGED vars
    BY <2>1 DEF vars, broker, client
  <2>2. CASE ProcessSucceeds(h) \/ \E kind \in Kinds : ProcessFails(h, kind)
    BY <2>2 DEF ProcessSucceeds, ProcessFails, broker
  <2>3. CASE FaultyRun(h)
    BY <2>3 DEF FaultyRun, broker
  <2>4. QED BY <1>1, <2>1, <2>2, <2>3, WorkEffect
<1>3. Waiting(CopiesOf(t))' \subseteq Waiting(CopiesOf(t)) /\ Buffered(CopiesOf(t))' \subseteq Buffered(CopiesOf(t))
  BY <1>2 DEF Waiting, Buffered
<1>4. ASSUME NEW i, Change(Senders(t), Senders(t)', i)
      PROVE  /\ i \in Int /\ ToSend(t) \in Nat /\ ToSend(t)' \in Nat
             /\ ToSend(t)' <= ToSend(t) + i
  <2>1. Change(Waiting(CopiesOf(t)), Waiting(CopiesOf(t))', 0) /\ Change(Buffered(CopiesOf(t)), Buffered(CopiesOf(t))', 0)
    BY <1>3 DEF Change
  <2>2. i \in Int
    BY <1>4 DEF Change
  <2>3. /\ ToSend(t) \in Nat /\ Total(Waiting(CopiesOf(t))', Buffered(CopiesOf(t))', Senders(t)') \in Nat
        /\ Total(Waiting(CopiesOf(t))', Buffered(CopiesOf(t))', Senders(t)') <= ToSend(t) + (0 + 0 + i)
    BY <1>4, <2>1, FiniteToSend, TotalChanged DEF ToSend
  <2>4. QED BY <2>2, <2>3 DEF ToSend, Total
<1>5. ASSUME Senders(t)' \subseteq Senders(t), accepted' = accepted
      PROVE  accepted'[t] + ToSend(t)' <= accepted[t] + ToSend(t)
  BY <1>1, <1>4, <1>5 DEF Change
<1>6. x.at \in Early => (h \in Senders(t) <=> TaskOf(x) = t)
  BY <1>1 DEF Senders, MaySend
(* The run goes on. *)
<1>7. ASSUME NEW y, Advance(x, y), y.h = h, UNCHANGED vars
      PROVE  /\ x.at \in Early \/ y.at \notin Early => Senders(t)' \subseteq Senders(t)
             /\ y.at \notin Early => Senders(t)' \subseteq Senders(t) \ {h}
  <2>1. handlers' = handlers /\ work' = (work \ {x}) \cup {y}
    BY <1>7 DEF Advance, vars, client
  <2>2. ASSUME NEW g \in handlers, NEW z \in work', z.h = g
        PROVE  (z \in work /\ (z = x \/ g # h)) \/ (z = y /\ g = h)
    BY <1>1, <1>7, <2>1, <2>2 DEF WorkShape
  <2>3. QED BY <1>1, <1>2, <2>1, <2>2 DEF Senders, MaySend
(* The run fails and may be retried. *)
<1>8. ASSUME NEW kind \in Kinds, MoveTo(h, kind), Leave(x), x.at \in Early
      PROVE  Change(Senders(t), Senders(t)', 0)
  <2> DEFINE g == [d |-> h.d, pc |-> kind]
  <2>1. handlers' = (handlers \ {h}) \cup {g} /\ work' \subseteq work /\ g.d = h.d
    BY <1>8 DEF MoveTo, Leave
  <2> HIDE DEF g
  <2>2. Senders(t)' \subseteq (Senders(t) \ {h}) \cup {g}
    BY <1>2, <2>1 DEF Senders, MaySend
  <2>3. CASE TaskOf(x) = t
    BY <1>6, <1>8, <2>2, <2>3 DEF Change
  <2>4. CASE TaskOf(x) # t
    <3>1. g \notin Senders(t)'
      BY <1>1, <2>1, <2>4 DEF Senders
    <3>2. QED BY <2>2, <3>1 DEF Change
  <2>5. QED BY <2>3, <2>4
(* The run ends for good. *)
<1>9. ASSUME NEW p \in {"ack", "permanent"}, MoveTo(h, p), Leave(x)
      PROVE  Senders(t)' \subseteq Senders(t)
  BY <1>1, <1>2, <1>9, SendersLeft DEF Leave
<1>10. ASSUME accepted' = accepted, Return(x) \/ Throw(x, "permanent")
       PROVE  accepted'[t] + ToSend(t)' <= accepted[t] + ToSend(t)
  BY <1>5, <1>9, <1>10 DEF Return, Throw, ProcessSucceeds, ProcessFails
<1>11. CASE LoadTask(x)
  <2> DEFINE y == [x EXCEPT !.at = "credential"]
  <2>1. y.h = h
    BY <1>1 DEF Work
  <2> HIDE DEF y
  <2>2. CASE Advance(x, y) /\ UNCHANGED vars /\ accepted' = accepted
    BY <1>2, <1>5, <1>7, <1>11, <2>1, <2>2 DEF LoadTask
  <2>3. QED BY <1>2, <1>10, <1>11, <2>2 DEF LoadTask, y
<1>12. CASE LoadCredential(x)
  <2> DEFINE y == [x EXCEPT !.at = "check", !.active = (credential = "active")]
  <2>1. y.h = h
    BY <1>1 DEF Work
  <2> HIDE DEF y
  <2>2. CASE Advance(x, y) /\ UNCHANGED vars /\ accepted' = accepted
    BY <1>2, <1>5, <1>7, <1>12, <2>1, <2>2 DEF LoadCredential
  <2>3. QED BY <1>2, <1>10, <1>12, <2>2 DEF LoadCredential, y
<1>20. CASE CheckCredential(x)
  <2> DEFINE y == [x EXCEPT !.at = "send"]
  <2>1. y.h = h
    BY <1>1 DEF Work
  <2> HIDE DEF y
  <2>2. CASE Advance(x, y) /\ UNCHANGED vars /\ accepted' = accepted
    BY <1>2, <1>5, <1>7, <1>20, <2>1, <2>2 DEF CheckCredential
  <2>3. QED BY <1>2, <1>10, <1>20, <2>2 DEF CheckCredential, y
<1>13. CASE SendRefused(x)
  <2>1. \E kind \in Kinds : MoveTo(h, kind) /\ Leave(x)
    BY <1>13 DEF SendRefused, Throw, ProcessFails, FailureKinds, Kinds
  <2>2. x.at \in Early /\ accepted' = accepted
    BY <1>13 DEF SendRefused
  <2>3. Change(Senders(t), Senders(t)', 0)
    BY <1>8, <2>1, <2>2
  <2>4. QED BY <1>1, <1>2, <1>4, <2>2, <2>3
<1>14. ASSUME accepted' = [accepted EXCEPT ![TaskOf(x)] = @ + 1]
       PROVE  accepted'[t] = IF TaskOf(x) = t THEN accepted[t] + 1 ELSE accepted[t]
  BY <1>1, <1>14
<1>15. CASE SendAccepted(x)
  <2> DEFINE y == [x EXCEPT !.at = "update"]
  <2>1. /\ y.h = h /\ y.at \notin Early /\ x.at \in Early /\ Advance(x, y) /\ UNCHANGED vars
        /\ accepted' = [accepted EXCEPT ![TaskOf(x)] = @ + 1]
    BY <1>1, <1>15 DEF Work, SendAccepted
  <2> HIDE DEF y
  <2>2. Senders(t)' \subseteq Senders(t) \ {h}
    BY <1>7, <2>1
  <2>3. CASE TaskOf(x) = t
    <3>1. Change(Senders(t), Senders(t)', -1)
      BY <1>6, <2>1, <2>2, <2>3 DEF Change
    <3>2. QED BY <1>1, <1>2, <1>4, <1>14, <2>1, <2>3, <3>1
  <2>4. CASE TaskOf(x) # t
    <3>1. Change(Senders(t), Senders(t)', 0)
      BY <2>2 DEF Change
    <3>2. QED BY <1>1, <1>2, <1>4, <1>14, <2>1, <2>4, <3>1
  <2>5. QED BY <2>3, <2>4
<1>16. CASE ReplyLost(x)
  <2>1. /\ \E kind \in Kinds : MoveTo(h, kind) /\ Leave(x)
        /\ x.at \in Early /\ faults' = faults + 1
        /\ accepted' = [accepted EXCEPT ![TaskOf(x)] = @ + 1]
    BY <1>16 DEF ReplyLost, FailureKinds, Kinds
  <2>2. Change(Senders(t), Senders(t)', 0)
    BY <1>8, <2>1
  <2>3. QED BY <1>1, <1>2, <1>4, <1>14, <2>1, <2>2
<1>17. CASE UpdateTask(x)
  <2> DEFINE y == [x EXCEPT !.at = "publish"]
  <2>1. y.h = h /\ y.at \notin Early
    BY <1>1 DEF Work
  <2> HIDE DEF y
  <2>2. CASE Advance(x, y) /\ UNCHANGED vars
    BY <1>2, <1>5, <1>7, <1>17, <2>1, <2>2 DEF UpdateTask
  <2>3. QED BY <1>2, <1>10, <1>17, <2>2 DEF UpdateTask, y
<1>18. CASE DatabaseFails(x)
  BY <1>2, <1>5, <1>9, <1>18 DEF DatabaseFails
<1>19. CASE PublishStatus(x)
  BY <1>2, <1>10, <1>19 DEF PublishStatus
<1>21. QED
  BY <1>11, <1>12, <1>13, <1>15, <1>16, <1>17, <1>18, <1>19, <1>20 DEF WorkStep

LEMMA FaultsCounted ==
    ASSUME WorkShape, [DeliveryNext]_allVars
    PROVE  published \subseteq published' /\ faults' \in {faults, faults + 1}
<1>1. ASSUME NEW h, FaultyRun(h) PROVE published' = published /\ faults' = faults + 1
  BY <1>1 DEF FaultyRun, broker
<1>2. QED BY <1>1, QueueEffect, FaultsGrow

LEMMA SendsPaidStep ==
    ASSUME FullInv, FullInv', SendsPaid, [DeliveryNext]_allVars
    PROVE  SendsPaid'
<1> SUFFICES ASSUME NEW t \in Tasks PROVE accepted'[t] + ToSend(t)' <= Owed(t)'
  BY DEF SendsPaid
<1>1. /\ accepted[t] \in Nat /\ accepted'[t] \in Nat /\ faults \in Nat
      /\ ToSend(t) \in Nat /\ ToSend(t)' \in Nat
  <2>1. IsFiniteSet(Waiting(CopiesOf(t))') /\ IsFiniteSet(Buffered(CopiesOf(t))') /\ IsFiniteSet(Senders(t)')
    BY FS_Subset DEF FullInv, QueueInv, DrainInv, PrefetchInv, Waiting, Buffered, Senders
  <2>2. ToSend(t) \in Nat /\ ToSend(t)' \in Nat
    BY <2>1, FiniteToSend, FS_CardinalityType DEF ToSend, Total
  <2>3. QED BY <2>2 DEF FullInv, QueueInv, DeliveryInv, TypeOK, Records, RecordTypes
<1>2. accepted[t] + ToSend(t) <= Owed(t)
  BY DEF SendsPaid
<1>3. published \subseteq published' /\ faults' \in {faults, faults + 1}
  BY FaultsCounted DEF FullInv
<1>4. ASSUME accepted' = accepted, Dearer(t, ToSend(t), ToSend(t)')
      PROVE  accepted'[t] + ToSend(t)' <= Owed(t)'
  BY <1>1, <1>2, <1>3, <1>4, StaysPaid
<1>5. ASSUME \/ accepted'[t] + ToSend(t)' <= accepted[t] + ToSend(t)
             \/ accepted'[t] + ToSend(t)' <= accepted[t] + ToSend(t) + 1 /\ faults' = faults + 1
      PROVE  accepted'[t] + ToSend(t)' <= Owed(t)'
  BY <1>1, <1>2, <1>3, <1>5, StaysPaid
<1>6. CASE QueueStep /\ UNCHANGED store
  BY <1>4, <1>6, ToSendQueue DEF store
<1>7. ASSUME NEW w \in Workers, CrashWork(w) PROVE accepted'[t] + ToSend(t)' <= Owed(t)'
  <2> DEFINE D == Of(w, unacked)
             K == CopiesOf(t)
  <2>1. /\ accepted' = accepted /\ faults' = faults + 1 /\ delayed' = delayed
        /\ Requeue(D) /\ buffer' \subseteq buffer /\ handlers' \subseteq handlers
        /\ work' \subseteq work /\ unacked' \subseteq unacked
    BY <1>7 DEF CrashWork, Crash, Fault, Requeue
  <2>2. Buffered(K)' \subseteq Buffered(K) /\ Senders(t)' \subseteq Senders(t)
    BY <2>1 DEF Buffered, Senders, MaySend
  <2>3. Waiting(K)' \subseteq Waiting(K) \cup Copies(D)
    BY <2>1 DEF Waiting, Requeue, Of, Copies
  <2>4. IsFiniteSet(D) /\ Cardinality(D) <= Prefetch
    BY FS_Subset DEF FullInv, QueueInv, PrefetchInv, Of
  <2>5. IsFiniteSet(Waiting(K)) /\ IsFiniteSet(Buffered(K)) /\ IsFiniteSet(Senders(t))
    BY FiniteToSend
  <2> HIDE DEF D, K
  <2>6. Total(Waiting(K)', Buffered(K)', Senders(t)')
          <= Total(Waiting(K), Buffered(K), Senders(t)) + Prefetch
    BY <2>2, <2>3, <2>4, <2>5, TotalRequeued
  <2>7. QED BY <1>4, <2>1, <2>6 DEF Dearer, ToSend, Total, K
<1>8. ASSUME NEW d \in buffer, BeginWork(d) PROVE accepted'[t] + ToSend(t)' <= Owed(t)'
  <2> DEFINE g == [d |-> d, pc |-> "processing"]
             y == [h |-> g, at |-> "task", active |-> FALSE]
             K == CopiesOf(t)
  <2>1. /\ UNCHANGED <<ready, delayed, unacked, accepted>> /\ buffer' = buffer \ {d}
        /\ handlers' \subseteq handlers \cup {g} /\ work' = work \cup {y}
        /\ g.d = d /\ y.h = g
    BY <1>8 DEF BeginWork, BeginProcessing, broker
  <2> HIDE DEF g, y
  <2>2. Waiting(K)' \subseteq Waiting(K)
    BY <2>1 DEF Waiting
  <2>3. Senders(t)' \subseteq Senders(t) \cup {g}
    BY <2>1 DEF Senders, MaySend
  <2>4. d.copy \in K <=> d.copy.task = t
    BY DEF CopiesOf, FullInv, QueueInv, DeliveryInv, TypeOK, Delivery
  <2>5. PICK j, k : /\ Change(Buffered(K), Buffered(K)', j) /\ Change(Senders(t), Senders(t)', k)
                    /\ j + k = 0 /\ j \in Int /\ k \in Int
    <3>1. CASE d.copy.task = t
      <4>1. Change(Buffered(K), Buffered(K)', -1)
        BY <2>1, <2>4, <3>1 DEF Buffered, Change
      <4>2. Change(Senders(t), Senders(t)', 1)
        BY <2>3 DEF Change
      <4>3. QED BY <4>1, <4>2
    <3>2. CASE d.copy.task # t
      <4>1. Change(Buffered(K), Buffered(K)', 0)
        BY <2>1 DEF Buffered, Change
      <4>2. Change(Senders(t), Senders(t)', 0)
        BY <2>1, <2>3, <3>2 DEF Senders, Change
      <4>3. QED BY <4>1, <4>2
    <3>3. QED BY <3>1, <3>2
  <2>6. IsFiniteSet(Waiting(K)) /\ IsFiniteSet(Buffered(K)) /\ IsFiniteSet(Senders(t))
    BY FiniteToSend
  <2>7. Change(Waiting(K), Waiting(K)', 0)
    BY <2>2 DEF Change
  <2> HIDE DEF K
  <2>8. /\ Total(Waiting(K), Buffered(K), Senders(t)) \in Nat
        /\ Total(Waiting(K)', Buffered(K)', Senders(t)') \in Nat
        /\ Total(Waiting(K)', Buffered(K)', Senders(t)')
             <= Total(Waiting(K), Buffered(K), Senders(t)) + (0 + j + k)
    BY <2>5, <2>6, <2>7, TotalChanged
  <2>9. ToSend(t)' <= ToSend(t)
    BY <2>5, <2>8 DEF ToSend, Total, K
  <2>10. QED BY <1>4, <2>1, <2>9 DEF Dearer
<1>9. ASSUME NEW x \in work, WorkStep(x) PROVE accepted'[t] + ToSend(t)' <= Owed(t)'
  BY <1>5, <1>9, ToSendRun
<1>10. CASE StoreStep \/ UNCHANGED allVars
  <2>1. UNCHANGED <<ready, delayed, unacked, buffer, handlers, work, accepted>>
    BY <1>10, StoreEffect DEF allVars, vars, broker, client, store
  <2>2. ToSend(t)' = ToSend(t)
    BY <2>1 DEF ToSend, Total, Waiting, Buffered, Senders, MaySend
  <2>3. QED BY <1>1, <1>5, <2>1, <2>2
<1>11. QED BY <1>6, <1>7, <1>8, <1>9, <1>10 DEF DeliveryNext, StoreStep

LEMMA SendsPaidInvariant == DeliverySpec => [](FullInv /\ SendsPaid)
<1>1. DeliveryInit => SendsPaid
  <2> SUFFICES ASSUME DeliveryInit, NEW t \in Tasks PROVE accepted[t] + ToSend(t) <= Owed(t)
    BY DEF SendsPaid
  <2>1. Waiting(CopiesOf(t)) = {} /\ Buffered(CopiesOf(t)) = {} /\ Senders(t) = {}
    BY DEF DeliveryInit, Init, Waiting, Buffered, Senders
  <2>2. ToSend(t) = 0
    BY <2>1, FS_EmptySet DEF ToSend, Total
  <2>3. QED BY <2>2, PrefetchAssumption DEF DeliveryInit, Init, Owed
<1>2. FullInv /\ FullInv' /\ SendsPaid /\ [DeliveryNext]_allVars => SendsPaid'
  BY SendsPaidStep
<1>3. QED BY <1>1, <1>2, FullInvariant, PTL DEF DeliverySpec

LEMMA PaidIsEnough == FullInv /\ SendsPaid => DuplicatesNeedFaults
<1> SUFFICES ASSUME FullInv, SendsPaid, NEW t \in Tasks PROVE accepted[t] <= 1 + Prefetch * faults
  BY DEF DuplicatesNeedFaults
<1>1. ToSend(t) \in Nat
  BY FiniteToSend
<1>2. accepted[t] \in Nat /\ Prefetch * faults \in Nat
  BY PrefetchAssumption DEF FullInv, QueueInv, DeliveryInv, TypeOK, Records, RecordTypes
<1>3. QED BY <1>1, <1>2 DEF SendsPaid, Owed

(* DuplicatesAreCounted: for any prefetch and any number of workers, faults, *)
(* stops and edits, a message is accepted at most once, and Prefetch times *)
(* more for each fault (DuplicatesNeedFaults).                             *)
THEOREM DuplicatesAreCounted == DeliverySpec => []DuplicatesNeedFaults
BY PaidIsEnough, SendsPaidInvariant, PTL

-----------------------------------------------------------------------------
(* Each task is a notification.                                            *)

(* Nothing that Notification shows of the queue has changed for t. *)
SameQueue(t) ==
    /\ (Live(t)' <=> Live(t)) /\ (DeadLettered(t)' <=> DeadLettered(t))
    /\ (t \in published' <=> t \in published)

LEMMA NoteKept ==
    ASSUME NEW t, SameQueue(t), UNCHANGED <<accepted, row, forced>>
    PROVE  /\ faults' = faults => UNCHANGED Note(t)!vars
           /\ faults' = faults + 1 => Note(t)!Fail
<1>1. (Live(t))' = Live(t) /\ (DeadLettered(t))' = DeadLettered(t)
  BY DEF SameQueue, Live, DeadLettered
<1>2. (t \in published)' = (t \in published) /\ (t \in forced)' = (t \in forced)
  BY DEF SameQueue
<1>3. accepted'[t] = accepted[t] /\ row'[t] = row[t]
  OBVIOUS
<1>4. faults' = faults => UNCHANGED Note(t)!vars
  BY <1>1, <1>2, <1>3, Zenon DEF Note!vars
<1>5. faults' = faults + 1 => Note(t)!Fail
  BY <1>1, <1>2, <1>3, Zenon DEF Note!Fail
<1>6. QED BY <1>4, <1>5

(* What a step of the queue shows of a task: it is published, a retry of   *)
(* it is scheduled, a copy of it is answered for good or rejected, or      *)
(* nothing changes but the faults.                                         *)
LEMMA QueueMoves ==
    ASSUME FullInv, RetryManaged, [Next]_vars, NEW t \in Tasks
    PROVE  \/ SameQueue(t)
           \/ /\ faults' = faults /\ (DeadLettered(t)' <=> DeadLettered(t))
              /\ \/ t \notin published /\ t \in published' /\ Live(t)'
                 \/ published' = published /\ Live(t)'
                    /\ \E h \in handlers : h.d.copy.task = t /\ ScheduleRetry(h)
                 \/ published' = published /\ Live(t) /\ ~Live(t)'
           \/ /\ faults' = faults /\ published' = published /\ Live(t) /\ DeadLettered(t)'
              /\ \E h \in handlers : h.d \in unacked /\ h.d.copy.task = t /\ RejectMessage(h)
<1>1. CASE UNCHANGED <<published, done, dlq>> /\ Queued' = Queued
  BY <1>1 DEF SameQueue, Live, DeadLettered
<1>2. ASSUME NEW u \in Tasks, Publish(u)
      PROVE  \/ SameQueue(t)
             \/ /\ faults' = faults /\ (DeadLettered(t)' <=> DeadLettered(t))
                /\ t \notin published /\ t \in published' /\ Live(t)'
  <2>1. PICK c : c.task = u /\ Queued' = Queued \cup {c}
    BY <1>2 DEF Publish, IsFresh, Queued
  <2>2. /\ dlq' = dlq /\ faults' = faults /\ u \notin published
        /\ published' = published \cup {u}
    BY <1>2 DEF Publish
  <2>3. QED BY <2>1, <2>2 DEF SameQueue, Live, DeadLettered
<1>3. ASSUME NEW h \in handlers, ProcessSucceeds(h) PROVE SameQueue(t)
  BY <1>3 DEF ProcessSucceeds, broker, SameQueue, Live, Queued, DeadLettered
<1>4. ASSUME NEW h \in handlers, ScheduleRetry(h)
      PROVE  \/ SameQueue(t)
             \/ /\ faults' = faults /\ (DeadLettered(t)' <=> DeadLettered(t))
                /\ published' = published /\ Live(t)' /\ h.d.copy.task = t
  <2>1. /\ UNCHANGED <<ready, dlq, unacked, published, faults>>
        /\ \/ delayed' = delayed
           \/ \E c : c.task = h.d.copy.task /\ delayed' = delayed \cup {c}
    BY <1>4 DEF ScheduleRetry, IsFresh, history
  <2>2. QED BY <2>1 DEF SameQueue, Live, DeadLettered, Queued
<1>5. ASSUME NEW h \in handlers, AckSuccess(h) \/ AckScheduled(h)
      PROVE  \/ SameQueue(t)
             \/ /\ faults' = faults /\ (DeadLettered(t)' <=> DeadLettered(t))
                /\ published' = published /\ Live(t) /\ ~Live(t)'
  <2>1. UNCHANGED <<ready, delayed, dlq, published, faults>> /\ unacked' = unacked \ {h.d}
    BY <1>5 DEF AckSuccess, AckScheduled, history
  <2>2. Queued' \subseteq Queued
    BY <2>1 DEF Queued, Copies
  <2>3. QED BY <2>1, <2>2 DEF SameQueue, Live, DeadLettered
<1>6. ASSUME NEW h \in handlers, RejectMessage(h)
      PROVE  \/ SameQueue(t)
             \/ /\ faults' = faults /\ published' = published /\ Live(t) /\ DeadLettered(t)'
                /\ h.d \in unacked /\ h.d.copy.task = t
  <2>1. /\ UNCHANGED <<ready, delayed, published, faults>> /\ unacked' = unacked \ {h.d}
        /\ dlq' = dlq \cup Copies({h.d} \cap unacked)
    BY <1>6 DEF RejectMessage, history
  <2>2. CASE h.d \notin unacked
    <3>1. dlq' = dlq /\ unacked' = unacked
      BY <2>1, <2>2 DEF Copies
    <3>2. QED BY <2>1, <3>1 DEF SameQueue, Live, DeadLettered, Queued
  <2>3. CASE h.d \in unacked
    <3>1. dlq' = dlq \cup {h.d.copy} /\ h.d.copy \in Queued
      BY <2>1, <2>3 DEF Copies, Queued
    <3>2. \A c \in Queued : c \in Queued' \/ c = h.d.copy
      BY <2>1 DEF Queued, Copies
    <3>3. Queued' \subseteq Queued
      BY <2>1 DEF Queued, Copies
    <3>4. CASE h.d.copy.task = t
      BY <2>1, <2>3, <3>1, <3>4 DEF Live, DeadLettered
    <3>5. CASE h.d.copy.task # t
      BY <2>1, <3>1, <3>2, <3>3, <3>5 DEF SameQueue, Live, DeadLettered
    <3>6. QED BY <3>4, <3>5
  <2>4. QED BY <2>2, <2>3
<1>7. QED BY <1>1, <1>2, <1>3, <1>4, <1>5, <1>6, QuietSteps DEF FullInv, QueueInv, DeliveryInv

LEMMA NoteQueue ==
    ASSUME QuietInv, FullInv', RetryManaged, [Next]_vars, UNCHANGED <<accepted, row, forced>>,
           faults' \in {faults, faults + 1}, NEW t \in Tasks
    PROVE  [Note(t)!Next]_(Note(t)!vars)
<1> USE DEF QuietInv
<1>1. CASE SameQueue(t)
  BY <1>1, NoteKept DEF Note!Next
<1>2. (t \in forced)' = (t \in forced) /\ accepted'[t] = accepted[t] /\ row'[t] = row[t]
  OBVIOUS
<1>3. ASSUME DeadLettered(t)' <=> DeadLettered(t) PROVE (DeadLettered(t))' = DeadLettered(t)
  BY <1>3 DEF DeadLettered
<1>4. ASSUME published' = published PROVE (t \in published)' = (t \in published)
  BY <1>4
<1>5. Live(t) => t \in published
  BY DEF FullInv, QueueInv, OnlyPublished, Live
<1>6. CASE /\ faults' = faults /\ (DeadLettered(t)' <=> DeadLettered(t))
           /\ t \notin published /\ t \in published' /\ Live(t)'
  <2>1. (t \in published)' = TRUE /\ (Live(t))' = TRUE
    BY <1>6 DEF Live
  <2>2. Note(t)!Request
    BY <1>2, <1>3, <1>6, <2>1 DEF Note!Request
  <2>3. QED BY <2>2 DEF Note!Next
<1>7. ASSUME faults' = faults, DeadLettered(t)' <=> DeadLettered(t), published' = published, Live(t)',
             NEW h \in handlers, h.d.copy.task = t, ScheduleRetry(h)
      PROVE  [Note(t)!Next]_(Note(t)!vars)
  <2>1. CASE Live(t)
    <3>1. SameQueue(t)
      BY <1>7, <2>1 DEF SameQueue
    <3>2. QED BY <1>1, <3>1
  <2>2. CASE ~Live(t)
    <3>1. h.d \notin unacked
      BY <1>7, <2>2 DEF Live, Queued, Copies
    <3>2. Open(h)
      BY <1>7 DEF ScheduleRetry, CanScheduleRetry, Open, Answered
    <3>3. faults # 0
      BY <3>1, <3>2 DEF Calm, Undisturbed
    <3>4. faults > 0
      BY <3>3 DEF FullInv, QueueInv, DeliveryInv, TypeOK
    <3>5. t \in published /\ (Live(t))' = TRUE
      BY <1>7 DEF FullInv, QueueInv, OnlyPublished, Live
    <3>6. Note(t)!Revive
      BY <1>2, <1>3, <1>4, <1>7, <3>4, <3>5 DEF Note!Revive
    <3>7. QED BY <3>6 DEF Note!Next
  <2>3. QED BY <2>1, <2>2
<1>8. CASE /\ faults' = faults /\ (DeadLettered(t)' <=> DeadLettered(t))
           /\ published' = published /\ Live(t) /\ ~Live(t)'
  <2>1. t \in forced \/ accepted[t] > 0 \/ DeadLettered(t)
    BY <1>5, <1>8, RetryManaged DEF FullInv, QueueInv, DeliveryInv, NoLoss, Records, Recorded, Taken
  <2>2. (Live(t))' = FALSE
    BY <1>8 DEF Live
  <2>3. Note(t)!Settle
    BY <1>2, <1>3, <1>4, <1>8, <2>1, <2>2 DEF Note!Settle
  <2>4. QED BY <2>3 DEF Note!Next
<1>9. ASSUME faults' = faults, published' = published, Live(t), DeadLettered(t)',
             NEW h \in handlers, h.d \in unacked, h.d.copy.task = t, RejectMessage(h)
      PROVE  [Note(t)!Next]_(Note(t)!vars)
  <2>1. ASSUME faults = 0, row[t] # "deleted" PROVE accepted[t] = 0
    <3>1. Steady
      BY <2>1 DEF Steady, Calm, CalmFacts, FullInv, QueueInv
    <3>2. ~(accepted[t] > 0)
      BY <1>9, <2>1, <3>1, FailedUnsent DEF RejectMessage
    <3>3. QED BY <3>2 DEF FullInv, Records, RecordTypes
  <2>2. (DeadLettered(t))' = TRUE /\ (Live(t))' \in {Live(t), FALSE}
    BY <1>9 DEF DeadLettered, Live
  <2>3. Note(t)!GiveUp
    BY <1>2, <1>4, <1>9, <2>1, <2>2 DEF Note!GiveUp
  <2>4. QED BY <2>3 DEF Note!Next
<1>10. QED BY <1>1, <1>6, <1>7, <1>8, <1>9, QueueMoves

(* A run of ProcessMessageAsync sends, records, or fails with a fault. *)
LEMMA NoteRun ==
    ASSUME QuietInv, DuplicatesNeedFaults', NEW x \in work, WorkStep(x), NEW t \in Tasks
    PROVE  [Note(t)!Next]_(Note(t)!vars)
<1> USE DEF QuietInv
<1>1. /\ x \in Work /\ x.h \in handlers /\ x.h.pc = "processing" /\ TaskOf(x) = x.h.d.copy.task
      /\ accepted \in [Tasks -> Nat] /\ row \in [Tasks -> RowStates] /\ TaskOf(x) \in published
  BY DEF FullInv, QueueInv, OnlyPublished, WorkShape, Running, Records, RecordTypes, TaskOf
<1>2. UNCHANGED <<ready, delayed, unacked, dlq, published>>
  <2>1. CASE UNCHANGED vars
    BY <2>1 DEF vars, broker
  <2>2. CASE ProcessSucceeds(x.h) \/ \E kind \in Kinds : ProcessFails(x.h, kind)
    BY <2>2 DEF ProcessSucceeds, ProcessFails, broker
  <2>3. CASE FaultyRun(x.h)
    BY <2>3 DEF FaultyRun, broker
  <2>4. QED BY <2>1, <2>2, <2>3, WorkEffect DEF FullInv
<1>3. SameQueue(t)
  BY <1>2 DEF SameQueue, Live, Queued, DeadLettered
<1>4. /\ (Live(t))' = Live(t) /\ (DeadLettered(t))' = DeadLettered(t)
      /\ (t \in published)' = (t \in published)
  BY <1>3 DEF SameQueue, Live, DeadLettered
<1>5. ASSUME forced' = forced PROVE (t \in forced)' = (t \in forced)
  BY <1>5
(* Another task than t, or nothing that Notification shows of t. *)
<1>6. ASSUME UNCHANGED <<accepted, row, forced>>, faults' \in {faults, faults + 1}
      PROVE  [Note(t)!Next]_(Note(t)!vars)
  BY <1>3, <1>6, NoteKept DEF Note!Next
<1>7. ASSUME x.at = "send", forced' = forced, row' = row, faults' \in {faults, faults + 1},
             accepted' = [accepted EXCEPT ![TaskOf(x)] = @ + 1]
      PROVE  [Note(t)!Next]_(Note(t)!vars)
  <2>1. CASE TaskOf(x) = t
    <3>1. accepted'[t] = accepted[t] + 1 /\ accepted'[t] <= 1 + Prefetch * faults'
      BY <1>1, <1>7, <2>1 DEF DuplicatesNeedFaults
    <3>2. ASSUME faults = 0 PROVE Live(t) /\ ~DeadLettered(t)
      <4>1. Steady
        BY <3>2 DEF Steady, Calm, CalmFacts, FullInv, QueueInv
      <4>2. Open(x.h)
        BY <1>1 DEF Open, Answered
      <4>3. x.h.d.copy \in Queued /\ x.h.d.copy \notin dlq /\ ~Superseded(x.h.d.copy)
        BY <1>1, <4>1, <4>2, SteadyFacts DEF Superseded, Open, Answered
      <4>4. \A c \in dlq : ~Superseded(c)
        BY <4>1, SteadyFacts DEF Superseded, Open, Answered
      <4>5. QED
        BY <1>1, <2>1, <4>1, <4>3, <4>4 DEF Steady, CalmFacts, OneLeads, Live, DeadLettered
    <3>3. row'[t] = row[t]
      BY <1>7
    <3>4. Note(t)!Send
      BY <1>1, <1>4, <1>5, <1>7, <2>1, <3>1, <3>2, <3>3 DEF Note!Send
    <3>5. QED BY <3>4 DEF Note!Next
  <2>2. CASE TaskOf(x) # t
    <3>1. accepted'[t] = accepted[t] /\ row'[t] = row[t]
      BY <1>1, <1>7, <2>2
    <3>2. UNCHANGED Note(t)!vars \/ Note(t)!Fail
      BY <1>4, <1>5, <1>7, <3>1 DEF Note!vars, Note!Fail
    <3>3. QED BY <3>2 DEF Note!Next
  <2>3. QED BY <2>1, <2>2
<1>8. ASSUME UpdateTask(x), row[TaskOf(x)] # "deleted" PROVE [Note(t)!Next]_(Note(t)!vars)
  <2>1. /\ UNCHANGED <<accepted, forced, faults>> /\ row' = [row EXCEPT ![TaskOf(x)] = "Sent"]
    BY <1>8 DEF UpdateTask, panel, vars
  <2>2. CASE TaskOf(x) = t
    <3>1. accepted[t] > 0 /\ row'[t] = "Sent" /\ row[t] # "deleted"
      BY <1>1, <1>8, <2>1, <2>2 DEF UpdateTask, FullInv, Records, Recorded
    <3>2. Note(t)!Record
      BY <1>4, <1>5, <2>1, <3>1 DEF Note!Record
    <3>3. QED BY <3>2 DEF Note!Next
  <2>3. CASE TaskOf(x) # t
    <3>1. accepted'[t] = accepted[t] /\ row'[t] = row[t]
      BY <1>1, <2>1, <2>3
    <3>2. UNCHANGED Note(t)!vars
      BY <1>4, <1>5, <2>1, <3>1 DEF Note!vars
    <3>3. QED BY <3>2
  <2>4. QED BY <2>2, <2>3
<1>9. CASE LoadTask(x) \/ LoadCredential(x) \/ CheckCredential(x) \/ SendRefused(x)
  BY <1>6, <1>9 DEF LoadTask, LoadCredential, CheckCredential, SendRefused, Return, Throw, ProcessSucceeds,
     ProcessFails, vars, panel
<1>10. CASE SendAccepted(x) \/ ReplyLost(x)
  BY <1>7, <1>10 DEF SendAccepted, ReplyLost, vars, panel
<1>11. CASE UpdateTask(x)
  BY <1>6, <1>8, <1>11 DEF UpdateTask, Throw, ProcessFails, panel
<1>12. CASE DatabaseFails(x) \/ PublishStatus(x)
  BY <1>6, <1>12 DEF DatabaseFails, PublishStatus, Return, ProcessSucceeds, panel
<1>13. QED BY <1>9, <1>10, <1>11, <1>12 DEF WorkStep

(* The status worker and the operator only change what is recorded. *)
LEMMA NoteStore ==
    ASSUME FullInv, FullInv', StoreStep, NEW t \in Tasks
    PROVE  [Note(t)!Next]_(Note(t)!vars)
<1>1. UNCHANGED <<vars, accepted>>
  BY StoreEffect
<1>2. UNCHANGED <<ready, delayed, unacked, dlq, published, faults>>
  BY <1>1 DEF vars, broker
<1>3. SameQueue(t)
  BY <1>2 DEF SameQueue, Live, Queued, DeadLettered
<1>4. /\ (Live(t))' = Live(t) /\ (DeadLettered(t))' = DeadLettered(t)
      /\ (t \in published)' = (t \in published) /\ accepted'[t] = accepted[t]
  BY <1>1, <1>3 DEF SameQueue, Live, DeadLettered
<1>5. row \in [Tasks -> RowStates] /\ row' \in [Tasks -> RowStates]
  BY DEF FullInv, Records, RecordTypes
<1>6. CASE row'[t] = row[t] /\ (t \in forced' <=> t \in forced)
  <2>1. (t \in forced)' = (t \in forced)
    BY <1>6
  <2>2. UNCHANGED Note(t)!vars
    BY <1>2, <1>4, <1>6, <2>1 DEF Note!vars
  <2>3. QED BY <2>2
<1>7. CASE row[t] # "deleted" /\ row'[t] \in {"Pending", "deleted"} /\ forced' = forced
  <2>1. (t \in forced)' = (t \in forced)
    BY <1>7
  <2>2. Note(t)!Edit
    BY <1>2, <1>4, <1>7, <2>1 DEF Note!Edit
  <2>3. QED BY <2>2 DEF Note!Next
<1>8. CASE row[t] # "deleted" /\ row'[t] = "Sent" /\ forced' = forced
  <2>1. (t \in forced)' = (t \in forced)
    BY <1>8
  <2>2. accepted[t] > 0 \/ t \in forced
    BY <1>1, <1>8 DEF FullInv, Records, Recorded, Taken
  <2>3. Note(t)!Record
    BY <1>2, <1>4, <1>8, <2>1, <2>2 DEF Note!Record
  <2>4. QED BY <2>3 DEF Note!Next
<1>9. CASE t \in forced' /\ row'[t] = IF row[t] = "deleted" THEN row[t] ELSE "Sent"
  <2>1. (t \in forced)' = TRUE
    BY <1>9
  <2>2. Note(t)!Waive
    BY <1>2, <1>4, <1>9, <2>1 DEF Note!Waive
  <2>3. QED BY <2>2 DEF Note!Next
<1>10. ASSUME NEW u \in Tasks, ApplyStatus(u) \/ OpenForm(u) \/ DeleteTask(u)
       PROVE  [Note(t)!Next]_(Note(t)!vars)
  BY <1>5, <1>6, <1>7, <1>8, <1>10 DEF ApplyStatus, OpenForm, DeleteTask, panel, RowStates
<1>11. ASSUME NEW u \in Tasks, NEW s \in Selectable, SubmitForm(u, s)
       PROVE  [Note(t)!Next]_(Note(t)!vars)
  <2>1. CASE u # t
    BY <1>5, <1>6, <1>11, <2>1 DEF SubmitForm
  <2>2. CASE u = t
    BY <1>5, <1>6, <1>7, <1>8, <1>9, <1>11, <2>2 DEF SubmitForm, Selectable
  <2>3. QED BY <2>1, <2>2
<1>12. ASSUME NEW s \in CredentialStates, ChangeCredential(s) PROVE [Note(t)!Next]_(Note(t)!vars)
  BY <1>6, <1>12 DEF ChangeCredential
<1>13. QED BY <1>10, <1>11, <1>12 DEF StoreStep

LEMMA NoteInit == DeliveryInit => \A t \in Tasks : Note(t)!Init
BY DEF DeliveryInit, Init, Note!Init, Live, DeadLettered, Queued, Copies

LEMMA NoteStep ==
    ASSUME RetryManaged, QuietInv, QuietInv', DuplicatesNeedFaults', [DeliveryNext]_allVars,
           NEW t \in Tasks
    PROVE  [Note(t)!Next]_(Note(t)!vars)
<1> USE DEF QuietInv
<1>1. ASSUME [Next]_vars, UNCHANGED <<accepted, row, forced>> PROVE [Note(t)!Next]_(Note(t)!vars)
  BY <1>1, NoteQueue, FaultsCounted DEF FullInv
<1>2. CASE QueueStep /\ UNCHANGED store
  <2>1. [Next]_vars
    BY <1>2 DEF QueueStep, Next, HandlerStep
  <2>2. QED BY <1>1, <1>2, <2>1 DEF store, panel
<1>3. CASE (\E w \in Workers : CrashWork(w)) \/ \E d \in buffer : BeginWork(d)
  <2>1. [Next]_vars
    BY <1>3 DEF CrashWork, BeginWork, Next
  <2>2. QED BY <1>1, <1>3, <2>1 DEF CrashWork, BeginWork, panel
<1>4. ASSUME NEW x \in work, WorkStep(x) PROVE [Note(t)!Next]_(Note(t)!vars)
  BY <1>4, NoteRun
<1>5. CASE StoreStep
  BY <1>5, NoteStore
<1>6. CASE UNCHANGED allVars
  <2>1. [Next]_vars
    BY <1>6 DEF allVars
  <2>2. QED BY <1>1, <1>6, <2>1 DEF allVars, store, panel
<1>7. QED BY <1>2, <1>3, <1>4, <1>5, <1>6 DEF DeliveryNext, StoreStep

(* DeliveryImplementsNotification: on a queue with a dead letter exchange  *)
(* every behaviour of the system is, for each task, one of its abstract    *)
(* notification: what the queue, the callbacks, the row and the operator   *)
(* do of it, with every fault, is a request, a send, a record, an edit or  *)
(* an end that Notification allows (ImplementsNotification).               *)
THEOREM DeliveryImplementsNotification ==
    ASSUME RetryManaged PROVE DeliverySpec => ImplementsNotification
<1>1. DeliveryInit => \A t \in Tasks : Note(t)!Init
  BY NoteInit
<1>2. QuietInv /\ QuietInv' /\ DuplicatesNeedFaults' /\ [DeliveryNext]_allVars
        => [\A t \in Tasks : [Note(t)!Next]_(Note(t)!vars)]_allVars
  BY NoteStep
<1>3. QED
  BY <1>1, <1>2, QuietInvariant, DuplicatesAreCounted, PTL DEF DeliverySpec, ImplementsNotification

(* EachTaskIsANotification: the same as an implication between the two     *)
(* specifications, which TLC cannot check under a quantifier.              *)
THEOREM EachTaskIsANotification ==
    ASSUME RetryManaged, NEW t \in Tasks PROVE DeliverySpec => Note(t)!Spec
<1>1. DeliveryInit => Note(t)!Init
  BY NoteInit
<1>2. QuietInv /\ QuietInv' /\ DuplicatesNeedFaults' /\ [DeliveryNext]_allVars
        => [Note(t)!Next]_(Note(t)!vars)
  BY NoteStep
<1>3. QED
  BY <1>1, <1>2, QuietInvariant, DuplicatesAreCounted, PTL DEF DeliverySpec, Note!Spec
=============================================================================

---------------------------- MODULE TaskDelivery ----------------------------
(***************************************************************************)
(* ProcessMessageAsync of the channel workers (Workers/Workers/*Worker.cs),  *)
(* composed with the queue and the callbacks of ConsumerWorker, the message  *)
(* task row in PostgreSQL, the provider, the status worker and the operator *)
(* of the admin panel.  A handler of ConsumerWorker that is "processing"    *)
(* has a record in work: where it is and what it has read.                  *)
(***************************************************************************)
EXTENDS ConsumerWorker

CONSTANTS
    Transient,   \* the adapter reports transient failures (GreenAPI, not SMTP)
    MaxEdits     \* bound: operations of the admin panel and the credentials API

ASSUME DeliveryAssumption == Transient \in BOOLEAN /\ MaxEdits \in Nat

VARIABLES
    row,        \* status in the MessageTasks row of a task, or "deleted"
    credential, \* the credential the tasks were assigned to
    work,       \* the runs of ProcessMessageAsync
    accepted,   \* how often the provider has accepted the task's message
    updates,    \* status updates waiting in message-status-updates
    form,       \* status in the edit form the operator has open, or "none"
    forced,     \* tasks the operator marked Sent by hand
    edits

panel == <<form, forced, edits>>
store == <<row, credential, work, accepted, updates, panel>>
allVars == <<vars, store>>

RowStates == {"Pending", "Sent", "deleted"}
(* "otherAdapter": it exists, for an adapter the worker does not serve. *)
CredentialStates == {"active", "inactive", "otherAdapter", "deleted"}
Steps == {"task", "credential", "check", "send", "update", "publish"}
Work == [h : Handler, at : Steps, active : BOOLEAN]

DeliveryTypeOK ==
    /\ TypeOK
    /\ row \in [Tasks -> RowStates] /\ credential \in CredentialStates
    /\ work \subseteq Work /\ {x.h : x \in work} = {h \in handlers : h.pc = "processing"}
    /\ accepted \in [Tasks -> Nat] /\ updates \subseteq Tasks
    /\ form \in [Tasks -> {"Pending", "Sent", "none"}] /\ forced \subseteq Tasks
    /\ edits \in 0..MaxEdits

(* The rows were inserted before the tasks were published. The intake      *)
(* chose a credential that was active, whatever its adapter.               *)
DeliveryInit ==
    /\ Init
    /\ row = [t \in Tasks |-> "Pending"] /\ credential \in {"active", "otherAdapter"}
    /\ work = {} /\ accepted = [t \in Tasks |-> 0] /\ updates = {}
    /\ form = [t \in Tasks |-> "none"] /\ forced = {} /\ edits = 0

-----------------------------------------------------------------------------
TaskOf(x) == x.h.d.copy.task
Advance(x, y) == work' = (work \ {x}) \cup {y}
Leave(x) == work' = work \ {x}

(* ProcessMessageAsync returns, or throws. *)
Return(x) == ProcessSucceeds(x.h) /\ Leave(x)
Throw(x, kind) == ProcessFails(x.h, kind) /\ Leave(x)

BeginWork(d) ==
    /\ BeginProcessing(d)
    /\ work' = work \cup {[h |-> [d |-> d, pc |-> "processing"], at |-> "task", active |-> FALSE]}
    /\ UNCHANGED <<row, credential, accepted, updates, panel>>

(* GetMessageTaskByIdAsync: a missing row is an error, a task that is Sent *)
(* is a duplicate delivery and is skipped.                                 *)
LoadTask(x) ==
    /\ x.at = "task"
    /\ \/ row[TaskOf(x)] = "deleted" /\ Throw(x, "permanent")
       \/ row[TaskOf(x)] = "Sent" /\ Return(x)
       \/ /\ row[TaskOf(x)] = "Pending" /\ Advance(x, [x EXCEPT !.at = "credential"])
          /\ UNCHANGED vars
    /\ UNCHANGED <<row, credential, accepted, updates, panel>>

(* The credential is read, and tracked by the DbContext of the scope. *)
LoadCredential(x) ==
    /\ x.at = "credential"
    /\ \/ credential \in {"deleted", "otherAdapter"} /\ Throw(x, "permanent")
       \/ /\ credential \in {"active", "inactive"}
          /\ Advance(x, [x EXCEPT !.at = "check", !.active = (credential = "active")])
          /\ UNCHANGED vars
    /\ UNCHANGED <<row, credential, accepted, updates, panel>>

(* Mutant of Sendable: the credential is not queried again. *)
SendableAsRead(x) == x.active

(* GetCredential: the second query sees that the row was deleted, but of   *)
(* an existing one the context returns the entity it tracks, with IsActive *)
(* as first read.                                                          *)
Sendable(x) == credential # "deleted" /\ x.active

(* After the waits for the rate limits the send service queries the        *)
(* credential again. It also fails on a recipient or on settings that      *)
(* cannot be parsed. The post comes after another await, with what this    *)
(* query returned.                                                         *)
CheckCredential(x) ==
    /\ x.at = "check"
    /\ \/ Throw(x, "permanent")
       \/ Sendable(x) /\ Advance(x, [x EXCEPT !.at = "send"]) /\ UNCHANGED vars
    /\ UNCHANGED <<row, credential, accepted, updates, panel>>

FailureKinds == IF Transient THEN Kinds ELSE {"permanent"}

(* Mutant of SendRefused: an error result of the provider is ignored. *)
RefusalIgnored(x) ==
    /\ x.at = "send" /\ Advance(x, [x EXCEPT !.at = "update"])
    /\ UNCHANGED <<vars, row, credential, accepted, updates, panel>>

(* The provider does not accept the message: an error response or status,  *)
(* or a refused connection.                                                *)
SendRefused(x) ==
    /\ x.at = "send" /\ \E kind \in FailureKinds : Throw(x, kind)
    /\ UNCHANGED <<row, credential, accepted, updates, panel>>

(* Mutant of SendAccepted: the success is reported without the update. *)
AcceptedUnrecorded(x) ==
    /\ x.at = "send"
    /\ accepted' = [accepted EXCEPT ![TaskOf(x)] = @ + 1]
    /\ Advance(x, [x EXCEPT !.at = "publish"])
    /\ UNCHANGED <<vars, row, credential, updates, panel>>

(* Mutant of SendAccepted: an answer of success is classified as transient. *)
AcceptedRetried(x) ==
    /\ x.at = "send"
    /\ accepted' = [accepted EXCEPT ![TaskOf(x)] = @ + 1]
    /\ Throw(x, "transient")
    /\ UNCHANGED <<row, credential, updates, panel>>

SendAccepted(x) ==
    /\ x.at = "send"
    /\ accepted' = [accepted EXCEPT ![TaskOf(x)] = @ + 1]
    /\ Advance(x, [x EXCEPT !.at = "update"])
    /\ UNCHANGED <<vars, row, credential, updates, panel>>

(* The provider accepts but the worker sees a failure: a timeout or a lost *)
(* response (transient for GreenAPI), a body that cannot be parsed.        *)
ReplyLost(x) ==
    /\ x.at = "send" /\ faults < MaxFaults
    /\ accepted' = [accepted EXCEPT ![TaskOf(x)] = @ + 1]
    /\ \E kind \in FailureKinds :
         /\ MoveTo(x.h, kind)
         /\ thrown' = thrown \cup {<<TaskOf(x), kind>>}
    /\ faults' = faults + 1
    /\ Leave(x)
    /\ UNCHANGED <<broker, buffer, channel, inc, consuming, process, done, tries, stops,
                   row, credential, updates, panel>>

(* Mutant of UpdateTask: a row that is missing is inserted again. *)
UpdateUpserts(x) ==
    /\ x.at = "update"
    /\ row' = [row EXCEPT ![TaskOf(x)] = "Sent"]
    /\ Advance(x, [x EXCEPT !.at = "publish"])
    /\ UNCHANGED <<vars, credential, accepted, updates, panel>>

(* UpdateMessageTaskAsync writes the whole row; it throws when the row was *)
(* deleted in the meantime.                                                *)
UpdateTask(x) ==
    /\ x.at = "update"
    /\ \/ /\ row[TaskOf(x)] # "deleted"
          /\ row' = [row EXCEPT ![TaskOf(x)] = "Sent"]
          /\ Advance(x, [x EXCEPT !.at = "publish"])
          /\ UNCHANGED vars
       \/ row[TaskOf(x)] = "deleted" /\ Throw(x, "permanent") /\ UNCHANGED row
    /\ UNCHANGED <<credential, accepted, updates, panel>>

(* Mutant of DatabaseFails: the run is not awaited and goes on. *)
FailsUnawaited(x) ==
    /\ x.at \in {"task", "credential", "check", "update"} /\ faults < MaxFaults
    /\ MoveTo(x.h, "permanent")
    /\ thrown' = thrown \cup {<<TaskOf(x), "permanent">>}
    /\ faults' = faults + 1
    /\ UNCHANGED <<broker, buffer, channel, inc, consuming, process, done, tries, stops, store>>

(* A query or an update fails: nothing but a TransientProviderException is *)
(* retried, so the task is rejected wherever the database was lost.        *)
DatabaseFails(x) ==
    /\ x.at \in {"task", "credential", "check", "update"} /\ faults < MaxFaults
    /\ MoveTo(x.h, "permanent")
    /\ thrown' = thrown \cup {<<TaskOf(x), "permanent">>}
    /\ faults' = faults + 1
    /\ Leave(x)
    /\ UNCHANGED <<broker, buffer, channel, inc, consuming, process, done, tries, stops,
                   row, credential, accepted, updates, panel>>

(* Mutant of PublishStatus: throwOnError is left at its default. *)
PublishThrows(x) ==
    /\ x.at = "publish"
    /\ \/ updates' = updates \cup {TaskOf(x)} /\ Return(x)
       \/ updates' = updates /\ Throw(x, "permanent")
    /\ UNCHANGED <<row, credential, accepted, panel>>

(* PublishStatusAsync with throwOnError false: a failed publish is logged. *)
PublishStatus(x) ==
    /\ x.at = "publish"
    /\ updates' \in {updates, updates \cup {TaskOf(x)}}
    /\ Return(x)
    /\ UNCHANGED <<row, credential, accepted, panel>>

WorkStep(x) ==
    \/ LoadTask(x) \/ LoadCredential(x) \/ CheckCredential(x) \/ SendRefused(x)
    \/ SendAccepted(x) \/ ReplyLost(x) \/ UpdateTask(x) \/ DatabaseFails(x) \/ PublishStatus(x)

-----------------------------------------------------------------------------
(* MessageStatusWorker: the row gets the status of the update (always      *)
(* Sent); without a row, or when the database fails, the update is dropped, *)
(* and a delivery that was not acknowledged is applied again.              *)
ApplyStatus(t) ==
    /\ t \in updates
    /\ row' \in {row, IF row[t] = "deleted" THEN row ELSE [row EXCEPT ![t] = "Sent"]}
    /\ updates' \in {updates, updates \ {t}}
    /\ UNCHANGED <<vars, credential, work, accepted, panel>>

(* The admin panel.  The edit page loads the row when it is opened and     *)
(* later writes every column back; the delete button removes the row.      *)
Edit == edits < MaxEdits /\ edits' = edits + 1

OpenForm(t) ==
    /\ row[t] # "deleted" /\ form[t] = "none" /\ Edit
    /\ form' = [form EXCEPT ![t] = row[t]]
    /\ UNCHANGED <<vars, row, credential, work, accepted, updates, forced>>

(* The operator leaves the status as it was loaded, or selects another     *)
(* ("Pending" stands for every status but Sent: the code asks for no other). *)
Selectable == {"Pending", "Sent"}

SubmitForm(t, status) ==
    /\ form[t] # "none"
    /\ row' = IF row[t] = "deleted" THEN row ELSE [row EXCEPT ![t] = status]
    /\ forced' = IF status = "Sent" /\ form[t] # "Sent" THEN forced \cup {t} ELSE forced
    /\ form' = [form EXCEPT ![t] = "none"]
    /\ UNCHANGED <<vars, credential, work, accepted, updates, edits>>

DeleteTask(t) ==
    /\ row[t] # "deleted" /\ Edit
    /\ row' = [row EXCEPT ![t] = "deleted"]
    /\ UNCHANGED <<vars, credential, work, accepted, updates, form, forced>>

ChangeCredential(s) ==
    /\ credential # "deleted" /\ credential # s /\ Edit
    /\ credential' = s
    /\ UNCHANGED <<vars, row, work, accepted, updates, form, forced>>

-----------------------------------------------------------------------------
(* The steps of ConsumerWorker around ProcessMessageAsync. *)
QueueStep ==
    \/ \E t \in Tasks : Publish(t)
    \/ \E c \in delayed : DelayElapsed(c)
    \/ \E w \in Workers, c \in ready : Deliver(w, c)
    \/ \E d \in buffer : DiscardStale(d) \/ RefuseDelivery(d)
    \/ \E h \in handlers :
         \/ AckSuccess(h) \/ AckSuccessThrows(h) \/ ScheduleRetry(h) \/ AckScheduled(h)
         \/ RejectMessage(h) \/ FailureHandlingThrows(h) \/ RequeueFailed(h)
         \/ CompleteMessageProcessing(h) \/ SignalDrained(h)
    \/ \E w \in Workers :
         \/ Break(w) \/ Notice(w) \/ Recover(w) \/ Start(w) \/ StartFails(w)
         \/ RequestShutdown(w) \/ CancelConsumer(w) \/ StopConsuming(w)

CrashWork(w) ==
    /\ Crash(w)
    /\ work' = {x \in work : x.h.d.w # w}
    /\ UNCHANGED <<row, credential, accepted, updates, panel>>

DeliveryNext ==
    \/ QueueStep /\ UNCHANGED store
    \/ \E w \in Workers : CrashWork(w)
    \/ \E d \in buffer : BeginWork(d)
    \/ \E x \in work : WorkStep(x)
    \/ \E t \in Tasks : ApplyStatus(t) \/ OpenForm(t) \/ DeleteTask(t)
    \/ \E t \in Tasks, s \in Selectable : SubmitForm(t, s)
    \/ \E s \in CredentialStates : ChangeCredential(s)

DeliverySpec == DeliveryInit /\ [][DeliveryNext]_allVars

-----------------------------------------------------------------------------
(* Properties. *)

(* NotificationNotLost: a published task is in the queue, was accepted by  *)
(* the provider, or is dead-lettered.  A skip, which acknowledges without  *)
(* sending, relies on the row another delivery wrote, and the row on what  *)
(* the provider has accepted, also across the operator's stale writes; only *)
(* an operator who marks a pending task as Sent keeps it from being sent.  *)
NotificationNotLost ==
    \A t \in published \ forced : Live(t) \/ accepted[t] > 0 \/ DeadLettered(t)

(* DuplicatesNeedFaults: the provider accepts a message at most once, and  *)
(* once more for each delivery a fault can have duplicated: a lost reply,  *)
(* a failed update or a failing policy is one, a lost connection or a crash  *)
(* requeues up to Prefetch (the retry copy buffered behind its original,   *)
(* and the original).  No order of retries, refusals, shutdowns, late      *)
(* answers on a lost channel or edits sends it once more.                  *)
DuplicatesNeedFaults == \A t \in Tasks : accepted[t] <= 1 + Prefetch * faults

(* DlqMeansUnsent: without faults, a dead-lettered task was not accepted   *)
(* by the provider, so that it may be sent again, unless the operator      *)
(* deleted its row while it was being sent.                                *)
DlqMeansUnsent ==
    faults = 0 => \A t \in Tasks :
        DeadLettered(t) /\ row[t] # "deleted" => accepted[t] = 0

(* DoneIsRecorded: once the processing of a task has succeeded its row     *)
(* says Sent, until the operator edits the row.                            *)
DoneIsRecorded == edits = 0 => \A t \in done : row[t] = "Sent"

(* DeletionEndsSending: once the credential is deleted no run gets past    *)
(* the second query, neither a waiting one nor a retry or a redelivery, and *)
(* the runs that were past it send at most once each. (A deletion between  *)
(* the query and the post is too late for that post; a deactivation is not *)
(* seen at all by a run that has read the credential.)                     *)
Posting(t) == {x \in work : x.at = "send" /\ TaskOf(x) = t}

DeletionEndsSending ==
    [][credential = "deleted" =>
          \A t \in Tasks :
              /\ Posting(t)' \subseteq Posting(t)
              /\ accepted'[t] # accepted[t] =>
                    accepted'[t] = accepted[t] + 1 /\ Posting(t)' # Posting(t)]_allVars
=============================================================================

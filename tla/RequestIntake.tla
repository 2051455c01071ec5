---------------------------- MODULE RequestIntake ---------------------------
(***************************************************************************)
(* POST of a send request: API/Controllers/MessageSendController.cs and    *)
(* Orchestrator/Services/OrchestratorService.cs, over the repositories and *)
(* the DbContext of the scope of the call.  All calls carry the same       *)
(* RequestId: a client that repeats its request, in turn or at once.       *)
(***************************************************************************)
EXTENDS Integers, FiniteSets

CONSTANTS
    Calls,       \* the HTTP calls with this RequestId
    None,        \* no call
    Recipients,  \* how many RecipientItems the request has
    MaxFaults,   \* bound: failures of the database, the broker and the API process
    MaxDeletes   \* bound: deletions of the request in the admin panel

ASSUME CallsAssumption == None \notin Calls
ASSUME IntakeAssumption == Recipients \in Nat /\ MaxFaults \in Nat /\ MaxDeletes \in Nat

VARIABLES
    request,   \* the call whose MessageRequests row is stored (unique index), or None
    rows,      \* how many MessageTasks rows a recipient has
    queued,    \* the MessageTaskDTOs that were published
    pc, at,    \* where a call is, and at which recipient
    added,     \* entities the DbContext of a call still has to insert
    ids,       \* task entities of a call that got their id from an insert
    errors,    \* ChannelErrors of a call
    reply,     \* the answer of a call
    faults, deletes

database == <<request, rows>>
control == <<pc, at>>
context == <<added, ids>>
bounds == <<faults, deletes>>
vars == <<database, queued, control, context, errors, reply, bounds>>

Items == 1..Recipients
DTO == [call : Calls, item : Items, hasId : BOOLEAN]

IntakeTypeOK ==
    /\ request \in Calls \cup {None} /\ rows \in [Items -> Nat] /\ queued \subseteq DTO
    /\ pc \in [Calls -> {"idle", "get", "insert", "select", "task", "publish", "end"}]
    /\ at \in [Calls -> Nat]
    /\ added \in [Calls -> SUBSET (Items \cup {0})] /\ ids \in [Calls -> SUBSET Items]
    /\ errors \in [Calls -> SUBSET Items]
    /\ reply \in [Calls -> {"none", "ok", "duplicate", "failed"}]
    /\ faults \in 0..MaxFaults /\ deletes \in 0..MaxDeletes

Init ==
    /\ request = None /\ rows = [i \in Items |-> 0] /\ queued = {}
    /\ pc = [c \in Calls |-> "idle"] /\ at = [c \in Calls |-> 1]
    /\ added = [c \in Calls |-> {}] /\ ids = [c \in Calls |-> {}]
    /\ errors = [c \in Calls |-> {}] /\ reply = [c \in Calls |-> "none"]
    /\ faults = 0 /\ deletes = 0

-----------------------------------------------------------------------------
Fault == faults < MaxFaults /\ faults' = faults + 1
Go(c, p) == pc' = [pc EXCEPT ![c] = p]
Answer(c, r) == Go(c, "end") /\ reply' = [reply EXCEPT ![c] = r]

(* The entity of the request is 0, the one of the task of an item its number. *)
Insert(c, E) ==
    /\ request' = IF 0 \in E THEN c ELSE request
    /\ rows' = [i \in Items |-> IF i \in E THEN rows[i] + 1 ELSE rows[i]]

(* Mutant of SaveChanges: an entity whose insert failed is forgotten. *)
SaveOnce(c, e) ==
    LET conflict == e = 0 /\ request # None IN
    \/ /\ ~conflict /\ Insert(c, {e})
       /\ ids' = [ids EXCEPT ![c] = @ \cup ({e} \ {0})]
       /\ UNCHANGED <<added, faults>>
    \/ conflict /\ UNCHANGED <<database, added, ids, faults>>
    \/ Fault /\ UNCHANGED <<database, added, ids>>
    \/ ~conflict /\ Fault /\ Insert(c, {e}) /\ UNCHANGED <<added, ids>>

(* SaveChangesAsync after Add(e): one transaction inserts everything the   *)
(* context has added.  When it fails, the entities stay added and the next *)
(* call of SaveChangesAsync in the scope tries all of them again; the      *)
(* repository turns the exception into a result nobody looks at.  The last *)
(* disjunct is a commit whose confirmation is lost.                        *)
SaveChanges(c, e) ==
    LET E == added[c] \cup {e}
        conflict == 0 \in E /\ request # None
        keep == added' = [added EXCEPT ![c] = E]
    IN
    \/ /\ ~conflict /\ Insert(c, E)
       /\ added' = [added EXCEPT ![c] = {}]
       /\ ids' = [ids EXCEPT ![c] = @ \cup (E \ {0})]
       /\ UNCHANGED faults
    \/ conflict /\ keep /\ UNCHANGED <<database, ids, faults>>
    \/ Fault /\ keep /\ UNCHANGED <<database, ids>>
    \/ ~conflict /\ Fault /\ Insert(c, E) /\ keep /\ UNCHANGED ids

-----------------------------------------------------------------------------
(* RequestExistsAsync *)
CheckExists(c) ==
    /\ pc[c] = "idle"
    /\ Go(c, IF request = None THEN "insert" ELSE "get")
    /\ UNCHANGED <<database, queued, at, context, errors, reply, bounds>>

(* GetMessageRequestAsync: the request is answered with its status URL; it  *)
(* is a duplicate only if the row was deleted since it was seen.           *)
AnswerExisting(c) ==
    /\ pc[c] = "get"
    /\ Answer(c, IF request = None THEN "duplicate" ELSE "ok")
    /\ UNCHANGED <<database, queued, at, context, errors, bounds>>

(* A failing query leaves the controller as an exception: status 500. *)
QueryFails(c) ==
    /\ pc[c] \in {"idle", "get"} /\ Fault
    /\ Answer(c, "failed")
    /\ UNCHANGED <<database, queued, at, context, errors, deletes>>

AddRequest(c) ==
    /\ pc[c] = "insert"
    /\ SaveChanges(c, 0)
    /\ Go(c, "select")
    /\ UNCHANGED <<queued, at, errors, reply, deletes>>

(* Next recipient, or the error of this one. *)
NextItem(c) ==
    /\ Go(c, "select")
    /\ at' = [at EXCEPT ![c] = @ + 1]

(* Mutant of ItemError: the recipient is numbered from zero. *)
ItemErrorZeroBased(c) ==
    /\ NextItem(c)
    /\ errors' = [errors EXCEPT ![c] = @ \cup {at[c] - 1}]

ItemError(c) ==
    /\ NextItem(c)
    /\ errors' = [errors EXCEPT ![c] = @ \cup {at[c]}]

(* SelectCredentialAsync finds an active credential, or none, or throws. *)
SelectCredential(c) ==
    /\ pc[c] = "select" /\ at[c] \in Items
    /\ Go(c, "task")
    /\ UNCHANGED <<database, queued, at, context, errors, reply, bounds>>

NoCredential(c) ==
    /\ pc[c] = "select" /\ at[c] \in Items
    /\ ItemError(c)
    /\ UNCHANGED <<database, queued, context, reply, bounds>>

AddTask(c) ==
    /\ pc[c] = "task"
    /\ SaveChanges(c, at[c])
    /\ Go(c, "publish")
    /\ UNCHANGED <<queued, at, errors, reply, deletes>>

(* Mutant of PublishTask: a failed publish is not reported. *)
PublishSilently(c) ==
    /\ pc[c] = "publish" /\ NextItem(c)
    /\ \/ queued' = queued \cup {[call |-> c, item |-> at[c], hasId |-> at[c] \in ids[c]]}
       \/ UNCHANGED queued
    /\ UNCHANGED <<database, context, errors, reply, bounds>>

(* PublishAsync: the DTO has the id of the entity, 0 if it was not inserted; *)
(* without publisher confirms the broker may also lose it.                 *)
PublishTask(c) ==
    /\ pc[c] = "publish" /\ NextItem(c)
    /\ \/ /\ queued' = queued \cup {[call |-> c, item |-> at[c], hasId |-> at[c] \in ids[c]]}
          /\ UNCHANGED faults
       \/ UNCHANGED queued /\ Fault
    /\ UNCHANGED <<database, context, errors, reply, deletes>>

PublishFails(c) ==
    /\ pc[c] = "publish"
    /\ ItemError(c)
    /\ UNCHANGED <<database, queued, context, reply, bounds>>

Respond(c) ==
    /\ pc[c] = "select" /\ at[c] > Recipients
    /\ Answer(c, "ok")
    /\ UNCHANGED <<database, queued, at, context, errors, bounds>>

(* The API process dies: the call ends where it is. *)
CrashCall(c) ==
    /\ pc[c] # "end" /\ Fault
    /\ Answer(c, "failed")
    /\ UNCHANGED <<database, queued, at, context, errors, deletes>>

(* The operator deletes the request in the admin panel. *)
DeleteRequest ==
    /\ request # None /\ deletes < MaxDeletes
    /\ deletes' = deletes + 1
    /\ request' = None
    /\ UNCHANGED <<rows, queued, control, context, errors, reply, faults>>

Next ==
    \/ \E c \in Calls :
         \/ CheckExists(c) \/ AnswerExisting(c) \/ QueryFails(c) \/ AddRequest(c)
         \/ SelectCredential(c) \/ NoCredential(c) \/ AddTask(c)
         \/ PublishTask(c) \/ PublishFails(c) \/ Respond(c) \/ CrashCall(c)
    \/ DeleteRequest

Spec == Init /\ [][Next]_vars

-----------------------------------------------------------------------------
(* Properties. *)

Valid(i) == {q \in queued : q.item = i /\ q.hasId}

(* QueuedOnce: a recipient gets at most one task that a worker can send,   *)
(* whatever calls race and fail, as long as the operator does not delete   *)
(* the request: only the call that stored the request inserts tasks, since *)
(* the failed insert of the others is repeated with each of their tasks.   *)
QueuedOnce == \A i \in Items : Cardinality(Valid(i)) <= 1 + deletes

(* Accounted: without faults, when all calls that were made have ended,    *)
(* every recipient of a stored request is queued with a task, or one of    *)
(* the answers names it as an error.                                       *)
Accounted ==
    faults = 0 /\ deletes = 0 /\ request # None /\ (\A c \in Calls : pc[c] \in {"idle", "end"})
        => \A i \in Items : Valid(i) # {} \/ \E c \in Calls : i \in errors[c]

(* EmptyIsRaceLoser: without faults, a DTO without a task (which a worker  *)
(* can only dead-letter) is published only by a call that lost the race to *)
(* store the request, never by the call that stored it.                    *)
EmptyIsRaceLoser ==
    faults = 0 /\ deletes = 0 => \A q \in queued : q.hasId <=> q.call = request

(* OkMeansQueued: response 200 of the controller (MessageSendController.cs:35 *)
(* "successfully added to the queue"): once all calls have ended, what an  *)
(* answer 200 does not name as an error is queued with a task.             *)
OkMeansQueued ==
    (\A c \in Calls : pc[c] = "end") =>
        \A c \in Calls : reply[c] = "ok" => \A i \in Items \ errors[c] : Valid(i) # {}
=============================================================================

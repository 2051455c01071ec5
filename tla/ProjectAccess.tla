--------------------------- MODULE ProjectAccess ----------------------------
(***************************************************************************)
(* API tokens and credentials of the projects: the calls of the API        *)
(* (token validation, CredentialsController, the choice of a credential    *)
(* for a send request), the pages of the admin panel on the same rows, and *)
(* the workers that later use the credential of a queued task.             *)
(* Every writer loads a row and writes all of its columns back.            *)
(***************************************************************************)
EXTENDS Integers, FiniteSets

CONSTANTS
    Projects,
    Tokens,       \* the TokenIds the admin panel issues
    Credentials,  \* the ids of the rows; the database never reuses one
    Calls,        \* bound: the calls of the API
    None,
    MaxEdits      \* bound: operations of the admin panel on credentials

ASSUME AccessAssumption == None \notin Projects \cup Tokens \cup Credentials /\ MaxEdits \in Nat

VARIABLES
    owner,    \* project of a token; None until it is issued
    revoked,  \* tokens with IsRevoked
    store,    \* the Credentials rows
    spent,    \* ids of rows that were inserted
    pc,       \* where a call is
    by, on,   \* its token, the credential it is about
    entity,   \* the row DeactivateCredential has loaded
    form,     \* the row an open edit page has loaded
    tasks,    \* queued tasks: project and credential
    run,      \* ProcessMessageAsync of a task: the credential as loaded
    sent,     \* the messages: their task and the project of the credential
    moved,    \* credentials an operator assigned to another project
    off,      \* deactivated through the API, and no edit page opened since
    edits

rows == <<store, spent>>
access == <<owner, revoked>>
api == <<pc, by, on, entity>>
worker == <<tasks, run, sent>>
history == <<moved, off>>
vars == <<access, rows, api, form, worker, history, edits>>

Row == [project : Projects, active : BOOLEAN]
Task == [project : Projects, credential : Credentials]
Working == {"create", "retrieve", "deactivate", "save", "send"}
Ended == {"denied", "ok", "notFound", "failed"}

AccessTypeOK ==
    /\ owner \in [Tokens -> Projects \cup {None}] /\ revoked \subseteq Tokens
    /\ store \in [Credentials -> Row \cup {None}] /\ spent \subseteq Credentials
    /\ pc \in [Calls -> {"idle"} \cup Working \cup Ended]
    /\ by \in [Calls -> Tokens \cup {None}] /\ on \in [Calls -> Credentials \cup {None}]
    /\ entity \in [Calls -> Row \cup {None}] /\ form \in [Credentials -> Row \cup {None}]
    /\ tasks \subseteq Task /\ run \in [tasks -> Row \cup {None}]
    /\ sent \subseteq Task \X Projects
    /\ moved \subseteq Credentials /\ off \subseteq spent /\ edits \in 0..MaxEdits
    /\ \A k \in Credentials \ spent : store[k] = None
    /\ \A c \in Calls : pc[c] \in Working => owner[by[c]] \in Projects

Init ==
    /\ owner = [t \in Tokens |-> None] /\ revoked = {}
    /\ store = [k \in Credentials |-> None] /\ spent = {}
    /\ pc = [c \in Calls |-> "idle"] /\ by = [c \in Calls |-> None]
    /\ on = [c \in Calls |-> None] /\ entity = [c \in Calls |-> None]
    /\ form = [k \in Credentials |-> None]
    /\ tasks = {} /\ run = [t \in {} |-> None] /\ sent = {}
    /\ moved = {} /\ off = {} /\ edits = 0

-----------------------------------------------------------------------------
Go(c, p) == pc' = [pc EXCEPT ![c] = p]

(* The answer ends the call and the scope that held its row. *)
Answer(c, p) ==
    /\ Go(c, p)
    /\ by' = [by EXCEPT ![c] = None]
    /\ on' = [on EXCEPT ![c] = None]
    /\ entity' = [entity EXCEPT ![c] = None]

Project(c) == owner[by[c]]
Exists(k) == store[k] # None

(* GetCredentials: the rows a project sees. *)
Visible(p) == {k \in Credentials : Exists(k) /\ store[k].project = p}

-----------------------------------------------------------------------------
(* The API.  OnTokenValidated looks the token up in the database; a token  *)
(* never expires (its ExpiresAt is the year 9999).                         *)

(* Mutant of OnTokenValidated: IsRevoked is not looked at. *)
ValidatedWithoutRow(c, t, op) ==
    /\ pc[c] = "idle" /\ owner[t] # None
    /\ Go(c, op) /\ by' = [by EXCEPT ![c] = t]
    /\ UNCHANGED <<access, rows, on, entity, form, worker, history, edits>>

OnTokenValidated(c, t, op) ==
    /\ pc[c] = "idle" /\ owner[t] # None
    /\ \/ t \notin revoked /\ Go(c, op) /\ by' = [by EXCEPT ![c] = t]
       \/ t \in revoked /\ Go(c, "denied") /\ UNCHANGED by
    /\ UNCHANGED <<access, rows, on, entity, form, worker, history, edits>>

AddCredential(c, k) ==
    /\ pc[c] = "create" /\ k \notin spent
    /\ store' = [store EXCEPT ![k] = [project |-> Project(c), active |-> TRUE]]
    /\ spent' = spent \cup {k} /\ on' = [on EXCEPT ![c] = k]
    /\ Go(c, "retrieve")
    /\ UNCHANGED <<access, by, entity, form, worker, history, edits>>

(* CreateCredential reads the new row back for its answer. *)
CreateCredential(c) ==
    /\ pc[c] = "retrieve"
    /\ Answer(c, IF Exists(on[c]) THEN "ok" ELSE "failed")
    /\ UNCHANGED <<access, rows, form, worker, history, edits>>

Load(c, k) ==
    /\ Go(c, "save") /\ UNCHANGED by
    /\ on' = [on EXCEPT ![c] = k]
    /\ entity' = [entity EXCEPT ![c] = store[k]]

(* Mutant of FindOwn: the project of the row is not compared. *)
FindAny(c, k) ==
    /\ pc[c] = "deactivate"
    /\ \/ Exists(k) /\ Load(c, k)
       \/ ~Exists(k) /\ Answer(c, "notFound")
    /\ UNCHANGED <<access, rows, form, worker, history, edits>>

(* GetByIdAsync and the check of the project; GetCredential ends here. *)
FindOwn(c, k) ==
    /\ pc[c] = "deactivate"
    /\ \/ k \in Visible(Project(c)) /\ Load(c, k)
       \/ k \notin Visible(Project(c)) /\ Answer(c, "notFound")
    /\ UNCHANGED <<access, rows, form, worker, history, edits>>

SaveRow(k, r) ==
    /\ store' = [store EXCEPT ![k] = r]
    /\ off' = IF form[k] = None THEN off \cup {k} ELSE off

(* Mutant of DeactivateCredential: a deleted row is inserted again. *)
DeactivateUpserts(c) ==
    /\ pc[c] = "save"
    /\ SaveRow(on[c], [entity[c] EXCEPT !.active = FALSE])
    /\ Answer(c, "ok")
    /\ UNCHANGED <<access, spent, form, worker, moved, edits>>

(* Mutant of DeactivateCredential: the call toggles IsActive. *)
DeactivateToggles(c) ==
    /\ pc[c] = "save"
    /\ \/ /\ Exists(on[c]) /\ Answer(c, "ok")
          /\ SaveRow(on[c], [entity[c] EXCEPT !.active = ~@])
       \/ ~Exists(on[c]) /\ Answer(c, "failed") /\ UNCHANGED <<store, off>>
    /\ UNCHANGED <<access, spent, form, worker, moved, edits>>

(* Update marks every column of the loaded entity as modified; the update  *)
(* of a deleted row fails.                                                 *)
DeactivateCredential(c) ==
    /\ pc[c] = "save"
    /\ \/ /\ Exists(on[c]) /\ Answer(c, "ok")
          /\ SaveRow(on[c], [entity[c] EXCEPT !.active = FALSE])
       \/ ~Exists(on[c]) /\ Answer(c, "failed") /\ UNCHANGED <<store, off>>
    /\ UNCHANGED <<access, spent, form, worker, moved, edits>>

Enqueue(t) ==
    /\ tasks' = tasks \cup {t}
    /\ run' = [u \in tasks' |-> IF u \in tasks THEN run[u] ELSE None]

(* Mutant of SelectCredential: the query does not filter by project. *)
SelectAny(c) ==
    /\ pc[c] = "send"
    /\ \E k \in Credentials :
         /\ Exists(k) /\ store[k].active
         /\ Enqueue([project |-> Project(c), credential |-> k])
    /\ Answer(c, "ok")
    /\ UNCHANGED <<access, rows, form, sent, history, edits>>

(* A send request: any active credential of the project (and the channel). *)
SelectCredential(c) ==
    /\ pc[c] = "send"
    /\ \E k \in Visible(Project(c)) :
         store[k].active /\ Enqueue([project |-> Project(c), credential |-> k])
    /\ Answer(c, "ok")
    /\ UNCHANGED <<access, rows, form, sent, history, edits>>

NoCredentials(c) ==
    /\ pc[c] = "send" /\ ~\E k \in Visible(Project(c)) : store[k].active
    /\ Answer(c, "ok")
    /\ UNCHANGED <<access, rows, form, worker, history, edits>>

-----------------------------------------------------------------------------
(* The workers: the credential is loaded before the rate limits, and the   *)
(* entity tracked since then is used after them if the row still exists at *)
(* the second query (the post that follows it is a step of TaskDelivery).  *)

LoadCredential(t) ==
    /\ run[t] = None /\ Exists(t.credential)
    /\ run' = [run EXCEPT ![t] = store[t.credential]]
    /\ UNCHANGED <<access, rows, api, form, tasks, sent, history, edits>>

UseCredential(t) ==
    /\ run[t] # None
    /\ run' = [run EXCEPT ![t] = None]
    /\ sent' = IF Exists(t.credential) /\ run[t].active
               THEN sent \cup {<<t, run[t].project>>} ELSE sent
    /\ UNCHANGED <<access, rows, api, form, tasks, history, edits>>

-----------------------------------------------------------------------------
(* The admin panel. *)

IssueToken(t, p) ==
    /\ owner[t] = None
    /\ owner' = [owner EXCEPT ![t] = p]
    /\ UNCHANGED <<revoked, rows, api, form, worker, history, edits>>

(* Mutant of RevokeToken: the row is removed instead of marked. *)
RevokeRemovesRow(t) ==
    /\ owner[t] # None /\ t \notin revoked
    /\ owner' = [owner EXCEPT ![t] = None]
    /\ UNCHANGED <<revoked, rows, api, form, worker, history, edits>>

RevokeToken(t) ==
    /\ owner[t] # None /\ t \notin revoked
    /\ revoked' = revoked \cup {t}
    /\ UNCHANGED <<owner, rows, api, form, worker, history, edits>>

Edit == edits < MaxEdits /\ edits' = edits + 1

CreateByOperator(k, r) ==
    /\ k \notin spent /\ Edit
    /\ store' = [store EXCEPT ![k] = r] /\ spent' = spent \cup {k}
    /\ UNCHANGED <<access, api, form, worker, history>>

OpenForm(k) ==
    /\ Exists(k) /\ form[k] = None /\ Edit
    /\ form' = [form EXCEPT ![k] = store[k]]
    /\ off' = off \ {k}
    /\ UNCHANGED <<access, rows, api, worker, moved>>

(* The form binds every column of the row but its id. *)
Submittable == Row

(* The page writes the row as it was loaded, with the operator's changes;  *)
(* when the row is gone the update fails.                                  *)
SubmitForm(k, r) ==
    /\ form[k] # None
    /\ store' = IF Exists(k) THEN [store EXCEPT ![k] = r] ELSE store
    /\ moved' = IF Exists(k) /\ r.project # form[k].project THEN moved \cup {k} ELSE moved
    /\ form' = [form EXCEPT ![k] = None]
    /\ UNCHANGED <<access, spent, api, worker, off, edits>>

DeleteCredential(k) ==
    /\ Exists(k) /\ Edit
    /\ store' = [store EXCEPT ![k] = None]
    /\ UNCHANGED <<access, spent, api, form, worker, history>>

Next ==
    \/ \E c \in Calls :
         \/ \E t \in Tokens, op \in {"create", "deactivate", "send"} : OnTokenValidated(c, t, op)
         \/ \E k \in Credentials : AddCredential(c, k)
         \/ \E k \in Credentials : FindOwn(c, k)
         \/ CreateCredential(c) \/ DeactivateCredential(c)
         \/ SelectCredential(c) \/ NoCredentials(c)
    \/ \E t \in tasks : LoadCredential(t) \/ UseCredential(t)
    \/ \E t \in Tokens : RevokeToken(t) \/ \E p \in Projects : IssueToken(t, p)
    \/ \E k \in Credentials :
         \/ OpenForm(k) \/ DeleteCredential(k)
         \/ \E r \in Submittable : SubmitForm(k, r) \/ CreateByOperator(k, r)

Spec == Init /\ [][Next]_vars

-----------------------------------------------------------------------------
(* Properties. *)

InFlight(t) == {c \in Calls : by[c] = t /\ pc[c] \in Working}

(* RevokedCutsOff: a revocation in the admin panel takes effect at once in *)
(* every API process: from then on no further call is admitted with the    *)
(* token, and only calls validated before it can still finish.             *)
RevokedCutsOff == [][\A t \in revoked : InFlight(t)' \subseteq InFlight(t)]_vars

(* SavesOwn: when a deactivation is saved the credential belongs to the    *)
(* project of the token, although the check was made on an earlier read,   *)
(* unless an operator has moved the credential to another project.         *)
SavesOwn ==
    \A c \in Calls : pc[c] = "save" /\ Exists(on[c]) /\ on[c] \notin moved =>
        store[on[c]].project = Project(c)

(* DeletedStaysDeleted: a deleted credential never comes back, whatever    *)
(* edit pages and API calls still hold its row and write it.               *)
DeletedStaysDeleted == [][\A k \in spent : ~Exists(k) => store'[k] = None]_vars

(* OffStaysOff: a credential deactivated through the API, with no edit     *)
(* page of it open then or since, stays inactive: no other call that had   *)
(* loaded the row earlier writes it back as active.                        *)
OffStaysOff == \A k \in off : Exists(k) => ~store[k].active

(* SentWithOwn: a message is sent with a credential of its own project,    *)
(* unless an operator moved that credential to another project.            *)
SentWithOwn == \A s \in sent : s[1].credential \notin moved => s[2] = s[1].project
=============================================================================

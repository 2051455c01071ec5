------------------------- MODULE ProjectAccessProofs -------------------------
(***************************************************************************)
(* The properties of ProjectAccess, for any projects, tokens, credentials, *)
(* calls and number of edits.                                              *)
(***************************************************************************)
EXTENDS ProjectAccess, TLAPS

(* What a call, an edit page or a task holds is a row that was inserted.   *)
HeldWasInserted ==
    /\ \A c \in Calls : pc[c] = "save" => on[c] \in spent /\ entity[c] \in Row
    /\ \A k \in Credentials : form[k] # None => k \in spent
    /\ \A t \in tasks : t.credential \in spent

(* Every copy of a row that was not moved, in a call, on a page or in the  *)
(* run of a task, still has the project of the row and of its user.        *)
CopiesKeepProject ==
    /\ \A k \in Credentials \ moved : Exists(k) =>
         /\ form[k] # None => form[k].project = store[k].project
         /\ \A c \in Calls : pc[c] = "save" /\ on[c] = k =>
              entity[c].project = store[k].project /\ store[k].project = Project(c)
         /\ \A t \in tasks : t.credential = k => t.project = store[k].project
    /\ \A t \in tasks : t.credential \notin moved /\ run[t] # None => run[t].project = t.project

(* No edit page holds a credential that counts as deactivated. *)
OffIsClosed == \A k \in off : form[k] = None

AccessInv ==
    /\ AccessTypeOK /\ HeldWasInserted /\ CopiesKeepProject
    /\ OffIsClosed /\ OffStaysOff /\ SentWithOwn

LEMMA InitAccess == Init => AccessInv
BY AccessAssumption DEF Init, AccessInv, AccessTypeOK, HeldWasInserted, CopiesKeepProject,
    OffIsClosed, OffStaysOff, SentWithOwn, Exists, Working, Ended, Row, Task

(* Each step keeps the types; a deactivation writes a row it has loaded.    *)
LEMMA StepTypes == AccessTypeOK /\ HeldWasInserted /\ [Next]_vars => AccessTypeOK'
<1> SUFFICES ASSUME AccessTypeOK, HeldWasInserted, [Next]_vars PROVE AccessTypeOK'
    OBVIOUS
<1> USE AccessAssumption DEF AccessTypeOK, Row, Task, Working, Ended, HeldWasInserted
<1>1. CASE \E c \in Calls, t \in Tokens, op \in {"create", "deactivate", "send"} : OnTokenValidated(c, t, op)
    BY <1>1 DEF OnTokenValidated, Go, access, rows, api, worker, history
<1>2. CASE \E c \in Calls, k \in Credentials : AddCredential(c, k)
    BY <1>2 DEF AddCredential, Go, Project, access, rows, api, worker, history
<1>3. CASE \E c \in Calls, k \in Credentials : FindOwn(c, k)
  <2>1. PICK c \in Calls, k \in Credentials : FindOwn(c, k)
    BY <1>3
  <2>2. UNCHANGED <<owner, revoked, store, spent, form, tasks, run, sent, moved, off, edits>>
    BY <2>1 DEF FindOwn, access, rows, worker, history
  <2>3. CASE Load(c, k)
    BY <2>1, <2>2, <2>3 DEF FindOwn, Load, Go
  <2>4. CASE Answer(c, "notFound")
    BY <2>1, <2>2, <2>4 DEF Answer, Go
  <2> QED
    BY <2>1, <2>3, <2>4 DEF FindOwn
<1>4. CASE \E c \in Calls : CreateCredential(c)
    BY <1>4 DEF CreateCredential, Go, Answer, access, rows, api, worker, history
<1>5. CASE \E c \in Calls : DeactivateCredential(c)
  <2>1. PICK c \in Calls : DeactivateCredential(c)
    BY <1>5
  <2>2. Answer(c, "ok") \/ Answer(c, "failed")
    BY <2>1 DEF DeactivateCredential
  <2>3. /\ pc' \in [Calls -> {"idle"} \cup Working \cup Ended]
        /\ by' \in [Calls -> Tokens \cup {None}] /\ on' \in [Calls -> Credentials \cup {None}]
        /\ entity' \in [Calls -> Row \cup {None}]
        /\ \A b \in Calls : pc'[b] \in Working => pc[b] \in Working /\ by'[b] = by[b]
    BY <2>2 DEF Answer, Go
  <2>4. /\ store' \in [Credentials -> Row \cup {None}] /\ off' \subseteq spent
        /\ \A k \in Credentials \ spent : store'[k] = None
    <3>1. on[c] \in spent /\ entity[c] \in Row
        BY <2>1 DEF DeactivateCredential
    <3>2. [entity[c] EXCEPT !.active = FALSE] \in Row
        BY <3>1
    <3>3. UNCHANGED <<store, off>> \/ SaveRow(on[c], [entity[c] EXCEPT !.active = FALSE])
        BY <2>1 DEF DeactivateCredential
    <3>4. CASE UNCHANGED <<store, off>>
        BY <3>4
    <3>5. CASE SaveRow(on[c], [entity[c] EXCEPT !.active = FALSE])
      <4> DEFINE r == [entity[c] EXCEPT !.active = FALSE]
      <4>1. r \in Row /\ store' = [store EXCEPT ![on[c]] = r]
        BY <3>2, <3>5 DEF SaveRow
      <4>2. off' \subseteq off \cup {on[c]}
        BY <3>5 DEF SaveRow
      <4> HIDE DEF r
      <4> QED
        BY <3>1, <4>1, <4>2
    <3> QED
        BY <3>3, <3>4, <3>5
  <2>5. UNCHANGED <<owner, revoked, spent, form, tasks, run, sent, moved, edits>>
    BY <2>1 DEF DeactivateCredential, access, worker
  <2> QED
    BY <2>3, <2>4, <2>5
<1>6. CASE \E c \in Calls : SelectCredential(c)
    BY <1>6 DEF SelectCredential, Go, Answer, Enqueue, Visible, Project, Exists, access, rows, api, worker, history
<1>7. CASE \E c \in Calls : NoCredentials(c)
    BY <1>7 DEF NoCredentials, Go, Answer, access, rows, api, worker, history
<1>8. CASE \E t \in tasks : LoadCredential(t)
    BY <1>8 DEF LoadCredential, Exists, access, rows, api, worker, history
<1>9. CASE \E t \in tasks : UseCredential(t)
    BY <1>9 DEF UseCredential, Exists, access, rows, api, worker, history
<1>10. CASE \E t \in Tokens : RevokeToken(t)
    BY <1>10 DEF RevokeToken, access, rows, api, worker, history
<1>11. CASE \E t \in Tokens, p \in Projects : IssueToken(t, p)
    BY <1>11 DEF IssueToken, access, rows, api, worker, history
<1>12. CASE \E k \in Credentials : OpenForm(k)
    BY <1>12 DEF OpenForm, Exists, Edit, access, rows, api, worker, history
<1>13. CASE \E k \in Credentials : DeleteCredential(k)
    BY <1>13 DEF DeleteCredential, Exists, Edit, access, rows, api, worker, history
<1>14. CASE \E k \in Credentials, r \in Row : SubmitForm(k, r)
    BY <1>14 DEF SubmitForm, Exists, access, rows, api, worker, history
<1>15. CASE \E k \in Credentials, r \in Row : CreateByOperator(k, r)
    BY <1>15 DEF CreateByOperator, Edit, access, rows, api, worker, history
<1>16. CASE UNCHANGED vars
    BY <1>16 DEF vars, access, rows, api, worker, history
<1> QED
    BY <1>1, <1>2, <1>3, <1>4, <1>5, <1>6, <1>7, <1>8, <1>9, <1>10, <1>11, <1>12, <1>13, <1>14, <1>15, <1>16 DEF Next, Submittable

(* Nothing is held of a row that was never inserted.                       *)
LEMMA StepHeld == AccessTypeOK /\ HeldWasInserted /\ [Next]_vars => HeldWasInserted'
<1> SUFFICES ASSUME AccessTypeOK, HeldWasInserted, [Next]_vars PROVE HeldWasInserted'
    OBVIOUS
<1> USE AccessAssumption DEF AccessTypeOK, Row, Task, Working, Ended, HeldWasInserted
<1>1. CASE \E c \in Calls, t \in Tokens, op \in {"create", "deactivate", "send"} : OnTokenValidated(c, t, op)
    BY <1>1 DEF OnTokenValidated, Go, access, rows, api, worker, history
<1>2. CASE \E c \in Calls, k \in Credentials : AddCredential(c, k)
    BY <1>2 DEF AddCredential, Go, Project, access, rows, api, worker, history
<1>3. CASE \E c \in Calls, k \in Credentials : FindOwn(c, k)
    BY <1>3 DEF FindOwn, Go, Answer, Load, Visible, Exists, Project, access, rows, api, worker, history
<1>4. CASE \E c \in Calls : CreateCredential(c)
    BY <1>4 DEF CreateCredential, Go, Answer, access, rows, api, worker, history
<1>5. CASE \E c \in Calls : DeactivateCredential(c)
    BY <1>5 DEF DeactivateCredential, Go, Answer, SaveRow, Exists, access, rows, api, worker, history
<1>6. CASE \E c \in Calls : SelectCredential(c)
    BY <1>6 DEF SelectCredential, Go, Answer, Enqueue, Visible, Project, Exists, access, rows, api, worker, history
<1>7. CASE \E c \in Calls : NoCredentials(c)
    BY <1>7 DEF NoCredentials, Go, Answer, access, rows, api, worker, history
<1>8. CASE \E t \in tasks : LoadCredential(t)
    BY <1>8 DEF LoadCredential, Exists, access, rows, api, worker, history
<1>9. CASE \E t \in tasks : UseCredential(t)
    BY <1>9 DEF UseCredential, Exists, access, rows, api, worker, history
<1>10. CASE \E t \in Tokens : RevokeToken(t)
    BY <1>10 DEF RevokeToken, access, rows, api, worker, history
<1>11. CASE \E t \in Tokens, p \in Projects : IssueToken(t, p)
    BY <1>11 DEF IssueToken, access, rows, api, worker, history
<1>12. CASE \E k \in Credentials : OpenForm(k)
    BY <1>12 DEF OpenForm, Exists, Edit, access, rows, api, worker, history
<1>13. CASE \E k \in Credentials : DeleteCredential(k)
    BY <1>13 DEF DeleteCredential, Exists, Edit, access, rows, api, worker, history
<1>14. CASE \E k \in Credentials, r \in Row : SubmitForm(k, r)
    BY <1>14 DEF SubmitForm, Exists, access, rows, api, worker, history
<1>15. CASE \E k \in Credentials, r \in Row : CreateByOperator(k, r)
    BY <1>15 DEF CreateByOperator, Edit, access, rows, api, worker, history
<1>16. CASE UNCHANGED vars
    BY <1>16 DEF vars, access, rows, api, worker, history
<1> QED
    BY <1>1, <1>2, <1>3, <1>4, <1>5, <1>6, <1>7, <1>8, <1>9, <1>10, <1>11, <1>12, <1>13, <1>14, <1>15, <1>16 DEF Next, Submittable

(* A copy and its row change the project together, or the row was moved.   *)
LEMMA StepCopies == AccessTypeOK /\ HeldWasInserted /\ CopiesKeepProject /\ [Next]_vars => CopiesKeepProject'
<1> SUFFICES ASSUME AccessTypeOK, HeldWasInserted, CopiesKeepProject, [Next]_vars PROVE CopiesKeepProject'
    OBVIOUS
<1> USE AccessAssumption DEF AccessTypeOK, Row, Task, Working, Ended, HeldWasInserted, CopiesKeepProject, Exists, Project
<1>1. CASE \E c \in Calls, t \in Tokens, op \in {"create", "deactivate", "send"} : OnTokenValidated(c, t, op)
    BY <1>1 DEF OnTokenValidated, Go, access, rows, api, worker, history
<1>2. CASE \E c \in Calls, k \in Credentials : AddCredential(c, k)
    BY <1>2 DEF AddCredential, Go, Project, access, rows, api, worker, history
<1>3. CASE \E c \in Calls, k \in Credentials : FindOwn(c, k)
    BY <1>3 DEF FindOwn, Go, Answer, Load, Visible, Exists, Project, access, rows, api, worker, history
<1>4. CASE \E c \in Calls : CreateCredential(c)
    BY <1>4 DEF CreateCredential, Go, Answer, access, rows, api, worker, history
<1>5. CASE \E c \in Calls : DeactivateCredential(c)
    BY <1>5 DEF DeactivateCredential, Go, Answer, SaveRow, Exists, access, rows, api, worker, history
<1>6. CASE \E c \in Calls : SelectCredential(c)
    BY <1>6 DEF SelectCredential, Go, Answer, Enqueue, Visible, Project, Exists, access, rows, api, worker, history
<1>7. CASE \E c \in Calls : NoCredentials(c)
    BY <1>7 DEF NoCredentials, Go, Answer, access, rows, api, worker, history
<1>8. CASE \E t \in tasks : LoadCredential(t)
    BY <1>8 DEF LoadCredential, Exists, access, rows, api, worker, history
<1>9. CASE \E t \in tasks : UseCredential(t)
    BY <1>9 DEF UseCredential, Exists, access, rows, api, worker, history
<1>10. CASE \E t \in Tokens : RevokeToken(t)
    BY <1>10 DEF RevokeToken, access, rows, api, worker, history
<1>11. CASE \E t \in Tokens, p \in Projects : IssueToken(t, p)
    BY <1>11 DEF IssueToken, access, rows, api, worker, history
<1>12. CASE \E k \in Credentials : OpenForm(k)
    BY <1>12 DEF OpenForm, Exists, Edit, access, rows, api, worker, history
<1>13. CASE \E k \in Credentials : DeleteCredential(k)
    BY <1>13 DEF DeleteCredential, Exists, Edit, access, rows, api, worker, history
<1>14. CASE \E k \in Credentials, r \in Row : SubmitForm(k, r)
    BY <1>14 DEF SubmitForm, Exists, access, rows, api, worker, history
<1>15. CASE \E k \in Credentials, r \in Row : CreateByOperator(k, r)
    BY <1>15 DEF CreateByOperator, Edit, access, rows, api, worker, history
<1>16. CASE UNCHANGED vars
    BY <1>16 DEF vars, access, rows, api, worker, history
<1> QED
    BY <1>1, <1>2, <1>3, <1>4, <1>5, <1>6, <1>7, <1>8, <1>9, <1>10, <1>11, <1>12, <1>13, <1>14, <1>15, <1>16 DEF Next, Submittable

(* Opening the edit page ends the claim that a credential is off.         *)
LEMMA StepOffClosed == AccessTypeOK /\ OffIsClosed /\ [Next]_vars => OffIsClosed'
<1> SUFFICES ASSUME AccessTypeOK, OffIsClosed, [Next]_vars PROVE OffIsClosed'
    OBVIOUS
<1> USE AccessAssumption DEF AccessTypeOK, Row, Task, Working, Ended, OffIsClosed
<1>1. CASE \E c \in Calls, t \in Tokens, op \in {"create", "deactivate", "send"} : OnTokenValidated(c, t, op)
    BY <1>1 DEF OnTokenValidated, Go, access, rows, api, worker, history
<1>2. CASE \E c \in Calls, k \in Credentials : AddCredential(c, k)
    BY <1>2 DEF AddCredential, Go, Project, access, rows, api, worker, history
<1>3. CASE \E c \in Calls, k \in Credentials : FindOwn(c, k)
    BY <1>3 DEF FindOwn, Go, Answer, Load, Visible, Exists, Project, access, rows, api, worker, history
<1>4. CASE \E c \in Calls : CreateCredential(c)
    BY <1>4 DEF CreateCredential, Go, Answer, access, rows, api, worker, history
<1>5. CASE \E c \in Calls : DeactivateCredential(c)
    BY <1>5 DEF DeactivateCredential, Go, Answer, SaveRow, Exists, access, rows, api, worker, history
<1>6. CASE \E c \in Calls : SelectCredential(c)
    BY <1>6 DEF SelectCredential, Go, Answer, Enqueue, Visible, Project, Exists, access, rows, api, worker, history
<1>7. CASE \E c \in Calls : NoCredentials(c)
    BY <1>7 DEF NoCredentials, Go, Answer, access, rows, api, worker, history
<1>8. CASE \E t \in tasks : LoadCredential(t)
    BY <1>8 DEF LoadCredential, Exists, access, rows, api, worker, history
<1>9. CASE \E t \in tasks : UseCredential(t)
    BY <1>9 DEF UseCredential, Exists, access, rows, api, worker, history
<1>10. CASE \E t \in Tokens : RevokeToken(t)
    BY <1>10 DEF RevokeToken, access, rows, api, worker, history
<1>11. CASE \E t \in Tokens, p \in Projects : IssueToken(t, p)
    BY <1>11 DEF IssueToken, access, rows, api, worker, history
<1>12. CASE \E k \in Credentials : OpenForm(k)
    BY <1>12 DEF OpenForm, Exists, Edit, access, rows, api, worker, history
<1>13. CASE \E k \in Credentials : DeleteCredential(k)
    BY <1>13 DEF DeleteCredential, Exists, Edit, access, rows, api, worker, history
<1>14. CASE \E k \in Credentials, r \in Row : SubmitForm(k, r)
    BY <1>14 DEF SubmitForm, Exists, access, rows, api, worker, history
<1>15. CASE \E k \in Credentials, r \in Row : CreateByOperator(k, r)
    BY <1>15 DEF CreateByOperator, Edit, access, rows, api, worker, history
<1>16. CASE UNCHANGED vars
    BY <1>16 DEF vars, access, rows, api, worker, history
<1> QED
    BY <1>1, <1>2, <1>3, <1>4, <1>5, <1>6, <1>7, <1>8, <1>9, <1>10, <1>11, <1>12, <1>13, <1>14, <1>15, <1>16 DEF Next, Submittable

(* Only an edit page, or an insertion, writes an active row.               *)
LEMMA StepOff == AccessTypeOK /\ HeldWasInserted /\ OffIsClosed /\ OffStaysOff /\ [Next]_vars => OffStaysOff'
<1> SUFFICES ASSUME AccessTypeOK, HeldWasInserted, OffIsClosed, OffStaysOff, [Next]_vars PROVE OffStaysOff'
    OBVIOUS
<1> USE AccessAssumption DEF AccessTypeOK, Row, Task, Working, Ended, HeldWasInserted, OffIsClosed, OffStaysOff, Exists
<1>1. CASE \E c \in Calls, t \in Tokens, op \in {"create", "deactivate", "send"} : OnTokenValidated(c, t, op)
    BY <1>1 DEF OnTokenValidated, Go, access, rows, api, worker, history
<1>2. CASE \E c \in Calls, k \in Credentials : AddCredential(c, k)
    BY <1>2 DEF AddCredential, Go, Project, access, rows, api, worker, history
<1>3. CASE \E c \in Calls, k \in Credentials : FindOwn(c, k)
    BY <1>3 DEF FindOwn, Go, Answer, Load, Visible, Exists, Project, access, rows, api, worker, history
<1>4. CASE \E c \in Calls : CreateCredential(c)
    BY <1>4 DEF CreateCredential, Go, Answer, access, rows, api, worker, history
<1>5. CASE \E c \in Calls : DeactivateCredential(c)
    BY <1>5 DEF DeactivateCredential, Go, Answer, SaveRow, Exists, access, rows, api, worker, history
<1>6. CASE \E c \in Calls : SelectCredential(c)
    BY <1>6 DEF SelectCredential, Go, Answer, Enqueue, Visible, Project, Exists, access, rows, api, worker, history
<1>7. CASE \E c \in Calls : NoCredentials(c)
    BY <1>7 DEF NoCredentials, Go, Answer, access, rows, api, worker, history
<1>8. CASE \E t \in tasks : LoadCredential(t)
    BY <1>8 DEF LoadCredential, Exists, access, rows, api, worker, history
<1>9. CASE \E t \in tasks : UseCredential(t)
    BY <1>9 DEF UseCredential, Exists, access, rows, api, worker, history
<1>10. CASE \E t \in Tokens : RevokeToken(t)
    BY <1>10 DEF RevokeToken, access, rows, api, worker, history
<1>11. CASE \E t \in Tokens, p \in Projects : IssueToken(t, p)
    BY <1>11 DEF IssueToken, access, rows, api, worker, history
<1>12. CASE \E k \in Credentials : OpenForm(k)
    BY <1>12 DEF OpenForm, Exists, Edit, access, rows, api, worker, history
<1>13. CASE \E k \in Credentials : DeleteCredential(k)
    BY <1>13 DEF DeleteCredential, Exists, Edit, access, rows, api, worker, history
<1>14. CASE \E k \in Credentials, r \in Row : SubmitForm(k, r)
    BY <1>14 DEF SubmitForm, Exists, access, rows, api, worker, history
<1>15. CASE \E k \in Credentials, r \in Row : CreateByOperator(k, r)
    BY <1>15 DEF CreateByOperator, Edit, access, rows, api, worker, history
<1>16. CASE UNCHANGED vars
    BY <1>16 DEF vars, access, rows, api, worker, history
<1> QED
    BY <1>1, <1>2, <1>3, <1>4, <1>5, <1>6, <1>7, <1>8, <1>9, <1>10, <1>11, <1>12, <1>13, <1>14, <1>15, <1>16 DEF Next, Submittable

(* What is sent uses the project of the loaded entity.                     *)
LEMMA StepSent == AccessTypeOK /\ CopiesKeepProject /\ SentWithOwn /\ [Next]_vars => SentWithOwn'
<1> SUFFICES ASSUME AccessTypeOK, CopiesKeepProject, SentWithOwn, [Next]_vars PROVE SentWithOwn'
    OBVIOUS
<1> USE AccessAssumption DEF AccessTypeOK, Row, Task, Working, Ended, CopiesKeepProject, SentWithOwn
<1>1. CASE \E c \in Calls, t \in Tokens, op \in {"create", "deactivate", "send"} : OnTokenValidated(c, t, op)
    BY <1>1 DEF OnTokenValidated, Go, access, rows, api, worker, history
<1>2. CASE \E c \in Calls, k \in Credentials : AddCredential(c, k)
    BY <1>2 DEF AddCredential, Go, Project, access, rows, api, worker, history
<1>3. CASE \E c \in Calls, k \in Credentials : FindOwn(c, k)
    BY <1>3 DEF FindOwn, Go, Answer, Load, Visible, Exists, Project, access, rows, api, worker, history
<1>4. CASE \E c \in Calls : CreateCredential(c)
    BY <1>4 DEF CreateCredential, Go, Answer, access, rows, api, worker, history
<1>5. CASE \E c \in Calls : DeactivateCredential(c)
    BY <1>5 DEF DeactivateCredential, Go, Answer, SaveRow, Exists, access, rows, api, worker, history
<1>6. CASE \E c \in Calls : SelectCredential(c)
    BY <1>6 DEF SelectCredential, Go, Answer, Enqueue, Visible, Project, Exists, access, rows, api, worker, history
<1>7. CASE \E c \in Calls : NoCredentials(c)
    BY <1>7 DEF NoCredentials, Go, Answer, access, rows, api, worker, history
<1>8. CASE \E t \in tasks : LoadCredential(t)
    BY <1>8 DEF LoadCredential, Exists, access, rows, api, worker, history
<1>9. CASE \E t \in tasks : UseCredential(t)
    BY <1>9 DEF UseCredential, Exists, access, rows, api, worker, history
<1>10. CASE \E t \in Tokens : RevokeToken(t)
    BY <1>10 DEF RevokeToken, access, rows, api, worker, history
<1>11. CASE \E t \in Tokens, p \in Projects : IssueToken(t, p)
    BY <1>11 DEF IssueToken, access, rows, api, worker, history
<1>12. CASE \E k \in Credentials : OpenForm(k)
    BY <1>12 DEF OpenForm, Exists, Edit, access, rows, api, worker, history
<1>13. CASE \E k \in Credentials : DeleteCredential(k)
    BY <1>13 DEF DeleteCredential, Exists, Edit, access, rows, api, worker, history
<1>14. CASE \E k \in Credentials, r \in Row : SubmitForm(k, r)
    BY <1>14 DEF SubmitForm, Exists, access, rows, api, worker, history
<1>15. CASE \E k \in Credentials, r \in Row : CreateByOperator(k, r)
    BY <1>15 DEF CreateByOperator, Edit, access, rows, api, worker, history
<1>16. CASE UNCHANGED vars
    BY <1>16 DEF vars, access, rows, api, worker, history
<1> QED
    BY <1>1, <1>2, <1>3, <1>4, <1>5, <1>6, <1>7, <1>8, <1>9, <1>10, <1>11, <1>12, <1>13, <1>14, <1>15, <1>16 DEF Next, Submittable

(* The invariant of the tokens and credentials. *)
THEOREM AccessInvariant == Spec => []AccessInv
<1>1. AccessInv /\ [Next]_vars => AccessInv'
    BY StepTypes, StepHeld, StepCopies, StepOffClosed, StepOff, StepSent DEF AccessInv
<1> QED
    BY InitAccess, <1>1, PTL DEF Spec

(* The types of the tables, calls, pages and tasks, for any constants.     *)
THEOREM AccessTypes == Spec => []AccessTypeOK
<1>1. AccessInv => AccessTypeOK
    BY DEF AccessInv
<1> QED
    BY <1>1, AccessInvariant, PTL

(* A deactivation is saved on a credential of the token's own project,     *)
(* unless an operator moved it, for any calls, pages and edits.            *)
THEOREM AlwaysSavesOwn == Spec => []SavesOwn
<1>1. AccessInv => SavesOwn
  <2> SUFFICES ASSUME AccessInv, NEW c \in Calls,
                      pc[c] = "save", Exists(on[c]), on[c] \notin moved
               PROVE  store[on[c]].project = Project(c)
    BY DEF SavesOwn
  <2>1. on[c] \in Credentials \ moved
    BY DEF AccessInv, AccessTypeOK, HeldWasInserted
  <2> QED
    BY <2>1 DEF AccessInv, CopiesKeepProject
<1> QED
    BY <1>1, AccessInvariant, PTL

(* A credential deactivated through the API stays inactive until an edit   *)
(* page of it is opened, for any calls, pages and edits.                   *)
THEOREM DeactivationLasts == Spec => []OffStaysOff
<1>1. AccessInv => OffStaysOff
    BY DEF AccessInv
<1> QED
    BY <1>1, AccessInvariant, PTL

(* Messages are sent with a credential of their own project, unless an     *)
(* operator moved it, however long the tasks wait.                         *)
THEOREM AlwaysSentWithOwn == Spec => []SentWithOwn
<1>1. AccessInv => SentWithOwn
    BY DEF AccessInv
<1> QED
    BY <1>1, AccessInvariant, PTL

(* No step writes the row of an id that was used and has none.              *)
LEMMA StepDeleted == AccessTypeOK /\ [Next]_vars => \A k \in spent : ~Exists(k) => store'[k] = None
<1> SUFFICES ASSUME AccessTypeOK, [Next]_vars, NEW id \in spent, ~Exists(id) PROVE store'[id] = None
    OBVIOUS
<1> USE DEF AccessTypeOK, Exists
<1>1. CASE \E c \in Calls, t \in Tokens, op \in {"create", "deactivate", "send"} : OnTokenValidated(c, t, op)
    BY <1>1 DEF OnTokenValidated, Go, access, rows, api, worker, history
<1>2. CASE \E c \in Calls, k \in Credentials : AddCredential(c, k)
    BY <1>2 DEF AddCredential, Go, Project, access, rows, api, worker, history
<1>3. CASE \E c \in Calls, k \in Credentials : FindOwn(c, k)
    BY <1>3 DEF FindOwn, Go, Answer, Load, Visible, Exists, Project, access, rows, api, worker, history
<1>4. CASE \E c \in Calls : CreateCredential(c)
    BY <1>4 DEF CreateCredential, Go, Answer, access, rows, api, worker, history
<1>5. CASE \E c \in Calls : DeactivateCredential(c)
    BY <1>5 DEF DeactivateCredential, Go, Answer, SaveRow, Exists, access, rows, api, worker, history
<1>6. CASE \E c \in Calls : SelectCredential(c)
    BY <1>6 DEF SelectCredential, Go, Answer, Enqueue, Visible, Project, Exists, access, rows, api, worker, history
<1>7. CASE \E c \in Calls : NoCredentials(c)
    BY <1>7 DEF NoCredentials, Go, Answer, access, rows, api, worker, history
<1>8. CASE \E t \in tasks : LoadCredential(t)
    BY <1>8 DEF LoadCredential, Exists, access, rows, api, worker, history
<1>9. CASE \E t \in tasks : UseCredential(t)
    BY <1>9 DEF UseCredential, Exists, access, rows, api, worker, history
<1>10. CASE \E t \in Tokens : RevokeToken(t)
    BY <1>10 DEF RevokeToken, access, rows, api, worker, history
<1>11. CASE \E t \in Tokens, p \in Projects : IssueToken(t, p)
    BY <1>11 DEF IssueToken, access, rows, api, worker, history
<1>12. CASE \E k \in Credentials : OpenForm(k)
    BY <1>12 DEF OpenForm, Exists, Edit, access, rows, api, worker, history
<1>13. CASE \E k \in Credentials : DeleteCredential(k)
    BY <1>13 DEF DeleteCredential, Exists, Edit, access, rows, api, worker, history
<1>14. CASE \E k \in Credentials, r \in Row : SubmitForm(k, r)
    BY <1>14 DEF SubmitForm, Exists, access, rows, api, worker, history
<1>15. CASE \E k \in Credentials, r \in Row : CreateByOperator(k, r)
    BY <1>15 DEF CreateByOperator, Edit, access, rows, api, worker, history
<1>16. CASE UNCHANGED vars
    BY <1>16 DEF vars, access, rows, api, worker, history
<1> QED
    BY <1>1, <1>2, <1>3, <1>4, <1>5, <1>6, <1>7, <1>8, <1>9, <1>10, <1>11, <1>12, <1>13, <1>14, <1>15, <1>16 DEF Next, Submittable

(* A deleted credential never comes back, whatever still holds its row,    *)
(* for any calls, pages and edits.                                         *)
THEOREM DeletionIsFinal == Spec => DeletedStaysDeleted
<1> QED
    BY AccessTypes, StepDeleted, PTL DEF Spec, DeletedStaysDeleted

(* A step adds no call to those in flight with a revoked token.            *)
LEMMA StepRevoked == AccessTypeOK /\ [Next]_vars => \A t \in revoked : InFlight(t)' \subseteq InFlight(t)
<1> SUFFICES ASSUME AccessTypeOK, [Next]_vars, NEW gone \in revoked, NEW a \in Calls,
                    by'[a] = gone, pc'[a] \in Working
             PROVE  by[a] = gone /\ pc[a] \in Working
    BY DEF InFlight
<1> USE AccessAssumption DEF AccessTypeOK, Working, Ended
<1>1. CASE \E c \in Calls, t \in Tokens, op \in {"create", "deactivate", "send"} : OnTokenValidated(c, t, op)
    BY <1>1 DEF OnTokenValidated, Go, access, rows, api, worker, history
<1>2. CASE \E c \in Calls, k \in Credentials : AddCredential(c, k)
    BY <1>2 DEF AddCredential, Go, Project, access, rows, api, worker, history
<1>3. CASE \E c \in Calls, k \in Credentials : FindOwn(c, k)
    BY <1>3 DEF FindOwn, Go, Answer, Load, Visible, Exists, Project, access, rows, api, worker, history
<1>4. CASE \E c \in Calls : CreateCredential(c)
    BY <1>4 DEF CreateCredential, Go, Answer, access, rows, api, worker, history
<1>5. CASE \E c \in Calls : DeactivateCredential(c)
    BY <1>5 DEF DeactivateCredential, Go, Answer, SaveRow, Exists, access, rows, api, worker, history
<1>6. CASE \E c \in Calls : SelectCredential(c)
    BY <1>6 DEF SelectCredential, Go, Answer, Enqueue, Visible, Project, Exists, access, rows, api, worker, history
<1>7. CASE \E c \in Calls : NoCredentials(c)
    BY <1>7 DEF NoCredentials, Go, Answer, access, rows, api, worker, history
<1>8. CASE \E t \in tasks : LoadCredential(t)
    BY <1>8 DEF LoadCredential, Exists, access, rows, api, worker, history
<1>9. CASE \E t \in tasks : UseCredential(t)
    BY <1>9 DEF UseCredential, Exists, access, rows, api, worker, history
<1>10. CASE \E t \in Tokens : RevokeToken(t)
    BY <1>10 DEF RevokeToken, access, rows, api, worker, history
<1>11. CASE \E t \in Tokens, p \in Projects : IssueToken(t, p)
    BY <1>11 DEF IssueToken, access, rows, api, worker, history
<1>12. CASE \E k \in Credentials : OpenForm(k)
    BY <1>12 DEF OpenForm, Exists, Edit, access, rows, api, worker, history
<1>13. CASE \E k \in Credentials : DeleteCredential(k)
    BY <1>13 DEF DeleteCredential, Exists, Edit, access, rows, api, worker, history
<1>14. CASE \E k \in Credentials, r \in Row : SubmitForm(k, r)
    BY <1>14 DEF SubmitForm, Exists, access, rows, api, worker, history
<1>15. CASE \E k \in Credentials, r \in Row : CreateByOperator(k, r)
    BY <1>15 DEF CreateByOperator, Edit, access, rows, api, worker, history
<1>16. CASE UNCHANGED vars
    BY <1>16 DEF vars, access, rows, api, worker, history
<1> QED
    BY <1>1, <1>2, <1>3, <1>4, <1>5, <1>6, <1>7, <1>8, <1>9, <1>10, <1>11, <1>12, <1>13, <1>14, <1>15, <1>16 DEF Next, Submittable

(* A revoked token admits no further call, for any tokens and calls.       *)
THEOREM RevocationIsFinal == Spec => RevokedCutsOff
<1> QED
    BY AccessTypes, StepRevoked, PTL DEF Spec, RevokedCutsOff
=============================================================================

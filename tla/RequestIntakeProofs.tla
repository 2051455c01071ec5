------------------------- MODULE RequestIntakeProofs -------------------------
(***************************************************************************)
(* Proofs about RequestIntake, for any number of calls and recipients.     *)
(* The calls that may insert tasks of the request are its owners: there is *)
(* one for each time the request was stored, since any other call drags    *)
(* its own copy of the request through every insert it tries.              *)
(***************************************************************************)
EXTENDS RequestIntake, FiniteSetTheorems, TLAPS

Adding == {"select", "task", "publish"}
Before == {"idle", "get", "insert"}

(* A call is at a recipient of the request while it handles one, and no    *)
(* task of it is inserted before its request was tried.                    *)
Places ==
    \A c \in Calls :
        /\ pc[c] \in {"task", "publish"} => at[c] \in Items
        /\ pc[c] \in Before => ids[c] = {} /\ added[c] = {} /\ request # c /\ at[c] = 1
        /\ pc[c] \in Adding /\ ids[c] # {} => 0 \notin added[c]

(* The calls that have stored the request, or still may insert tasks       *)
(* without storing it again.                                               *)
Owners ==
    {c \in Calls : pc[c] \in Adding /\ 0 \notin added[c]}
        \cup {q.call : q \in {v \in queued : v.hasId}} \cup ({request} \ {None})

(* Each of them but the last has had its request deleted. *)
OwnersBound ==
    /\ IsFiniteSet(Owners)
    /\ Cardinality(Owners) =< deletes + (IF request = None THEN 0 ELSE 1)

(* What SaveChanges does to the tables and the context, in any outcome.    *)
LEMMA SaveTypes ==
    ASSUME IntakeTypeOK, NEW c \in Calls, NEW e \in Items \cup {0}, SaveChanges(c, e)
    PROVE  /\ request' \in Calls \cup {None} /\ rows' \in [Items -> Nat]
           /\ added' \in [Calls -> SUBSET (Items \cup {0})] /\ ids' \in [Calls -> SUBSET Items]
           /\ faults' \in 0..MaxFaults
<1> DEFINE E == added[c] \cup {e}
<1>1. E \in SUBSET (Items \cup {0})
    BY DEF IntakeTypeOK
<1>2. added[c] \in SUBSET (Items \cup {0}) /\ ids[c] \in SUBSET Items /\ rows \in [Items -> Nat]
      /\ request \in Calls \cup {None} /\ faults \in 0..MaxFaults
      /\ added \in [Calls -> SUBSET (Items \cup {0})] /\ ids \in [Calls -> SUBSET Items]
    BY DEF IntakeTypeOK
<1>3. faults' \in 0..MaxFaults
  <2>1. faults' = faults \/ Fault
    BY DEF SaveChanges
  <2> QED
    BY <2>1, <1>2, IntakeAssumption DEF Fault
<1>4. /\ added' = [added EXCEPT ![c] = {}] \/ added' = [added EXCEPT ![c] = E] \/ added' = added
      /\ ids' = [ids EXCEPT ![c] = ids[c] \cup (E \ {0})] \/ ids' = ids
      /\ Insert(c, E) \/ UNCHANGED database
  <2> HIDE DEF E
  <2> QED
    BY DEF SaveChanges, E
<1>5. added' \in [Calls -> SUBSET (Items \cup {0})] /\ ids' \in [Calls -> SUBSET Items]
  <2>1. E \ {0} \in SUBSET Items
    BY <1>1
  <2> HIDE DEF E
  <2> QED
    BY <1>1, <1>2, <1>4, <2>1
<1>6. request' \in Calls \cup {None} /\ rows' \in [Items -> Nat]
  <2>1. CASE UNCHANGED database
    BY <1>2, <2>1 DEF database
  <2>2. CASE Insert(c, E)
    <3> HIDE DEF E
    <3> QED
        BY <1>2, <2>2 DEF Insert
  <2> QED
    BY <1>4, <2>1, <2>2
<1> QED
    BY <1>3, <1>5, <1>6

(* Each step keeps the types.                                              *)
LEMMA StepTypes == IntakeTypeOK /\ Places /\ [Next]_vars => IntakeTypeOK'
<1> SUFFICES ASSUME IntakeTypeOK, Places, [Next]_vars PROVE IntakeTypeOK'
    OBVIOUS
<1> USE CallsAssumption, IntakeAssumption DEF IntakeTypeOK, DTO, Items, Places, Before, Adding
<1>1. CASE \E c \in Calls : CheckExists(c)
    BY <1>1 DEF CheckExists, Go, database, control, context, bounds
<1>2. CASE \E c \in Calls : AnswerExisting(c)
    BY <1>2 DEF AnswerExisting, Go, Answer, database, control, context, bounds
<1>3. CASE \E c \in Calls : QueryFails(c)
    BY <1>3 DEF QueryFails, Go, Answer, Fault, database, control, context, bounds
<1>4. CASE \E c \in Calls : AddRequest(c)
  <2>1. PICK c \in Calls : AddRequest(c)
    BY <1>4
  <2>2. 0 \in Items \cup {0} /\ SaveChanges(c, 0)
    BY <2>1 DEF AddRequest
  <2> QED
    BY <2>1, <2>2, SaveTypes DEF AddRequest, Go
<1>5. CASE \E c \in Calls : SelectCredential(c)
    BY <1>5 DEF SelectCredential, Go, database, control, context, bounds
<1>6. CASE \E c \in Calls : NoCredential(c)
    BY <1>6 DEF NoCredential, Go, ItemError, NextItem, database, control, context, bounds
<1>7. CASE \E c \in Calls : AddTask(c)
  <2>1. PICK c \in Calls : AddTask(c)
    BY <1>7
  <2>2. at[c] \in Items \cup {0} /\ SaveChanges(c, at[c])
    BY <2>1 DEF AddTask
  <2> QED
    BY <2>1, <2>2, SaveTypes DEF AddTask, Go
<1>8. CASE \E c \in Calls : PublishTask(c)
  <2>1. PICK c \in Calls : PublishTask(c)
    BY <1>8
  <2>2. [call |-> c, item |-> at[c], hasId |-> at[c] \in ids[c]] \in DTO
    BY <2>1 DEF PublishTask
  <2>3. queued' \subseteq DTO /\ faults' \in 0..MaxFaults
    <3> DEFINE d == [call |-> c, item |-> at[c], hasId |-> at[c] \in ids[c]]
    <3>1. queued' \in {queued, queued \cup {d}} /\ (faults' = faults \/ Fault)
        BY <2>1 DEF PublishTask
    <3>2. queued' \subseteq DTO
      <4> HIDE DEF DTO, d
      <4> QED
        BY <2>2, <3>1 DEF d
    <3>3. faults' \in 0..MaxFaults
        BY <3>1 DEF Fault
    <3> QED
        BY <3>2, <3>3
  <2>4. pc' = [pc EXCEPT ![c] = "select"] /\ at' = [at EXCEPT ![c] = at[c] + 1]
    BY <2>1 DEF PublishTask, NextItem, Go
  <2>5. UNCHANGED <<request, rows, added, ids, errors, reply, deletes>>
    BY <2>1 DEF PublishTask, database, context
  <2> QED
    BY <2>3, <2>4, <2>5
<1>9. CASE \E c \in Calls : PublishFails(c)
    BY <1>9 DEF PublishFails, Go, ItemError, NextItem, database, control, context, bounds
<1>10. CASE \E c \in Calls : Respond(c)
    BY <1>10 DEF Respond, Go, Answer, database, control, context, bounds
<1>11. CASE \E c \in Calls : CrashCall(c)
    BY <1>11 DEF CrashCall, Go, Answer, Fault, database, control, context, bounds
<1>12. CASE DeleteRequest
    BY <1>12 DEF DeleteRequest, database, control, context, bounds
<1>13. CASE UNCHANGED vars
    BY <1>13 DEF vars, database, control, context, bounds
<1> QED
    BY <1>1, <1>2, <1>3, <1>4, <1>5, <1>6, <1>7, <1>8, <1>9, <1>10, <1>11, <1>12, <1>13 DEF Next

(* Each step keeps the calls where they belong.                            *)
LEMMA StepPlaces == IntakeTypeOK /\ Places /\ [Next]_vars => Places'
<1> SUFFICES ASSUME IntakeTypeOK, Places, [Next]_vars PROVE Places'
    OBVIOUS
<1> USE CallsAssumption, IntakeAssumption DEF IntakeTypeOK, DTO, Items, Places, Before, Adding
<1>1. CASE \E c \in Calls : CheckExists(c)
    BY <1>1 DEF CheckExists, Go, database, control, context, bounds
<1>2. CASE \E c \in Calls : AnswerExisting(c)
    BY <1>2 DEF AnswerExisting, Go, Answer, database, control, context, bounds
<1>3. CASE \E c \in Calls : QueryFails(c)
    BY <1>3 DEF QueryFails, Go, Answer, Fault, database, control, context, bounds
<1>4. CASE \E c \in Calls : AddRequest(c)
    BY <1>4 DEF AddRequest, Go, SaveChanges, Insert, Fault, database, control, context, bounds
<1>5. CASE \E c \in Calls : SelectCredential(c)
    BY <1>5 DEF SelectCredential, Go, database, control, context, bounds
<1>6. CASE \E c \in Calls : NoCredential(c)
    BY <1>6 DEF NoCredential, Go, ItemError, NextItem, database, control, context, bounds
<1>7. CASE \E c \in Calls : AddTask(c)
    BY <1>7 DEF AddTask, Go, SaveChanges, Insert, Fault, database, control, context, bounds
<1>8. CASE \E c \in Calls : PublishTask(c)
    BY <1>8 DEF PublishTask, Go, NextItem, Fault, database, control, context, bounds
<1>9. CASE \E c \in Calls : PublishFails(c)
    BY <1>9 DEF PublishFails, Go, ItemError, NextItem, database, control, context, bounds
<1>10. CASE \E c \in Calls : Respond(c)
    BY <1>10 DEF Respond, Go, Answer, database, control, context, bounds
<1>11. CASE \E c \in Calls : CrashCall(c)
    BY <1>11 DEF CrashCall, Go, Answer, Fault, database, control, context, bounds
<1>12. CASE DeleteRequest
    BY <1>12 DEF DeleteRequest, database, control, context, bounds
<1>13. CASE UNCHANGED vars
    BY <1>13 DEF vars, database, control, context, bounds
<1> QED
    BY <1>1, <1>2, <1>3, <1>4, <1>5, <1>6, <1>7, <1>8, <1>9, <1>10, <1>11, <1>12, <1>13 DEF Next

(* The owners of the next state: no more than those of this one, but for   *)
(* the call that stores the request where there was none; a deletion       *)
(* leaves them as they are.                                                *)
OwnersStep ==
    \/ Owners' \subseteq Owners /\ UNCHANGED <<request, deletes>>
    \/ Owners' \subseteq Owners \cup {request'} /\ request = None /\ request' # None /\ UNCHANGED deletes
    \/ Owners' \subseteq Owners /\ request # None /\ request' = None /\ deletes' = deletes + 1

(* Each step does that.                                                    *)
LEMMA StepOwners == IntakeTypeOK /\ Places /\ [Next]_vars => OwnersStep
<1> SUFFICES ASSUME IntakeTypeOK, Places, [Next]_vars PROVE OwnersStep
    OBVIOUS
<1> USE CallsAssumption, IntakeAssumption DEF IntakeTypeOK, DTO, Items, Places, Before, Adding, Owners, OwnersStep
<1>1. CASE \E c \in Calls : CheckExists(c)
    BY <1>1 DEF CheckExists, Go, database, control, context, bounds
<1>2. CASE \E c \in Calls : AnswerExisting(c)
    BY <1>2 DEF AnswerExisting, Go, Answer, database, control, context, bounds
<1>3. CASE \E c \in Calls : QueryFails(c)
    BY <1>3 DEF QueryFails, Go, Answer, Fault, database, control, context, bounds
<1>4. CASE \E c \in Calls : AddRequest(c)
    BY <1>4 DEF AddRequest, Go, SaveChanges, Insert, Fault, database, control, context, bounds
<1>5. CASE \E c \in Calls : SelectCredential(c)
    BY <1>5 DEF SelectCredential, Go, database, control, context, bounds
<1>6. CASE \E c \in Calls : NoCredential(c)
    BY <1>6 DEF NoCredential, Go, ItemError, NextItem, database, control, context, bounds
<1>7. CASE \E c \in Calls : AddTask(c)
    BY <1>7 DEF AddTask, Go, SaveChanges, Insert, Fault, database, control, context, bounds
<1>8. CASE \E c \in Calls : PublishTask(c)
  <2>1. PICK c \in Calls : PublishTask(c)
    BY <1>8
  <2> DEFINE d == [call |-> c, item |-> at[c], hasId |-> at[c] \in ids[c]]
  <2>2. UNCHANGED <<request, deletes, added>>
    BY <2>1 DEF PublishTask, database, context
  <2>3. pc[c] = "publish" /\ pc' = [pc EXCEPT ![c] = "select"]
    BY <2>1 DEF PublishTask, NextItem, Go
  <2>4. {x \in Calls : pc'[x] \in Adding /\ 0 \notin added'[x]}
        = {x \in Calls : pc[x] \in Adding /\ 0 \notin added[x]}
    BY <2>2, <2>3
  <2>5. d.hasId => c \in Owners
    BY <2>3
  <2>6. queued' \in {queued, queued \cup {d}}
    BY <2>1 DEF PublishTask
  <2>7. \A q \in queued' : q.hasId => q \in queued \/ (d.hasId /\ q.call = c)
    BY <2>6
  <2>8. \A q \in queued' : q.hasId => q.call \in Owners
    BY <2>5, <2>7
  <2>9. Owners' \subseteq Owners
    BY <2>2, <2>4, <2>8
  <2> QED
    BY <2>2, <2>9
<1>9. CASE \E c \in Calls : PublishFails(c)
    BY <1>9 DEF PublishFails, Go, ItemError, NextItem, database, control, context, bounds
<1>10. CASE \E c \in Calls : Respond(c)
    BY <1>10 DEF Respond, Go, Answer, database, control, context, bounds
<1>11. CASE \E c \in Calls : CrashCall(c)
    BY <1>11 DEF CrashCall, Go, Answer, Fault, database, control, context, bounds
<1>12. CASE DeleteRequest
    BY <1>12 DEF DeleteRequest, database, control, context, bounds
<1>13. CASE UNCHANGED vars
    BY <1>13 DEF vars, database, control, context, bounds
<1> QED
    BY <1>1, <1>2, <1>3, <1>4, <1>5, <1>6, <1>7, <1>8, <1>9, <1>10, <1>11, <1>12, <1>13 DEF Next

(* So their number is bounded.                                             *)
LEMMA StepBound == IntakeTypeOK /\ Places /\ OwnersBound /\ [Next]_vars => OwnersBound'
<1> SUFFICES ASSUME IntakeTypeOK, Places, OwnersBound, [Next]_vars PROVE OwnersBound'
    OBVIOUS
<1>1. OwnersStep
    BY StepOwners
<1>2. IsFiniteSet(Owners) /\ Cardinality(Owners) \in Nat /\ deletes \in Nat
    BY IntakeAssumption, FS_CardinalityType DEF OwnersBound, IntakeTypeOK
<1>3. CASE Owners' \subseteq Owners /\ UNCHANGED <<request, deletes>>
  <2>1. IsFiniteSet(Owners') /\ Cardinality(Owners') =< Cardinality(Owners) /\ Cardinality(Owners') \in Nat
    BY <1>2, <1>3, FS_Subset, FS_CardinalityType
  <2> QED
    BY <1>2, <1>3, <2>1 DEF OwnersBound
<1>4. CASE Owners' \subseteq Owners \cup {request'} /\ request = None /\ request' # None /\ UNCHANGED deletes
  <2>1. /\ IsFiniteSet(Owners \cup {request'}) /\ Cardinality(Owners \cup {request'}) \in Nat
        /\ Cardinality(Owners \cup {request'}) =< Cardinality(Owners) + 1
    BY <1>2, FS_AddElement, FS_CardinalityType
  <2>2. /\ IsFiniteSet(Owners') /\ Cardinality(Owners') \in Nat
        /\ Cardinality(Owners') =< Cardinality(Owners \cup {request'})
    BY <1>4, <2>1, FS_Subset, FS_CardinalityType
  <2> QED
    BY <1>2, <1>4, <2>1, <2>2 DEF OwnersBound
<1>5. CASE Owners' \subseteq Owners /\ request # None /\ request' = None /\ deletes' = deletes + 1
  <2>1. IsFiniteSet(Owners') /\ Cardinality(Owners') =< Cardinality(Owners) /\ Cardinality(Owners') \in Nat
    BY <1>2, <1>5, FS_Subset, FS_CardinalityType
  <2> QED
    BY <1>2, <1>5, <2>1 DEF OwnersBound
<1> QED
    BY <1>1, <1>3, <1>4, <1>5 DEF OwnersStep

(* The tasks of a recipient have different owners.                         *)
LEMMA BoundQueues == IntakeTypeOK /\ OwnersBound => QueuedOnce
<1> SUFFICES ASSUME IntakeTypeOK, OwnersBound, NEW i \in Items
             PROVE Cardinality(Valid(i)) =< 1 + deletes
    BY DEF QueuedOnce
<1>1. IsFiniteSet(Owners) /\ Cardinality(Owners) \in Nat /\ deletes \in Nat
    BY IntakeAssumption, FS_CardinalityType DEF OwnersBound, IntakeTypeOK
<1> DEFINE f == [q \in Valid(i) |-> q.call]
<1>2. \A q \in Valid(i) : q \in DTO /\ q.item = i /\ q.hasId = TRUE /\ q.call \in Owners
    BY DEF Valid, Owners, IntakeTypeOK, DTO
<1>3. \A q, r \in Valid(i) : q.call = r.call => q = r
  <2>1. \A q \in DTO : q = [call |-> q.call, item |-> q.item, hasId |-> q.hasId]
    BY DEF DTO
  <2>2. \A q \in Valid(i) : q = [call |-> q.call, item |-> i, hasId |-> TRUE]
    BY <1>2, <2>1, Zenon
  <2> QED
    BY <2>2, Zenon
<1>4. f \in Injection(Valid(i), Owners)
  <2>1. f \in [Valid(i) -> Owners]
    BY <1>2
  <2>2. \A q, r \in Valid(i) : f[q] = f[r] => q = r
    BY <1>2, <1>3
  <2> QED
    BY <2>1, <2>2 DEF Injection, IsInjective
<1>5. Cardinality(Valid(i)) =< Cardinality(Owners) /\ Cardinality(Valid(i)) \in Nat
    BY <1>1, <1>4, FS_Injection, FS_CardinalityType
<1> QED
    BY <1>1, <1>5 DEF OwnersBound

-----------------------------------------------------------------------------
Sound == faults = 0 /\ deletes = 0

(* Without faults and deletions the call that stored the request is the    *)
(* only one that inserts tasks: the context of every other one still has   *)
(* the request to insert, which fails each insert of a task.               *)
Race == Sound =>
    /\ request = None => queued = {}
    /\ \A c \in Calls :
        /\ pc[c] \in Adding => request # None /\ (0 \notin added[c] <=> c = request)
        /\ c # request => ids[c] = {}
        /\ pc[c] = "publish" /\ c = request => at[c] \in ids[c]
    /\ EmptyIsRaceLoser

(* That call leaves no recipient behind it without a task or an error.     *)
Settled == Sound =>
    \A c \in Calls : c = request =>
        \A i \in Items :
            (pc[c] \in Adding /\ i < at[c]) \/ pc[c] = "end" => Valid(i) # {} \/ i \in errors[c]

(* Each step keeps that.                                                   *)
LEMMA StepRace == IntakeTypeOK /\ Places /\ Race /\ [Next]_vars => Race'
<1> SUFFICES ASSUME IntakeTypeOK, Places, Race, [Next]_vars PROVE Race'
    OBVIOUS
<1> USE CallsAssumption, IntakeAssumption DEF IntakeTypeOK, DTO, Items, Places, Before, Adding, Race, Sound, EmptyIsRaceLoser
<1>1. CASE \E c \in Calls : CheckExists(c)
    BY <1>1 DEF CheckExists, Go, database, control, context, bounds
<1>2. CASE \E c \in Calls : AnswerExisting(c)
    BY <1>2 DEF AnswerExisting, Go, Answer, database, control, context, bounds
<1>3. CASE \E c \in Calls : QueryFails(c)
    BY <1>3 DEF QueryFails, Go, Answer, Fault, database, control, context, bounds
<1>4. CASE \E c \in Calls : AddRequest(c)
    BY <1>4 DEF AddRequest, Go, SaveChanges, Insert, Fault, database, control, context, bounds
<1>5. CASE \E c \in Calls : SelectCredential(c)
    BY <1>5 DEF SelectCredential, Go, database, control, context, bounds
<1>6. CASE \E c \in Calls : NoCredential(c)
    BY <1>6 DEF NoCredential, Go, ItemError, NextItem, database, control, context, bounds
<1>7. CASE \E c \in Calls : AddTask(c)
    BY <1>7 DEF AddTask, Go, SaveChanges, Insert, Fault, database, control, context, bounds
<1>8. CASE \E c \in Calls : PublishTask(c)
  <2>1. PICK c \in Calls : PublishTask(c)
    BY <1>8
  <2> DEFINE d == [call |-> c, item |-> at[c], hasId |-> at[c] \in ids[c]]
  <2>2. UNCHANGED <<request, deletes, added, ids>>
    BY <2>1 DEF PublishTask, database, context
  <2>3. /\ pc[c] = "publish" /\ pc' = [pc EXCEPT ![c] = "select"]
        /\ at' = [at EXCEPT ![c] = at[c] + 1]
    BY <2>1 DEF PublishTask, NextItem, Go
  <2>4. SUFFICES ASSUME Sound' PROVE Race'
    BY DEF Race
  <2>5. Sound /\ queued' = queued \cup {d}
    BY <2>1, <2>4 DEF PublishTask, Fault, Sound
  <2>6. request # None /\ (d.hasId <=> d.call = request)
    BY <2>3, <2>5 DEF Race
  <2>7. EmptyIsRaceLoser'
    BY <2>2, <2>5, <2>6 DEF EmptyIsRaceLoser, Race, Sound
  <2> QED
    BY <2>2, <2>3, <2>5, <2>6, <2>7 DEF Race, Sound
<1>9. CASE \E c \in Calls : PublishFails(c)
    BY <1>9 DEF PublishFails, Go, ItemError, NextItem, database, control, context, bounds
<1>10. CASE \E c \in Calls : Respond(c)
    BY <1>10 DEF Respond, Go, Answer, database, control, context, bounds
<1>11. CASE \E c \in Calls : CrashCall(c)
    BY <1>11 DEF CrashCall, Go, Answer, Fault, database, control, context, bounds
<1>12. CASE DeleteRequest
    BY <1>12 DEF DeleteRequest, database, control, context, bounds
<1>13. CASE UNCHANGED vars
    BY <1>13 DEF vars, database, control, context, bounds
<1> QED
    BY <1>1, <1>2, <1>3, <1>4, <1>5, <1>6, <1>7, <1>8, <1>9, <1>10, <1>11, <1>12, <1>13 DEF Next

(* Each step keeps that.                                                   *)
LEMMA StepSettled == IntakeTypeOK /\ Places /\ Race /\ Settled /\ [Next]_vars => Settled'
<1> SUFFICES ASSUME IntakeTypeOK, Places, Race, Settled, [Next]_vars PROVE Settled'
    OBVIOUS
<1> USE CallsAssumption, IntakeAssumption DEF IntakeTypeOK, DTO, Items, Places, Before, Adding, Settled, Sound, Valid
<1>1. CASE \E c \in Calls : CheckExists(c)
    BY <1>1 DEF CheckExists, Go, database, control, context, bounds
<1>2. CASE \E c \in Calls : AnswerExisting(c)
    BY <1>2 DEF AnswerExisting, Go, Answer, database, control, context, bounds
<1>3. CASE \E c \in Calls : QueryFails(c)
    BY <1>3 DEF QueryFails, Go, Answer, Fault, database, control, context, bounds
<1>4. CASE \E c \in Calls : AddRequest(c)
    BY <1>4 DEF AddRequest, Go, SaveChanges, Insert, Fault, database, control, context, bounds
<1>5. CASE \E c \in Calls : SelectCredential(c)
    BY <1>5 DEF SelectCredential, Go, database, control, context, bounds
<1>6. CASE \E c \in Calls : NoCredential(c)
  <2>1. PICK c \in Calls : NoCredential(c)
    BY <1>6
  <2>2. UNCHANGED <<request, queued, faults, deletes>> /\ pc[c] \in Adding /\ at[c] \in Nat
    BY <2>1 DEF NoCredential, database, bounds
  <2>3. /\ pc' = [pc EXCEPT ![c] = "select"] /\ at' = [at EXCEPT ![c] = at[c] + 1]
        /\ errors' = [errors EXCEPT ![c] = errors[c] \cup {at[c]}]
    BY <2>1 DEF NoCredential, ItemError, NextItem, Go
  <2>4. \A i \in Items : i < at[c] + 1 => i < at[c] \/ i = at[c]
    OBVIOUS
  <2> QED
    BY <2>2, <2>3, <2>4
<1>7. CASE \E c \in Calls : AddTask(c)
  <2>1. PICK c \in Calls : AddTask(c)
    BY <1>7
  <2>2. UNCHANGED <<queued, at, errors, deletes>> /\ pc[c] = "task" /\ pc' = [pc EXCEPT ![c] = "publish"]
    BY <2>1 DEF AddTask, Go
  <2>3. /\ request' = request \/ (request' = c /\ request = None)
        /\ faults' = faults \/ Fault
    <3> HIDE DEF Sound, Valid, IntakeTypeOK, Places, Settled
    <3>1. SaveChanges(c, at[c])
        BY <2>1 DEF AddTask
    <3>2. faults' = faults \/ Fault
        BY <3>1 DEF SaveChanges
    <3> DEFINE E == added[c] \cup {at[c]}
    <3>3. (Insert(c, E) /\ ~(0 \in E /\ request # None)) \/ UNCHANGED database
      <4> HIDE DEF E
      <4> QED
        BY <3>1 DEF SaveChanges, E
    <3>4. request' = request \/ (request' = c /\ request = None)
      <4> HIDE DEF E
      <4> QED
        BY <3>3 DEF Insert, database
    <3> QED
        BY <3>2, <3>4
  <2>4. Sound' => Sound /\ UNCHANGED request
    BY <2>2, <2>3 DEF Race, Fault
  <2> QED
    BY <2>2, <2>4
<1>8. CASE \E c \in Calls : PublishTask(c)
  <2>1. PICK c \in Calls : PublishTask(c)
    BY <1>8
  <2> DEFINE d == [call |-> c, item |-> at[c], hasId |-> at[c] \in ids[c]]
  <2>2. UNCHANGED <<request, deletes, errors>>
    BY <2>1 DEF PublishTask, database
  <2>3. /\ pc[c] = "publish" /\ pc' = [pc EXCEPT ![c] = "select"]
        /\ at' = [at EXCEPT ![c] = at[c] + 1]
    BY <2>1 DEF PublishTask, NextItem, Go
  <2>4. SUFFICES ASSUME Sound' PROVE Settled'
    BY DEF Settled
  <2>5. Sound /\ queued' = queued \cup {d}
    BY <2>1, <2>4 DEF PublishTask, Fault, Sound
  <2>6. request = c => d.hasId /\ d.item = at[c]
    BY <2>3, <2>5 DEF Race
  <2>7. \A i \in Items : Valid(i) \subseteq Valid(i)' /\ (request = c /\ i = at[c] => d \in Valid(i)')
    BY <2>5, <2>6 DEF Valid
  <2>8. \A i \in Items : i < at[c] + 1 => i < at[c] \/ i = at[c]
    OBVIOUS
  <2> HIDE DEF Valid, d
  <2> QED
    BY <2>2, <2>3, <2>5, <2>7, <2>8
<1>9. CASE \E c \in Calls : PublishFails(c)
  <2>1. PICK c \in Calls : PublishFails(c)
    BY <1>9
  <2>2. UNCHANGED <<request, queued, faults, deletes>> /\ pc[c] \in Adding /\ at[c] \in Nat
    BY <2>1 DEF PublishFails, database, bounds
  <2>3. /\ pc' = [pc EXCEPT ![c] = "select"] /\ at' = [at EXCEPT ![c] = at[c] + 1]
        /\ errors' = [errors EXCEPT ![c] = errors[c] \cup {at[c]}]
    BY <2>1 DEF PublishFails, ItemError, NextItem, Go
  <2>4. \A i \in Items : i < at[c] + 1 => i < at[c] \/ i = at[c]
    OBVIOUS
  <2> QED
    BY <2>2, <2>3, <2>4
<1>10. CASE \E c \in Calls : Respond(c)
    BY <1>10 DEF Respond, Go, Answer, database, control, context, bounds
<1>11. CASE \E c \in Calls : CrashCall(c)
    BY <1>11 DEF CrashCall, Go, Answer, Fault, database, control, context, bounds
<1>12. CASE DeleteRequest
    BY <1>12 DEF DeleteRequest, database, control, context, bounds
<1>13. CASE UNCHANGED vars
    BY <1>13 DEF vars, database, control, context, bounds
<1> QED
    BY <1>1, <1>2, <1>3, <1>4, <1>5, <1>6, <1>7, <1>8, <1>9, <1>10, <1>11, <1>12, <1>13 DEF Next

-----------------------------------------------------------------------------
IntakeInv == IntakeTypeOK /\ Places /\ OwnersBound /\ Race /\ Settled

(* IntakeInvariant: the inductive invariant of the intake holds always.    *)
THEOREM IntakeInvariant == Spec => []IntakeInv
<1>1. Init => IntakeInv
  <2> SUFFICES ASSUME Init PROVE IntakeInv
    OBVIOUS
  <2>1. IntakeTypeOK /\ Places
    BY CallsAssumption, IntakeAssumption DEF Init, IntakeTypeOK, DTO, Items, Places, Adding, Before
  <2>2. Owners = {}
    BY CallsAssumption DEF Init, Owners, Adding
  <2>3. OwnersBound
    BY <2>2, FS_EmptySet DEF OwnersBound, Init
  <2>4. Race /\ Settled
    BY CallsAssumption DEF Init, Race, Settled, EmptyIsRaceLoser, Adding
  <2> QED
    BY <2>1, <2>3, <2>4 DEF IntakeInv
<1>2. IntakeInv /\ [Next]_vars => IntakeInv'
    BY StepTypes, StepPlaces, StepBound, StepRace, StepSettled DEF IntakeInv
<1> QED
    BY <1>1, <1>2, PTL DEF Spec

(* IntakeTypes: the tables, the contexts and the published DTOs of the     *)
(* intake have their types, for any number of calls and recipients.        *)
THEOREM IntakeTypes == Spec => []IntakeTypeOK
<1>1. IntakeInv => IntakeTypeOK
    BY DEF IntakeInv
<1> QED
    BY <1>1, IntakeInvariant, PTL

(* AlwaysQueuedOnce: however many calls repeat a request and whatever      *)
(* fails, a recipient gets one task, and one more for each deletion of the *)
(* request by the operator (OrchestratorService.ProcessRequestAsync).      *)
THEOREM AlwaysQueuedOnce == Spec => []QueuedOnce
<1>1. IntakeInv => QueuedOnce
    BY BoundQueues DEF IntakeInv
<1> QED
    BY <1>1, IntakeInvariant, PTL

(* AlwaysRaceLoser: without faults, the DTO a call publishes has a task    *)
(* exactly if it is the call that stored the request                       *)
(* (MessageTaskService.cs, the id of the entity after SaveChangesAsync).   *)
THEOREM AlwaysRaceLoser == Spec => []EmptyIsRaceLoser
<1>1. IntakeInv => EmptyIsRaceLoser
    BY DEF IntakeInv, Race, Sound, EmptyIsRaceLoser
<1> QED
    BY <1>1, IntakeInvariant, PTL

(* AlwaysAccounted: without faults, every recipient of a stored request    *)
(* ends with a task in the queue or an error in an answer: the call that   *)
(* stored it went through all of them (OrchestratorService).               *)
THEOREM AlwaysAccounted == Spec => []Accounted
<1>1. IntakeInv => Accounted
  <2> SUFFICES ASSUME IntakeInv, Sound, request # None, \A c \in Calls : pc[c] \in {"idle", "end"},
                      NEW i \in Items
               PROVE  Valid(i) # {} \/ \E c \in Calls : i \in errors[c]
    BY DEF Accounted, Sound
  <2>1. request \in Calls /\ pc[request] = "end"
    BY DEF IntakeInv, IntakeTypeOK, Places, Before
  <2> QED
    BY <2>1 DEF IntakeInv, Settled
<1> QED
    BY <1>1, IntakeInvariant, PTL
=============================================================================

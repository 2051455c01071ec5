-------------------------- MODULE WorkersHostProofs --------------------------
(***************************************************************************)
(* The safety properties of WorkersHost, for any list of workers.          *)
(***************************************************************************)
EXTENDS WorkersHost, TLAPS

(* The services are started while the host runs; a worker that the stop    *)
(* has passed has ended, unless the timeout passed first; callbacks belong *)
(* to a consumer; and the factory closes the connection as the last.       *)
OffUnlessUp == host \notin {"running", "stopping"} => \A c \in Channels : worker[c] = "off"
WaitedFor ==
    ~timedOut => \A c \in Channels :
        worker[c] \in {"scheduled", "consuming", "draining"} => c \in hosted
CallbackOfConsumer ==
    \A c \in Channels : callback[c] # "nothing" => worker[c] \in {"consuming", "draining"}
ClosedLast == connection = "closing" => host = "stopping" /\ hosted = {"factory"}

HostInv == HostTypeOK /\ OffUnlessUp /\ WaitedFor /\ CallbackOfConsumer /\ ClosedLast

(* The factory is registered before every worker. *)
LEMMA FactoryFirst == \A c \in Channels : Registration(c) > Registration("factory")
<1>1. SUFFICES ASSUME NEW c \in Channels
               PROVE  Registration(c) > 0 /\ Registration("factory") = 0
    BY <1>1
<1>2. Workers \in Seq(STRING) /\ c # "factory"
    BY HostAssumption
<1>3. PICK i \in DOMAIN Workers : Workers[i] = c
    BY DEF Channels
<1>4. (CHOOSE j \in DOMAIN Workers : Workers[j] = c) \in DOMAIN Workers
    BY <1>3
<1>5. DOMAIN Workers = 1..Len(Workers) /\ Len(Workers) \in Nat
    BY <1>2
<1>6. (CHOOSE j \in DOMAIN Workers : Workers[j] = c) \in 1..Len(Workers)
    BY <1>4, <1>5
<1> QED
    BY <1>2, <1>5, <1>6 DEF Registration

(* When the stop has come to the factory no worker is left. *)
LEMMA FactoryStopsAlone == HostTypeOK /\ Stopping("factory") => hosted = {"factory"}
<1> SUFFICES ASSUME HostTypeOK, Stopping("factory") PROVE hosted = {"factory"}
    OBVIOUS
<1>1. ASSUME NEW t \in hosted, t # "factory" PROVE FALSE
  <2>1. t \in Channels
    BY <1>1 DEF HostTypeOK
  <2>2. Registration(t) =< Registration("factory")
    BY <1>1 DEF Stopping
  <2>3. Registration("factory") = 0 /\ Registration(t) > Registration("factory")
    BY <2>1, FactoryFirst DEF Registration
  <2>4. Registration(t) \in Nat
    <3>1. PICK i \in DOMAIN Workers : Workers[i] = t
        BY <2>1 DEF Channels
    <3>2. (CHOOSE j \in DOMAIN Workers : Workers[j] = t) \in DOMAIN Workers
        BY <3>1
    <3>3. DOMAIN Workers = 1..Len(Workers) /\ Len(Workers) \in Nat
        BY HostAssumption
    <3> QED
        BY <1>1, <3>2, <3>3 DEF Registration
  <2> QED
    BY <2>2, <2>3, <2>4
<1> QED
    BY <1>1 DEF Stopping

LEMMA InitHost == Init => HostInv
BY DEF Init, HostInv, HostTypeOK, OffUnlessUp, WaitedFor, CallbackOfConsumer, ClosedLast, States

LEMMA StepHost == HostInv /\ [Next]_vars => HostInv'
<1> SUFFICES ASSUME HostInv, [Next]_vars PROVE HostInv'
    OBVIOUS
<1> USE DEF HostInv, HostTypeOK, OffUnlessUp, WaitedFor, CallbackOfConsumer, ClosedLast, States
<1>1. CASE Launch
    BY <1>1 DEF Launch, Fresh, Registered
<1>2. CASE Restart
    BY <1>2 DEF Restart, Fresh
<1>3. CASE Connect
    BY <1>3 DEF Connect, stopping, work, ending
<1>4. CASE DeclareTopology
    BY <1>4 DEF DeclareTopology, HostedServices, ending
<1>5. CASE StartAborts
    BY <1>5 DEF StartAborts, End
<1>6. CASE Crash
    BY <1>6 DEF Crash, End
<1>7. CASE StopHost
    BY <1>7 DEF StopHost, stopping, factory, work, ending
<1>8. CASE BeginClose
  <2>1. hosted = {"factory"}
    BY <1>8, FactoryStopsAlone DEF BeginClose
  <2> QED
    BY <1>8, <2>1 DEF BeginClose, Stopping, stopping, work, ending
<1>9. CASE EndClose
    BY <1>9 DEF EndClose, End
<1>10. CASE ShutdownTimeout
    BY <1>10 DEF ShutdownTimeout, factory, work, ending
<1>11. CASE RedisChanges
    BY <1>11 DEF RedisChanges, stopping, factory, work, ending
<1>12. CASE \E c \in Channels : CancelWorker(c)
  <2>1. PICK c \in Channels : CancelWorker(c)
    BY <1>12
  <2>2. c \in enabled
    BY <2>1, HostAssumption DEF CancelWorker, Stopping
  <2> QED
    BY <2>1, <2>2 DEF CancelWorker, factory, ending
<1>13. CASE \E c \in Channels : WorkerStopped(c)
  <2>1. PICK c \in Channels : WorkerStopped(c)
    BY <1>13
  <2>2. connection # "closing"
    BY <2>1, HostAssumption DEF WorkerStopped, Stopping
  <2> QED
    BY <2>1, <2>2 DEF WorkerStopped, factory, work, ending
<1>14. CASE \E c \in Channels : GetConnection(c)
  <2>1. PICK c \in Channels : GetConnection(c)
    BY <1>14
  <2>2. Answer \in {"connection", "null", "disposed"}
    BY DEF Answer
  <2>3. PICK s \in {"consuming", "failed"} : worker' = [worker EXCEPT ![c] = s]
    BY <2>1 DEF GetConnection, Fails, Set
  <2>4. /\ host \in {"running", "stopping"} /\ host' \in {host, "stopping"}
        /\ worker[c] = "scheduled" /\ told' = [told EXCEPT ![c] = Answer] /\ failed' \in {failed, TRUE}
    BY <2>1 DEF GetConnection, Fails
  <2>5. UNCHANGED <<enabled, hosted, cancelled, timedOut, connection, started, callback, redis, exitCode>>
    BY <2>1 DEF GetConnection, stopping, factory
  <2>6. HostTypeOK'
    BY <2>2, <2>3, <2>4, <2>5
  <2> QED
    BY <2>3, <2>4, <2>5, <2>6
<1>15. CASE \E c \in Channels : TakeTask(c)
    BY <1>15 DEF TakeTask, Wait, stopping, factory, ending
<1>16. CASE \E c \in Channels : PassRateLimit(c)
    BY <1>16 DEF PassRateLimit, Wait, stopping, factory, ending
<1>17. CASE \E c \in Channels : FinishTask(c)
    BY <1>17 DEF FinishTask, Wait, stopping, factory, ending
<1>18. CASE \E c \in Channels : CancelledEarly(c)
    BY <1>18 DEF CancelledEarly, Set, stopping, factory, ending
<1>19. CASE \E c \in Channels : Drained(c)
    BY <1>19 DEF Drained, Set, stopping, factory, ending
<1>20. CASE UNCHANGED vars
    BY <1>20 DEF vars, stopping, factory, work, ending
<1> QED
    BY <1>1, <1>2, <1>3, <1>4, <1>5, <1>6, <1>7, <1>8, <1>9, <1>10, <1>11, <1>12, <1>13, <1>14,
       <1>15, <1>16, <1>17, <1>18, <1>19, <1>20
    DEF Next, Start, Stop

(* The invariant of the host. *)
THEOREM HostInvariant == Spec => []HostInv
<1> QED
    BY InitHost, StepHost, PTL DEF Spec

(* The types of the host's state, for any list of workers. *)
THEOREM HostTypes == Spec => []HostTypeOK
<1>1. HostInv => HostTypeOK
    BY DEF HostInv
<1> QED
    BY <1>1, HostInvariant, PTL

(* For any number of workers, the connection is closed under a callback    *)
(* only after the shutdown timeout.                                        *)
THEOREM ClosesAfterCallbacks == Spec => []ConnectionOutlivesCallbacks
<1>1. HostInv => ConnectionOutlivesCallbacks
  <2> SUFFICES ASSUME HostInv, connection = "closing", ~timedOut, NEW c \in Channels
               PROVE  callback[c] = "nothing"
    BY DEF ConnectionOutlivesCallbacks
  <2>1. c \notin hosted
    BY HostAssumption DEF HostInv, ClosedLast
  <2> QED
    BY <2>1 DEF HostInv, WaitedFor, CallbackOfConsumer
<1> QED
    BY <1>1, HostInvariant, PTL

(* Nobody is told anything before the factory is started, and nobody is    *)
(* told that it is disposed while it is.                                   *)
ToldRight ==
    /\ started => \A c \in Channels : told[c] # "disposed"
    /\ host = "starting" => ~started /\ \A c \in Channels : told[c] = "nothing"

(* With the test of _started that its message asks for, GetConnection      *)
(* tells nobody that the started factory is disposed: the inversion is the *)
(* only cause of what the run connection shows.                            *)
THEOREM AvailableWhenTestedRight ==
    ASSUME ~Inverted
    PROVE  Spec => []AvailableOnceStarted
<1>1. Init => ToldRight
    BY DEF Init, ToldRight
<1>2. HostTypeOK /\ ToldRight /\ [Next]_vars => ToldRight'
  <2> SUFFICES ASSUME HostTypeOK, ToldRight, [Next]_vars PROVE ToldRight'
    OBVIOUS
  <2> USE DEF ToldRight
  <2>1. CASE \E c \in Channels : GetConnection(c)
    <3>1. PICK c \in Channels : GetConnection(c)
        BY <2>1
    <3>2. started => Answer # "disposed"
        BY HostAssumption DEF Answer, HostTypeOK
    <3>3. told' = [told EXCEPT ![c] = Answer] /\ started' = started /\ host' # "starting"
        BY <3>1 DEF GetConnection, Fails, factory
    <3> QED
        BY <3>2, <3>3 DEF HostTypeOK
  <2>2. CASE DeclareTopology
    BY <2>2 DEF DeclareTopology
  <2>3. CASE Launch \/ Restart
    BY <2>3 DEF Launch, Restart, Fresh
  <2>4. CASE Connect
    BY <2>4 DEF Connect, work
  <2>5. CASE StartAborts \/ Crash \/ EndClose
    BY <2>5 DEF StartAborts, Crash, EndClose, End
  <2>6. CASE StopHost \/ BeginClose \/ ShutdownTimeout \/ RedisChanges
    BY <2>6 DEF StopHost, BeginClose, ShutdownTimeout, RedisChanges, Stopping, factory, work
  <2>7. CASE \E c \in Channels : \/ CancelWorker(c) \/ WorkerStopped(c) \/ TakeTask(c)
                                 \/ PassRateLimit(c) \/ FinishTask(c)
                                 \/ CancelledEarly(c) \/ Drained(c)
    BY <2>7 DEF CancelWorker, WorkerStopped, TakeTask, PassRateLimit, FinishTask, CancelledEarly,
                Drained, factory, work
  <2>8. CASE UNCHANGED vars
    BY <2>8 DEF vars, factory, work
  <2> QED
    BY <2>1, <2>2, <2>3, <2>4, <2>5, <2>6, <2>7, <2>8 DEF Next, Start, Stop
<1>3. ToldRight => AvailableOnceStarted
    BY DEF ToldRight, AvailableOnceStarted
<1> QED
    BY <1>1, <1>2, <1>3, HostTypes, PTL DEF Spec
=============================================================================

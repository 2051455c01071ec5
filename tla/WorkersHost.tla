----------------------------- MODULE WorkersHost -----------------------------
(***************************************************************************)
(* A workers process, from Workers/Program.cs: which workers it starts, the *)
(* RabbitMQ connection they share (Queue/Services/RabbitMqConnectionFactory *)
(* .cs), one callback of each worker waiting for the rate limits, and the   *)
(* stop of the host.  The generic host starts its services in the order of  *)
(* registration and stops them one after another in the opposite order; all *)
(* of them together have the host's shutdown timeout.  Docker starts the    *)
(* process again by the policy of docker-compose.app.yml.                   *)
(***************************************************************************)
EXTENDS Naturals, Sequences

CONSTANTS
    Workers,    \* the workers in the order of Program.cs, named for their channels
    Inverted    \* TRUE: GetConnection as it is written; FALSE: with the test of
                \* _started that its message asks for

Channels == {Workers[i] : i \in DOMAIN Workers}

ASSUME HostAssumption ==
    Inverted \in BOOLEAN /\ Workers \in Seq(STRING) /\ "factory" \notin Channels

VARIABLES
    host,        \* "down", "starting", "running", "stopping" or "ended"
    enabled,     \* the channels whose workers are registered
    hosted,      \* the services started and not yet stopped
    connection,  \* _connection: "null", "open" or "closing"
    started,     \* _started
    worker,      \* ExecuteAsync of each worker
    told,        \* what GetConnection told each worker
    callback,    \* what a worker's callback waits for: "nothing" (there is none), the
                 \* bucket of the "channel" or of the "credential", the "send"
    cancelled,   \* the workers whose stopping token is cancelled
    timedOut,    \* the shutdown timeout has passed
    redis,       \* Redis answers
    failed,      \* an error ended the process or makes it stop
    exitCode     \* of the last process: "none", "zero" or "nonzero"

stopping == <<hosted, cancelled, timedOut>>
factory == <<connection, started>>
work == <<worker, told, callback>>
ending == <<failed, exitCode>>
vars == <<host, enabled, stopping, factory, work, redis, ending>>

States == {"off", "scheduled", "consuming", "draining", "stopped", "failed"}

HostTypeOK ==
    /\ host \in {"down", "starting", "running", "stopping", "ended"}
    /\ enabled \subseteq Channels /\ cancelled \subseteq enabled
    /\ hosted \subseteq enabled \cup {"factory"}
    /\ connection \in {"null", "open", "closing"} /\ started \in BOOLEAN
    /\ worker \in [Channels -> States]
    /\ told \in [Channels -> {"nothing", "connection", "null", "disposed"}]
    /\ callback \in [Channels -> {"nothing", "channel", "credential", "send"}]
    /\ timedOut \in BOOLEAN /\ redis \in BOOLEAN /\ failed \in BOOLEAN
    /\ exitCode \in {"none", "zero", "nonzero"}

-----------------------------------------------------------------------------
(* Launch. *)

(* The values of Workers:Channels or CHANNEL: any set of channels, beside a *)
(* word that names none and a number that is none (Enum.TryParse takes it). *)
Settings == SUBSET (Channels \cup {"word", "number"})
ResolveEnabledChannels(setting) == setting \ {"word"}

(* Mutant of Registered: one worker for each parsed value. *)
RegisteredAsParsed(channels) == IF channels = {} THEN Channels ELSE channels

(* The empty set stands for all workers. *)
Registered(channels) == IF channels = {} THEN Channels ELSE channels \cap Channels

HostedServices(channels) == {"factory"} \cup channels

(* Mutant of Registration: the connection is registered after the workers. *)
FactoryLast(s) == IF s = "factory" THEN Len(Workers) + 1 ELSE CHOOSE i \in DOMAIN Workers : Workers[i] = s

(* The order of registration: AddRabbitMqServices comes first. *)
Registration(s) == IF s = "factory" THEN 0 ELSE CHOOSE i \in DOMAIN Workers : Workers[i] = s

Fresh ==
    /\ host' = "starting" /\ hosted' = {} /\ cancelled' = {} /\ timedOut' = FALSE
    /\ connection' = "null" /\ started' = FALSE
    /\ worker' = [c \in Channels |-> "off"] /\ told' = [c \in Channels |-> "nothing"]
    /\ callback' = [c \in Channels |-> "nothing"]
    /\ failed' = FALSE

Init ==
    /\ host = "down" /\ enabled = {} /\ hosted = {} /\ cancelled = {} /\ timedOut = FALSE
    /\ connection = "null" /\ started = FALSE
    /\ worker = [c \in Channels |-> "off"] /\ told = [c \in Channels |-> "nothing"]
    /\ callback = [c \in Channels |-> "nothing"]
    /\ redis = TRUE /\ failed = FALSE /\ exitCode = "none"

(* The operator starts the container with a configuration. *)
Launch ==
    /\ host \in {"down", "ended"} /\ Fresh
    /\ \E setting \in Settings : enabled' = Registered(ResolveEnabledChannels(setting))
    /\ exitCode' = "none"
    /\ UNCHANGED redis

(* restart: on-failure, with the same configuration. *)
Restart ==
    /\ host = "ended" /\ exitCode = "nonzero" /\ Fresh
    /\ exitCode' = "none"
    /\ UNCHANGED <<enabled, redis>>

(* StartAsync of the factory: the connection is assigned before the        *)
(* exchanges and queues are declared.                                      *)
Connect ==
    /\ host = "starting" /\ connection = "null"
    /\ connection' = "open"
    /\ UNCHANGED <<host, enabled, stopping, started, work, redis, ending>>

(* The topology is declared, and the host goes on to start the workers.    *)
DeclareTopology ==
    /\ host = "starting" /\ connection = "open"
    /\ started' = TRUE /\ host' = "running"
    /\ hosted' = HostedServices(enabled)
    /\ worker' = [c \in Channels |-> IF c \in enabled THEN "scheduled" ELSE "off"]
    /\ UNCHANGED <<enabled, cancelled, timedOut, connection, told, callback, redis, ending>>

(* The end of the process: its threads are gone.  Program catches whatever *)
(* host.Run throws, and the exit code is 0.                                *)
End(code) ==
    /\ host' = "ended" /\ exitCode' = code
    /\ hosted' = {} /\ connection' = "null" /\ started' = FALSE
    /\ worker' = [c \in Channels |-> "off"]
    /\ callback' = [c \in Channels |-> "nothing"]

StartAborts ==
    /\ host = "starting" /\ End("zero")
    /\ failed' = TRUE
    /\ UNCHANGED <<enabled, cancelled, timedOut, told, redis>>

Crash ==
    /\ host \in {"starting", "running", "stopping"} /\ End("nonzero")
    /\ failed' = TRUE
    /\ UNCHANGED <<enabled, cancelled, timedOut, told, redis>>

-----------------------------------------------------------------------------
(* The workers. *)

Set(c, state) == worker' = [worker EXCEPT ![c] = state]
Wait(c, for) == callback' = [callback EXCEPT ![c] = for]
Answer ==
    IF started = Inverted THEN "disposed" ELSE IF connection = "null" THEN "null" ELSE "connection"

(* An exception of ExecuteAsync stops the host.                            *)
Fails(c) ==
    /\ Set(c, "failed") /\ failed' = TRUE
    /\ host' = "stopping"

(* GetConnection at the beginning of ExecuteAsync, and the consumer.       *)
GetConnection(c) ==
    /\ host \in {"running", "stopping"} /\ worker[c] = "scheduled"
    /\ told' = [told EXCEPT ![c] = Answer]
    /\ \/ Answer = "connection" /\ Set(c, "consuming") /\ UNCHANGED <<host, failed>>
       \/ Fails(c)
    /\ UNCHANGED <<enabled, stopping, factory, callback, redis, exitCode>>

TakeTask(c) ==
    /\ worker[c] = "consuming" /\ callback[c] = "nothing" /\ connection = "open"
    /\ Wait(c, "channel")
    /\ UNCHANGED <<host, enabled, stopping, factory, worker, told, redis, ending>>

(* WaitAsync returns once Redis has granted a token; it takes no           *)
(* cancellation token, and without Redis it only delays and asks again.    *)
PassRateLimit(c) ==
    /\ redis
    /\ \/ callback[c] = "channel" /\ Wait(c, "credential")
       \/ callback[c] = "credential" /\ Wait(c, "send")
    /\ UNCHANGED <<host, enabled, stopping, factory, worker, told, redis, ending>>

FinishTask(c) ==
    /\ callback[c] = "send" /\ Wait(c, "nothing")
    /\ UNCHANGED <<host, enabled, stopping, factory, worker, told, redis, ending>>

RedisChanges ==
    /\ redis' = ~redis
    /\ UNCHANGED <<host, enabled, stopping, factory, work, ending>>

-----------------------------------------------------------------------------
(* The stop of the host. *)

StopHost ==
    /\ host = "running" /\ host' = "stopping"
    /\ UNCHANGED <<enabled, stopping, factory, work, redis, ending>>

(* The service whose StopAsync the host awaits: the last that is left.     *)
Stopping(s) ==
    /\ host = "stopping" /\ s \in hosted
    /\ \A t \in hosted : Registration(t) =< Registration(s)

(* BackgroundService.StopAsync cancels the token; the registration of      *)
(* ExecuteAsync asks for the shutdown at once if there is one already.     *)
CancelWorker(c) ==
    /\ Stopping(c) /\ c \notin cancelled
    /\ cancelled' = cancelled \cup {c}
    /\ worker' = IF worker[c] = "consuming" THEN [worker EXCEPT ![c] = "draining"] ELSE worker
    /\ UNCHANGED <<host, enabled, hosted, timedOut, factory, told, callback, redis, ending>>

(* The token was cancelled before ExecuteAsync began, or before it had     *)
(* registered for it.                                                      *)
CancelledEarly(c) ==
    /\ c \in cancelled
    /\ \/ worker[c] = "scheduled" /\ Set(c, "stopped")
       \/ worker[c] = "consuming" /\ Set(c, "draining")
    /\ UNCHANGED <<host, enabled, stopping, factory, told, callback, redis, ending>>

(* The drain is complete and ExecuteAsync returns. *)
Drained(c) ==
    /\ worker[c] = "draining" /\ callback[c] = "nothing" /\ Set(c, "stopped")
    /\ UNCHANGED <<host, enabled, stopping, factory, told, callback, redis, ending>>

(* Mutant of WorkerStopped: the stop awaits the drain whatever it takes.   *)
StopAwaitsDrain(c) ==
    /\ Stopping(c) /\ c \in cancelled /\ worker[c] \in {"stopped", "failed"}
    /\ hosted' = hosted \ {c}
    /\ UNCHANGED <<host, enabled, cancelled, timedOut, factory, work, redis, ending>>

(* StopAsync returns when ExecuteAsync has, or on the shutdown timeout.    *)
WorkerStopped(c) ==
    /\ Stopping(c) /\ c \in cancelled
    /\ worker[c] \in {"stopped", "failed"} \/ timedOut
    /\ hosted' = hosted \ {c}
    /\ UNCHANGED <<host, enabled, cancelled, timedOut, factory, work, redis, ending>>

ShutdownTimeout ==
    /\ host = "stopping" /\ ~timedOut /\ timedOut' = TRUE
    /\ UNCHANGED <<host, enabled, hosted, cancelled, factory, work, redis, ending>>

(* StopAsync of the factory: the flag first, then the connection is closed. *)
BeginClose ==
    /\ Stopping("factory") /\ started
    /\ started' = FALSE /\ connection' = "closing"
    /\ UNCHANGED <<host, enabled, stopping, work, redis, ending>>

EndClose ==
    /\ host = "stopping" /\ connection = "closing" /\ End("zero")
    /\ UNCHANGED <<enabled, cancelled, timedOut, told, redis, failed>>

-----------------------------------------------------------------------------
Start == Connect \/ DeclareTopology \/ StartAborts
Stop ==
    \/ BeginClose \/ EndClose \/ ShutdownTimeout
    \/ \E c \in Channels : CancelWorker(c) \/ WorkerStopped(c)

Next ==
    \/ Launch \/ Restart \/ Start \/ Crash \/ StopHost \/ Stop \/ RedisChanges
    \/ \E c \in Channels :
           \/ GetConnection(c) \/ TakeTask(c) \/ PassRateLimit(c) \/ FinishTask(c)
           \/ CancelledEarly(c) \/ Drained(c)

Spec == Init /\ [][Next]_vars

(* The host goes on with its start and its stop, its timer fires, and      *)
(* Docker restarts what its policy tells it to.  Nothing is assumed of the *)
(* workers, of Redis or of the operator.                                   *)
FairSpec == Spec /\ WF_vars(Start) /\ WF_vars(Stop) /\ WF_vars(Restart)

-----------------------------------------------------------------------------
(* Properties. *)

(* ConnectionOutlivesCallbacks: the connection is closed under a callback   *)
(* only after the shutdown timeout: the stop of each worker has awaited its *)
(* drain before the factory's stop begins, whichever worker failed, was     *)
(* still at its start or consumed on while the others were stopping.        *)
ConnectionOutlivesCallbacks ==
    connection = "closing" /\ ~timedOut => \A c \in Channels : callback[c] = "nothing"

(* StopEnds: a host that stops, because it is told to or because one of its *)
(* workers failed, ends, although Redis may stay away and the callbacks     *)
(* wait for the rate limits forever.                                        *)
StopEnds == host = "stopping" ~> host = "ended"

(* AvailableOnceStarted: GetConnection's own message asks only that the    *)
(* application has started (RabbitMqConnectionFactory.cs:130): while the   *)
(* factory is started nobody is told that it is disposed.                  *)
AvailableOnceStarted == started => \A c \in Channels : told[c] # "disposed"

(* FailureRestarts: a workers process that an error has ended is started   *)
(* again: docker-compose.app.yml:24 asks for restart: on-failure.          *)
FailureRestarts == host = "ended" /\ failed ~> host = "starting"
=============================================================================

# NotifyService in TLA+

NotifyService takes notification requests over HTTP, stores them in PostgreSQL,
queues one task per recipient in RabbitMQ and sends the tasks through WhatsApp,
MAX, Telegram and e-mail workers that share a rate limit in Redis. An admin
panel edits the same tables. This directory holds TLA+ models of the parts where
steps of several processes meet, the TLC configurations that check them, and
TLAPS proofs of the central properties. Source paths below are relative to
`src/src/`.

## 1. Inventory

| Component | State it keeps | Operations | What is hard | What makes it correct |
|---|---|---|---|---|
| `Queue/.../SingleConsumerWorker.cs` | channel, consumer tag, `_inFlightMessages`, `_shutdownRequested`, `_drainCompletion` | start, callback of a delivery, retry copy, reject, requeue, graceful shutdown | callbacks of a lost channel beside those of the recovered one; a two-step completion outside the lock; answers that throw; crashes | no task is lost; the dead letter queue is justified; the drain is exact and ends |
| `Queue/Services/RabbitMqConnectionFactory.cs` | `_connection`, `_started` | `StartAsync`, `GetConnection`, `StopAsync` | use relative to start and stop of the host | a started factory gives its connection |
| `Queue/QueuePublisher.cs` | none | `PublishAsync` (throws, or swallows errors; no publisher confirms) | a failure after the row was written; a publication lost without an error | a sent message is not reported as failed |
| `Workers/Workers/*Worker.cs` | the run of `ProcessMessageAsync`, its tracked entities | check the row, load the credential, wait, send, write `Sent`, publish the status | redelivery; acceptance and record are two steps; entities stale after the waits | duplicates only by faults; a skip never loses a message |
| `RateLimiter` | one Redis hash per key | Lua script, `WaitAsync` | clocks of several machines, late scripts, expiry, truncated wait times | a bound on any window; tokens flow |
| `Orchestrator/Services/OrchestratorService.cs` | `MessageRequests`, `MessageTasks`, the DbContext of the call | `ProcessSendRequestAsync` | calls with one request id at once; swallowed insert errors; crash between row and publication | one sendable task per recipient; no silent omission |
| `Orchestrator/Workers/MessageStatusWorker.cs` | task rows | apply a status | late updates against the operator's edits | never undoes `Sent` |
| API: tokens and credentials | `ApiTokens`, `Credentials` | validate, create, read, deactivate | check on one read, write of a whole row later; revocation while calls run | projects stay apart; revocation and deactivation last |
| `AdminPanel` | the rows held by open pages | issue, revoke, edit, delete | a page writes back what it loaded long ago | nothing comes back from the dead |
| `AdminPanel/.../ReconnectModal.razor.js` | the open dialog, its class, the listener of `visibilitychange`, handlers in flight | show, hide, failed, rejected; `retry`, `resume` | handlers that await run beside events, clicks and each other; late answers | a page without its circuit always has a way back; the dialog tells the truth; no needless reload |
| Host of the workers (`Workers/Program.cs`) | which services run, the shared connection | choose channels, start, fail, stop, exit | one worker stops all; stops in turn under one timeout; a wait without cancellation | the connection outlives the callbacks; every stop ends |
| Host of the API (`API/Program.cs`) | none | middleware, registration | | only its crash is modelled |

Interaction: API -> PostgreSQL (request, tasks) -> RabbitMQ (`messages.<channel>`)
-> channel worker -> Redis (two waits) -> provider -> PostgreSQL (`Sent`) ->
RabbitMQ (`message-status-updates`) -> MessageStatusWorker -> PostgreSQL. The
admin panel and the API write `Credentials`, the admin panel also the tasks and
requests, at any time.

`PROJECT.json` lists every component with its status, the hazards with their
lines and the properties aimed at them, the source lines of every definition,
and for each property a mutation of the code that it detects.

## 2. Modules

| Module | Models | EXTENDS / INSTANCE |
|---|---|---|
| `ConsumerWorker` | a work queue and the worker processes on it | |
| `TaskQueue` | abstract: what such a queue promises | |
| `ConsumerWorkerInv` | the inductive invariants | ConsumerWorker |
| `ConsumerWorkerRefinement` | the refinement mapping to TaskQueue | ConsumerWorkerInv, TaskQueue |
| `ConsumerWorkerProofs` | the proofs of its invariants and that it implements TaskQueue | ConsumerWorkerRefinement |
| `ConsumerWorkerOnceProofs` | the proofs of what holds while nothing fails, and of what a fault can repeat | ConsumerWorkerProofs |
| `TaskDelivery` | `ProcessMessageAsync`, the row, the provider, the status worker, the operator, composed with the queue | ConsumerWorker |
| `Notification` | abstract: what the system promises about one notification | |
| `TaskDeliveryRefinement` | the refinement mapping to one Notification per task | TaskDelivery, Notification |
| `TaskDeliveryProofs` | the proofs of its invariants and that it implements Notification | TaskDeliveryRefinement, ConsumerWorkerOnceProofs |
| `RequestIntake` | concurrent calls that send one request | |
| `TokenBucket`, `TokenBucketProofs` | one bucket of the rate limiter, and its proofs | |
| `RequestIntakeProofs` | its proofs | RequestIntake |
| `ProjectAccess`, `ProjectAccessProofs` | API tokens and credentials, and its proofs | |
| `WorkersHost`, `WorkersHostProofs` | a workers process: channels, the RabbitMQ connection, start, stop, failure; and its proofs | |
| `ReconnectModal`, `ReconnectModalProofs` | the script of the panel's reconnect dialog, and its proofs | |
| `MC*` | symmetry sets and constants for TLC | the module of that name |

### ConsumerWorker

State of the broker: `ready`, `delayed` (the x-delayed-message exchange), `dlq`,
`unacked`. A broker message is a *copy* `[task, attempt, n]`: a scheduled retry is
a new copy with the next `x-retry-count`, and a requeued delivery keeps its copy.
State of a client: `channel`, its incarnation `inc` (a start or an automatic
recovery opens the next), `buffer` (received, not dispatched) and `handlers`, the
callbacks with the place where they are. State of the worker: `phase`,
`inFlight`, `drained`. One action for each stretch between two awaits: `BeginProcessing`
(`TryBeginMessageProcessing`), `RefuseDelivery`, `ProcessSucceeds`/`ProcessFails`,
`AckSuccess`/`AckSuccessThrows`, `ScheduleRetry`, `AckScheduled`, `RejectMessage`,
`FailureHandlingThrows`, `RequeueFailed`, `CompleteMessageProcessing` (under the
lock) and `SignalDrained` (`TrySetResult`, outside it), `RequestShutdown`,
`CancelConsumer`, `StopConsuming`.

A lost connection has two sides. The broker requeues what was unacknowledged at
`Break`; the client learns it at `Notice` and continues at `Recover`. Between
`Break` and `Notice` an answer is silently lost, between `Notice` and `Recover` it throws,
and callbacks of the old incarnation keep running beside the new ones; their
delivery tags are stale and RabbitMQ.Client drops their answers. A publication on
a dying channel may or may not have reached the broker. This is where duplicate copies come
from, and why the counter and the drain need a proof.

`RetryManaged = FALSE` is the status queue: no retry, and a reject drops the
message because that queue has no dead letter exchange.

### TaskDelivery

A handler that is `processing` has a record in `work`: its step and the
`IsActive` it has read. The outcome of `ProcessMessageAsync` is the
`ProcessSucceeds` or `ProcessFails` of ConsumerWorker, taken together with the last step
of the run. `accepted` counts what the provider took. The DbContext of the scope
tracks the credential: the second query, after the waits (`CheckCredential`), sees a deleted row but
returns the entity with the values first read. The post (`SendAccepted`, `SendRefused`, `ReplyLost`)
is a step of its own after another await and looks at the credential no more. A credential whose
adapter is not the worker's (`otherAdapter`) fails the task at the first query. `SubmitForm` writes the status an
edit page loaded, or another the operator selects, at any later time; `forced` are the
tasks marked `Sent` by hand, which no worker sends. The four workers differ in the provider
only; `Transient` is FALSE for SMTP, whose failures are never transient. The
Telegram worker requires a GreenAPI credential but waits on the TelegramAPI limit.

`Notification` says what all this amounts to for one task, without copies, channels,
callbacks or processes: it is requested, handed to the provider (`Send`), given up
(`GiveUp`), leaves the queue (`Settle`) only when sent, given up or waived by the operator, and
its row is written (`Record`, `Edit`, `Waive`); only after a fault may it be sent from outside
the queue or come back (`Revive`), and each fault pays for `Extra` more sends. The mapping
takes `live` for a copy in the queue, `sends` for `accepted`, `dead` for a copy in the
dead letter queue, `status` for the row, and `Prefetch` for `Extra`.

### RequestIntake

All calls carry one `RequestId`. `added` is what the DbContext of a call still has to
insert: the repositories catch the exception of a failed insert and the callers
ignore the result, so that the entity stays in state Added and the next
`SaveChanges` of the call tries it again. For the loser of a race this means that none of its
tasks can be inserted (the duplicate request fails each time), while it publishes
their DTOs with the id 0: a worker finds no such row and dead-letters them, and the answer is
200. `EmptyIsRaceLoser` and `QueuedOnce` say precisely this.

### TokenBucket

Time is counted so that one unit flows in per tick; a token is `Token` units.
`age` is the age of `last_refill`, `asked` the age of the time a worker
passed to the script, `late` the same for a call it gave up. `Skew` is each clock's
difference from the real time. Redis truncates the script's `wait_time` to an
integer, so that a refusal with less than a second to wait reads as 0 and the worker
waits `1 / max_rps`; only the flag `acquired` admits. The length of a wait is
abstracted: the worker asks again at any later time.

### ProjectAccess

`entity` and `form` are the rows an API call and an edit page have loaded. The EF
`Update` writes all columns, so every writer can undo another: an edit page opened
before a deactivation and saved after it reactivates the credential. The properties state what
holds in spite of that, and `moved` and `off` record the cases they except.

### WorkersHost

One process from `Workers/Program.cs`. `Launch` resolves the configured channels
(`ResolveEnabledChannels`, `Registered`); `Connect` and `DeclareTopology` are the two
parts of the factory's `StartAsync`, between which the connection is open and `started`
still FALSE; then the workers' `ExecuteAsync` run. `hosted` are the services that the host has
not stopped yet; `Stopping(s)` says whose `StopAsync` it awaits, the last registered first.
`CancelWorker` is `BackgroundService.StopAsync`, `WorkerStopped` its return when
`ExecuteAsync` has ended or the host's timeout has passed. One callback per worker
(`callback`) goes through the waits for the channel's and the credential's bucket, which
Redis must answer and no token cancels. `Fails` is an exception of `ExecuteAsync`, which
stops the host with exit code 0; `StartAborts` an exception of `host.Run`, which
`Program` catches with the same result; `Crash` the death of the process; `Restart` what
Docker does for `restart: on-failure`.

`Inverted` is the one place where the model has two readings. With TRUE,
`GetConnection` is as written: after `StartAsync` it throws, every worker fails, and
nothing else of the host can be seen (run `connection`). With FALSE the test of `_started`
is the one its message asks for; the runs `host` and `host_exit` and the other modules
describe the code behind it, which is what the rest of the repository is written for.

### ReconnectModal

A page's script runs to its next await without interruption. `waiting` counts the
handlers at each of the three awaits: `reconnect` and then `restore` (`resumeCircuit`) in
`retry`, and `resume`. The event of Blazor sets the class of the dialog (`look`) and the
branch of `handleReconnectStateChanged` for its state (`OnShow`, `OnHide`, `OnFailed`, `OnRejected`)
in one step. Blazor is external: its own `attempts`, and the
outcomes of `reconnect` and `resumeCircuit` (true, false, an exception) as the server's
`circuit` and `reachable` allow them. A saved state is consumed by the first resumption, so
that of two concurrent ones the second may be refused, or told of the success of the
first. The user clicks the button the look shows, hides and shows the tab, and
may close a modal dialog with Escape (`dismissed`).

## 3. Runs

| Run | Instance | Shows |
|---|---|---|
| `worker_overlap` | 2 tasks, 1 worker, prefetch 2, 1 retry, 1 fault, 1 stop | `DeliveryInv` and `ClientInv`, the inductive invariants, `CounterExact`, `DrainedBeforeClose`, `DlqJustified`, `OnceWithoutFaults`, refinement of TaskQueue |
| `worker_liveness` | 1 task, 2 workers, 1 retry, 1 fault, 1 stop | `NoLoss`, `WorkBounded`, `Settles`, `DrainCompletes` |
| `worker_status_queue` | status queue | violation of `FailureReturnsToQueue` |
| `delivery_operator` | 1 task, 2 workers, 1 fault, 1 stop, 1 operation of the operator | `NotificationNotLost`, `DlqMeansUnsent`, `DuplicatesNeedFaults`, `DoneIsRecorded`, `DeletionEndsSending`, refinement of Notification |
| `intake` | 3 calls, 2 recipients, 2 faults, 1 deletion | `QueuedOnce`, `Accounted`, `EmptyIsRaceLoser` |
| `intake_ok` | 2 calls, 1 fault | violation of `OkMeansQueued` |
| `bucket` | 2 workers with clocks apart, delay 1, capacity 3 units (1.5 tokens), expiry after 6 ticks, 1 failed call | `BucketInv`, `WindowBound`, `SendBound`, `GrantsContinue` |
| `access` | 3 calls, 2 tokens, 2 projects, 2 credentials, 2 operations of the panel | project separation, revocation, deactivation, deletion |
| `connection` | 3 workers, `Inverted = TRUE` | violation of `AvailableOnceStarted` |
| `host` | 3 workers, any configuration, `Inverted = FALSE` | `ConnectionOutlivesCallbacks`, `StopEnds` |
| `host_exit` | the same | violation of `FailureRestarts` |
| `reconnect` | 3 handlers in flight | `WayBack`, `DialogTells`, `ReloadJustified`, `ReturnsByItself` |

The four violations are the findings of `PROJECT.json`: the inverted check of
`GetConnection` (a bug: a host as written cannot get a connection); the doc comment of
`ProcessMessageAsync`, which promises a return to the queue; `restart: on-failure`, which a
process that reports its error and exits with 0 defeats; and the answer 200 of a
repeated request whose first call did not finish.

Bounds. Each bound is a constant whose name says what it bounds. Two workers are
what a redelivery that overlaps the first needs; one retry shows both the scheduled and the
exhausted case; two copies of an attempt (`NForks`) exist only after a fault that duplicates
a retry, and one fault makes at most one more. `DuplicatesNeedFaults` was also checked with
2 faults, 3 copies of an attempt and no edits or stops (3.7 million states), and with prefetch 2,
1 edit and no stops (1.5 million states), where one fault does lead to three sends; neither is a run of
the project, and with stops both outgrow five minutes.
`worker_overlap` needs prefetch 2 and a lost connection so that two callbacks of one
worker overlap. Three workers of a host are one that stops, one that fails and one that
runs on; three handlers of the dialog one at each await, or three at the same. The bucket's capacity of 1.5 tokens is the
configured multiplier at one request per second, and the expiry its `2 * capacity / max_rps`.
Symmetry is used on tasks, workers, calls, projects, tokens and credentials in
runs of safety properties only.

Deadlock is not checked where the system may stop: all tasks settled, all
workers stopped, all calls answered, the page reloading. The bucket never stops (time
passes), nor does the host (Redis comes and goes), and their runs check it.

## 4. Fairness

`ConsumerWorker!Fairness`: the broker delivers to a consumer that has room, delayed
copies become ready, the client notices a lost connection (heartbeats) and recovers it
(`AutomaticRecoveryEnabled`), callbacks run to their end (every await in them ends: the
HTTP client and the database have timeouts), a requested shutdown proceeds, and a crashed
container is restarted (`restart: on-failure`). Nothing is assumed of publishers, of
faults, or of a process that was stopped or that exited without an error code:
`Workers/Program.cs` logs an exception of the host and ends normally, and docker does not
restart that. `Settles` therefore excepts the case that all workers are closed or exited. The
wait for the rate limit takes no cancellation token: while Redis is down the callback
does not end, and the fairness does not hold.

`TokenBucket!Fairness`: time passes, the script runs and its answer arrives, and a
worker asks again. Failures are bounded in number. Nothing is fair between workers:
`GrantsContinue` promises a grant to some worker, not to each.

`WorkersHost!FairSpec`: the host goes on with its start and its stop and its timer fires
(the generic host), and Docker restarts a container with an error code. Nothing is assumed
of the workers, of Redis or of the operator, since `StopEnds` must hold without them.

`ReconnectModal!Fairness`: Blazor goes on with its attempts and each call the script
awaits is answered or throws. Nothing is assumed of the user, the tab or the server:
`ReturnsByItself` has as its premises that the server stays reachable from some time on
and that the user comes back to the tab again and again.

## 5. Proofs

`ConsumerWorkerProofs` proves for every set of tasks and workers and every
`MaxRetries`, `Prefetch`, `RetryManaged`, `Forks`, and number of faults and stops, from the typing
assumptions on the constants only:

- `TypeCorrect`: `[]TypeOK`.
- `NothingLost`: `[]NoLoss`. `NoLoss` is not inductive: that a task is not lost
  when a callback acknowledges rests on why the callback got there. `DeliveryInv` adds
  that a copy is in one place of the broker (`OnePlace`), that the broker waits only for
  answers on the current open channel (`UnackedCurrent`), that what a client holds of that
  channel is unanswered (`HeldIsUnacked`), that one callback runs per channel incarnation
  (`OneCallback`), and `AckCovered`: a callback about to acknowledge a success has
  processed its task; one about to acknowledge after a retry, whose delivery is still
  unanswered, has put a copy with a higher attempt in the queue, or the task has
  settled since; one in the catch block has thrown. Each conjunct
  has a lemma for its step, with one case per action. The crux is
  `StaysCovered`: the later copy can itself only leave the queue by settling its task or
  by a still later one.
- `DeadLettersJustified`: `[]DlqJustified`. The danger is a success whose ack throws: the
  catch block treats it as a permanent failure of a message that was processed.
  `CatchKnown` says that a callback in the catch block either has the exception on record or holds
  a delivery the broker no longer waits for. The ack throws only when the channel is
  lost, a lost channel's deliveries were requeued, and a tag once stale stays so; so the
  reject that follows reaches nothing.
- `CounterIsExact` and `ClosedIsDrained`, from `DrainInv`: the counter is the number of
  callbacks between begin and end; a completed drain means that none is in flight; a
  callback that still has to signal belongs to a worker with none in flight. The last
  one has its reason in `BeginProcessing`: the first callback in flight replaces the completion, so that
  an earlier callback (of a lost channel) that has not signalled yet completes an object
  nobody will await, and leaves the model.
- `ClientsKeepTrack`: `[]ClientInv`, which adds `PrefetchInv` to `DrainInv`: at most `Prefetch`
  deliveries of a client are unanswered, and each is in its buffer or in a callback that has not
  answered. A path through the callback that forgets its answer would take a place of the
  prefetch until the channel is lost.

`ConsumerWorkerProofs` also proves `QueueImplementsTaskQueue`: on a queue with a dead
letter exchange (`RetryManaged`; another queue drops what it rejects) every behaviour is one of
TaskQueue. All steps but six leave the abstract state alone (`QuietSteps`). That an ack
which removes the last copy is a `Retire` of a task processed or
dead-lettered is `AckCovered`; that a retry copy or a reject concerns an accepted task is
`OnlyPublished`.

`ConsumerWorkerOnceProofs` proves `NeverTwiceWithoutFaults` (`[]OnceWithoutFaults`). Its
invariant `Calm` speaks of the states in which nothing
has failed below the callbacks: no channel is lost, so that clients and callbacks hold
unanswered deliveries only (`Undisturbed`); of the copies of a task all but one were
retried already and only wait for their ack (`OneLeads`); what was processed has no
other copy (`DoneLeavesNone`). `OnlyCalmSteps` reduces the next-state relation to the
steps that remain, and one lemma per kind of step keeps the facts. The step that needs
the drain is `StopConsuming`: it closes a channel without a fault, which is safe
because `CounterExact` makes the drained worker one without a callback.

The same module proves `WorkIsBounded` (`[]WorkBounded`) for any prefetch and any number of faults,
with a potential. For a set `K` of copies and a set `R` of callbacks, `Chances(K, R)` counts the copies of `K`
that wait in the queue, the deliveries of them in a buffer, and the callbacks of `R`, or with a copy of `K` still
to be requeued. One lemma follows this number through all steps around
`ProcessMessageAsync` (`ChancesAround`). A retry passes the chance of its callback to the new
copy; a delivery, a refusal and the return of a drained worker's buffer move chances between places
(`TotalReturned` needs `CounterExact`: a drained worker has no callback whose delivery would be
returned as well). A publication creates one. Otherwise only a lost connection or a crash creates chances,
one for each delivery the broker requeues, and `PrefetchInv` bounds these (`ChancesRequeued`). The
changes of each number are composed from steps that add or remove one element (`Change`,
`ChangeCounted`, `TotalChanged`). For one attempt the copies are those that can still come to it
(`UpTo`), and the callbacks those of an earlier attempt (`Coming`). The starts so far and the chances
together are at most one for the publication and `Prefetch` for each fault (`TriesPaid`, `Owed`), because
the start of that attempt spends the chance of its delivery.

`TokenBucketProofs` proves `BucketIsSound` (`[]BucketInv`) and `WindowIsBounded`
(`[]WindowBound`) for every number of workers, token size, capacity, expiry of at least twice the
time to fill, clock differences and delays with `MaxDelay + 2 * MaxSkew <= Capacity`
(a delay that is short against the time to fill). `BucketInv` carries a
potential: what was given out in the window, plus the tokens, plus what can still flow in
for the time since `last_refill`, is at most the capacity plus the window plus
the slack; an expired key would have been full. `SendingIsBounded` (`[]SendBound`), for any
finite set of workers: the requests sent in the window, with the grants still held, are paid by
its tokens and by one earlier grant per worker (`SentInv`).

`RequestIntakeProofs`, for every number of calls, recipients, faults and deletions:
`AlwaysQueuedOnce`, `AlwaysRaceLoser`, `AlwaysAccounted`, `IntakeTypes`. The argument for
`QueuedOnce` counts `Owners`: the calls that stored the request, that have queued a
sendable task, or that may still insert one because the request is no longer in their
context. A step adds an owner only by storing the request where there was none, and a
deletion of the request is what makes room for that (`StepOwners`, `OwnersBound`); the sendable
tasks of a recipient have different owners, so that their number is bounded (`BoundQueues`).
`Race` and `Settled` are the invariants of the undisturbed race: the context of every call
but the one that stored the request drags the request along, and that one leaves no
recipient behind it without a task or an error.

`ProjectAccessProofs`, for every number of projects, tokens, credentials, calls and
edits: `AlwaysSavesOwn`, `DeactivationLasts`, `AlwaysSentWithOwn`, `AccessTypes`, and the action
properties `DeletionIsFinal` and `RevocationIsFinal`. `AccessInv` adds that every row held by a
call, a page or a task was once inserted (`HeldWasInserted`), that its project is the stored one
unless the credential was moved (`CopiesKeepProject`), and that no page holds a
credential that counts as deactivated (`OffIsClosed`).

`WorkersHostProofs`, for every list of workers: `ClosesAfterCallbacks`
(`[]ConnectionOutlivesCallbacks`), `HostTypes`, and `AvailableWhenTestedRight`: with the
test of `_started` as its message asks (`~Inverted`) nobody is told that a started factory is
disposed, so that the inversion is all that is wrong there. `HostInv` adds that a service no longer
`hosted` while the host stops has ended its callback or the timeout has passed, and
that a callback belongs to a worker that consumes or drains.

`ReconnectModalProofs`, for every bound on the handlers: `AlwaysAWayBack`,
`DialogAlwaysTells`, `ReloadsAreJustified`, `ModalTypes`. `WayBack` is not
inductive: `ModalInv` adds that the framework's attempts go on only while the page is
down (`TriesWhenDown`) and that the server is asked to resume, and the user is offered it, only
after the circuit was given up (`AsksWhenDropped`).

`TaskDeliveryProofs`, for every number of tasks, workers, retries, faults, stops and edits:
`NoNotificationLost` (on a queue with a dead letter exchange), `SuccessIsRecorded`,
`DeliveryTypes`, `LateSendsAreUnderWay`, `SilentForGood`, and `RejectedIsUnsent`. They rest on the
invariants of the queue. A step of TaskDelivery is one of ConsumerWorker, or leaves it alone,
with one exception: a run that fails because of a fault counts the fault as well
(`FaultyRun`); `FaultyRunKeeps` shows that `DeliveryInv` survives it. `FullInv` adds that a
callback has a run exactly while it awaits `ProcessMessageAsync` (`WorkShape`), that the row
and a successful run follow an acceptance by the provider (`Recorded`), and what holds until
the first edit (`Unedited`). `RejectedIsUnsent` needs `Calm`: without faults the copies of
a task that was accepted are superseded ones and the one whose run has sent
it (`AcceptedLeads`), so that none of them can still fail.

`LateSendsAreUnderWay` proves `DeletionEndsSending`: after the deletion of the credential the runs between
the second query and the end of their post (`Posting`) only become fewer, and a send takes one
away (`PostingStep`). `SilentForGood` draws the conclusion: once no such run of a task is left, it is
never sent again. That nothing at all is sent after the deletion would be false: a run may have passed the
query just before.

`DuplicatesAreCounted` proves `DuplicatesNeedFaults` with the same potential: the copies of `t`
(`CopiesOf`) and the callbacks that may still send it or schedule its retry (`Senders`). `SendsPaid`
says that the sends so far and these chances (`ToSend`) together are at most `Owed(t)`. A send
spends the chance of its callback. The queue's steps follow from `ChancesAround` (`ToSendQueue`), the steps of a
run are `ToSendRun`.

`DeliveryImplementsNotification` and `EachTaskIsANotification` prove, on a queue with a dead letter
exchange, that every behaviour is one of Notification for each task. `ImplementsNotification`
has the form that TLC can check (each step is an abstract step or a stutter for every task), and
`EachTaskIsANotification` is the same as a theorem about `Note(t)!Spec`. The step is
`NoteStep`, one lemma for each kind of step: `NoteQueue`, `NoteRun` and `NoteStore`. That an ack leaves the
queue only with a task that was sent, given up or waived is `QuietInvariant` with `Recorded`; that
without faults a send comes from the queue, and nothing sent is given up, is `Calm` with
`AcceptedLeads`; that the abstract bound on the sends holds in the next state is `DuplicatesNeedFaults`.

Every invariant the runs check is now also a theorem, and so are the action properties
`DeletionIsFinal`, `RevocationIsFinal` and `DeletionEndsSending`. Only model-checked: liveness
(`Settles`, `DrainCompletes`, `GrantsContinue`, `StopEnds`, `ReturnsByItself`), which is outside
the prover's reach.

## 6. What the models say about the code beyond the properties

- A task in the dead letter queue stays `Pending` in the database, and the status of a
  `MessageRequest` is never changed from `Processing`.
- A database error in a worker is not transient: the task is dead-lettered at once.
- A repeated request is answered 200, although the API documents 400 for a duplicate.
- The multiplier 1.5 allows a burst: in one second the provider may get more than the
  configured rate. `SendBound` is the bound that holds: capacity, plus the window,
  plus one token per worker that was granted before the window and sends in it.
- After a total outage of Redis begins nothing is sent until it ends. A worker that drains
  then uses up the shutdown timeout, which the workers stopped after it share: the
  connection is closed under their callbacks as well.
- One fault at the wrong moment (a lost connection or a lost answer after the send) is enough to
  send a message twice, for all the README's "нет дублей"; `DuplicatesNeedFaults` says
  that each fault causes at most `PrefetchCount` more sends, one with the configured 1. The
  bound is tight: with 2, one lost connection can lead to three sends (a delivery that awaits its
  ack and its retry copy, buffered behind it, are both requeued).
- The deletion of a credential is seen by the second query, but not between that query and the post;
  a run that has read the credential never sees its deactivation.
- A misspelled `CHANNEL` starts all workers; a number that is no channel starts none.
- The dialog's listener may stay registered while the page is connected; the next return to the
  tab then calls `reconnect` on a connected page, which does no harm. Escape on a paused session
  hides the Resume button, and nothing else offers it. Of two concurrent resumptions
  one may be refused after the other has succeeded, and the page is reloaded.

## 7. Not modelled, and why

QueueConsumer (nothing uses it), telemetry and logging, the pages and login of the panel, the
formatting helpers (pure functions on strings), migrations. A message that cannot be
deserialized is left out of ConsumerWorker: the publishers write what the workers read.
Attachments: the workers pass none. A retry copy that the broker returns as unroutable would be
lost, since `OnBasicReturnAsync` only logs it and the original is acknowledged: every process declares the
retry exchange, the queues and the bindings at its start and none ever removes them, so that this needs someone to
change the broker by hand, which no module lets happen.

## 8. Plan

Done: the modules of section 2, in the order ConsumerWorker, TaskDelivery, RequestIntake,
TokenBucket, ProjectAccess, ReconnectModal, WorkersHost, and proofs about all of them.

Next, most important first:

1. An abstract specification of the intake of one request (stored, owned, queued, named as
   an error) that RequestIntake implements, with `Owners` as its refinement mapping.
2. Two buckets in turn, with their numbers: the token held while the second bucket refuses.
3. RequestIntake composed with the queue: the fate of a DTO without a row, and the
   tasks nobody published.
4. Pure algorithms against a definition: retry delay, phone numbers, `HtmlToWPHelper`.
5. An Email instance of TaskDelivery (`Transient = FALSE`).

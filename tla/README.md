# Verification of the Mattermost tree: TLA+ models, TLC runs, TLAPS proofs

The repository holds a Mattermost server and web application
(`src/mattermost-master`) and a group-buying service (`src/groupbuy-bot`, of which
`mattermost-master/groupbuy-bot` is a copy). This project models the parts of it
whose correctness depends on the order of things: connections that break and come
back, locks kept in a database, jobs that must run once, or not twice at a time, on
whichever server. Everything below names code by file; paths are relative to
`src/mattermost-master/` unless they begin with `groupbuy-bot/`.

Contents: 1 inventory, 2 modules and their correspondence to the code, 3 runs,
4 bounds, fairness, deadlock, 5 proofs, 6 disagreements between code and
documentation, 7 what is not modelled, 8 plan.

## 1. Inventory

### 1.1 Reliable websocket

| | |
|---|---|
| Server | `server/channels/app/platform/web_hub.go`, `web_conn.go`; `server/channels/api4/websocket.go` |
| Client | `webapp/platform/client/src/websocket.ts` |
| State | hub goroutine: index of connections. Each `WebConn`: id, sequence number, `send` channel (256), dead queue (ring of 128 events already written), active flag. Client: socket, connection id, next expected sequence number, reconnect timer, ping interval, `waitingForPong`, numbers and callbacks of requests, failure count |
| Operations | connect (upgrade, `checkConn`, register), broadcast, direct message, unregister, reaping of stale connections, invalidation; `writePump`/`readPump`; client `initialize`, `close`, `onopen`, `onmessage`, `onclose`, pings, `sendMessage`, the window's online and offline events |
| Interaction | the hub owns the index and talks to the pumps by channels; the pumps write `Sequence`, id and dead queue without a lock; a reconnecting client names its old connection and the number it wants, and a new `WebConn` takes over the queues of the old one |
| Hard | everything happens beside everything else: a client returns while its old connection is still served; a full queue closes a connection between two events; replay fails half way; the ring wraps; an event cannot be encoded; the server restarts; the client's timers, window events and callbacks share a handful of fields |
| Correct when | listeners get what the hub took for the client, in order, once, over all sockets; a loss is announced; nothing is sent on a closed channel; in the end the client has caught up; the client has one socket and at most one timer of a kind, notices a silent server, and is never left without a socket or a timer |

### 1.2 Plugin cluster package

`server/public/pluginapi/cluster`: `mutex.go`, `job.go`, `job_once.go`,
`job_once_scheduler.go`, over the plugin key-value store
(`server/channels/store/sqlstore/plugin_store.go`).

| Part | State | Operations | Correct when |
|---|---|---|---|
| Mutex | one key with an expiry; per holder a goroutine that refreshes it | `Lock`, `LockWithContext`, `Unlock`, refresh every ttl/2 | one holder at a time; the key outlives its holder's use; a crashed holder does not block the rest |
| Job | metadata `LastFinished` of a key; per instance a goroutine | `Schedule`, run under the mutex, `Close` | one run at a time; runs apart by the interval, wherever they are; goes on when an instance goes away |
| Jobs that run once | metadata of a key; per server the active jobs and a poller | `ScheduleOnce`, `Cancel` by object and by key, `Start`/poll, run | runs only what is scheduled, once; what is scheduled runs or is cancelled; calls return |

Hard: keys expire under a holder that is slow or whose refresh failed, a store call
fails after it took effect, servers crash anywhere, several locks are taken in
different orders, reads come from a replica.

### 1.3 Jobs server

`server/channels/jobs` and `store/sqlstore/job_store.go`. State: the row of each job
with its status (pending, in progress, success, error, cancel requested, cancelled,
warning) and data, the gauge of active jobs, per node a watcher, workers, schedulers with
a next run time per type, the leader flag. Operations: create, claim (optimistic update),
progress, success, error, cancel request and the poll for it, stop of a worker, reset,
schedule, change of configuration, change of leader. Interaction: nodes meet only in the
table; the watcher reads a replica and hands workers copies of rows. Hard: unconditional
status updates racing conditional ones, stale copies, nodes that boot, stop and crash
anywhere, the change of leader between check and create.

The part with the most at stake is modelled first: the **batched migrations of the
database** (`batch_worker.go`, `batch_migration_worker.go`, `app/migrations.go:767-828`).
Every node that boots creates the job unless it is done, one of them runs it, batch by
batch, and a cluster whose versions diverge starts it again. Correct when one node runs it
at a time, no batch is skipped, none is repeated without need, and the job ends.

### 1.4 Other stateful parts of the server

- **User status** (`platform/status.go`, `busy.go`): cached status, a queue of
  offline updates, manual versus automatic status. Hard: the goroutine in which the hub
  sets a user offline (`web_hub.go:605`) against the user's reconnect.
- **Caches** (`store/localcachelayer`, `platform/services/cache`): read-fill against
  invalidate, locally and between nodes.
- **Plugins** (`public/plugin/environment.go`, `supervisor.go`, `health_check.go`):
  activation, deactivation and restarts of the health check.
- **Shared channels and remote clusters** (`platform/services/sharedchannel`,
  `remotecluster`): a queue of sync tasks with retries, cursors, online state.
- **Websocket queues between nodes** (`platform/websocket_reliable.go`).
- **Scheduled posts, uploads, push notifications** (`channels/app`).

### 1.5 Group buying (`groupbuy-bot`)

Django core (`core/procurements`, `core/payments`, `core/chat`, `core/users`) and a
Rust core with the same endpoints (`core-rust`). State: procurements with status and
total, participants, payments with status, balances, transactions. Operations: join,
leave, status changes; payment, webhook, refund. Hard: check-then-act on rows read
without a lock (`core/procurements/views.py:103`, `models.py:138`), total and status derived from one another, webhooks delivered twice.
The bot, the adapters and the front ends keep no shared state.

### 1.6 Without a state of their own worth a model

REST API, SQL statements, search engines, export, metrics, telemetry, image proxy,
file store, mail, command line tools, user interface and reducers of the web
application, tests and build files. `PROJECT.json` lists every part with its reason,
and under `hazards` the lines where the code is hard to test, each with the
properties that watch it or the reason why none does yet.

## 2. Modules

```
DeadQueue --------- WebConnReplay ---- WebConnReplayProofs
    |
 WebConn --- WebHub --- ReliableWebSocket --implements--> ReliableStream
                               |
                    ReliableWebSocketProofs --- ReliableStreamProofs

ClusterMutex --implements--> ClusterLock --- ClusterJob, JobOnce
     |                                           |          |
ClusterMutexProofs                  ClusterJobProofs   JobOnceProofs

WebSocketClient --- WebSocketClientProofs        BatchMigration --- BatchMigrationProofs
```

Every MC module extends one of them with model values; every proof module extends the
module it is about.

### 2.1 Websocket

**DeadQueue** has the ring buffer as operators with the code's names:
`addToDeadQueue`, `isInDeadQueue`, `hasMsgLoss`, `clearDeadQueue`, and `DrainedTo`, the
condition on which the loop of `drainDeadQueue` stops. They scan as the code scans: the
search stops at the first empty slot, the loss check reads one slot.

**WebConnReplay** is one connection id with a minimal environment: it writes events,
loses its socket at any point, and the client returns with any number it can hold. The
three branches of `writePump` are `ResumeFound`, `ResumeLost`, `ResumeLossless`, one
iteration of `drainDeadQueue` is `Drain`. It is the module for the proofs: histories
(`written`, `out`) say what the ring should have retained and replayed.

**WebConn** has the `WebConn` objects of one user with both pumps and the sockets.
`phase` is the place in the code between the upgrade of the request and the end of
both pumps. A write on a broken socket may fail or be swallowed by the kernel.
**WebHub** has one action per case of the hub's `select`, atomic as the hub is one
goroutine: `CheckConnNew`/`CheckConnFound`, `Register`, `Unregister`, `Broadcast`,
`SendMessage`, `InvalidateFails`, `RemoveInactiveConnection`; and the faults `Break`,
`Restart`, `RegisterFails`. `Broadcast` sends to every connection of the index and
closes and removes those without room, as `closeAndRemoveConn` does.

**ReliableWebSocket** adds the client: `Initialize`, `OnOpen`, `OnEvent`, `OnMismatch`,
`OnResponse`, `OnClose` are the callbacks of `websocket.ts`. Histories: `got` and `last`
(what listeners received), `missed` (the missed-event callback), `refetched` (what the
last refetch of data covers), `stream` (what the hub took for each connection id; an id
that starts over begins with what is left in the send queue, `Shown`, which is defined by
what it is, the shown events in increasing order, so that it can be reasoned about).
**ReliableStream** is the abstract promise: events are accepted and delivered one by
one; the stream may be given up, but not silently. `ImplementsStream` maps the client's
stream onto it.

**WebSocketClient** is the other half of `websocket.ts`: how the client keeps itself
connected. A handler of the code is an action, atomic as JavaScript is, with every call
it makes: `Initialize`, `Close`, `SendMessage` are calls of the application; `OnOpen`,
`OnClose`, `OnResponse`, `OnMismatch` are callbacks of a socket; `Reconnect` is the
function of the reconnect timer; `Interval` that of the ping interval, with the branch
that asks again (`PingAgain`) and the one that gives up (`PongMissing`); `Online` and
`Offline` are the window's. `NetworkLost` is a network that goes away without a word,
`ServerCloses` a closing handshake. Timers are identified by the ids the browser gives
(`timeouts`, `intervals`), beside the fields in which the code keeps one of each, since a
field that is overwritten does not stop the timer. `responseCallbacks` holds only which
kind of callback is kept under a number. Histories: `wanted`, `silence`, `sinceAttempt`.
ReliableWebSocket has the meaning of events and reconnects at any time; WebSocketClient
has the times and lets any event have the wrong number.

Abstractions: one user, one hub, one client (the connections of different users share
nothing but the hub's loop); an event is the number of its broadcast; a response has no
content; on the server and in ReliableWebSocket pings and deadlines are a socket that
breaks at any time and is noticed at any time; a user's events are all meant for every connection of the user.

### 2.2 Cluster package

**ClusterLock** is the abstract lock: nobody or one client holds it.

**ClusterMutex** has the key (`left`, its remaining life; an expired row and no row are
the same to `CompareAndSet`), per client its place between `Lock` and `Unlock`, whether
the refresh goroutine runs, and a clock. `tryLock` sets the key if it is not there;
`tryLockFails` fails with or without effect; `refreshLock` is a tick of the ticker, a
compare-and-set of a constant value, which is why it succeeds on anybody's key;
`Unlock`/`Unlocked` stop the goroutine and delete the key whatever its value. The code
promises nothing about how long a step takes, so there are two specifications: in `Spec`
(`FairSpec` with the fairness) steps that are due are at most `Delay` late, with
`refreshInterval + 3 * Delay < ttl` (with ttl/2 = 7.5 s: calls of up to 2.5 s); in
`LateSpec` they may be late and a refresh may fail. `MutexAssumption` states the
condition, found by asking for which values the proof goes through: a key may be
refreshed one `Delay` late, the holder may stop refreshing just before the next tick with
one more, and its delete take a third.

**ClusterJob** has the `Job` objects of the instances (the clients of the lock), the
stored metadata and the replica it is read from. `readMetadata` is the locked part up to
the callback, since the lock lets nobody in between; `callback`, `saveMetadata` and
their failures are steps of their own, between which an instance may crash. Both
waiting rules are `NextRun`; which one an instance was given is chosen in `Schedule`.
The database copies the metadata to the replica at any later time (`Replicate`).

**JobOnce** has one job key: the stored `RunAt`, each server's `activeJobs`, its
read/write lock (`readers`: `Scheduler.Cancel` keeps it across the cluster mutex), the
poller's list read without the mutex, the `JobOnce` objects with their goroutine's place,
and the calls of plugin code. `cancelWhileHoldingMutex` is two steps, the store
(`DeleteMetadata`, `CancelLock`) and the server (`Forget`, `CancelForget`), because other
calls can come between; where the code locks, makes one store call and unlocks, that is
one step. `overdue` is for the `select` of `run`: a job scheduled in the past waits a
non-positive time in every turn of the loop, so after its run both channels are ready and
it may fire again.

Metadata is written to the master and read from the replicas in turn (`GetReplica`,
`store.go:428-442`; `plugin_store.go:220` and `:310`), each of which may be behind by a
different amount. `readable` is the set of values a read may return: the stored one, and
those since the replica that is furthest behind; `Replicate` is the moment all have caught
up. Both `ReadMetadata` and `ListScheduledJobs` pick any of them. Two histories let the
properties say what that does: `behind` of a job, that its read differed from what is
stored, and `dropped`, that a job has deleted metadata it had not read. Without replicas,
or without a licence, the code reads the master: no read is behind then, and
the properties hold with no exception for one.

The jobs use the lock, not the timed mutex: `ImplementsLock` (checked and proved) says
every behaviour of the timed mutex is one of the lock, as long as steps are on time. Where
they are not, section 6 says what happens. A crash frees the lock at once in the jobs,
after at most ttl in the mutex: nobody can tell, as the jobs have no deadline.

### 2.3 Jobs server

**BatchMigration** has the Jobs table (`jobs`: status and data of each id; data is the
number of the last batch done), a replica of that table, the migration key of the Systems
table, which is read from the master (`system_store.go:88-90`), and each node with the place of its worker (`pc`), the id and data of its copy of the job,
and its closed `stopCh`. The statements of `job_store.go` are operators with their names
(`UpdateStatus`, `UpdateOptimistically`, `SaveOnce`), so that which writes look at the
status first and which do not is as in the code. Every call of the store is a step, and
`Write` lets it fail with or without effect. `Boot` and `CreateJobOnce` are
the boot of `app/migrations.go`: read the key, read the pending job from the replica, then
create; in `SaveOnceLoses` the transaction loses to another and the boot goes on without a
job and without an error (`job_store.go:127-137`).
`PollAndNotify` is the watcher, `ClaimJob`, `DoBatch` (in sync, last batch, batch, error),
`SetJobProgress`, `resetJob`, `Fail`, the four steps of `setJobSuccess`
(`FinishProgress`, `FinishFailed`, `SetJobSuccess`), `markAsComplete` and `SetJobPending`
are the worker. `Crash` includes the panic that `HandleJobPanic` turns into an error.
`performed` records the batches done for a job since it was new or reset, which the
properties compare with what data and key claim. `Stopped` ends the process; the next
`Boot` of the node is a restart. Since no permission exists for these types, neither
the REST API nor a scheduler writes their rows, and cancellation is not reachable.

## 3. Runs

| Run | What it asks | Result |
|---|---|---|
| ws_replay | the ring: replay exact, numbering resumes, loss reported exactly when the wanted event is overwritten; the inductive invariant of the proofs | holds |
| ws_safety | full composition with a fault and an event that does not encode: delivered is a prefix of accepted, nothing repeated even across streams, the index never has a closed channel, one connection per id, the dead queue has no hole; implements `ReliableStream` | holds |
| ws_liveness | with a rejected and an unencodable event: when the faults are over the client catches up and stays so | holds |
| ws_silent_loss | no event is lost without the client being told | **violated**, section 6 |
| ws_client | the client's connection keeping: one socket, no timer leaks, never idle, a silent server is noticed, the interval gives up only on a server that owes an answer, attempts apart; it ends up connected | holds |
| cluster_mutex | on-time mutex with failed calls and crashes: exclusion, the key outlives its holder, the inductive invariant, implements `ClusterLock`; waiting clients do not wait for ever on a mutex no one has | holds |
| cluster_mutex_lost | exclusion when one refresh fails | **violated**, section 6 |
| cluster_job | two instances, either rule each, a fault, a replica that may be behind: the stored end is the last end, runs are apart, the next run comes while an instance is left, `Close` returns; the inductive invariant | holds |
| job_once | two servers, two schedules for different times, a cancel, a crash or a failed call, replicas that are behind: never too early; what runs is scheduled, unless the read was behind; as many such runs of a schedule as one and the faults; active jobs are running; the inductive invariant | holds |
| job_once_runs | with a crash or a failed call and replicas that are behind: what is scheduled runs, unless a `Cancel` is called, its reads fail too often or a job that has not read it deletes it | holds |
| job_once_cancel | the calls return | **violated**, section 6 |
| batch_migration | two nodes with a failed call or a crash, a shutdown and a divergence: one node runs at a time, no batch is skipped, none repeated unless a call failed, what has ended stays ended, a pending job ends | holds |

Each property of a passing run also has a *mutant* in `PROJECT.json`: a definition
standing next to the original in the module, marked "Mutant of", which is the code with a
plausible bug. Under it the property fails, so the property depends on that code.

## 4. Bounds, fairness, deadlock

**Websocket.** `deadQueueSize = 2` is the smallest ring the code can work with (with one
slot `drainDeadQueue` would not end) and already wraps with the third event, counting the
hello; `ws_replay` takes 3 slots and 7 events, so the ring rolls over twice.
`sendQueueSize = 2` fills with two broadcasts. Three broadcasts make a resumable, an
overwritten and a queued event exist together. Two `WebConn` objects: the code itself has
at most the old and the new one of a client in contact; a third would be a client that
abandons a second attempt, and is covered as objects are reused. One or two faults
(breaks, restarts, store errors) give one or two reconnects on top of those that the
client's own mismatches and the hub's full queues cause without a fault. `MaxIds` bounds
connection ids; at 5 no behaviour of the liveness run meets the bound.

**Client.** Two sockets, so that one may be closing while the next one opens; three
timers, one to reconnect, one to ping and one that either could leak (every action that
sets one finds it free, as `NothingLeaks` shows). Retry times 1 and 2 with a jitter of 1
and one failure at the lower: both ends of the backoff occur. Two faults, an event of the
window, a request and a `close()`. Request numbers end at 3: a fourth would need more
pings than one silence has.

**Mutex.** ttl 8, interval 4, delay 1: the smallest integers with the code's ratio that
leave a delay. Three clients: one holds, one lost it, one waits. Times are relative
(remaining life and time to the next tick), so nothing is cut off at the end of time.

**Jobs.** Two instances, each scheduled with either rule, or one of them again after it
has been closed or has crashed; time up to 4 with interval 2, so that runs end on and off
a boundary of the interval and a third follows. JobOnce: two servers, two objects, one
call at a time, which pollers, goroutines and the calls' own later steps meet; in
`job_once` two schedules, for time 1, before, at and after the present, and for time 2,
which is never reached: it is the other schedule whose metadata the job of the first may
meet. One fault, a crash or a failed call: `RunsAtMostOnce` allows a second run for it, and
it does come. `maxNumFails` (3 in the code, only counted up to) is 0 in `job_once`, so that
the one fault makes a job give up, and 1 in `job_once_runs`, so that it tries again.
`job_once_runs` has one schedule, one fault and no cancel: with replicas that are behind,
the states of more are too many for a property under fairness.

**Migration.** Two nodes meet in every action; two jobs, so that one can be created
after another has ended or been lost; two batches, the smallest number with a batch that is
neither the first nor the last to skip. `MaxFaults` bounds failed calls and crashes
together; with 2 all properties hold as well, in a run of over five minutes.

**Fairness.** Pumps, hub, goroutines and the event loop of the browser run when they have
something to do (weak fairness per goroutine, not per action: which of several ready
cases a `select` takes is left open). Go's `select` picks at random among ready cases:
strong fairness of `Done` and `Stop`, the branch of a closed channel, states that it is
not avoided for ever. Timers fire (`Initialize`, `RemoveInactiveConnection`, `Tick`,
`Wake`, `Fire`, and in WebSocketClient `Reconnect` and `Interval`). The browser opens or closes
a socket that is connecting or closing, and a server that can be reached answers. A node that
is down is started again, its boot and worker go on, its watcher polls, replicas catch
up, and a rolling upgrade ends (`Converge`). Callbacks are assumed to return, a client that has locked to unlock.
Nothing is assumed of callers (`Lock`, `Schedule`, `Close`, `Cancel`) or faults.

**Deadlock** is checked for the mutex and the client, which never have to stop. In the
other runs broadcasts, faults, schedules and time are bounded or the migration ends, so the system comes to rest:
`CHECK_DEADLOCK FALSE` there. Blocking is asked for by name instead: `EventuallyCaughtUp`,
`CallsReturn`, `CloseReturns`, `RunsAgain`, `SomeoneGetsIt`, `PendingEnds`.

**Symmetry** of connections, clients, servers, objects and calls is used in safety runs
only.

## 5. Proofs

All for every value of the constants that satisfies the named assumptions, and without
the bounds being of any importance (they may be any natural number).

- **WebConnReplayProofs.** `ReplayInv` is inductive: the ring holds the last
  `deadQueueSize` written events, each in the slot its number gives (`RetainsLatest`,
  `Numbered`); a replay in progress stands at the event after the last one sent
  (`DrainPosition`). `ReplayIsExact` alone is not inductive: one step of the replay reads
  a slot of which it says nothing. `LossReportedExactly` needs it too: that the scan
  finds an event exactly when it has not been overwritten is a lemma on `RetainsLatest`.
  `NumberingResumes` follows from the same lemmas. From `DeadQueueSizeAssumption` (two
  slots or more) and `ReplayAssumption`.
- **ReliableWebSocketProofs.** `WebSocketInv` is about the hub, the pumps and the client
  together. `OneConnPerId` is kept where ids are given out: `CheckConnFound` takes the
  connection it found out of the index and frees it, and that is not the taker itself,
  since what is in the index has been registered (`IndexIsUsable`); an id made anew is
  above all others (`IdsAreOld`). `IndexIsUsable` needs `UnregisteredIsOpen`: nobody closes
  a connection before the hub has registered it. `DeadQueueIsContiguous` (events from slot 0 on, then empty slots) and
  `DrainsEvents` carry the types: a replay stops at the first empty slot and so never
  writes one, and the queue taken over has the form the next writer relies on.
- **ReliableStreamProofs** is about what the client hears, on top of `WebSocketInv`. That
  `got` is a prefix of `stream` is not inductive: whether the next event is the next of
  the stream depends on what is on the socket, that on the dead queue it may be replayed
  from and on the send queue it was taken from, and these are handed from one connection
  to the next. `StreamInv` relates them all by the numbers of the messages. For each
  connection id there is a number G, the messages written without a missing one, and the
  stream is *whole* or *torn* (`IdNumbered`):
  - a message with a number below G, in the ring (`RingNumbered`) or on the way to the
    client (`Wire`), is the event of that number in the stream; while the stream is whole,
    the ring has the last ones in the slots their numbers say, so a replay of the wanted
    number continues the stream;
  - what waits in `send` is the rest of the stream, from number G on (`RestFrom`), and the
    hello if it has not been written (`QueueNumbered`);
  - `Sequence` is G or more in the loop, and that of the next event in a replay
    (`PumpNumbered`);
  - the client expects a number up to G and has been given all events below it
    (`ClientNumbered`).

  An event that cannot be encoded uses up a number (`web_conn.go:578-589`). Once another
  is written behind it, numbers are ahead of the stream: it is torn at G. Nothing is
  ever written with the number G, so the client does not get past it: it reports a
  mismatch, and comes back to the same tear or to a new id. That a torn ring still leads
  nowhere else needs its last clause, which gives the order of neighbouring slots.
  `After` says that a stream the client may still change to has only events that come
  after the last one it was given, and `PeerInv` that the client's own connection is the
  one whose hello it will hear; `NeverRepeated` follows, over streams, and each step is
  one of `ReliableStream`: a hello is `Begin` or, if the client knew another id,
  `StartOver`; an event is `Deliver`; a broadcast taken for the client's id is `Accept`;
  all else leaves the promise as it is. From the same assumptions as before.
- **ClusterMutexProofs.** `MutexInv` bounds the age of a holder's key by the places the
  holder has been through (`Age`); with `MutexAssumption` the age stays below ttl, so the
  key is there, so nobody else can set it. Exclusion and `KeyOutlivesHolder` follow, and
  with the same invariant each step of the mutex is a step of the lock or leaves it as it
  is (`MutexRefinesLock`).
- **ClusterJobProofs.** `JobInv`: the holder is the instance that executes or saves, what
  it is about to save is the last end, and the store has the last end unless someone is
  about to save it or failed to. `RunsAreApart` follows for both waiting rules, whichever
  instance has which; for the rounded one it needs a little arithmetic of `\div`. It says
  nothing of a run that reads a replica which is behind.
- **JobOnceProofs.** `JobOnceInv` conjoins the types, `MutexIsHeld` (holder and places
  agree), `WaitsForItsTime`, `RunsWhatIsScheduled` and `DeletesWhatHasRun`.
  `RunsWhatIsScheduled` needs `MutexIsHeld`, since the metadata must not change between
  read and callback; it says so of a job whose read was not behind, of the others only
  that they hold the mutex and are not early. `RunsAtMostOnce` is half of
  `DeletesWhatHasRun`, whose other half makes it inductive: once a schedule has been run as
  often as the faults allow, its metadata is gone or its holder is about to delete it. Each
  fault allows a run more, and the code has no remedy: a crash between callback and delete
  runs the job again. A read that is behind may run it again without a fault; such runs
  are not counted.
  `ActiveIsRunning` has an invariant of its own with `CallKnowsJob`: the job a `Cancel`
  stops is the one it found in `activeJobs`, which it keeps locked until it is stopped.
- **WebSocketClientProofs.** `ClientInv` conjoins the six safety properties, two of which
  carry each other: `NeverIdle` needs `NothingLeaks` (the timer of the field is one that
  runs) and that needs `OneSocket` (handlers act on `this.conn`). Two conjuncts are
  added. `AskedInv`: a request that can still be answered was made on an open or closing
  socket, under a number already passed, so a new callback is not put where an old answer
  will look for it. `ApartInv`: what is left of a backoff covers what is left to the next
  attempt, from which `AttemptsApart` follows for the backoff and the online handler alike.
- **BatchMigrationProofs.** `MigrationInv` is needed since no property stands on its own.
  One node runs (`OneNodeRuns`) because at most one job is pending or in progress
  (`OneActive`, kept by the serializable `SaveOnce`) and a worker holds a job in progress
  (`HeldInProgress`), which only a claim makes so. With that, the unconditional
  `SetJobPending` and `SetJobSuccess` only ever meet their own job, and `FinalIsFinal`
  follows. `NoBatchSkipped` needs that what is saved has been done (`SavedDone`), what is
  in memory too (`HeldDone`), and that a job whose end is in progress can be held by nobody
  else (`OverInv`); `NothingRepeated` needs the converse, `DoneIsSaved`, which holds until
  a call fails.

Every invariant and every action property of a passing run, and both refinements, are
theorems. Only model-checked: what holds under fairness (`EventuallyCaughtUp`, `SomeoneGetsIt`,
`RunsAgain`, `CloseReturns`, `ScheduledRuns`, `KeepsConnected`, `PendingEnds`), as liveness and
`ENABLED` are out of the prover's reach. Induction over data and recursive operators are out
of reach too, and no module uses either. `StreamInv` is not among the properties of the
runs, since it says that a number exists; what it is for is.

## 6. Where code and documentation disagree

1. **ws_silent_loss.** A broadcast between `checkConn` (the old connection leaves the
   index, `web_hub.go:557`) and register (the new one enters, `:579`) goes to neither,
   uses no number and is never missed. The dead queue is said to resuscitate what was lost
   when the connection broke.
2. **cluster_mutex_lost.** One failed refresh (`mutex.go:145-149`) ends the refreshing,
   the holder is not told, the key expires, two callbacks run at once, contrary to
   `job.go:91-92` and `:175`.
3. **job_once_cancel.** `JobOnce.Cancel` waits with the mutex held for a goroutine that
   waits for the mutex (`job_once.go:70-79`, `:124`).

More follows from the models and the code read for them, without a run of its own.

- Cancel, then schedule again, as `job_once_scheduler.go:129-130` says: a server that still
  has the first job deletes the metadata of the second (`job_once.go:142-145`).
- Without a fault, a job "that will run once" (`job_once_scheduler.go:126`) may run more
  often, or not at all, when a replica is behind (`plugin_store.go:220`): a second server that
  has it active gets the mutex, reads metadata that has been deleted, and runs the callback
  again, also after a `Cancel`; and the job of a schedule for the present may read nothing,
  take itself for completed and delete its own metadata (`job_once.go:142-149`). These are
  `behind` and `dropped` in the properties; without them TLC finds both.
- `LastFinished` "anywhere in the cluster" is read from a replica (`plugin_store.go:220`):
  without the condition `replica = stored` `RunsApart` fails, as an instance that locks the
  mutex before the replica has caught up runs the job again at once.
- `Scheduler.Cancel` of a key takes the lock of `activeJobs` before the cluster mutex
  (`job_once_scheduler.go:157-171`), everybody else after it, so two `Cancel`s of a key on
  one server may block each other, which would violate `CallsReturn` as well. So may a
  `Cancel` and the goroutine of a job scheduled for the past, which fires once more after
  it has left `activeJobs`: it has the mutex, waits for `activeJobs`, and no server can use
  the key any more.
- A reset that fails ("May resume instead of restarting.", `batch_worker.go:160-161`) or a
  crash leaves the migration's job in progress with no worker: nothing resumes or restarts
  it, and boots do not create another. This is `Abandoned` in `PendingEnds`.
- A cluster that diverges while no node runs the job is not noticed: the look at it is the
  worker's (`batch_migration_worker.go:59`), and a job given back keeps its data.
- A failed read of the migration key is taken for a migration that is not done
  (`app/migrations.go:769`), and a crash between `SetJobSuccess` and `markAsComplete` runs it
  again; the code accepts the second (`batch_migration_worker.go:118-119`).
- For other types of job, `api4/job.go:370-375` checks a change of status on a row read from
  a replica and then writes without a condition, and the gauge of active jobs is decremented
  for jobs never counted (`jobs.go:256`) and not for those set pending (`jobs.go:174-182`).
- A replay counts `Sequence` by one for each event (`web_conn.go:655`), whatever the number
  the event has. If an event in between could not be encoded, numbers behind it are used
  again for other events; the client does not get past the missing one, so it never takes
  one for another (`StreamInv`).
- `close()` while the socket is connecting leaves it (`websocket.ts:553`): it opens, and the
  client is connected after it has been closed. `onclose` restarts the numbers of requests
  but keeps their callbacks (`websocket.ts:225`), so that the answer to a request without a
  callback may call the one of an earlier connection.

## 7. Not modelled

By component in `PROJECT.json`. Of the modelled ones: which user, channel or connection an
event is for, and so `byConnectionId`; several nodes of the websocket server (the cluster
interface is implemented outside the repository); the shutdown of the hub; the pings of
the client together with its event stream (WebSocketClient has the ones, ReliableWebSocket
the other); clock skew between servers (one clock); `props` of jobs and callbacks of
different keys excluding each other. Of the jobs server:
schedulers and leadership, cancellation, workers that are not batch workers, the
gauge, retention. What the batches of a migration do to the database is a number each.

## 8. Plan

Done, in this order: DeadQueue, WebConnReplay and its proofs; WebConn, WebHub,
ReliableWebSocket against ReliableStream, and the proofs of both; ClusterLock, ClusterMutex and its proofs;
JobOnce and ClusterJob with theirs; WebSocketClient and BatchMigration with theirs.
To come:

1. **JobServer**: the table of BatchMigration with the workers of `base_workers.go`,
   cancellation and its poll, the REST API's change of status. Abstract specification: the
   life of a job (a finished status is final; a requested cancellation ends in cancelled
   or another finished status). Runs: the gauge against jobs in progress.
2. **JobSchedulers** (`schedulers.go`, `base_schedulers.go`): leadership, configuration
   changes, next run times. Runs: no two pending jobs of a type under one leader, the
   last change of leader wins, a leader with an enabled scheduler schedules again.
3. **Posts of a channel** in the web application's state
   (`mattermost-redux/src/reducers/entities/posts.ts`): chunks filled by requests and
   events in any order.
4. **ClusterMutex** with skewed clocks, the proofs extended by the skew in
   `MutexAssumption`.
5. **Status**, **plugin supervision**, **shared-channel sync**, each with its
   composition with the hub or the jobs where they meet.
6. **Procurement** and **Payment** of the group-buying core, Django and Rust: totals
   equal to the active participants, finished procurements stay finished, balances equal
   to the transactions; runs with two requests at once and a repeated webhook.

# Verification of cmha (container MQTT for Home Assistant)

TLA+ modules that model the concurrent core of `cmha`, the TLC runs that check
them on small instances, and theorems proved with TLAPS. Source paths below are
relative to `cmha/src/`; `PROJECT.json` maps every definition to its lines and
lists the hazards, the runs, the mutants each property is tested with, and the
theorems.

## The system

`cmha` lists the containers of a Docker-like engine, publishes each as a Home
Assistant device over MQTT (a discovery message, then its state, neither
retained), and carries out the commands Home Assistant sends back. One process
runs these parts:

| Component | State | Operations | Talks to |
|---|---|---|---|
| Cancellation tokens, `cancellation_token.rs` | the source's list of tokens, its flag, one flag per token, one shared `Notify` | `new`, `new_with_a_token`, `create_token`, `cancel`, `wait_on` | every task; every request to the engine |
| Event loop, `device_manager.rs` `deal_with_event_loop` | connected flag, connection under `rumqttc` | turns broker events into channel messages, retries | traffic task (watch channel) |
| Traffic task, `maintain_message_traffic`, `PublishManager` | manager's status, publisher's handle, its token source | applies statuses to health and to the publisher, commands, offline and disconnect | event loop, publisher, health, registry |
| `initialize()` and availability, `device_manager.rs` | detached tasks, the client's queue of ten requests | discovery, subscription, data, `online` later, `offline` on a stop | broker; Home Assistant's status topic |
| Publisher, `publish_sensor_data_in_a_loop` | two event streams, an event in hand | publishes data, discovery and withdrawal | update engine, broker |
| Stop task, `main.rs` `deal_with_stop_request`, `stop`, `force_stop` | `should_stop`, bits of stopped tasks | asks for a stop, waits, gives up after five seconds | traffic task (channel), event loop (token) |
| Update engine, `update_engine.rs` | `last_messages`, both streams' place in their loops | scan for new and gone devices, read all devices, filter | registry, container engine |
| Registry, `devices/devices.rs`, `device.rs` | devices by key, under locks | add, remove, filter, read all, handle a command | update engine, traffic task |
| Handlers, `container_device.rs`, `devices/mod.rs`, `sample_device.rs` | last sample of statistics, request for logs, times of debounced reads, the sample's switch | read, restart, stop, remove and so on | container engine |
| Entities, `devices/*.rs` | none | topics and ids of discovery messages | registry, Home Assistant |
| Health check, `healthcheck.rs`, `shared_memory.rs` | status and mutex in shared memory | set by the traffic task, read by a second process | the container runtime |

What makes it hard:

* The channel between event loop, stop task and traffic task is a **watch**
  channel: it keeps its last value. A message nobody has read yet is replaced.
* `stopped_tasks` is read and written in two steps by two tasks, and compared
  for equality by a third.
* `Notify::notify_waiters` remembers nothing: a wait that starts just after is
  not woken.
* Publishers are cancelled, waited for, and aborted after a time limit, while the
  next one is started. A failing traffic task drops the handle, not the task.
* Four kinds of tasks put requests into one bounded queue, two of them detached:
  their order decides what Home Assistant believes in the end.
* Both streams stand still while one event is dealt with; containers do not. A
  read may span a scan, a scan may fail halfway, and a publication may too.
* A device is keyed by its identifier or by its container's name, depending on
  who found it, and announced a second and more before its commands are subscribed.
* Home Assistant's restart starts an `initialize()` of its own, beside the
  publisher and past the record of what was published.
* Two readers share handlers that keep state, and hold locks while they wait for
  the engine; commands come in between.
* A health check maps the memory of a program that may be starting, ending or dead.

What each part must get right:

* *Tokens*: cancelling reaches every token; nothing is refused without a cancel;
  a loop that waits on its token stops.
* *Tasks*: never two publishers, none after the stop; health and publishing
  follow the connection; a stop request ends the process.
* *Availability*: a new connection and a restart of Home Assistant make the
  devices known, available and commandable; a clean end leaves them unavailable.
* *Engine*: Home Assistant knows the devices that exist and no others, and shows
  their last state, since what is recorded as published is not sent again.
* *Devices*: the engine is not overloaded; a press is neither lost nor starved;
  usage is a share; a command acts on the container it was announced for.
* *Health*: the memory says what the program said last; a check ends.

## Modules

| Module | What it is | About the code |
|---|---|---|
| `CancellationLatch` | what a caller may rely on: every token a latch, a wait refused only if its latch is closed | `CancellationToken` as documented by its use |
| `CancellationToken` | the source step by step: the loop over flags, the notification, the load, the select | `cancellation_token.rs` |
| `PublisherSupervisor` | what the traffic task promises: a status in force before the next is taken, health told first, one publisher while connected, none when it closes | `device_manager.rs` 594-669, 714-806 |
| `DeviceManager` | event loop, traffic task, publishers, stop task | `device_manager.rs` 147-228, 378-669, 741-832; `main.rs` 91-167 |
| `Availability` | requests of `initialize()`, publisher and stop around the queue, and what Home Assistant makes of them | `device_manager.rs` 285-343, 478-614, 741-887 |
| `UpdateEngine` | streams, registry, scan and the handling of their events | `update_engine.rs` 38-303, `devices.rs`, `container_device.rs` 252-433, `device_manager.rs` 478-527, 836-890 |
| `DeviceData` | reading one device and pressing its logs button | `devices/device.rs`, `devices/devices.rs` 140-192, `devices/mod.rs` 90-153, `container_device.rs` 437-608 |
| `ContainerStats` | usage from two samples, and the buttons that make sense | `container_device.rs` 610-777 |
| `Entities` | what the devices are made of: details, topics, handlers | `devices/*.rs`, `container_device.rs` 80-355, `sample_device.rs` |
| `Commands` (extends `Entities`) | commands from their announcement and subscription to what they do, over a registry that changes | `devices.rs`, `device.rs`, `container_device.rs`, `sample_device.rs`, `device_manager.rs` 230-337, 474-500, 847-890 |
| `HealthCheck` | the memory shared by two processes | `shared_memory.rs`, `healthcheck.rs`, `main.rs` 38-60 |
| `...Proofs` | theorems of the eight modules they are named after | |
| `MC...` | constants and instances for TLC | |

**CancellationToken.** `tokens`, `source_cancelled` and `is_cancelled` are the
fields of the source and its tokens; `cancelling` is the write lock `cancel()`
holds, which is why `create_token` waits for it. `phase[w]` is the place of one
call of `wait_on`: `checked` after its load at line 143, `waiting` once its
`Notified` future exists (line 152). `NotifyWaiters` reaches the waits in phase
`waiting` only. A second `cancel()` finds the flag set and changes nothing, so it
is no action.

**DeviceManager.** Each task has a program counter (`el`, `mt`, `st`,
`publisher`), and a step runs to the next await or the next access to shared
state that another task can precede. `chan`/`unread` are the watch channel.
`stopped_tasks` is loaded (`elSeen`, `mtSeen`) and stored in two actions. The
tokens of the two long-lived sources come from `new_with_a_token()`, whose flag
`cancel()` never sets, so only the notification of a parked wait (`elNotified`,
`mtNotified`) is modelled, as the module on tokens shows. A `?` that ends the
traffic task is `TrafficFails`. `Env` says what the surroundings may do: bring
publishes, drop the link, refuse it, signal, take too long, or make a step fail.
`PublisherSupervisor` is refined by it with `Told`, `Phase` and `Serving`: of
the program counter and the message only what was asked and whether the task
still works, of the publishers only those that go on.

**Availability.** The requests of all tasks go through `queue`, which the event
loop empties while connected (`Deliver`) and may lose with the session (`Drop`).
`at[i]` is the place of one `initialize()`: the traffic task's own, or that of a
task Home Assistant's `online` started. `pending` counts the tasks `initialize()`
leaves behind, which publish `online` when their delay is over: nothing cancels
them. `status` is the one unread message of the watch channel, which statuses of
the connection, Home Assistant's `online` and `offline`, commands and the stop
share: each replaces the one before. A command may have an update published, or
end the traffic task (`TakeCommand`). `ha` and `subscribed` are what Home
Assistant and the broker have been told. `told` is bookkeeping of the property on
stops, not state of the program. How publishers are cancelled and stopped in detail is `DeviceManager`'s.

**UpdateEngine.** `registry` maps keys to devices, named by their containers,
and `Slug` gives a name's identifier: first discovery keys a device by
`Slug[n]`, scans key it by `n` and look names up, as the code does. `scan` and
`read` are the two streams' places between awaits, `handling` the event the
publisher deals with: while it does, neither stream moves (`Polled`), but
containers do (`ContainerChanges`). `last_messages` is the record `filter_data`
compares with; `discovered` and `shown` are what Home Assistant has been told,
which takes a state only for a device it knows. `GetThrough` lets a publication
fail after any part of its messages. `HaRestarts` makes Home Assistant forget all
of it and starts the detached `initialize()` of `device_manager.rs:309-313`, whose
four steps (`InitializeStep`) go on beside the publisher and the scan and whatever
becomes of the connection. They announce a copy of the registry and publish what
was read, neither of them recorded; `restarted` says that one of them has been at
work beside this publisher, which is what the promises on the record except.

**DeviceData.** A device is a sequence of handlers of three kinds. `at[r]` and
`step[r]` are the place of one read: plain handlers ask the engine, debounced
ones read the clock, then take the lock of the time of the last read, then hold
it while they ask; the logs' handler loads its flag, clears it, then asks. The
first failure, or a cancelled read, drops everything (`Abandon`). Commands take
the device's lock for writing, which serves in turn: no new read starts while
one waits. `asked` and `owed` record when the engine was asked and that a press
is unanswered; no action reads them.

**ContainerStats.** Two readers inspect the container, ask for its statistics,
replace the shared last sample under its lock, and inspect again for the status.
The state has the engine's own values: usage is read of a container that is
running (line 745), buttons count one that is paused or restarting as running too
(641-643), and an answer without a state leaves them as they were (633-638).
`total` is reset when the container starts anew; a sample of a stopped container
lacks the counters, which is an error of the comparison. A usage is kept as the
pair of differences, not as the formatted quotient.

**Entities, Commands.** A slug is a sequence of words, since topics and ids are
made by joining words with an underscore, and that is where names meet. What an
entity is announced with (`states`, `commands`, `availability`), what is
subscribed (`command_topics` of its details), and what handlers take and give
come from three places in the code, as in the modules. `devices` maps keys to
devices: the first discovery keys them by identifier, and of several with the same
one keeps one; a scan adds a container under its name if that is no key, so that
one whose name is not its identifier is registered twice. `told` and `subscribed`
are apart, as their steps are: `initialize()` publishes the discovery, of which an
error is only logged, and then subscribes, of which an error ends the traffic task;
for new devices the publisher announces them, sleeps, and subscribes, and goes on
with the next event after an error of either. A command is passed from device to
device in any order, as the registry's map has none, from a copy of the registry;
`Tell` is a request to the engine, which refuses it for a container that is not
there, and does not remove one that was started again. Such an error ends the
traffic task (`Fails`, lines 321 and 642). The sample's switch is modelled with
the record of the stream that publishes it, which a command's own update passes by.

**HealthCheck.** `flink` is the file, `shm[a]` what an actor has mapped. The
mutex is made in place by whoever created the memory, on *every* access
(`CreateMutex`), and others wait for `is_init`. `Kill` ends a process without
its destructors: file, mutex and status stay. `said` is what the program last
said, no action reads it.

## Runs

| Run | Checks | Shows |
|---|---|---|
| `CancellationSource` | `CancelSetsAll`, `ImplementsLatch`, `CancelStopsLoopingCallers` | three tokens, two waits, made by `new()`: the source implements the latch; a lost notification costs a looping caller one turn |
| `ManagerSafety` | `AtMostOnePublisher`, `ManagerMatchesPublisher`, `LastStatusIsApplied`, `ChannelFollowsConnection`, `QuietOnceStopped`, `ImplementsSupervisor` | all interleavings, everything the surroundings may do; the tasks implement the supervisor |
| `ManagerLiveness` | `ConnectionReachesPublisher`, `DisconnectionReachesPublisher`, `StopEndsProcess` | drops, slow publishers and a signal, no publish coming in |
| `ManagerLostStop` | `StopReachesDisconnect` | **violated**: a publish that comes in replaces the stop message |
| `AvailabilityStates` | `TypeOK`, `StopEndsOffline`, `BirthIsAnswered`, `NewConnectionMakesReady`, `StopEndsConnection` | connections that break, restarts of Home Assistant, stops, slow requests, new devices and commands that come in |
| `EngineScan` | `TypeOK`, `NothingLeftBehind`, `NothingUnannounced`, `NewContainersAnnounced`, `RemovedContainersForgotten` | containers come and go, reads fail, Home Assistant restarts; the registry and Home Assistant agree but for events on their way |
| `EngineStates` | `RecordedIsShown`, `ValueReachesHomeAssistant` | states change, containers go, lists fail, connections are lost, Home Assistant restarts; until then what is recorded is shown |
| `EngineZombie` | `MissingDevicesRemoved` | **violated**: with a prefix, devices of the first discovery are never removed |
| `DeviceRead` | `PressIsKept`, `OverloadBounded`, `PressIsAnswered`, `ReadReturns` | two readers, presses, failing and cancelled reads |
| `StatsRead` | `UsageInBounds`, `StatsRecover`, `ReadsFollowContainer` | a container that is started, paused, restarted and stopped while two readers share a sample |
| `CommandDispatch` | `DiscoveryIsSound`, `PressIsHeard`, `CommandActsOnItsContainer`, `SwitchIsShown`, `CommandEnds` | every subscribed topic from the first discovery on, while containers and the registry change, requests to the engine fail, or publications and subscriptions do |
| `HealthShared` | `OwnerHoldsLink`, `SharedIsSaid`, `ExclusiveAccess`, `CheckEnds` | the program, its traffic task and a check, any of which may be killed |

The violated runs check one statement of a comment or a doc each; `PROJECT.json`
quotes it under `findings`. Every property of a passing run has a mutant, a
definition named `X_D` or `D_what` before the definition `D` it replaces, with
which the same run finds the property violated. The type invariants and the
inductive invariants that are proved for every value of the constants
(`CancellationInv`, `ManagerInv`, `InForceInv`, `StatsInv`, `HealthInv`, `StopInv`,
`OverloadInv`, `CommandsInv`) were checked with TLC before they were proved and
are not repeated in the runs;
`RefusedOnlyAfterCancel` follows from `ImplementsLatch`.

### Bounds

* *Tokens*: three tokens and two waits let one token be issued before, one during
  and one after `cancel()`, with waits on the same or on different tokens.
* *Publishers*: two, one that is aborted and slow to die and its successor. With
  a second aborted one still alive the manager would wait for a free name in the
  instance; the theorems have any number.
* *Availability*: a queue of two (`QueueSize`), so that it is often full; one
  detached initialization beside the traffic task's; at most two tasks that wait
  to say `online` (`MaxPending`). The surroundings come in five sets, each with
  its own hazards (`MCEverything`), since all at once are many times the states.
* *Engine*: two containers, one that changes while the other stays. Every initial
  set of containers is tried. One value suffices where only existence matters,
  two where a state changes. Slugs are either the names (no prefix) or never a
  name (a prefix). One detached `initialize()` at a time: Home Assistant does not
  restart again before the last one has ended. The surroundings come in sets here
  too: containers that come and go while reads fail, or come, or go, while Home
  Assistant restarts (`MCContainers`); states that change while connections,
  containers and lists are lost, or while connections are lost and Home Assistant
  restarts (`MCReconnections`).
* *Devices*: the two shapes of devices the provider makes, cut down to handlers
  that differ; a duration of 1 in a clock of 0 to 4 (`MaxTime`) has reads before,
  at and after the limit, and room for a third request. Processor times up to 3
  (`MaxSystem`) have three samples in any order. Answers without a state come with
  requests that fail, or neither.
* *Commands*: two containers, in any state at the first discovery, and the host's
  device, or the sample's two. Their names have a word in common; the name `web` is
  its identifier, that of `web-db` is not (`web_db`), so the first discovery and a
  scan agree on the one and register the other twice. Containers change, requests
  to the engine fail, or the broker's do (`MCEnvs`). One connection, on which the
  traffic task takes commands until an error ends it.
* *Health*: one check beside the two handles of the program; a third segment lets
  each of three actors have one that nobody else has.

`CHECK_DEADLOCK FALSE` stands in the configurations of `DeviceManager` and
`Availability`, since the process really ends, and of `Commands`, where nothing is
left to do once an error has ended the traffic task of the sample's devices and
their switch has been shown. In the others a deadlock is an error.

### Fairness

* *Tokens*: the runtime goes on with a `cancel()` in progress and with a wait
  that has been notified. Futures need not complete, except in `LoopSpec`, whose
  callers wait for sleeps and bounded requests.
* *Tasks*: tokio runs what can run; sleeps, time limits and connection attempts
  end; `rumqttc` sends a queued request in the end, however many packets come in
  meanwhile (strong fairness of `OutgoingDisconnect`). Signals, drops and
  publishes need never happen.
* *Availability*: the event loop sends what is queued. A sender finds the queue
  full again and again, but the channel serves its senders in turn, so the tasks
  are strongly fair.
* *Engine*: requests and timers end. `select_all` polls both streams whenever it
  is polled, but the publisher stops polling while it deals with an event, so a
  stream's steps are disabled again and again: they are strongly fair. A detached
  `initialize()` waits for sleeps, reads and room in the queue only (weakly fair).
* *Devices*: both readers come back again and again, locks of tokio are handed on
  in turn (strong fairness of `Read`), and the engine answers. Ticks, presses and
  failures need never happen.
* *Commands*: the traffic task goes on with a command it has taken, and the stream
  of the switch goes on; nothing is promised of scans, and containers need not change.
* *Health*: the system runs every process, and a mutex that is free again and
  again is got (strong fairness of `Proceed`); a killed process does nothing.

## Proofs

All theorems hold for any values of the constants that satisfy the modules'
assumptions: `TokenAssumption` (a preissued token is a token, and no token is the
absent one), `ManagerAssumption` (no publisher is the absent one; `Env` names
known events), `EngineAssumption` (identifiers are topics, the absent value is no
value), `DeviceAssumption`, `StatsAssumption`, `HealthAssumption` and
`AvailabilityAssumption` (sizes are numbers, handlers are of the three kinds,
actors are told apart), `EntitiesAssumption` and `CommandsAssumption` (slugs are
sequences of words, containers and fixed devices are told apart). Some theorems
need more and say so in their `ASSUME`: those on `UpdateEngine`, `SoundDiscovery`,
`RequestsAreApart` and `SourceImplementsLatch`.

*Tokens.* `TypeCorrect`, then `CancellationSafe`, the inductive invariant
`CancellationInv`. `CancelSetsAll` is a statement on one step, the return of
`cancel()`, and needs to know of the loop's earlier turns: every listed token it
has passed is cancelled (`PassedTokensAreCancelled`), which `create_token` could
break were it not for the lock. `ImplementsLatch` needs
`NotifiedMeansCancelled`: a wait with a notification waits on a cancelled
token. It holds as the source lists every token it issued, hence the assumption
`Preissued = {}` of `SourceImplementsLatch`. From these follow `CancelIsComplete`,
`RefusalsAreCancellations` and `SourceImplementsLatch`.

*Tasks.* `ManagerInv` has four parts with a lemma each. `PublisherInv` says who
may be publishing by where the traffic task stands; `AtMostOnePublisher` alone is
not inductive, since a new publisher is safe only because the last one was
joined or aborted before `initializing`. `StoppedInv` says that a bit of
`stopped_tasks`, and any copy a task has loaded, is there only once stored, and
a `Disconnect` only once a stop was dealt with. `ChannelInv` ties a status
that is being sent to the connection flag, `StatusInv` the message being handled
to the channel while nothing newer is unread. The five safety properties of
`ManagerSafety` follow from it: `OnePublisher`, `ManagerAgrees`,
`StatusApplied`, `ChannelFollows`, `QuietStop`.

`TasksImplementSupervisor` says that the tasks implement `PublisherSupervisor`:
each step that takes a message, tells health, retires, gives up or starts a
publisher, or asks for the disconnection is the step of the supervisor, and all
others stutter. `ManagerInv` says who may publish at most; the supervisor also
promises that its publisher goes on as long as it is connected, and that a status
is in force before the next is taken. That is `InForceInv`, theorem `InForce`: a
publisher is cancelled only to be joined, and only for a status that ends it.

*Availability.* `CleanEnd` is about the last word on availability, of which
`StopEndsOffline` says something only when the connection has ended. `StopInv`
follows the stop's `offline` from the moment it is queued: whatever says otherwise,
Home Assistant or an `online` in the queue, has an `offline` behind it
(`OfflineFollows`), the disconnect comes last (`DisconnectIsLast`), and neither
publisher nor traffic task speaks any more (`StopSequence`). What a detached task
says after it takes `told` back, so the theorem excepts exactly that. The queue
may have any size, and connections may break and lose it.

*Engine.* `TypeCorrect` is about every behaviour. The three others are about
names that are their own identifiers (`PlainSlugs`; finding 5 is what happens
otherwise), and each says of which behaviours (`env`), out of all that `Envs` may
bring: in all three publications do not fail, and Home Assistant may restart at any
time. `WithdrawalsArrive` and `RecordIsTrue` hold until it does (finding 14);
`AnnouncementsArrive` holds again as soon as the detached task has published its
discovery, for which `Announced` sets what that is about to announce against what
the scan adds and removes meanwhile. `WithdrawalsArrive` and `AnnouncementsArrive`
are about connections that last (`Lasting`):
`ScanInv` says that what a scan has added or removed is remembered until its
event has been dealt with, and that no scan begins before (`EventsPending`), so
that a removed device is never registered again while its withdrawal is on the
way. `AnnouncementsArrive` also needs lists that do not fail: a scan whose second
list fails forgets what its first half added. `RecordIsTrue` allows lost
connections and failing lists but no new containers: `NothingAppears` says that
then scans find nothing they do not know, so devices become known with an empty
record only, and `RecordInv` says where a payload is between the moment it is
recorded and the moment it is shown.

*Devices.* `PressKept` rests on `InHandler`: a reader between two steps of a
handler is in a handler of that kind, so the flag is cleared only by a reader
that then brings the logs or fails. `RequestsAreApart` proves `OverloadBounded`
for two readers (`TwoReaders`). A reader that waited for the lock decides with an
old time: either nothing was asked since that time was read, or the handler wrote
down a later one, and the old one is not due (`OldIsNotDue`). That is inductive
only because the lock is held by a reader that asks (`HolderIsAsking`), so that
the other alone can wait (`OneWaits`), and because no time is ahead of the clock
(`TimesInOrder`); together they are `OverloadInv`. `UsageIsShare` rests on
`StatsInv`: samples may be compared in any order, but of any two in use the later one has at most as
much more of the container's time as of the host's, also across a restart, and
`saturating_sub` cuts off the rest.

*Health.* `HealthInv` says that memory is given out without a mutex, that
ownership, default and file go together, and that a mutex the program's memory
has in use was made by the program, once. `OwnerLink`, `StatusIsSaid` and
`Exclusive` follow.

*Commands.* `NamesThatClash` settles for any set of names when two containers
share a topic or an id: if their slugs are the same, or one is the other's
followed by `get`. It goes through all pairs of entities of two containers and
needs no more of sequences than that joined paths are the same only if their ends
and their beginnings are. `SoundDiscovery` assumes that no two names clash this
way and that none is named as the host's device is (`SlugsApart`), which the code
does not see to: finding 11 is what happens otherwise. It starts with what the
first discovery may have left in the registry and goes on over every scan: a
container's device is under its identifier or its name and no other key (`Keyed`),
and the sample is never registered beside containers (`Together`).

`Heard` is about the time between a discovery and its subscription, in which
containers, registry and commands go on. `Listening` says, of every device that
Home Assistant was told of, that its topics are subscribed, that `initialize()` is
about to subscribe, or that the publisher is between the two steps of
`DevicesCreated` and will find the device in the registry, as no scan goes on
meanwhile (`Phases` orders `initialize()` and publisher). It is about behaviours
without failing requests to the broker (finding 16). `Followed` says that devices
which have passed a command on have no handler for it, and that a container about
to be removed has one; with `TypeOK` these are `CommandsInv`, from which
`OwnContainer` follows for any names, though devices are removed, and others
registered, while the command is passed on.

*Model-checked only.* The properties that need fairness: the prover has no
liveness and no `ENABLED`. Every invariant and every safety property of a step
that a passing run checks is proved.

## Findings

The two violated runs are 2 and 5. The others are stated as properties in their
modules and kept out of the runs; added to the configuration named here, TLC
finds each violated.

1. `new_with_a_token()` gives its source an empty list (`cancellation_token.rs:51`):
   `CancelReachesPreissued` (`CancellationSource` with `Preissued <- MCPreissued`).
2. `Stopping` may be lost in the watch channel (`device_manager.rs:197`): the
   process goes on until the container runtime kills it.
3. `force_stop()` cancels a source whose token the event loop never waits on
   (`main.rs:159`): `ForceStopEndsProcess` (`ManagerLiveness` with `Env <- MCSlowStop`).
4. `Connected(true)` may be lost too (`device_manager.rs:414`): a connected
   container stays unhealthy and silent: `ConnectedIsHealthy` (`ManagerLiveness`
   with `Env <- MCCommands`).
5. With a prefix (or a name that `slugify` changes) a device of the first
   discovery is keyed by what scans do not look for: it is added a second time,
   and never removed (`devices.rs:24`, `:245`). `DiscoveryIsSound` says that such
   containers are the only devices registered twice.
6. A scan's new device can be read and published before it is announced
   (`container_device.rs:431`): `DataAfterDiscovery` (`EngineScan`).
7. A read in progress outlives the purge (`update_engine.rs:162`): a container
   recreated in the same state stays without a state: `RemovedIsPurged` (`EngineScan`).
8. The memory the program holds need not be the one the file names: when it opens
   what another process owns, that process takes the file with it
   (`shared_memory.rs`, against `main.rs:53`): `ProgramHoldsMemory` (`HealthShared`).
   New memory reads as healthy until the default is set, as zero is the first variant.
9. A connection that is lost and made again before the traffic task looks is told
   as `Connected(true)` twice, and the second is skipped, discovery and
   subscription with it (`device_manager.rs:742`): `EveryConnectionMakesReady`
   (`AvailabilityStates` with `Envs <- MCDrops`).
10. The delayed `online` of `initialize()` is cancelled by nothing: it may follow
    the `offline` of a stop (`device_manager.rs:503`). `StopEndsOffline` excepts it.
11. Names with the same slug (`a-b` and `a_b`), or `x` beside `x_get` (the id
    `x_get_logs` of the one's button and the other's sensor), share topics or ids
    (`container_device.rs:107`). `DiscoveryIsSound` holds for names that are none
    of these, and `NamesThatClash` proves that there are no others. A container
    with the slug of the host's name takes the topic of its discovery.
12. The sample's light and texts announce commands none of its handlers takes
    (`sample_device.rs:335`, `:407`). `PressIsHeard` excepts the sample.
13. A command that comes in may replace Home Assistant's unread `online` in the
    watch channel (`device_manager.rs:408`): the restart is not answered.
    `EveryBirthIsAnswered` (`AvailabilityStates` with `Envs <- MCCommands`);
    `BirthIsAnswered` excepts an `online` that is replaced before it is read.
14. The `initialize()` of a restart publishes what it has read past the stream's
    record (`device_manager.rs:309`): if the stream publishes a newer state in
    between, the older one is shown until the state changes again. It may
    also announce a device that is withdrawn meanwhile, which then stays.
    `EveryValueReachesHomeAssistant` (`EngineStates`) and
    `EveryRemovalReachesHomeAssistant` (`EngineScan`); the properties of the runs
    except a publisher beside which such a task has worked.
15. A command for a container that is gone is an error of the engine, which ends
    the traffic task: no later command, status or stop is dealt with
    (`device_manager.rs:321`, `:642`). `CommandsKeepComing` (`CommandDispatch`);
    `CommandEnds` says that nothing else ends it.
16. After an error of a new device's discovery or subscription the publisher goes
    on with the next event (`device_manager.rs:877`, `:882`): the device stays
    announced and its commands unheard until the next connection.
    `PressIsHeard` excepts requests to the broker that fail.

Two facts behind weakened properties: once a stop is under way and the
traffic task has ended, a connection that breaks is retried, and health stays as
it was; hence `st = "idle"` in the two connection properties, and the
connection that lasts in `StopEndsProcess`. And when both tasks report before
`stop()` looks, it waits for ever, though by then the event loop has ended and
the process with it.

## Not modelled

* Arguments, logging, macros and the helper functions: no state that changes
  while the program runs. The slug is a constant of `UpdateEngine` and of `Entities`.
* Icons, units, wording and the characters of logs (`truncate(255)` in the middle
  of a character, `container_device.rs:467`): no property tells them apart.
* A second connection and Home Assistant's restart in `Commands`: what they do to
  announcements and subscriptions is in `Availability` and `UpdateEngine`. The
  switch of the sample is therefore shown by the stream and by commands only, not
  by a detached `initialize()`.
* Several detached `initialize()` at once in `UpdateEngine`, and one device read
  earlier than another in the same `initialize()`.
* Several device providers, attributes topics and the host's own device in
  `UpdateEngine`: the loops over providers and topics repeat what is modelled for one.
* Failing publications in `UpdateEngine`: `GetThrough` has them, no instance does.
  What is recorded and not published is not sent again until it changes, so `RecordedIsShown` does
  not hold with them, and nothing in the repository promises it.
* A list that fails after the first half of a scan has added a device
  (`ListFails`): it is announced on the next connection only. `EngineStates` has
  it; `EngineScan`, where that would refute `NothingUnannounced`, does not.
* A publisher aborted in the middle of a withdrawal takes the event with it:
  `Disconnect` has it, and `RemovedContainersForgotten` is checked without.
* The values of the sample's light, number and texts; its random data.
* The choice between program and health check, and the reading of the configuration.

## Plan

1. Invariants under the liveness properties: what a waiting task waits for is
   there or on its way (a lock's holder, a queue's reader, a token's notification),
   so that fairness alone remains to be checked.
2. `AnnouncementsArrive` with lists that fail, for devices found after the failure.
3. The composition of `DeviceManager` and `UpdateEngine`, where an abort takes an
   event with it.
4. `StartUp`: the token created after the stop task was spawned, over `CancellationToken`.

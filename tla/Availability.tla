------------------------------ MODULE Availability ------------------------------
(* What Home Assistant is told around a connection (device_manager.rs):     *)
(* initialize() announces the devices, subscribes, publishes their state     *)
(* and leaves a task behind that makes them available; it runs in the        *)
(* traffic task on a new connection, and in tasks of its own when Home       *)
(* Assistant says that it is online.  A stop makes the devices unavailable   *)
(* and disconnects.  All requests pass one bounded queue which the event     *)
(* loop empties while connected.  Statuses and messages that come in share a  *)
(* watch channel, which keeps the last of them only.                         *)
EXTENDS Naturals, Sequences

CONSTANTS
    QueueSize,      \* requests the client's channel holds (10 in the code)
    Detached,       \* tasks of initialize() that Home Assistant's status starts
    MaxPending,     \* bound on the tasks that wait to make devices available
    Traffic,        \* initialize() as the traffic task calls it
    Envs,           \* the surroundings to consider, each a set of events
    None

Initializers == Detached \cup {Traffic}

\* drop: the connection breaks; ha: Home Assistant restarts; stop: a signal;
\* slow: a request waits for room in the queue longer than its time limit;
\* create: the publisher finds new devices; command: Home Assistant sends
\* commands.
Events == {"drop", "ha", "stop", "slow", "create", "command"}

ASSUME AvailabilityAssumption ==
    /\ QueueSize \in Nat \ {0}
    /\ MaxPending \in Nat
    /\ Traffic \notin Detached
    /\ Envs \subseteq SUBSET Events

VARIABLES
    env,        \* the surroundings of this behaviour
    link,       \* the connection, and the connected flag with it
    queue,      \* requests the broker has not got
    status,     \* the unread message of the watch channel, or None
    connected,  \* PublishManager's connected
    traffic,    \* where the traffic task is
    at,         \* at[i]: where initialization i is
    publisher,  \* the publisher's task
    pending,    \* tasks that will make the devices available
    ha,         \* Home Assistant: up, knows the devices, takes them as available
    subscribed, \* the broker sends us Home Assistant's status, all commands
    told        \* the stop's `offline` is the last word on availability

vars == <<env, link, queue, status, connected, traffic, at, publisher, pending, ha,
          subscribed, told>>

\* What the publisher says of new devices only is told apart.
Requests == {"discovery", "subscribe", "data", "online", "offline", "disconnect",
             "newDiscovery", "newSubscribe"}
Topics == {"status", "commands"}
Statuses == {"connected", "disconnected", "online", "offline", "command", "stopping"}

TypeOK ==
    /\ env \subseteq Events
    /\ link \in {"down", "up", "ended"}
    /\ queue \in Seq(Requests) /\ Len(queue) <= QueueSize
    /\ status \in Statuses \cup {None}
    /\ connected \in BOOLEAN
    /\ traffic \in {"wait", "joining", "initialize", "update", "stopping", "offline",
                    "disconnect", "ended", "failed"}
    /\ at \in [Initializers -> {"off", "delay", "discovery", "subscribe", "settle", "data"}]
    /\ publisher \in {"off", "idle", "discovery", "subscribe", "online"}
    /\ pending \in 0..MaxPending
    /\ ha \in [up : BOOLEAN, known : BOOLEAN, available : BOOLEAN]
    /\ subscribed \subseteq Topics
    /\ told \in BOOLEAN

Init ==
    /\ env \in Envs
    /\ link = "down"
    /\ queue = <<>>
    /\ status = None
    /\ connected = FALSE
    /\ traffic = "wait"
    /\ at = [i \in Initializers |-> "off"]
    /\ publisher = "off"
    /\ pending = 0
    /\ ha = [up |-> TRUE, known |-> FALSE, available |-> FALSE]
    /\ subscribed = {}
    /\ told = FALSE

tasks == <<connected, traffic, at, publisher, pending, told>>
outside == <<env, link, status, ha, subscribed>>

Running == link # "ended"

(***************************************************************************)
(* The event loop, the broker and Home Assistant                           *)
(***************************************************************************)

\* ConnAck: the event loop sets the flag and sends the status.
Connect ==
    /\ link = "down"
    /\ link' = "up"
    /\ status' = "connected"
    /\ UNCHANGED <<env, queue, ha, subscribed, tasks>>

\* The broker ends the session and publishes the last will.  The client keeps
\* the requests it has not sent, or loses them with the session.
Drop ==
    /\ "drop" \in env
    /\ link = "up"
    /\ link' = "down"
    /\ status' = "disconnected"
    /\ queue' \in {queue, <<>>}
    /\ ha' = [ha EXCEPT !.available = FALSE]
    /\ subscribed' = {}
    /\ UNCHANGED <<env, tasks>>

\* A message on a topic we are subscribed to takes the place of whatever is
\* unread in the channel.
Message(s) == IF link = "up" /\ "status" \in subscribed THEN s ELSE status

\* Home Assistant forgets what was not retained; its will says `offline`.
HaStops ==
    /\ "ha" \in env
    /\ Running
    /\ ha.up
    /\ ha' = [up |-> FALSE, known |-> FALSE, available |-> FALSE]
    /\ status' = Message("offline")
    /\ UNCHANGED <<env, link, queue, subscribed, tasks>>

\* It announces itself, to those who are connected and subscribed.
HaStarts ==
    /\ Running
    /\ ~ha.up
    /\ ha' = [ha EXCEPT !.up = TRUE]
    /\ status' = Message("online")
    /\ UNCHANGED <<env, link, queue, subscribed, tasks>>

Command ==
    /\ "command" \in env
    /\ link = "up" /\ subscribed # {}
    /\ status' = Message("command")
    /\ UNCHANGED <<env, link, queue, ha, subscribed, tasks>>

\* DeviceManager::stop()
StopRequest ==
    /\ "stop" \in env
    /\ Running
    /\ status' = "stopping"
    /\ env' = env \ {"stop"}
    /\ UNCHANGED <<link, queue, ha, subscribed, tasks>>

\* The event loop sends the first request: the broker or Home Assistant acts.
Deliver ==
    /\ link = "up"
    /\ queue # <<>>
    /\ queue' = Tail(queue)
    /\ link' = IF Head(queue) = "disconnect" THEN "ended" ELSE link
    /\ subscribed' = subscribed \cup CASE Head(queue) = "subscribe" -> Topics
                                       [] Head(queue) = "newSubscribe" -> {"status"}
                                       [] OTHER -> {}
    /\ ha' = [ha EXCEPT
                !.known = @ \/ (ha.up /\ Head(queue) = "discovery"),
                !.available = IF Head(queue) = "offline" THEN FALSE
                              ELSE @ \/ (ha.up /\ Head(queue) = "online")]
    /\ UNCHANGED <<env, status, tasks>>

(***************************************************************************)
(* Requests: publish_to_client and subscribe_to_client                     *)
(***************************************************************************)

\* Mutant: a channel that takes any number of requests.
X_Request(r) == queue' = Append(queue, r)

Request(r) ==
    /\ Len(queue) < QueueSize
    /\ queue' = Append(queue, r)

\* The time limit is over and there was no room.
RequestFails ==
    /\ "slow" \in env
    /\ Len(queue) = QueueSize
    /\ UNCHANGED queue

\* set_availability() and publish_sensor_data_for_all_devices() do nothing
\* without a connection.
RequestIfConnected(r) ==
    IF link = "up" THEN Request(r) ELSE UNCHANGED queue

(***************************************************************************)
(* initialize()                                                            *)
(***************************************************************************)

Goto(i, p) == at' = [at EXCEPT ![i] = p]

\* A discovery that fails is only logged.
InitDiscovery(i) ==
    /\ at[i] = "discovery"
    /\ Request("discovery") \/ RequestFails
    /\ Goto(i, "subscribe")
    /\ UNCHANGED <<outside, connected, traffic, publisher, pending, told>>

InitSubscribe(i) ==
    /\ at[i] = "subscribe"
    /\ Request("subscribe")
    /\ Goto(i, "settle")
    /\ UNCHANGED <<outside, connected, traffic, publisher, pending, told>>

\* A subscription that fails ends initialize(), and the traffic task with it.
InitSubscribeFails(i) ==
    /\ at[i] = "subscribe"
    /\ RequestFails
    /\ Goto(i, "off")
    /\ traffic' = IF i = Traffic THEN "failed" ELSE traffic
    /\ UNCHANGED <<outside, connected, publisher, pending, told>>

\* The delay before a detached initialization, or after a discovery.
InitSettled(i) ==
    /\ at[i] \in {"delay", "settle"}
    /\ Goto(i, IF at[i] = "delay" THEN "discovery" ELSE "data")
    /\ UNCHANGED <<outside, queue, connected, traffic, publisher, pending, told>>

\* The states are published, or not, and a task is left behind; the traffic
\* task starts the publisher.
InitData(i) ==
    /\ at[i] = "data"
    /\ RequestIfConnected("data") \/ RequestFails
    /\ pending < MaxPending
    /\ pending' = pending + 1
    /\ Goto(i, "off")
    /\ traffic' = IF i = Traffic THEN "wait" ELSE traffic
    /\ publisher' = IF i = Traffic THEN "idle" ELSE publisher
    /\ UNCHANGED <<outside, connected, told>>

\* The task it left: nothing but force_stop() cancels its wait.
MakeAvailable ==
    /\ pending > 0
    /\ RequestIfConnected("online") \/ RequestFails
    /\ pending' = pending - 1
    /\ told' = (told /\ queue' = queue)
    /\ UNCHANGED <<outside, connected, traffic, at, publisher>>

(***************************************************************************)
(* The traffic task                                                        *)
(***************************************************************************)

Take(s) ==
    /\ traffic = "wait"
    /\ status = s
    /\ status' = None
    /\ UNCHANGED <<env, link, queue, ha, subscribed, pending, told>>

\* Mutant: a new connection starts the publisher and nothing else.
X_TakeConnected ==
    /\ Take("connected")
    /\ connected' = TRUE
    /\ publisher' = "idle"
    /\ UNCHANGED <<traffic, at>>

\* A manager that is serving skips a second connection.
TakeConnected ==
    /\ Take("connected")
    /\ connected' = TRUE
    /\ IF connected /\ publisher # "off"
       THEN UNCHANGED <<traffic, at>>
       ELSE traffic' = "initialize" /\ Goto(Traffic, "discovery")
    /\ UNCHANGED publisher

TakeDisconnected ==
    /\ Take("disconnected")
    /\ connected' = FALSE
    /\ traffic' = IF publisher = "off" THEN "wait" ELSE "joining"
    /\ UNCHANGED <<at, publisher>>

\* Mutant: a stop with a publisher is dealt with as a lost connection.
X_TakeStopping ==
    /\ Take("stopping")
    /\ connected' = FALSE
    /\ traffic' = IF publisher = "off" THEN "offline" ELSE "joining"
    /\ UNCHANGED <<at, publisher>>

TakeStopping ==
    /\ Take("stopping")
    /\ connected' = FALSE
    /\ traffic' = IF publisher = "off" THEN "offline" ELSE "stopping"
    /\ UNCHANGED <<at, publisher>>

\* Mutant: Home Assistant's status is read and nothing done.
X_TakeOnline ==
    /\ Take("online")
    /\ UNCHANGED <<connected, traffic, at, publisher>>

\* deal_with_command() on Home Assistant's status.
TakeOnline ==
    /\ Take("online")
    /\ \E i \in Detached : at[i] = "off" /\ Goto(i, "delay")
    /\ UNCHANGED <<connected, traffic, publisher>>

TakeOffline ==
    /\ Take("offline")
    /\ UNCHANGED <<connected, traffic, at, publisher>>

\* deal_with_command() on a command: nothing to publish, a state update, or an
\* error, which ends the traffic task.
TakeCommand ==
    /\ Take("command")
    /\ traffic' \in {"wait", "update", "failed"}
    /\ UNCHANGED <<connected, at, publisher>>

\* An update that fails to be published is only logged.
PublishUpdate ==
    /\ traffic = "update"
    /\ Request("data") \/ RequestFails
    /\ traffic' = "wait"
    /\ UNCHANGED <<outside, connected, at, publisher, pending, told>>

\* Mutant: the publisher is not waited for.
X_Joined ==
    /\ traffic \in {"joining", "stopping"}
    /\ traffic' = IF traffic = "stopping" THEN "offline" ELSE "wait"
    /\ UNCHANGED <<outside, queue, connected, at, publisher, pending, told>>

\* The publisher has ended, or was aborted.
Joined ==
    /\ traffic \in {"joining", "stopping"}
    /\ publisher' = "off"
    /\ traffic' = IF traffic = "stopping" THEN "offline" ELSE "wait"
    /\ UNCHANGED <<outside, queue, connected, at, pending, told>>

MakeUnavailable ==
    /\ traffic = "offline"
    /\ RequestIfConnected("offline")
    /\ traffic' = "disconnect"
    /\ told' = (link = "up")
    /\ UNCHANGED <<outside, connected, at, publisher, pending>>

MakeUnavailableFails ==
    /\ traffic = "offline"
    /\ RequestFails
    /\ traffic' = "failed"
    /\ UNCHANGED <<outside, connected, at, publisher, pending, told>>

\* try_disconnect() does not wait: with a full queue it is an error, and the
\* traffic task ends without saying that it has stopped.
Disconnect ==
    /\ traffic = "disconnect"
    /\ IF link = "up" /\ Len(queue) < QueueSize
       THEN queue' = Append(queue, "disconnect")
       ELSE UNCHANGED queue
    /\ traffic' = IF link = "up" /\ Len(queue) = QueueSize THEN "failed" ELSE "ended"
    /\ UNCHANGED <<outside, connected, at, publisher, pending, told>>

(***************************************************************************)
(* The publisher: states, and devices that a scan has found                *)
(***************************************************************************)

PublishData ==
    /\ publisher = "idle"
    /\ Request("data")
    /\ UNCHANGED <<outside, tasks>>

DevicesCreated ==
    /\ "create" \in env
    /\ publisher = "idle"
    /\ publisher' = "discovery"
    /\ UNCHANGED <<outside, queue, connected, traffic, at, pending, told>>

PublisherRequests ==
    /\ \/ publisher = "discovery" /\ Request("newDiscovery") /\ publisher' = "subscribe"
       \/ publisher = "subscribe" /\ Request("newSubscribe") /\ publisher' = "online"
       \/ publisher = "online" /\ RequestIfConnected("online") /\ publisher' = "idle"
       \/ publisher # "off" /\ RequestFails /\ publisher' = "idle"
    /\ UNCHANGED <<outside, connected, traffic, at, pending, told>>

Initialize(i) ==
    \/ InitDiscovery(i)
    \/ InitSubscribe(i)
    \/ InitSubscribeFails(i)
    \/ InitSettled(i)
    \/ InitData(i)

TrafficTask ==
    \/ TakeConnected
    \/ TakeDisconnected
    \/ TakeStopping
    \/ TakeOnline
    \/ TakeOffline
    \/ TakeCommand
    \/ PublishUpdate
    \/ Joined
    \/ MakeUnavailable
    \/ MakeUnavailableFails
    \/ Disconnect

Publisher == PublishData \/ DevicesCreated \/ PublisherRequests

Next ==
    \/ Connect \/ Drop \/ HaStops \/ HaStarts \/ Command \/ StopRequest \/ Deliver
    \/ Running /\ (\/ \E i \in Initializers : Initialize(i)
                   \/ MakeAvailable
                   \/ TrafficTask
                   \/ Publisher)

\* The event loop sends what is queued; sleeps end; a sender that waits for
\* room gets it in turn (the channel serves its senders in order).
Fairness ==
    /\ WF_vars(Deliver)
    /\ \A i \in Initializers : SF_vars(Running /\ Initialize(i))
    /\ SF_vars(Running /\ MakeAvailable)
    /\ SF_vars(Running /\ TrafficTask)

Spec == Init /\ [][Next]_vars /\ Fairness

(***************************************************************************)
(* Properties                                                              *)
(***************************************************************************)

Ready == ha.known /\ ha.available /\ subscribed = Topics

Stopping ==
    \/ status = "stopping"
    \/ traffic \in {"stopping", "offline", "disconnect", "ended", "failed"}

Disturbed == link # "up" \/ ~ha.up \/ Stopping

\* A command has come in, perhaps in the place of a message nobody had read.
Replaced == status = "command"

\* Home Assistant's restart is answered, even while a connection is handled,
\* unless a command takes the place of its unread `online`: once that was read
\* (device_manager.rs:308), the initialization it starts gets through, whatever
\* other tasks queue and whichever commands come in meanwhile, and then Home
\* Assistant knows the devices, takes them as available, and commands come in.
BirthIsAnswered ==
    /\ status = "online" /\ "slow" \notin env ~> Ready \/ Disturbed \/ Replaced
    /\ (\E i \in Detached : at[i] = "delay") /\ "slow" \notin env ~> Ready \/ Disturbed

\* Whatever comes in, the restart is answered.
EveryBirthIsAnswered == status = "online" /\ "slow" \notin env ~> Ready \/ Disturbed

\* A new connection makes the devices ready if the manager has heard of the
\* loss of the one before, and no command takes the place of its unread status;
\* once the initialization has begun nothing that comes in keeps it from that.
NewConnectionMakesReady ==
    /\ status = "connected" /\ ~connected /\ "slow" \notin env
            ~> Ready \/ Disturbed \/ Replaced
    /\ at[Traffic] = "discovery" /\ "slow" \notin env ~> Ready \/ Disturbed

\* "Initializing devices immediately after connection" (device_manager.rs:788).
EveryConnectionMakesReady == status = "connected" ~> Ready \/ Disturbed

\* A clean end leaves the devices unavailable, in whatever order the tasks that
\* were under way queued their requests, unless one of them made them available
\* again behind the stop.
StopEndsOffline == link = "ended" /\ told => ~ha.available

\* A stop that no message which comes in replaces in the channel ends the
\* connection or fails, and one that was read does so whatever comes in: it waits
\* for nothing that never comes.
StopEndsConnection ==
    /\ status = "stopping" /\ "slow" \notin env
            ~> link # "up" \/ ~ha.up \/ Replaced \/ traffic \in {"ended", "failed"}
    /\ traffic \in {"stopping", "offline"} /\ "slow" \notin env
            ~> link # "up" \/ traffic \in {"ended", "failed"}

================================================================================

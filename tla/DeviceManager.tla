------------------------------ MODULE DeviceManager ------------------------------
(***************************************************************************)
(* cmha/src/device_manager.rs with the stop handler of main.rs: the event  *)
(* loop (the main task), the message traffic task, the periodic publishers *)
(* its PublishManager starts and cancels, and the stop task. They share    *)
(* the connected flag, a watch channel that keeps its last value only, the *)
(* stopped_tasks bits, and two cancellation sources made by                *)
(* new_with_a_token(): their tokens' flags are never set, so cancel()      *)
(* reaches a task only where it is parked (module CancellationToken).      *)
(*                                                                         *)
(* One step runs a task from one await to the next, or to the next access  *)
(* of shared state another task can get in front of. A request to the      *)
(* broker (publish, subscribe) is its outcome: done, or refused, timed out *)
(* or failed. The broker and rumqttc's poll() are external.                *)
(***************************************************************************)
EXTENDS FiniteSets

CONSTANTS Publishers,   \* publisher tasks that may exist at once: bounds aborted ones
          NoPublisher,  \* the join handle or token source that is None
          Env           \* what the surroundings may do in this instance

\* "inbound": the broker delivers publishes; "drop": it disconnects or the link
\* breaks; "refused": it refuses the connection, or TLS fails; "signal": SIGINT
\* or SIGTERM; "shutdown_timeout", "join_timeout": a wait takes longer than
\* DURATION_UNTIL_SHUTDOWN; the others name the step that returns an error.
EnvEvents == {"inbound", "drop", "refused", "signal", "shutdown_timeout", "join_timeout",
              "health", "command", "subscribe", "unavailable", "disconnect"}

ASSUME ManagerAssumption ==
  /\ NoPublisher \notin Publishers
  /\ Env \subseteq EnvEvents

VARIABLES
  connected,     \* DeviceManager.connected: "None", "False" or "True"
  should_stop,   \* DeviceManager.should_stop
  stopped_tasks, \* DeviceManager.stopped_tasks, as the set of its bits
  chan, unread,  \* the watch channel: its value, and whether the traffic task
                 \* has seen that value
  link,          \* the connection under rumqttc's event loop
  disconnect_queued, \* try_disconnect() has put a Disconnect among the requests
  el, elMsg, elSeen, elNotified, \* deal_with_event_loop: program counter, message
                 \* to send, bits loaded, its parked wait has been notified
  mt, mtMsg, mtSeen, mtNotified, \* maintain_message_traffic, likewise
  pm_connected, join_handle, token_source, \* PublishManager's fields
  publisher,     \* publisher[p]: "free", "running" or "finished" (not yet joined)
  cancelled,     \* cancelled[p]: p's token is cancelled
  aborted,       \* aborted[p]: abort() was called on p's handle
  healthy,       \* the health flag in shared memory
  st             \* deal_with_stop_request and stop(): program counter

shared   == <<connected, should_stop, stopped_tasks, healthy>>
channel  == <<chan, unread>>
broker   == <<link, disconnect_queued>>
elVars   == <<el, elMsg, elSeen, elNotified>>
mtVars   == <<mt, mtMsg, mtSeen, mtNotified>>
pmVars   == <<pm_connected, join_handle, token_source>>
pubVars  == <<publisher, cancelled, aborted>>
vars     == <<shared, channel, broker, elVars, mtVars, pmVars, pubVars, st>>

LoopMessages == {"connected", "disconnected", "message"}
Messages   == {"connected", "disconnected", "message", "stopping"}
Tasks      == {"EventLoop", "MessageTraffic"}
Connection == {"None", "False", "True"}
Links      == {"down", "up", "closing"}
LoopSteps  == {"starting", "polling", "sleeping", "sending", "load", "store", "done", "exited"}
TrafficSteps ==
  {"starting", "waiting", "health", "status", "joining", "initializing", "command",
   "unavailable", "disconnect", "load", "store", "ended", "failed"}
StopSteps  == {"idle", "signalled", "flagged", "waiting", "cancelling",
               "done", "failed", "forced"}

TypeOK ==
  /\ connected \in Connection
  /\ should_stop \in BOOLEAN
  /\ stopped_tasks \in SUBSET Tasks
  /\ chan \in Messages /\ unread \in BOOLEAN
  /\ link \in Links /\ disconnect_queued \in BOOLEAN
  /\ el \in LoopSteps /\ elMsg \in LoopMessages
  /\ elSeen \in SUBSET Tasks /\ elNotified \in BOOLEAN
  /\ mt \in TrafficSteps /\ mtMsg \in Messages
  /\ mtSeen \in SUBSET Tasks /\ mtNotified \in BOOLEAN
  /\ pm_connected \in BOOLEAN
  /\ join_handle \in Publishers \cup {NoPublisher}
  /\ token_source \in Publishers \cup {NoPublisher}
  /\ publisher \in [Publishers -> {"free", "running", "finished"}]
  /\ cancelled \in [Publishers -> BOOLEAN]
  /\ aborted \in [Publishers -> BOOLEAN]
  /\ healthy \in BOOLEAN
  /\ st \in StopSteps

Init ==
  /\ connected = "None"
  /\ should_stop = FALSE
  /\ stopped_tasks = {}
  /\ chan = "disconnected" /\ unread = FALSE
  /\ link = "down" /\ disconnect_queued = FALSE
  /\ el = "starting" /\ elMsg = "disconnected" /\ elSeen = {} /\ elNotified = FALSE
  /\ mt = "starting" /\ mtMsg = "disconnected" /\ mtSeen = {} /\ mtNotified = FALSE
  /\ pm_connected = FALSE /\ join_handle = NoPublisher /\ token_source = NoPublisher
  /\ publisher = [p \in Publishers |-> "free"]
  /\ cancelled = [p \in Publishers |-> FALSE]
  /\ aborted = [p \in Publishers |-> FALSE]
  /\ healthy = FALSE
  /\ st = "idle"

\* When main returns, the runtime goes and every other task with it.
ProcessRuns == el # "exited"

\* The receiver of the channel lives as long as the traffic task.
TrafficAlive == mt \notin {"ended", "failed"}

\* Sender::send: refused without a receiver, else replaces the channel's value.
Send(m) ==
  IF TrafficAlive THEN chan' = m /\ unread' = TRUE ELSE UNCHANGED channel

--------------------------------------------------------------------------------
(* main() and deal_with_event_loop                                         *)

\* The devices are discovered; the traffic task is spawned and the loop entered.
StartUp ==
  /\ el = "starting"
  /\ el' = "polling"
  /\ mt' = "waiting"
  /\ UNCHANGED <<shared, channel, broker, elMsg, elSeen, elNotified, mtMsg, mtSeen,
                 mtNotified, pmVars, pubVars, st>>

\* The first discovery is cancelled by the stop handler: main returns its error.
StartUpCancelled ==
  /\ el = "starting"
  /\ st # "idle"
  /\ el' = "exited"
  /\ UNCHANGED <<shared, channel, broker, elMsg, elSeen, elNotified, mtVars, pmVars,
                 pubVars, st>>

\* select! takes poll()'s branch, even when the token's branch is ready too: the
\* wait on the token is dropped, with a notification it may have received.
Polled == el = "polling" /\ elNotified' = FALSE

\* Mutant: tells the channel but leaves the flag as it was.
got_disconnected_without_flag ==
  /\ connected' = connected
  /\ IF connected = "True"
     THEN el' = "sending" /\ elMsg' = "disconnected"
     ELSE el' = "sleeping" /\ UNCHANGED elMsg

\* Mutant: sets the flag and never tells the channel.
got_disconnected_silently ==
  /\ connected' = "False"
  /\ el' = "sleeping" /\ UNCHANGED elMsg

\* got_disconnected(): the channel hears of it only if the loop was connected.
got_disconnected ==
  /\ connected' = "False"
  /\ IF connected = "True"
     THEN el' = "sending" /\ elMsg' = "disconnected"
     ELSE el' = "sleeping" /\ UNCHANGED elMsg

\* ConnAck: set_connected(true), then send.
ConnAck ==
  /\ Polled
  /\ link = "down"
  /\ link' = "up"
  /\ connected' = "True"
  /\ el' = "sending" /\ elMsg' = "connected"
  /\ UNCHANGED <<should_stop, stopped_tasks, healthy, channel, disconnect_queued, elSeen,
                 mtVars, pmVars, pubVars, st>>

\* The connection attempt fails (Io and the other errors): retried after a wait.
ConnectFails ==
  /\ Polled
  /\ link = "down"
  /\ got_disconnected
  /\ UNCHANGED <<should_stop, stopped_tasks, healthy, channel, broker, elSeen,
                 mtVars, pmVars, pubVars, st>>

\* ConnectionRefused or Tls: the loop exits with an error.
ConnectionRefused ==
  /\ Polled
  /\ "refused" \in Env
  /\ link = "down"
  /\ el' = "load"
  /\ UNCHANGED <<shared, channel, broker, elMsg, elSeen, mtVars, pmVars, pubVars, st>>

IncomingPublish ==
  /\ Polled
  /\ "inbound" \in Env
  /\ link = "up"
  /\ el' = "sending" /\ elMsg' = "message"
  /\ UNCHANGED <<shared, channel, broker, elSeen, mtVars, pmVars, pubVars, st>>

\* A Disconnect packet of the broker, which closes the connection after it.
IncomingDisconnect ==
  /\ Polled
  /\ "drop" \in Env
  /\ link = "up"
  /\ link' = "closing"
  /\ got_disconnected
  /\ UNCHANGED <<should_stop, stopped_tasks, healthy, channel, disconnect_queued, elSeen,
                 mtVars, pmVars, pubVars, st>>

\* Io and other errors on an established link do not look at should_stop.
LinkError ==
  /\ Polled
  /\ "drop" \in Env
  /\ link = "up"
  /\ link' = "down"
  /\ got_disconnected
  /\ UNCHANGED <<should_stop, stopped_tasks, healthy, channel, disconnect_queued, elSeen,
                 mtVars, pmVars, pubVars, st>>

\* MqttState: an attempt to connect broken off, a link that breaks, and also how
\* a connection this side closed ends.
StateError ==
  /\ Polled
  /\ link = "up" => "drop" \in Env
  /\ link' = "down"
  /\ IF should_stop THEN el' = "load" /\ UNCHANGED <<connected, elMsg>> ELSE got_disconnected
  /\ UNCHANGED <<should_stop, stopped_tasks, healthy, channel, disconnect_queued, elSeen,
                 mtVars, pmVars, pubVars, st>>

\* poll() sends the Disconnect that try_disconnect() queued.
OutgoingDisconnect ==
  /\ Polled
  /\ disconnect_queued
  /\ link = "up"
  /\ link' = "closing"
  /\ disconnect_queued' = FALSE
  /\ UNCHANGED <<shared, channel, el, elMsg, elSeen, mtVars, pmVars, pubVars, st>>

\* Pings, acknowledgements and other outgoing events change nothing here.
OtherEvent ==
  /\ Polled
  /\ link = "up"
  /\ UNCHANGED <<shared, channel, broker, el, elMsg, elSeen, mtVars, pmVars, pubVars, st>>

\* The send that ends deal_with_event. A refused one makes the loop wait first.
SendEvent ==
  /\ el = "sending"
  /\ Send(elMsg)
  /\ el' = IF TrafficAlive /\ elMsg # "disconnected" THEN "polling" ELSE "sleeping"
  /\ elNotified' = FALSE
  /\ UNCHANGED <<shared, broker, elMsg, elSeen, mtVars, pmVars, pubVars, st>>

\* The publish_interval of the wait has passed.
WakeUp ==
  /\ el = "sleeping"
  /\ el' = "polling"
  /\ elNotified' = FALSE
  /\ UNCHANGED <<shared, channel, broker, elMsg, elSeen, mtVars, pmVars, pubVars, st>>

\* The event loop's token refuses the wait of either place: leave the loop.
LoopRefused ==
  /\ el \in {"polling", "sleeping"}
  /\ elNotified
  /\ el' = "load"
  /\ elNotified' = FALSE
  /\ UNCHANGED <<shared, channel, broker, elMsg, elSeen, mtVars, pmVars, pubVars, st>>

\* stopped_tasks.store(stopped_tasks.load() | EventLoop), in its two halves.
LoopLoadsStopped ==
  /\ el = "load"
  /\ el' = "store"
  /\ elSeen' = stopped_tasks
  /\ UNCHANGED <<shared, channel, broker, elMsg, elNotified, mtVars, pmVars, pubVars, st>>

LoopStoresStopped ==
  /\ el = "store"
  /\ el' = "done"
  /\ stopped_tasks' = elSeen \cup {"EventLoop"}
  /\ UNCHANGED <<connected, should_stop, healthy, channel, broker, elMsg, elSeen, elNotified,
                 mtVars, pmVars, pubVars, st>>

\* main returns.
Exit ==
  /\ el = "done"
  /\ el' = "exited"
  /\ UNCHANGED <<shared, channel, broker, elMsg, elSeen, elNotified, mtVars, pmVars,
                 pubVars, st>>

--------------------------------------------------------------------------------
(* maintain_message_traffic and its PublishManager                         *)

\* Going back to the head of the loop parks the task on a new wait.
TrafficGoes(step) == mt' = step /\ mtNotified' = FALSE

\* Mutant: a Stopping message skips the publisher and goes straight to offline.
TakeMessage_stops_without_status ==
  /\ ProcessRuns
  /\ mt = "waiting"
  /\ unread
  /\ unread' = FALSE
  /\ mtMsg' = chan
  /\ \/ chan \in {"connected", "disconnected"} /\ TrafficGoes("health")
     \/ chan = "message"  /\ TrafficGoes("command")
     \/ chan = "stopping" /\ TrafficGoes("unavailable")
  /\ UNCHANGED <<shared, chan, broker, elVars, mtSeen, pmVars, pubVars, st>>

\* Mutant: health is told of connections only.
TakeMessage_disconnected_without_health ==
  /\ ProcessRuns
  /\ mt = "waiting"
  /\ unread
  /\ unread' = FALSE
  /\ mtMsg' = chan
  /\ \/ chan = "connected" /\ TrafficGoes("health")
     \/ chan = "message" /\ TrafficGoes("command")
     \/ chan \in {"disconnected", "stopping"} /\ TrafficGoes("status")
  /\ UNCHANGED <<shared, chan, broker, elVars, mtSeen, pmVars, pubVars, st>>

\* rx.changed() is ready; borrow_and_update() reads the channel's current value.
TakeMessage ==
  /\ ProcessRuns
  /\ mt = "waiting"
  /\ unread
  /\ unread' = FALSE
  /\ mtMsg' = chan
  /\ \/ chan \in {"connected", "disconnected"} /\ TrafficGoes("health")
     \/ chan = "message"  /\ TrafficGoes("command")
     \/ chan = "stopping" /\ TrafficGoes("status")
  /\ UNCHANGED <<shared, chan, broker, elVars, mtSeen, pmVars, pubVars, st>>

\* The must-stop token refuses the wait: the task ends without its bit.
TrafficRefused ==
  /\ ProcessRuns
  /\ mt = "waiting"
  /\ mtNotified
  /\ TrafficGoes("failed")
  /\ UNCHANGED <<shared, channel, broker, elVars, mtMsg, mtSeen, pmVars, pubVars, st>>

\* Mutant: records health before looking at the message's value.
set_healthy_shared_always ==
  /\ ProcessRuns
  /\ mt = "health"
  /\ healthy' = TRUE
  /\ TrafficGoes("status")
  /\ UNCHANGED <<connected, should_stop, stopped_tasks, channel, broker, elVars, mtMsg, mtSeen,
                 pmVars, pubVars, st>>

set_healthy_shared ==
  /\ ProcessRuns
  /\ mt = "health"
  /\ healthy' = (mtMsg = "connected")
  /\ TrafficGoes("status")
  /\ UNCHANGED <<connected, should_stop, stopped_tasks, channel, broker, elVars, mtMsg, mtSeen,
                 pmVars, pubVars, st>>

\* The message's status: Stopping is handled as a disconnection.
StatusMessage == mtMsg = "connected"

\* Where the task goes once deal_with_connection_status_change... has returned.
AfterStatus == IF mtMsg = "stopping" THEN "unavailable" ELSE "waiting"

\* Lines 785-786, then the branch on the status.
StatusDealtWith ==
  /\ pm_connected' = StatusMessage
  /\ TrafficGoes(IF StatusMessage THEN "initializing" ELSE AfterStatus)

\* Nothing to do for a publisher already in the state the message asks for.
StatusUnchanged ==
  /\ ProcessRuns
  /\ mt = "status"
  /\ join_handle # NoPublisher
  /\ pm_connected = StatusMessage
  /\ TrafficGoes(AfterStatus)
  /\ UNCHANGED <<shared, channel, broker, elVars, mtMsg, mtSeen, pmVars, pubVars, st>>

\* Without a publisher there is none to cancel first.
StatusWithoutPublisher ==
  /\ ProcessRuns
  /\ mt = "status"
  /\ join_handle = NoPublisher
  /\ StatusDealtWith
  /\ UNCHANGED <<shared, channel, broker, elVars, mtMsg, mtSeen, join_handle, token_source,
                 pubVars, st>>

\* cancellation_token_source.take().cancel(): sets the publisher's flag. Should
\* the source be missing, a new one is cancelled, which reaches nobody.
CancelPublisher ==
  /\ ProcessRuns
  /\ mt = "status"
  /\ join_handle # NoPublisher
  /\ pm_connected # StatusMessage
  /\ cancelled' = [p \in Publishers |-> cancelled[p] \/ p = token_source]
  /\ token_source' = NoPublisher
  /\ TrafficGoes("joining")
  /\ UNCHANGED <<shared, channel, broker, elVars, mtMsg, mtSeen, pm_connected, join_handle,
                 publisher, aborted, st>>

\* The publisher has finished within the wait.
JoinFinished ==
  /\ ProcessRuns
  /\ mt = "joining"
  /\ publisher[join_handle] = "finished"
  /\ publisher' = [publisher EXCEPT ![join_handle] = "free"]
  /\ join_handle' = NoPublisher
  /\ StatusDealtWith
  /\ UNCHANGED <<shared, channel, broker, elVars, mtMsg, mtSeen, token_source, cancelled,
                 aborted, st>>

\* Mutant: gives up waiting without aborting the task.
JoinTimesOut_without_abort ==
  /\ ProcessRuns
  /\ "join_timeout" \in Env
  /\ mt = "joining"
  /\ publisher[join_handle] = "running"
  /\ aborted' = aborted
  /\ join_handle' = NoPublisher
  /\ StatusDealtWith
  /\ UNCHANGED <<shared, channel, broker, elVars, mtMsg, mtSeen, token_source, publisher,
                 cancelled, st>>

\* It has not: abort() marks it, to die at its next await.
JoinTimesOut ==
  /\ ProcessRuns
  /\ "join_timeout" \in Env
  /\ mt = "joining"
  /\ publisher[join_handle] = "running"
  /\ aborted' = [aborted EXCEPT ![join_handle] = TRUE]
  /\ join_handle' = NoPublisher
  /\ StatusDealtWith
  /\ UNCHANGED <<shared, channel, broker, elVars, mtMsg, mtSeen, token_source, publisher,
                 cancelled, st>>

\* Mutant: forgets to keep the publisher's token source.
InitializeAndSpawn_without_source(p) ==
  /\ ProcessRuns
  /\ mt = "initializing"
  /\ publisher[p] = "free"
  /\ publisher' = [publisher EXCEPT ![p] = "running"]
  /\ cancelled' = [cancelled EXCEPT ![p] = FALSE]
  /\ aborted' = [aborted EXCEPT ![p] = FALSE]
  /\ join_handle' = p
  /\ TrafficGoes(AfterStatus)
  /\ UNCHANGED <<shared, channel, broker, elVars, mtMsg, mtSeen, pm_connected, token_source, st>>

\* Mutant: the new publisher gets a token of the source already cancelled.
InitializeAndSpawn_on_old_source(p) ==
  /\ ProcessRuns
  /\ mt = "initializing"
  /\ publisher[p] = "free"
  /\ publisher' = [publisher EXCEPT ![p] = "running"]
  /\ aborted' = [aborted EXCEPT ![p] = FALSE]
  /\ join_handle' = p
  /\ token_source' = p
  /\ TrafficGoes(AfterStatus)
  /\ UNCHANGED <<shared, channel, broker, elVars, mtMsg, mtSeen, pm_connected, cancelled, st>>

\* initialize() returns Ok, also when its wait is refused, and a publisher starts.
InitializeAndSpawn(p) ==
  /\ ProcessRuns
  /\ mt = "initializing"
  /\ publisher[p] = "free"
  /\ publisher' = [publisher EXCEPT ![p] = "running"]
  /\ cancelled' = [cancelled EXCEPT ![p] = FALSE]
  /\ aborted' = [aborted EXCEPT ![p] = FALSE]
  /\ join_handle' = p
  /\ token_source' = p
  /\ TrafficGoes(AfterStatus)
  /\ UNCHANGED <<shared, channel, broker, elVars, mtMsg, mtSeen, pm_connected, st>>

\* deal_with_command: errors while publishing the new state are only logged.
DealWithCommand ==
  /\ ProcessRuns
  /\ mt = "command"
  /\ TrafficGoes("waiting")
  /\ UNCHANGED <<shared, channel, broker, elVars, mtMsg, mtSeen, pmVars, pubVars, st>>

\* make_unavailable(), or nothing when not connected.
MakeUnavailable ==
  /\ ProcessRuns
  /\ mt = "unavailable"
  /\ TrafficGoes("disconnect")
  /\ UNCHANGED <<shared, channel, broker, elVars, mtMsg, mtSeen, pmVars, pubVars, st>>

\* Mutant: ends without asking for the disconnection.
StopPublishing_without_disconnect ==
  /\ ProcessRuns
  /\ mt = "disconnect"
  /\ cancelled' = [p \in Publishers |-> cancelled[p] \/ p = token_source]
  /\ token_source' = NoPublisher
  /\ TrafficGoes("load")
  /\ UNCHANGED <<shared, channel, broker, elVars, mtMsg, mtSeen, pm_connected, join_handle,
                 publisher, aborted, st>>

\* PublishManager::stop, then disconnect().
StopPublishingAndDisconnect ==
  /\ ProcessRuns
  /\ mt = "disconnect"
  /\ cancelled' = [p \in Publishers |-> cancelled[p] \/ p = token_source]
  /\ token_source' = NoPublisher
  /\ disconnect_queued' = (disconnect_queued \/ connected = "True")
  /\ TrafficGoes("load")
  /\ UNCHANGED <<shared, channel, link, elVars, mtMsg, mtSeen, pm_connected, join_handle,
                 publisher, aborted, st>>

TrafficLoadsStopped ==
  /\ ProcessRuns
  /\ mt = "load"
  /\ mtSeen' = stopped_tasks
  /\ TrafficGoes("store")
  /\ UNCHANGED <<shared, channel, broker, elVars, mtMsg, pmVars, pubVars, st>>

TrafficStoresStopped ==
  /\ ProcessRuns
  /\ mt = "store"
  /\ stopped_tasks' = mtSeen \cup {"MessageTraffic"}
  /\ TrafficGoes("ended")
  /\ UNCHANGED <<connected, should_stop, healthy, channel, broker, elVars, mtMsg, mtSeen,
                 pmVars, pubVars, st>>

\* The steps whose ? ends the task: the PublishManager is dropped, which detaches
\* its publisher, and the task's bit is never set.
StepFails ==
  \/ mt = "health" /\ "health" \in Env
  \/ mt = "command" /\ "command" \in Env
  \/ mt = "initializing" /\ ("subscribe" \in Env \/ mtNotified)
  \/ mt = "unavailable" /\ (("unavailable" \in Env /\ connected = "True") \/ mtNotified)
  \/ mt = "disconnect" /\ "disconnect" \in Env /\ connected = "True"

TrafficFails ==
  /\ ProcessRuns
  /\ StepFails
  /\ TrafficGoes("failed")
  /\ UNCHANGED <<shared, channel, broker, elVars, mtMsg, mtSeen, pmVars, pubVars, st>>

--------------------------------------------------------------------------------
(* publish_sensor_data_in_a_loop, as the traffic task sees it              *)

\* A publisher sees its token cancelled at its next wait and returns.
PublisherReturns(p) ==
  /\ ProcessRuns
  /\ publisher[p] = "running"
  /\ cancelled[p]
  /\ publisher' = [publisher EXCEPT ![p] = IF aborted[p] THEN "free" ELSE "finished"]
  /\ UNCHANGED <<shared, channel, broker, elVars, mtVars, pmVars, cancelled, aborted, st>>

\* An aborted publisher is dropped at its next await; nobody joins it.
PublisherDropped(p) ==
  /\ ProcessRuns
  /\ publisher[p] = "running"
  /\ aborted[p]
  /\ publisher' = [publisher EXCEPT ![p] = "free"]
  /\ UNCHANGED <<shared, channel, broker, elVars, mtVars, pmVars, cancelled, aborted, st>>

--------------------------------------------------------------------------------
(* deal_with_stop_request, stop and force_stop                             *)

\* A signal arrives: the first discovery, if it still runs, is cancelled.
Signal ==
  /\ ProcessRuns
  /\ "signal" \in Env
  /\ st = "idle"
  /\ st' = "signalled"
  /\ UNCHANGED <<shared, channel, broker, elVars, mtVars, pmVars, pubVars>>

SetStopFlag ==
  /\ ProcessRuns
  /\ st = "signalled"
  /\ st' = "flagged"
  /\ should_stop' = TRUE
  /\ UNCHANGED <<connected, stopped_tasks, healthy, channel, broker, elVars, mtVars, pmVars,
                 pubVars>>

\* stop() returns the error of a channel without receiver: no timeout follows.
SendStopping ==
  /\ ProcessRuns
  /\ st = "flagged"
  /\ Send("stopping")
  /\ st' = IF TrafficAlive THEN "waiting" ELSE "failed"
  /\ UNCHANGED <<shared, broker, elVars, mtVars, pmVars, pubVars>>

\* stop()'s loop compares the bits for equality: one of the two, not both.
SeeStoppedTask ==
  /\ ProcessRuns
  /\ st = "waiting"
  /\ stopped_tasks \in {{"MessageTraffic"}, {"EventLoop"}}
  /\ st' = "cancelling"
  /\ UNCHANGED <<shared, channel, broker, elVars, mtVars, pmVars, pubVars>>

\* The second load, and the event loop's source cancelled unless it has stopped.
CancelEventLoop ==
  /\ ProcessRuns
  /\ st = "cancelling"
  /\ st' = "done"
  /\ elNotified' = IF stopped_tasks = {"EventLoop"} THEN elNotified
                   ELSE elNotified \/ el \in {"polling", "sleeping"}
  /\ UNCHANGED <<shared, channel, broker, el, elMsg, elSeen, mtVars, pmVars, pubVars>>

\* The five seconds of main.rs pass while stop() sleeps in its loop: force_stop()
\* notifies the traffic task's parked wait, if there is one.
ForceStop ==
  /\ ProcessRuns
  /\ "shutdown_timeout" \in Env
  /\ st = "waiting"
  /\ st' = "forced"
  /\ mtNotified' = (\/ mt \in {"waiting", "initializing"}
                    \/ mt = "unavailable" /\ connected = "True")
  /\ UNCHANGED <<shared, channel, broker, elVars, mt, mtMsg, mtSeen, pmVars, pubVars>>

--------------------------------------------------------------------------------
EventLoop ==
  \/ StartUp \/ StartUpCancelled
  \/ ConnAck \/ ConnectFails \/ ConnectionRefused
  \/ IncomingPublish \/ IncomingDisconnect \/ LinkError \/ StateError
  \/ OutgoingDisconnect \/ OtherEvent
  \/ SendEvent \/ WakeUp \/ LoopRefused
  \/ LoopLoadsStopped \/ LoopStoresStopped \/ Exit

MessageTraffic ==
  \/ TakeMessage \/ TrafficRefused
  \/ set_healthy_shared
  \/ StatusUnchanged \/ StatusWithoutPublisher \/ CancelPublisher
  \/ JoinFinished \/ JoinTimesOut
  \/ \E p \in Publishers : InitializeAndSpawn(p)
  \/ DealWithCommand
  \/ MakeUnavailable \/ StopPublishingAndDisconnect
  \/ TrafficLoadsStopped \/ TrafficStoresStopped
  \/ TrafficFails

PublisherTask(p) == PublisherReturns(p) \/ PublisherDropped(p)

StopTask ==
  \/ Signal \/ SetStopFlag \/ SendStopping
  \/ SeeStoppedTask \/ CancelEventLoop \/ ForceStop

Next ==
  \/ EventLoop
  \/ MessageTraffic
  \/ \E p \in Publishers : PublisherTask(p)
  \/ StopTask

Spec == Init /\ [][Next]_vars

\* tokio runs every task that can run; sleeps and timeouts end; a connection
\* attempt ends one way or the other; a connection being closed does close; poll()
\* takes a queued request in the end, however many packets come in meanwhile.
\* Nothing is assumed of what the broker and the signals may do.
Fairness ==
  /\ WF_vars(StartUp)
  /\ WF_vars(ConnAck \/ ConnectFails)
  /\ WF_vars(StateError /\ link = "closing")
  /\ SF_vars(OutgoingDisconnect)
  /\ WF_vars(SendEvent) /\ WF_vars(WakeUp) /\ WF_vars(LoopRefused)
  /\ WF_vars(LoopLoadsStopped) /\ WF_vars(LoopStoresStopped) /\ WF_vars(Exit)
  /\ WF_vars(MessageTraffic)
  /\ \A p \in Publishers : WF_vars(PublisherTask(p))
  /\ WF_vars(SetStopFlag) /\ WF_vars(SendStopping)
  /\ WF_vars(SeeStoppedTask) /\ WF_vars(CancelEventLoop)

FairSpec == Spec /\ Fairness

--------------------------------------------------------------------------------
(* Properties                                                              *)

\* A publisher that will go on publishing: nobody has aborted it.
Live(p) == publisher[p] = "running" /\ ~aborted[p]

\* However connections come and go, at most one publisher goes on publishing,
\* even when one does not finish within DURATION_UNTIL_SHUTDOWN, and even when
\* the traffic task fails and leaves its publisher behind.
AtMostOnePublisher ==
  \A p, q \in Publishers : Live(p) /\ Live(q) => p = q

\* Between two messages, the manager is connected exactly when it holds a handle
\* and the token source of that very publisher: the unreachable branches of
\* lines 744-752, 757 and 780 are unreachable.
ManagerMatchesPublisher ==
  mt = "waiting" =>
    /\ token_source = join_handle
    /\ pm_connected <=> join_handle # NoPublisher
    /\ \A p \in Publishers : Live(p) => p = join_handle /\ ~cancelled[p]

\* Once the traffic task has taken the last message and it was a status, that
\* status is the one health and publishing are in.
LastStatusIsApplied ==
  mt = "waiting" /\ ~unread /\ chan \in {"connected", "disconnected"} =>
    /\ healthy = (chan = "connected")
    /\ pm_connected = (chan = "connected")

\* The status in the channel is the connection's, but while the loop is sending.
ChannelFollowsConnection ==
  TrafficAlive /\ el # "sending" /\ chan \in {"connected", "disconnected"} =>
    (chan = "connected" <=> connected = "True")

\* Neither does a Disconnect go out nor does the traffic task report itself
\* stopped while a publisher goes on publishing; a task reported stopped has.
QuietOnceStopped ==
  /\ disconnect_queued \/ "MessageTraffic" \in stopped_tasks =>
       \A p \in Publishers : ~Live(p)
  /\ "MessageTraffic" \in stopped_tasks => mt = "ended"
  /\ "EventLoop" \in stopped_tasks => el \in {"done", "exited"}

\* With no publishes coming in and no failing step, a connection that lasts is
\* published on and reported healthy, as long as no stop is asked for.
ConnectionReachesPublisher ==
  <>[](connected = "True" /\ ProcessRuns /\ st = "idle") =>
    <>[](healthy /\ \E p \in Publishers : Live(p) /\ ~cancelled[p])

\* Likewise, one that is gone for good stops publishing and health, as long as
\* no stop is asked for: once the traffic task has ended for a stop, nobody
\* takes the event loop's messages.
DisconnectionReachesPublisher ==
  <>[](connected = "False" /\ ProcessRuns /\ st = "idle") =>
    <>[](~healthy /\ \A p \in Publishers : ~Live(p))

\* A stop request that follows the connection's own message ends the process,
\* whoever of the two tasks reports first, unless the connection is lost.
StopEndsProcess ==
  (chan = "stopping" /\ unread /\ connected = "True" /\ el # "sending")
    ~> (~ProcessRuns \/ connected = "False")

\* What device_manager.rs:198-200 says of stop(): once the stopping message is
\* sent, on an established connection, disconnect will be called.
StopReachesDisconnect ==
  (chan = "stopping" /\ unread /\ connected = "True" /\ el # "sending")
    ~> (disconnect_queued \/ connected # "True" \/ ~ProcessRuns)

\* What main.rs:157-162 expects of force_stop() when stop() took too long: that
\* it stops the device manager.
ForceStopEndsProcess == (st = "forced") ~> ~ProcessRuns

\* What README.md:213 says: healthy if the connection can be established.
ConnectedIsHealthy ==
  <>[](connected = "True" /\ ProcessRuns) => <>[]healthy

--------------------------------------------------------------------------------
(* What the traffic task promises about health and publishers, and that    *)
(* this module implements it                                               *)

\* The last status taken. While a publish is dealt with, the one in force.
Told ==
  IF mtMsg # "message" THEN mtMsg
  ELSE IF pm_connected THEN "connected" ELSE "disconnected"

Phase ==
  CASE mt \in {"load", "store", "ended"} -> "closed"
    [] mt = "failed" -> "failed"
    [] OTHER -> "working"

\* The publishers that go on.
Serving == {p \in Publishers : Live(p)}

Supervisor ==
  INSTANCE PublisherSupervisor WITH told <- Told, live <- Serving, phase <- Phase

\* Whatever the connection, the broker and the time limits do, the tasks together
\* are a supervisor: the next status is taken only once the last is in force, and
\* health, the end of the one publisher and the start of the next keep their order
\* across the channel, the cancellation, the wait and the abort.
ImplementsSupervisor == Supervisor!SupervisorSpec

--------------------------------------------------------------------------------
(* The inductive invariants behind the theorems of DeviceManagerProofs     *)

Handling   == {"starting", "waiting", "health", "command", "status"}
HandlesStop == {"unavailable", "disconnect", "load", "store", "ended"}

\* Who may be publishing, by where the traffic task stands: between messages its
\* publisher; while it changes over, none but the one it is joining; none once
\* it has dealt with Stopping; after a failure, the one it left behind.
PublisherInv ==
  /\ AtMostOnePublisher
  /\ TrafficAlive => \A p \in Publishers : Live(p) => p = join_handle
  /\ mt \in Handling =>
       /\ token_source = join_handle
       /\ pm_connected <=> join_handle # NoPublisher
       /\ \A p \in Publishers : Live(p) => ~cancelled[p]
  /\ mt = "joining" => join_handle # NoPublisher /\ token_source = NoPublisher
  /\ mt = "initializing" =>
       /\ join_handle = NoPublisher /\ token_source = NoPublisher
       /\ pm_connected /\ mtMsg = "connected"
  /\ mt \in HandlesStop =>
       /\ join_handle = NoPublisher
       /\ \A p \in Publishers : ~Live(p)

\* A bit of stopped_tasks, and every copy of it a task has loaded, is only ever
\* there once its task has stored it; a Disconnect only once Stopping is handled;
\* and the traffic task is not there before the loop.
StoppedInv ==
  /\ el = "starting" => mt = "starting"
  /\ "MessageTraffic" \in stopped_tasks \cup elSeen => mt = "ended"
  /\ "EventLoop" \in stopped_tasks \cup mtSeen => el \in {"done", "exited"}
  /\ disconnect_queued => mt \in {"load", "store", "ended"}
  /\ "MessageTraffic" \notin mtSeen
  /\ "EventLoop" \notin elSeen

\* A status on its way to the channel is the connection's.
ChannelInv ==
  /\ ChannelFollowsConnection
  /\ el = "sending" /\ elMsg = "connected" => connected = "True"
  /\ el = "sending" /\ elMsg = "disconnected" => connected = "False"

\* The message being handled is the channel's last unless a newer one is unread.
StatusInv ==
  /\ mt \in {"starting", "waiting"} /\ ~unread /\ chan \in {"connected", "disconnected"} =>
       healthy = (chan = "connected") /\ pm_connected = (chan = "connected")
  /\ mt \in {"health", "status", "joining", "initializing"} /\ ~unread => chan = mtMsg
  /\ mt = "command" /\ ~unread => chan = "message"
  /\ mt = "health" => mtMsg \in {"connected", "disconnected"}
  /\ mt \in {"status", "joining", "initializing"} /\ mtMsg # "stopping" =>
       mtMsg \in {"connected", "disconnected"} /\ healthy = (mtMsg = "connected")
  /\ mt = "initializing" => mtMsg = "connected" /\ pm_connected

ManagerInv == PublisherInv /\ StoppedInv /\ ChannelInv /\ StatusInv

\* Between messages the status last taken is in force, and the manager's publisher
\* goes on: it is cancelled only to be joined, and only for a status that ends it.
InForceInv ==
  /\ mt \in {"starting", "waiting", "command"} => healthy = pm_connected
  /\ mt \in {"starting", "waiting"} /\ mtMsg # "message" =>
       mtMsg = IF pm_connected THEN "connected" ELSE "disconnected"
  /\ mt = "command" => mtMsg = "message"
  /\ mt \in Handling /\ join_handle # NoPublisher => Live(join_handle)
  /\ mt = "joining" => mtMsg # "connected"
  /\ mt = "failed" => \A p \in Publishers : Live(p) => ~cancelled[p]
  /\ mt \in {"unavailable", "disconnect"} => mtMsg = "stopping"

================================================================================

-------------------------------- MODULE Commands --------------------------------
(* A command on its way: Home Assistant is told of a device and of its         *)
(* commands, their topics are subscribed, the broker delivers a message on one *)
(* of them, Devices::handle_command() asks one device after another, and the   *)
(* first handler that takes the topic acts on the container engine             *)
(* (device_manager.rs, devices.rs, device.rs, devices/mod.rs,                  *)
(* container_device.rs) or on the sample's switch (sample_device.rs).          *)
(* Meanwhile containers come and go, the scan registers and removes their      *)
(* devices, the publisher announces and withdraws them, and its stream reads   *)
(* the switch.  There is one connection; a message that another one replaces   *)
(* in the channel is never received (Availability).                            *)
EXTENDS Entities

CONSTANTS
    Name,   \* Name[n]: n's name as its words, which is what a scan looks for
    Envs    \* what the surroundings may do: one of these sets of events

\* "change": containers are created, started, stopped and removed by others;
\* "fail", "publish": requests to the engine or the broker fail.
EnvEvents == {"change", "fail", "publish"}

Sample == {"main", "dependent"}
AllDevices == Names \cup {"host"} \cup Sample

ASSUME CommandsAssumption ==
    /\ Names \cap ({"host"} \cup Sample) = {}
    /\ Name \in [Names -> Seq(STRING)]
    /\ \A m, n \in Names : Name[m] = Name[n] => m = n
    /\ Envs \subseteq SUBSET EnvEvents

Device(d) ==
    CASE d \in Names -> ContainerDevice(d)
      [] d = "host" -> HostDevice
      [] d = "main" -> MainDevice
      [] d = "dependent" -> DependentDevice

\* Device::command_topics()
command_topics == [d \in AllDevices |-> UNION {e.details.command_topics : e \in Device(d).entities}]
Topics == UNION {command_topics[d] : d \in AllDevices}

\* What Home Assistant is told it may send commands to.
announced == [d \in AllDevices |-> UNION {e.commands : e \in Device(d).entities}]

\* Handlers[d][topic]: the kinds of d's handlers that take the topic.
Handlers ==
    [d \in AllDevices |->
        [topic \in Topics |-> {h.kind : h \in {g \in Device(d).handlers : topic \in g.takes}}]]

VARIABLES
    env,        \* the events of this behaviour
    devices,    \* the registry: from keys to devices
    engine,     \* engine[n]: the container
    told,       \* the devices that Home Assistant was told of
    subscribed, \* the topics the broker delivers messages on
    publisher,  \* what it is doing
    new,        \* the keys of DevicesCreated
    gone,       \* the devices of DevicesRemoved
    traffic,    \* what the traffic task is doing
    command,    \* the message it is dealing with, or None
    switch,     \* the sample's ServerModeSwitch
    last,       \* the payload last recorded for it by the stream
    held,       \* the payload the stream is about to publish, or None
    shown,      \* the payload Home Assistant shows
    wanted      \* the payload of the last command handled, or None

sample == <<switch, last, held, shown, wanted>>
registry == <<devices, told, subscribed, publisher, new, gone>>
vars == <<env, engine, registry, traffic, command, sample>>

Payloads == {"ON", "OFF"}   \* of the switch; a button's is not looked at

Existing == {n \in Names : engine[n] # "absent"}
Identifiers(ds) == {Device(d).identifier : d \in ds}
DevicesOf(ks) == {devices[k] : k \in ks \cap DOMAIN devices}
Registered == DevicesOf(DOMAIN devices)
WithContainers == Registered \cap Sample = {}
TopicsOfAll(ds) == UNION {command_topics[d] : d \in ds}

TypeOK ==
    /\ env \in Envs
    /\ DOMAIN devices \subseteq Seq(STRING) \cup Identifiers(AllDevices)
    /\ Registered \subseteq AllDevices
    /\ engine \in [Names -> {"absent", "exited", "running"}]
    /\ told \subseteq AllDevices
    /\ subscribed \subseteq Topics
    /\ publisher \in {"off", "adding", "removing", "announcing", "subscribing", "withdrawing"}
    /\ new \subseteq Seq(STRING) /\ gone \subseteq AllDevices
    /\ traffic \in {"discovery", "subscribe", "serving", "failed"}
    /\ command = None \/
         /\ command \in [topic : subscribed, payload : Payloads \cup {None},
                         asked : SUBSET AllDevices, left : SUBSET AllDevices,
                         step : {"asking", "removing", "publishing"}]
         /\ command.left \subseteq command.asked
    /\ switch \in [is_random : BOOLEAN, is_on : BOOLEAN]
    /\ last \in Payloads \cup {None} /\ held \in Payloads \cup {None}
    /\ shown \in Payloads \cup {None} /\ wanted \in Payloads \cup {None}

\* The first discovery puts devices under their identifiers. Of several with
\* the same one the last stays, and the host's is the last of all.
FirstDiscovery(ds) ==
    {f \in [Identifiers(ds) -> ds] :
        /\ \A k \in DOMAIN f : Device(f[k]).identifier = k
        /\ "host" \in ds => f[Host] = "host"}

\* With the containers there are, or with the sample device.
Init ==
    /\ env \in Envs
    /\ engine \in [Names -> {"absent", "exited", "running"}]
    /\ \/ devices \in FirstDiscovery(Existing \cup {"host"})
       \/ Existing = {} /\ devices \in FirstDiscovery(Sample)
    /\ told = {} /\ subscribed = {}
    /\ publisher = "off" /\ new = {} /\ gone = {}
    /\ traffic = "discovery"
    /\ command = None
    /\ switch = [is_random |-> TRUE, is_on |-> FALSE]
    /\ last = None /\ held = None /\ shown = None /\ wanted = None

(***************************************************************************)
(* The container engine                                                    *)
(***************************************************************************)

ContainerChanges(n) ==
    /\ "change" \in env /\ WithContainers
    /\ \E s \in {"absent", "exited", "running"} \ {engine[n]} :
          engine' = [engine EXCEPT ![n] = s]
    /\ UNCHANGED <<env, registry, traffic, command, sample>>

(***************************************************************************)
(* What Home Assistant is told, and what is subscribed                     *)
(***************************************************************************)

\* The devices whose messages get through: the first error ends a publication
\* or a subscription. (Of a device all topics are subscribed, or none.)
GetThrough(ds) == IF "publish" \in env THEN SUBSET ds ELSE {ds}

\* initialize(): an error of the discovery is only logged.
InitializeDiscovery ==
    /\ traffic = "discovery"
    /\ traffic' = "subscribe"
    /\ told' \in GetThrough(Registered)
    /\ UNCHANGED <<env, engine, devices, subscribed, publisher, new, gone, command, sample>>

\* One of the subscription ends the traffic task, before there is a publisher.
InitializeSubscriptions ==
    /\ traffic = "subscribe"
    /\ \E heard \in GetThrough(Registered) :
          /\ subscribed' = TopicsOfAll(heard)
          /\ IF heard = Registered THEN traffic' = "serving" /\ publisher' = "adding"
                                   ELSE traffic' = "failed" /\ UNCHANGED publisher
    /\ UNCHANGED <<env, engine, devices, told, new, gone, command, sample>>

\* add_discovered_devices(): a container whose name is no key is new, and its
\* device comes under its name.
AddDevices ==
    /\ publisher = "adding" /\ WithContainers
    /\ publisher' = "removing"
    /\ LET found == {n \in Existing : Name[n] \notin DOMAIN devices}
       IN  /\ new' = {Name[n] : n \in found}
           /\ devices' = [k \in DOMAIN devices \cup new' |->
                             IF k \in DOMAIN devices THEN devices[k]
                                                     ELSE CHOOSE n \in found : Name[n] = k]
    /\ UNCHANGED <<env, engine, told, subscribed, gone, traffic, command, sample>>

AfterCreated(ds) == IF ds # {} THEN "withdrawing" ELSE "adding"

\* remove_missing_devices(): the names of the containers that are gone are taken
\* for keys. The publisher then deals with the events there are.
RemoveDevices ==
    /\ publisher = "removing"
    /\ LET missing == {Name[n] : n \in (Registered \cap Names) \ Existing}
       IN  /\ gone' = DevicesOf(missing)
           /\ devices' = [k \in DOMAIN devices \ missing |-> devices[k]]
    /\ publisher' = IF new # {} THEN "announcing" ELSE AfterCreated(gone')
    /\ UNCHANGED <<env, engine, told, subscribed, new, traffic, command, sample>>

\* Mutant: nothing is subscribed for the devices of DevicesCreated.
X_Announce ==
    /\ publisher = "announcing"
    /\ \E heard \in GetThrough(DevicesOf(new)) : told' = told \cup heard
    /\ publisher' = AfterCreated(gone)
    /\ new' = {}
    /\ UNCHANGED <<env, engine, devices, subscribed, gone, traffic, command, sample>>

\* DevicesCreated: the devices that are still there are announced, and if that
\* fails nothing is subscribed for them.
Announce ==
    /\ publisher = "announcing"
    /\ \E heard \in GetThrough(DevicesOf(new)) :
          /\ told' = told \cup heard
          /\ IF heard = DevicesOf(new)
                THEN publisher' = "subscribing" /\ UNCHANGED new
                ELSE publisher' = AfterCreated(gone) /\ new' = {}
    /\ UNCHANGED <<env, engine, devices, subscribed, gone, traffic, command, sample>>

\* A second later.
Subscribe ==
    /\ publisher = "subscribing"
    /\ \E heard \in GetThrough(DevicesOf(new)) : subscribed' = subscribed \cup TopicsOfAll(heard)
    /\ publisher' = AfterCreated(gone)
    /\ new' = {}
    /\ UNCHANGED <<env, engine, devices, told, gone, traffic, command, sample>>

\* DevicesRemoved: nothing is unsubscribed.
Withdraw ==
    /\ publisher = "withdrawing"
    /\ \E heard \in GetThrough(gone) : told' = told \ heard
    /\ publisher' = "adding"
    /\ gone' = {}
    /\ UNCHANGED <<env, engine, devices, subscribed, new, traffic, command, sample>>

(***************************************************************************)
(* Devices::handle_command()                                               *)
(***************************************************************************)

Receive ==
    /\ traffic = "serving"
    /\ command = None
    /\ \E topic \in subscribed :
       \E payload \in IF Handlers["main"][topic] = {"switch"} THEN Payloads ELSE {None} :
          command' = [topic |-> topic, payload |-> payload, asked |-> Registered,
                      left |-> Registered, step |-> "asking"]
    /\ UNCHANGED <<env, engine, registry, traffic, sample>>

\* No handler of this device takes the topic.
PassOn(d) ==
    /\ command # None /\ command.step = "asking"
    /\ d \in command.left
    /\ Handlers[d][command.topic] = {}
    /\ command' = [command EXCEPT !.left = @ \ {d}]
    /\ UNCHANGED <<env, engine, registry, traffic, sample>>

\* Mutant: an unknown topic is an error.
X_NotHandled ==
    /\ command # None /\ command.step = "asking"
    /\ command.left = {}
    /\ command' = None
    /\ traffic' = "failed"
    /\ UNCHANGED <<env, engine, registry, sample>>

\* A warning: the topic is unknown.
NotHandled ==
    /\ command # None /\ command.step = "asking"
    /\ command.left = {}
    /\ command' = None
    /\ UNCHANGED <<env, engine, registry, traffic, sample>>

\* Mutant: the first handler of any device that takes a topic acts.
X_Asked(d, kind) ==
    /\ command # None /\ command.step = "asking"
    /\ d \in command.left
    /\ \E topic \in Topics : kind \in Handlers[d][topic]

\* A handler of device d takes the topic.
Asked(d, kind) ==
    /\ command # None /\ command.step = "asking"
    /\ d \in command.left
    /\ kind \in Handlers[d][command.topic]

\* The engine does as it is told, if there is such a container.
Tell(n, state) ==
    /\ engine[n] # "absent"
    /\ engine' = [engine EXCEPT ![n] = state]

Restart(n) ==
    /\ Asked(n, "restart") \/ Asked(n, "start")
    /\ Tell(n, "running")
    /\ command' = None
    /\ UNCHANGED <<env, registry, traffic, sample>>

Stop(n) ==
    /\ Asked(n, "stop")
    /\ Tell(n, "exited")
    /\ command' = None
    /\ UNCHANGED <<env, registry, traffic, sample>>

\* The button of the logs sets its flag (DeviceData); the sample's button and
\* number answer, and have nothing to do with the switch.
Answer(d) ==
    /\ Asked(d, "getLogs") \/ Asked(d, "button") \/ Asked(d, "number")
    /\ command' = None
    /\ UNCHANGED <<env, engine, registry, traffic, sample>>

\* The remove button stops the container first.
StopToRemove(n) ==
    /\ Asked(n, "remove")
    /\ Tell(n, "exited")
    /\ command' = [command EXCEPT !.left = {n}, !.step = "removing"]
    /\ UNCHANGED <<env, registry, traffic, sample>>

\* Someone may have started it: the engine removes no container that runs.
Remove(n) ==
    /\ command # None /\ command.step = "removing" /\ n \in command.left
    /\ engine[n] = "exited"
    /\ engine' = [engine EXCEPT ![n] = "absent"]
    /\ command' = None
    /\ UNCHANGED <<env, registry, traffic, sample>>

\* The engine refuses what is asked of a container that is gone, and to remove
\* one that runs.
Refuses(n) ==
    \/ engine[n] = "absent"
    \/ command.step = "removing" /\ engine[n] = "running"

\* An error of the engine: deal_with_command() returns it, and the traffic task
\* ends with it.
Fails(n) ==
    /\ command # None /\ n \in command.left
    /\ \/ command.step = "removing"
       \/ \E kind \in {"restart", "start", "stop", "remove"} : Asked(n, kind)
    /\ "fail" \in env \/ Refuses(n)
    /\ command' = None
    /\ traffic' = "failed"
    /\ UNCHANGED <<env, engine, registry, sample>>

(***************************************************************************)
(* The sample's switch                                                     *)
(***************************************************************************)

\* ServerModeSwitch::get_entity_data()
SwitchData(s) == IF s.is_random THEN Payloads ELSE {IF s.is_on THEN "ON" ELSE "OFF"}

\* Mutant: the switch goes on with random states.
X_Switched(payload) == [switch EXCEPT !.is_on = (payload = "ON")]

Switched(payload) == [is_random |-> FALSE, is_on |-> (payload = "ON")]

SwitchCommand ==
    /\ Asked("main", "switch")
    /\ switch' = Switched(command.payload)
    /\ wanted' = command.payload
    /\ command' = [command EXCEPT !.step = "publishing", !.left = {}]
    /\ UNCHANGED <<env, engine, registry, traffic, last, held, shown>>

\* deal_with_command(): the state update of the command is published, past the
\* record of the stream. That this fails is only logged.
PublishUpdate ==
    /\ command # None /\ command.step = "publishing"
    /\ \/ \E payload \in SwitchData(switch) : shown' = payload
       \/ "publish" \in env /\ UNCHANGED shown
    /\ command' = None
    /\ UNCHANGED <<env, engine, registry, traffic, switch, last, held, wanted>>

\* The stream reads, and takes what differs from its record.
ReadSwitch ==
    /\ publisher # "off" /\ "main" \in Registered
    /\ held = None
    /\ \E payload \in SwitchData(switch) \ {last} :
          /\ last' = payload
          /\ held' = payload
    /\ UNCHANGED <<env, engine, registry, traffic, command, switch, shown, wanted>>

PublishSwitch ==
    /\ held # None
    /\ \/ shown' = held
       \/ "publish" \in env /\ UNCHANGED shown
    /\ held' = None
    /\ UNCHANGED <<env, engine, registry, traffic, command, switch, last, wanted>>

HandleCommand ==
    \/ NotHandled
    \/ SwitchCommand
    \/ PublishUpdate
    \/ \E d \in AllDevices : PassOn(d) \/ Answer(d)
    \/ \E n \in Names : Restart(n) \/ Stop(n) \/ StopToRemove(n) \/ Remove(n) \/ Fails(n)

Initialize == InitializeDiscovery \/ InitializeSubscriptions

Publish == AddDevices \/ RemoveDevices \/ Announce \/ Subscribe \/ Withdraw

Next ==
    \/ Initialize
    \/ Receive
    \/ HandleCommand
    \/ Publish
    \/ ReadSwitch
    \/ PublishSwitch
    \/ \E n \in Names : ContainerChanges(n)

\* The traffic task and the publisher go on.
Spec ==
    /\ Init /\ [][Next]_vars
    /\ WF_vars(HandleCommand)
    /\ WF_vars(ReadSwitch)
    /\ WF_vars(PublishSwitch)

(***************************************************************************)
(* Properties                                                              *)
(***************************************************************************)

Told(e) == e.states \cup e.commands \cup e.availability

\* The devices that cannot be there with d: they share a topic, an id, or the
\* topic of their discovery, which their identifiers are part of.
Clashes ==
    [d \in AllDevices |->
        {c \in AllDevices :
            \/ c # d /\ Device(c).identifier = Device(d).identifier
            \/ \E e \in Device(c).entities, f \in Device(d).entities :
                /\ c # d \/ e # f
                /\ \/ Told(e) \cap Told(f) # {}
                   \/ unique_id(e.details) = unique_id(f.details)}]

\* And those that cannot be there.
Unannounced ==
    [d \in AllDevices |->
        \E h \in Device(d).handlers :
            ~ h.gives \subseteq UNION {e.states \cup e.availability : e \in Device(d).entities}]

\* Of whatever a handler publishes, Home Assistant was told where to look for
\* it (the handlers name topics of their own, container_device.rs:576-596,
\* 645-668, the discovery messages come from the entities), and no two devices
\* or entities of the registry share a topic or the id Home Assistant knows
\* them by (devices/mod.rs:226-254): it would show one's state as the other's,
\* or ignore the second. Nor is a device there twice, a container excepted
\* whose name is not its identifier: the first discovery and a scan have
\* different keys for it (devices.rs:24, container_device.rs:413).
DiscoveryIsSound ==
    /\ \A d \in Registered : ~Unannounced[d]
    /\ \A d \in Registered : Registered \cap Clashes[d] = {}
    /\ \A k, l \in DOMAIN devices :
          k # l /\ devices[k] = devices[l] =>
             \E n \in Names : devices[k] = n /\ Name[n] # ContainerIdentifier(n)

\* What Home Assistant was told it may send is subscribed, or about to be, as
\* long as the broker is given what it is sent: discovery and subscription are
\* steps apart (device_manager.rs:480-485, 875-880). And when all devices have
\* passed a command on (devices.rs:185), none of those with containers had
\* announced it.  (The sample's light and texts announce commands that nobody
\* takes.)
PressIsHeard ==
    /\ "publish" \notin env =>
          \A d \in told \cap Registered :
             \/ announced[d] \subseteq subscribed
             \/ traffic = "subscribe"
             \/ publisher = "subscribing" /\ d \in DevicesOf(new)
    /\ command # None /\ command.step = "asking" /\ command.left = {} =>
          \A d \in command.asked \ Sample : command.topic \notin announced[d]

\* A command does what it does to the container it was announced for, however
\* the registry changes and in whichever order its devices are asked
\* (devices.rs:155).
CommandActsOnItsContainer ==
    [][command' # command =>
         \A n \in Names : engine'[n] # engine[n] => command.topic \in announced[n]]_vars

\* A switch shows what it was last commanded to (sample_device.rs:380), though
\* the command's update and what the stream had read before are published in
\* any order, unless a publication fails.
SwitchIsShown ==
    "publish" \notin env =>
        \A payload \in Payloads : <>[](wanted = payload) => <>[](shown = payload)

\* Every command comes to an end, and the traffic task goes on with the next
\* (device_manager.rs:642): an unknown topic, an update that is not published,
\* or a device that leaves the registry while it is asked do not end the task.
\* What ends it is an error of the engine, which refuses a command for a
\* container that is gone or that was started again before it was removed.
CommandEnds ==
    /\ command # None ~> command = None
    /\ [][command # None /\ traffic' = "failed" =>
             "fail" \in env \/ \E n \in Names : command.topic \in announced[n] /\ Refuses(n)]_vars

\* As long as the engine does what it is asked to, the traffic task goes on.
CommandsKeepComing == env \subseteq {"change"} => traffic # "failed"

================================================================================

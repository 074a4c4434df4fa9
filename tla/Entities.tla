-------------------------------- MODULE Entities --------------------------------
(* The devices, their entities and their topics (devices/mod.rs            *)
(* EntityDetails, the entities' files, and what container_device.rs and       *)
(* sample_device.rs build of them).  A slug is the sequence of its words, a    *)
(* topic <<device, path, what>>.  What Home Assistant is told of an entity is   *)
(* the topics of its discovery message; what the program listens to and        *)
(* publishes comes from elsewhere: from its details and from the handlers.     *)
EXTENDS Sequences, FiniteSets

CONSTANTS
    Names,      \* containers
    Slug,       \* Slug[n]: the words of n's slug
    Prefix,     \* the words of the container name prefix
    Host,       \* the words of the host device's slug
    None

ASSUME EntitiesAssumption ==
    /\ \A n \in Names : Slug[n] \in Seq(STRING)
    /\ Prefix \in Seq(STRING)
    /\ Host \in Seq(STRING)
    /\ None \notin {"attributes", "brightness"}

(***************************************************************************)
(* EntityDetails                                                           *)
(***************************************************************************)

EntityDetails(device, id) ==
    [device |-> device, id |-> id, has_attributes |-> FALSE, command_topics |-> {}]

has_attributes(details) == [details EXCEPT !.has_attributes = TRUE]
add_command(details, topic) == [details EXCEPT !.command_topics = @ \cup {topic}]

get_topic_path(details, item) ==
    IF item = None THEN details.id ELSE Append(details.id, item)

Topic(details, item, what) == <<details.device, get_topic_path(details, item), what>>
StateTopic(details) == Topic(details, None, "state")
AttributesTopic(details) == Topic(details, "attributes", "state")
CommandTopic(details) == Topic(details, None, "command")
AvailabilityTopic(details) == Topic(details, None, "availability")

\* Mutant: the device is left out.
X_unique_id(details) == details.id

\* {device identifier}_{id}
unique_id(details) == details.device \o details.id

(***************************************************************************)
(* Entities: their details, and the topics of their discovery              *)
(***************************************************************************)

\* EntityDetails::json_for_discovery(): a state topic, whatever the entity.
Basic(details) ==
    [details |-> details,
     states |-> {StateTopic(details)} \cup
                IF details.has_attributes THEN {AttributesTopic(details)} ELSE {},
     commands |-> {},
     availability |-> {}]

Sensor(device, id) == Basic(EntityDetails(device, id))
SensorWithAttributes(device, id) == Basic(has_attributes(EntityDetails(device, id)))

\* What the entities that take commands have in common: one topic, in their
\* details and in their discovery.
Commanded(device, id) ==
    LET details == EntityDetails(device, id)
    IN  [Basic(add_command(details, CommandTopic(details)))
            EXCEPT !.commands = {CommandTopic(details)}]

Button(device, id) == Commanded(device, id)
Switch(device, id) == Commanded(device, id)
Number(device, id) == Commanded(device, id)
Text(device, id) == Commanded(device, id)
Light(device, id) == Commanded(device, id)

can_be_made_unavailable(button) ==
    [button EXCEPT !.availability = {AvailabilityTopic(button.details)}]

support_brightness(light) ==
    LET topic == Topic(light.details, "brightness", "command")
    IN  [light EXCEPT !.details = add_command(@, topic),
                      !.commands = @ \cup {topic},
                      !.states = @ \cup {Topic(light.details, "brightness", "state")}]

(***************************************************************************)
(* Handlers: the topics they take commands from and give values for        *)
(***************************************************************************)

Gives(kind, topics) == [kind |-> kind, takes |-> {}, gives |-> topics]
Takes(kind, entity) == [kind |-> kind, takes |-> {CommandTopic(entity.details)}, gives |-> {}]
StateOf(entity) == StateTopic(entity.details)

(***************************************************************************)
(* ContainerDeviceProvider                                                 *)
(***************************************************************************)

ContainerIdentifier(n) == Prefix \o Slug[n]

\* create_container_devices()
ContainerDevice(n) ==
    LET device == ContainerIdentifier(n)
        log_text == Sensor(device, <<"logs">>)
        get_logs == Button(device, <<"get", "logs">>)
        used_memory == Sensor(device, <<"used", "memory">>)
        used_cpus == Sensor(device, <<"used", "cpus">>)
        status == Sensor(device, <<"run", "status">>)
        image == Sensor(device, <<"image">>)
        restart == can_be_made_unavailable(Button(device, <<"restart">>))
        start == can_be_made_unavailable(Button(device, <<"start">>))
        stop == can_be_made_unavailable(Button(device, <<"stop">>))
        remove == Button(device, <<"remove">>)
        health == Sensor(device, <<"health">>)
    IN  [identifier |-> device,
         entities |-> {log_text, get_logs, used_memory, used_cpus, status, image, restart,
                       start, stop, remove, health},
         handlers |-> {
            Gives("logText", {StateOf(log_text)}),
            Takes("getLogs", get_logs),
            Gives("stats", {StateOf(used_memory), StateOf(used_cpus)}),
            Gives("status", {StateOf(status), StateOf(health)} \cup
                            {AvailabilityTopic(b.details) : b \in {start, restart, stop}}),
            Takes("restart", restart),
            Takes("start", start),
            Takes("stop", stop),
            Takes("remove", remove),
            Gives("static", {StateOf(image)})}]

\* get_devices(): each of the disk usage's entities has attributes.
HostDevice ==
    LET version == Sensor(Host, <<"host", "version">>)
        df == {SensorWithAttributes(Host, id) :
                  id \in {<<"images">>, <<"volumes">>, <<"build", "cache">>,
                          <<"total", "containers">>}}
        networks == SensorWithAttributes(Host, <<"networks">>)
        Both(e) == {StateOf(e), AttributesTopic(e.details)}
    IN  [identifier |-> Host,
         entities |-> {version, networks} \cup df,
         handlers |-> {Gives("version", {StateOf(version)}),
                       Gives("diskFree", UNION {Both(e) : e \in df}),
                       Gives("network", Both(networks))}]

(***************************************************************************)
(* SampleDeviceProvider                                                    *)
(***************************************************************************)

\* The light and the text have a do_handle_command() but take no topic.
MainDevice ==
    LET device == <<"sample">>
        memory == SensorWithAttributes(device, <<"memory", "usage">>)
        uptime == Sensor(device, <<"system", "uptime">>)
        light == support_brightness(Light(device, <<"living", "room", "light">>))
        log_text == Text(device, <<"log", "text">>)
        mode == Switch(device, <<"server", "mode">>)
        number == Number(device, <<"some", "number">>)
        button == Button(device, <<"some", "button">>)
    IN  [identifier |-> device,
         entities |-> {light, log_text, memory, mode, uptime, button, number},
         handlers |-> {
            Gives("light", {StateOf(light)}),
            Gives("text", {StateOf(log_text)}),
            Gives("memory", {StateOf(memory), AttributesTopic(memory.details)}),
            [Takes("switch", mode) EXCEPT !.gives = {StateOf(mode)}],
            Gives("uptime", {StateOf(uptime)}),
            Takes("button", button),
            [Takes("number", number) EXCEPT !.gives = {StateOf(number)}]}]

DependentDevice ==
    LET device == <<"dependent", "device">>
        text == Text(device, <<"some", "text">>)
    IN  [identifier |-> device,
         entities |-> {text},
         handlers |-> {Gives("text", {StateOf(text)})}]

================================================================================

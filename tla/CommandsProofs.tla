----------------------------- MODULE CommandsProofs -----------------------------
(***************************************************************************)
(* Theorems about Commands and the devices of Entities, for any            *)
(* containers, slugs, prefix and host.                                     *)
(***************************************************************************)
EXTENDS Commands, SequenceTheorems, TLAPS

(***************************************************************************)
(* Entities                                                                *)
(***************************************************************************)

\* What each kind of entity is made of.
LEMMA SensorParts ==
  \A device, id :
     /\ Sensor(device, id).details.device = device
     /\ Sensor(device, id).details.id = id
     /\ Sensor(device, id).details.command_topics = {}
     /\ Sensor(device, id).states = {<<device, id, "state">>}
     /\ Sensor(device, id).commands = {}
     /\ Sensor(device, id).availability = {}
BY DEF Sensor, Basic, EntityDetails, StateTopic, Topic, get_topic_path

LEMMA SensorWithAttributesParts ==
  \A device, id :
     LET e == SensorWithAttributes(device, id)
     IN  /\ e.details.device = device
         /\ e.details.id = id
         /\ e.details.command_topics = {}
         /\ e.states = {<<device, id, "state">>, <<device, Append(id, "attributes"), "state">>}
         /\ e.commands = {}
         /\ e.availability = {}
BY EntitiesAssumption
   DEF SensorWithAttributes, has_attributes, Basic, EntityDetails, StateTopic, AttributesTopic,
       Topic, get_topic_path

\* An entity that takes commands, spelled out.
LEMMA CommandedIs ==
  \A device, id :
     Commanded(device, id) =
       [details |-> [device |-> device, id |-> id, has_attributes |-> FALSE,
                     command_topics |-> {<<device, id, "command">>}],
        states |-> {<<device, id, "state">>},
        commands |-> {<<device, id, "command">>},
        availability |-> {}]
<1> TAKE device, id
<1> DEFINE topic == <<device, id, "command">>
           details == [device |-> device, id |-> id, has_attributes |-> FALSE,
                       command_topics |-> {topic}]
<1>1. CommandTopic(EntityDetails(device, id)) = topic
  BY DEF CommandTopic, Topic, get_topic_path, EntityDetails
<1> HIDE DEF topic
<1>2. add_command(EntityDetails(device, id), topic) = details
  <2>1. EntityDetails(device, id).command_topics \cup {topic} = {topic}
    BY DEF EntityDetails
  <2>2. add_command(EntityDetails(device, id), topic)
          = [EntityDetails(device, id) EXCEPT !.command_topics = {topic}]
    BY <2>1 DEF add_command
  <2>3. QED
    BY <2>2 DEF EntityDetails
<1>3. StateTopic(details) = <<device, id, "state">>
  BY DEF StateTopic, Topic, get_topic_path
<1>4. {StateTopic(details)} \cup (IF details.has_attributes THEN {AttributesTopic(details)} ELSE {})
        = {<<device, id, "state">>}
  BY <1>3
<1> HIDE DEF details
<1>5. Basic(details) = [details |-> details, states |-> {<<device, id, "state">>},
                        commands |-> {}, availability |-> {}]
  BY <1>4 DEF Basic
<1>6. Commanded(device, id) = [Basic(details) EXCEPT !.commands = {topic}]
  BY <1>1, <1>2 DEF Commanded
<1>7. [Basic(details) EXCEPT !.commands = {topic}]
        = [details |-> details, states |-> {<<device, id, "state">>},
           commands |-> {topic}, availability |-> {}]
  BY <1>5
<1>8. QED
  BY <1>6, <1>7 DEF details, topic

LEMMA CommandedParts ==
  \A device, id :
     LET e == Commanded(device, id)
     IN  /\ e.details.device = device
         /\ e.details.id = id
         /\ e.details.command_topics = {<<device, id, "command">>}
         /\ e.states = {<<device, id, "state">>}
         /\ e.commands = {<<device, id, "command">>}
         /\ e.availability = {}
BY CommandedIs

LEMMA UnavailableParts ==
  \A device, id :
     LET e == can_be_made_unavailable(Commanded(device, id))
     IN  /\ e.details.device = device
         /\ e.details.id = id
         /\ e.details.command_topics = {<<device, id, "command">>}
         /\ e.states = {<<device, id, "state">>}
         /\ e.commands = {<<device, id, "command">>}
         /\ e.availability = {<<device, id, "availability">>}
BY CommandedIs DEF can_be_made_unavailable, AvailabilityTopic, Topic, get_topic_path

LEMMA BrightnessParts ==
  \A device, id :
     LET e == support_brightness(Commanded(device, id))
         brightness == Append(id, "brightness")
     IN  /\ e.details.device = device
         /\ e.details.id = id
         /\ e.details.command_topics =
              {<<device, id, "command">>, <<device, brightness, "command">>}
         /\ e.states = {<<device, id, "state">>, <<device, brightness, "state">>}
         /\ e.commands = {<<device, id, "command">>, <<device, brightness, "command">>}
         /\ e.availability = {}
<1> TAKE device, id
<1> DEFINE e == Commanded(device, id)
           light == support_brightness(e)
           brightness == Append(id, "brightness")
<1>1. \A what : Topic(e.details, "brightness", what) = <<device, brightness, what>>
  BY EntitiesAssumption, CommandedIs DEF Topic, get_topic_path
<1> HIDE DEF brightness
<1>2. light = [e EXCEPT !.details = add_command(e.details, <<device, brightness, "command">>),
                        !.commands = e.commands \cup {<<device, brightness, "command">>},
                        !.states = e.states \cup {<<device, brightness, "state">>}]
  <2>1. /\ Topic(e.details, "brightness", "command") = <<device, brightness, "command">>
        /\ Topic(e.details, "brightness", "state") = <<device, brightness, "state">>
    BY <1>1
  <2> HIDE DEF e
  <2>2. QED
    BY <2>1 DEF support_brightness
<1>3. /\ light.details = add_command(e.details, <<device, brightness, "command">>)
      /\ light.commands = e.commands \cup {<<device, brightness, "command">>}
      /\ light.states = e.states \cup {<<device, brightness, "state">>}
      /\ light.availability = e.availability
  BY <1>2, CommandedIs
<1>4. /\ light.details.device = device
      /\ light.details.id = id
      /\ light.details.command_topics =
           e.details.command_topics \cup {<<device, brightness, "command">>}
  BY <1>3, CommandedIs DEF add_command
<1> HIDE DEF light
<1>5. /\ light.details.command_topics =
           {<<device, id, "command">>, <<device, brightness, "command">>}
      /\ light.states = {<<device, id, "state">>, <<device, brightness, "state">>}
      /\ light.commands = {<<device, id, "command">>, <<device, brightness, "command">>}
      /\ light.availability = {}
  BY <1>3, <1>4, CommandedParts
<1>6. QED
  BY <1>4, <1>5 DEF light, brightness

(***************************************************************************)
(* The devices                                                             *)
(***************************************************************************)

\* The ids of a device's entities.
ContainerIds ==
  {<<"logs">>, <<"get", "logs">>, <<"used", "memory">>, <<"used", "cpus">>, <<"run", "status">>,
   <<"image">>, <<"restart">>, <<"start">>, <<"stop">>, <<"remove">>, <<"health">>}
HostIds ==
  {<<"host", "version">>, <<"images">>, <<"volumes">>, <<"build", "cache">>,
   <<"total", "containers">>, <<"networks">>}
MainIds ==
  {<<"memory", "usage">>, <<"system", "uptime">>, <<"living", "room", "light">>,
   <<"log", "text">>, <<"server", "mode">>, <<"some", "number">>, <<"some", "button">>}
DependentIds == {<<"some", "text">>}
Ids == ContainerIds \cup HostIds \cup MainIds \cup DependentIds

\* The topics an entity may have.
Paths(id) == {id, Append(id, "attributes"), Append(id, "brightness")}
EntityTopics(device, id) == {device} \X Paths(id) \X {"state", "command", "availability"}

IsEntity(e, device, id) ==
  /\ e.details.device = device
  /\ e.details.id = id
  /\ Told(e) \subseteq EntityTopics(device, id)
  /\ e.commands \subseteq e.details.command_topics

LEMMA Constructors ==
  \A device, id :
     /\ IsEntity(Sensor(device, id), device, id)
     /\ IsEntity(SensorWithAttributes(device, id), device, id)
     /\ IsEntity(Commanded(device, id), device, id)
     /\ IsEntity(can_be_made_unavailable(Commanded(device, id)), device, id)
     /\ IsEntity(support_brightness(Commanded(device, id)), device, id)
<1> TAKE device, id
<1>1. IsEntity(Sensor(device, id), device, id)
  BY SensorParts DEF IsEntity, Told, EntityTopics, Paths
<1>2. IsEntity(SensorWithAttributes(device, id), device, id)
  BY SensorWithAttributesParts DEF IsEntity, Told, EntityTopics, Paths
<1>3. IsEntity(Commanded(device, id), device, id)
  BY CommandedParts DEF IsEntity, Told, EntityTopics, Paths
<1>4. IsEntity(can_be_made_unavailable(Commanded(device, id)), device, id)
  BY UnavailableParts DEF IsEntity, Told, EntityTopics, Paths
<1>5. IsEntity(support_brightness(Commanded(device, id)), device, id)
  BY BrightnessParts DEF IsEntity, Told, EntityTopics, Paths
<1>6. QED
  BY <1>1, <1>2, <1>3, <1>4, <1>5

\* A device's entities have its identifier, and ids of their own.
HasEntities(device, ids) ==
  /\ \A e \in device.entities : \E id \in ids : IsEntity(e, device.identifier, id)
  /\ \A e, f \in device.entities : e.details.id = f.details.id => e = f

LEMMA ContainerEntities ==
  \A n \in Names : /\ HasEntities(ContainerDevice(n), ContainerIds)
                   /\ ContainerDevice(n).identifier = Prefix \o Slug[n]
<1> TAKE n \in Names
<1> DEFINE device == ContainerIdentifier(n)
           log_text == Sensor(device, <<"logs">>)
           get_logs == Button(device, <<"get", "logs">>)
           used_memory == Sensor(device, <<"used", "memory">>)
           used_cpus == Sensor(device, <<"used", "cpus">>)
           status == Sensor(device, <<"run", "status">>)
           image == Sensor(device, <<"image">>)
           restart == can_be_made_unavailable(Button(device, <<"restart">>))
           start == can_be_made_unavailable(Button(device, <<"start">>))
           stop == can_be_made_unavailable(Button(device, <<"stop">>))
           remove == Button(device, <<"remove">>)
           health == Sensor(device, <<"health">>)
<1>1. /\ IsEntity(log_text, device, <<"logs">>)
      /\ IsEntity(get_logs, device, <<"get", "logs">>)
      /\ IsEntity(used_memory, device, <<"used", "memory">>)
      /\ IsEntity(used_cpus, device, <<"used", "cpus">>)
      /\ IsEntity(status, device, <<"run", "status">>)
      /\ IsEntity(image, device, <<"image">>)
      /\ IsEntity(restart, device, <<"restart">>)
      /\ IsEntity(start, device, <<"start">>)
      /\ IsEntity(stop, device, <<"stop">>)
      /\ IsEntity(remove, device, <<"remove">>)
      /\ IsEntity(health, device, <<"health">>)
  BY Constructors DEF Button
<1>2. /\ ContainerDevice(n).entities =
           {log_text, get_logs, used_memory, used_cpus, status, image, restart, start, stop,
            remove, health}
      /\ ContainerDevice(n).identifier = device
  BY DEF ContainerDevice
<1> HIDE DEF device, log_text, get_logs, used_memory, used_cpus, status, image, restart, start,
             stop, remove, health
<1>3. \A e \in ContainerDevice(n).entities : \E id \in ContainerIds : IsEntity(e, device, id)
  BY <1>1, <1>2 DEF ContainerIds
<1>4. \A e, f \in ContainerDevice(n).entities : e.details.id = f.details.id => e = f
  BY <1>1, <1>2 DEF IsEntity
<1>5. QED
  BY <1>2, <1>3, <1>4 DEF HasEntities, ContainerIdentifier, device

LEMMA HostEntities ==
  HasEntities(HostDevice, HostIds) /\ HostDevice.identifier = Host
<1> DEFINE version == Sensor(Host, <<"host", "version">>)
           images == SensorWithAttributes(Host, <<"images">>)
           volumes == SensorWithAttributes(Host, <<"volumes">>)
           cache == SensorWithAttributes(Host, <<"build", "cache">>)
           total == SensorWithAttributes(Host, <<"total", "containers">>)
           networks == SensorWithAttributes(Host, <<"networks">>)
<1>1. /\ IsEntity(version, Host, <<"host", "version">>)
      /\ IsEntity(images, Host, <<"images">>)
      /\ IsEntity(volumes, Host, <<"volumes">>)
      /\ IsEntity(cache, Host, <<"build", "cache">>)
      /\ IsEntity(total, Host, <<"total", "containers">>)
      /\ IsEntity(networks, Host, <<"networks">>)
  BY Constructors
<1>2. /\ HostDevice.entities = {version, networks, images, volumes, cache, total}
      /\ HostDevice.identifier = Host
  BY DEF HostDevice
<1> HIDE DEF version, images, volumes, cache, total, networks
<1>3. \A e \in HostDevice.entities : \E id \in HostIds : IsEntity(e, Host, id)
  BY <1>1, <1>2 DEF HostIds
<1>4. \A e, f \in HostDevice.entities : e.details.id = f.details.id => e = f
  BY <1>1, <1>2 DEF IsEntity
<1>5. QED
  BY <1>2, <1>3, <1>4 DEF HasEntities

LEMMA MainEntities ==
  HasEntities(MainDevice, MainIds) /\ MainDevice.identifier = <<"sample">>
<1> DEFINE device == <<"sample">>
           memory == SensorWithAttributes(device, <<"memory", "usage">>)
           uptime == Sensor(device, <<"system", "uptime">>)
           light == support_brightness(Light(device, <<"living", "room", "light">>))
           log_text == Text(device, <<"log", "text">>)
           mode == Switch(device, <<"server", "mode">>)
           number == Number(device, <<"some", "number">>)
           button == Button(device, <<"some", "button">>)
<1>1. /\ IsEntity(memory, device, <<"memory", "usage">>)
      /\ IsEntity(uptime, device, <<"system", "uptime">>)
      /\ IsEntity(light, device, <<"living", "room", "light">>)
      /\ IsEntity(log_text, device, <<"log", "text">>)
      /\ IsEntity(mode, device, <<"server", "mode">>)
      /\ IsEntity(number, device, <<"some", "number">>)
      /\ IsEntity(button, device, <<"some", "button">>)
  BY Constructors DEF Light, Text, Switch, Number, Button
<1>2. /\ MainDevice.entities = {light, log_text, memory, mode, uptime, button, number}
      /\ MainDevice.identifier = device
  BY DEF MainDevice
<1> HIDE DEF device, memory, uptime, light, log_text, mode, number, button
<1>3. \A e \in MainDevice.entities : \E id \in MainIds : IsEntity(e, device, id)
  BY <1>1, <1>2 DEF MainIds
<1>4. \A e, f \in MainDevice.entities : e.details.id = f.details.id => e = f
  BY <1>1, <1>2 DEF IsEntity
<1>5. QED
  BY <1>2, <1>3, <1>4 DEF HasEntities, device

LEMMA DependentEntities ==
  /\ HasEntities(DependentDevice, DependentIds)
  /\ DependentDevice.identifier = <<"dependent", "device">>
<1> DEFINE device == <<"dependent", "device">>
           text == Text(device, <<"some", "text">>)
<1>1. IsEntity(text, device, <<"some", "text">>)
  BY Constructors DEF Text
<1>2. DependentDevice.entities = {text} /\ DependentDevice.identifier = device
  BY DEF DependentDevice
<1> HIDE DEF device, text
<1>3. QED
  BY <1>1, <1>2 DEF HasEntities, DependentIds, device

\* Which device is which.
LEMMA Devices ==
  /\ \A n \in Names : Device(n) = ContainerDevice(n)
  /\ Device("host") = HostDevice
  /\ Device("main") = MainDevice
  /\ Device("dependent") = DependentDevice
<1>1. "host" \notin Names /\ "main" \notin Names /\ "dependent" \notin Names
  BY CommandsAssumption DEF Sample
<1>2. QED
  BY <1>1 DEF Device

(***************************************************************************)
(* What the devices publish                                                *)
(***************************************************************************)

\* Of whatever a handler gives, Home Assistant was told.
LEMMA NoneUnannounced == \A d \in AllDevices : ~Unannounced[d]
<1> DEFINE IsTold(device) ==
      \A h \in device.handlers :
         h.gives \subseteq UNION {e.states \cup e.availability : e \in device.entities}
<1>1. ASSUME NEW n \in Names PROVE IsTold(ContainerDevice(n))
  <2> DEFINE device == ContainerIdentifier(n)
             log_text == Sensor(device, <<"logs">>)
             get_logs == Button(device, <<"get", "logs">>)
             used_memory == Sensor(device, <<"used", "memory">>)
             used_cpus == Sensor(device, <<"used", "cpus">>)
             status == Sensor(device, <<"run", "status">>)
             image == Sensor(device, <<"image">>)
             restart == can_be_made_unavailable(Button(device, <<"restart">>))
             start == can_be_made_unavailable(Button(device, <<"start">>))
             stop == can_be_made_unavailable(Button(device, <<"stop">>))
             remove == Button(device, <<"remove">>)
             health == Sensor(device, <<"health">>)
             places == UNION {e.states \cup e.availability : e \in ContainerDevice(n).entities}
  <2>1. \A e \in {log_text, used_memory, used_cpus, status, image, health} :
           e.states = {StateOf(e)}
    BY SensorParts DEF StateOf, StateTopic, Topic, get_topic_path
  <2>2. \A e \in {restart, start, stop} : e.availability = {AvailabilityTopic(e.details)}
    BY UnavailableParts DEF Button, AvailabilityTopic, Topic, get_topic_path
  <2>3. ContainerDevice(n).entities =
          {log_text, get_logs, used_memory, used_cpus, status, image, restart, start, stop,
           remove, health}
    BY DEF ContainerDevice
  <2>4. ContainerDevice(n).handlers =
          {Gives("logText", {StateOf(log_text)}),
           Takes("getLogs", get_logs),
           Gives("stats", {StateOf(used_memory), StateOf(used_cpus)}),
           Gives("status", {StateOf(status), StateOf(health)} \cup
                           {AvailabilityTopic(b.details) : b \in {start, restart, stop}}),
           Takes("restart", restart),
           Takes("start", start),
           Takes("stop", stop),
           Takes("remove", remove),
           Gives("static", {StateOf(image)})}
    BY DEF ContainerDevice
  <2> HIDE DEF log_text, get_logs, used_memory, used_cpus, status, image, restart, start, stop,
               remove, health
  <2>5. \A e \in {log_text, used_memory, used_cpus, status, image, health} : StateOf(e) \in places
    BY <2>1, <2>3
  <2>6. \A b \in {start, restart, stop} : AvailabilityTopic(b.details) \in places
    BY <2>2, <2>3
  <2>7. \A kind, e : Takes(kind, e).gives = {}
    BY DEF Takes
  <2>8. \A kind, topics : Gives(kind, topics).gives = topics
    BY DEF Gives
  <2> HIDE DEF places
  <2>9. \A h \in ContainerDevice(n).handlers : h.gives \subseteq places
    BY <2>4, <2>5, <2>6, <2>7, <2>8
  <2>10. QED
    BY <2>9 DEF places
<1>2. IsTold(HostDevice)
  <2> DEFINE version == Sensor(Host, <<"host", "version">>)
             ids == {<<"images">>, <<"volumes">>, <<"build", "cache">>, <<"total", "containers">>}
             df == {SensorWithAttributes(Host, id) : id \in ids}
             networks == SensorWithAttributes(Host, <<"networks">>)
             both(e) == {StateOf(e), AttributesTopic(e.details)}
             places == UNION {e.states \cup e.availability : e \in HostDevice.entities}
  <2>1. version.states = {StateOf(version)}
    BY SensorParts DEF StateOf, StateTopic, Topic, get_topic_path
  <2>2. \A id : LET e == SensorWithAttributes(Host, id) IN e.states = both(e)
    <3> TAKE id
    <3>1. StateOf(SensorWithAttributes(Host, id)) = <<Host, id, "state">>
      BY SensorWithAttributesParts DEF StateOf, StateTopic, Topic, get_topic_path
    <3>2. AttributesTopic(SensorWithAttributes(Host, id).details)
            = <<Host, Append(id, "attributes"), "state">>
      BY SensorWithAttributesParts, EntitiesAssumption DEF AttributesTopic, Topic, get_topic_path
    <3>3. QED
      BY <3>1, <3>2, SensorWithAttributesParts
  <2>3. HostDevice.entities = {version, networks} \cup df
    BY DEF HostDevice
  <2>4. HostDevice.handlers = {Gives("version", {StateOf(version)}),
                               Gives("diskFree", UNION {both(e) : e \in df}),
                               Gives("network", both(networks))}
    BY DEF HostDevice
  <2>5. StateOf(version) \in places
    BY <2>1, <2>3
  <2>6. \A e \in df \cup {networks} : both(e) \subseteq places
    BY <2>2, <2>3
  <2>7. \A kind, topics : Gives(kind, topics).gives = topics
    BY DEF Gives
  <2> HIDE DEF places, version, networks, df, both
  <2>8. \A h \in HostDevice.handlers : h.gives \subseteq places
    BY <2>4, <2>5, <2>6, <2>7
  <2>9. QED
    BY <2>8 DEF places
<1>3. IsTold(MainDevice)
  <2> DEFINE device == <<"sample">>
             memory == SensorWithAttributes(device, <<"memory", "usage">>)
             uptime == Sensor(device, <<"system", "uptime">>)
             light == support_brightness(Light(device, <<"living", "room", "light">>))
             log_text == Text(device, <<"log", "text">>)
             mode == Switch(device, <<"server", "mode">>)
             number == Number(device, <<"some", "number">>)
             button == Button(device, <<"some", "button">>)
             places == UNION {e.states \cup e.availability : e \in MainDevice.entities}
  <2>1. \A e \in {memory, uptime, light, log_text, mode, number} : StateOf(e) \in e.states
    BY SensorParts, SensorWithAttributesParts, CommandedParts, BrightnessParts
       DEF Light, Text, Switch, Number, StateOf, StateTopic, Topic, get_topic_path
  <2>2. AttributesTopic(memory.details) \in memory.states
    BY SensorWithAttributesParts, EntitiesAssumption DEF AttributesTopic, Topic, get_topic_path
  <2>3. MainDevice.entities = {light, log_text, memory, mode, uptime, button, number}
    BY DEF MainDevice
  <2>4. MainDevice.handlers =
          {Gives("light", {StateOf(light)}),
           Gives("text", {StateOf(log_text)}),
           Gives("memory", {StateOf(memory), AttributesTopic(memory.details)}),
           [Takes("switch", mode) EXCEPT !.gives = {StateOf(mode)}],
           Gives("uptime", {StateOf(uptime)}),
           Takes("button", button),
           [Takes("number", number) EXCEPT !.gives = {StateOf(number)}]}
    BY DEF MainDevice
  <2> HIDE DEF memory, uptime, light, log_text, mode, number, button
  <2>5. /\ \A e \in {memory, uptime, light, log_text, mode, number} : StateOf(e) \in places
        /\ AttributesTopic(memory.details) \in places
    BY <2>1, <2>2, <2>3
  <2>6. /\ \A kind, topics : Gives(kind, topics).gives = topics
        /\ \A kind, e : Takes(kind, e).gives = {}
        /\ \A kind, e, topics : [Takes(kind, e) EXCEPT !.gives = topics].gives = topics
    BY DEF Gives, Takes
  <2> HIDE DEF places
  <2>7. /\ \A kind : \A e \in {light, log_text, uptime} : Gives(kind, {StateOf(e)}).gives \subseteq places
        /\ Gives("memory", {StateOf(memory), AttributesTopic(memory.details)}).gives \subseteq places
        /\ [Takes("switch", mode) EXCEPT !.gives = {StateOf(mode)}].gives \subseteq places
        /\ Takes("button", button).gives \subseteq places
        /\ [Takes("number", number) EXCEPT !.gives = {StateOf(number)}].gives \subseteq places
    BY <2>5, <2>6
  <2>8. \A h \in MainDevice.handlers : h.gives \subseteq places
    BY <2>4, <2>7
  <2>9. QED
    BY <2>8 DEF places
<1>4. IsTold(DependentDevice)
  <2> DEFINE text == Text(<<"dependent", "device">>, <<"some", "text">>)
  <2>1. StateOf(text) \in text.states
    BY CommandedParts DEF Text, StateOf, StateTopic, Topic, get_topic_path
  <2>2. /\ DependentDevice.entities = {text}
        /\ DependentDevice.handlers = {Gives("text", {StateOf(text)})}
    BY DEF DependentDevice
  <2> HIDE DEF text
  <2>3. QED
    BY <2>1, <2>2 DEF Gives
<1> HIDE DEF IsTold
<1>5. \A d \in AllDevices : IsTold(Device(d))
  BY <1>1, <1>2, <1>3, <1>4, Devices DEF AllDevices, Sample
<1>6. QED
  BY <1>5 DEF Unannounced, IsTold

(***************************************************************************)
(* Topics and unique ids                                                   *)
(***************************************************************************)

\* The words of slugs and ids.  (To the provers a literal need not be in STRING.)
Words == STRING \cup
  {"logs", "get", "used", "memory", "cpus", "run", "status", "image", "restart", "start",
   "stop", "remove", "health", "host", "version", "images", "volumes", "build", "cache",
   "total", "containers", "networks", "usage", "system", "uptime", "living", "room", "light",
   "log", "text", "server", "mode", "some", "number", "button", "sample", "dependent",
   "device", "attributes", "brightness"}

LastWord(id) == id[Len(id)]

IsId(id) ==
  /\ id \in Seq(Words) /\ Len(id) >= 1
  /\ LastWord(id) \notin {"attributes", "brightness"}

LEMMA IdsAreWords == \A id \in Ids : IsId(id)
<1>1. \A id \in ContainerIds : id \in Seq(Words)
  <2>1. /\ <<"logs">> \in Seq(Words)
        /\ <<"get", "logs">> \in Seq(Words)
        /\ <<"used", "memory">> \in Seq(Words)
        /\ <<"used", "cpus">> \in Seq(Words)
        /\ <<"run", "status">> \in Seq(Words)
        /\ <<"image">> \in Seq(Words)
        /\ <<"restart">> \in Seq(Words)
        /\ <<"start">> \in Seq(Words)
        /\ <<"stop">> \in Seq(Words)
        /\ <<"remove">> \in Seq(Words)
        /\ <<"health">> \in Seq(Words)
    BY DEF Words
  <2>2. QED
    BY <2>1 DEF ContainerIds
<1>2. \A id \in HostIds : id \in Seq(Words)
  <2>1. /\ <<"host", "version">> \in Seq(Words)
        /\ <<"images">> \in Seq(Words)
        /\ <<"volumes">> \in Seq(Words)
        /\ <<"build", "cache">> \in Seq(Words)
        /\ <<"total", "containers">> \in Seq(Words)
        /\ <<"networks">> \in Seq(Words)
    BY DEF Words
  <2>2. QED
    BY <2>1 DEF HostIds
<1>3. \A id \in MainIds : id \in Seq(Words)
  <2>1. /\ <<"memory", "usage">> \in Seq(Words)
        /\ <<"system", "uptime">> \in Seq(Words)
        /\ <<"living", "room", "light">> \in Seq(Words)
        /\ <<"log", "text">> \in Seq(Words)
        /\ <<"server", "mode">> \in Seq(Words)
        /\ <<"some", "number">> \in Seq(Words)
        /\ <<"some", "button">> \in Seq(Words)
    BY DEF Words
  <2>2. QED
    BY <2>1 DEF MainIds
<1>4. \A id \in DependentIds : id \in Seq(Words)
  <2>1. /\ <<"some", "text">> \in Seq(Words)
    BY DEF Words
  <2>2. QED
    BY <2>1 DEF DependentIds
<1>5. \A id \in Ids : LastWord(id) \notin {"attributes", "brightness"}
  BY DEF Ids, ContainerIds, HostIds, MainIds, DependentIds, LastWord
<1>6. \A id \in Ids : Len(id) >= 1
  BY DEF Ids, ContainerIds, HostIds, MainIds, DependentIds
<1>7. QED
  BY <1>1, <1>2, <1>3, <1>4, <1>5, <1>6 DEF Ids, IsId

LEMMA SlugsAreWords ==
  /\ Prefix \in Seq(Words) /\ Host \in Seq(Words)
  /\ \A n \in Names : Slug[n] \in Seq(Words)
<1>1. \A s \in Seq(STRING) : s \in Seq(Words)
  BY DEF Words
<1>2. QED
  BY <1>1, EntitiesAssumption

\* The topics of a device's entities are apart when their ids are: an id ends
\* in no word that a path is extended by.
LEMMA PathsApart ==
  \A i, j \in Ids : i # j => Paths(i) \cap Paths(j) = {}
<1> SUFFICES ASSUME NEW i \in Ids, NEW j \in Ids, i # j,
                    NEW p \in Paths(i), p \in Paths(j)
             PROVE  FALSE
  OBVIOUS
<1> DEFINE words == {"attributes", "brightness"}
<1>1. \A id \in Ids : id \in Seq(Words) /\ LastWord(id) \notin words
  BY IdsAreWords DEF IsId
<1>w. words \subseteq Words
  BY DEF Words
<1>2. \A id \in Ids, w \in words : LastWord(Append(id, w)) = w
  <2> SUFFICES ASSUME NEW id \in Ids, NEW w \in words PROVE LastWord(Append(id, w)) = w
    OBVIOUS
  <2>1. id \in Seq(Words) /\ w \in Words
    BY <1>1, <1>w
  <2>2. QED
    BY <2>1, AppendProperties DEF LastWord
<1>3. \A id \in Ids, w \in words : i # Append(id, w) /\ j # Append(id, w)
  BY <1>1, <1>2
<1>4. \A v, w \in words : Append(i, v) # Append(j, w)
  <2> SUFFICES ASSUME NEW v \in words, NEW w \in words PROVE Append(i, v) # Append(j, w)
    OBVIOUS
  <2>1. i \in Seq(Words) /\ j \in Seq(Words) /\ v \in Words /\ w \in Words
    BY <1>1, <1>w
  <2>2. QED
    BY <2>1, AppendInjective
<1>5. QED
  BY <1>3, <1>4 DEF Paths

LEMMA TopicsApart ==
  \A c, d : \A i, j \in Ids :
     c # d \/ i # j => EntityTopics(c, i) \cap EntityTopics(d, j) = {}
BY PathsApart DEF EntityTopics

Uid(device, id) == device \o id

\* Two names of which one is followed by the id of an entity and the other by
\* that of another are the same from the end.
LEMMA SameEnd ==
  \A s, t \in Seq(Words) : \A i, j \in Ids :
     Uid(s, i) = Uid(t, j) => LastWord(i) = LastWord(j)
<1> SUFFICES ASSUME NEW s \in Seq(Words), NEW t \in Seq(Words), NEW i \in Ids, NEW j \in Ids,
                    s \o i = t \o j
             PROVE  LastWord(i) = LastWord(j)
  BY DEF Uid
<1>1. i \in Seq(Words) /\ j \in Seq(Words) /\ Len(i) >= 1 /\ Len(j) >= 1
  BY IdsAreWords DEF IsId
<1>2. /\ Len(s \o i) = Len(s) + Len(i)
      /\ \A x \in 1..Len(s) + Len(i) :
            (s \o i)[x] = IF x <= Len(s) THEN s[x] ELSE i[x - Len(s)]
  BY <1>1, ConcatProperties
<1>3. /\ Len(t \o j) = Len(t) + Len(j)
      /\ \A x \in 1..Len(t) + Len(j) :
            (t \o j)[x] = IF x <= Len(t) THEN t[x] ELSE j[x - Len(t)]
  BY <1>1, ConcatProperties
<1>4. Len(s) \in Nat /\ Len(t) \in Nat /\ Len(i) \in Nat /\ Len(j) \in Nat
  BY <1>1, LenProperties
<1>5. (s \o i)[Len(s) + Len(i)] = LastWord(i)
  BY <1>1, <1>2, <1>4 DEF LastWord
<1>6. (t \o j)[Len(t) + Len(j)] = LastWord(j)
  BY <1>1, <1>3, <1>4 DEF LastWord
<1>7. QED
  BY <1>2, <1>3, <1>5, <1>6

\* The two ids of a container's entities that end in the same word.
LEMMA SameLastWord ==
  \A i, j \in ContainerIds :
     LastWord(i) = LastWord(j) =>
        \/ i = j
        \/ i = <<"logs">> /\ j = <<"get", "logs">>
        \/ i = <<"get", "logs">> /\ j = <<"logs">>
BY DEF ContainerIds, LastWord

LEMMA HostWords ==
  \A i \in ContainerIds, j \in HostIds : LastWord(i) # LastWord(j)
BY DEF ContainerIds, HostIds, LastWord

\* Home Assistant would take one for the other.
Clash(e, f) == Told(e) \cap Told(f) # {} \/ unique_id(e.details) = unique_id(f.details)

LEMMA ClashIsSymmetric == \A e, f : Clash(e, f) <=> Clash(f, e)
BY DEF Clash

LEMMA ClashesIs ==
  \A c, d \in AllDevices :
     c \in Clashes[d] <=>
        \/ c # d /\ Device(c).identifier = Device(d).identifier
        \/ \E e \in Device(c).entities, f \in Device(d).entities :
              (c # d \/ e # f) /\ Clash(e, f)
BY DEF Clashes, Clash

\* What it takes for two entities to clash.
LEMMA ClashCases ==
  \A e, f, c, d : \A i, j \in Ids :
     IsEntity(e, c, i) /\ IsEntity(f, d, j) /\ Clash(e, f) =>
        (c = d /\ i = j) \/ Uid(c, i) = Uid(d, j)
<1> SUFFICES ASSUME NEW e, NEW f, NEW c, NEW d, NEW i \in Ids, NEW j \in Ids,
                    IsEntity(e, c, i), IsEntity(f, d, j), Clash(e, f)
             PROVE  (c = d /\ i = j) \/ Uid(c, i) = Uid(d, j)
  OBVIOUS
<1>1. Told(e) \cap Told(f) # {} => c = d /\ i = j
  BY TopicsApart DEF IsEntity
<1>2. QED
  BY <1>1 DEF Clash, unique_id, Uid, IsEntity

LEMMA WithinDevice ==
  ASSUME NEW device, NEW ids \in SUBSET Ids, HasEntities(device, ids),
         device.identifier \in Seq(Words),
         NEW e \in device.entities, NEW f \in device.entities, e # f
  PROVE  ~Clash(e, f)
<1>1. PICK i \in ids : IsEntity(e, device.identifier, i)
  BY DEF HasEntities
<1>2. PICK j \in ids : IsEntity(f, device.identifier, j)
  BY DEF HasEntities
<1>3. i # j
  BY <1>1, <1>2 DEF HasEntities, IsEntity
<1>4. i \in Seq(Words) /\ j \in Seq(Words)
  BY IdsAreWords DEF IsId
<1>5. Uid(device.identifier, i) # Uid(device.identifier, j)
  BY <1>3, <1>4, ConcatSimplifications DEF Uid
<1>6. QED
  BY <1>1, <1>2, <1>3, <1>5, ClashCases

\* No entity of the host's device ends in the word of one of a container's.
LEMMA HostApart ==
  \A n \in Names : \A e \in ContainerDevice(n).entities, f \in HostDevice.entities :
     ~Clash(e, f)
<1> SUFFICES ASSUME NEW n \in Names, NEW e \in ContainerDevice(n).entities,
                    NEW f \in HostDevice.entities
             PROVE  ~Clash(e, f)
  OBVIOUS
<1>1. PICK i \in ContainerIds : IsEntity(e, Prefix \o Slug[n], i)
  <2>1. /\ HasEntities(ContainerDevice(n), ContainerIds)
        /\ ContainerDevice(n).identifier = Prefix \o Slug[n]
    BY ContainerEntities
  <2>2. \E i \in ContainerIds : IsEntity(e, ContainerDevice(n).identifier, i)
    BY <2>1 DEF HasEntities
  <2>3. QED
    BY <2>1, <2>2
<1>2. PICK j \in HostIds : IsEntity(f, Host, j)
  BY HostEntities DEF HasEntities
<1>3. i \in Ids /\ j \in Ids
  BY DEF Ids
<1>4. LastWord(i) # LastWord(j)
  BY HostWords
<1> DEFINE c == Prefix \o Slug[n]
<1>5. c \in Seq(Words) /\ Host \in Seq(Words)
  BY SlugsAreWords, ConcatProperties
<1> HIDE DEF c
<1>6. Uid(c, i) # Uid(Host, j)
  BY <1>3, <1>4, <1>5, SameEnd
<1>7. QED
  BY <1>1, <1>2, <1>3, <1>4, <1>6, ClashCases DEF c

LEMMA SampleApart ==
  \A e \in MainDevice.entities, f \in DependentDevice.entities : ~Clash(e, f)
<1> SUFFICES ASSUME NEW e \in MainDevice.entities, NEW f \in DependentDevice.entities
             PROVE  ~Clash(e, f)
  OBVIOUS
<1> DEFINE c == <<"sample">>
           d == <<"dependent", "device">>
<1>1. PICK i \in MainIds : IsEntity(e, c, i)
  BY MainEntities DEF HasEntities
<1>2. PICK j \in DependentIds : IsEntity(f, d, j)
  BY DependentEntities DEF HasEntities
<1>3. i \in Ids /\ j \in Ids
  BY DEF Ids
<1>4. i \in Seq(Words) /\ j \in Seq(Words)
  BY <1>3, IdsAreWords DEF IsId
<1>5. /\ c \in Seq(Words) /\ Len(c) = 1 /\ c[1] = "sample"
      /\ d \in Seq(Words) /\ Len(d) = 2 /\ d[1] = "dependent"
  BY DEF Words
<1> HIDE DEF c, d
<1>6. (c \o i)[1] = "sample"
  <2>1. Len(i) \in Nat
    BY <1>4, LenProperties
  <2>2. 1 \in 1..Len(c) + Len(i)
    BY <1>5, <2>1
  <2>3. QED
    BY <1>4, <1>5, <2>2, ConcatProperties
<1>7. (d \o j)[1] = "dependent"
  <2>1. Len(j) \in Nat
    BY <1>4, LenProperties
  <2>2. 1 \in 1..Len(d) + Len(j)
    BY <1>5, <2>1
  <2>3. QED
    BY <1>4, <1>5, <2>2, ConcatProperties
<1>8. c # d /\ Uid(c, i) # Uid(d, j)
  BY <1>5, <1>6, <1>7 DEF Uid
<1>9. QED
  BY <1>1, <1>2, <1>3, <1>8, ClashCases

\* Two names of which the slugs are the same, or the one's is the other's
\* followed by the word that tells the id of Get Logs from that of Logs.
SlugsMeet(m, n) ==
  \/ Slug[m] = Slug[n]
  \/ Slug[m] = Append(Slug[n], "get")
  \/ Slug[n] = Append(Slug[m], "get")

LEMMA GetLogs ==
  ASSUME NEW s \in Seq(Words)
  PROVE  /\ Append(s, "get") \in Seq(Words)
         /\ s \o <<"get", "logs">> = Append(s, "get") \o <<"logs">>
<1>1. "get" \in Words /\ <<"get">> \in Seq(Words) /\ <<"logs">> \in Seq(Words)
  BY DEF Words
<1>2. Append(s, "get") \in Seq(Words) /\ Append(s, "get") = s \o <<"get">>
  BY <1>1, AppendProperties, AppendIsConcat
<1>3. (s \o <<"get">>) \o <<"logs">> = s \o (<<"get">> \o <<"logs">>)
  BY <1>1, ConcatAssociative
<1>4. <<"get">> \o <<"logs">> = <<"get", "logs">>
  <2> DEFINE u == <<"get">> \o <<"logs">>
             v == <<"get", "logs">>
  <2>1. u \in Seq(Words) /\ Len(u) = 2 /\ u[1] = "get" /\ u[2] = "logs"
    BY <1>1, ConcatProperties
  <2>2. v \in Seq(Words) /\ Len(v) = 2 /\ v[1] = "get" /\ v[2] = "logs"
    BY DEF Words
  <2> HIDE DEF u, v
  <2>3. \A x \in 1..Len(u) : u[x] = v[x]
    BY <2>1, <2>2
  <2>4. u = v
    BY <2>1, <2>2, <2>3, SeqEqual
  <2>5. QED
    BY <2>4 DEF u, v
<1>5. QED
  BY <1>2, <1>3, <1>4

\* The prefix changes nothing.
LEMMA WithPrefix ==
  ASSUME NEW s \in Seq(Words), NEW t \in Seq(Words)
  PROVE  /\ Prefix \o s \in Seq(Words) /\ Prefix \o t \in Seq(Words)
         /\ (Prefix \o s = Prefix \o t) <=> (s = t)
         /\ Append(Prefix \o s, "get") = Prefix \o Append(s, "get")
<1>1. Prefix \in Seq(Words) /\ "get" \in Words /\ <<"get">> \in Seq(Words)
  BY SlugsAreWords DEF Words
<1>2. Prefix \o s \in Seq(Words) /\ Prefix \o t \in Seq(Words)
  BY <1>1, ConcatProperties
<1>3. (Prefix \o s = Prefix \o t) <=> (s = t)
  BY <1>1, ConcatSimplifications
<1>4. Append(Prefix \o s, "get") = (Prefix \o s) \o <<"get">>
  BY <1>1, <1>2, AppendIsConcat
<1>5. Append(s, "get") = s \o <<"get">>
  BY <1>1, AppendIsConcat
<1>6. (Prefix \o s) \o <<"get">> = Prefix \o (s \o <<"get">>)
  BY <1>1, ConcatAssociative
<1>7. QED
  BY <1>2, <1>3, <1>4, <1>5, <1>6

LEMMA ContainersApart ==
  \A m, n \in Names : m # n /\ ~SlugsMeet(m, n) =>
     \A e \in ContainerDevice(m).entities, f \in ContainerDevice(n).entities : ~Clash(e, f)
<1> SUFFICES ASSUME NEW m \in Names, NEW n \in Names, ~SlugsMeet(m, n),
                    NEW e \in ContainerDevice(m).entities, NEW f \in ContainerDevice(n).entities,
                    Clash(e, f)
             PROVE  FALSE
  OBVIOUS
<1> DEFINE c == Prefix \o Slug[m]
           d == Prefix \o Slug[n]
<1>1. /\ HasEntities(ContainerDevice(m), ContainerIds) /\ ContainerDevice(m).identifier = c
      /\ HasEntities(ContainerDevice(n), ContainerIds) /\ ContainerDevice(n).identifier = d
  BY ContainerEntities
<1>2. Slug[m] \in Seq(Words) /\ Slug[n] \in Seq(Words)
  BY SlugsAreWords
<1>3. /\ c \in Seq(Words) /\ d \in Seq(Words)
      /\ c # d /\ c # Append(d, "get") /\ d # Append(c, "get")
  <2>1. Append(Slug[m], "get") \in Seq(Words) /\ Append(Slug[n], "get") \in Seq(Words)
    BY <1>2, GetLogs
  <2>2. c \in Seq(Words) /\ d \in Seq(Words) /\ c # d
    BY <1>2, WithPrefix DEF SlugsMeet
  <2>3. c # Append(d, "get")
    <3>1. Append(d, "get") = Prefix \o Append(Slug[n], "get")
      BY <1>2, WithPrefix
    <3>2. Prefix \o Slug[m] # Prefix \o Append(Slug[n], "get")
      BY <1>2, <2>1, WithPrefix DEF SlugsMeet
    <3>3. QED
      BY <3>1, <3>2
  <2>4. d # Append(c, "get")
    <3>1. Append(c, "get") = Prefix \o Append(Slug[m], "get")
      BY <1>2, WithPrefix
    <3>2. Prefix \o Slug[n] # Prefix \o Append(Slug[m], "get")
      BY <1>2, <2>1, WithPrefix DEF SlugsMeet
    <3>3. QED
      BY <3>1, <3>2
  <2>5. QED
    BY <2>2, <2>3, <2>4
<1> HIDE DEF c, d
<1>4. PICK i \in ContainerIds : IsEntity(e, c, i)
  BY <1>1 DEF HasEntities
<1>5. PICK j \in ContainerIds : IsEntity(f, d, j)
  BY <1>1 DEF HasEntities
<1>6. i \in Ids /\ j \in Ids
  BY DEF Ids
<1>7. Uid(c, i) = Uid(d, j)
  BY <1>3, <1>4, <1>5, <1>6, ClashCases
<1>8. LastWord(i) = LastWord(j)
  BY <1>3, <1>6, <1>7, SameEnd
<1>9. i \in Seq(Words) /\ j \in Seq(Words) /\ <<"logs">> \in Seq(Words)
  BY <1>6, IdsAreWords DEF IsId, Words
<1>10. CASE i = j
  BY <1>3, <1>7, <1>9, <1>10, ConcatSimplifications DEF Uid
<1>11. CASE i = <<"logs">> /\ j = <<"get", "logs">>
  <2>1. c \o <<"logs">> = Append(d, "get") \o <<"logs">> /\ Append(d, "get") \in Seq(Words)
    BY <1>3, <1>7, <1>11, GetLogs DEF Uid
  <2>2. QED
    BY <1>3, <1>9, <2>1, ConcatSimplifications
<1>12. CASE i = <<"get", "logs">> /\ j = <<"logs">>
  <2>1. Append(c, "get") \o <<"logs">> = d \o <<"logs">> /\ Append(c, "get") \in Seq(Words)
    BY <1>3, <1>7, <1>12, GetLogs DEF Uid
  <2>2. QED
    BY <1>3, <1>9, <2>1, ConcatSimplifications
<1>13. QED
  BY <1>8, <1>10, <1>11, <1>12, SameLastWord

\* The entities that meet are there: the two Logs, or Logs and Get Logs.
LEMMA ContainersMeet ==
  \A m, n \in Names : Slug[m] = Slug[n] \/ Slug[m] = Append(Slug[n], "get") =>
     \E e \in ContainerDevice(m).entities, f \in ContainerDevice(n).entities : Clash(e, f)
<1> SUFFICES ASSUME NEW m \in Names, NEW n \in Names,
                    Slug[m] = Slug[n] \/ Slug[m] = Append(Slug[n], "get")
             PROVE  \E e \in ContainerDevice(m).entities, f \in ContainerDevice(n).entities :
                       Clash(e, f)
  OBVIOUS
<1> DEFINE c == ContainerIdentifier(m)
           d == ContainerIdentifier(n)
           logs == Sensor(c, <<"logs">>)
           other == Sensor(d, <<"logs">>)
           get_logs == Button(d, <<"get", "logs">>)
<1>1. logs \in ContainerDevice(m).entities
  BY DEF ContainerDevice
<1>2. other \in ContainerDevice(n).entities /\ get_logs \in ContainerDevice(n).entities
  BY DEF ContainerDevice
<1>3. /\ unique_id(logs.details) = c \o <<"logs">>
      /\ unique_id(other.details) = d \o <<"logs">>
      /\ unique_id(get_logs.details) = d \o <<"get", "logs">>
  <2>1. logs.details.device = c /\ logs.details.id = <<"logs">>
    BY SensorParts
  <2>2. other.details.device = d /\ other.details.id = <<"logs">>
    BY SensorParts
  <2>3. get_logs.details.device = d /\ get_logs.details.id = <<"get", "logs">>
    BY CommandedParts DEF Button
  <2> HIDE DEF logs, other, get_logs, c, d
  <2>4. QED
    BY <2>1, <2>2, <2>3 DEF unique_id
<1>4. Slug[n] \in Seq(Words)
  BY SlugsAreWords
<1> HIDE DEF logs, other, get_logs
<1>5. CASE Slug[m] = Slug[n]
  BY <1>1, <1>2, <1>3, <1>5 DEF ContainerIdentifier, Clash
<1>6. CASE Slug[m] = Append(Slug[n], "get")
  <2>1. c = Append(d, "get") /\ d \in Seq(Words)
    BY <1>4, <1>6, WithPrefix DEF ContainerIdentifier
  <2> HIDE DEF c, d
  <2>2. c \o <<"logs">> = d \o <<"get", "logs">>
    BY <2>1, GetLogs
  <2>3. QED
    BY <1>1, <1>2, <1>3, <2>2 DEF Clash
<1>7. QED
  BY <1>5, <1>6

\* Of two containers Home Assistant takes an entity of one for one of the other
\* when their slugs meet, and only then, whatever the prefix and the containers'
\* names (mod.rs:226-254, container_device.rs:107).
THEOREM NamesThatClash ==
  \A m, n \in Names : m # n => (m \in Clashes[n] <=> SlugsMeet(m, n))
<1> SUFFICES ASSUME NEW m \in Names, NEW n \in Names, m # n
             PROVE  m \in Clashes[n] <=> SlugsMeet(m, n)
  OBVIOUS
<1>1. Device(m) = ContainerDevice(m) /\ Device(n) = ContainerDevice(n)
  BY Devices
<1>2. m \in Clashes[n] <=>
        \/ ContainerDevice(m).identifier = ContainerDevice(n).identifier
        \/ \E e \in ContainerDevice(m).entities, f \in ContainerDevice(n).entities : Clash(e, f)
  BY <1>1, ClashesIs DEF AllDevices
<1>3. ContainerDevice(m).identifier = ContainerDevice(n).identifier => SlugsMeet(m, n)
  <2>1. /\ ContainerDevice(m).identifier = Prefix \o Slug[m]
        /\ ContainerDevice(n).identifier = Prefix \o Slug[n]
    BY ContainerEntities
  <2>2. Slug[m] \in Seq(Words) /\ Slug[n] \in Seq(Words)
    BY SlugsAreWords
  <2>3. Prefix \o Slug[m] = Prefix \o Slug[n] => Slug[m] = Slug[n]
    BY <2>2, WithPrefix
  <2>4. QED
    BY <2>1, <2>3 DEF SlugsMeet
<1>4. SlugsMeet(m, n) =>
        \E e \in ContainerDevice(m).entities, f \in ContainerDevice(n).entities : Clash(e, f)
  BY ContainersMeet, ClashIsSymmetric DEF SlugsMeet
<1>5. QED
  BY <1>2, <1>3, <1>4, ContainersApart

\* Devices that can be there together have identifiers and entities that are
\* apart.
SlugsApart ==
  /\ \A m, n \in Names : m # n => ~SlugsMeet(m, n)
  /\ \A n \in Names : ContainerIdentifier(n) # Host

Together == Registered \subseteq Names \cup {"host"} \/ Registered \subseteq Sample

\* What a device is registered under: a container's under its identifier, by
\* the first discovery, or under its name, by a scan.
Keyed ==
  \A k \in DOMAIN devices :
     \/ devices[k] \in Names /\ k \in {Name[devices[k]], ContainerIdentifier(devices[k])}
     \/ devices[k] \in AllDevices \ Names /\ k = Device(devices[k]).identifier

LEMMA IdentifiersApart ==
  SlugsApart =>
    \A c, d \in AllDevices :
       /\ c # d
       /\ {c, d} \subseteq Names \cup {"host"} \/ {c, d} \subseteq Sample
       => Device(c).identifier # Device(d).identifier
<1> SUFFICES ASSUME SlugsApart, NEW c \in AllDevices, NEW d \in AllDevices, c # d,
                    {c, d} \subseteq Names \cup {"host"} \/ {c, d} \subseteq Sample
             PROVE  Device(c).identifier # Device(d).identifier
  OBVIOUS
<1>1. CASE c \in Names /\ d \in Names
  <2>1. Device(c).identifier = Prefix \o Slug[c] /\ Device(d).identifier = Prefix \o Slug[d]
    BY <1>1, ContainerEntities, Devices
  <2>2. Slug[c] # Slug[d]
    BY <1>1 DEF SlugsApart, SlugsMeet
  <2>3. Slug[c] \in Seq(Words) /\ Slug[d] \in Seq(Words)
    BY <1>1, SlugsAreWords
  <2>4. Prefix \o Slug[c] = Prefix \o Slug[d] => Slug[c] = Slug[d]
    BY <2>3, WithPrefix
  <2>5. QED
    BY <2>1, <2>2, <2>4
<1>2. ASSUME NEW n \in Names
      PROVE  Device(n).identifier # Device("host").identifier
  <2>1. Device(n).identifier = ContainerIdentifier(n)
    BY ContainerEntities, Devices DEF ContainerIdentifier
  <2>2. Device("host").identifier = Host
    BY HostEntities, Devices
  <2>3. QED
    BY <2>1, <2>2 DEF SlugsApart
<1>3. Device("main").identifier # Device("dependent").identifier
  <2>1. <<"sample">> # <<"dependent", "device">>
    OBVIOUS
  <2>2. QED
    BY <2>1, MainEntities, DependentEntities, Devices
<1>4. CASE {c, d} \subseteq Sample
  BY <1>3, <1>4 DEF Sample
<1>5. CASE {c, d} \subseteq Names \cup {"host"}
  BY <1>1, <1>2, <1>5
<1>6. QED
  BY <1>4, <1>5

LEMMA EntitiesApart ==
  SlugsApart =>
    \A c, d \in AllDevices :
       {c, d} \subseteq Names \cup {"host"} \/ {c, d} \subseteq Sample =>
          \A e \in Device(c).entities, f \in Device(d).entities :
             c # d \/ e # f => ~Clash(e, f)
<1> SUFFICES ASSUME SlugsApart, NEW k \in AllDevices, NEW l \in AllDevices,
                    {k, l} \subseteq Names \cup {"host"} \/ {k, l} \subseteq Sample,
                    NEW e \in Device(k).entities, NEW f \in Device(l).entities,
                    k # l \/ e # f
             PROVE  ~Clash(e, f)
  OBVIOUS
<1>1. CASE k = l
  <2>1. PICK ids \in SUBSET Ids :
           HasEntities(Device(k), ids) /\ Device(k).identifier \in Seq(Words)
    <3>1. CASE k \in Names
      <4>1. /\ HasEntities(Device(k), ContainerIds)
            /\ Device(k).identifier = Prefix \o Slug[k]
        BY <3>1, ContainerEntities, Devices
      <4>2. Prefix \o Slug[k] \in Seq(Words)
        BY <3>1, SlugsAreWords, ConcatProperties
      <4>3. QED
        BY <4>1, <4>2 DEF Ids
    <3>2. CASE k = "host"
      BY <3>2, HostEntities, Devices, SlugsAreWords DEF Ids
    <3>3. CASE k = "main"
      <4>1. <<"sample">> \in Seq(Words)
        BY DEF Words
      <4>2. QED
        BY <3>3, <4>1, MainEntities, Devices DEF Ids
    <3>4. CASE k = "dependent"
      <4>1. <<"dependent", "device">> \in Seq(Words)
        BY DEF Words
      <4>2. QED
        BY <3>4, <4>1, DependentEntities, Devices DEF Ids
    <3>5. QED
      BY <3>1, <3>2, <3>3, <3>4 DEF AllDevices, Sample
  <2>2. QED
    BY <1>1, <2>1, WithinDevice
<1>2. CASE k \in Names /\ l \in Names /\ k # l
  BY <1>2, ContainersApart, Devices DEF SlugsApart
<1>3. CASE k \in Names /\ l = "host"
  BY <1>3, HostApart, Devices
<1>4. CASE k = "host" /\ l \in Names
  BY <1>4, HostApart, ClashIsSymmetric, Devices
<1>5. CASE k = "main" /\ l = "dependent"
  BY <1>5, SampleApart, Devices
<1>6. CASE k = "dependent" /\ l = "main"
  BY <1>6, SampleApart, ClashIsSymmetric, Devices
<1>7. QED
  BY <1>1, <1>2, <1>3, <1>4, <1>5, <1>6 DEF Sample

LEMMA TogetherSound == SlugsApart /\ Together /\ Keyed => DiscoveryIsSound
<1> SUFFICES ASSUME SlugsApart, Together, Keyed PROVE DiscoveryIsSound
  OBVIOUS
<1>1. Registered \subseteq AllDevices
  BY DEF Keyed, Registered, DevicesOf, AllDevices
<1>2. \A d \in Registered : ~Unannounced[d]
  BY <1>1, NoneUnannounced
<1>3. ASSUME NEW c \in Registered, NEW d \in Registered PROVE c \notin Clashes[d]
  <2>1. {c, d} \subseteq Names \cup {"host"} \/ {c, d} \subseteq Sample
    BY DEF Together
  <2>2. c # d => Device(c).identifier # Device(d).identifier
    BY <1>1, <2>1, IdentifiersApart
  <2>3. \A e \in Device(c).entities, f \in Device(d).entities : c # d \/ e # f => ~Clash(e, f)
    BY <1>1, <2>1, EntitiesApart
  <2>4. QED
    BY <1>1, <2>2, <2>3, ClashesIs
<1>4. ASSUME NEW k \in DOMAIN devices, NEW l \in DOMAIN devices, k # l, devices[k] = devices[l]
      PROVE  \E n \in Names : devices[k] = n /\ Name[n] # ContainerIdentifier(n)
  BY <1>4 DEF Keyed
<1>5. QED
  BY <1>2, <1>3, <1>4 DEF DiscoveryIsSound

(***************************************************************************)
(* What a device announces, subscribes to and takes                        *)
(***************************************************************************)

LEMMA HandlersAre ==
  \A d \in AllDevices : \A topic \in Topics : \A kind :
     kind \in Handlers[d][topic] <=>
        \E h \in Device(d).handlers : h.kind = kind /\ topic \in h.takes
BY DEF Handlers

LEMMA TopicsAre == \A d \in AllDevices : command_topics[d] \subseteq Topics
BY DEF Topics

\* A device subscribes to what it announces.
LEMMA AnnouncedIsSubscribed == \A d \in AllDevices : announced[d] \subseteq command_topics[d]
<1>1. \A d \in AllDevices : \A e \in Device(d).entities : e.commands \subseteq e.details.command_topics
  <2>1. \A n \in Names : \A e \in Device(n).entities : e.commands \subseteq e.details.command_topics
    BY ContainerEntities, Devices DEF HasEntities, IsEntity
  <2>2. \A e \in Device("host").entities : e.commands \subseteq e.details.command_topics
    BY HostEntities, Devices DEF HasEntities, IsEntity
  <2>3. \A e \in Device("main").entities : e.commands \subseteq e.details.command_topics
    BY MainEntities, Devices DEF HasEntities, IsEntity
  <2>4. \A e \in Device("dependent").entities : e.commands \subseteq e.details.command_topics
    BY DependentEntities, Devices DEF HasEntities, IsEntity
  <2>5. QED
    BY <2>1, <2>2, <2>3, <2>4 DEF AllDevices, Sample
<1>2. QED
  BY <1>1 DEF announced, command_topics

\* The commands of a container: what is announced has a handler, and what a
\* handler takes was announced.
LEMMA ContainerCommands ==
  \A n \in Names :
     \A topic \in Topics : Handlers[n][topic] # {} <=> topic \in announced[n]
<1> TAKE n \in Names
<1> DEFINE device == ContainerIdentifier(n)
           log_text == Sensor(device, <<"logs">>)
           get_logs == Button(device, <<"get", "logs">>)
           used_memory == Sensor(device, <<"used", "memory">>)
           used_cpus == Sensor(device, <<"used", "cpus">>)
           status == Sensor(device, <<"run", "status">>)
           image == Sensor(device, <<"image">>)
           restart == can_be_made_unavailable(Button(device, <<"restart">>))
           start == can_be_made_unavailable(Button(device, <<"start">>))
           stop == can_be_made_unavailable(Button(device, <<"stop">>))
           remove == Button(device, <<"remove">>)
           health == Sensor(device, <<"health">>)
           sensors == {log_text, used_memory, used_cpus, status, image, health}
           buttons == {get_logs, restart, start, stop, remove}
<1>1. \A e \in sensors : e.commands = {}
  BY SensorParts
<1>2. \A e \in buttons : e.commands = {CommandTopic(e.details)}
  BY CommandedParts, UnavailableParts DEF Button, CommandTopic, Topic, get_topic_path
<1>3. ContainerDevice(n).entities = sensors \cup buttons
  BY DEF ContainerDevice
<1>4. ContainerDevice(n).handlers =
        {Gives("logText", {StateOf(log_text)}),
         Takes("getLogs", get_logs),
         Gives("stats", {StateOf(used_memory), StateOf(used_cpus)}),
         Gives("status", {StateOf(status), StateOf(health)} \cup
                         {AvailabilityTopic(b.details) : b \in {start, restart, stop}}),
         Takes("restart", restart),
         Takes("start", start),
         Takes("stop", stop),
         Takes("remove", remove),
         Gives("static", {StateOf(image)})}
  BY DEF ContainerDevice
<1> HIDE DEF log_text, get_logs, used_memory, used_cpus, status, image, restart, start, stop,
             remove, health
<1>5. announced[n] = {CommandTopic(e.details) : e \in buttons}
  <2>1. announced[n] = UNION {e.commands : e \in sensors \cup buttons}
    BY <1>3, Devices DEF AllDevices, announced
  <2> HIDE DEF sensors, buttons
  <2>2. QED
    BY <1>1, <1>2, <2>1
<1>6. /\ \A kind, topics : Gives(kind, topics).takes = {}
      /\ \A kind, e : Takes(kind, e).takes = {CommandTopic(e.details)}
  BY DEF Gives, Takes
<1>7. \A h \in ContainerDevice(n).handlers : \A topic \in h.takes : topic \in announced[n]
  BY <1>4, <1>5, <1>6
<1>8. \A e \in buttons :
         \E h \in ContainerDevice(n).handlers : CommandTopic(e.details) \in h.takes
  BY <1>4, <1>6
<1>9. \A topic \in Topics : Handlers[n][topic] # {} <=>
                   \E h \in ContainerDevice(n).handlers : topic \in h.takes
  BY HandlersAre, Devices DEF AllDevices
<1>10. QED
  BY <1>5, <1>7, <1>8, <1>9

\* The host's device announces no command.
LEMMA HostCommands == announced["host"] = {}
<1>1. \A e \in HostDevice.entities : e.commands = {}
  BY SensorParts, SensorWithAttributesParts DEF HostDevice
<1>2. QED
  BY <1>1, Devices DEF AllDevices, announced

(***************************************************************************)
(* The system                                                              *)
(***************************************************************************)

LEMMA StepCases ==
  ASSUME NEW P, Next,
         ASSUME InitializeDiscovery PROVE P,
         ASSUME InitializeSubscriptions PROVE P,
         ASSUME Receive PROVE P,
         ASSUME NotHandled PROVE P,
         ASSUME SwitchCommand PROVE P,
         ASSUME PublishUpdate PROVE P,
         ASSUME NEW d \in AllDevices, PassOn(d) PROVE P,
         ASSUME NEW d \in AllDevices, Answer(d) PROVE P,
         ASSUME NEW n \in Names, Restart(n) PROVE P,
         ASSUME NEW n \in Names, Stop(n) PROVE P,
         ASSUME NEW n \in Names, StopToRemove(n) PROVE P,
         ASSUME NEW n \in Names, Remove(n) PROVE P,
         ASSUME NEW n \in Names, Fails(n) PROVE P,
         ASSUME AddDevices PROVE P,
         ASSUME RemoveDevices PROVE P,
         ASSUME Announce PROVE P,
         ASSUME Subscribe PROVE P,
         ASSUME Withdraw PROVE P,
         ASSUME ReadSwitch PROVE P,
         ASSUME PublishSwitch PROVE P,
         ASSUME NEW n \in Names, ContainerChanges(n) PROVE P
  PROVE  P
<1>1. ASSUME HandleCommand PROVE P
  BY <1>1 DEF HandleCommand
<1>2. ASSUME Initialize \/ Publish PROVE P
  BY <1>2 DEF Initialize, Publish
<1>3. QED
  BY <1>1, <1>2 DEF Next

\* There is a publisher, and there are commands, once the topics of the first
\* discovery are subscribed.
Phases ==
  /\ traffic \in {"discovery", "subscribe"} => publisher = "off"
  /\ traffic = "discovery" => told = {}
  /\ traffic = "subscribe" => told \subseteq Registered
  /\ command # None => traffic = "serving"

\* What Home Assistant was told of is subscribed, registered or not, or about to
\* be subscribed: between the two steps of DevicesCreated nothing is scanned.
Listening ==
  "publish" \notin env =>
     \A d \in told :
        \/ command_topics[d] \subseteq subscribed
        \/ traffic = "subscribe"
        \/ publisher = "subscribing" /\ d \in DevicesOf(new)

\* Who has passed a command on takes it not, and whose container is about to be
\* removed takes it.
Followed ==
  command # None =>
     /\ command.step = "asking" =>
           \A d \in command.asked \ command.left : Handlers[d][command.topic] = {}
     /\ command.step = "removing" =>
           \A d \in command.left : Handlers[d][command.topic] # {}

RegistryInv == Together /\ Keyed /\ Phases /\ Listening
CommandsInv == TypeOK /\ RegistryInv /\ Followed

LEMMA GetThroughIs ==
  \A ds : \A heard \in GetThrough(ds) :
     heard \subseteq ds /\ ("publish" \notin env => heard = ds)
BY DEF GetThrough

LEMMA KeyedRegistered == Keyed => Registered \subseteq AllDevices
BY DEF Keyed, Registered, DevicesOf, AllDevices

LEMMA FirstKeys ==
  \A ds \in SUBSET AllDevices : devices \in FirstDiscovery(ds) =>
     /\ Keyed /\ Registered \subseteq ds
     /\ DOMAIN devices \subseteq Identifiers(AllDevices)
<1> SUFFICES ASSUME NEW ds \in SUBSET AllDevices, devices \in FirstDiscovery(ds)
             PROVE  /\ Keyed /\ Registered \subseteq ds
                    /\ DOMAIN devices \subseteq Identifiers(AllDevices)
  OBVIOUS
<1>1. /\ DOMAIN devices = Identifiers(ds)
      /\ \A k \in DOMAIN devices : devices[k] \in ds /\ Device(devices[k]).identifier = k
  BY DEF FirstDiscovery
<1>2. \A n \in Names : Device(n).identifier = ContainerIdentifier(n)
  BY ContainerEntities, Devices DEF ContainerIdentifier
<1>3. Keyed
  BY <1>1, <1>2 DEF Keyed
<1>4. QED
  BY <1>1, <1>3 DEF Registered, DevicesOf, Identifiers

LEMMA InvInit == Init => CommandsInv
<1> SUFFICES ASSUME Init PROVE CommandsInv
  OBVIOUS
<1>1. /\ Keyed /\ Together
      /\ DOMAIN devices \subseteq Identifiers(AllDevices)
  <2>1. CASE devices \in FirstDiscovery(Existing \cup {"host"})
    <3>1. Existing \cup {"host"} \in SUBSET AllDevices /\ Existing \subseteq Names
      BY DEF Existing, AllDevices
    <3>2. QED
      BY <2>1, <3>1, FirstKeys DEF Together
  <2>2. CASE devices \in FirstDiscovery(Sample)
    <3>1. Sample \in SUBSET AllDevices
      BY DEF AllDevices
    <3>2. QED
      BY <2>2, <3>1, FirstKeys DEF Together
  <2>3. QED
    BY <2>1, <2>2 DEF Init
<1>2. TypeOK
  <2>1. Registered \subseteq AllDevices
    BY <1>1, KeyedRegistered
  <2>2. QED
    BY <1>1, <2>1 DEF Init, TypeOK
<1>3. Phases /\ Listening /\ Followed
  BY DEF Init, Phases, Listening, Followed
<1>4. QED
  BY <1>1, <1>2, <1>3 DEF CommandsInv, RegistryInv

\* The types of a command that is being dealt with.
CommandTypes ==
  [topic : subscribed, payload : Payloads \cup {None}, asked : SUBSET AllDevices,
   left : SUBSET AllDevices, step : {"asking", "removing", "publishing"}]

LEMMA CommandIs ==
  CommandsInv /\ command # None =>
     /\ command \in CommandTypes
     /\ command.left \subseteq command.asked
     /\ traffic = "serving"
BY DEF CommandsInv, RegistryInv, Phases, TypeOK, CommandTypes

\* A step that leaves the registry alone.
LEMMA RegistryInvKept ==
  CommandsInv /\ UNCHANGED <<env, registry>> /\ (command' # None => traffic' = "serving")
  /\ (traffic' = traffic \/ (command # None /\ traffic' = "failed")) => RegistryInv'
<1> SUFFICES ASSUME CommandsInv, UNCHANGED <<env, registry>>,
                    command' # None => traffic' = "serving",
                    traffic' = traffic \/ (command # None /\ traffic' = "failed")
             PROVE  RegistryInv'
  OBVIOUS
<1>1. /\ env' = env /\ devices' = devices /\ told' = told /\ subscribed' = subscribed
      /\ publisher' = publisher /\ new' = new
  BY DEF registry
<1>2. Registered' = Registered /\ DevicesOf(new)' = DevicesOf(new)
  BY <1>1 DEF Registered, DevicesOf
<1>3. RegistryInv
  BY DEF CommandsInv
<1>4. Together' /\ Keyed'
  BY <1>1, <1>2, <1>3 DEF RegistryInv, Together, Keyed
<1>5. command # None => traffic = "serving"
  BY CommandIs
<1>6. Phases'
  BY <1>1, <1>2, <1>3, <1>5 DEF RegistryInv, Phases
<1>7. Listening'
  BY <1>1, <1>2, <1>3, <1>5 DEF RegistryInv, Listening
<1>8. QED
  BY <1>4, <1>6, <1>7 DEF RegistryInv

\* A step that leaves the registry and the switch alone, and the command or ends
\* it.
LEMMA QuietInv ==
  CommandsInv /\ (command' = command \/ command' = None)
  /\ UNCHANGED <<env, registry>>
  /\ (traffic' = traffic \/ (command # None /\ command' = None /\ traffic' = "failed"))
  /\ engine' \in [Names -> {"absent", "exited", "running"}]
  /\ switch' = switch /\ wanted' = wanted
  /\ last' \in Payloads \cup {None} /\ held' \in Payloads \cup {None}
  /\ shown' \in Payloads \cup {None}
  => CommandsInv'
<1> SUFFICES ASSUME CommandsInv, command' = command \/ command' = None,
                    UNCHANGED <<env, registry>>,
                    traffic' = traffic \/ (command # None /\ command' = None /\ traffic' = "failed"),
                    engine' \in [Names -> {"absent", "exited", "running"}],
                    switch' = switch, wanted' = wanted,
                    last' \in Payloads \cup {None}, held' \in Payloads \cup {None},
                    shown' \in Payloads \cup {None}
             PROVE  CommandsInv'
  OBVIOUS
<1>1. RegistryInv'
  BY RegistryInvKept, CommandIs
<1>2. Followed'
  BY DEF CommandsInv, Followed
<1>3. /\ env' = env /\ devices' = devices /\ told' = told /\ subscribed' = subscribed
      /\ publisher' = publisher /\ new' = new /\ gone' = gone
  BY DEF registry
<1>4. Registered' = Registered
  BY <1>3 DEF Registered, DevicesOf
<1>5. TypeOK'
  BY <1>3, <1>4 DEF CommandsInv, TypeOK
<1>6. QED
  BY <1>1, <1>2, <1>5 DEF CommandsInv

\* A step of the command, the registry being left alone.
LEMMA AskInv ==
  CommandsInv /\ UNCHANGED <<env, registry, traffic, last, held, shown>>
  /\ traffic = "serving"
  /\ engine' \in [Names -> {"absent", "exited", "running"}]
  /\ switch' \in [is_random : BOOLEAN, is_on : BOOLEAN]
  /\ wanted' \in Payloads \cup {None}
  /\ command' \in CommandTypes /\ command'.left \subseteq command'.asked
  /\ Followed'
  => CommandsInv'
<1> SUFFICES ASSUME CommandsInv, UNCHANGED <<env, registry, traffic, last, held, shown>>,
                    traffic = "serving",
                    engine' \in [Names -> {"absent", "exited", "running"}],
                    switch' \in [is_random : BOOLEAN, is_on : BOOLEAN],
                    wanted' \in Payloads \cup {None},
                    command' \in CommandTypes, command'.left \subseteq command'.asked,
                    Followed'
             PROVE  CommandsInv'
  OBVIOUS
<1>0. UNCHANGED <<env, registry>> /\ traffic' = traffic /\ traffic' = "serving"
  OBVIOUS
<1>1. RegistryInv'
  <2>1. CommandsInv
    OBVIOUS
  <2>2. QED
    BY ONLY <1>0, <2>1, RegistryInvKept
<1>2. /\ env' = env /\ devices' = devices /\ told' = told /\ subscribed' = subscribed
      /\ publisher' = publisher /\ new' = new /\ gone' = gone /\ traffic' = traffic
      /\ last' = last /\ held' = held /\ shown' = shown
  BY DEF registry
<1>3. Registered' = Registered
  BY <1>2 DEF Registered, DevicesOf
<1>4. TypeOK'
  BY <1>2, <1>3 DEF CommandsInv, TypeOK, CommandTypes
<1>5. QED
  BY <1>1, <1>4 DEF CommandsInv

\* A step of the publisher, or of the initialization: of the registry and of
\* what is told and subscribed.
LEMMA PublisherInv ==
  CommandsInv /\ UNCHANGED <<env, engine, command, sample>>
  /\ Followed' /\ RegistryInv'
  /\ subscribed' \subseteq Topics /\ (subscribed \subseteq subscribed' \/ command = None)
  /\ DOMAIN devices' \subseteq Seq(STRING) \cup Identifiers(AllDevices)
  /\ told' \subseteq AllDevices
  /\ publisher' \in {"off", "adding", "removing", "announcing", "subscribing", "withdrawing"}
  /\ traffic' \in {"discovery", "subscribe", "serving", "failed"}
  /\ new' \subseteq Seq(STRING) /\ gone' \subseteq AllDevices
  => CommandsInv'
<1> SUFFICES ASSUME CommandsInv, UNCHANGED <<env, engine, command, sample>>,
                    Followed', RegistryInv',
                    subscribed' \subseteq Topics, subscribed \subseteq subscribed' \/ command = None,
                    DOMAIN devices' \subseteq Seq(STRING) \cup Identifiers(AllDevices),
                    told' \subseteq AllDevices,
                    publisher' \in {"off", "adding", "removing", "announcing", "subscribing",
                                    "withdrawing"},
                    traffic' \in {"discovery", "subscribe", "serving", "failed"},
                    new' \subseteq Seq(STRING), gone' \subseteq AllDevices
             PROVE  CommandsInv'
  OBVIOUS
<1>1. command # None => command \in CommandTypes' /\ command.left \subseteq command.asked
  <2> SUFFICES ASSUME command # None
               PROVE  command \in CommandTypes' /\ command.left \subseteq command.asked
    OBVIOUS
  <2>1. command \in CommandTypes /\ command.left \subseteq command.asked
    BY CommandIs
  <2>2. subscribed \subseteq subscribed'
    OBVIOUS
  <2>3. QED
    BY <2>1, <2>2 DEF CommandTypes
<1>2. Registered' \subseteq AllDevices
  BY DEF RegistryInv, Keyed, Registered, DevicesOf, AllDevices
<1>3. /\ env' = env /\ engine' = engine /\ command' = command /\ switch' = switch
      /\ last' = last /\ held' = held /\ shown' = shown /\ wanted' = wanted
  BY DEF sample
<1>4. TypeOK'
  BY <1>1, <1>2, <1>3 DEF CommandsInv, TypeOK, CommandTypes
<1>5. QED
  BY <1>4 DEF CommandsInv

\* The registry is that of before: Together and Keyed only depend on it.
LEMMA SameDevices ==
  CommandsInv /\ devices' = devices => Together' /\ Keyed' /\ Registered' = Registered
BY DEF CommandsInv, RegistryInv, Together, Keyed, Registered, DevicesOf

LEMMA SameCommand == CommandsInv /\ command' = command => Followed'
BY DEF CommandsInv, Followed

LEMMA InitializeInv ==
  CommandsInv /\ (InitializeDiscovery \/ InitializeSubscriptions) => CommandsInv'
<1> SUFFICES ASSUME CommandsInv, InitializeDiscovery \/ InitializeSubscriptions
             PROVE  CommandsInv'
  OBVIOUS
<1>t. TypeOK /\ Together /\ Keyed /\ Phases /\ Listening
  BY DEF CommandsInv, RegistryInv
<1>1. CASE InitializeDiscovery
  <2>1. /\ devices' = devices /\ command' = command /\ subscribed' = subscribed /\ env' = env
        /\ publisher' = publisher /\ new' = new /\ gone' = gone /\ traffic' = "subscribe"
    BY <1>1 DEF InitializeDiscovery
  <2>2. told' \subseteq Registered
    BY <1>1, GetThroughIs DEF InitializeDiscovery
  <2>3. publisher = "off" /\ command = None
    BY <1>1, <1>t DEF InitializeDiscovery, Phases
  <2>4. Together' /\ Keyed' /\ Registered' = Registered /\ Followed'
    BY <2>1, SameDevices, SameCommand
  <2>5. Phases' /\ Listening'
    BY <2>1, <2>2, <2>3, <2>4 DEF Phases, Listening
  <2>6. UNCHANGED <<env, engine, command, sample>>
    BY <1>1 DEF InitializeDiscovery
  <2>7. QED
    BY <1>t, <2>1, <2>2, <2>4, <2>5, <2>6, PublisherInv DEF RegistryInv, TypeOK
<1>2. CASE InitializeSubscriptions
  <2>1. /\ devices' = devices /\ command' = command /\ told' = told /\ env' = env
        /\ new' = new /\ gone' = gone
    BY <1>2 DEF InitializeSubscriptions
  <2>2. PICK heard \in GetThrough(Registered) :
           /\ subscribed' = TopicsOfAll(heard)
           /\ IF heard = Registered THEN traffic' = "serving" /\ publisher' = "adding"
                                    ELSE traffic' = "failed" /\ UNCHANGED publisher
    BY <1>2 DEF InitializeSubscriptions
  <2>3. /\ heard \subseteq Registered /\ heard \subseteq AllDevices
        /\ "publish" \notin env => heard = Registered
    BY <1>t, GetThroughIs, KeyedRegistered
  <2>4. publisher = "off" /\ command = None /\ told \subseteq Registered
    BY <1>2, <1>t DEF InitializeSubscriptions, Phases
  <2>5. Together' /\ Keyed' /\ Registered' = Registered /\ Followed'
    BY <2>1, SameDevices, SameCommand
  <2>6. Phases'
    BY <2>1, <2>2, <2>4 DEF Phases
  <2>7. Listening'
    BY <2>1, <2>2, <2>3, <2>4 DEF Listening, TopicsOfAll
  <2>8. subscribed' \subseteq Topics
    BY <2>2, <2>3, TopicsAre DEF TopicsOfAll
  <2>9. UNCHANGED <<env, engine, command, sample>>
    BY <1>2 DEF InitializeSubscriptions
  <2>10. /\ publisher' \in {"off", "adding"} /\ traffic' \in {"serving", "failed"}
    BY <2>2, <2>4
  <2>11. QED
    BY <1>t, <2>1, <2>4, <2>5, <2>6, <2>7, <2>8, <2>9, <2>10, PublisherInv DEF RegistryInv, TypeOK
<1>3. QED
  BY <1>1, <1>2

LEMMA ScanInv ==
  CommandsInv /\ (AddDevices \/ RemoveDevices) => CommandsInv'
<1> SUFFICES ASSUME CommandsInv, AddDevices \/ RemoveDevices
             PROVE  CommandsInv'
  OBVIOUS
<1>t. TypeOK /\ Together /\ Keyed /\ Phases /\ Listening
  BY DEF CommandsInv, RegistryInv
<1>s. Registered \subseteq AllDevices
  BY <1>t, KeyedRegistered
<1>1. /\ command' = command /\ subscribed' = subscribed /\ told' = told /\ env' = env
      /\ traffic' = traffic /\ UNCHANGED <<env, engine, command, sample>>
  BY DEF AddDevices, RemoveDevices
<1>2. publisher \in {"adding", "removing"} /\ traffic \notin {"discovery", "subscribe"}
  BY <1>t DEF AddDevices, RemoveDevices, Phases
<1>3. Phases' /\ Listening' /\ Followed'
  BY <1>1, <1>2, <1>t, SameCommand DEF Phases, Listening
<1>4. CASE AddDevices
  <2> DEFINE found == {n \in Existing : Name[n] \notin DOMAIN devices}
             added == {Name[n] : n \in found}
  <2>1. /\ new' = added
        /\ devices' = [k \in DOMAIN devices \cup new' |->
                          IF k \in DOMAIN devices THEN devices[k]
                                                  ELSE CHOOSE n \in found : Name[n] = k]
        /\ Registered \cap Sample = {} /\ gone' = gone /\ publisher' = "removing"
    BY <1>4 DEF AddDevices, WithContainers
  <2>2. found \subseteq Names
    BY DEF Existing
  <2> HIDE DEF found
  <2>3. DOMAIN devices' = DOMAIN devices \cup added
    BY <2>1
  <2>4. \A k \in DOMAIN devices : devices'[k] = devices[k]
    BY <2>1
  <2>5. \A k \in DOMAIN devices' : k \notin DOMAIN devices =>
           devices'[k] \in found /\ Name[devices'[k]] = k
    <3> SUFFICES ASSUME NEW k \in DOMAIN devices', k \notin DOMAIN devices
                 PROVE  devices'[k] \in found /\ Name[devices'[k]] = k
      OBVIOUS
    <3>1. \E n \in found : Name[n] = k
      BY <2>3
    <3>2. devices'[k] = CHOOSE n \in found : Name[n] = k
      BY <2>1
    <3>3. QED
      BY <3>1, <3>2
  <2>6. Keyed'
    BY <1>t, <2>2, <2>3, <2>4, <2>5 DEF Keyed
  <2>7. \A d \in Registered' : d \in Registered \/ d \in Names
    BY <2>2, <2>3, <2>4, <2>5 DEF Registered, DevicesOf
  <2>8. Registered \subseteq Names \cup {"host"}
    <3>1. CASE Registered \subseteq Sample
      BY <2>1, <3>1
    <3>2. QED
      BY <1>t, <3>1 DEF Together
  <2>9. Together'
    BY <2>7, <2>8 DEF Together
  <2>10. added \subseteq Seq(STRING)
    BY <2>2, CommandsAssumption
  <2>11. DOMAIN devices' \subseteq Seq(STRING) \cup Identifiers(AllDevices)
    BY <1>t, <2>3, <2>10 DEF TypeOK
  <2>12. QED
    BY <1>t, <1>1, <1>3, <2>1, <2>6, <2>9, <2>10, <2>11, PublisherInv DEF RegistryInv, TypeOK
<1>5. CASE RemoveDevices
  <2> DEFINE missing == {Name[n] : n \in (Registered \cap Names) \ Existing}
  <2>1. /\ gone' = DevicesOf(missing) /\ new' = new
        /\ devices' = [k \in DOMAIN devices \ missing |-> devices[k]]
        /\ publisher' = IF new # {} THEN "announcing" ELSE AfterCreated(gone')
    BY <1>5 DEF RemoveDevices
  <2> HIDE DEF missing
  <2>2. /\ DOMAIN devices' \subseteq DOMAIN devices
        /\ \A k \in DOMAIN devices' : devices'[k] = devices[k]
    BY <2>1
  <2>3. Keyed' /\ Registered' \subseteq Registered
    BY <1>t, <2>2 DEF Keyed, Registered, DevicesOf
  <2>4. Together'
    BY <1>t, <2>3 DEF Together
  <2>5. gone' \subseteq AllDevices
    BY <1>s, <2>1 DEF Registered, DevicesOf
  <2>6. publisher' \in {"announcing", "withdrawing", "adding"}
    BY <2>1 DEF AfterCreated
  <2>7. QED
    BY <1>t, <1>1, <1>3, <2>1, <2>2, <2>3, <2>4, <2>5, <2>6, PublisherInv DEF RegistryInv, TypeOK
<1>6. QED
  BY <1>4, <1>5

LEMMA EventsInv ==
  CommandsInv /\ (Announce \/ Subscribe \/ Withdraw) => CommandsInv'
<1> SUFFICES ASSUME CommandsInv, Announce \/ Subscribe \/ Withdraw
             PROVE  CommandsInv'
  OBVIOUS
<1>t. TypeOK /\ Together /\ Keyed /\ Phases /\ Listening
  BY DEF CommandsInv, RegistryInv
<1>1. /\ command' = command /\ devices' = devices /\ env' = env
      /\ traffic' = traffic /\ UNCHANGED <<env, engine, command, sample>>
  BY DEF Announce, Subscribe, Withdraw
<1>2. publisher # "off" /\ traffic \notin {"discovery", "subscribe"}
  BY <1>t DEF Announce, Subscribe, Withdraw, Phases
<1>3. Together' /\ Keyed' /\ Registered' = Registered /\ Followed'
  BY <1>1, SameDevices, SameCommand
<1>4. Phases'
  BY <1>1, <1>2, <1>t DEF Phases
<1>5. DevicesOf(new) \subseteq AllDevices /\ \A ds : AfterCreated(ds) \in {"withdrawing", "adding"}
  BY <1>t, KeyedRegistered DEF Registered, DevicesOf, AfterCreated
<1>6. CASE Announce
  <2>1. PICK heard \in GetThrough(DevicesOf(new)) :
           /\ told' = told \cup heard
           /\ IF heard = DevicesOf(new)
                 THEN publisher' = "subscribing" /\ UNCHANGED new
                 ELSE publisher' = AfterCreated(gone) /\ new' = {}
    BY <1>6 DEF Announce
  <2>2. heard \subseteq DevicesOf(new) /\ ("publish" \notin env => heard = DevicesOf(new))
    BY GetThroughIs
  <2>3. subscribed' = subscribed /\ gone' = gone /\ publisher = "announcing"
    BY <1>6 DEF Announce
  <2>4. Listening'
    <3> SUFFICES ASSUME "publish" \notin env PROVE Listening'
      BY <1>1 DEF Listening
    <3>1. publisher' = "subscribing" /\ new' = new /\ told' = told \cup DevicesOf(new)
      BY <2>1, <2>2
    <3>2. DevicesOf(new)' = DevicesOf(new)
      BY <1>1, <3>1 DEF DevicesOf
    <3>3. \A d \in told : command_topics[d] \subseteq subscribed
      BY <1>2, <1>t, <2>3 DEF Listening
    <3>4. QED
      BY <2>3, <3>1, <3>2, <3>3 DEF Listening
  <2>5. told' \subseteq AllDevices
    BY <1>t, <1>5, <2>1, <2>2 DEF TypeOK
  <2>6. /\ publisher' \in {"subscribing", "withdrawing", "adding"}
        /\ new' \subseteq Seq(STRING)
    BY <1>t, <1>5, <2>1 DEF TypeOK
  <2>7. QED
    BY <1>t, <1>1, <1>3, <1>4, <2>3, <2>4, <2>5, <2>6, PublisherInv DEF RegistryInv, TypeOK
<1>7. CASE Subscribe
  <2>1. PICK heard \in GetThrough(DevicesOf(new)) : subscribed' = subscribed \cup TopicsOfAll(heard)
    BY <1>7 DEF Subscribe
  <2>2. heard \subseteq DevicesOf(new) /\ ("publish" \notin env => heard = DevicesOf(new))
    BY GetThroughIs
  <2>3. told' = told /\ new' = {} /\ gone' = gone /\ publisher' = AfterCreated(gone)
    BY <1>7 DEF Subscribe
  <2>4. Listening'
    BY <1>1, <1>2, <1>t, <2>1, <2>2, <2>3 DEF Listening, TopicsOfAll
  <2>5. subscribed' \subseteq Topics
    BY <1>t, <1>5, <2>1, <2>2, TopicsAre DEF TypeOK, TopicsOfAll
  <2>6. publisher' \in {"withdrawing", "adding"} /\ new' \subseteq Seq(STRING)
    BY <1>5, <2>3
  <2>7. QED
    BY <1>t, <1>1, <1>3, <1>4, <2>1, <2>3, <2>4, <2>5, <2>6, PublisherInv DEF RegistryInv, TypeOK
<1>8. CASE Withdraw
  <2>1. /\ told' \subseteq told /\ new' = new /\ gone' = {} /\ publisher' = "adding"
        /\ subscribed' = subscribed /\ publisher = "withdrawing"
    BY <1>8 DEF Withdraw
  <2>2. Listening'
    BY <1>1, <1>2, <1>t, <2>1 DEF Listening
  <2>3. QED
    BY <1>t, <1>1, <1>3, <1>4, <2>1, <2>2, PublisherInv DEF RegistryInv, TypeOK
<1>9. QED
  BY <1>6, <1>7, <1>8

LEMMA InvNext == CommandsInv /\ [Next]_vars => CommandsInv'
<1> SUFFICES ASSUME CommandsInv, [Next]_vars PROVE CommandsInv'
  OBVIOUS
<1>t. TypeOK /\ Followed
  BY DEF CommandsInv
<1> DEFINE Goal == CommandsInv'
<1>0. CASE UNCHANGED vars
  <2>1. /\ env' = env /\ registry' = registry /\ traffic' = traffic /\ command' = command
        /\ engine' = engine /\ switch' = switch /\ last' = last /\ held' = held
        /\ shown' = shown /\ wanted' = wanted
    BY <1>0 DEF vars, sample
  <2>2. QED
    BY <1>t, <2>1, QuietInv DEF TypeOK
<1>1. CASE Next
  <2>1. ASSUME Receive PROVE Goal
    <3>1. PICK topic \in subscribed, payload \in Payloads \cup {None} :
             command' = [topic |-> topic, payload |-> payload, asked |-> Registered,
                         left |-> Registered, step |-> "asking"]
      BY <2>1 DEF Receive
    <3>2. Registered \in SUBSET AllDevices
      BY <1>t DEF TypeOK
    <3>3. command' \in CommandTypes /\ command'.left \subseteq command'.asked
      BY <3>1, <3>2 DEF CommandTypes
    <3>4. Followed'
      BY <3>1 DEF Followed
    <3>5. QED
      BY <1>t, <2>1, <3>3, <3>4, AskInv DEF Receive, TypeOK, sample
  <2>2. ASSUME NotHandled PROVE Goal
    BY <1>t, <2>2, QuietInv DEF NotHandled, TypeOK, sample
  <2>3. ASSUME SwitchCommand PROVE Goal
    <3>1. command # None /\ command \in CommandTypes /\ traffic = "serving"
      BY <2>3, CommandIs DEF SwitchCommand, Asked
    <3>2. command' = [command EXCEPT !.step = "publishing", !.left = {}]
      BY <2>3 DEF SwitchCommand
    <3>3. command' \in CommandTypes /\ command'.left = {} /\ command'.step = "publishing"
      BY <3>1, <3>2 DEF CommandTypes
    <3>4. (command.payload = "ON") \in BOOLEAN
      OBVIOUS
    <3>5. switch' \in [is_random : BOOLEAN, is_on : BOOLEAN]
      BY <2>3, <3>4 DEF SwitchCommand, Switched
    <3>6. wanted' \in Payloads \cup {None}
      BY <2>3, <3>1 DEF SwitchCommand, CommandTypes
    <3>7. Followed'
      BY <3>3 DEF Followed
    <3>8. QED
      BY <1>t, <2>3, <3>1, <3>3, <3>5, <3>6, <3>7, AskInv DEF SwitchCommand, TypeOK
  <2>4. ASSUME PublishUpdate PROVE Goal
    <3>1. shown' \in Payloads \cup {None}
      BY <1>t, <2>4 DEF PublishUpdate, SwitchData, Payloads, TypeOK
    <3>2. QED
      BY <1>t, <2>4, <3>1, QuietInv DEF PublishUpdate, TypeOK
  <2>5. ASSUME NEW d \in AllDevices, PassOn(d) PROVE Goal
    <3>1. /\ command # None /\ command \in CommandTypes
          /\ command.left \subseteq command.asked /\ traffic = "serving"
      BY <2>5, CommandIs DEF PassOn
    <3>2. command' = [command EXCEPT !.left = command.left \ {d}]
      BY <2>5 DEF PassOn
    <3>3. command.left \ {d} \in SUBSET AllDevices
      BY <3>1 DEF CommandTypes
    <3>4. /\ command' \in CommandTypes
          /\ command'.left = command.left \ {d} /\ command'.asked = command.asked
          /\ command'.step = "asking" /\ command'.topic = command.topic
      BY <2>5, <3>1, <3>2, <3>3 DEF CommandTypes, PassOn
    <3>5. Followed'
      BY <1>t, <2>5, <3>1, <3>4 DEF Followed, PassOn
    <3>6. QED
      BY <1>t, <2>5, <3>1, <3>4, <3>5, AskInv DEF PassOn, TypeOK, sample
  <2>6. ASSUME NEW d \in AllDevices, Answer(d) PROVE Goal
    BY <1>t, <2>6, QuietInv DEF Answer, TypeOK, sample
  <2>7. ASSUME NEW n \in Names, Restart(n) PROVE Goal
    BY <1>t, <2>7, QuietInv DEF Restart, Tell, TypeOK, sample
  <2>8. ASSUME NEW n \in Names, Stop(n) PROVE Goal
    BY <1>t, <2>8, QuietInv DEF Stop, Tell, TypeOK, sample
  <2>9. ASSUME NEW n \in Names, StopToRemove(n) PROVE Goal
    <3>1. /\ command # None /\ command \in CommandTypes /\ traffic = "serving"
          /\ command.left \subseteq command.asked /\ n \in command.left
      BY <2>9, CommandIs DEF StopToRemove, Asked
    <3>2. command' = [command EXCEPT !.left = {n}, !.step = "removing"]
      BY <2>9 DEF StopToRemove
    <3>3. {n} \in SUBSET AllDevices
      BY DEF AllDevices
    <3>4. /\ command' \in CommandTypes
          /\ command'.left = {n} /\ command'.asked = command.asked
          /\ command'.step = "removing" /\ command'.topic = command.topic
      BY <3>1, <3>2, <3>3 DEF CommandTypes
    <3>5. Handlers[n][command.topic] # {}
      BY <2>9 DEF StopToRemove, Asked
    <3>6. Followed'
      BY <3>4, <3>5 DEF Followed
    <3>7. engine' \in [Names -> {"absent", "exited", "running"}]
      BY <1>t, <2>9 DEF StopToRemove, Tell, TypeOK
    <3>8. QED
      BY <1>t, <2>9, <3>1, <3>4, <3>6, <3>7, AskInv DEF StopToRemove, TypeOK, sample
  <2>10. ASSUME NEW n \in Names, Remove(n) PROVE Goal
    BY <1>t, <2>10, QuietInv DEF Remove, TypeOK, sample
  <2>11. ASSUME NEW n \in Names, Fails(n) PROVE Goal
    BY <1>t, <2>11, QuietInv DEF Fails, TypeOK, sample
  <2>12. ASSUME ReadSwitch PROVE Goal
    <3>1. PICK payload \in Payloads : last' = payload /\ held' = payload
      BY <2>12 DEF ReadSwitch, SwitchData, Payloads
    <3>2. QED
      BY <1>t, <2>12, <3>1, QuietInv DEF ReadSwitch, TypeOK
  <2>13. ASSUME PublishSwitch PROVE Goal
    BY <1>t, <2>13, QuietInv DEF PublishSwitch, TypeOK
  <2>14. ASSUME NEW n \in Names, ContainerChanges(n) PROVE Goal
    BY <1>t, <2>14, QuietInv DEF ContainerChanges, TypeOK, sample
  <2>15. QED
    <3> HIDE DEF Goal
    <3>1. ASSUME InitializeDiscovery \/ InitializeSubscriptions \/ AddDevices \/ RemoveDevices
                 \/ Announce \/ Subscribe \/ Withdraw
          PROVE  Goal
      BY <3>1, InitializeInv, ScanInv, EventsInv DEF Goal
    <3>2. Goal
      BY <1>1, <2>1, <2>2, <2>3, <2>4, <2>5, <2>6, <2>7, <2>8, <2>9, <2>10, <2>11, <2>12,
         <2>13, <2>14, <3>1, StepCases
    <3>3. QED
      BY <3>2 DEF Goal
<1>2. QED
  BY <1>0, <1>1

LEMMA InvHolds == Spec => []CommandsInv
BY InvInit, InvNext, PTL DEF Spec

\* The command that is being dealt with arrived on a subscribed topic, whatever
\* the registry became, and the switch and what is shown keep their types.
THEOREM TypeCorrect == Spec => []TypeOK
<1>1. CommandsInv => TypeOK
  BY DEF CommandsInv
<1>2. QED
  BY <1>1, InvHolds, PTL

\* Whatever a handler publishes was announced, no two devices and no two
\* entities of the registry share a topic or an id, and only a container whose
\* name is not its identifier is there twice (DiscoveryIsSound): when the slugs
\* of no two containers meet and none is named as the host's device is. From
\* the first discovery on, over every scan, whatever keys it leaves behind.
THEOREM SoundDiscovery ==
  ASSUME SlugsApart
  PROVE  Spec => []DiscoveryIsSound
<1>1. CommandsInv => DiscoveryIsSound
  BY TogetherSound DEF CommandsInv, RegistryInv
<1>2. QED
  BY <1>1, InvHolds, PTL

\* What Home Assistant was told it may send is subscribed or about to be, with
\* scans, removals and announcements between the discovery and the subscription
\* of a device, as long as the broker is given what it is sent; and no command
\* passes by the device that announced it (PressIsHeard).
THEOREM Heard == Spec => []PressIsHeard
<1>1. ASSUME CommandsInv PROVE PressIsHeard
  <2>1. ASSUME "publish" \notin env, NEW d \in told \cap Registered
        PROVE  \/ announced[d] \subseteq subscribed
               \/ traffic = "subscribe"
               \/ publisher = "subscribing" /\ d \in DevicesOf(new)
    <3>1. d \in AllDevices
      BY <1>1 DEF CommandsInv, TypeOK
    <3>2. \/ command_topics[d] \subseteq subscribed
          \/ traffic = "subscribe"
          \/ publisher = "subscribing" /\ d \in DevicesOf(new)
      BY <1>1, <2>1 DEF CommandsInv, RegistryInv, Listening
    <3>3. QED
      BY <3>1, <3>2, AnnouncedIsSubscribed
  <2>2. ASSUME command # None, command.step = "asking", command.left = {},
               NEW d \in command.asked \ Sample, command.topic \in announced[d]
        PROVE  FALSE
    <3>1. d \in Names \cup {"host"} /\ command.topic \in Topics
      BY <1>1, <2>2, CommandIs DEF CommandTypes, AllDevices, CommandsInv, TypeOK
    <3>2. Handlers[d][command.topic] = {}
      BY <1>1, <2>2 DEF CommandsInv, Followed
    <3>3. QED
      BY <2>2, <3>1, <3>2, ContainerCommands, HostCommands
  <2>3. QED
    BY <2>1, <2>2 DEF PressIsHeard
<1>2. QED
  BY <1>1, InvHolds, PTL

\* What a step may do to the containers.
LEMMA ActsOnItsOwn ==
  CommandsInv /\ [Next]_vars =>
     (command' # command =>
        \A n \in Names : engine'[n] # engine[n] => command.topic \in announced[n])
<1> SUFFICES ASSUME CommandsInv, [Next]_vars, command' # command,
                    NEW m \in Names, engine'[m] # engine[m]
             PROVE  command.topic \in announced[m]
  OBVIOUS
<1>1. engine \in [Names -> {"absent", "exited", "running"}]
  BY DEF CommandsInv, TypeOK
<1>2. command # None => command.topic \in Topics
  BY CommandIs DEF CommandTypes, CommandsInv, TypeOK
<1>3. ASSUME NEW n \in Names, NEW kind, Asked(n, kind) PROVE command.topic \in announced[n]
  <2>1. Handlers[n][command.topic] # {} /\ command # None
    BY <1>3 DEF Asked
  <2>2. QED
    BY <1>2, <2>1, ContainerCommands
<1>4. ASSUME NEW n \in Names, Restart(n) \/ Stop(n) \/ StopToRemove(n) \/ Remove(n)
      PROVE  command.topic \in announced[n] /\ n = m
  <2>1. n = m
    BY <1>1, <1>4 DEF Restart, Stop, StopToRemove, Remove, Tell
  <2>2. CASE Remove(n)
    <3>1. Handlers[n][command.topic] # {} /\ command # None
      BY <2>2 DEF Remove, CommandsInv, Followed
    <3>2. QED
      BY <1>2, <2>1, <3>1, ContainerCommands
  <2>3. CASE Restart(n) \/ Stop(n) \/ StopToRemove(n)
    BY <1>3, <2>1, <2>3 DEF Restart, Stop, StopToRemove
  <2>4. QED
    BY <1>4, <2>2, <2>3
<1>5. Next
  BY DEF vars
<1>6. QED
  BY <1>4, <1>5 DEF Next, Initialize, Publish, HandleCommand, InitializeDiscovery,
     InitializeSubscriptions, Receive, NotHandled, SwitchCommand, PublishUpdate, PassOn,
     Answer, Fails, ReadSwitch, PublishSwitch, ContainerChanges, AddDevices, RemoveDevices,
     Announce, Subscribe, Withdraw

\* A command does what it does to the container it was announced for
\* (CommandActsOnItsContainer), however many containers there are, in whichever
\* order their devices are asked and whatever leaves the registry meanwhile.
THEOREM OwnContainer == Spec => CommandActsOnItsContainer
<1>1. CommandsInv /\ [Next]_vars =>
        [command' # command =>
           \A n \in Names : engine'[n] # engine[n] => command.topic \in announced[n]]_vars
  BY ActsOnItsOwn
<1>2. QED
  BY <1>1, InvHolds, PTL DEF Spec, CommandActsOnItsContainer

================================================================================

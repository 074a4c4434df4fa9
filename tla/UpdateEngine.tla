------------------------------ MODULE UpdateEngine ------------------------------
(***************************************************************************)
(* cmha/src/update_engine.rs with the registry of devices/devices.rs, the  *)
(* container scan of container_device.rs and the handling of its events in *)
(* device_manager.rs: one publisher polls two streams, one that compares   *)
(* the registry with the containers of the engine and one that reads every *)
(* device, and deals with their events one at a time. While it does, the   *)
(* streams are not polled and stand still; containers come and go all the  *)
(* while. When Home Assistant restarts, a task of its own announces and    *)
(* publishes everything once more, beside the publisher.                   *)
(*                                                                         *)
(* A device has one state topic here and is named by its container; the    *)
(* host's own device, which no scan adds or removes, is left out. The      *)
(* container engine and Home Assistant are external: Home Assistant knows  *)
(* a device once its discovery message was published and takes no state    *)
(* for a device it does not know.                                          *)
(***************************************************************************)

CONSTANTS Names,   \* container names
          Topics,  \* device identifiers
          Slug,    \* Slug[n]: the identifier made of the prefix and the name n
          Values,  \* what a container's state may be
          NoValue, \* no container of that name, or nothing published or recorded
          Envs     \* what the surroundings may do: one of these sets of events

\* "create", "remove", "change": of containers and their states; "list", "read",
\* "publish": requests to the engine or the broker fail; "reconnect": the
\* connection is lost and comes back; "restart": Home Assistant restarts.
EnvEvents ==
  {"create", "remove", "change", "list", "read", "publish", "reconnect", "restart"}

ASSUME EngineAssumption ==
  /\ Slug \in [Names -> Topics]
  /\ NoValue \notin Values
  /\ Envs \subseteq SUBSET EnvEvents

VARIABLES
  env,           \* the events of this behaviour
  engine,        \* engine[n]: the state of container n, NoValue when there is none
  registry,      \* Devices.devices: from keys to devices
  handling,      \* publish_sensor_data_in_a_loop: what it is doing
  scan,          \* the created-and-removed stream: program counter
  found,         \* the names in the answer the scan works on
  created,       \* keys the scan has added, up to the end of DevicesCreated
  removed,       \* devices the scan has removed, up to the end of DevicesRemoved
  read,          \* the entity update stream: program counter
  unread,        \* devices it has not yet read
  data,          \* data[t]: what it has read, then what is new of it
  read_failed,   \* some device could not be read
  last_messages, \* the last payload recorded for each topic
  discovered,    \* the devices Home Assistant knows
  shown,         \* shown[t]: the state Home Assistant shows for t
  initializing,  \* the initialize() that Home Assistant's restart started
  announcing,    \* the devices whose discovery it is about to publish
  answers,       \* answers[t]: what it has read
  restarted      \* it has worked beside this publisher, or does so still

scanVars == <<scan, found, created, removed>>
readVars == <<read, unread, data, read_failed>>
haVars   == <<discovered, shown>>
initVars == <<initializing, announcing, answers, restarted>>
vars ==
  <<env, engine, registry, handling, scanVars, readVars, last_messages, haVars, initVars>>

Keys    == Names \cup Topics
Maybe   == Values \cup {NoValue}
Nothing == [t \in Topics |-> NoValue]

Existing   == {n \in Names : engine[n] # NoValue}
Slugs(ns)  == {Slug[n] : n \in ns}
DevicesOf(ks) == {registry[k] : k \in ks \cap DOMAIN registry}
Registered == DevicesOf(DOMAIN registry)

TypeOK ==
  /\ env \in Envs
  /\ engine \in [Names -> Maybe]
  /\ DOMAIN registry \subseteq Keys /\ Registered \subseteq Names
  /\ handling \in {"off", "streams", "data", "created", "removed"}
  /\ scan \in {"idle", "adding", "listing", "removing", "purging"}
  /\ found \subseteq Names /\ created \subseteq Names /\ removed \subseteq Names
  /\ read \in {"idle", "reading", "yielding"}
  /\ unread \subseteq Names
  /\ data \in [Topics -> Maybe]
  /\ read_failed \in BOOLEAN
  /\ last_messages \in [Topics -> Maybe]
  /\ discovered \subseteq Topics
  /\ shown \in [Topics -> Maybe]
  /\ initializing \in {"off", "delay", "discovery", "settle", "data"}
  /\ announcing \subseteq Names
  /\ answers \in [Topics -> Maybe]
  /\ restarted \in BOOLEAN

\* get_devices() has put the containers that exist under their identifiers;
\* nothing is published before the first connection.
Init ==
  /\ env \in Envs
  /\ engine \in [Names -> Maybe]
  /\ registry = [k \in Slugs(Existing) |-> CHOOSE n \in Existing : Slug[n] = k]
  /\ handling = "off"
  /\ scan = "idle" /\ found = {} /\ created = {} /\ removed = {}
  /\ read = "idle" /\ unread = {} /\ data = Nothing /\ read_failed = FALSE
  /\ last_messages = Nothing
  /\ discovered = {} /\ shown = Nothing
  /\ initializing = "off" /\ announcing = {} /\ answers = Nothing /\ restarted = FALSE

--------------------------------------------------------------------------------
(* The containers                                                          *)

ContainerChanges(n, v) ==
  /\ \/ "create" \in env /\ engine[n] = NoValue /\ v # NoValue
     \/ "remove" \in env /\ engine[n] # NoValue /\ v = NoValue
     \/ "change" \in env /\ NoValue \notin {engine[n], v} /\ engine[n] # v
  /\ engine' = [engine EXCEPT ![n] = v]
  /\ UNCHANGED <<env, registry, handling, scanVars, readVars, last_messages, haVars,
                 initVars>>

--------------------------------------------------------------------------------
(* The stream of created and removed devices                               *)

Polled == handling = "streams"

\* add_discovered_devices and remove_missing_devices each list the containers.
ListContainers ==
  /\ Polled
  /\ \/ scan = "idle"    /\ scan' = "adding"
     \/ scan = "listing" /\ scan' = "removing"
  /\ found' = Existing
  /\ UNCHANGED <<env, engine, registry, handling, created, removed, readVars,
                 last_messages, haVars, initVars>>

\* An error of either list ends the scan: what the first half added is forgotten.
ListFails ==
  /\ Polled
  /\ "list" \in env
  /\ scan \in {"idle", "listing"}
  /\ scan' = "idle"
  /\ created' = {}
  /\ UNCHANGED <<env, engine, registry, handling, found, removed, readVars,
                 last_messages, haVars, initVars>>

\* Mutant: adds the devices without returning their identifiers.
AddDiscovered_without_ids ==
  /\ Polled
  /\ scan = "adding"
  /\ scan' = "listing"
  /\ registry' = [k \in DOMAIN registry \cup found |-> IF k \in DOMAIN registry THEN registry[k] ELSE k]
  /\ UNCHANGED <<env, engine, handling, found, created, removed, readVars,
                 last_messages, haVars, initVars>>

\* Containers whose name is no key are new; their devices are added under it.
AddDiscovered ==
  /\ Polled
  /\ scan = "adding"
  /\ scan' = "listing"
  /\ created' = found \ DOMAIN registry
  /\ registry' = [k \in DOMAIN registry \cup found |-> IF k \in DOMAIN registry THEN registry[k] ELSE k]
  /\ UNCHANGED <<env, engine, handling, found, removed, readVars, last_messages,
                 haVars, initVars>>

\* The names of the devices whose containers are gone are taken for their keys.
RemoveMissing ==
  LET missing == Registered \ found IN
  /\ Polled
  /\ scan = "removing"
  /\ scan' = "purging"
  /\ removed' = DevicesOf(missing)
  /\ registry' = [k \in DOMAIN registry \ missing |-> registry[k]]
  /\ UNCHANGED <<env, engine, handling, found, created, readVars, last_messages,
                 haVars, initVars>>

\* Mutant: a scan that created devices does not report the ones it removed.
PurgeLastMessages_created_only ==
  /\ Polled
  /\ scan = "purging"
  /\ scan' = "idle"
  /\ last_messages' = [t \in Topics |-> IF t \in Slugs(removed) THEN NoValue ELSE last_messages[t]]
  /\ \/ created # {} /\ handling' = "created" /\ removed' = {}
     \/ created = {} /\ UNCHANGED removed /\ handling' = IF removed # {} THEN "removed" ELSE "streams"
  /\ UNCHANGED <<env, engine, registry, found, created, readVars, haVars, initVars>>

\* What was recorded for the removed devices is forgotten; their events go out,
\* if there are any, DevicesCreated first.
PurgeLastMessages ==
  /\ Polled
  /\ scan = "purging"
  /\ scan' = "idle"
  /\ last_messages' = [t \in Topics |-> IF t \in Slugs(removed) THEN NoValue ELSE last_messages[t]]
  /\ handling' = IF created # {} THEN "created" ELSE IF removed # {} THEN "removed" ELSE "streams"
  /\ UNCHANGED <<env, engine, registry, found, created, removed, readVars, haVars,
                 initVars>>

--------------------------------------------------------------------------------
(* The stream of entity updates                                            *)

StartReading ==
  /\ Polled
  /\ read = "idle"
  /\ read' = "reading"
  /\ unread' = Registered
  /\ data' = Nothing
  /\ read_failed' = FALSE
  /\ UNCHANGED <<env, engine, registry, handling, scanVars, last_messages, haVars,
                 initVars>>

\* Mutant: what a failed read returns is taken for the device's data.
ReadDevice_with_error(n) ==
  /\ Polled
  /\ n \in unread
  /\ unread' = unread \ {n}
  /\ data' = [data EXCEPT ![Slug[n]] = IF engine[n] = NoValue THEN "error" ELSE engine[n]]
  /\ UNCHANGED <<env, engine, registry, handling, scanVars, read, read_failed,
                 last_messages, haVars, initVars>>

\* The engine answers for one device; they are read concurrently. A device whose
\* container is gone cannot be read.
ReadDevice(n) ==
  /\ Polled
  /\ n \in unread
  /\ unread' = unread \ {n}
  /\ \/ /\ engine[n] # NoValue
        /\ data' = [data EXCEPT ![Slug[n]] = engine[n]]
        /\ UNCHANGED read_failed
     \/ /\ engine[n] = NoValue \/ "read" \in env
        /\ read_failed' = TRUE
        /\ UNCHANGED data
  /\ UNCHANGED <<env, engine, registry, handling, scanVars, read, last_messages,
                 haVars, initVars>>

\* What filter_data lets through: topics whose payload is not the recorded one.
News == [t \in Topics |-> IF data[t] = last_messages[t] THEN NoValue ELSE data[t]]

\* Mutant: the data of the others is dropped when one device fails.
FilteredDataFollows_unless_failed ==
  /\ read' = "idle"
  /\ handling' = IF read_failed THEN "streams" ELSE "data"

\* The errors go out before the data, one event each: the streams are polled again.
FilteredDataFollows ==
  \/ read_failed  /\ read' = "yielding" /\ UNCHANGED handling
  \/ ~read_failed /\ read' = "idle" /\ handling' = "data"

\* Mutant: only topics never seen before are let through.
FilterData_new_topics_only ==
  /\ Polled
  /\ read = "reading"
  /\ unread = {}
  /\ data' = [t \in Topics |-> IF last_messages[t] = NoValue THEN data[t] ELSE NoValue]
  /\ last_messages' = [t \in Topics |-> IF data[t] = NoValue THEN last_messages[t] ELSE data[t]]
  /\ FilteredDataFollows
  /\ UNCHANGED <<env, engine, registry, scanVars, unread, read_failed, haVars,
                 initVars>>

\* Every payload let through is recorded now, before it is published.
FilterData ==
  /\ Polled
  /\ read = "reading"
  /\ unread = {}
  /\ data' = News
  /\ last_messages' = [t \in Topics |-> IF data[t] = NoValue THEN last_messages[t] ELSE data[t]]
  /\ FilteredDataFollows
  /\ UNCHANGED <<env, engine, registry, scanVars, unread, read_failed, haVars,
                 initVars>>

YieldData ==
  /\ Polled
  /\ read = "yielding"
  /\ read' = "idle"
  /\ handling' = "data"
  /\ UNCHANGED <<env, engine, registry, scanVars, unread, data, read_failed,
                 last_messages, haVars, initVars>>

--------------------------------------------------------------------------------
(* publish_sensor_data_in_a_loop                                           *)

\* The messages that get through of the ones to be published: the first error
\* ends the publication, and the map they come from has no order.
GetThrough(ts) == IF "publish" \in env THEN SUBSET ts ELSE {ts}

\* Home Assistant takes the payloads it is sent for the devices it knows.
Shows(ts, payload) == shown' = [t \in Topics |-> IF t \in ts THEN payload[t] ELSE shown[t]]

PublishData ==
  /\ handling = "data"
  /\ handling' = "streams"
  /\ \E sent \in GetThrough({t \in Topics : data[t] # NoValue}) : Shows(sent \cap discovered, data)
  /\ data' = Nothing
  /\ UNCHANGED <<env, engine, registry, scanVars, read, unread, read_failed,
                 last_messages, discovered, initVars>>

\* DevicesCreated: the discovery of the devices that are still in the registry.
AnnounceCreated ==
  /\ handling = "created"
  /\ handling' = IF removed # {} THEN "removed" ELSE "streams"
  /\ created' = {}
  /\ \E sent \in GetThrough(Slugs(DevicesOf(created))) : discovered' = discovered \cup sent
  /\ UNCHANGED <<env, engine, registry, scan, found, removed, readVars, last_messages,
                 shown, initVars>>

\* DevicesRemoved: an empty discovery message makes Home Assistant forget a device.
WithdrawRemoved ==
  /\ handling = "removed"
  /\ handling' = "streams"
  /\ removed' = {}
  /\ \E sent \in GetThrough(Slugs(removed)) :
       /\ discovered' = discovered \ sent
       /\ shown' = [t \in Topics |-> IF t \in sent THEN NoValue ELSE shown[t]]
  /\ UNCHANGED <<env, engine, registry, scan, found, created, readVars, last_messages,
                 initVars>>

\* The publisher is cancelled or aborted: its streams go, with what they had in
\* hand, the event it was dealing with and what it had recorded.
Disconnect ==
  /\ "reconnect" \in env
  /\ handling # "off"
  /\ handling' = "off"
  /\ scan' = "idle" /\ found' = {} /\ created' = {} /\ removed' = {}
  /\ read' = "idle" /\ unread' = {} /\ data' = Nothing /\ read_failed' = FALSE
  /\ last_messages' = Nothing
  /\ UNCHANGED <<env, engine, registry, haVars, initVars>>

\* What initialize() reads of all devices, if all of them can be read.
AllStates ==
  [t \in Topics |-> IF t \in Slugs(Registered)
                    THEN engine[CHOOSE n \in Registered : Slug[n] = t] ELSE NoValue]
Readable == Registered \subseteq Existing

\* initialize() announces every device and publishes their data, unless one of
\* them cannot be read; then a new publisher starts with an empty record.
Connect ==
  /\ handling = "off"
  /\ handling' = "streams"
  /\ \E sent \in GetThrough(Slugs(Registered)) : discovered' = discovered \cup sent
  /\ \/ /\ Readable
        /\ \E sent \in GetThrough(Slugs(Registered)) : Shows(sent \cap discovered', AllStates)
     \/ /\ ~Readable \/ "read" \in env
        /\ UNCHANGED shown
  /\ restarted' = (initializing # "off")
  /\ UNCHANGED <<env, engine, registry, scanVars, readVars, last_messages,
                 initializing, announcing, answers>>

--------------------------------------------------------------------------------
(* Home Assistant's restart: deal_with_command starts a task that, after a  *)
(* delay, does what initialize() does, past the record and whatever the     *)
(* publisher and the scan are doing. One such task is considered at a time. *)

\* Home Assistant forgets what was not retained, and says that it is online if
\* there is a connection (that it is heard is Availability's matter).
HaRestarts ==
  /\ "restart" \in env
  /\ initializing = "off"
  /\ discovered' = {} /\ shown' = Nothing
  /\ IF handling = "off" THEN UNCHANGED <<initializing, restarted>>
     ELSE initializing' = "delay" /\ restarted' = TRUE
  /\ UNCHANGED <<env, engine, registry, handling, scanVars, readVars, last_messages,
                 announcing, answers>>

\* create_discovery_info() copies the registry and asks one device after another.
GatherDiscovery ==
  /\ initializing = "delay"
  /\ initializing' = "discovery"
  /\ announcing' = Registered
  /\ UNCHANGED <<env, engine, registry, handling, scanVars, readVars, last_messages,
                 haVars, answers, restarted>>

PublishDiscovery ==
  /\ initializing = "discovery"
  /\ initializing' = "settle"
  /\ announcing' = {}
  /\ \E sent \in GetThrough(Slugs(announcing)) : discovered' = discovered \cup sent
  /\ UNCHANGED <<env, engine, registry, handling, scanVars, readVars, last_messages,
                 shown, answers, restarted>>

\* A subscription that fails ends the task; nothing is read without a connection;
\* and one device that cannot be read is enough for none to be published.
ReadAllDevices ==
  /\ initializing = "settle"
  /\ \/ /\ Readable
        /\ answers' = AllStates
        /\ initializing' = "data"
     \/ /\ ~Readable \/ handling = "off" \/ env \cap {"read", "publish"} # {}
        /\ initializing' = "off"
        /\ UNCHANGED answers
  /\ UNCHANGED <<env, engine, registry, handling, scanVars, readVars, last_messages,
                 haVars, announcing, restarted>>

PublishAnswers ==
  /\ initializing = "data"
  /\ initializing' = "off"
  /\ answers' = Nothing
  /\ \E sent \in GetThrough({t \in Topics : answers[t] # NoValue}) :
       Shows(sent \cap discovered, answers)
  /\ UNCHANGED <<env, engine, registry, handling, scanVars, readVars, last_messages,
                 discovered, announcing, restarted>>

--------------------------------------------------------------------------------
ScanStep == ListContainers \/ AddDiscovered \/ RemoveMissing \/ PurgeLastMessages

ReadStep ==
  \/ StartReading
  \/ \E n \in Names : ReadDevice(n)
  \/ FilterData \/ YieldData

HandlerStep == PublishData \/ AnnounceCreated \/ WithdrawRemoved

InitializeStep == GatherDiscovery \/ PublishDiscovery \/ ReadAllDevices \/ PublishAnswers

Next ==
  \/ \E n \in Names, v \in Maybe : ContainerChanges(n, v)
  \/ ScanStep \/ ListFails
  \/ ReadStep
  \/ HandlerStep
  \/ Disconnect \/ Connect
  \/ HaRestarts \/ InitializeStep

Spec == Init /\ [][Next]_vars

\* Requests end and timers tick; select_all polls both streams whenever it is
\* polled, so that neither keeps the other from going on, though the publisher
\* deals with an event of the other in between.
Fairness ==
  /\ WF_vars(Connect)
  /\ WF_vars(HandlerStep)
  /\ WF_vars(InitializeStep)
  /\ SF_vars(ScanStep)
  /\ SF_vars(ReadStep)

FairSpec == Spec /\ Fairness

--------------------------------------------------------------------------------
(* Properties                                                              *)

\* On a connection that lasts, with names that are identifiers and publications
\* that do not fail, Home Assistant knows only devices of the registry, and
\* removed ones whose event is on its way, as long as it has not restarted.
NothingLeftBehind ==
  handling # "off" /\ ~restarted => discovered \subseteq Slugs(Registered \cup removed)

\* If no list fails either, it knows every device of the registry, but for those
\* whose event is on its way, and after a restart as soon as it has been answered.
NothingUnannounced ==
  handling # "off" /\ initializing \notin {"delay", "discovery"} =>
    Slugs(Registered) \subseteq discovered \cup Slugs(created)

\* What is recorded for a device that Home Assistant knows is what it shows, or
\* is on its way: otherwise filter_data would suppress it for ever. Holds as long
\* as no container is created while the publisher runs, and Home Assistant does
\* not restart.
RecordedIsShown ==
  ~restarted => \A t \in discovered : last_messages[t] \in {NoValue, shown[t], data[t]}

\* On a lasting connection, a container that is there for good is announced,
\* also to a Home Assistant that has restarted.
NewContainersAnnounced ==
  \A n \in Names :
    <>[](engine[n] # NoValue /\ handling # "off" /\ initializing = "off") =>
      <>[](Slug[n] \in discovered)

\* One that is gone for good is forgotten, by the registry and by Home Assistant,
\* if that does not restart.
RemovedContainersForgotten ==
  \A n \in Names :
    /\ <>[](engine[n] = NoValue /\ handling # "off") => <>[](n \notin Registered)
    /\ <>[](engine[n] = NoValue /\ handling # "off" /\ ~restarted) =>
         <>[](Slug[n] \notin discovered)

\* Once the connection lasts, whatever came before, a state that lasts is shown,
\* unless Home Assistant restarts: what initialize() publishes then passes the
\* record by (device_manager.rs:309-313). It shows a state that has lasted from
\* the restart on, provided that all devices can be read.
ValueReachesHomeAssistant ==
  \A n \in Names, v \in Values :
    /\ <>[](engine[n] = v /\ handling # "off" /\ ~restarted) => <>[](shown[Slug[n]] = v)
    /\ initializing = "delay" /\ n \in Registered /\ engine[n] = v
         ~> shown[Slug[n]] = v \/ engine[n] # v \/ handling = "off" \/ ~Readable

\* Whatever Home Assistant does, a state that lasts is shown in the end.
EveryValueReachesHomeAssistant ==
  \A n \in Names, v \in Values :
    <>[](engine[n] = v /\ handling # "off" /\ initializing = "off") =>
      <>[](shown[Slug[n]] = v)

\* And a container that is gone for good is forgotten.
EveryRemovalReachesHomeAssistant ==
  \A n \in Names :
    <>[](engine[n] = NoValue /\ handling # "off" /\ initializing = "off") =>
      <>[](Slug[n] \notin discovered)

\* What devices/mod.rs:284 says of remove_missing_devices: devices no longer
\* present are removed from the collection.
MissingDevicesRemoved ==
  \A n \in Names : <>[](engine[n] = NoValue) => <>(n \notin Registered)

\* What device_manager.rs:488 says: state comes after the discovery message, as
\* Home Assistant has no place for it before.
DataAfterDiscovery ==
  handling = "data" => \A t \in Topics : data[t] # NoValue => t \in discovered

\* What the test at update_engine.rs:491-492 expects: nothing is recorded for a
\* device once a scan has removed it.
RemovedIsPurged ==
  scan = "idle" =>
    \A n \in Names \ Registered : last_messages[Slug[n]] = NoValue

================================================================================

--------------------------- MODULE UpdateEngineProofs ---------------------------
(***************************************************************************)
(* Theorems about UpdateEngine, for any set of containers and of states:   *)
(* type correctness; on a lasting connection, that Home Assistant knows    *)
(* the devices of the registry and, until it restarts, no others; and,     *)
(* while containers only go, that what is recorded as published is what    *)
(* Home Assistant shows.                                                   *)
(***************************************************************************)
EXTENDS UpdateEngine, TLAPS

\* A step is an action of one stream, of the handler, or of the surroundings.
LEMMA StepCases ==
  ASSUME NEW P, Next,
         ASSUME NEW n \in Names, NEW v \in Maybe, ContainerChanges(n, v) PROVE P,
         ASSUME ListContainers PROVE P,
         ASSUME ListFails PROVE P,
         ASSUME AddDiscovered PROVE P,
         ASSUME RemoveMissing PROVE P,
         ASSUME PurgeLastMessages PROVE P,
         ASSUME StartReading PROVE P,
         ASSUME NEW n \in Names, ReadDevice(n) PROVE P,
         ASSUME FilterData PROVE P,
         ASSUME YieldData PROVE P,
         ASSUME PublishData PROVE P,
         ASSUME AnnounceCreated PROVE P,
         ASSUME WithdrawRemoved PROVE P,
         ASSUME Disconnect PROVE P,
         ASSUME Connect PROVE P,
         ASSUME HaRestarts PROVE P,
         ASSUME GatherDiscovery PROVE P,
         ASSUME PublishDiscovery PROVE P,
         ASSUME ReadAllDevices PROVE P,
         ASSUME PublishAnswers PROVE P
  PROVE  P
<1>1. ASSUME ScanStep PROVE P
  BY <1>1 DEF ScanStep
<1>2. ASSUME ReadStep PROVE P
  BY <1>2 DEF ReadStep
<1>3. ASSUME HandlerStep PROVE P
  BY <1>3 DEF HandlerStep
<1>4. ASSUME InitializeStep PROVE P
  BY <1>4 DEF InitializeStep
<1>5. QED
  BY <1>1, <1>2, <1>3, <1>4 DEF Next

\* Whatever gets through is part of what was to be published.
LEMMA WhatGetsThrough ==
  ASSUME NEW ts, NEW sent \in GetThrough(ts)
  PROVE  /\ sent \subseteq ts
         /\ "publish" \notin env => sent = ts
BY DEF GetThrough

\* Identifiers of containers are topics, devices in the registry containers.
LEMMA SlugsAreTopics == ASSUME NEW ns \in SUBSET Names PROVE Slugs(ns) \subseteq Topics
BY EngineAssumption DEF Slugs

LEMMA DevicesAreRegistered == ASSUME NEW ks PROVE DevicesOf(ks) \subseteq Registered
BY DEF DevicesOf, Registered

LEMMA StatesAreStates == TypeOK => AllStates \in [Topics -> Maybe]
<1> SUFFICES ASSUME TypeOK, NEW t \in Topics, t \in Slugs(Registered)
             PROVE  engine[CHOOSE n \in Registered : Slug[n] = t] \in Maybe
  BY DEF AllStates, Maybe
<1>1. PICK n \in Registered : Slug[n] = t
  BY DEF Slugs
<1>2. (CHOOSE m \in Registered : Slug[m] = t) \in Registered
  BY <1>1
<1>3. QED
  BY <1>2 DEF TypeOK

LEMMA TypeInit == Init => TypeOK
<1> SUFFICES ASSUME Init PROVE TypeOK
  OBVIOUS
<1>1. Existing \subseteq Names
  BY DEF Existing
<1>2. DOMAIN registry = Slugs(Existing)
  BY DEF Init
<1>3. \A k \in Slugs(Existing) : registry[k] \in Names
  BY <1>1 DEF Init, Slugs
<1>4. Registered \subseteq Names
  BY <1>2, <1>3 DEF Registered, DevicesOf
<1>5. DOMAIN registry \subseteq Keys
  BY <1>1, <1>2, SlugsAreTopics DEF Keys
<1>6. QED
  BY <1>4, <1>5 DEF Init, TypeOK, Nothing, Maybe

\* A step that leaves the registry alone changes nothing that it is made of.
LEMMA RegistryUnchanged ==
  ASSUME UNCHANGED registry
  PROVE  /\ Registered' = Registered
         /\ (DOMAIN registry)' = DOMAIN registry
         /\ \A ks : DevicesOf(ks)' = DevicesOf(ks)
BY DEF Registered, DevicesOf

\* What a scan does to the registry.
LEMMA RegistryAfterAdding ==
  ASSUME AddDiscovered
  PROVE  /\ DOMAIN registry' = DOMAIN registry \cup found
         /\ \A k \in DOMAIN registry : registry'[k] = registry[k]
         /\ \A k \in found \ DOMAIN registry : registry'[k] = k
BY DEF AddDiscovered

LEMMA RegistryAfterRemoving ==
  ASSUME RemoveMissing
  PROVE  /\ DOMAIN registry' = DOMAIN registry \ (Registered \ found)
         /\ \A k \in DOMAIN registry' : registry'[k] = registry[k]
BY DEF RemoveMissing

LEMMA TypeNext == TypeOK /\ [Next]_vars => TypeOK'
<1> SUFFICES ASSUME TypeOK, [Next]_vars PROVE TypeOK'
  OBVIOUS
<1> USE DEF scanVars, readVars, haVars, initVars
<1>r. ASSUME UNCHANGED registry
      PROVE  (DOMAIN registry \subseteq Keys /\ Registered \subseteq Names)'
  BY <1>r, RegistryUnchanged DEF TypeOK, Keys
<1>0. CASE UNCHANGED vars
  BY <1>0, <1>r DEF vars, TypeOK, Maybe
<1>1. ASSUME NEW n \in Names, NEW v \in Maybe, ContainerChanges(n, v) PROVE TypeOK'
  BY <1>1, <1>r DEF ContainerChanges, TypeOK, Maybe
<1>2. CASE ListContainers
  <2>1. found' \subseteq Names
    BY <1>2 DEF ListContainers, Existing
  <2>2. QED
    BY <1>2, <1>r, <2>1 DEF ListContainers, TypeOK, Maybe
<1>3. CASE ListFails
  BY <1>3, <1>r DEF ListFails, TypeOK, Maybe
<1>4. CASE AddDiscovered
  <2>1. (DOMAIN registry)' \subseteq Keys
    BY <1>4, RegistryAfterAdding DEF TypeOK, Keys
  <2>2. \A k \in (DOMAIN registry)' : registry'[k] \in Names
    BY <1>4, RegistryAfterAdding DEF TypeOK, Registered, DevicesOf
  <2>3. Registered' \subseteq Names
    BY <2>2 DEF Registered, DevicesOf
  <2>4. QED
    BY <1>4, <2>1, <2>3 DEF AddDiscovered, TypeOK, Maybe
<1>5. CASE RemoveMissing
  <2>1. (DOMAIN registry)' \subseteq Keys
    BY <1>5, RegistryAfterRemoving DEF TypeOK
  <2>2. Registered' \subseteq Names
    BY <1>5, RegistryAfterRemoving DEF TypeOK, Registered, DevicesOf
  <2>3. removed' \subseteq Names
    BY <1>5, DevicesAreRegistered DEF RemoveMissing, TypeOK
  <2>4. QED
    BY <1>5, <2>1, <2>2, <2>3 DEF RemoveMissing, TypeOK, Maybe
<1>6. CASE PurgeLastMessages
  BY <1>6, <1>r DEF PurgeLastMessages, Polled, TypeOK, Maybe
<1>7. CASE StartReading
  BY <1>7, <1>r DEF StartReading, TypeOK, Maybe, Nothing
<1>8. ASSUME NEW n \in Names, ReadDevice(n) PROVE TypeOK'
  BY <1>8, <1>r DEF ReadDevice, TypeOK, Maybe
<1>9. CASE FilterData
  <2>1. read' \in {"idle", "yielding"} /\ handling' \in {"data", handling}
    BY <1>9 DEF FilterData, FilteredDataFollows
  <2>2. data' \in [Topics -> Maybe] /\ last_messages' \in [Topics -> Maybe]
    BY <1>9 DEF FilterData, News, TypeOK, Maybe
  <2>3. QED
    BY <1>9, <1>r, <2>1, <2>2 DEF FilterData, TypeOK, Maybe
<1>10. CASE YieldData
  BY <1>10, <1>r DEF YieldData, TypeOK, Maybe
<1>11. CASE PublishData
  <2>1. shown' \in [Topics -> Maybe]
    BY <1>11 DEF PublishData, Shows, TypeOK, Maybe
  <2>2. QED
    BY <1>11, <1>r, <2>1 DEF PublishData, TypeOK, Maybe, Nothing
<1>12. CASE AnnounceCreated
  <2>1. discovered' \subseteq Topics
    BY <1>12, WhatGetsThrough, SlugsAreTopics, DevicesAreRegistered DEF AnnounceCreated, TypeOK
  <2>2. QED
    BY <1>12, <1>r, <2>1 DEF AnnounceCreated, TypeOK, Maybe
<1>13. CASE WithdrawRemoved
  <2>1. shown' \in [Topics -> Maybe] /\ discovered' \subseteq Topics
    BY <1>13 DEF WithdrawRemoved, TypeOK, Maybe
  <2>2. QED
    BY <1>13, <1>r, <2>1 DEF WithdrawRemoved, TypeOK, Maybe
<1>14. CASE Disconnect
  BY <1>14, <1>r DEF Disconnect, TypeOK, Maybe, Nothing
<1>15. CASE Connect
  <2>1. discovered' \subseteq Topics
    BY <1>15, WhatGetsThrough, SlugsAreTopics DEF Connect, TypeOK
  <2>2. shown' \in [Topics -> Maybe]
    BY <1>15, StatesAreStates DEF Connect, Shows, TypeOK
  <2>3. QED
    BY <1>15, <1>r, <2>1, <2>2 DEF Connect, TypeOK, Maybe
<1>16. CASE HaRestarts
  BY <1>16, <1>r DEF HaRestarts, TypeOK, Maybe, Nothing
<1>17. CASE GatherDiscovery
  BY <1>17, <1>r DEF GatherDiscovery, TypeOK, Maybe
<1>18. CASE PublishDiscovery
  <2>1. discovered' \subseteq Topics
    BY <1>18, WhatGetsThrough, SlugsAreTopics DEF PublishDiscovery, TypeOK
  <2>2. QED
    BY <1>18, <1>r, <2>1 DEF PublishDiscovery, TypeOK, Maybe
<1>19. CASE ReadAllDevices
  <2>1. answers' \in [Topics -> Maybe] /\ initializing' \in {"data", "off"}
    BY <1>19, StatesAreStates DEF ReadAllDevices, TypeOK
  <2>2. QED
    BY <1>19, <1>r, <2>1 DEF ReadAllDevices, TypeOK, Maybe
<1>20. CASE PublishAnswers
  <2>1. shown' \in [Topics -> Maybe]
    BY <1>20 DEF PublishAnswers, Shows, TypeOK, Maybe
  <2>2. QED
    BY <1>20, <1>r, <2>1 DEF PublishAnswers, TypeOK, Maybe, Nothing
<1>21. QED
  BY <1>0, <1>1, <1>2, <1>3, <1>4, <1>5, <1>6, <1>7, <1>8, <1>9, <1>10, <1>11, <1>12,
     <1>13, <1>14, <1>15, <1>16, <1>17, <1>18, <1>19, <1>20, StepCases

\* The registry holds devices of containers, and what was read, recorded and
\* shown are states, whatever fails and however often the connection is lost.
THEOREM TypeCorrect == Spec => []TypeOK
BY TypeInit, TypeNext, PTL DEF Spec

--------------------------------------------------------------------------------
(* Home Assistant's restart                                                *)

\* An initialize() of a restart is known to work beside the publisher, and only
\* while it publishes discovery has it devices to announce.
RestartInv ==
  /\ initializing # "off" => restarted
  /\ initializing # "discovery" => announcing = {}

LEMMA RestartNext == RestartInv /\ [Next]_vars => RestartInv'
<1> SUFFICES ASSUME RestartInv, [Next]_vars PROVE RestartInv'
  OBVIOUS
<1> USE DEF RestartInv, initVars
<1>0. CASE UNCHANGED vars
  BY <1>0 DEF vars
<1>1. CASE UNCHANGED initVars
  BY <1>1
<1>2. CASE Connect
  BY <1>2 DEF Connect
<1>3. CASE HaRestarts
  BY <1>3 DEF HaRestarts
<1>4. CASE InitializeStep
  BY <1>4 DEF InitializeStep, GatherDiscovery, PublishDiscovery, ReadAllDevices, PublishAnswers
<1>5. CASE Next /\ ~Connect /\ ~HaRestarts /\ ~InitializeStep
  <2>1. UNCHANGED initVars
    BY <1>5 DEF Next, ScanStep, ReadStep, HandlerStep, ContainerChanges, ListContainers,
       ListFails, AddDiscovered, RemoveMissing, PurgeLastMessages, StartReading, ReadDevice,
       FilterData, YieldData, PublishData, AnnounceCreated, WithdrawRemoved, Disconnect
  <2>2. QED
    BY <1>1, <2>1
<1>6. QED
  BY <1>0, <1>2, <1>3, <1>4, <1>5

\* What the surroundings may do stays the same.
LEMMA EnvStays == [Next]_vars => env' = env
BY DEF vars, Next, ScanStep, ReadStep, HandlerStep, InitializeStep, ContainerChanges,
   ListContainers, ListFails, AddDiscovered, RemoveMissing, PurgeLastMessages, StartReading,
   ReadDevice, FilterData, YieldData, PublishData, AnnounceCreated, WithdrawRemoved,
   Disconnect, Connect, HaRestarts, GatherDiscovery, PublishDiscovery, ReadAllDevices,
   PublishAnswers

--------------------------------------------------------------------------------
(* A connection that lasts, with names that are identifiers                *)

\* The connection is not lost, and what is published arrives.
Lasting == env \cap {"reconnect", "publish"} = {}

\* Without a prefix, and for names that slugify leaves alone.
PlainSlugs == Topics = Names /\ \A n \in Names : Slug[n] = n

\* Every device is under its container's name, whoever has found it.
PlainRegistry == \A k \in DOMAIN registry : registry[k] = k

\* Before the first connection the streams have not begun.
NotBegun ==
  handling = "off" =>
    /\ scan = "idle" /\ created = {} /\ removed = {}
    /\ discovered = {} /\ ~restarted

\* What a scan has added or removed is kept until its event has been dealt with:
\* the next scan begins after that.
EventsPending ==
  /\ created # {} => \/ scan \in {"listing", "removing", "purging"}
                     \/ scan = "idle" /\ handling = "created"
  /\ removed # {} => \/ scan = "purging"
                     \/ scan = "idle" /\ handling \in {"created", "removed"}
  /\ handling = "created" \/ handling = "removed" => scan = "idle"
  /\ removed \cap Registered = {}

ScanInv == PlainRegistry /\ NotBegun /\ EventsPending /\ NothingLeftBehind

\* With plain slugs identifiers are names, keys are devices.
LEMMA PlainSlugsOf == PlainSlugs => \A ns \in SUBSET Names : Slugs(ns) = ns
BY DEF PlainSlugs, Slugs

LEMMA PlainDevices ==
  ASSUME PlainRegistry
  PROVE  /\ Registered = DOMAIN registry
         /\ \A ks : DevicesOf(ks) = ks \cap DOMAIN registry
BY DEF PlainRegistry, Registered, DevicesOf

\* The registry stays plain, and a scan adds what it has found and removes what
\* it has not.
LEMMA PlainNext ==
  ASSUME TypeOK, PlainRegistry, [Next]_vars
  PROVE  /\ PlainRegistry'
         /\ AddDiscovered => Registered' = Registered \cup found
         /\ RemoveMissing => Registered' = Registered \cap found
         /\ ~AddDiscovered /\ ~RemoveMissing => Registered' = Registered
<1>1. ASSUME UNCHANGED registry PROVE PlainRegistry' /\ Registered' = Registered
  BY <1>1, RegistryUnchanged DEF PlainRegistry
<1>2. CASE AddDiscovered
  <2>1. PlainRegistry'
    BY <1>2, RegistryAfterAdding DEF PlainRegistry
  <2>2. Registered' = (DOMAIN registry)'
    BY <2>1 DEF PlainRegistry, Registered, DevicesOf
  <2>3. Registered' = Registered \cup found
    BY <1>2, <2>2, RegistryAfterAdding, PlainDevices
  <2>4. ~RemoveMissing
    BY <1>2 DEF AddDiscovered, RemoveMissing
  <2>5. QED
    BY <1>2, <2>1, <2>3, <2>4
<1>3. CASE RemoveMissing
  <2>1. PlainRegistry'
    BY <1>3, RegistryAfterRemoving DEF PlainRegistry
  <2>2. Registered' = (DOMAIN registry)'
    BY <2>1 DEF PlainRegistry, Registered, DevicesOf
  <2>3. Registered' = Registered \cap found
    BY <1>3, <2>2, RegistryAfterRemoving, PlainDevices
  <2>4. ~AddDiscovered
    BY <1>3 DEF AddDiscovered, RemoveMissing
  <2>5. QED
    BY <1>3, <2>1, <2>3, <2>4
<1>4. CASE ~AddDiscovered /\ ~RemoveMissing
  <2>1. UNCHANGED registry
    <3>0. CASE UNCHANGED vars
      BY <3>0 DEF vars
    <3>1. CASE Next
      BY <1>4, <3>1 DEF Next, ScanStep, ReadStep, HandlerStep, ContainerChanges, ListContainers,
         ListFails, PurgeLastMessages, StartReading, ReadDevice, FilterData, YieldData,
         PublishData, AnnounceCreated, WithdrawRemoved, Disconnect, Connect, HaRestarts,
         InitializeStep, GatherDiscovery, PublishDiscovery, ReadAllDevices, PublishAnswers
    <3>2. QED
      BY <3>0, <3>1
  <2>2. QED
    BY <1>1, <1>4, <2>1
<1>5. QED
  BY <1>2, <1>3, <1>4

LEMMA ScanInit == ASSUME PlainSlugs PROVE Init => ScanInv
<1> SUFFICES ASSUME Init PROVE ScanInv
  OBVIOUS
<1>1. PlainRegistry
  <2>1. Existing \subseteq Names /\ Slugs(Existing) = Existing
    <3>1. Existing \in SUBSET Names
      BY DEF Existing
    <3>2. QED
      BY <3>1, PlainSlugsOf
  <2>2. SUFFICES ASSUME NEW k \in Existing PROVE registry[k] = k
    BY <2>1 DEF Init, PlainRegistry
  <2>3. registry[k] = CHOOSE n \in Existing : Slug[n] = k
    BY <2>1, <2>2 DEF Init
  <2>4. \A n \in Existing : Slug[n] = k => n = k
    BY <2>1 DEF PlainSlugs
  <2>5. QED
    BY <2>1, <2>3, <2>4 DEF PlainSlugs
<1>2. QED
  BY <1>1 DEF Init, ScanInv, NotBegun, EventsPending, NothingLeftBehind

LEMMA ScanNext ==
  ASSUME PlainSlugs, Lasting, TypeOK, RestartInv, ScanInv, [Next]_vars
  PROVE  ScanInv'
<1> USE DEF scanVars, readVars, haVars, initVars
<1>a. Registered \subseteq Names /\ removed \subseteq Names /\ created \subseteq Names
  BY DEF TypeOK
<1>b. TypeOK' /\ PlainRegistry'
  BY TypeNext, PlainNext DEF ScanInv
<1>c. /\ Slugs(Registered \cup removed) = Registered \cup removed
      /\ Slugs(Registered \cup removed)' = Registered' \cup removed'
      /\ Slugs(Registered) = Registered /\ Slugs(removed) = removed
  <2>1. /\ Registered \in SUBSET Names /\ removed \in SUBSET Names
        /\ Registered \cup removed \in SUBSET Names
    BY <1>a
  <2>2. Registered' \cup removed' \in SUBSET Names
    BY <1>b DEF TypeOK
  <2>3. Slugs(Registered \cup removed)' = Slugs(Registered' \cup removed')
    BY DEF Slugs
  <2>4. QED
    BY <2>1, <2>2, <2>3, PlainSlugsOf
<1>d. ~AddDiscovered /\ ~RemoveMissing => Registered' = Registered
  BY PlainNext DEF ScanInv
<1>q. ASSUME NotBegun', EventsPending',
             handling' # "off" /\ ~restarted' => discovered' \subseteq Registered' \cup removed'
      PROVE  ScanInv'
  BY <1>b, <1>c, <1>q DEF ScanInv, NothingLeftBehind
<1>e. /\ handling # "off" /\ ~restarted => discovered \subseteq Registered \cup removed
      /\ NotBegun /\ EventsPending
      /\ "reconnect" \notin env /\ "publish" \notin env
  BY <1>c DEF ScanInv, NothingLeftBehind, Lasting
<1> HIDE DEF ScanInv
<1> USE DEF NotBegun, EventsPending
<1>0. CASE UNCHANGED vars
  <2>1. Registered' = Registered
    BY <1>0, RegistryUnchanged DEF vars
  <2>2. QED
    BY <1>0, <1>e, <1>q, <2>1 DEF vars
<1>1. ASSUME NEW n \in Names, NEW v \in Maybe, ContainerChanges(n, v) PROVE ScanInv'
  <2>1. Registered' = Registered
    BY <1>1, RegistryUnchanged DEF ContainerChanges
  <2>2. QED
    BY <1>1, <1>e, <1>q, <2>1 DEF ContainerChanges
<1>2. CASE ListContainers
  <2>1. Registered' = Registered
    BY <1>2, RegistryUnchanged DEF ListContainers
  <2>2. QED
    BY <1>2, <1>e, <1>q, <2>1 DEF ListContainers, Polled
<1>3. CASE ListFails
  <2>1. Registered' = Registered
    BY <1>3, RegistryUnchanged DEF ListFails
  <2>2. QED
    BY <1>3, <1>e, <1>q, <2>1 DEF ListFails, Polled
<1>4. CASE AddDiscovered
  <2>1. Registered' = Registered \cup found
    BY <1>4, PlainNext, <1>e DEF ScanInv
  <2>2. removed = {} /\ created = {}
    BY <1>4, <1>e DEF AddDiscovered, Polled
  <2>3. QED
    BY <1>4, <1>e, <1>q, <2>1, <2>2 DEF AddDiscovered, Polled
<1>5. CASE RemoveMissing
  <2>1. Registered' = Registered \cap found
    BY <1>5, PlainNext DEF ScanInv
  <2>2. removed' = Registered \ found
    BY <1>5, PlainDevices DEF RemoveMissing, ScanInv
  <2>3. removed = {}
    BY <1>5, <1>e DEF RemoveMissing, Polled
  <2>4. QED
    BY <1>5, <1>e, <1>q, <2>1, <2>2, <2>3 DEF RemoveMissing, Polled
<1>6. CASE PurgeLastMessages
  <2>1. Registered' = Registered
    BY <1>6, RegistryUnchanged DEF PurgeLastMessages
  <2>2. QED
    BY <1>6, <1>e, <1>q, <2>1 DEF PurgeLastMessages, Polled
<1>7. CASE StartReading
  <2>1. Registered' = Registered
    BY <1>7, RegistryUnchanged DEF StartReading
  <2>2. QED
    BY <1>7, <1>e, <1>q, <2>1 DEF StartReading
<1>8. ASSUME NEW n \in Names, ReadDevice(n) PROVE ScanInv'
  <2>1. Registered' = Registered
    BY <1>8, RegistryUnchanged DEF ReadDevice
  <2>2. QED
    BY <1>8, <1>e, <1>q, <2>1 DEF ReadDevice
<1>9. CASE FilterData
  <2>1. Registered' = Registered
    BY <1>9, RegistryUnchanged DEF FilterData
  <2>2. QED
    BY <1>9, <1>e, <1>q, <2>1 DEF FilterData, FilteredDataFollows, Polled
<1>10. CASE YieldData
  <2>1. Registered' = Registered
    BY <1>10, RegistryUnchanged DEF YieldData
  <2>2. QED
    BY <1>10, <1>e, <1>q, <2>1 DEF YieldData, Polled
<1>11. CASE PublishData
  <2>1. Registered' = Registered
    BY <1>11, RegistryUnchanged DEF PublishData
  <2>2. QED
    BY <1>11, <1>e, <1>q, <2>1 DEF PublishData
<1>12. CASE AnnounceCreated
  <2>1. Registered' = Registered
    BY <1>12, RegistryUnchanged DEF AnnounceCreated
  <2>2. discovered' \subseteq discovered \cup Registered
    <3>1. Slugs(DevicesOf(created)) \subseteq Slugs(Registered)
      BY DevicesAreRegistered DEF Slugs
    <3>2. QED
      BY <1>12, <1>c, <3>1, WhatGetsThrough DEF AnnounceCreated
  <2>3. QED
    BY <1>12, <1>e, <1>q, <2>1, <2>2 DEF AnnounceCreated
<1>13. CASE WithdrawRemoved
  <2>1. Registered' = Registered
    BY <1>13, RegistryUnchanged DEF WithdrawRemoved
  <2>2. discovered' = discovered \ removed
    BY <1>13, <1>c, <1>e, WhatGetsThrough DEF WithdrawRemoved
  <2>3. QED
    BY <1>13, <1>e, <1>q, <2>1, <2>2 DEF WithdrawRemoved
<1>14. CASE Disconnect
  BY <1>14, <1>e DEF Disconnect
<1>15. CASE Connect
  <2>1. Registered' = Registered
    BY <1>15, RegistryUnchanged DEF Connect
  <2>2. discovered' = Registered
    BY <1>15, <1>c, <1>e, WhatGetsThrough DEF Connect
  <2>3. QED
    BY <1>15, <1>e, <1>q, <2>1, <2>2 DEF Connect
<1>16. CASE HaRestarts
  <2>1. Registered' = Registered
    BY <1>16, RegistryUnchanged DEF HaRestarts
  <2>2. QED
    BY <1>16, <1>e, <1>q, <2>1 DEF HaRestarts
<1>17. CASE GatherDiscovery
  <2>1. Registered' = Registered /\ restarted /\ restarted'
    BY <1>17, RegistryUnchanged DEF GatherDiscovery, RestartInv
  <2>2. QED
    BY <1>17, <1>e, <1>q, <2>1 DEF GatherDiscovery
<1>18. CASE PublishDiscovery
  <2>1. Registered' = Registered /\ restarted /\ restarted'
    BY <1>18, RegistryUnchanged DEF PublishDiscovery, RestartInv
  <2>2. QED
    BY <1>18, <1>e, <1>q, <2>1 DEF PublishDiscovery
<1>19. CASE ReadAllDevices
  <2>1. Registered' = Registered /\ restarted /\ restarted'
    BY <1>19, RegistryUnchanged DEF ReadAllDevices, RestartInv
  <2>2. QED
    BY <1>19, <1>e, <1>q, <2>1 DEF ReadAllDevices
<1>20. CASE PublishAnswers
  <2>1. Registered' = Registered /\ restarted /\ restarted'
    BY <1>20, RegistryUnchanged DEF PublishAnswers, RestartInv
  <2>2. QED
    BY <1>20, <1>e, <1>q, <2>1 DEF PublishAnswers
<1>21. QED
  BY <1>0, <1>1, <1>2, <1>3, <1>4, <1>5, <1>6, <1>7, <1>8, <1>9, <1>10, <1>11, <1>12,
     <1>13, <1>14, <1>15, <1>16, <1>17, <1>18, <1>19, <1>20, StepCases

\* On a connection that lasts, Home Assistant knows only devices of the registry
\* and removed ones whose event is on its way, whatever lists and reads fail,
\* until it restarts.
THEOREM WithdrawalsArrive ==
  ASSUME PlainSlugs PROVE Spec => [](Lasting => NothingLeftBehind)
<1>1. Init => RestartInv /\ ScanInv
  BY ScanInit DEF Init, RestartInv
<1>2. TypeOK /\ RestartInv /\ (Lasting => ScanInv) /\ [Next]_vars =>
        RestartInv' /\ (Lasting => ScanInv)'
  BY RestartNext, ScanNext, EnvStays DEF Lasting
<1>3. (Lasting => ScanInv) => (Lasting => NothingLeftBehind)
  BY DEF ScanInv
<1>4. QED
  BY <1>1, <1>2, <1>3, TypeCorrect, PTL DEF Spec

--------------------------------------------------------------------------------
(* ... on which no list fails                                              *)

\* NothingUnannounced, with names for identifiers, and what initialize() is about
\* to announce.
Announced ==
  handling # "off" /\ initializing # "delay" =>
    Registered \subseteq discovered \cup created \cup announcing

LEMMA AnnouncedNext ==
  ASSUME PlainSlugs, Lasting, "list" \notin env,
         TypeOK, RestartInv, ScanInv, Announced, [Next]_vars
  PROVE  Announced'
<1> USE DEF scanVars, readVars, haVars, initVars
<1>a. NotBegun /\ EventsPending /\ PlainRegistry
  BY DEF ScanInv
<1>b. Slugs(Registered) = Registered /\ Slugs(removed) = removed
  BY PlainSlugsOf DEF TypeOK
<1>c. /\ AddDiscovered => Registered' = Registered \cup found
      /\ RemoveMissing => Registered' = Registered \cap found
      /\ ~AddDiscovered /\ ~RemoveMissing => Registered' = Registered
  BY <1>a, PlainNext
<1>d. "reconnect" \notin env /\ "publish" \notin env
  BY DEF Lasting
<1>s. ASSUME Registered' \subseteq Registered,
             UNCHANGED <<discovered, created, initializing, announcing>>,
             handling' # "off" => handling # "off"
      PROVE  Announced'
  BY <1>s DEF Announced
<1>r. ASSUME UNCHANGED <<registry, discovered, created, initializing, announcing>>,
             handling' # "off" => handling # "off"
      PROVE  Announced'
  BY <1>r, <1>s, RegistryUnchanged
<1>0. CASE UNCHANGED vars
  BY <1>0, <1>r DEF vars
<1>1. ASSUME NEW n \in Names, NEW v \in Maybe, ContainerChanges(n, v) PROVE Announced'
  BY <1>1, <1>r DEF ContainerChanges
<1>2. CASE ListContainers
  BY <1>2, <1>r DEF ListContainers
<1>3. CASE ListFails
  BY <1>3 DEF ListFails
<1>4. CASE AddDiscovered
  <2>1. created' = found \ Registered
    BY <1>4, <1>a, PlainDevices DEF AddDiscovered
  <2>2. created = {} /\ UNCHANGED <<discovered, handling, initializing, announcing>>
    BY <1>4, <1>a DEF AddDiscovered, Polled, EventsPending
  <2>3. QED
    BY <1>4, <1>c, <2>1, <2>2 DEF Announced
<1>5. CASE RemoveMissing
  BY <1>5, <1>c, <1>s DEF RemoveMissing
<1>6. CASE PurgeLastMessages
  BY <1>6, <1>r DEF PurgeLastMessages, Polled
<1>7. CASE StartReading
  BY <1>7, <1>r DEF StartReading
<1>8. ASSUME NEW n \in Names, ReadDevice(n) PROVE Announced'
  BY <1>8, <1>r DEF ReadDevice
<1>9. CASE FilterData
  BY <1>9, <1>r DEF FilterData, Polled
<1>10. CASE YieldData
  BY <1>10, <1>r DEF YieldData, Polled
<1>11. CASE PublishData
  BY <1>11, <1>r DEF PublishData
<1>12. CASE AnnounceCreated
  <2>1. Registered' = Registered
    BY <1>12, RegistryUnchanged DEF AnnounceCreated
  <2>2. DevicesOf(created) = created \cap Registered
    BY <1>a, PlainDevices
  <2>3. Slugs(created \cap Registered) = created \cap Registered
    BY PlainSlugsOf DEF TypeOK
  <2>4. discovered' = discovered \cup (created \cap Registered)
    BY <1>12, <1>d, <2>2, <2>3, WhatGetsThrough DEF AnnounceCreated
  <2>5. QED
    BY <1>12, <2>1, <2>4 DEF AnnounceCreated, Announced
<1>13. CASE WithdrawRemoved
  <2>1. Registered' = Registered
    BY <1>13, RegistryUnchanged DEF WithdrawRemoved
  <2>2. discovered' = discovered \ removed
    BY <1>13, <1>b, <1>d, WhatGetsThrough DEF WithdrawRemoved
  <2>3. QED
    BY <1>13, <1>a, <2>1, <2>2 DEF WithdrawRemoved, EventsPending, Announced
<1>14. CASE Disconnect
  BY <1>14, <1>d DEF Disconnect
<1>15. CASE Connect
  <2>1. Registered' = Registered
    BY <1>15, RegistryUnchanged DEF Connect
  <2>2. Registered \subseteq discovered'
    BY <1>15, <1>b, <1>d, WhatGetsThrough DEF Connect
  <2>3. QED
    BY <2>1, <2>2 DEF Announced
<1>16. CASE HaRestarts
  BY <1>16 DEF HaRestarts, Announced
<1>17. CASE GatherDiscovery
  <2>1. Registered' = Registered
    BY <1>17, RegistryUnchanged DEF GatherDiscovery
  <2>2. QED
    BY <1>17, <2>1 DEF GatherDiscovery, Announced
<1>18. CASE PublishDiscovery
  <2>1. Registered' = Registered
    BY <1>18, RegistryUnchanged DEF PublishDiscovery
  <2>2. discovered' = discovered \cup announcing
    BY <1>18, <1>d, PlainSlugsOf, WhatGetsThrough DEF PublishDiscovery, TypeOK
  <2>3. QED
    BY <1>18, <2>1, <2>2 DEF PublishDiscovery, Announced
<1>19. CASE ReadAllDevices
  <2>1. Registered' = Registered
    BY <1>19, RegistryUnchanged DEF ReadAllDevices
  <2>2. QED
    BY <1>19, <2>1 DEF ReadAllDevices, Announced
<1>20. CASE PublishAnswers
  <2>1. Registered' = Registered
    BY <1>20, RegistryUnchanged DEF PublishAnswers
  <2>2. QED
    BY <1>20, <2>1 DEF PublishAnswers, Announced
<1>21. QED
  BY <1>0, <1>1, <1>2, <1>3, <1>4, <1>5, <1>6, <1>7, <1>8, <1>9, <1>10, <1>11, <1>12,
     <1>13, <1>14, <1>15, <1>16, <1>17, <1>18, <1>19, <1>20, StepCases

\* On a connection that lasts and while lists are answered, Home Assistant knows
\* every device of the registry, but for those whose event is on its way: no
\* device is added and then not announced, and a Home Assistant that restarts is
\* told of all of them again.
THEOREM AnnouncementsArrive ==
  ASSUME PlainSlugs
  PROVE  Spec => [](Lasting /\ "list" \notin env => NothingUnannounced)
<1> DEFINE Listed == Lasting /\ "list" \notin env
           AnnouncedInv == Listed => ScanInv /\ Announced
<1>1. Init => RestartInv /\ AnnouncedInv
  BY ScanInit DEF Init, Announced, RestartInv
<1>2. TypeOK /\ RestartInv /\ AnnouncedInv /\ [Next]_vars => RestartInv' /\ AnnouncedInv'
  <2> SUFFICES ASSUME TypeOK, RestartInv, AnnouncedInv, [Next]_vars, Listed'
               PROVE  RestartInv' /\ ScanInv' /\ Announced'
    BY RestartNext
  <2>1. Listed
    BY EnvStays DEF Lasting
  <2>2. QED
    BY <2>1, RestartNext, ScanNext, AnnouncedNext
<1>3. TypeOK /\ RestartInv /\ AnnouncedInv => (Listed => NothingUnannounced)
  <2>1. TypeOK => Slugs(Registered) = Registered /\ Slugs(created) = created
    BY PlainSlugsOf DEF TypeOK
  <2>2. QED
    BY <2>1 DEF Announced, NothingUnannounced, RestartInv
<1>4. QED
  BY <1>1, <1>2, <1>3, TypeCorrect, PTL DEF Spec

--------------------------------------------------------------------------------
(* Connections that come and go, while no container is created             *)

\* The registry holds every container, and no scan finds one it has not.
NothingAppears ==
  /\ PlainRegistry
  /\ Existing \subseteq Registered
  /\ scan = "adding" => found \subseteq Registered
  /\ scan \in {"adding", "removing"} => Existing \subseteq found
  /\ created = {}

\* What was let through is with the stream or with the handler.
OnItsWay == read = "yielding" \/ handling = "data"

\* What is recorded for a known device is on its way, or shown.
RecordedOrOnItsWay ==
  ~restarted => \A t \in discovered :
    IF OnItsWay /\ data[t] # NoValue
      THEN last_messages[t] \in {NoValue, data[t]}
      ELSE last_messages[t] \in {NoValue, shown[t]}

RecordInv ==
  /\ handling = "off" => last_messages = Nothing
  /\ unread # {} => read = "reading"
  /\ handling = "data" => read = "idle"
  /\ RecordedOrOnItsWay

LEMMA AppearsNext ==
  ASSUME PlainSlugs, "create" \notin env, TypeOK, NothingAppears, [Next]_vars
  PROVE  NothingAppears'
<1> USE DEF scanVars, readVars, haVars, initVars
<1>a. /\ PlainRegistry'
      /\ AddDiscovered => Registered' = Registered \cup found
      /\ RemoveMissing => Registered' = Registered \cap found
      /\ ~AddDiscovered /\ ~RemoveMissing => Registered' = Registered
  BY PlainNext DEF NothingAppears
<1>r. ASSUME UNCHANGED <<engine, registry>>, created' = {},
             \/ UNCHANGED <<scan, found>>
             \/ scan' \notin {"adding", "removing"}
      PROVE  NothingAppears'
  <2>1. Registered' = Registered /\ Existing' = Existing
    BY <1>r, RegistryUnchanged DEF Existing
  <2>2. QED
    BY <1>a, <1>r, <2>1 DEF NothingAppears
<1>s. ASSUME UNCHANGED <<engine, registry, scan, found, created>> PROVE NothingAppears'
  BY <1>s, <1>r DEF NothingAppears
<1>0. CASE UNCHANGED vars
  BY <1>0, <1>s DEF vars
<1>1. ASSUME NEW n \in Names, NEW v \in Maybe, ContainerChanges(n, v) PROVE NothingAppears'
  <2>1. Registered' = Registered
    BY <1>1, RegistryUnchanged DEF ContainerChanges
  <2>2. Existing' \subseteq Existing
    BY <1>1 DEF ContainerChanges, Existing, TypeOK, Maybe
  <2>3. UNCHANGED <<scan, found, created>>
    BY <1>1 DEF ContainerChanges
  <2>4. QED
    BY <1>a, <2>1, <2>2, <2>3 DEF NothingAppears
<1>2. CASE ListContainers
  <2>1. Registered' = Registered /\ Existing' = Existing
    BY <1>2, RegistryUnchanged DEF ListContainers, Existing
  <2>2. found' = Existing /\ created' = {}
    BY <1>2 DEF ListContainers, NothingAppears
  <2>3. QED
    BY <1>a, <2>1, <2>2 DEF NothingAppears
<1>3. CASE ListFails
  BY <1>3, <1>r DEF ListFails
<1>4. CASE AddDiscovered
  <2>1. found \subseteq DOMAIN registry
    BY <1>4, PlainDevices DEF AddDiscovered, NothingAppears
  <2>2. created' = {} /\ scan' = "listing" /\ engine' = engine
    BY <1>4, <2>1 DEF AddDiscovered
  <2>3. Existing' = Existing
    BY <2>2 DEF Existing
  <2>4. QED
    BY <1>4, <1>a, <2>2, <2>3 DEF NothingAppears
<1>5. CASE RemoveMissing
  <2>1. /\ Existing' = Existing /\ Existing \subseteq found
        /\ scan' = "purging" /\ created' = {}
    BY <1>5 DEF RemoveMissing, Existing, NothingAppears
  <2>2. QED
    BY <1>5, <1>a, <2>1 DEF NothingAppears
<1>6. CASE PurgeLastMessages
  BY <1>6, <1>r DEF PurgeLastMessages, NothingAppears
<1>7. CASE StartReading
  BY <1>7, <1>s DEF StartReading
<1>8. ASSUME NEW n \in Names, ReadDevice(n) PROVE NothingAppears'
  BY <1>8, <1>s DEF ReadDevice
<1>9. CASE FilterData
  BY <1>9, <1>s DEF FilterData
<1>10. CASE YieldData
  BY <1>10, <1>s DEF YieldData
<1>11. CASE PublishData
  BY <1>11, <1>s DEF PublishData
<1>12. CASE AnnounceCreated
  BY <1>12, <1>r DEF AnnounceCreated
<1>13. CASE WithdrawRemoved
  BY <1>13, <1>s DEF WithdrawRemoved
<1>14. CASE Disconnect
  BY <1>14, <1>r DEF Disconnect
<1>15. CASE Connect
  BY <1>15, <1>s DEF Connect
<1>16. CASE HaRestarts
  BY <1>16, <1>s DEF HaRestarts
<1>17. CASE GatherDiscovery
  BY <1>17, <1>s DEF GatherDiscovery
<1>18. CASE PublishDiscovery
  BY <1>18, <1>s DEF PublishDiscovery
<1>19. CASE ReadAllDevices
  BY <1>19, <1>s DEF ReadAllDevices
<1>20. CASE PublishAnswers
  BY <1>20, <1>s DEF PublishAnswers
<1>21. QED
  BY <1>0, <1>1, <1>2, <1>3, <1>4, <1>5, <1>6, <1>7, <1>8, <1>9, <1>10, <1>11, <1>12,
     <1>13, <1>14, <1>15, <1>16, <1>17, <1>18, <1>19, <1>20, StepCases

LEMMA RecordNext ==
  ASSUME "publish" \notin env, TypeOK, created = {}, RestartInv, RecordInv, [Next]_vars
  PROVE  RecordInv'
<1> USE DEF scanVars, readVars, haVars, initVars
<1>s. ASSUME UNCHANGED <<read, unread, data, last_messages, discovered, shown, restarted>>,
             \/ UNCHANGED handling
             \/ handling \notin {"off", "data"} /\ handling' \notin {"off", "data"}
      PROVE  RecordInv'
  BY <1>s DEF RecordInv, RecordedOrOnItsWay, OnItsWay, Nothing
<1>0. CASE UNCHANGED vars
  BY <1>0, <1>s DEF vars
<1>1. ASSUME NEW n \in Names, NEW v \in Maybe, ContainerChanges(n, v) PROVE RecordInv'
  BY <1>1, <1>s DEF ContainerChanges
<1>2. CASE ListContainers
  BY <1>2, <1>s DEF ListContainers
<1>3. CASE ListFails
  BY <1>3, <1>s DEF ListFails
<1>4. CASE AddDiscovered
  BY <1>4, <1>s DEF AddDiscovered
<1>5. CASE RemoveMissing
  BY <1>5, <1>s DEF RemoveMissing
<1>6. CASE PurgeLastMessages
  <2>1. \A t \in discovered : last_messages'[t] \in {NoValue, last_messages[t]}
    BY <1>6 DEF PurgeLastMessages, TypeOK
  <2>2. /\ UNCHANGED <<read, unread, data, discovered, shown, restarted>>
        /\ handling = "streams" /\ handling' \in {"created", "removed", "streams"}
    BY <1>6 DEF PurgeLastMessages, Polled
  <2>3. QED
    BY <2>1, <2>2 DEF RecordInv, RecordedOrOnItsWay, OnItsWay
<1>7. CASE StartReading
  BY <1>7 DEF StartReading, Polled, RecordInv, RecordedOrOnItsWay, OnItsWay
<1>8. ASSUME NEW n \in Names, ReadDevice(n) PROVE RecordInv'
  <2>1. /\ read = "reading" /\ handling = "streams" /\ unread' \subseteq unread
        /\ UNCHANGED <<handling, read, last_messages, discovered, shown, restarted>>
    BY <1>8 DEF ReadDevice, Polled, RecordInv
  <2>2. QED
    BY <2>1 DEF RecordInv, RecordedOrOnItsWay, OnItsWay
<1>9. CASE FilterData
  <2>1. /\ read = "reading" /\ handling = "streams" /\ unread' = {}
        /\ UNCHANGED <<discovered, shown, restarted>>
        /\ \/ read' = "yielding" /\ handling' = "streams"
           \/ read' = "idle" /\ handling' = "data"
    BY <1>9 DEF FilterData, FilteredDataFollows, Polled
  <2>2. OnItsWay' /\ ~OnItsWay
    BY <2>1 DEF OnItsWay
  <2>3. \A t \in discovered :
          IF data'[t] # NoValue THEN last_messages'[t] = data'[t]
                                ELSE last_messages'[t] = last_messages[t]
    BY <1>9 DEF FilterData, News, TypeOK
  <2>4. QED
    BY <2>1, <2>2, <2>3 DEF RecordInv, RecordedOrOnItsWay
<1>10. CASE YieldData
  BY <1>10 DEF YieldData, Polled, RecordInv, RecordedOrOnItsWay, OnItsWay
<1>11. CASE PublishData
  <2>1. \A t \in discovered : shown'[t] = IF data[t] # NoValue THEN data[t] ELSE shown[t]
    BY <1>11, WhatGetsThrough DEF PublishData, Shows, TypeOK
  <2>2. /\ OnItsWay /\ ~OnItsWay'
        /\ handling' = "streams"
        /\ UNCHANGED <<read, unread, last_messages, discovered, restarted>>
    BY <1>11 DEF PublishData, OnItsWay, RecordInv
  <2>3. QED
    BY <2>1, <2>2 DEF RecordInv, RecordedOrOnItsWay
<1>12. CASE AnnounceCreated
  <2>1. Slugs(DevicesOf(created)) = {}
    BY DEF Slugs, DevicesOf
  <2>2. discovered' = discovered
    BY <1>12, <2>1, WhatGetsThrough DEF AnnounceCreated
  <2>3. QED
    BY <1>12, <1>s, <2>2 DEF AnnounceCreated
<1>13. CASE WithdrawRemoved
  <2>1. \A t \in discovered' : t \in discovered /\ shown'[t] = shown[t]
    BY <1>13 DEF WithdrawRemoved, TypeOK
  <2>2. /\ UNCHANGED <<read, unread, data, last_messages, restarted>>
        /\ handling = "removed" /\ handling' = "streams"
    BY <1>13 DEF WithdrawRemoved
  <2>3. QED
    BY <2>1, <2>2 DEF RecordInv, RecordedOrOnItsWay, OnItsWay
<1>14. CASE Disconnect
  <2>1. \A t \in discovered' : last_messages'[t] = NoValue
    BY <1>14 DEF Disconnect, Nothing, TypeOK
  <2>2. handling' = "off" /\ unread' = {} /\ last_messages' = Nothing
    BY <1>14 DEF Disconnect
  <2>3. QED
    BY <2>1, <2>2 DEF RecordInv, RecordedOrOnItsWay, Nothing
<1>15. CASE Connect
  <2>1. handling' = "streams" /\ UNCHANGED <<read, unread>> /\ last_messages' = Nothing
    BY <1>15 DEF Connect, RecordInv
  <2>2. \A t \in discovered' : last_messages'[t] = NoValue
    BY <2>1, <1>15, TypeNext DEF Nothing, TypeOK
  <2>3. QED
    BY <2>1, <2>2 DEF RecordInv, RecordedOrOnItsWay
<1>16. CASE HaRestarts
  <2>1. UNCHANGED <<handling, read, unread, last_messages>> /\ discovered' = {}
    BY <1>16 DEF HaRestarts
  <2>2. QED
    BY <2>1 DEF RecordInv, RecordedOrOnItsWay, Nothing
<1>17. CASE GatherDiscovery
  BY <1>17, <1>s DEF GatherDiscovery
<1>18. CASE PublishDiscovery
  <2>1. UNCHANGED <<handling, read, unread, last_messages>> /\ restarted'
    BY <1>18 DEF PublishDiscovery, RestartInv
  <2>2. QED
    BY <2>1 DEF RecordInv, RecordedOrOnItsWay, Nothing
<1>19. CASE ReadAllDevices
  BY <1>19, <1>s DEF ReadAllDevices
<1>20. CASE PublishAnswers
  <2>1. UNCHANGED <<handling, read, unread, last_messages>> /\ restarted'
    BY <1>20 DEF PublishAnswers, RestartInv
  <2>2. QED
    BY <2>1 DEF RecordInv, RecordedOrOnItsWay, Nothing
<1>21. QED
  BY <1>0, <1>1, <1>2, <1>3, <1>4, <1>5, <1>6, <1>7, <1>8, <1>9, <1>10, <1>11, <1>12,
     <1>13, <1>14, <1>15, <1>16, <1>17, <1>18, <1>19, <1>20, StepCases

\* However often the connection is lost, and whatever reads and lists fail: as
\* long as no container is created, what is recorded for a device that Home
\* Assistant knows is what it shows, or is on its way to it, until Home Assistant
\* restarts.
THEOREM RecordIsTrue ==
  ASSUME PlainSlugs
  PROVE  Spec => [](env \cap {"create", "publish"} = {} => RecordedIsShown)
<1> DEFINE Steady == env \cap {"create", "publish"} = {}
           SteadyInv == Steady => NothingAppears /\ RecordInv
<1>1. Init => NothingAppears
  <2> SUFFICES ASSUME Init PROVE NothingAppears
    OBVIOUS
  <2>1. PlainRegistry
    BY ScanInit DEF ScanInv
  <2>2. Existing = DOMAIN registry
    <3>1. Existing \in SUBSET Names
      BY DEF Existing
    <3>2. QED
      BY <3>1, PlainSlugsOf DEF Init
  <2>3. QED
    BY <2>1, <2>2, PlainDevices DEF Init, NothingAppears
<1>2. Init => RecordInv
  BY DEF Init, RecordInv, RecordedOrOnItsWay, Nothing
<1>3. TypeOK /\ RestartInv /\ SteadyInv /\ [Next]_vars => RestartInv' /\ SteadyInv'
  <2> SUFFICES ASSUME TypeOK, RestartInv, SteadyInv, [Next]_vars, Steady'
               PROVE  RestartInv' /\ NothingAppears' /\ RecordInv'
    BY RestartNext
  <2>1. Steady
    BY EnvStays
  <2>2. created = {}
    BY <2>1 DEF NothingAppears
  <2>3. QED
    BY <2>1, <2>2, RestartNext, AppearsNext, RecordNext
<1>4. SteadyInv => (Steady => RecordedIsShown)
  BY DEF RecordInv, RecordedOrOnItsWay, RecordedIsShown
<1>5. Init => RestartInv
  BY DEF Init, RestartInv
<1>6. QED
  BY <1>1, <1>2, <1>3, <1>4, <1>5, TypeCorrect, PTL DEF Spec

================================================================================

------------------------- MODULE MqttSessionProofs -------------------------
(***************************************************************************)
(* For every set of nodes, every size of the table and every interval: a   *)
(* session that setupMqtt opened has the commands of every entity, and a   *)
(* wrong status in an open session is put right within one interval,       *)
(* whatever the network does between any two steps of the loop.            *)
(***************************************************************************)
EXTENDS MqttSession, DeviceRegistryProofs

-----------------------------------------------------------------------------
(***************************************************************************)
(* The inductive invariant: besides the properties, that only a connected  *)
(* client has the session's id, and how old the status shown may be.       *)
(***************************************************************************)
ConnectedById ==
    /\ client.clientId = MqttClientId => client.connected
    /\ DOMAIN retained = {"status", "gateway", "discovery"}

\* Time since publishGatewayStatus last published.
StatusAge == Elapsed(millis, status.lastGatewayStatusTime)

\* In an open session the status has been wrong for no longer than it is old;
\* and when the loop begins an iteration in an open session, the status was
\* published less than an interval before the last tick.
StatusYoung ==
    /\ live => stale <= StatusAge
    /\ live /\ pc = "connect" => StatusAge <= StatusInterval
    /\ live /\ pc = "connect" /\ iterated => StatusAge < StatusInterval

Inv == /\ SessionTypeOK
       /\ ConnectedById
       /\ SessionSubscribed
       /\ StatusYoung
       /\ StatusCorrectedInTime

-----------------------------------------------------------------------------
(* The command entities of the devices no removal has moved, one by one. *)

\* x is the topic of a command entity that slot i stores, for its own device.
CommandOf(r, i, x) ==
    /\ r.devices[i].info.entities = i
    /\ \E entity \in entitiesOf(r, i) :
         HasCommands(entity) /\ x = <<r.devices[i].info.deviceId, entity.entityId>>

\* UnmovedCommandEntities through the slots.
LEMMA Unmoved ==
    ASSUME NEW x
    PROVE  x \in UnmovedCommandEntities
             <=> \E i \in 1 .. registry.deviceCount : CommandOf(registry, i, x)
  BY DEF UnmovedCommandEntities, CommandOf

\* The same after a step.
LEMMA UnmovedNext ==
    ASSUME NEW x
    PROVE  x \in UnmovedCommandEntities'
             <=> \E i \in 1 .. registry'.deviceCount : CommandOf(registry', i, x)
  BY DEF UnmovedCommandEntities, CommandOf

\* setupMqtt subscribes to every one of them: a pointer that has not moved leads
\* to what the slot stores, and the two counts of a slot agree.
LEMMA SubscriptionsCover ==
    ASSUME NEW r, RegistryOk(r), NEW x, NEW i \in 1 .. r.deviceCount, CommandOf(r, i, x)
    PROVE  x \in subscriptionsOf(r)
  <1> DEFINE slot == r.devices[i]
  <1>1. PICK entity \in entitiesOf(r, i) :
           HasCommands(entity) /\ x = <<slot.info.deviceId, entity.entityId>>
    BY DEF CommandOf
  <1>2. PICK k \in 1 .. slot.registeredEntityCount : entity = slot.entities[k]
    BY <1>1 DEF entitiesOf
  <1>3. /\ slot \in InternalDeviceInfo
        /\ StorageOk(slot)
        /\ slot.info.deviceId \in DeviceIds
        /\ slot.info.entities = i
    <2>1. i \in Slots /\ r \in Registry
      BY MaxDevicesAssumption DEF RegistryOk, Registry, Slots
    <2> QED BY <2>1 DEF RegistryOk, Registry, DevicesDistinct, CommandOf
  <1>4. k \in 1 .. slot.info.entityCount
    BY <1>2, <1>3 DEF StorageOk
  <1>5. entity.entityId \in EntityIds
    <2>1. k \in EntitySlots /\ k <= slot.registeredEntityCount
      BY <1>2, <1>3, MaxEntitiesAssumption DEF InternalDeviceInfo, EntitySlots
    <2>2. entity \in EntityInfo
      BY <1>2, <1>3, <2>1 DEF StorageOk
    <2> QED BY <2>2 DEF EntityInfo
  <1>6. x \in Entities
    BY <1>1, <1>3, <1>5 DEF Entities
  <1> QED BY <1>1, <1>2, <1>3, <1>4, <1>6 DEF subscriptionsOf

\* A removal adds none: a slot that moves keeps its pointer, which is then one
\* too far.
LEMMA UnregisterKeepsCommands ==
    ASSUME NEW r, RegistryOk(r), NEW d \in registeredIds(r), NEW x,
           NEW i \in 1 .. unregisterDevice(r, d).deviceCount,
           CommandOf(unregisterDevice(r, d), i, x)
    PROVE  i \in 1 .. r.deviceCount /\ CommandOf(r, i, x)
  <1> DEFINE q == unregisterDevice(r, d)
  <1>1. PICK k \in 1 .. r.deviceCount : d = r.devices[k].info.deviceId
    BY DEF registeredIds
  <1>2. /\ q.deviceCount = r.deviceCount - 1
        /\ \A j \in 1 .. r.deviceCount - 1 :
             q.devices[j] = IF j < k THEN r.devices[j] ELSE r.devices[j + 1]
    BY <1>1, UnregisterDeviceShifts
  <1> HIDE DEF q
  <1>3. r.deviceCount \in Nat /\ MaxDevices \in Nat
    BY MaxDevicesAssumption DEF RegistryOk, Registry
  <1>4. i \in 1 .. r.deviceCount - 1 /\ i \in 1 .. r.deviceCount
    BY <1>2, <1>3 DEF q
  <1>5. i < k
    <2> SUFFICES ASSUME ~ (i < k) PROVE FALSE
      OBVIOUS
    <2>1. i + 1 \in 1 .. r.deviceCount /\ q.devices[i] = r.devices[i + 1]
      BY <1>2, <1>3, <1>4
    <2>2. r.devices[i + 1].info.entities \in i + 1 .. MaxDevices
      BY <2>1 DEF RegistryOk, PointersOk
    <2>3. q.devices[i].info.entities = i
      BY DEF CommandOf, q
    <2> QED BY <1>3, <1>4, <2>1, <2>2, <2>3
  <1>6. q.devices[i] = r.devices[i]
    BY <1>2, <1>4, <1>5
  <1>7. CommandOf(q, i, x)
    BY DEF q
  <1> QED BY <1>4, <1>6, <1>7 DEF CommandOf, entitiesOf

\* An announcement adds the one it announces at most, and then it is accepted.
LEMMA DiscoveryAddsCommand ==
    ASSUME NEW r, RegistryOk(r), NEW entity \in EntityInfo,
           registerDeviceOk(r, entity.deviceId),
           NEW known, known = registerDevice(r, entity.deviceId, 0),
           NEW q, q = registerEntity(known, entity.deviceId, entity)
    PROVE  /\ RegistryOk(q)
           /\ \A x, i : i \in 1 .. q.deviceCount /\ CommandOf(q, i, x) =>
                \/ i \in 1 .. r.deviceCount /\ CommandOf(r, i, x)
                \/ /\ registerEntityOk(known, entity.deviceId, entity)
                   /\ HasCommands(entity)
                   /\ x = <<entity.deviceId, entity.entityId>>
  <1> DEFINE d == entity.deviceId
  <1>1. d \in DeviceIds /\ 0 \in Millis /\ r.deviceCount \in Nat
    BY MillisRangeAssumption, MaxDevicesAssumption
    DEF EntityInfo, Millis, RegistryOk, Registry
  <1>2. /\ RegistryOk(known)
        /\ known.deviceCount \in r.deviceCount .. r.deviceCount + 1
        /\ \A i \in 1 .. r.deviceCount : known.devices[i] = r.devices[i]
    BY <1>1, RegisterDeviceOk
  <1>3. RegistryOk(q) /\ q.deviceCount = known.deviceCount
    BY <1>2, RegisterEntityOk
  <1>4. ASSUME NEW x, NEW i \in 1 .. q.deviceCount, CommandOf(q, i, x)
        PROVE  \/ i \in 1 .. known.deviceCount /\ CommandOf(known, i, x)
               \/ /\ registerEntityOk(known, d, entity)
                  /\ HasCommands(entity)
                  /\ x = <<d, entity.entityId>>
    <2>1. i \in 1 .. known.deviceCount
      BY <1>3
    <2>2. q.devices[i].info.deviceId = known.devices[i].info.deviceId
      BY <1>2, <2>1, RegisterEntityOk
    <2>3. /\ q.devices[i].info.entities = known.devices[i].info.entities
          /\ \/ entitiesOf(q, i) = entitiesOf(known, i)
             \/ /\ known.devices[i].info.deviceId = d
                /\ registerEntityOk(known, d, entity)
                /\ entitiesOf(q, i) = entitiesOf(known, i) \cup {entity}
      BY <1>2, <2>1, RegisterEntitySlots
    <2> QED BY <1>4, <2>1, <2>2, <2>3 DEF CommandOf
  <1>5. ASSUME NEW x, NEW i \in 1 .. known.deviceCount, CommandOf(known, i, x)
        PROVE  i \in 1 .. r.deviceCount /\ CommandOf(r, i, x)
    <2>1. CASE hasDevice(r, d)
      <3>1. known = r
        BY <2>1 DEF registerDevice
      <3> QED BY <1>5, <3>1
    <2>2. CASE ~ hasDevice(r, d)
      <3>1. known.deviceCount = r.deviceCount + 1 /\ entitiesOf(known, r.deviceCount + 1) = {}
        BY <1>1, <2>2, RegisterDeviceNew
      <3>2. i # r.deviceCount + 1
        BY <1>5, <3>1 DEF CommandOf
      <3>3. i \in 1 .. r.deviceCount
        BY <1>1, <3>1, <3>2
      <3>4. known.devices[i] = r.devices[i]
        BY <1>2, <3>3
      <3> QED BY <1>5, <3>3, <3>4 DEF CommandOf, entitiesOf
    <2> QED BY <2>1, <2>2
  <1> QED BY <1>3, <1>4, <1>5

-----------------------------------------------------------------------------
(* The steps. *)

\* At boot there is neither a device nor a session.
LEMMA InitInv == Init => Inv
  <1> SUFFICES ASSUME Init PROVE Inv
    OBVIOUS
  <1>1. RegistryOk(registry) /\ registry.deviceCount = 0
    BY EmptyRegistryOk DEF Init, EmptyRegistry
  <1>2. SessionTypeOK
    BY <1>1, MillisRangeAssumption, MaxDevicesAssumption, MaxStaleAssumption
    DEF Init, SessionTypeOK, Millis, NoSession
  <1>3. client.clientId # MqttClientId /\ DOMAIN retained = {"status", "gateway", "discovery"}
    BY DEF Init, NoSession, MqttClientId
  <1>4. StatusYoung /\ StatusCorrectedInTime
    BY StatusIntervalAssumption DEF Init, StatusYoung, StatusCorrectedInTime
  <1> QED BY <1>2, <1>3, <1>4 DEF Inv, ConnectedById, SessionSubscribed

\* What setupMqtt subscribes to is all a session has to have.
LEMMA SetupSubscribes ==
    ASSUME RegistryOk(registry)
    PROVE  UnmovedCommandEntities \subseteq subscriptionsOf(registry)
  BY Unmoved, SubscriptionsCover

\* The commands a session has to have after a step that leaves registry alone.
LEMMA SameCommands ==
    ASSUME registry' = registry
    PROVE  UnmovedCommandEntities' = UnmovedCommandEntities
  BY DEF UnmovedCommandEntities

\* A session opened by setupMqtt starts with every command and with a fresh
\* count of wrong ticks.
LEMMA SetupMqttInv ==
    ASSUME Inv, SetupMqtt
    PROVE  Inv'
  <1>1. /\ SessionTypeOK /\ ConnectedById /\ SessionSubscribed
        /\ registry' = registry /\ millis' = millis /\ status' = status
        /\ link' = link /\ broker' = broker
        /\ pc' # "connect"
        /\ link
    BY DEF Inv, SetupMqtt, ConnectNeeded
  <1>2. CASE broker
    <2>1. /\ client' = Session(MqttClientId, subscriptionsOf(registry))
          /\ live'
          /\ stale' = 0
          /\ DOMAIN retained' = DOMAIN retained
      BY <1>2 DEF SetupMqtt, Opened
    <2>2. client' \in [connected : BOOLEAN,
                       clientId : {"none", MqttClientId, ReconnectClientId},
                       subscriptions : SUBSET Entities]
          /\ client'.connected
      BY <2>1 DEF Session, subscriptionsOf
    <2>3. SessionTypeOK'
      BY <1>1, <1>2, <2>1, <2>2, MaxStaleAssumption DEF SessionTypeOK, Reachable
    <2>4. SessionSubscribed'
      <3>1. UnmovedCommandEntities' \subseteq subscriptionsOf(registry)
        BY <1>1, SetupSubscribes, SameCommands DEF SessionTypeOK
      <3>2. client'.subscriptions = subscriptionsOf(registry)
        BY <2>1 DEF Session
      <3> QED BY <3>1, <3>2 DEF SessionSubscribed
    <2>5. StatusYoung' /\ StatusCorrectedInTime'
      <3>1. StatusAge' \in Nat
        BY <1>1, ElapsedRange DEF StatusAge, SessionTypeOK
      <3> QED BY <1>1, <2>1, <3>1, StatusIntervalAssumption
              DEF StatusYoung, StatusCorrectedInTime
    <2> QED BY <1>1, <2>1, <2>2, <2>3, <2>4, <2>5 DEF Inv, ConnectedById
  <1>3. CASE ~ broker
    <2>1. UNCHANGED <<client, live, retained, stale>>
      BY <1>3 DEF SetupMqtt
    <2>2. ~ live
      BY <1>1, <1>3 DEF SessionTypeOK, Reachable
    <2> QED BY <1>1, <2>1, <2>2, SameCommands
            DEF Inv, SessionTypeOK, ConnectedById, SessionSubscribed, StatusYoung,
                StatusCorrectedInTime, Reachable
  <1> QED BY <1>2, <1>3

\* A session opened by MqttHandler::handle has the other id: nothing is asked
\* of its subscriptions.
LEMMA ReconnectInv ==
    ASSUME Inv, Reconnect
    PROVE  Inv'
  <1>1. /\ SessionTypeOK /\ ConnectedById /\ SessionSubscribed
        /\ registry' = registry /\ millis' = millis /\ status' = status
        /\ retained' = retained
        /\ link' = link /\ broker' = broker
        /\ pc' = "status"
    BY DEF Inv, Reconnect
  <1>2. CASE Reachable /\ serverSet /\ AnonymousAllowed
    <2>1. /\ client' = Session(ReconnectClientId, {})
          /\ live'
          /\ stale' = 0
      BY <1>2 DEF Reconnect, Opened
    <2>2. /\ client' \in [connected : BOOLEAN,
                          clientId : {"none", MqttClientId, ReconnectClientId},
                          subscriptions : SUBSET Entities]
          /\ client'.connected
          /\ client'.clientId # MqttClientId
      BY <2>1 DEF Session, MqttClientId, ReconnectClientId
    <2>3. SessionTypeOK'
      BY <1>1, <1>2, <2>1, <2>2, MaxStaleAssumption DEF SessionTypeOK, Reachable
    <2>4. StatusYoung' /\ StatusCorrectedInTime'
      <3>1. StatusAge' \in Nat
        BY <1>1, ElapsedRange DEF StatusAge, SessionTypeOK
      <3> QED BY <1>1, <2>1, <3>1, StatusIntervalAssumption
              DEF StatusYoung, StatusCorrectedInTime
    <2> QED BY <1>1, <2>2, <2>3, <2>4 DEF Inv, ConnectedById, SessionSubscribed
  <1>3. CASE ~ (Reachable /\ serverSet /\ AnonymousAllowed)
    <2>1. UNCHANGED <<client, live, stale>>
      BY <1>3 DEF Reconnect
    <2> QED BY <1>1, <2>1, SameCommands
            DEF Inv, SessionTypeOK, ConnectedById, SessionSubscribed, StatusYoung,
                StatusCorrectedInTime, Reachable, StatusAge
  <1> QED BY <1>2, <1>3

\* The steps that move the loop on and do nothing else.
LEMMA QuietInv ==
    ASSUME Inv, SkipConnect \/ NoAnnouncement \/ ServeSession \/ SkipStatus
    PROVE  Inv'
  <1>1. /\ UNCHANGED <<registry, millis, client, status, retained, stale, link, broker, live>>
        /\ live => pc' # "connect"
    BY DEF Inv, SessionTypeOK, SkipConnect, NoAnnouncement, ServeSession, SkipStatus, networkVars
  <1> QED BY <1>1, SameCommands
          DEF Inv, SessionTypeOK, ConnectedById, SessionSubscribed, StatusYoung,
              StatusCorrectedInTime, Reachable, StatusAge

\* The sweep asks no new command of a session.
LEMMA SweepInv ==
    ASSUME Inv, Sweep
    PROVE  Inv'
  <1>1. /\ UNCHANGED <<millis, client, status, retained, stale, link, broker, live>>
        /\ pc' # "connect"
        /\ \/ registry' = registry
           \/ \E d \in registeredIds(registry) : registry' = unregisterDevice(registry, d)
    BY DEF Sweep, networkVars
  <1>2. RegistryOk(registry') /\ UnmovedCommandEntities' \subseteq UnmovedCommandEntities
    <2>1. CASE registry' = registry
      BY <2>1, SameCommands DEF Inv, SessionTypeOK
    <2>2. ASSUME NEW d \in registeredIds(registry), registry' = unregisterDevice(registry, d)
          PROVE  RegistryOk(registry') /\ UnmovedCommandEntities' \subseteq UnmovedCommandEntities
      <3>1. RegistryOk(registry) /\ RegistryOk(registry')
        BY <2>2, UnregisterDeviceOk DEF Inv, SessionTypeOK
      <3>2. ASSUME NEW x \in UnmovedCommandEntities' PROVE x \in UnmovedCommandEntities
        <4>1. PICK i \in 1 .. registry'.deviceCount : CommandOf(registry', i, x)
          BY <3>2, UnmovedNext
        <4>2. i \in 1 .. registry.deviceCount /\ CommandOf(registry, i, x)
          BY <2>2, <3>1, <4>1, UnregisterKeepsCommands
        <4> QED BY <4>2, Unmoved
      <3> QED BY <3>1, <3>2
    <2> QED BY <1>1, <2>1, <2>2
  <1> QED BY <1>1, <1>2
          DEF Inv, SessionTypeOK, ConnectedById, SessionSubscribed, StatusYoung,
              StatusCorrectedInTime, Reachable, StatusAge

\* An announcement that adds a command subscribes the session to it.
LEMMA HandleDiscoveryInv ==
    ASSUME Inv, NEW entity \in Announcements, HandleDiscovery(entity)
    PROVE  Inv'
  <1> DEFINE d == entity.deviceId
             known == registerDevice(registry, d, 0)
             accepted == registerDeviceOk(registry, d) /\ registerEntityOk(known, d, entity)
             adds == accepted /\ client.connected /\ HasCommands(entity)
             new == <<d, entity.entityId>>
  <1>1. /\ SessionTypeOK /\ ConnectedById /\ SessionSubscribed
        /\ entity \in EntityInfo
        /\ new \in Entities
    BY AnnouncementsAssumption DEF Inv, EntityInfo, Entities
  <1>2. /\ UNCHANGED <<millis, status, stale, link, broker, live>>
        /\ pc' # "connect"
        /\ registry' = IF registerDeviceOk(registry, d)
                       THEN registerEntity(known, d, entity) ELSE registry
        /\ client' = IF adds THEN [client EXCEPT !.subscriptions = @ \cup {new}] ELSE client
    BY DEF HandleDiscovery, networkVars
  <1>3. DOMAIN retained' = DOMAIN retained
    BY DEF HandleDiscovery, Publish
  <1>4. /\ RegistryOk(registry')
        /\ \A x \in UnmovedCommandEntities' :
             x \in UnmovedCommandEntities \/ (accepted /\ HasCommands(entity) /\ x = new)
    <2>1. CASE ~ registerDeviceOk(registry, d)
      BY <1>1, <1>2, <2>1, SameCommands DEF SessionTypeOK
    <2>2. CASE registerDeviceOk(registry, d)
      <3>1. /\ RegistryOk(registry')
            /\ \A x : \A i \in 1 .. registry'.deviceCount : CommandOf(registry', i, x) =>
                 \/ \E j \in 1 .. registry.deviceCount : CommandOf(registry, j, x)
                 \/ /\ registerEntityOk(known, d, entity)
                    /\ HasCommands(entity)
                    /\ x = new
        <4> HIDE DEF known, new
        <4>1. /\ RegistryOk(registry)
              /\ known = registerDevice(registry, entity.deviceId, 0)
              /\ registry' = registerEntity(known, entity.deviceId, entity)
              /\ new = <<entity.deviceId, entity.entityId>>
          BY <1>1, <1>2, <2>2 DEF SessionTypeOK, known, new
        <4> DEFINE Kept(x) == \E j \in 1 .. registry.deviceCount : CommandOf(registry, j, x)
        <4>2. RegistryOk(registry')
          BY <1>1, <2>2, <4>1, DiscoveryAddsCommand
        <4>3. ASSUME NEW x, NEW i \in 1 .. registry'.deviceCount, CommandOf(registry', i, x)
              PROVE  \/ Kept(x)
                     \/ /\ registerEntityOk(known, d, entity)
                        /\ HasCommands(entity)
                        /\ x = new
          BY <1>1, <2>2, <4>1, <4>3, DiscoveryAddsCommand
        <4> QED BY <4>2, <4>3
      <3>2. ASSUME NEW x \in UnmovedCommandEntities'
            PROVE  x \in UnmovedCommandEntities \/ (accepted /\ HasCommands(entity) /\ x = new)
        <4>1. PICK i \in 1 .. registry'.deviceCount : CommandOf(registry', i, x)
          BY <3>2, UnmovedNext
        <4>2. \/ \E j \in 1 .. registry.deviceCount : CommandOf(registry, j, x)
              \/ registerEntityOk(known, d, entity) /\ HasCommands(entity) /\ x = new
          BY <3>1, <4>1
        <4> QED BY <2>2, <4>2, Unmoved
      <3> QED BY <3>1, <3>2
    <2> QED BY <2>1, <2>2
  <1> HIDE DEF accepted, new, known, d
  <1>5. /\ client' \in [connected : BOOLEAN,
                        clientId : {"none", MqttClientId, ReconnectClientId},
                        subscriptions : SUBSET Entities]
        /\ client'.connected = client.connected
        /\ client'.clientId = client.clientId
        /\ client.subscriptions \subseteq client'.subscriptions
        /\ adds => new \in client'.subscriptions
    BY <1>1, <1>2 DEF SessionTypeOK
  <1>6. SessionTypeOK'
    BY <1>1, <1>2, <1>4, <1>5 DEF SessionTypeOK, Reachable
  <1>7. SessionSubscribed'
    BY <1>1, <1>4, <1>5 DEF SessionSubscribed, ConnectedById
  <1>8. ConnectedById' /\ StatusYoung' /\ StatusCorrectedInTime'
    BY <1>1, <1>2, <1>3, <1>5
    DEF Inv, ConnectedById, StatusYoung, StatusCorrectedInTime, StatusAge
  <1> QED BY <1>6, <1>7, <1>8 DEF Inv

\* After publishGatewayStatus the status in an open session is less than an
\* interval old.
LEMMA PublishGatewayStatusInv ==
    ASSUME Inv, PublishGatewayStatus
    PROVE  Inv'
  <1> DEFINE n == registry.deviceCount
  <1>1. /\ SessionTypeOK /\ ConnectedById /\ SessionSubscribed /\ StatusYoung
        /\ StatusCorrectedInTime
        /\ UNCHANGED <<registry, millis, client, link, broker, live>>
        /\ status'.lastDeviceCount = IF StatusDue THEN n ELSE status.lastDeviceCount
        /\ status'.lastGatewayStatusTime =
             IF StatusDue THEN millis ELSE status.lastGatewayStatusTime
        /\ stale' = IF live /\ StatusDue THEN 0 ELSE stale
    BY DEF Inv, PublishGatewayStatus, networkVars
  <1>2. DOMAIN retained' = DOMAIN retained
    BY DEF PublishGatewayStatus
  <1>3. n \in 0 .. MaxDevices /\ 0 \in 0 .. MaxStale
    BY <1>1, MaxStaleAssumption DEF SessionTypeOK, RegistryOk, Registry
  <1>4. SessionTypeOK'
    BY <1>1, <1>3 DEF SessionTypeOK, Reachable
  <1>5. live => StatusAge' < StatusInterval /\ stale' <= StatusAge' /\ stale' <= StatusInterval
    <2>1. StatusAge \in Nat /\ StatusInterval \in Nat \ {0}
      BY <1>1, ElapsedRange, StatusIntervalAssumption DEF StatusAge, SessionTypeOK
    <2>2. CASE StatusDue
      <3>1. StatusAge' = 0
        BY <1>1, <2>2, ElapsedSelf DEF StatusAge, SessionTypeOK
      <3> QED BY <1>1, <2>1, <2>2, <3>1
    <2>3. CASE ~ StatusDue
      <3>1. StatusAge' = StatusAge /\ ~ (StatusAge >= StatusInterval)
        BY <1>1, <2>3 DEF StatusAge, StatusDue
      <3> QED BY <1>1, <2>1, <2>3, <3>1 DEF StatusYoung, StatusCorrectedInTime
    <2> QED BY <2>2, <2>3
  <1>6. StatusYoung' /\ StatusCorrectedInTime'
    <2>1. StatusAge' \in Nat /\ StatusInterval \in Nat
      BY <1>4, ElapsedRange, StatusIntervalAssumption DEF StatusAge, SessionTypeOK
    <2> QED BY <1>1, <1>5, <2>1 DEF StatusYoung, StatusCorrectedInTime
  <1> QED BY <1>1, <1>2, <1>4, <1>6, SameCommands DEF Inv, ConnectedById, SessionSubscribed

\* What the network does closes sessions and opens none.
LEMMA NetworkInv ==
    ASSUME Inv, Network
    PROVE  Inv'
  <1>1. SessionTypeOK /\ (live => client.connected /\ link /\ broker)
    BY DEF Inv, SessionTypeOK, Reachable
  <1>2. /\ UNCHANGED <<registry, millis, status, pc, iterated, stale>>
        /\ live' => live /\ client' = client /\ link' /\ broker'
        /\ client' = client \/ client' = NoSession
        /\ DOMAIN retained' = DOMAIN retained
    <2>1. CASE LinkChanges
      BY <1>1, <2>1 DEF LinkChanges, Broken
    <2>2. CASE BrokerChanges
      BY <2>2 DEF BrokerChanges
    <2>3. CASE LossNoticed
      BY <2>3 DEF LossNoticed, networkVars
    <2>4. CASE WillPublished
      BY <1>1, <2>4 DEF WillPublished
    <2> QED BY <2>1, <2>2, <2>3, <2>4 DEF Network
  <1>3. /\ client' \in [connected : BOOLEAN,
                        clientId : {"none", MqttClientId, ReconnectClientId},
                        subscriptions : SUBSET Entities]
        /\ client'.clientId = MqttClientId => client' = client
    <2>1. CASE client' = client
      BY <1>1, <2>1 DEF SessionTypeOK
    <2>2. CASE client' = NoSession
      BY <2>2 DEF NoSession, MqttClientId
    <2> QED BY <1>2, <2>1, <2>2
  <1>4. SessionTypeOK'
    BY <1>1, <1>2, <1>3 DEF SessionTypeOK, Reachable
  <1> QED BY <1>2, <1>3, <1>4, SameCommands
          DEF Inv, ConnectedById, SessionSubscribed, StatusYoung, StatusCorrectedInTime,
              StatusAge

\* A tick finds the loop come round, so the status it makes older is not yet due.
LEMMA TickInv ==
    ASSUME Inv, Tick
    PROVE  Inv'
  <1>1. /\ SessionTypeOK /\ ConnectedById /\ SessionSubscribed /\ StatusYoung
        /\ StatusCorrectedInTime
        /\ UNCHANGED <<registry, client, status, retained, pc, link, broker, live>>
        /\ pc = "connect" /\ iterated /\ ~ iterated'
        /\ millis' = AfterTick(millis)
        /\ stale' = IF StatusRight \/ ~ live THEN 0
                    ELSE IF stale < MaxStale THEN stale + 1 ELSE stale
    BY DEF Inv, Tick, networkVars
  <1>2. millis' \in Millis
    BY <1>1, MillisRangeAssumption DEF SessionTypeOK, AfterTick, Millis
  <1>3. stale \in Nat /\ MaxStale \in Nat /\ StatusInterval \in Nat /\ stale' \in 0 .. MaxStale
    BY <1>1, StatusIntervalAssumption, MaxStaleAssumption DEF SessionTypeOK
  <1>4. SessionTypeOK'
    BY <1>1, <1>2, <1>3 DEF SessionTypeOK, Reachable
  <1>5. CASE live
    <2>1. /\ stale <= StatusAge
          /\ StatusAge < StatusInterval
          /\ StatusAge \in Nat
      BY <1>1, <1>5, ElapsedRange DEF StatusYoung, StatusAge, SessionTypeOK
    <2>2. StatusAge' = StatusAge + 1
      <3>1. StatusAge + 1 < MillisRange
        BY <1>3, <2>1, StatusIntervalAssumption, MillisRangeAssumption
      <3> QED BY <1>1, <3>1, ElapsedAfterTick DEF StatusAge, SessionTypeOK
    <2>3. stale' <= stale + 1
      BY <1>1, <1>3
    <2> QED BY <1>1, <1>3, <1>4, <2>1, <2>2, <2>3, SameCommands
            DEF Inv, ConnectedById, SessionSubscribed, StatusYoung, StatusCorrectedInTime
  <1>6. CASE ~ live
    <2>1. stale' = 0 /\ ~ live'
      BY <1>1, <1>6
    <2> QED BY <1>1, <1>3, <1>4, <2>1, SameCommands
            DEF Inv, ConnectedById, SessionSubscribed, StatusYoung, StatusCorrectedInTime
  <1> QED BY <1>5, <1>6

\* No step leaves the invariant.
LEMMA NextInv == Inv /\ [Next]_vars => Inv'
  <1> SUFFICES ASSUME Inv, [Next]_vars PROVE Inv'
    OBVIOUS
  <1>1. CASE SetupMqtt
    BY <1>1, SetupMqttInv
  <1>2. CASE SkipConnect \/ NoAnnouncement \/ ServeSession \/ SkipStatus
    BY <1>2, QuietInv
  <1>3. CASE Sweep
    BY <1>3, SweepInv
  <1>4. ASSUME NEW entity \in Announcements, HandleDiscovery(entity) PROVE Inv'
    BY <1>4, HandleDiscoveryInv
  <1>5. CASE Reconnect
    BY <1>5, ReconnectInv
  <1>6. CASE PublishGatewayStatus
    BY <1>6, PublishGatewayStatusInv
  <1>7. CASE Network
    BY <1>7, NetworkInv
  <1>8. CASE Tick
    BY <1>8, TickInv
  <1>9. CASE UNCHANGED vars
    <2>1. UNCHANGED <<registry, millis, client, status, retained, pc, iterated, stale,
                      link, broker, live>>
      BY <1>9 DEF vars, networkVars
    <2> QED BY <2>1, SameCommands
            DEF Inv, SessionTypeOK, ConnectedById, SessionSubscribed, StatusYoung,
                StatusCorrectedInTime, Reachable, StatusAge
  <1> QED BY <1>1, <1>2, <1>3, <1>4, <1>5, <1>6, <1>7, <1>8, <1>9 DEF Next, Program

-----------------------------------------------------------------------------
\* The invariant holds in every state of the program.
THEOREM SessionInvariance == Spec => []Inv
  BY InitInv, NextInv, PTL DEF Spec

\* Every variable keeps its type, the registry of the session stays well formed,
\* and the broker has a session open only if the client thinks so and the network
\* is up.
THEOREM SessionTypeCorrect == Spec => []SessionTypeOK
  <1>1. Inv => SessionTypeOK
    BY DEF Inv
  <1> QED BY <1>1, SessionInvariance, PTL

\* A session that setupMqtt opened always has the commands of every entity whose
\* device no removal has moved: those announced before it (the loop over the
\* registry in setupMqtt), during it (onDiscoveryMessage) and into a session
\* already lost.
THEOREM SessionAlwaysSubscribed == Spec => []SessionSubscribed
  <1>1. Inv => SessionSubscribed
    BY DEF Inv
  <1> QED BY <1>1, SessionInvariance, PTL

\* A wrong status on lora-gw/status lasts at most GATEWAY_STATUS_INTERVAL in an
\* open session, however the session came to be open and whatever was put there
\* (the comparisons of publishGatewayStatus against its last values).
THEOREM StatusPutRight == Spec => []StatusCorrectedInTime
  <1>1. Inv => StatusCorrectedInTime
    BY DEF Inv
  <1> QED BY <1>1, SessionInvariance, PTL
=============================================================================

---------------------------- MODULE MqttSession ----------------------------
(***************************************************************************)
(* The MQTT session of the gateway: one iteration of loop() in             *)
(* src/src/main.cpp connects (setupMqtt), sweeps, takes in an announcement *)
(* (onDiscoveryMessage), serves or reopens the session                     *)
(* (MqttHandler::handle) and publishes the gateway's status, in that order.*)
(* Between any two of these the network may change: WiFi and the broker    *)
(* come and go, a lost session is noticed late, and what is published into *)
(* a lost session is gone.  Time stamps of devices are not told apart      *)
(* here: the sweep may remove any device (Gateway says which).             *)
(***************************************************************************)
EXTENDS DeviceRegistry

CONSTANTS
    Announcements,         \* the entity metadata the nodes announce
    StatusInterval,        \* GATEWAY_STATUS_INTERVAL
    AnonymousAllowed,      \* the broker takes clients without credentials
    MaxStale               \* bound of the history variable stale

ASSUME AnnouncementsAssumption == Announcements \subseteq EntityInfo
ASSUME StatusIntervalAssumption == /\ StatusInterval \in Nat \ {0}
                                   /\ StatusInterval < MillisRange
ASSUME AnonymousAssumption == AnonymousAllowed \in BOOLEAN
ASSUME MaxStaleAssumption == MaxStale \in Nat /\ MaxStale > StatusInterval + 1

VARIABLES
    registry, millis,
    link,           \* WiFi.status() == WL_CONNECTED
    broker,         \* the broker is up
    client,         \* PubSubClient: its session as the gateway sees it
    live,           \* ... and whether the broker still has that session open
    serverSet,      \* setServer was called since boot
    status,         \* variables of publishGatewayStatus
    retained,       \* the broker's retained messages
    will,           \* a lost session's last will is still to be published
    pc, iterated,
    stale           \* history: ticks the status shown is wrong in a session

networkVars == <<link, broker, live, will>>
vars == <<registry, millis, client, serverSet, status, retained, pc, iterated,
          stale, networkVars>>

MqttClientId == "lora-gw"          \* MQTT_CLIENT_ID
ReconnectClientId == "LoRaGateway" \* the literal in MqttHandler::handle

Entities == DeviceIds \X EntityIds

NoSession == [connected |-> FALSE, clientId |-> "none", subscriptions |-> {}]
Session(id, subs) ==
    [connected |-> TRUE, clientId |-> id, subscriptions |-> subs]

\* The retained message on lora-gw/status: absent, the will, the greeting, or
\* a status with the number of devices.
Shown(kind, n) == [kind |-> kind, deviceCount |-> n]

HasCommands(entity) == entity.metadata \in {"cover", "number"}
Reachable == link /\ broker

-----------------------------------------------------------------------------
Init == /\ registry = EmptyRegistry
        /\ millis = 0
        /\ link \in BOOLEAN
        /\ broker \in BOOLEAN
        /\ client = NoSession
        /\ live = FALSE
        /\ serverSet = FALSE
        /\ status = [gatewayDiscoveryPublished |-> FALSE,
                     lastWifiConnected |-> FALSE, lastMqttConnected |-> FALSE,
                     lastDeviceCount |-> 0, lastGatewayStatusTime |-> 0]
        /\ retained = [status |-> Shown("none", 0), gateway |-> FALSE,
                       discovery |-> {}]
        /\ will = FALSE
        /\ pc = "connect"
        /\ iterated = FALSE
        /\ stale = 0

-----------------------------------------------------------------------------
(* The client library: external, as the code uses it. *)

\* A publish reaches the broker only through a session the broker has open;
\* the client cannot tell.
Publish(field, value) ==
    retained' = IF live THEN [retained EXCEPT ![field] = value] ELSE retained

\* The broker opens a session under an id.  An earlier session under the same
\* id is closed, its will published first.
Opened(id, subs) ==
    /\ client' = Session(id, subs)
    /\ live' = TRUE
    /\ stale' = 0

-----------------------------------------------------------------------------
(* The steps of loop(). *)

\* Faulty variant of subscriptionsOf: the last slot is left out.
subscriptionsShort(r) ==
    {x \in Entities :
       \E i \in 1 .. r.deviceCount - 1 :
         LET info == r.devices[i].info
         IN  \E k \in 1 .. info.entityCount :
               LET entity == r.devices[info.entities].entities[k]
               IN  HasCommands(entity) /\ x = <<info.deviceId, entity.entityId>>}

\* The topics setupMqtt subscribes to: it reads the entities of a device
\* through the pointer of its DeviceInfo.
subscriptionsOf(r) ==
    {x \in Entities :
       \E i \in 1 .. r.deviceCount :
         LET info == r.devices[i].info
         IN  \E k \in 1 .. info.entityCount :
               LET entity == r.devices[info.entities].entities[k]
               IN  HasCommands(entity) /\ x = <<info.deviceId, entity.entityId>>}

\* setupMqtt, called when WiFi is up and the client is not connected.
ConnectNeeded == link /\ ~ client.connected

SetupMqtt ==
    /\ pc = "connect"
    /\ ConnectNeeded
    /\ serverSet' = TRUE
    /\ IF broker
       THEN /\ Opened(MqttClientId, subscriptionsOf(registry))
            /\ retained' = [retained EXCEPT !.status = Shown("online", 0)]
            /\ will' = FALSE
       ELSE UNCHANGED <<client, live, retained, will, stale>>
    /\ pc' = "sweep"
    /\ UNCHANGED <<registry, millis, link, broker, status, iterated>>

SkipConnect ==
    /\ pc = "connect"
    /\ ~ ConnectNeeded
    /\ pc' = "sweep"
    /\ UNCHANGED <<registry, millis, client, serverSet, status, retained,
                   iterated, stale, networkVars>>

\* One device removed by the timeout sweep, or its end.
Sweep ==
    /\ pc = "sweep"
    /\ \/ /\ pc' = "lora"
          /\ UNCHANGED registry
       \/ /\ \E d \in registeredIds(registry) :
               registry' = unregisterDevice(registry, d)
          /\ UNCHANGED pc
    /\ UNCHANGED <<millis, client, serverSet, status, retained, iterated,
                   stale, networkVars>>

NoAnnouncement ==
    /\ pc = "lora"
    /\ pc' = "mqtt"
    /\ UNCHANGED <<registry, millis, client, serverSet, status, retained,
                   iterated, stale, networkVars>>

\* onDiscoveryMessage: register, subscribe by the domain just announced, and
\* advertise what the registry holds for the entity.
HandleDiscovery(entity) ==
    LET d == entity.deviceId
        known == registerDevice(registry, d, 0)
        accepted == /\ registerDeviceOk(registry, d)
                    /\ registerEntityOk(known, d, entity)
    IN  /\ pc = "lora"
        /\ registry' = IF registerDeviceOk(registry, d)
                       THEN registerEntity(known, d, entity) ELSE registry
        /\ client' =
             IF accepted /\ client.connected /\ HasCommands(entity)
             THEN [client EXCEPT !.subscriptions =
                     @ \cup {<<d, entity.entityId>>}]
             ELSE client
        /\ IF accepted
           THEN Publish("discovery",
                        retained.discovery \cup {getEntity(registry', d, entity.entityId)})
           ELSE UNCHANGED retained
        /\ pc' = "mqtt"
        /\ UNCHANGED <<millis, serverSet, status, iterated, stale, networkVars>>

\* MqttHandler::handle with a session: commands are served (MqttMsgHandler).
ServeSession ==
    /\ pc = "mqtt"
    /\ client.connected
    /\ pc' = "status"
    /\ UNCHANGED <<registry, millis, client, serverSet, status, retained,
                   iterated, stale, networkVars>>

\* MqttHandler::handle without one: it connects on its own, under another id,
\* with no credentials, no will, no greeting and no subscriptions.
Reconnect ==
    /\ pc = "mqtt"
    /\ ~ client.connected
    /\ IF Reachable /\ serverSet /\ AnonymousAllowed
       THEN Opened(ReconnectClientId, {})
       ELSE UNCHANGED <<client, live, stale>>
    /\ pc' = "status"
    /\ UNCHANGED <<registry, millis, serverSet, status, retained, iterated,
                   link, broker, will>>

\* Faulty variant of StatusDue: the status is published on changes only.
StatusDueOnChange ==
    \/ link # status.lastWifiConnected
    \/ client.connected # status.lastMqttConnected
    \/ registry.deviceCount # status.lastDeviceCount

StatusDue ==
    \/ link # status.lastWifiConnected
    \/ client.connected # status.lastMqttConnected
    \/ registry.deviceCount # status.lastDeviceCount
    \/ Elapsed(millis, status.lastGatewayStatusTime) >= StatusInterval

\* publishGatewayStatus: the results of publishing are not looked at.
PublishGatewayStatus ==
    /\ pc = "status"
    /\ client.connected
    /\ LET due == StatusDue
           n == registry.deviceCount
       IN  /\ status' =
                [gatewayDiscoveryPublished |-> TRUE,
                 lastWifiConnected |-> IF due THEN link ELSE status.lastWifiConnected,
                 lastMqttConnected |-> due \/ status.lastMqttConnected,
                 lastDeviceCount |-> IF due THEN n ELSE status.lastDeviceCount,
                 lastGatewayStatusTime |-> IF due THEN millis
                                           ELSE status.lastGatewayStatusTime]
           /\ retained' =
                IF live
                THEN [retained EXCEPT
                        !.gateway = @ \/ ~ status.gatewayDiscoveryPublished,
                        !.status = IF due THEN Shown("full", n) ELSE @]
                ELSE retained
           /\ stale' = IF live /\ due THEN 0 ELSE stale
    /\ pc' = "connect"
    /\ iterated' = TRUE
    /\ UNCHANGED <<registry, millis, client, serverSet, networkVars>>

SkipStatus ==
    /\ pc = "status"
    /\ ~ client.connected
    /\ pc' = "connect"
    /\ iterated' = TRUE
    /\ UNCHANGED <<registry, millis, client, serverSet, status, retained, stale,
                   networkVars>>

Program ==
    \/ SetupMqtt \/ SkipConnect \/ Sweep \/ NoAnnouncement
    \/ \E entity \in Announcements : HandleDiscovery(entity)
    \/ ServeSession \/ Reconnect \/ PublishGatewayStatus \/ SkipStatus

-----------------------------------------------------------------------------
(* The network: external. *)

\* The session breaks; its will, if it has one, is left for the broker.
Broken == /\ live' = FALSE
          /\ will' = (will \/ (live /\ client.clientId = MqttClientId))

LinkChanges == /\ link' = ~ link
               /\ IF link THEN Broken ELSE UNCHANGED <<live, will>>
               /\ UNCHANGED <<registry, millis, broker, client, serverSet,
                              status, retained, pc, iterated, stale>>

\* A broker that restarts keeps its retained messages and no wills.
BrokerChanges == /\ broker' = ~ broker
                 /\ live' = FALSE
                 /\ will' = FALSE
                 /\ UNCHANGED <<registry, millis, link, client, serverSet,
                                status, retained, pc, iterated, stale>>

\* The client notices that its session is gone.
LossNoticed == /\ client.connected /\ ~ live
               /\ client' = NoSession
               /\ UNCHANGED <<registry, millis, serverSet, status, retained,
                              pc, iterated, stale, networkVars>>

\* The broker gives up on a lost session and publishes its will, possibly
\* after the gateway has opened a new one under the other id.
WillPublished == /\ will /\ broker
                 /\ will' = FALSE
                 /\ retained' = [retained EXCEPT !.status = Shown("offline", 0)]
                 /\ UNCHANGED <<registry, millis, link, broker, client, live,
                                serverSet, status, pc, iterated, stale>>

Network == LinkChanges \/ BrokerChanges \/ LossNoticed \/ WillPublished

\* A tick is long against one iteration.
StatusRight == retained.status = Shown("full", registry.deviceCount)

Tick == /\ pc = "connect"
        /\ iterated
        /\ iterated' = FALSE
        /\ millis' = AfterTick(millis)
        /\ stale' = IF StatusRight \/ ~ live THEN 0
                    ELSE IF stale < MaxStale THEN stale + 1 ELSE stale
        /\ UNCHANGED <<registry, client, serverSet, status, retained, pc,
                       networkVars>>

Next == Program \/ Network \/ Tick

Spec == Init /\ [][Next]_vars

\* The loop runs, time passes, and a lost session is noticed.
FairSpec == Spec /\ WF_vars(Program) /\ WF_vars(Tick) /\ WF_vars(LossNoticed)

-----------------------------------------------------------------------------
(* Safety. *)

\* Type invariant; the client has an open session only if it thinks so, and a
\* session the broker has open needs the network.
SessionTypeOK ==
    /\ RegistryOk(registry)
    /\ millis \in Millis
    /\ client \in [connected : BOOLEAN,
                   clientId : {"none", MqttClientId, ReconnectClientId},
                   subscriptions : SUBSET Entities]
    /\ live => client.connected /\ Reachable
    /\ status.lastDeviceCount \in 0 .. MaxDevices
    /\ status.lastGatewayStatusTime \in Millis
    /\ stale \in 0 .. MaxStale

\* The command entities a device has announced, for the devices no removal has
\* moved: the DeviceInfo of a moved one no longer points to its entities (see
\* Gateway).
UnmovedCommandEntities ==
    UNION {{<<registry.devices[i].info.deviceId, entity.entityId>> :
              entity \in {x \in entitiesOf(registry, i) : HasCommands(x)}} :
            i \in {j \in 1 .. registry.deviceCount :
                     registry.devices[j].info.entities = j}}

\* A session that setupMqtt opened is subscribed to the commands of every such
\* entity, whether it was announced before the session, during it, or into a
\* session that was already lost.
SessionSubscribed ==
    client.clientId = MqttClientId => UnmovedCommandEntities \subseteq client.subscriptions

\* In an open session the status shown is wrong for at most one interval: after
\* a reconnect, a status published into a lost session, a device that came or
\* went, or a late will.
StatusCorrectedInTime == stale <= StatusInterval

(* What the documentation says and the code does not do. *)

\* A connected gateway is subscribed to the commands of its entities
\* (README.md:165: "Subscribes to command topics").
ConnectedMeansSubscribed ==
    client.connected => UnmovedCommandEntities \subseteq client.subscriptions

EntitiesOf(r) == UNION {entitiesOf(r, i) : i \in 1 .. r.deviceCount}

\* An entity in the registry is advertised sooner or later while the session is
\* open (README.md:308: "Once devices are discovered, they appear automatically
\* in Home Assistant").
DiscoveredIsAdvertised ==
    \A entity \in Announcements :
      (entity \in EntitiesOf(registry) /\ live)
        ~> (\/ entity \in retained.discovery
            \/ entity \notin EntitiesOf(registry)
            \/ ~ live)
=============================================================================

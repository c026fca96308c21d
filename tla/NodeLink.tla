------------------------------ MODULE NodeLink ------------------------------
(***************************************************************************)
(* What is said between the gateway and its nodes, byte by byte: a node    *)
(* announces its entities and reports their values, the gateway takes them *)
(* in (src/src/LoRaMsgHandler.cpp, onDiscoveryMessage, onValueMessage),    *)
(* keeps them in its table of devices and publishes the values; a command  *)
(* from MQTT is turned into a packet (src/src/MqttMsgHandler.cpp, after    *)
(* its rate limit) that a node applies.  Time is that of Gateway: every    *)
(* stamp of the table is 0 here.                                           *)
(* A radio holds the last packet it heard: one that is not read before the *)
(* next is lost, and so may any other be.  The nodes are external, written *)
(* with the same items.                                                    *)
(***************************************************************************)
EXTENDS HomeAssistant, DeviceRegistry

CONSTANTS
    Entities,      \* records [deviceId, item]: what the nodes have
    Numbers,       \* the numbers each of them reports
    Commands       \* numbers that are commanded

ASSUME EntitiesAssumption ==
    \A x \in Entities :
      LET item == x.item
      IN  /\ x = [deviceId |-> x.deviceId, item |-> item]
          /\ x.deviceId \in 1 .. 254
          /\ item \in Items /\ item.entityId <= 254 /\ Len(item.name) < MaxName
          /\ isValidRawValue(item.format, item.minValue)
          /\ isValidRawValue(item.format, item.maxValue)
          /\ fromRawValue(item.format, item.minValue)
               <= fromRawValue(item.format, item.maxValue)
          \* An unsigned range stays in the positive half of a word.
          /\ item.format.isSigned \/ 2 * item.maxValue < WordRange
ASSUME NumbersAssumption == /\ Numbers \in [Entities -> SUBSET Int]
                            /\ Commands \subseteq Int
ASSUME DistinctAssumption ==
    \A x, y \in Entities : x.deviceId = y.deviceId
                           /\ x.item.entityId = y.item.entityId => x = y

\* The metadata of an entity is its item; its device class is an object, which
\* zeroed memory has none of.
NoClass == 256
ZeroItem == [entityId |-> 0, domain |-> BINARY_SENSOR, deviceClass |-> NoClass,
             category |-> 0, unit |-> 0, format |-> fromByte(0), minValue |-> 0,
             maxValue |-> 0, name |-> <<>>]
ASSUME MetadataAssumption ==
    /\ \A x \in Entities : /\ x.deviceId \in DeviceIds
                           /\ x.item.entityId \in EntityIds
                           /\ x.item \in Metadata
    /\ ZeroMetadata = ZeroItem

Nodes == {x.deviceId : x \in Entities}
EntitiesOfNode(n) == {x \in Entities : x.deviceId = n}

GatewayAddress == 0     \* LORA_GATEWAY_ADDRESS_DEFAULT
Broadcast == 255        \* LORA_BROADCAST_ADDRESS, and "all entities"

VARIABLES
    registry,       \* the table of devices
    gatewayRadio,   \* the packet the gateway's radio holds
    nodeRadio,      \* the packet each node's radio holds
    published,      \* the state document the last step published on MQTT
    answer,         \* what became of the last number command
    applied         \* what a node applied in the last step

vars == <<registry, gatewayRadio, nodeRadio, published, answer, applied>>

\* A packet, and as a history the numbers it is about.
Packet(header, payload, meant) ==
    [bytes |-> encodeMessage(header, payload), meant |-> meant]
NoPacket == [bytes |-> <<>>, meant |-> <<>>]

\* As a history, what the values of the document were meant as.
NothingPublished == [message |-> publishSensorValues(0, {}), reported |-> {}]
NoAnswer == [entity |-> "none"]
NotApplied == [kind |-> "none"]
Quiet == published' = NothingPublished /\ answer' = NoAnswer /\ applied' = NotApplied

Init == /\ registry = EmptyRegistry
        /\ gatewayRadio = NoPacket
        /\ nodeRadio = [n \in Nodes |-> NoPacket]
        /\ published = NothingPublished
        /\ answer = NoAnswer
        /\ applied = NotApplied

-----------------------------------------------------------------------------
(* Transmission. *)

HeardBy(dst, packet) ==
    [n \in Nodes |-> IF dst \in {n, Broadcast} THEN packet ELSE nodeRadio[n]]

DiscoveryRequest(dst, entityId) ==
    Packet(Header(dst, GatewayAddress, discovery_req), <<entityId>>, <<>>)

\* A packet fades, is jammed, or falls into a transmission of the receiver.
Lose == /\ \/ gatewayRadio' = NoPacket /\ UNCHANGED nodeRadio
           \/ /\ \E n \in Nodes : nodeRadio' = [nodeRadio EXCEPT ![n] = NoPacket]
              /\ UNCHANGED gatewayRadio
        /\ Quiet
        /\ UNCHANGED registry

-----------------------------------------------------------------------------
(* loRa.handle(): readPacket, decodeMessage and handleMessage. *)

Heard == decodeMessage(gatewayRadio.bytes)

\* The radio holds a packet of this type; it is read.
Handling(type) == /\ decodes(gatewayRadio.bytes)
                  /\ Heard.header.msgType = type
                  /\ gatewayRadio' = NoPacket
                  /\ answer' = NoAnswer
                  /\ applied' = NotApplied

\* The answer comes from the address that was asked; its two bytes of signal
\* strength are not told apart.
HandlePingRequest ==
    /\ Handling(ping_req)
    /\ LET h == Heard.header
       IN  nodeRadio' = HeardBy(h.src, Packet([Header(h.src, h.dst, ping_msg)
                                               EXCEPT !.id = h.id], <<0, 0>>, <<>>))
    /\ published' = NothingPublished
    /\ UNCHANGED registry

\* The EntityInfo of an item (onDiscoveryMessage).
EntityOf(deviceId, item) ==
    [deviceId |-> deviceId, entityId |-> item.entityId, metadata |-> item]

HandleDiscoveryMessage ==
    /\ Handling(discovery_msg)
    /\ Len(Heard.payload) >= DiscoveryItemSize
    /\ registry' = AfterDiscovery(registry,
                      EntityOf(Heard.header.src, discoveryItemFromBytes(Heard.payload)), 0)
    /\ published' = NothingPublished
    /\ UNCHANGED nodeRadio

\* The entities the table stores, each in the slot of its device.
stored == UNION {entitiesOf(registry, i) : i \in 1 .. registry.deviceCount}
known == {[deviceId |-> e.deviceId, item |-> e.metadata] : e \in stored}

\* What the items of a value message lead to: each is looked up through the
\* DeviceInfo, whose pointer may be that of another slot (see DeviceRegistry).
Resolved(d, items) ==
    [i \in 1 .. Len(items) |->
       infoGetEntity(registry, findDeviceIndex(registry, d), items[i].entityId)]

\* As a history, the entities of the table the items are about.
Concerned(d, items, meant) ==
    {[entity |-> x[1], meant |-> meant[x[2]]] :
       x \in {x \in known \X (1 .. Len(items)) :
               /\ x[1].deviceId = d
               /\ x[1].item.entityId = items[x[2]].entityId}}

HearsValues == Handling(value_msg) /\ valueMessageComplete(Heard.payload)

\* onValueMessage for a registered device: the items that lead nowhere are asked
\* for one by one, of which the node hears one, the others are published.
HandleValueMessage ==
    LET d == Heard.header.src
        items == valueMessageItems(Heard.payload)
        found == Resolved(d, items)
        missing == {i \in 1 .. Len(items) : found[i] = NoEntity}
    IN  /\ HearsValues
        /\ hasDevice(registry, d)
        /\ registry' = updateDeviceLastSeen(registry, d, 0)
        /\ published' =
             [message |-> publishSensorValues(d,
                {[item |-> found[i].metadata, value |-> items[i].value] :
                   i \in (1 .. Len(items)) \ missing}),
              reported |-> Concerned(d, items, gatewayRadio.meant)]
        /\ IF missing = {}
           THEN UNCHANGED nodeRadio
           ELSE \E i \in missing :
                  nodeRadio' = HeardBy(d, DiscoveryRequest(d, items[i].entityId))

\* A device that is not registered brings the program down (see Gateway): it
\* starts with an empty table.
HandleUnregisteredValue ==
    /\ HearsValues
    /\ ~ hasDevice(registry, Heard.header.src)
    /\ registry' = EmptyRegistry
    /\ published' = NothingPublished
    /\ UNCHANGED nodeRadio

\* A packet that is too short, of a type that is only logged, or whose payload
\* has not the length it should.
IgnorePacket ==
    /\ gatewayRadio # NoPacket
    /\ decodes(gatewayRadio.bytes) =>
         LET type == Heard.header.msgType
         IN  \/ type \notin {ping_req, discovery_msg, value_msg}
             \/ type = discovery_msg /\ Len(Heard.payload) < DiscoveryItemSize
             \/ type = value_msg /\ ~ valueMessageComplete(Heard.payload)
    /\ gatewayRadio' = NoPacket
    /\ Quiet
    /\ UNCHANGED <<registry, nodeRadio>>

\* The timeout removes a device, or the gateway restarts (see Gateway).
Forget == /\ \E n \in Nodes : registry' \in {unregisterDevice(registry, n), EmptyRegistry}
          /\ Quiet
          /\ UNCHANGED <<gatewayRadio, nodeRadio>>

\* setup(): every node is asked for its entities.
AskAll == /\ nodeRadio' = HeardBy(Broadcast, DiscoveryRequest(Broadcast, Broadcast))
          /\ Quiet
          /\ UNCHANGED <<registry, gatewayRadio>>

-----------------------------------------------------------------------------
(* Commands that have passed the rate limit.  Their entity is found by       *)
(* DeviceRegistry::getEntity, in the slot of its device, wherever that moved. *)

\* CoverCommand, by the payloads OPEN, CLOSE and STOP.
CoverCommands == 0 .. 2

HandleCoverCommand(x, command) ==
    /\ x.item.domain = COVER
    /\ nodeRadio' = HeardBy(x.deviceId,
         Packet(Header(x.deviceId, GatewayAddress, service_req),
                <<x.item.entityId, command>>, <<command>>))
    /\ Quiet
    /\ UNCHANGED <<registry, gatewayRadio>>

\* Faulty variant of Accepts: only the upper bound is compared.
AcceptsNoMinimum(item, raw) == /\ isValidRawValue(item.format, raw)
                               /\ raw <= item.maxValue

\* handleNumberCommand compares unsigned raw values.
Accepts(item, raw) == /\ isValidRawValue(item.format, raw)
                      /\ item.minValue <= raw /\ raw <= item.maxValue

HandleNumberCommand(x, number) ==
    /\ x.item.domain = NUMBER
    /\ \E raw \in toRawValue(x.item.format, number) :
         /\ nodeRadio' = IF Accepts(x.item, raw)
                         THEN HeardBy(x.deviceId,
                                Packet(Header(x.deviceId, GatewayAddress, valueSet_req),
                                       <<x.item.entityId>> \o wordToBytes(raw), <<number>>))
                         ELSE nodeRadio
         /\ answer' = [entity |-> x, number |-> number, sent |-> Accepts(x.item, raw)]
    /\ published' = NothingPublished
    /\ applied' = NotApplied
    /\ UNCHANGED <<registry, gatewayRadio>>

\* A command that comes to nothing: its entity is not in the registry or takes
\* none, its payload says nothing to the entity's domain, or the number of its
\* device is lost (sscanf writes four bytes for each of two numbers of one).
IgnoreCommand == Quiet /\ UNCHANGED <<registry, gatewayRadio, nodeRadio>>

-----------------------------------------------------------------------------
(* The nodes: external. *)

NodeSends(n, type, payload, meant) ==
    gatewayRadio' = Packet(Header(GatewayAddress, n, type), payload, meant)

NodePings(n) == /\ NodeSends(n, ping_req, <<>>, <<>>)
                /\ Quiet
                /\ UNCHANGED <<registry, nodeRadio>>

Announce(x) == NodeSends(x.deviceId, discovery_msg, discoveryItemToBytes(x.item), <<>>)

NodeAnnounces(n) == /\ \E x \in EntitiesOfNode(n) : Announce(x)
                    /\ Quiet
                    /\ UNCHANGED <<registry, nodeRadio>>

\* The numbers an entity reports are those its format can express and an item,
\* whose value is a signed word, can hold.
Readings(x) ==
    LET format == x.item.format
    IN  {v \in Numbers[x] :
           /\ v % Step(format) = 0
           /\ 2 * (v \div Step(format)) < WordRange
           /\ \E raw \in {asWord(v \div Step(format))} :
                isValidRawValue(format, raw) /\ fromRawValue(format, raw) = v}

\* A node reports the values of one or two of its entities.
NodeReports(n) ==
    /\ \E k \in {1, 2} : \E es \in [1 .. k -> EntitiesOfNode(n)] :
         /\ k = 2 => es[1].item.entityId < es[2].item.entityId
         /\ \E vs \in [1 .. k -> UNION {Readings(x) : x \in EntitiesOfNode(n)}] :
              /\ \A i \in 1 .. k : vs[i] \in Readings(es[i])
              /\ NodeSends(n, value_msg,
                   valueMessagePayload([i \in 1 .. k |->
                     [entityId |-> es[i].item.entityId,
                      value |-> vs[i] \div Step(es[i].item.format)]]), vs)
    /\ Quiet
    /\ UNCHANGED <<registry, nodeRadio>>

\* Packets the gateway is not meant to understand: a stray one, a request of one
\* node to another, a message of another length.
StrayPackets(n) ==
    {[bytes |-> <<GatewayAddress, n>>, meant |-> <<>>]} \cup
    {Packet(Header(m, n, discovery_req), <<Broadcast>>, <<>>) : m \in Nodes \ {n}} \cup
    {Packet(Header(GatewayAddress, n, type), <<1>>, <<>>) :
       type \in {discovery_msg, value_msg}}

NodeStrays(n) == /\ gatewayRadio' \in StrayPackets(n)
                 /\ Quiet
                 /\ UNCHANGED <<registry, nodeRadio>>

\* A node handles a request of the gateway.
NodeHandles(n) ==
    LET msg == decodeMessage(nodeRadio[n].bytes)
        asked == {x \in EntitiesOfNode(n) : msg.payload[1] \in {x.item.entityId, Broadcast}}
    IN  /\ decodes(nodeRadio[n].bytes)
        /\ nodeRadio' = [nodeRadio EXCEPT ![n] = NoPacket]
        /\ \/ /\ msg.header.msgType = ping_msg
              /\ Quiet
              /\ UNCHANGED gatewayRadio
           \/ /\ msg.header.msgType = discovery_req
              /\ \E x \in asked : Announce(x)
              /\ Quiet
           \/ /\ msg.header.msgType = valueSet_req
              /\ \E x \in asked :
                   applied' = [kind |-> "number", entity |-> x,
                               number |-> fromRawValue(x.item.format,
                                            wordFromBytes(msg.payload, 2)),
                               meant |-> nodeRadio[n].meant[1]]
              /\ published' = NothingPublished /\ answer' = NoAnswer
              /\ UNCHANGED gatewayRadio
           \/ /\ msg.header.msgType = service_req
              /\ \E x \in asked :
                   applied' = [kind |-> "service", entity |-> x,
                               number |-> msg.payload[2], meant |-> nodeRadio[n].meant[1]]
              /\ published' = NothingPublished /\ answer' = NoAnswer
              /\ UNCHANGED gatewayRadio
        /\ UNCHANGED registry

-----------------------------------------------------------------------------
Command == \/ \E x \in known :
                \/ \E command \in CoverCommands : HandleCoverCommand(x, command)
                \/ \E number \in Commands : HandleNumberCommand(x, number)
           \/ IgnoreCommand

Node == \E n \in Nodes : \/ NodePings(n) \/ NodeAnnounces(n) \/ NodeReports(n)
                         \/ NodeStrays(n) \/ NodeHandles(n)

Next == \/ HandlePingRequest \/ HandleDiscoveryMessage \/ HandleValueMessage
        \/ HandleUnregisteredValue \/ IgnorePacket
        \/ Forget \/ AskAll \/ Command \/ Node \/ Lose

Spec == Init /\ [][Next]_vars

-----------------------------------------------------------------------------
(* Safety. *)

\* Type invariant: the table is well formed, what is on the air are bytes, in
\* packets that fit.
LinkTypeOK ==
    /\ RegistryOk(registry)
    /\ \A p \in {gatewayRadio} \cup {nodeRadio[n] : n \in Nodes} :
         /\ Len(p.bytes) <= LORA_MAX_MESSAGE_LENGTH
         /\ \A k \in 1 .. Len(p.bytes) : p.bytes[k] \in 0 .. 255

\* What the registry holds of an entity is what its node announced: all of it,
\* under the right device, whatever arrived before it.
RegisteredAsAnnounced == stored \subseteq {EntityOf(x.deviceId, x.item) : x \in Entities}

\* What the entity shows when its node reports this number.
Meant(item, number) ==
    CASE item.domain = BINARY_SENSOR -> Text(IF number = 0 THEN "OFF" ELSE "ON")
      [] item.domain = COVER -> Text(coverState(number \div Step(item.format)))
      [] OTHER -> Number(number)

\* No removal has moved the slot of this device: its DeviceInfo points to it.
Unmoved(r, d) == LET idx == findDeviceIndex(r, d)
                 IN  r.devices[idx].info.entities = idx

\* Home Assistant shows for an entity what its node reported, through the
\* document it is sent and the description it was given: a number with its sign
\* and decimals, each entity of a message its own (publishSensorValues against
\* publishDiscovery), whatever was removed and registered again before it.  A
\* device that a removal has moved is excepted: its values are published as those
\* of what its DeviceInfo still points to, another device's entities or zeroes, or
\* left out (the memcpy of DeviceRegistry.cpp:39 against main.cpp:494 and
\* MqttHandler.cpp:88; ValuesResolveToRegisteredEntities of Gateway is violated
\* by it).  So are decimals of a number: it is published raw (MqttHandler.cpp:119),
\* though its bounds are advertised scaled (line 249).
ShownAsReported ==
    \A r \in published.reported : Unmoved(registry, r.entity.deviceId) =>
      LET item == r.entity.item
          raw == /\ item.domain \notin {BINARY_SENSOR, COVER, SENSOR}
                 /\ item.format.precision # 0
      IN  ~ raw => Reads(publishDiscovery(r.entity.deviceId, item), published.message)
                     = Meant(item, r.meant)

Lowest(item) == publishDiscovery(0, item).min
Highest(item) == publishDiscovery(0, item).max
Within(item, number) == Lowest(item) <= number /\ number <= Highest(item)

\* The number of the range that is nearest to the one commanded.
Clamped(item, number) ==
    IF number < Lowest(item) THEN Lowest(item)
    ELSE IF number > Highest(item) THEN Highest(item) ELSE number

\* The word of a number of this size is that of a negative one: it is not
\* refused for being too large.
ReadAsNegative(item, number) ==
    item.format.isSigned /\ Rounded(number, Step(item.format))
                              \in (WordRange \div 2) .. (WordRange - 1)

\* What a node applies is what was commanded: the service, or the number to the
\* nearest step of its format and within the range that was advertised, however
\* the cast of a number that does not fit comes out.  It is within the range,
\* but another one, for a number that is read as a negative one.
AppliedAsCommanded ==
    /\ applied.kind = "service" => applied.number = applied.meant
    /\ applied.kind = "number" =>
         LET item == applied.entity.item
             off == applied.number - Clamped(item, applied.meant)
         IN  /\ Within(item, applied.number)
             /\ \/ 2 * off <= Step(item.format) /\ -2 * off <= Step(item.format)
                \/ ReadAsNegative(item, applied.meant)

(* What a comment says and the code does not do. *)

\* A number within the entity's range is sent to the node (MqttMsgHandler.cpp:136:
\* 'could be "23.45", "-30", or "200"').
InRangeCommandSent ==
    answer # NoAnswer =>
      (Within(answer.entity.item, answer.number) => answer.sent)
=============================================================================

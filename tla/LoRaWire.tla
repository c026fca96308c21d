------------------------------ MODULE LoRaWire ------------------------------
(***************************************************************************)
(* The bytes on the radio: the header, value and discovery items of        *)
(* src/include/Types.h and DiscoveryItem.h, and the packets of             *)
(* src/src/LoRaHandler.cpp.  A packet is the sequence of its bytes; each   *)
(* side builds it with one half of these operators and reads it with the   *)
(* other.                                                                  *)
(***************************************************************************)
EXTENDS Format, Sequences

Byte == 0 .. 255

LORA_MAX_MESSAGE_LENGTH == 150
LORA_HEADER_LENGTH == 4
LORA_MAX_PAYLOAD_LENGTH == LORA_MAX_MESSAGE_LENGTH - LORA_HEADER_LENGTH

\* LoRaMsgType
ping_req == 0
ping_msg == 1
discovery_req == 2
discovery_msg == 3
value_msg == 5
valueSet_req == 6
service_req == 7

-----------------------------------------------------------------------------
(* Words, most significant byte first. *)

wordToBytes(w) ==
    LET w1 == w \div ByteRange
        w2 == w1 \div ByteRange
        w3 == w2 \div ByteRange
    IN  <<w3 % ByteRange, w2 % ByteRange, w1 % ByteRange, w % ByteRange>>

\* The word in four bytes of buf from position p.
wordFromBytes(buf, p) ==
    ((buf[p] * ByteRange + buf[p + 1]) * ByteRange + buf[p + 2]) * ByteRange
      + buf[p + 3]

-----------------------------------------------------------------------------
(* The header. *)

Header(dst, src, type) ==
    [dst |-> dst, src |-> src, id |-> 0, ack_response |-> FALSE,
     ack_request |-> FALSE, msgType |-> type]

flagsToByte(h) == (IF h.ack_response THEN 128 ELSE 0)
                  + (IF h.ack_request THEN 64 ELSE 0) + h.msgType

headerToBytes(h) == <<h.dst, h.src, h.id, flagsToByte(h)>>

headerFromBytes(buf) ==
    [dst |-> buf[1], src |-> buf[2], id |-> buf[3],
     ack_response |-> buf[4] \div 128 = 1,
     ack_request |-> (buf[4] \div 64) % 2 = 1,
     msgType |-> buf[4] % 16]

-----------------------------------------------------------------------------
(* Packets. *)

\* encodeMessage: no bytes when the payload does not fit.
encodeMessage(header, payload) ==
    IF LORA_HEADER_LENGTH + Len(payload) > LORA_MAX_MESSAGE_LENGTH
    THEN <<>> ELSE headerToBytes(header) \o payload

\* readPacket: what the buffer takes.
Received(bytes) ==
    IF Len(bytes) > LORA_MAX_MESSAGE_LENGTH
    THEN SubSeq(bytes, 1, LORA_MAX_MESSAGE_LENGTH) ELSE bytes

\* decodeMessage refuses a packet without a header and nothing else.
decodes(bytes) == Len(Received(bytes)) >= LORA_HEADER_LENGTH

decodeMessage(bytes) ==
    [header |-> headerFromBytes(bytes),
     payload |-> SubSeq(Received(bytes), LORA_HEADER_LENGTH + 1, Len(Received(bytes)))]

-----------------------------------------------------------------------------
(* Value items: an entity and a signed word. *)

ValueItemSize == 5

valueItemToBytes(item) == <<item.entityId>> \o wordToBytes(asWord(item.value))

\* Faulty variant of valueItemFromBytes: the last byte is left out.
valueItemFromBytesShort(buf, p) ==
    [entityId |-> buf[p],
     value |-> signExtend(wordFromBytes(buf, p + 1) \div ByteRange, WordRange)]

valueItemFromBytes(buf, p) ==
    [entityId |-> buf[p],
     value |-> signExtend(wordFromBytes(buf, p + 1), WordRange)]

\* The payload of a value message: a count and the items.
valueMessagePayload(items) ==
    <<Len(items)>> \o
    [k \in 1 .. ValueItemSize * Len(items) |->
       LET item == items[((k - 1) \div ValueItemSize) + 1]
       IN  valueItemToBytes(item)[((k - 1) % ValueItemSize) + 1]]

\* The length handleValueMessage asks for.
valueMessageComplete(payload) ==
    /\ Len(payload) > 0
    /\ Len(payload) = 1 + payload[1] * ValueItemSize

valueMessageItems(payload) ==
    [i \in 1 .. payload[1] |->
       valueItemFromBytes(payload, 2 + (i - 1) * ValueItemSize)]

-----------------------------------------------------------------------------
(* Discovery items: the metadata of an entity, its name at the end. *)

DiscoveryItemSize == 5    \* DiscoveryItem::size(), not the length of an item
MaxName == 32

\* What the registry can hold of an entity: bytes, a format, two words and a
\* name without its terminator.
Items == [entityId : Byte, domain : Byte, deviceClass : Byte, category : Byte,
          unit : Byte, format : Formats, minValue : 0 .. (WordRange - 1),
          maxValue : 0 .. (WordRange - 1), name : Seq(Byte \ {0})]

discoveryItemToBytes(item) ==
    <<item.entityId, item.domain, item.deviceClass, item.category, item.unit,
      toByte(item.format)>>
    \o wordToBytes(item.minValue) \o wordToBytes(item.maxValue)
    \o item.name \o <<0>>

\* strlen of the string that starts at position p.
nameLength(buf, p) ==
    LET ends == {k \in p .. Len(buf) : buf[k] = 0}
        length == (CHOOSE k \in ends : \A l \in ends : k <= l) - p
    IN  IF length > MaxName THEN MaxName - 1 ELSE length

\* Faulty variant of discoveryItemFromBytes: the bounds are read in the wrong
\* order.
discoveryItemFromBytesSwapped(buf) ==
    [entityId |-> buf[1], domain |-> buf[2], deviceClass |-> buf[3],
     category |-> buf[4], unit |-> buf[5], format |-> fromByte(buf[6]),
     minValue |-> wordFromBytes(buf, 11), maxValue |-> wordFromBytes(buf, 7),
     name |-> SubSeq(buf, 15, 14 + nameLength(buf, 15))]

discoveryItemFromBytes(buf) ==
    [entityId |-> buf[1], domain |-> buf[2], deviceClass |-> buf[3],
     category |-> buf[4], unit |-> buf[5], format |-> fromByte(buf[6]),
     minValue |-> wordFromBytes(buf, 7), maxValue |-> wordFromBytes(buf, 11),
     name |-> SubSeq(buf, 15, 14 + nameLength(buf, 15))]
=============================================================================

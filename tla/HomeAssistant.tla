--------------------------- MODULE HomeAssistant ---------------------------
(***************************************************************************)
(* What the gateway tells Home Assistant of an entity and of its values,   *)
(* in src/src/MqttHandler.cpp, and how Home Assistant reads it.  A topic   *)
(* is the tuple of its variable parts; a state document is a function from *)
(* keys to what they show.                                                 *)
(***************************************************************************)
EXTENDS LoRaWire

\* EntityDomain, of those the code tells apart, and EntityCategory.
BINARY_SENSOR == 0
COVER == 4
NUMBER == 13
SENSOR == 16
CONFIG == 1

StateTopic(d) == <<d, "state">>
CommandTopic(d, e, suffix) == <<d, e, suffix>>
NoTopic == <<>>

\* The key of an entity: its number with its device class.
keyOf(item) == <<item.entityId, item.deviceClass>>

-----------------------------------------------------------------------------
(* State documents. *)

Text(t) == [text |-> t, number |-> 0]
Number(n) == [text |-> "", number |-> n]

coverState(v) == IF v \in 0 .. 3 THEN <<"closed", "open", "opening", "closing">>[v + 1]
                 ELSE "unknown"

\* A value by the domain of its entity: scaled for a sensor, as it is for a number.
shownAs(item, value) ==
    CASE item.domain = BINARY_SENSOR -> Text(IF value = 0 THEN "OFF" ELSE "ON")
      [] item.domain = SENSOR -> Number(fromRawValue(item.format, asWord(value)))
      [] item.domain = COVER -> Text(coverState(value))
      [] OTHER -> Number(value * 10^MaxPrecision)

\* publishSensorValues, of values [item, value] of different entities.
publishSensorValues(d, values) ==
    [topic |-> StateTopic(d),
     doc |-> [key \in {keyOf(v.item) : v \in values} |->
                LET v == CHOOSE v \in values : keyOf(v.item) = key
                IN  shownAs(v.item, v.value)]]

-----------------------------------------------------------------------------
(* Discovery. *)

\* subscribeToCommands
commandSubscription(d, item) ==
    CommandTopic(d, item.entityId, CASE item.domain = COVER -> "service"
                                     [] item.domain = NUMBER -> "value"
                                     [] OTHER -> "command")

\* publishDiscovery: what it says of reading and commanding the entity.
publishDiscovery(d, item) ==
    [domain |-> item.domain,
     state_topic |-> StateTopic(d),
     value_template |-> keyOf(item),
     command_topic |->
       CASE item.domain = COVER -> CommandTopic(d, item.entityId, "service")
         [] item.domain = NUMBER /\ item.category = CONFIG ->
              CommandTopic(d, item.entityId, "value")
         [] OTHER -> NoTopic,
     payload_on |-> "ON", payload_off |-> "OFF",
     state_open |-> "open", state_closed |-> "closed",
     min |-> fromRawValue(item.format, item.minValue),
     max |-> fromRawValue(item.format, item.maxValue)]

-----------------------------------------------------------------------------
(* Home Assistant: external. *)

Unknown == Text("unknown")

\* What it makes of a document: what it was told of the domain, and the states
\* of a moving cover, which it was given no other words for.
Reads(config, message) ==
    IF message.topic # config.state_topic
       \/ config.value_template \notin DOMAIN message.doc
    THEN Unknown
    ELSE LET shown == message.doc[config.value_template]
             known == CASE config.domain = BINARY_SENSOR ->
                             {Text(config.payload_on), Text(config.payload_off)}
                        [] config.domain = COVER ->
                             {Text(config.state_open), Text(config.state_closed),
                              Text("opening"), Text("closing")}
                        [] OTHER -> {Number(shown.number)}
         IN  IF shown \in known THEN shown ELSE Unknown
=============================================================================

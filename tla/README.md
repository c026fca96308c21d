# A TLA+ verification project for LoRaGateway-ESP

The program is the firmware of an ESP32 that connects LoRa nodes to Home
Assistant: nodes announce their entities and report values by radio, the gateway
keeps a registry of them, publishes discovery messages and states on MQTT, and
turns MQTT commands and web requests into radio messages.  This directory models
its control in TLA+, checks it with TLC and proves the central facts with TLAPS.
Line numbers refer to `src/src/*.cpp` and `src/include/*.h`.

Contents: [inventory](#inventory) - [modules](#modules-and-the-code) -
[runs](#what-the-runs-check) - [fairness](#fairness) - [findings](#findings) -
[proofs](#what-is-proved) - [not modelled](#what-is-not-modelled) - [plan](#plan)

## Inventory

All state is in RAM.  Two tasks touch it, and nothing locks it:

| task | runs | changes |
|---|---|---|
| loop (`setup()`, then `loop()` for ever) | WiFi, MQTT, the LoRa callbacks, the sweep, OTA | the registry, the rate limits, the sessions, the radio, the logger |
| async_tcp (the web server's) | the REST handlers, the web socket | the radio, the logger's levels and buffer, `lastStatus`; it reads the registry |

| component | state | operations | interacts with |
|---|---|---|---|
| DeviceRegistry | 50 slots of a DeviceInfo and 16 entities, `deviceCount` | register, unregister (shift), registerEntity, lookups, time stamp | called by main and MqttMsgHandler; read by the web server meanwhile |
| main loop | `lastDeviceTimeoutCheck`, status variables | sweep, onDiscoveryMessage, onValueMessage, publishGatewayStatus | callbacks from LoRaMsgHandler; calls MqttHandler |
| setup | attempts | start SPIFFS and the radio, retry, restart | file system, radio |
| handleWiFi | `wifiState`, last action, attempts | one state machine step | WiFi driver |
| MqttHandler | PubSubClient session, counters | connect, handle (reconnects), subscribe, publish statuses, states and descriptions | broker, and behind it Home Assistant |
| MqttMsgHandler | `rateLimitTable` | checkRateLimit, cover and number commands | callback of MqttHandler; sends through LoRaMsgHandler |
| LoRaMsgHandler, LoRaHandler | the radio, counters | handle, decode, dispatch, send requests | radio; called by two tasks |
| Types, DiscoveryItem, Format | none | bytes of headers, items and numbers | LoRaMsgHandler, MqttMsgHandler, MqttHandler |
| WebServerHandler | `lastStatus`, socket | status, ping, discovery, value-get, value-set; replay of the log, log settings | radio, registry, logger, from the other task |
| Logger | buffer, `messageActive`, level, ring of 200 entries | print, println, printf, write, flush | both tasks, the web socket |
| name tables, Util, OTA, web page, configuration | none of interest | | |

What is hard in them:

* the registry moves devices by `memcpy` while a DeviceInfo points into its slot,
  and the sweep removes devices from the array it walks, with a bound and a time
  read before it starts;
* `millis()` wraps, and is subtracted unsigned in one place and signed in another;
* MQTT connections are made in two places of one iteration, a loss is noticed at
  any time, publishes into a dead session vanish, and the broker's will comes late;
* packets are lost, the gateway restarts with an empty registry while nodes go on;
* numbers go through words, casts and floats in both directions;
* two tasks share the radio, the registry and the logger without a lock: a reader
  comes between two writes of a shift or of a message, and a task that sends or
  polls takes the radio, and the flag it waits for, from the other;
* the log is replayed by position to a client while the ring moves on.

What makes each correct: a registry that is a directory of devices (nobody lost
early, nobody kept for ever, no foreign entity); a limiter that lets no burst
through and refuses for cause; sessions subscribed to what is known and a status
that is right in the end; attempts at WiFi that are paced and never given up; what arrives
at one end of the radio, or in Home Assistant, being what was meant at the other;
writes that leave the table readable at every moment; and a log that holds whole
messages and loses none but the oldest.

## Modules and the code

* `Machine` - the clock: `Elapsed` is `uint32_t` subtraction, `SignedElapsed` the
  same cast to `int32_t`, both for a clock of `MillisRange` values;
  `FirstIndex` is where a linear search stops.
* `DeviceRegistry` - `DeviceRegistry.cpp` as operators on a registry value, so that
  a handler can call several in one step.  A pointer is the index of the slot it
  points to: `getEntity` searches the slot's own storage, `infoGetEntity` what
  `info.entities` points to, as the two functions of that name do.  What is known of
  an entity is its `metadata`: a domain in some modules, a whole item in `NodeLink`.
  `AfterDiscovery` is what `onDiscoveryMessage` does with the table.
  `RegistryOk` is the shape the methods rely on between calls.
* `Gateway` - `setup()`, the sweep and the LoRa callbacks of `loop()`.  Each
  handler is one step, since the loop is one task; the sweep takes one step per
  turn, because time passes in it.  `sent`, `values` and `announced` record what
  the last step put out and took in.  `HandleUnregisteredValue` is the null
  dereference of main.cpp:494, followed by `Reboot`.
* `DeviceDirectory` - the abstract specification of `Gateway`: a partial map from
  devices to entities, with no slots, pointers or clock.
* `MqttMsgHandler` - the rate limiter, one action per message, any number of
  messages per tick.  The table is searched, cleaned and filled as in
  `checkRateLimit`.  A message that passes is either commanded or dropped.
* `MqttSession` - one iteration of `loop()` as far as MQTT is concerned, on the
  registry of `DeviceRegistry`, in the order of the code: `SetupMqtt`, `Sweep`,
  `HandleDiscovery`, `Reconnect` (of `MqttHandler::handle`), `PublishGatewayStatus`.
  `client` is the session as PubSubClient sees it and `live` whether the broker
  still has it; `LossNoticed` is when the first learns from the second.
  Devices have no time stamps here: the sweep may remove any (`Gateway` says
  which), so what is shown holds for every timeout.
* `WifiLink` - `handleWiFi`, one action per case and outcome, against a link that
  does as it likes.
* `Format`, `LoRaWire` - the pure functions on numbers and bytes.  Numbers are
  exact decimals; `toRawValue` is the set of outcomes of the C++ cast, whose
  behaviour is undefined out of range: a negative number wraps (as
  test_format.cpp:164 expects), gives 0 or, below all words, the lowest one; a
  large one saturates.
* `HomeAssistant` - `publishSensorValues`, `publishDiscovery` and
  `subscribeToCommands` as what they tell a reader: topics are tuples of their
  variable parts, a state document is a function from keys to what they show.
  `Reads` is Home Assistant's half: external, and only what the description
  names (`value_template`, `payload_on`, `state_open` ...).
* `NodeLink` - nodes, gateway and Home Assistant over those bytes: announcements,
  values, pings and commands end to end, on the table of `DeviceRegistry` with its
  shifts.  `HandleValueMessage` looks every item up as main.cpp:494 and
  MqttHandler.cpp:88 do, through `info.entities`, which after a removal may be
  another device's or nobody's; a command finds its entity by `getEntity`.  `Forget`
  removes any device or restarts the gateway, and time stamps are 0: when that
  happens is the business of `Gateway`.  Nodes are external, written with the
  same items.  The field `meant` of a packet is a history: the numbers it was
  sent for.
* `RegistryCalls` - what the callers of the registry rely on: each method happens
  at once, by the operators of `DeviceRegistry`.
* `RegistrySteps` - the same methods write by write, in the order of
  `DeviceRegistry.cpp`: the slot is filled before it counts, an entity stored
  before it counts, a shift copies a slot in parts in any order.  `call` is where
  the loop task is; `call.before` the registry it began with.
* `LoRaRadio` - `sendMessage`, which both tasks call, and `handle` of the loop task,
  on one radio, cut where they touch it.  `beginPacket` tests whether a packet is on
  the air (`BeginRefused`: then it resets nothing, and nobody looks at what it
  returns), and only then, a step later, sets the radio to standby and empties its
  buffer (`ResetFifo`).  `endPacket` starts the transmission and waits until it sees
  `TX_DONE`, which it clears a step later (`SeesTxDone`, `ClearsTxDone`).
  `parsePacket` clears every flag (`LoopPolls`) and then makes the radio listen or
  stand by (`LoopListens`), whatever it does.  The library and the chip are external,
  as the code uses them; `Transmitted` ends a transmission at any time after its
  start.  `taken` and `aired` are histories: whether the other task touched the radio
  since the task's `beginPacket`, and what went out while it waited.
* `WebTask` - the REST handlers of `WebServerHandler.cpp` between any two writes of
  `RegistrySteps` and any two steps of `LoRaRadio`.  A step reads or writes one thing
  that the tasks share: the scan for a device, the scan for its entity, the use of
  the pointer, an access of the radio.  `moved` and `shifted` are histories of the
  races.
* `Logger` - `Logger.cpp` as operators on a logger value.  A text is a part of a
  line, the end of one or all of a `printf`.
* `Console` - who calls the logger: `setup()` with its retries and restarts, the
  loop's lines and dumps, the web task's lines, settings and replay
  (`Connects`, `SendInit`, `SendEntry`).

The `MC*` modules only give constants; variants named "Faulty variant" beside a
definition are plausible bugs, substituted for it one at a time to see that the
property notices.

## What the runs check

Bounds are in the `.cfg` files.  They are small, and chosen so that the cases
named in each line happen.

* `gateway` (3 nodes, 2 slots, 1 entity each, a clock of `MillisRange` = 6 ticks,
  `MaxSilence` = 6): the table fills, shifts, is refilled, and the clock wraps while
  devices are registered.
  `OnlySilentDevicesRemoved`: whatever the sweep reads, a device heard within the
  timeout is not dropped.  `SilentDevicesLeaveInTime`: one passed over leaves
  after at most `MaxDevices` further sweeps; `SilentDeviceIsRemoved`: it does leave.
  `LastSeenNeverOlder` relates stamps, clock and history.  `ImplementsDirectory`:
  every step is a step of `DeviceDirectory`; one device more than slots and one
  entity more than storage exercise both refusals, and an entity is announced
  again with another domain.
* `rate_limit` (3 devices for 2 entries, a clock of 10 ticks, 2 per interval):
  `BurstBounded`: no stretch of one interval sees more than `2 * Max - 1`
  accepted messages.  That is what fixed windows give; MqttMsgHandler.h:13 says
  "maximum 10 messages per device per 500ms", which they do not.
  `RefusedForCause`: nobody is refused outside its own window, or by a table that
  could have been cleaned.
* `session` (2 devices with commands): `SessionSubscribed`: a session opened by
  `setupMqtt` has the commands of every entity, announced before it, in it, or
  into a lost one.  `StatusCorrectedInTime`: a wrong status in an open session
  stands for one interval at most.  The broker takes clients without credentials
  (`AnonymousAllowed`), the case in which the bare reconnect succeeds.
* `wifi`: `AttemptsPaced`, `KeepsTrying`, `SettlesConnected`, with polls and
  back-offs that span the wrap.
* `node_link` (2 nodes, 4 entities, each with its own readings, bytes of 4 values,
  tenths, room for both): a signed sensor with a decimal, a binary sensor, a signed
  number and a cover, under the same numbers on both nodes; values in pairs, values of
  unknown entities, strays, losses, and removals that move the second device, which
  then is shown through its old pointer.
  `RegisteredAsAnnounced`, `ShownAsReported` and `AppliedAsCommanded` compare what one
  end meant with what the other has.
  `ShownAsReported` goes from the node's reading through packet, table, state document
  and description to what Home Assistant makes of them.  It holds of every device that
  no removal has moved, also beside moved ones and after a slot was used again; a moved
  one is excepted, whose values are shown as those of what it points to (finding 1),
  and TLC refutes the property without that exception.  The decimals of entities that
  are published raw are excepted too (see below).  `AppliedAsCommanded`
  holds for all outcomes of an undefined cast, and excepts numbers whose word is
  that of a negative one (`ReadAsNegative`).
  Bytes of four values are enough because every operator is built from division
  and remainder by `ByteRange`; the properties are proved for every width.
* `console` (a ring of 3, 10 entries per boot, 3 pieces of open messages, 3
  attempts): the ring overflows during a replay, levels change under an open
  message, a part of `setup()` fails and begins to work at any time.
  `OneMessagePerEntry`: no `printf` ends up in the message the other task left
  open.  `EntriesPassTheFilter`: a level set meanwhile holds for an open message
  too.  `ReplayInOrder`, `ClientMissesOnlyEvicted`: the replay sends nothing twice
  and skips one entry at most for each that the ring gives up meanwhile; with
  the entries pushed to it the client has the rest.  `SetupNeverHangs`: it gets
  through or restarts, whatever works when.
* `web_task` (2 devices in 2 slots, so that each removal of the first moves the
  second; 2 entities, one numbered 255; 6 requests; both tasks send): all
  interleavings of the two tasks at single reads and writes, of the table and of the
  radio.
  `ReadersFindWholeSlots`: but for the slot under the `memcpy`, every slot that
  counts is whole at every moment.  `NobodyVanishes`: during a removal every other
  device is in the table, at one of the two slots.  `ImplementsCalls`: the writes
  of a method add up to its operator, so the other modules may take it as one
  step.  Each of the next three excepts one race, and TLC refutes it without the
  exception, so they say exactly what a task without a lock can lose:
  `ConvertedAsAnnounced` (`/value-set` converts with the entity's own metadata
  unless its slot is written over), `RegisteredEntityFound` (an entity is found
  unless a removal overlaps the search), `OwnPacketOnAir` (a packet that found the
  radio free goes out whole and alone, and its wait ends with its own transmission,
  unless the other task touches the radio before that).  Whatever an earlier race left
  in the radio is no exception: bytes behind a refused `beginPacket`, a broken
  transmission, a flag that nobody waited for.  `NotBothRobbed` has no exception: however
  the tasks get in each other's way, they never both wait for a flag that nobody
  sets.  One of them may, and for ever (see the oddities).

## Fairness

`Gateway`, `MqttSession` and `WifiLink` assume weak fairness of the program's
steps (`loop()` is called for ever by the Arduino core and never blocks) and of
`Tick` (the clock runs).  `MqttSession` adds `LossNoticed`: PubSubClient's
keep-alive ends a dead session.  `Console` assumes it of `setup()` only.  `WebTask`
has none, and no liveness: the wait of `endPacket` has no bound, and whether it ends
depends on what the other task does to the radio.  That `loop()` never blocks, which
`Gateway`, `MqttSession` and `WifiLink` rely on, is therefore an assumption that no
web request sends while `loop()` does.  The world - nodes, WiFi, broker, clients,
power - has no fairness.  A tick is long against one iteration: the loop goes round
at least once between two (`iterated`), which bounds how late a sweep or a status
may come.

## Findings

Each is a run whose single property TLC refutes; PROJECT.json quotes the lines.

1. `gateway_lookup` - after a removal, a moved device's pointer names its old
   slot: its values are not found, or are taken for another device's entity.
2. `gateway_first_contact` - a value of a device that is not registered
   dereferences a null pointer instead of asking for its entities.
3. `session_subscribed` - `MqttHandler::handle` reopens a session without
   subscriptions, and `setupMqtt` never sees that one is missing.
4. `session_advertised` - a discovery message published without a session is lost
   for good.
5. `number_range` - bounds of a signed range that crosses zero are compared
   unsigned, so every command is refused.

Oddities that have no run of their own, since a property only excepts them or
nothing in the repository says otherwise:

* The rate limiter's signed difference keeps a used-up window closed for a device
  that was idle for more than half the clock's range, 24.8 days
  (`RefusedForCause` excepts it).
* The state of a number is published raw (MqttHandler.cpp:119), while its bounds
  (line 249) and its commands are scaled (`ShownAsReported` excepts its decimals).
* In a signed range below zero, a large number that has the word of a negative one
  (4294967040 for -256) is sent as that one instead of refused
  (`ReadAsNegative`).
* `/value-set` has no range check at all (WebServerHandler.cpp:192).
* While a packet is on the air `beginPacket` is refused without a word: the bytes are
  written behind those being sent, and go out with them or stay until a
  `beginPacket` that is not refused (LoRaHandler.cpp:41-43).  The end of one
  task's transmission may also end the other's wait, and `parsePacket` breaks off
  what the web task is sending.  `OwnPacketOnAir` excepts packets that meet this.
* A task whose flag, or whose transmission, the other took stays in `endPacket`
  until the other task's next transmission ends (LoRaHandler.cpp:43; `Robbed` is
  reached for both tasks).  If it is the loop task and no request follows, the gateway
  stands still; the core's watchdogs are not modelled.
* README.md:208 and 218 of the repository name a state topic and a JSON command
  per entity; the code publishes one document per device (MqttHandler.cpp:83) and
  takes bare payloads on `/value` and `/service` (line 144).  README.md:19 names a
  CRC16 that the code has not.

## What is proved

All constants are arbitrary, under the named assumptions beside them (table
sizes, timeouts and ranges positive, `Elapsed` on a clock of any width, a history
bound of at least `MillisRange`).

* `GatewayProofs` - the inductive invariant `Inv` is the type invariant with
  `RegistryOk` and `LastSeenNeverOlder`.  The time stamps need the shape:
  only because slots behind `deviceCount` are zeroed, and no device is numbered 0,
  does the sweep's read past the end remove nobody.  The lemmas of
  `DeviceRegistryProofs` say what each method preserves and which devices it
  keeps, beside the arithmetic of the wrapping clock.
  `TypeCorrect`, `TimestampsSafe`, `OnlySilentRemoved` follow.
  `DirectoryImplemented` takes each action to the step of `DeviceDirectory` it
  stands for, under that invariant: the directory reads the entities through the
  slots, which is a function because no two slots hold one device, and a removal
  shifts slots but takes only one device out of it.
  `SilentLeaveInTime` counts what a sweep may still skip.  A device is passed over
  only when the one in front of it is removed, which moves it one slot down, so
  with every slot it has left to fall it may stay one sweep longer:
  `StaysInTurn` bounds the silence of the device in slot `i` by
  `NodeTimeout + (MaxDevices - i) * (CheckInterval + 1)` and the time since the last
  sweep began, and in the middle of a sweep tells the slots it has seen from those
  ahead.  The theorem asks that the clock's range exceed the longest such stay
  (`LongestStay`): 55 minutes against 49.7 days in the code.  On a shorter clock
  the age of a device wraps before its turn comes: TLC refutes the property on the
  `gateway` instance with `MillisRange` = 5, which is just its longest stay.
* `MqttMsgHandlerProofs` - the invariant ties each entry's stamp to the age of its
  device's window, modulo the clock.  `RateLimitTypeCorrect` and
  `RefusalsJustified` follow.  `BurstsBounded` needs to know where the accepted
  messages lie: `Counted` splits them at the age of the window.  Those not older are
  at most the entry's count, and the first is among them; the older ones are of
  the window before without its first, which is out of reach since a window opens
  an interval after the last at the earliest, so one less than a window holds.
  When a window passes, its first message leaves the interval, and what is
  left is below the count, also when the signed difference wraps and counting goes
  on in it.  An entry is cleared only when its window has passed, and then no
  message of this tick stands in the way of the next window.
* `WifiLinkProofs` - the invariant bounds, state by state, how long ago
  `WiFi.begin` was at least.  `WifiTypeCorrect` and `BeginsPaced` follow.
* `NodeLinkProofs` - first the wire: words, headers, formats, value items,
  discovery items, whole packets and value messages are read as they were written,
  for every width of a byte.  `DiscoveryItemRoundTrip` needs a name shorter than its
  buffer, which is the code's off-by-one (DiscoveryItem.h:73).
  `ValueMessageRoundTrip` needs the message to fit into a packet.
  Then the safety properties of the link, for all entities, readings
  and commands.  What the radios hold must be part of the invariant, because what
  was meant and what is read of it are steps apart: `LinkInv` says that a packet
  which decodes as an announcement was made from an entity of that node, a value
  message from readings of two different entities, a command from an accepted raw
  value of its number.  It has `RegistryOk` of the table, too: only because a
  DeviceInfo that no removal has moved points to its own slot, and counts what that
  slot stores, does its lookup find an entity when it is stored and no other
  (`FoundWhenUnmoved`), and a moved one never points back to its slot, so the
  exception of `ShownAsReported` is the same before and after a message
  (`PointersStay`).  The round trips turn that into what a step makes of the
  packet; `AcceptedIsNear` is the arithmetic of the casts and the unsigned
  comparison, by the cases of the rounded number against 0, half a word and a
  word.  The assumptions on entities are those of a sensible announcement: bounds
  in their order that their own format can hold, an unsigned range in the lower
  half of a word, an entity number below the broadcast one.
* `WebTaskProofs` - `StepsInv` describes the table at each point of a method by the
  registry it began with: in a shift the slots below `i` already hold their
  successors, slot `i` is mixed in the parts copied, the ones above are as they
  were.  From it follow `ReadersFindWholeSlots`, `NobodyVanishes` and that the
  writes implement `RegistryCalls`; a refinement theorem carries all three to
  `WebTask`, whose web task writes nothing there.  On top of it, `WebInv` follows
  the lookup of `/value-set`: what it points to is a whole slot of the device asked
  for until a removal writes it over (`SlotKept`: what was read of a slot in use
  stays), and as long as no removal overlaps, the entity is still ahead of where the
  lookup is (`Ahead`).  From it follow `ConvertedAsAnnounced` and
  `RegisteredEntityFound`.  `RadioSafe` and `PacketsWhole` prove
  `OwnPacketOnAir` and `NotBothRobbed` of `LoRaRadio` by itself, for tasks that send
  what and when they like, and under the two tasks of `WebTask`.  `RadioInv` says what the
  radio holds at each point of a packet that was left alone: from the reset on the
  buffer is its own, and no flag stands before its own transmission ends.  When
  both tasks wait, the radio transmits or the flag stands: the one that came last
  to its wait has started a transmission, and the loop task, which alone breaks one off
  without starting its own, does not poll while it waits.
* `MqttSessionProofs` - two arguments in one invariant.  For `SessionSubscribed`:
  the commands of unmoved devices grow only by an announcement, which subscribes
  when the client is connected, and a connect by `setupMqtt` subscribes to
  all; a removal moves every device behind it, and a moved device's pointer stays
  off its slot for good, so a removal never adds a command
  (the case the finding `gateway_lookup` is about).  For `StatusCorrectedInTime`:
  `StatusYoung` bounds the time the status has been wrong by the age of the last
  one published, and that age by the interval, at the points of the loop where
  `publishGatewayStatus` has just run and where it is still to come.  The bound
  of one interval is exact.
* `ConsoleProofs` - `LoggerInv` describes the logger whoever calls it: an open
  message has only parts, the ring the last entries, each entry one message.  Every
  call keeps it and makes one entry at most per line, so the interleaving of the
  tasks does not matter to it.  `ClientInv` follows a client: what was replayed at
  position `k` is an entry at least as late as the `k`th of its start, and later by
  no more than the ring has given up since (`ReplayOk`); where the web task stands
  says how many positions were sent (`ProgressOk`); everything behind the end of
  the replay was pushed (`PushedOk`).  `ClientMissesOnlyEvicted` is then counting: the
  entries replayed are different, so those of the start that are missing are as
  many as were given up at most.

Model-checked only, out of the prover's reach: liveness (`SilentDeviceIsRemoved`,
`KeepsTrying`, `SettlesConnected`, `SetupNeverHangs`).  Every
other property of a passing run is a theorem.

## What is not modelled

* Two calls of the logger that overlap: a race on the `String` of its buffer, whose
  outcomes have no bound.  `Console` lets the tasks alternate between calls.
* Text: wording of JSON, names, log lines.  The lengths of documents: a state of
  more than 256 bytes (about ten values) is cut, a description of more than 512 is
  refused by the client.
* `sscanf` with `%u` into bytes (MqttMsgHandler.cpp:198) writes past its variables:
  `IgnoreCommand` lets it lose any command; other damage to the stack is left out.
* Floats: 24 bits, NaN and infinities.  Raw values of an unsigned format stay in
  the positive half of a word (`EntitiesAssumption`).
* The value of `/value-set`: no check stands between it and the node, so there is
  nothing a property could find broken.
* Corrupted packets: the radio driver is taken to drop them, the code has no
  checksum of its own.  `beginPacket`'s reset, the bytes of `write` and those of a
  packet that is read are one step each; a buffer that is neither empty nor one packet
  holds `NoPacket`, however full it is.
* In the instances of `NodeLink` the table is never full; in that of `Gateway` it is.
* Announcements shorter than an item but longer than 5 bytes, whose fields would
  be uninitialised, and the format with size 3, which no node announces.
* Class and unit tables, `Util`, OTA and the web page: no state of the gateway.
  `WebServerHandler::stop` and `urlDecode` are never called.

## Plan

Done: the registry and the loop, the limiter, the MQTT session, WiFi, the wire, the
link to nodes and Home Assistant, the logger with the console, the radio, the web task; the
proofs listed above.  Left:

1. Proofs: what the runs with a finding would hold without the finding's cause,
   such as `ConnectedMeansSubscribed` of sessions that only `setupMqtt` opens; the
   limiter without the exception for wrapped entries, on a clock whose half
   range no idle time reaches.
2. Short announcements with uninitialised fields in `NodeLink`; the lengths of
   state documents in `HomeAssistant`.
3. Logger calls that overlap, once the outcomes of the race are agreed on.

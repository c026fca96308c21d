------------------------------ MODULE Gateway ------------------------------
(***************************************************************************)
(* The main loop of src/src/main.cpp as far as it concerns the registry:   *)
(* the timeout sweep, one LoRa packet per iteration with the discovery and *)
(* value callbacks, and restarts.  The loop is one task, so each handler   *)
(* is one step; time passes between any two steps.  The nodes are          *)
(* arbitrary: any of them may send any of its messages at any time, and a  *)
(* packet that is lost is one that loRa.handle() does not find.            *)
(***************************************************************************)
EXTENDS DeviceRegistry

CONSTANTS
    Announcements,    \* the entity metadata the nodes announce
    NodeTimeout,      \* NODE_TIMEOUT_SECONDS
    CheckInterval,    \* DEVICE_TIMEOUT_CHECK_INTERVAL
    MaxSilence        \* bound of the history variable silence

ASSUME AnnouncementsAssumption == Announcements \subseteq EntityInfo
ASSUME NodeTimeoutAssumption == NodeTimeout \in Nat
ASSUME CheckIntervalAssumption == CheckInterval \in Nat \ {0}
ASSUME MaxSilenceAssumption == /\ MaxSilence \in Nat
                               /\ MaxSilence >= MillisRange
                               /\ MaxSilence > NodeTimeout

VARIABLES
    registry,                 \* deviceRegistry
    millis,                   \* the clock of the ESP32, from boot
    lastDeviceTimeoutCheck,
    sweep,                    \* i, deviceCount and currentTime of the sweep
    pc,                       \* where the program is
    sent,                     \* LoRa messages the last step transmitted
    values,                   \* the value items the last step handled
    announced,                \* the announcement the last step handled
    iterated,                 \* the loop went round since the last tick
    silence                   \* history: time since a device was last handled

vars == <<registry, millis, lastDeviceTimeoutCheck, sweep, pc, sent, values,
          announced, iterated, silence>>

Broadcast == 255       \* LORA_BROADCAST_ADDRESS, and "all entities"
GatewayAddress == 0    \* LORA_GATEWAY_ADDRESS_DEFAULT

DiscoveryRequest(d, entityId) ==
    [type |-> "discovery_req", dst |-> d, src |-> GatewayAddress,
     entityId |-> entityId]
PingResponse(d, asked) ==
    [type |-> "ping_msg", dst |-> d, src |-> asked]

NoSweep == [i |-> 1, deviceCount |-> 0, currentTime |-> 0]

\* What a step leaves in the records of its inputs and outputs when it has none.
NoData == values' = {} /\ announced' = {}
Silent == sent' = {} /\ NoData

-----------------------------------------------------------------------------
(* Boot and restart: RAM is all the state there is. *)

Init == /\ registry = EmptyRegistry
        /\ millis = 0
        /\ lastDeviceTimeoutCheck = 0
        /\ sweep = NoSweep
        /\ pc = "setup"
        /\ sent = {}
        /\ values = {}
        /\ announced = {}
        /\ iterated = FALSE
        /\ silence = [d \in DeviceIds |-> MaxSilence]

\* The end of setup(): ask every node for its entities.
Setup == /\ pc = "setup"
         /\ sent' = {DiscoveryRequest(Broadcast, Broadcast)}
         /\ NoData
         /\ pc' = "sweep"
         /\ UNCHANGED <<registry, millis, lastDeviceTimeoutCheck, sweep,
                        iterated, silence>>

Reset == /\ registry' = EmptyRegistry
         /\ millis' = 0
         /\ lastDeviceTimeoutCheck' = 0
         /\ sweep' = NoSweep
         /\ pc' = "setup"
         /\ Silent
         /\ iterated' = FALSE
         /\ UNCHANGED silence

\* The panic handler reboots after a fault.
Reboot == pc = "fault" /\ Reset

\* Power is lost, or an OTA update ends.
PowerCycle == pc \notin {"setup", "fault"} /\ Reset

-----------------------------------------------------------------------------
(* The timeout sweep of loop(). *)

SkipSweep ==
    /\ pc = "sweep"
    /\ Elapsed(millis, lastDeviceTimeoutCheck) < CheckInterval
    /\ pc' = "lora"
    /\ Silent
    /\ UNCHANGED <<registry, millis, lastDeviceTimeoutCheck, sweep, iterated,
                   silence>>

\* Faulty variant of BeginSweep: the bound is one too small.
BeginSweepShort ==
    /\ pc = "sweep"
    /\ Elapsed(millis, lastDeviceTimeoutCheck) >= CheckInterval
    /\ lastDeviceTimeoutCheck' = millis
    /\ sweep' = [i |-> 1,
                 deviceCount |-> IF registry.deviceCount = 0
                                 THEN 0 ELSE registry.deviceCount - 1,
                 currentTime |-> millis]
    /\ pc' = "sweeping"
    /\ Silent
    /\ UNCHANGED <<registry, millis, iterated, silence>>

BeginSweep ==
    /\ pc = "sweep"
    /\ Elapsed(millis, lastDeviceTimeoutCheck) >= CheckInterval
    /\ lastDeviceTimeoutCheck' = millis
    /\ sweep' = [i |-> 1, deviceCount |-> registry.deviceCount,
                 currentTime |-> millis]
    /\ pc' = "sweeping"
    /\ Silent
    /\ UNCHANGED <<registry, millis, iterated, silence>>

\* Faulty variant of SweepSlot: the slot is looked at again after a removal.
SweepSlotAgain ==
    /\ pc = "sweeping"
    /\ sweep.i <= sweep.deviceCount
    /\ LET info == registry.devices[sweep.i].info
           old == Elapsed(sweep.currentTime, info.lastSeen) > NodeTimeout
       IN  /\ registry' = IF old THEN unregisterDevice(registry, info.deviceId)
                                 ELSE registry
           /\ sweep' = [sweep EXCEPT !.i = IF old THEN @ ELSE @ + 1]
    /\ Silent
    /\ UNCHANGED <<millis, lastDeviceTimeoutCheck, pc, iterated, silence>>

\* One turn of the for loop.  The bound was read before the loop and the
\* table shifts under it: slot i may hold another device than at the start,
\* or be zeroed.
SweepSlot ==
    /\ pc = "sweeping"
    /\ sweep.i <= sweep.deviceCount
    /\ LET info == registry.devices[sweep.i].info
       IN  registry' =
             IF Elapsed(sweep.currentTime, info.lastSeen) > NodeTimeout
             THEN unregisterDevice(registry, info.deviceId)
             ELSE registry
    /\ sweep' = [sweep EXCEPT !.i = @ + 1]
    /\ Silent
    /\ UNCHANGED <<millis, lastDeviceTimeoutCheck, pc, iterated, silence>>

EndSweep ==
    /\ pc = "sweeping"
    /\ sweep.i > sweep.deviceCount
    /\ pc' = "lora"
    /\ sweep' = NoSweep
    /\ Silent
    /\ UNCHANGED <<registry, millis, lastDeviceTimeoutCheck, iterated, silence>>

-----------------------------------------------------------------------------
(* loRa.handle(): at most one packet per iteration. *)

\* The iteration ends; the next one starts at the sweep.
NextIteration == pc' = "sweep" /\ iterated' = TRUE

Hears(d) == silence' = [silence EXCEPT ![d] = 0]

\* No packet, or one of a type that handleMessage only logs.
NoMessage ==
    /\ pc = "lora"
    /\ NextIteration
    /\ Silent
    /\ UNCHANGED <<registry, millis, lastDeviceTimeoutCheck, sweep, silence>>

\* The answer carries the address the request was sent to as its source.
HandlePingRequest(d, asked) ==
    /\ pc = "lora"
    /\ NextIteration
    /\ sent' = {PingResponse(d, asked)}
    /\ NoData
    /\ UNCHANGED <<registry, millis, lastDeviceTimeoutCheck, sweep, silence>>

\* onDiscoveryMessage.
HandleDiscovery(entity) ==
    /\ pc = "lora"
    /\ NextIteration
    /\ Hears(entity.deviceId)
    /\ registry' = AfterDiscovery(registry, entity, millis)
    /\ sent' = {}
    /\ values' = {}
    /\ announced' = {entity}
    /\ UNCHANGED <<millis, lastDeviceTimeoutCheck, sweep>>

\* What onValueMessage makes of the items of a value message of a registered
\* device: each is looked up through the DeviceInfo.
Resolved(r, d, entityIds) ==
    {[deviceId |-> d, entityId |-> e,
      entity |-> infoGetEntity(r, findDeviceIndex(r, d), e)] : e \in entityIds}

\* onValueMessage for a registered device: unresolved items are asked for,
\* the others are published under the entity found.
HandleValue(d, entityIds) ==
    /\ pc = "lora"
    /\ hasDevice(registry, d)
    /\ NextIteration
    /\ Hears(d)
    /\ registry' = updateDeviceLastSeen(registry, d, millis)
    /\ values' = Resolved(registry, d, entityIds)
    /\ sent' = {DiscoveryRequest(d, v.entityId) :
                  v \in {x \in values' : x.entity = NoEntity}}
    /\ announced' = {}
    /\ UNCHANGED <<millis, lastDeviceTimeoutCheck, sweep>>

\* onValueMessage for a device that is not registered: getDevice returns
\* nullptr, which is dereferenced whatever the items are.
HandleUnregisteredValue(d, entityIds) ==
    /\ pc = "lora"
    /\ ~ hasDevice(registry, d)
    /\ Hears(d)
    /\ pc' = "fault"
    /\ Silent
    /\ UNCHANGED <<registry, millis, lastDeviceTimeoutCheck, sweep, iterated>>

-----------------------------------------------------------------------------
(* Time.  A tick of the model is long against one iteration of the loop:   *)
(* the loop goes round at least once between two ticks.                    *)

Tick ==
    /\ pc \in {"sweep", "sweeping", "lora"}
    /\ iterated
    /\ iterated' = FALSE
    /\ millis' = AfterTick(millis)
    /\ silence' = [d \in DeviceIds |->
                     IF silence[d] < MaxSilence THEN silence[d] + 1
                                                ELSE silence[d]]
    /\ UNCHANGED <<registry, lastDeviceTimeoutCheck, sweep, pc, sent, values,
                   announced>>

ReceivePacket ==
    \/ NoMessage
    \/ \E d \in DeviceIds, asked \in {GatewayAddress, Broadcast} :
         HandlePingRequest(d, asked)
    \/ \E entity \in Announcements : HandleDiscovery(entity)
    \/ \E d \in DeviceIds, entityIds \in SUBSET EntityIds :
         HandleValue(d, entityIds) \/ HandleUnregisteredValue(d, entityIds)

Sweep == SkipSweep \/ BeginSweep \/ SweepSlot \/ EndSweep

\* What the processor does without the world's help.
Program == Setup \/ Reboot \/ Sweep \/ ReceivePacket

Next == Program \/ PowerCycle \/ Tick

Spec == Init /\ [][Next]_vars

\* The processor runs and the clock advances.
FairSpec == Spec /\ WF_vars(Program) /\ WF_vars(Tick)

-----------------------------------------------------------------------------
(* Safety. *)

Registered == registeredIds(registry)

\* Type invariant, and the shape of the registry that its methods rely on
\* between two calls (DeviceRegistry.cpp).
GatewayTypeOK ==
    /\ RegistryOk(registry)
    /\ millis \in Millis
    /\ lastDeviceTimeoutCheck \in Millis
    /\ sweep \in [i : Nat \ {0}, deviceCount : 0 .. MaxDevices,
                  currentTime : Millis]
    /\ pc \in {"setup", "sweep", "sweeping", "lora", "fault"}
    /\ iterated \in BOOLEAN
    /\ silence \in [DeviceIds -> 0 .. MaxSilence]

\* No device looks older than it is, although millis() wraps, the table shifts
\* and the sweep compares with a time it read before it started.
LastSeenNeverOlder ==
    \A i \in 1 .. registry.deviceCount :
      LET info == registry.devices[i].info
      IN  /\ Elapsed(millis, info.lastSeen) <= silence[info.deviceId]
          /\ pc = "sweeping" => Elapsed(sweep.currentTime, info.lastSeen)
                                  <= silence[info.deviceId]

\* A device that was heard within the timeout is never dropped from the
\* registry, whatever the table shifts under the sweep, whatever zeroed slot
\* it reads and however often millis() has wrapped; only a restart forgets it.
OnlySilentDevicesRemoved ==
    [][\A d \in Registered \ registeredIds(registry') :
         silence[d] > NodeTimeout \/ Reset]_vars

\* A device may outstay the timeout: when the sweep removes a slot it passes
\* over the device that moves into it, once per sweep as long as a device in
\* front of it is removed.  The registry's size bounds how often.  A sweep may
\* start a tick after it is due, hence the + 1.
SilentDevicesLeaveInTime ==
    \A d \in Registered :
      silence[d] <= NodeTimeout + MaxDevices * (CheckInterval + 1)

\* The registry and the loop implement the directory of devices.
DirectoryOf(r) ==
    [d \in registeredIds(r) |-> entitiesOf(r, findDeviceIndex(r, d))]
Directory == INSTANCE DeviceDirectory WITH directory <- DirectoryOf(registry)
ImplementsDirectory == Directory!DirectorySpec

(* Liveness. *)

\* A registered device that stays silent is removed (README: "Automatically
\* removes offline devices").
SilentDeviceIsRemoved ==
    \A d \in DeviceIds :
      (d \in Registered /\ silence[d] > NodeTimeout)
        ~> (d \notin Registered \/ silence[d] = 0)

(* What the documentation says and the code does not do. *)

\* A value item is published under the entity the registry holds for it, and
\* asked for when the registry holds none.
ValuesResolveToRegisteredEntities ==
    \A v \in values : v.entity = getEntity(registry, v.deviceId, v.entityId)

\* A device that is heard and that the registry could take, yet does not hold,
\* is asked for its entities (README.md:14: "Devices are discovered automatically
\* when they first communicate").
FirstContactIsDiscovered ==
    [][\A d \in DeviceIds :
         /\ silence[d] > 0 /\ silence'[d] = 0
         /\ d \notin registeredIds(registry')
         /\ registry.deviceCount < MaxDevices
         => \E m \in sent' : m.type = "discovery_req" /\ m.dst \in {d, Broadcast}]_vars
=============================================================================

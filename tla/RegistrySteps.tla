--------------------------- MODULE RegistrySteps ---------------------------
(***************************************************************************)
(* The methods of src/src/DeviceRegistry.cpp that change the table, write  *)
(* by write, as another task sees the memory while the loop task is inside *)
(* one of them.  Nothing locks the table.  A slot is copied in three parts *)
(* in any order, since memcpy promises none; a part is written at once.    *)
(* Time stamps are left at 0: they are no concern of the readers.          *)
(***************************************************************************)
EXTENDS DeviceRegistry

CONSTANT Announcements    \* the entity metadata the nodes announce

ASSUME StepAnnouncementsAssumption == Announcements \subseteq EntityInfo

VARIABLES
    registry,    \* deviceRegistry
    call         \* the method the loop task is in: what it does next, at which
                 \* slot, the registry before it, the device it removes

stepVars == <<registry, call>>

\* The parts of an InternalDeviceInfo.
Parts == {"info", "entities", "registeredEntityCount"}

Idle == "idle"
NoCall == [at |-> Idle, i |-> 0, copied |-> {}, before |-> EmptyRegistry,
           leaving |-> 0]
InCall(at) == call.at = at

\* The method goes on elsewhere, or returns.
Goes(at) == call' = [call EXCEPT !.at = at]
Returns == call' = NoCall

StepsInit == registry = EmptyRegistry /\ call = NoCall

-----------------------------------------------------------------------------
(* unregisterDevice. *)

BeginUnregister(d) ==
    /\ InCall(Idle)
    /\ hasDevice(registry, d)
    /\ call' = [NoCall EXCEPT !.at = "shift", !.i = findDeviceIndex(registry, d),
                              !.before = registry, !.leaving = d]
    /\ UNCHANGED registry

\* Faulty variant of ShiftGoesOn: the last slot is not moved.
ShiftGoesOnShort == call.i + 1 < registry.deviceCount

\* The bound of the for loop.
ShiftGoesOn == call.i < registry.deviceCount

\* A slot after some parts of another were copied to it.
Copied(slot, from, parts) ==
    [info |-> IF "info" \in parts THEN from.info ELSE slot.info,
     entities |-> IF "entities" \in parts THEN from.entities ELSE slot.entities,
     registeredEntityCount |-> IF "registeredEntityCount" \in parts
                               THEN from.registeredEntityCount
                               ELSE slot.registeredEntityCount]

\* Part of the memcpy of slot i + 1 to slot i.
CopyPart(part) ==
    /\ InCall("shift") /\ ShiftGoesOn
    /\ part \notin call.copied
    /\ registry' = [registry EXCEPT !.devices[call.i] =
                      Copied(@, registry.devices[call.i + 1], {part})]
    /\ call' = [call EXCEPT !.copied = @ \cup {part}]

NextShift ==
    /\ InCall("shift")
    /\ call.copied = Parts
    /\ call' = [call EXCEPT !.i = @ + 1, !.copied = {}]
    /\ UNCHANGED registry

EndShift ==
    /\ InCall("shift") /\ ~ ShiftGoesOn
    /\ registry' = [registry EXCEPT !.deviceCount = @ - 1]
    /\ Goes("memset")

\* Faulty variant of ZeroLast: the slot that falls free is not zeroed.
ZeroLastForgotten ==
    /\ InCall("memset")
    /\ UNCHANGED registry
    /\ Returns

ZeroLast ==
    /\ InCall("memset")
    /\ registry' = [registry EXCEPT !.devices[registry.deviceCount + 1] = ZeroSlot]
    /\ Returns

-----------------------------------------------------------------------------
(* registerDevice, for a device that is new. *)

BeginRegister(d) ==
    /\ InCall(Idle)
    /\ ~ hasDevice(registry, d) /\ registry.deviceCount < MaxDevices
    /\ LET new == registry.deviceCount + 1
       IN  registry' = [registry EXCEPT
             !.devices[new].info = [deviceId |-> d, lastSeen |-> 0,
                                    entityCount |-> 0, entities |-> new],
             !.devices[new].registeredEntityCount = 0]
    /\ call' = [NoCall EXCEPT !.at = "publish", !.before = registry]

CountDevice ==
    /\ InCall("publish")
    /\ registry' = [registry EXCEPT !.deviceCount = @ + 1]
    /\ Returns

-----------------------------------------------------------------------------
(* registerEntity, for an entity that is new. *)

\* Faulty variant of BeginRegisterEntity: counted first, written behind.
BeginRegisterEntityCounting(entity) ==
    LET idx == findDeviceIndex(registry, entity.deviceId)
        count == registry.devices[idx].registeredEntityCount
    IN  /\ InCall(Idle)
        /\ hasDevice(registry, entity.deviceId)
        /\ ~ storesEntity(registry, idx, entity.entityId)
        /\ count < MaxEntities
        /\ registry' = [registry EXCEPT !.devices[idx].registeredEntityCount = count + 1]
        /\ call' = [NoCall EXCEPT !.at = "countInfo", !.i = idx, !.before = registry]

\* The entity goes behind those that count.
BeginRegisterEntity(entity) ==
    LET idx == findDeviceIndex(registry, entity.deviceId)
        count == registry.devices[idx].registeredEntityCount
    IN  /\ InCall(Idle)
        /\ hasDevice(registry, entity.deviceId)
        /\ ~ storesEntity(registry, idx, entity.entityId)
        /\ count < MaxEntities
        /\ registry' = [registry EXCEPT !.devices[idx].entities[count + 1] = entity]
        /\ call' = [NoCall EXCEPT !.at = "countEntity", !.i = idx, !.before = registry]

CountEntity ==
    /\ InCall("countEntity")
    /\ registry' = [registry EXCEPT !.devices[call.i].registeredEntityCount = @ + 1]
    /\ Goes("countInfo")

CountInfo ==
    /\ InCall("countInfo")
    /\ registry' = [registry EXCEPT !.devices[call.i].info.entityCount =
                                      registry.devices[call.i].registeredEntityCount]
    /\ Returns

-----------------------------------------------------------------------------
BeginCall == \/ \E d \in DeviceIds : BeginUnregister(d) \/ BeginRegister(d)
             \/ \E entity \in Announcements : BeginRegisterEntity(entity)

Continue == \/ \E part \in Parts : CopyPart(part)
            \/ NextShift \/ EndShift \/ ZeroLast
            \/ CountDevice
            \/ CountEntity \/ CountInfo

StepsNext == BeginCall \/ Continue

StepsSpec == StepsInit /\ [][StepsNext]_stepVars

-----------------------------------------------------------------------------
(* Properties. *)

\* The registry as it is between two calls.
Settled == IF InCall(Idle) THEN registry ELSE call.before

\* Every call comes out as the operator of that name in DeviceRegistry: the
\* shift copies the right slots, what falls free is zeroed, and the counts are
\* kept (unregisterDevice, registerDevice, registerEntity).
Calls == INSTANCE RegistryCalls WITH table <- Settled
ImplementsCalls == Calls!CallsSpec

\* The slot under the memcpy, none when 0.
Torn == IF InCall("shift") /\ ShiftGoesOn /\ call.copied \notin {{}, Parts}
        THEN call.i ELSE 0

\* A slot holds announced entities of its own device, as far as it counts them.
SlotReadable(slot) ==
    /\ slot.info.deviceId \in DeviceIds
    /\ slot.registeredEntityCount \in 0 .. MaxEntities
    /\ \A k \in 1 .. slot.registeredEntityCount :
         /\ slot.entities[k] \in Announcements
         /\ slot.entities[k].deviceId = slot.info.deviceId

\* A reader that comes between any two writes finds whole slots only: a slot is
\* filled before it counts, an entity is stored before it counts, and a slot
\* that is zeroed no longer counts.  The slot under the memcpy is excepted.
ReadersFindWholeSlots ==
    \A i \in 1 .. registry.deviceCount : i # Torn => SlotReadable(registry.devices[i])

\* No device disappears from the table while another is removed: at every write
\* it is in some whole slot, with the entities it had before.
NobodyVanishes ==
    \A j \in 1 .. Settled.deviceCount :
      LET was == Settled.devices[j]
      IN  was.info.deviceId # call.leaving =>
            \E i \in (1 .. registry.deviceCount) \ {Torn} :
              LET is == registry.devices[i]
              IN  /\ is.info.deviceId = was.info.deviceId
                  /\ is.registeredEntityCount >= was.registeredEntityCount
                  /\ \A k \in 1 .. was.registeredEntityCount :
                       is.entities[k] = was.entities[k]
=============================================================================

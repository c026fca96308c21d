--------------------------- MODULE DeviceRegistry ---------------------------
(***************************************************************************)
(* The table of discovered devices of src/src/DeviceRegistry.cpp: a fixed  *)
(* array of slots kept dense by shifting, each slot holding a DeviceInfo   *)
(* and the storage of its entities.  DeviceInfo points to that storage, so *)
(* a slot is reached in two ways: through the slot itself (getEntity) and  *)
(* through the pointer info.entities (DeviceInfo::getEntity).  A pointer is *)
(* the index of the slot it points to, NullPointer when zeroed.            *)
(*                                                                         *)
(* The methods are operators on a registry value r, so that the handlers   *)
(* of other modules can call several of them in one step.                  *)
(***************************************************************************)
EXTENDS Machine, FiniteSets

CONSTANTS
    MaxDevices,     \* MAX_DEVICES, 50 in the code
    MaxEntities,    \* MAX_ENTITIES_PER_DEVICE, 16 in the code
    DeviceIds,      \* addresses the nodes use
    EntityIds,      \* entity numbers the nodes use
    Metadata,       \* what the nodes announce of an entity: its domain and the rest
    ZeroMetadata    \* what zeroed memory says of one: domain 0 (BINARY_SENSOR)

ASSUME MaxDevicesAssumption == MaxDevices \in Nat \ {0}
ASSUME MaxEntitiesAssumption == MaxEntities \in Nat \ {0}
\* Address 0 is the gateway's own (LORA_GATEWAY_ADDRESS_DEFAULT), no node has it.
ASSUME DeviceIdsAssumption == DeviceIds \subseteq Nat \ {0}
ASSUME EntityIdsAssumption == EntityIds \subseteq Nat

Slots == 1 .. MaxDevices
EntitySlots == 1 .. MaxEntities

NullPointer == 0

-----------------------------------------------------------------------------
(* What memset leaves behind: device 0, entity 0, domain 0. *)

ZeroEntity == [deviceId |-> 0, entityId |-> 0, metadata |-> ZeroMetadata]
ZeroInfo == [deviceId |-> 0, lastSeen |-> 0, entityCount |-> 0,
             entities |-> NullPointer]
ZeroSlot == [info |-> ZeroInfo,
             entities |-> [k \in EntitySlots |-> ZeroEntity],
             registeredEntityCount |-> 0]

\* The metadata a node announces for one entity, as onDiscoveryMessage fills it.
EntityInfo == [deviceId : DeviceIds, entityId : EntityIds, metadata : Metadata]
\* The nullptr of the lookups: no entity has its number.
NoEntity == [deviceId |-> 0, entityId |-> -1, metadata |-> ZeroMetadata]

DeviceInfo == [deviceId : DeviceIds \cup {0}, lastSeen : Millis,
               entityCount : 0 .. MaxEntities,
               entities : Slots \cup {NullPointer}]
InternalDeviceInfo ==
    [info : DeviceInfo,
     entities : [EntitySlots -> EntityInfo \cup {ZeroEntity}],
     registeredEntityCount : 0 .. MaxEntities]
Registry == [devices : [Slots -> InternalDeviceInfo],
             deviceCount : 0 .. MaxDevices]

\* The constructor, and clear().
EmptyRegistry == [devices |-> [i \in Slots |-> ZeroSlot], deviceCount |-> 0]

-----------------------------------------------------------------------------
(* Lookups. *)

findDeviceIndex(r, deviceId) ==
    FirstIndex({i \in 1 .. r.deviceCount : r.devices[i].info.deviceId = deviceId})

hasDevice(r, deviceId) == findDeviceIndex(r, deviceId) # 0

\* Index of an entity among the first `count` of a slot's storage, 0 if absent.
entityIndex(storage, count, entityId) ==
    FirstIndex({k \in 1 .. count : storage[k].entityId = entityId})

\* DeviceRegistry::getEntity: searches the slot's own storage.
getEntity(r, deviceId, entityId) ==
    LET idx == findDeviceIndex(r, deviceId)
        slot == r.devices[idx]
        k == entityIndex(slot.entities, slot.registeredEntityCount, entityId)
    IN  IF idx = 0 \/ k = 0 THEN NoEntity ELSE slot.entities[k]

\* DeviceInfo::getEntity on the info of slot idx: searches what the pointer
\* info.entities points to.
infoGetEntity(r, idx, entityId) ==
    LET info == r.devices[idx].info
        storage == r.devices[info.entities].entities
        k == entityIndex(storage, info.entityCount, entityId)
    IN  IF k = 0 THEN NoEntity ELSE storage[k]

-----------------------------------------------------------------------------
(* Updates. *)

\* What registerDevice returns.
registerDeviceOk(r, deviceId) ==
    hasDevice(r, deviceId) \/ r.deviceCount < MaxDevices

registerDevice(r, deviceId, now) ==
    IF hasDevice(r, deviceId) \/ r.deviceCount >= MaxDevices
    THEN r
    ELSE LET new == r.deviceCount + 1
             info == [deviceId |-> deviceId, lastSeen |-> now,
                      entityCount |-> 0, entities |-> new]
         IN  [devices |-> [r.devices EXCEPT ![new] =
                             [info |-> info, entities |-> @.entities,
                              registeredEntityCount |-> 0]],
              deviceCount |-> new]

\* Faulty variant of unregisterDevice: the slot that falls free is not zeroed.
unregisterDeviceNoMemset(r, deviceId) ==
    LET idx == findDeviceIndex(r, deviceId)
        last == r.deviceCount
    IN  IF idx = 0
        THEN r
        ELSE [devices |-> [i \in Slots |->
                             IF i \in idx .. last - 1 THEN r.devices[i + 1]
                                                      ELSE r.devices[i]],
              deviceCount |-> last - 1]

\* The slots behind the device move down by memcpy, pointer included.
unregisterDevice(r, deviceId) ==
    LET idx == findDeviceIndex(r, deviceId)
        last == r.deviceCount
    IN  IF idx = 0
        THEN r
        ELSE [devices |-> [i \in Slots |->
                             IF i = last THEN ZeroSlot
                             ELSE IF i \in idx .. last - 1 THEN r.devices[i + 1]
                             ELSE r.devices[i]],
              deviceCount |-> last - 1]

\* TRUE when slot idx already stores an entity with this number.
storesEntity(r, idx, entityId) ==
    entityIndex(r.devices[idx].entities, r.devices[idx].registeredEntityCount,
                entityId) # 0

\* What registerEntity returns.
registerEntityOk(r, deviceId, entity) ==
    LET idx == findDeviceIndex(r, deviceId)
    IN  /\ idx # 0
        /\ \/ storesEntity(r, idx, entity.entityId)
           \/ r.devices[idx].registeredEntityCount < MaxEntities

\* Faulty variant of registerEntity: a full device gives up its first entity.
registerEntityEvicting(r, deviceId, entity) ==
    LET idx == findDeviceIndex(r, deviceId)
        count == r.devices[idx].registeredEntityCount
        k == IF count >= MaxEntities THEN 1 ELSE count + 1
    IN  IF idx = 0 \/ storesEntity(r, idx, entity.entityId)
        THEN r
        ELSE [r EXCEPT !.devices[idx].entities[k] = entity,
                       !.devices[idx].registeredEntityCount = IF k > count THEN k ELSE count,
                       !.devices[idx].info.entityCount = IF k > count THEN k ELSE count]

registerEntity(r, deviceId, entity) ==
    LET idx == findDeviceIndex(r, deviceId)
        count == r.devices[idx].registeredEntityCount
    IN  IF \/ idx = 0
           \/ storesEntity(r, idx, entity.entityId)
           \/ count >= MaxEntities
        THEN r
        ELSE [r EXCEPT !.devices[idx].entities[count + 1] = entity,
                       !.devices[idx].registeredEntityCount = count + 1,
                       !.devices[idx].info.entityCount = count + 1]

\* Faulty variant of updateDeviceLastSeen: the first device is stamped.
updateFirstLastSeen(r, deviceId, now) ==
    IF ~ hasDevice(r, deviceId)
    THEN r ELSE [r EXCEPT !.devices[1].info.lastSeen = now]

updateDeviceLastSeen(r, deviceId, now) ==
    LET idx == findDeviceIndex(r, deviceId)
    IN  IF idx = 0 THEN r ELSE [r EXCEPT !.devices[idx].info.lastSeen = now]

\* onDiscoveryMessage of main.cpp: the device, its time stamp, then the entity.
AfterDiscovery(r, entity, now) ==
    IF registerDeviceOk(r, entity.deviceId)
    THEN LET known == registerDevice(r, entity.deviceId, now)
             seen == updateDeviceLastSeen(known, entity.deviceId, now)
         IN  registerEntity(seen, entity.deviceId, entity)
    ELSE r

-----------------------------------------------------------------------------
(* What the table means: the registered devices, and for each of them what  *)
(* it has announced.                                                         *)

registeredIds(r) == {r.devices[i].info.deviceId : i \in 1 .. r.deviceCount}

entitiesOf(r, idx) ==
    {r.devices[idx].entities[k] : k \in 1 .. r.devices[idx].registeredEntityCount}

(***************************************************************************)
(* The registry is well formed: every value has its type; the slots behind *)
(* deviceCount are zeroed (registerDevice relies on it: it does not clear  *)
(* the slot it takes, and the timeout sweep reads one slot too far); no    *)
(* device sits in two slots; the two entity counts of a slot agree; a      *)
(* slot's storage holds distinct entities of its own device and zeroes     *)
(* behind them; the pointer of a used slot never points below the slot.    *)
(***************************************************************************)
TailZeroed(r) == \A i \in Slots : i > r.deviceCount => r.devices[i] = ZeroSlot

DevicesDistinct(r) ==
    /\ \A i \in 1 .. r.deviceCount : r.devices[i].info.deviceId \in DeviceIds
    /\ \A i, j \in 1 .. r.deviceCount :
         r.devices[i].info.deviceId = r.devices[j].info.deviceId => i = j

StorageOk(slot) ==
    /\ slot.info.entityCount = slot.registeredEntityCount
    /\ \A k \in EntitySlots :
         IF k <= slot.registeredEntityCount
         THEN /\ slot.entities[k] \in EntityInfo
              /\ slot.entities[k].deviceId = slot.info.deviceId
         ELSE slot.entities[k] = ZeroEntity
    /\ \A k, l \in 1 .. slot.registeredEntityCount :
         slot.entities[k].entityId = slot.entities[l].entityId => k = l

PointersOk(r) == \A i \in 1 .. r.deviceCount :
                   r.devices[i].info.entities \in i .. MaxDevices

RegistryOk(r) ==
    /\ r \in Registry
    /\ TailZeroed(r)
    /\ DevicesDistinct(r)
    /\ \A i \in 1 .. r.deviceCount : StorageOk(r.devices[i])
    /\ PointersOk(r)
=============================================================================

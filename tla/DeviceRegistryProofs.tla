------------------------ MODULE DeviceRegistryProofs ------------------------
(***************************************************************************)
(* The methods of the registry keep it well formed, for every size of the  *)
(* table; and what they do to the set of registered devices.               *)
(***************************************************************************)
EXTENDS DeviceRegistry, TLAPS

-----------------------------------------------------------------------------
(* The clock and the linear search, for every width and every set of indices. *)

\* The unsigned difference of two readings is a reading.
LEMMA ElapsedRange ==
    ASSUME NEW a \in Millis, NEW b \in Millis
    PROVE  Elapsed(a, b) \in Millis /\ Elapsed(a, b) \in Nat
  BY MillisRangeAssumption DEF Elapsed, Millis

\* A reading is of age zero at the same reading.
LEMMA ElapsedSelf ==
    ASSUME NEW a \in Millis
    PROVE  Elapsed(a, a) = 0
  BY MillisRangeAssumption DEF Elapsed, Millis

\* When the clock advances an age grows by one, short of the clock's range.
LEMMA ElapsedAfterTick ==
    ASSUME NEW a \in Millis, NEW b \in Millis, Elapsed(a, b) + 1 < MillisRange
    PROVE  Elapsed(AfterTick(a), b) = Elapsed(a, b) + 1
  BY MillisRangeAssumption DEF Elapsed, AfterTick, Millis

\* A search that can match in one place only.
LEMMA FirstIndexUnique ==
    ASSUME NEW S, NEW n \in Nat, S \subseteq 1 .. n,
           \A i, j \in S : i = j
    PROVE  /\ S = {} => FirstIndex(S) = 0
           /\ \A i \in S : FirstIndex(S) = i
  <1>1. S = {} => FirstIndex(S) = 0
    BY DEF FirstIndex
  <1>2. ASSUME NEW i \in S PROVE FirstIndex(S) = i
    <2> DEFINE Least(x) == \A j \in S : x <= j
    <2>1. i \in Nat /\ \A j \in S : j = i
      OBVIOUS
    <2>2. Least(i)
      BY <2>1
    <2>3. FirstIndex(S) = CHOOSE x \in S : Least(x)
      BY DEF FirstIndex
    <2>4. (CHOOSE x \in S : Least(x)) \in S
      <3> HIDE DEF Least
      <3> QED BY <2>2
    <2> QED BY <2>1, <2>3, <2>4
  <1> QED BY <1>1, <1>2

\* The search for a device finds it if it is registered.
LEMMA FindDeviceIndex ==
    ASSUME NEW r, RegistryOk(r), NEW id
    PROVE  /\ findDeviceIndex(r, id) \in 0 .. r.deviceCount
           /\ findDeviceIndex(r, id) = 0
                => \A i \in 1 .. r.deviceCount : r.devices[i].info.deviceId # id
           /\ findDeviceIndex(r, id) # 0
                => r.devices[findDeviceIndex(r, id)].info.deviceId = id
  <1> DEFINE S == {i \in 1 .. r.deviceCount : r.devices[i].info.deviceId = id}
  <1>1. r.deviceCount \in Nat
    BY MaxDevicesAssumption DEF RegistryOk, Registry
  <1>2. \A i, j \in S : i = j
    BY DEF RegistryOk, DevicesDistinct
  <1>3. S \subseteq 1 .. r.deviceCount
    OBVIOUS
  <1>4. /\ S = {} => FirstIndex(S) = 0
        /\ \A i \in S : FirstIndex(S) = i
    <2> HIDE DEF S
    <2> QED BY <1>1, <1>2, <1>3, FirstIndexUnique
  <1>5. findDeviceIndex(r, id) = FirstIndex(S)
    BY DEF findDeviceIndex
  <1>6. CASE S = {}
    BY <1>1, <1>4, <1>5, <1>6
  <1>7. CASE S # {}
    <2>1. PICK i \in S : FirstIndex(S) = i
      BY <1>4, <1>7
    <2>2. /\ i \in 1 .. r.deviceCount
          /\ r.devices[i].info.deviceId = id
          /\ findDeviceIndex(r, id) = i
      BY <1>5, <2>1
    <2>3. i \in 0 .. r.deviceCount /\ i # 0
      BY <1>1, <2>2
    <2> QED BY <2>2, <2>3
  <1> QED BY <1>6, <1>7

\* The search for an entity finds it if the slot stores it.
LEMMA EntityIndex ==
    ASSUME NEW slot, slot \in InternalDeviceInfo, StorageOk(slot), NEW e
    PROVE  LET k == entityIndex(slot.entities, slot.registeredEntityCount, e)
           IN  /\ k \in 0 .. slot.registeredEntityCount
               /\ k = 0 => \A l \in 1 .. slot.registeredEntityCount :
                             slot.entities[l].entityId # e
               /\ k # 0 => slot.entities[k].entityId = e
  <1> DEFINE count == slot.registeredEntityCount
             S == {l \in 1 .. count : slot.entities[l].entityId = e}
  <1>1. count \in Nat
    BY MaxEntitiesAssumption DEF InternalDeviceInfo
  <1>2. \A i, j \in S : i = j
    BY DEF StorageOk
  <1>3. /\ S = {} => FirstIndex(S) = 0
        /\ \A i \in S : FirstIndex(S) = i
    <2>1. S \subseteq 1 .. count
      OBVIOUS
    <2> HIDE DEF S
    <2> QED BY <1>1, <1>2, <2>1, FirstIndexUnique
  <1>4. entityIndex(slot.entities, count, e) = FirstIndex(S)
    BY DEF entityIndex
  <1>5. CASE S = {}
    BY <1>1, <1>3, <1>4, <1>5
  <1>6. CASE S # {}
    <2>1. PICK i \in S : FirstIndex(S) = i
      BY <1>3, <1>6
    <2>2. /\ i \in 1 .. count
          /\ slot.entities[i].entityId = e
          /\ entityIndex(slot.entities, count, e) = i
      BY <1>4, <2>1
    <2>3. i \in 0 .. count /\ i # 0
      BY <1>1, <2>2
    <2> QED BY <2>2, <2>3
  <1> QED BY <1>5, <1>6

-----------------------------------------------------------------------------
(***************************************************************************)
(* Each method keeps the registry well formed.                             *)
(***************************************************************************)
LEMMA EmptyRegistryOk == RegistryOk(EmptyRegistry) /\ registeredIds(EmptyRegistry) = {}
  <1>1. ZeroSlot \in InternalDeviceInfo
    BY MaxEntitiesAssumption, MillisRangeAssumption
    DEF ZeroSlot, ZeroInfo, InternalDeviceInfo, DeviceInfo, Millis, EntitySlots
  <1>2. EmptyRegistry \in Registry
    BY <1>1, MaxDevicesAssumption DEF EmptyRegistry, Registry
  <1>3. /\ TailZeroed(EmptyRegistry)
        /\ DevicesDistinct(EmptyRegistry)
        /\ PointersOk(EmptyRegistry)
        /\ 1 .. EmptyRegistry.deviceCount = {}
    BY DEF EmptyRegistry, TailZeroed, DevicesDistinct, PointersOk, Slots
  <1> QED BY <1>2, <1>3 DEF RegistryOk, registeredIds

\* Replacing the contents of a used slot, its device and its pointer kept.
LEMMA SlotUpdateOk ==
    ASSUME NEW r, RegistryOk(r), NEW idx \in 1 .. r.deviceCount,
           NEW slot \in InternalDeviceInfo, StorageOk(slot),
           slot.info.deviceId = r.devices[idx].info.deviceId,
           slot.info.entities = r.devices[idx].info.entities
    PROVE  /\ RegistryOk([r EXCEPT !.devices[idx] = slot])
           /\ registeredIds([r EXCEPT !.devices[idx] = slot]) = registeredIds(r)
  <1> DEFINE q == [r EXCEPT !.devices[idx] = slot]
  <1>1. /\ r \in Registry
        /\ r.deviceCount \in 0 .. MaxDevices
        /\ idx \in Slots
    BY MaxDevicesAssumption DEF RegistryOk, Registry, Slots
  <1>2. /\ q \in Registry
        /\ q.deviceCount = r.deviceCount
        /\ q.devices[idx] = slot
        /\ \A i \in Slots \ {idx} : q.devices[i] = r.devices[i]
        /\ \A i \in 1 .. r.deviceCount :
             /\ i \in Slots
             /\ q.devices[i].info.deviceId = r.devices[i].info.deviceId
             /\ q.devices[i].info.entities = r.devices[i].info.entities
    <2> DEFINE d == r.devices
    <2>1. d \in [Slots -> InternalDeviceInfo]
      BY <1>1 DEF Registry
    <2>2. /\ q.devices = [d EXCEPT ![idx] = slot]
          /\ q.deviceCount = r.deviceCount
          /\ q = [devices |-> [d EXCEPT ![idx] = slot],
                  deviceCount |-> r.deviceCount]
      BY <1>1 DEF Registry
    <2>3. [d EXCEPT ![idx] = slot] \in [Slots -> InternalDeviceInfo]
      BY <2>1
    <2>4. q \in Registry
      BY <1>1, <2>2, <2>3 DEF Registry
    <2>5. /\ q.devices[idx] = slot
          /\ \A i \in Slots \ {idx} : q.devices[i] = r.devices[i]
      BY <1>1, <2>1, <2>2
    <2>6. 1 .. r.deviceCount \subseteq Slots
      BY <1>1, MaxDevicesAssumption DEF Slots
    <2>7. \A i \in Slots : /\ q.devices[i].info.deviceId = r.devices[i].info.deviceId
                          /\ q.devices[i].info.entities = r.devices[i].info.entities
      <3> HIDE DEF q
      <3> QED BY <2>5
    <2> QED BY <2>2, <2>4, <2>5, <2>6, <2>7
  <1> HIDE DEF q
  <1>3. TailZeroed(q)
    BY <1>1, <1>2, MaxDevicesAssumption DEF RegistryOk, TailZeroed, Slots
  <1>4. DevicesDistinct(q)
    BY <1>2 DEF RegistryOk, DevicesDistinct
  <1>5. \A i \in 1 .. q.deviceCount : StorageOk(q.devices[i])
    BY <1>2 DEF RegistryOk
  <1>6. PointersOk(q)
    BY <1>2 DEF RegistryOk, PointersOk
  <1>7. registeredIds(q) = registeredIds(r)
    BY <1>2 DEF registeredIds
  <1>8. RegistryOk(q)
    BY <1>2, <1>3, <1>4, <1>5, <1>6 DEF RegistryOk
  <1> QED BY <1>7, <1>8 DEF q

\* registeredIds through the search.
LEMMA HasDevice ==
    ASSUME NEW r, RegistryOk(r), NEW id
    PROVE  hasDevice(r, id) <=> id \in registeredIds(r)
  <1>1. r.deviceCount \in Nat
    BY MaxDevicesAssumption DEF RegistryOk, Registry
  <1> QED BY <1>1, FindDeviceIndex DEF hasDevice, registeredIds

\* A time stamp leaves the registry well formed and holds the same devices.
LEMMA UpdateDeviceLastSeenOk ==
    ASSUME NEW r, RegistryOk(r), NEW id, NEW now \in Millis
    PROVE  LET q == updateDeviceLastSeen(r, id, now)
           IN  /\ RegistryOk(q)
               /\ registeredIds(q) = registeredIds(r)
               /\ q.deviceCount = r.deviceCount
               /\ \A i \in 1 .. r.deviceCount :
                    /\ q.devices[i].info.deviceId = r.devices[i].info.deviceId
                    /\ q.devices[i].info.lastSeen =
                         IF r.devices[i].info.deviceId = id
                         THEN now ELSE r.devices[i].info.lastSeen
  <1> DEFINE idx == findDeviceIndex(r, id)
             q == updateDeviceLastSeen(r, id, now)
             slot == [r.devices[idx] EXCEPT !.info.lastSeen = now]
  <1>1. /\ r \in Registry
        /\ r.deviceCount \in 0 .. MaxDevices
        /\ idx \in 0 .. r.deviceCount
        /\ idx = 0 => \A i \in 1 .. r.deviceCount : r.devices[i].info.deviceId # id
        /\ idx # 0 => r.devices[idx].info.deviceId = id
    BY FindDeviceIndex DEF RegistryOk, Registry
  <1>2. CASE idx = 0
    <2>1. q = r
      BY <1>2 DEF updateDeviceLastSeen
    <2> QED BY <1>1, <1>2, <2>1
  <1>3. CASE idx # 0
    <2>1. idx \in 1 .. r.deviceCount /\ idx \in Slots
      BY <1>1, <1>3, MaxDevicesAssumption DEF Slots
    <2>2. r.devices[idx] \in InternalDeviceInfo /\ StorageOk(r.devices[idx])
      BY <1>1, <2>1 DEF Registry, RegistryOk
    <2>3. /\ slot \in InternalDeviceInfo
          /\ slot.info.deviceId = r.devices[idx].info.deviceId
          /\ slot.info.entities = r.devices[idx].info.entities
          /\ slot.info.entityCount = r.devices[idx].info.entityCount
          /\ slot.info.lastSeen = now
          /\ slot.entities = r.devices[idx].entities
          /\ slot.registeredEntityCount = r.devices[idx].registeredEntityCount
      BY <2>2 DEF InternalDeviceInfo, DeviceInfo
    <2>4. StorageOk(slot)
      BY <2>2, <2>3 DEF StorageOk
    <2>5. q = [r EXCEPT !.devices[idx] = slot]
      BY <1>3 DEF updateDeviceLastSeen
    <2>6. RegistryOk(q) /\ registeredIds(q) = registeredIds(r)
      <3> HIDE DEF slot, q
      <3> QED BY <2>1, <2>3, <2>4, <2>5, SlotUpdateOk
    <2>7. /\ q.deviceCount = r.deviceCount
          /\ \A i \in Slots : q.devices[i] = IF i = idx THEN slot ELSE r.devices[i]
      BY <1>1, <2>1, <2>5 DEF Registry
    <2>8. \A i \in 1 .. r.deviceCount :
            /\ i \in Slots
            /\ (r.devices[i].info.deviceId = id) <=> (i = idx)
      BY <1>1, <2>1, <1>3, MaxDevicesAssumption DEF RegistryOk, DevicesDistinct, Slots
    <2> HIDE DEF q, slot
    <2>9. \A i \in 1 .. r.deviceCount :
            /\ q.devices[i].info.deviceId = r.devices[i].info.deviceId
            /\ q.devices[i].info.lastSeen =
                 IF r.devices[i].info.deviceId = id
                 THEN now ELSE r.devices[i].info.lastSeen
      <3> TAKE i \in 1 .. r.deviceCount
      <3>1. CASE i = idx
        BY <2>3, <2>7, <2>8, <3>1
      <3>2. CASE i # idx
        <4>1. r.devices[i].info.deviceId # id
          BY <2>8, <3>2
        <4>2. q.devices[i] = r.devices[i]
          BY <2>7, <2>8, <3>2
        <4> QED BY <4>1, <4>2
      <3> QED BY <3>1, <3>2
    <2> QED BY <2>6, <2>7, <2>9 DEF q
  <1> QED BY <1>2, <1>3

\* Registering an announced entity leaves the registry well formed: the entity
\* goes behind the ones stored, and its number is new to the slot.
LEMMA RegisterEntityOk ==
    ASSUME NEW r, RegistryOk(r), NEW entity \in EntityInfo
    PROVE  LET q == registerEntity(r, entity.deviceId, entity)
           IN  /\ RegistryOk(q)
               /\ registeredIds(q) = registeredIds(r)
               /\ q.deviceCount = r.deviceCount
               /\ \A i \in 1 .. r.deviceCount :
                    /\ q.devices[i].info.deviceId = r.devices[i].info.deviceId
                    /\ q.devices[i].info.lastSeen = r.devices[i].info.lastSeen
  <1> DEFINE id == entity.deviceId
             idx == findDeviceIndex(r, id)
             old == r.devices[idx]
             count == old.registeredEntityCount
             q == registerEntity(r, id, entity)
             slot == [old EXCEPT !.entities[count + 1] = entity,
                                 !.registeredEntityCount = count + 1,
                                 !.info.entityCount = count + 1]
  <1>1. /\ r \in Registry
        /\ r.deviceCount \in 0 .. MaxDevices
        /\ idx \in 0 .. r.deviceCount
        /\ idx # 0 => old.info.deviceId = id
    BY FindDeviceIndex DEF RegistryOk, Registry
  <1>2. CASE idx = 0 \/ storesEntity(r, idx, entity.entityId) \/ count >= MaxEntities
    <2>1. q = r
      BY <1>2 DEF registerEntity
    <2> QED BY <1>1, <2>1
  <1>3. CASE ~ (idx = 0 \/ storesEntity(r, idx, entity.entityId) \/ count >= MaxEntities)
    <2>1. idx \in 1 .. r.deviceCount /\ idx \in Slots
      BY <1>1, <1>3, MaxDevicesAssumption DEF Slots
    <2>2. old \in InternalDeviceInfo /\ StorageOk(old)
      BY <1>1, <2>1 DEF Registry, RegistryOk
    <2>3. /\ count \in 0 .. MaxEntities - 1
          /\ count + 1 \in EntitySlots
          /\ count + 1 \in 0 .. MaxEntities
      BY <1>3, <2>2, MaxEntitiesAssumption DEF InternalDeviceInfo, EntitySlots
    <2>4. \A l \in 1 .. count : old.entities[l].entityId # entity.entityId
      BY <1>3, <2>2, EntityIndex DEF storesEntity
    <2>5. /\ slot \in InternalDeviceInfo
          /\ slot.info.deviceId = old.info.deviceId
          /\ slot.info.entities = old.info.entities
          /\ slot.info.entityCount = count + 1
          /\ slot.info.lastSeen = old.info.lastSeen
          /\ slot.registeredEntityCount = count + 1
          /\ slot.entities = [old.entities EXCEPT ![count + 1] = entity]
      BY <2>2, <2>3 DEF InternalDeviceInfo, DeviceInfo
    <2>6. StorageOk(slot)
      <3>1. \A k \in EntitySlots :
              slot.entities[k] = IF k = count + 1 THEN entity ELSE old.entities[k]
        BY <2>2, <2>3, <2>5 DEF InternalDeviceInfo
      <3> HIDE DEF slot
      <3>2. \A k \in EntitySlots :
              IF k <= count + 1
              THEN /\ slot.entities[k] \in EntityInfo
                   /\ slot.entities[k].deviceId = slot.info.deviceId
              ELSE slot.entities[k] = ZeroEntity
        BY <1>1, <1>3, <2>2, <2>3, <2>5, <3>1, MaxEntitiesAssumption
        DEF StorageOk, EntitySlots
      <3>3. \A k, l \in 1 .. count + 1 :
              slot.entities[k].entityId = slot.entities[l].entityId => k = l
        BY <2>2, <2>3, <2>4, <3>1, MaxEntitiesAssumption DEF StorageOk, EntitySlots
      <3> QED BY <2>5, <3>2, <3>3 DEF StorageOk
    <2>7. q = [r EXCEPT !.devices[idx] = slot]
      BY <1>1, <1>3, <2>1, <2>2, <2>3
      DEF registerEntity, Registry, InternalDeviceInfo, DeviceInfo
    <2>8. RegistryOk(q) /\ registeredIds(q) = registeredIds(r)
      <3> HIDE DEF slot, q
      <3> QED BY <2>1, <2>5, <2>6, <2>7, SlotUpdateOk
    <2>9. /\ q.deviceCount = r.deviceCount
          /\ \A i \in Slots : q.devices[i] = IF i = idx THEN slot ELSE r.devices[i]
      BY <1>1, <2>1, <2>7 DEF Registry
    <2>10. 1 .. r.deviceCount \subseteq Slots
      BY <1>1, MaxDevicesAssumption DEF Slots
    <2> HIDE DEF q, slot
    <2> QED BY <2>5, <2>8, <2>9, <2>10 DEF q
  <1> QED BY <1>2, <1>3

\* A new device takes the first free slot, which is zeroed.
LEMMA RegisterDeviceOk ==
    ASSUME NEW r, RegistryOk(r), NEW id \in DeviceIds, NEW now \in Millis
    PROVE  LET q == registerDevice(r, id, now)
           IN  /\ RegistryOk(q)
               /\ registerDeviceOk(r, id)
                    => registeredIds(q) = registeredIds(r) \cup {id}
               /\ q.deviceCount \in r.deviceCount .. r.deviceCount + 1
               /\ \A i \in 1 .. r.deviceCount : q.devices[i] = r.devices[i]
               /\ q.deviceCount # r.deviceCount
                    => /\ q.devices[q.deviceCount].info.deviceId = id
                       /\ q.devices[q.deviceCount].info.lastSeen = now
  <1> DEFINE q == registerDevice(r, id, now)
             new == r.deviceCount + 1
  <1>1. /\ r \in Registry
        /\ r.deviceCount \in 0 .. MaxDevices
        /\ r.deviceCount \in Nat
        /\ MaxDevices \in Nat
    BY MaxDevicesAssumption DEF RegistryOk, Registry
  <1>2. CASE hasDevice(r, id) \/ r.deviceCount >= MaxDevices
    <2>1. q = r
      BY <1>2 DEF registerDevice
    <2>2. registerDeviceOk(r, id) => id \in registeredIds(r)
      BY <1>1, <1>2, HasDevice DEF registerDeviceOk
    <2> QED BY <1>1, <2>1, <2>2
  <1>3. CASE ~ hasDevice(r, id) /\ ~ (r.deviceCount >= MaxDevices)
    <2> DEFINE d == r.devices
               info == [deviceId |-> id, lastSeen |-> now,
                        entityCount |-> 0, entities |-> new]
               slot == [info |-> info,
                        entities |-> [k \in EntitySlots |-> ZeroEntity],
                        registeredEntityCount |-> 0]
    <2>1. new \in Slots /\ new \in 1 .. MaxDevices
      BY <1>1, <1>3 DEF Slots
    <2>2. d \in [Slots -> InternalDeviceInfo] /\ d[new] = ZeroSlot
      BY <1>1, <2>1 DEF Registry, RegistryOk, TailZeroed
    <2>3. /\ q.deviceCount = new
          /\ q = [devices |-> [d EXCEPT ![new] = slot], deviceCount |-> new]
      <3>1. d[new].entities = [k \in EntitySlots |-> ZeroEntity]
        BY <2>2 DEF ZeroSlot
      <3>2. q = [devices |-> [d EXCEPT ![new] =
                                [info |-> info, entities |-> d[new].entities,
                                 registeredEntityCount |-> 0]],
                 deviceCount |-> new]
        BY <1>3 DEF registerDevice
      <3> QED BY <3>1, <3>2
    <2>4. /\ slot.info = info
          /\ slot.registeredEntityCount = 0
          /\ \A k \in EntitySlots : slot.entities[k] = ZeroEntity
      OBVIOUS
    <2>5. slot \in InternalDeviceInfo
      <3>1. info \in DeviceInfo
        BY <2>1, MaxEntitiesAssumption DEF DeviceInfo
      <3>2. 0 \in 0 .. MaxEntities
        BY MaxEntitiesAssumption
      <3> HIDE DEF info
      <3> QED BY <3>1, <3>2 DEF InternalDeviceInfo
    <2>6. StorageOk(slot)
      <3>1. \A k \in EntitySlots : ~ (k <= 0)
        BY MaxEntitiesAssumption DEF EntitySlots
      <3> QED BY <2>4, <3>1 DEF StorageOk
    <2>7. /\ slot.info.deviceId = id
          /\ slot.info.lastSeen = now
          /\ slot.info.entities = new
      BY <2>4
    <2> HIDE DEF slot, info
    <2>8. /\ q \in Registry
          /\ \A i \in Slots : q.devices[i] = IF i = new THEN slot ELSE r.devices[i]
      <3>1. [d EXCEPT ![new] = slot] \in [Slots -> InternalDeviceInfo]
        BY <2>2, <2>5
      <3>2. new \in 0 .. MaxDevices
        BY <1>1, <2>1
      <3> HIDE DEF q
      <3>3. q \in Registry
        BY <2>3, <3>1, <3>2 DEF Registry
      <3>4. q.devices = [d EXCEPT ![new] = slot]
        BY <2>3
      <3>5. \A i \in Slots : q.devices[i] = IF i = new THEN slot ELSE r.devices[i]
        BY <2>1, <2>2, <3>4
      <3> QED BY <3>3, <3>5
    <2>9. \A i \in 1 .. r.deviceCount :
             i \in Slots /\ i # new /\ q.devices[i] = r.devices[i]
      BY <1>1, <2>1, <2>8 DEF Slots
    <2>10. \A i \in 1 .. new : i = new \/ i \in 1 .. r.deviceCount
      BY <1>1
    <2>11. id \notin registeredIds(r)
      BY <1>3, HasDevice
    <2> HIDE DEF q
    <2>12. TailZeroed(q)
      BY <1>1, <2>1, <2>3, <2>8 DEF RegistryOk, TailZeroed, Slots
    <2>13. DevicesDistinct(q)
      BY <2>1, <2>3, <2>7, <2>8, <2>9, <2>10, <2>11
      DEF RegistryOk, DevicesDistinct, registeredIds
    <2>14. \A i \in 1 .. q.deviceCount : StorageOk(q.devices[i])
      BY <2>1, <2>3, <2>6, <2>8, <2>9, <2>10 DEF RegistryOk
    <2>15. PointersOk(q)
      BY <1>1, <2>1, <2>3, <2>7, <2>8, <2>9, <2>10 DEF RegistryOk, PointersOk
    <2>16. registeredIds(q) = registeredIds(r) \cup {id}
      <3>1. new \in 1 .. new /\ \A i \in 1 .. r.deviceCount : i \in 1 .. new
        BY <1>1
      <3> QED BY <2>1, <2>3, <2>7, <2>8, <2>9, <2>10, <3>1 DEF registeredIds
    <2>17. RegistryOk(q)
      BY <2>8, <2>12, <2>13, <2>14, <2>15 DEF RegistryOk
    <2> QED BY <1>1, <2>1, <2>3, <2>7, <2>8, <2>9, <2>16, <2>17 DEF q
  <1> QED BY <1>2, <1>3

\* Removing a device closes the gap: every slot in use afterwards was in use
\* before, by another device.
LEMMA UnregisterDeviceOk ==
    ASSUME NEW r, RegistryOk(r), NEW id
    PROVE  LET q == unregisterDevice(r, id)
           IN  /\ RegistryOk(q)
               /\ registeredIds(q) = registeredIds(r) \ {id}
               /\ q.deviceCount <= r.deviceCount
               /\ \A i \in 1 .. q.deviceCount :
                    \E j \in 1 .. r.deviceCount : q.devices[i] = r.devices[j]
  <1> DEFINE idx == findDeviceIndex(r, id)
             last == r.deviceCount
             q == unregisterDevice(r, id)
  <1>1. /\ r \in Registry
        /\ last \in 0 .. MaxDevices
        /\ last \in Nat
        /\ MaxDevices \in Nat
        /\ idx \in 0 .. last
        /\ idx = 0 => \A i \in 1 .. last : r.devices[i].info.deviceId # id
        /\ idx # 0 => r.devices[idx].info.deviceId = id
    BY FindDeviceIndex, MaxDevicesAssumption DEF RegistryOk, Registry
  <1>2. CASE idx = 0
    <2>1. q = r
      BY <1>2 DEF unregisterDevice
    <2>2. id \notin registeredIds(r)
      BY <1>1, <1>2 DEF registeredIds
    <2> QED BY <1>1, <2>1, <2>2
  <1>3. CASE idx # 0
    <2> DEFINE from(i) == IF i < idx THEN i ELSE i + 1
    <2>1. /\ idx \in 1 .. last
          /\ last - 1 \in 0 .. MaxDevices
          /\ 1 .. last \subseteq Slots
      BY <1>1, <1>3 DEF Slots
    <2>2. /\ q.deviceCount = last - 1
          /\ q = [devices |-> [i \in Slots |->
                     IF i = last THEN ZeroSlot
                     ELSE IF i \in idx .. last - 1 THEN r.devices[i + 1]
                     ELSE r.devices[i]],
                  deviceCount |-> last - 1]
      BY <1>3 DEF unregisterDevice
    <2>3. ZeroSlot \in InternalDeviceInfo
      BY MaxEntitiesAssumption, MillisRangeAssumption
      DEF ZeroSlot, ZeroInfo, InternalDeviceInfo, DeviceInfo, Millis, EntitySlots
    <2>4. \A i \in Slots :
            q.devices[i] = IF i = last THEN ZeroSlot
                           ELSE IF i \in idx .. last - 1 THEN r.devices[i + 1]
                           ELSE r.devices[i]
      BY <2>2
    <2> HIDE DEF q
    <2>5. \A i \in 1 .. last - 1 :
             /\ i \in Slots
             /\ from(i) \in 1 .. last
             /\ from(i) >= i
             /\ from(i) # idx
             /\ q.devices[i] = r.devices[from(i)]
      BY <1>1, <2>1, <2>4
    <2>6. \A i, j \in 1 .. last - 1 : from(i) = from(j) => i = j
      BY <1>1, <2>1
    <2>7. \A j \in 1 .. last : j # idx => \E i \in 1 .. last - 1 : from(i) = j
      <3> TAKE j \in 1 .. last
      <3>1. CASE j < idx
        BY <1>1, <2>1, <3>1
      <3>2. CASE j > idx
        <4>1. j - 1 \in 1 .. last - 1 /\ from(j - 1) = j
          BY <1>1, <2>1, <3>2
        <4> QED BY <4>1
      <3> QED BY <1>1, <3>1, <3>2
    <2> HIDE DEF from
    <2>8. q \in Registry
      <3>1. r.devices \in [Slots -> InternalDeviceInfo]
        BY <1>1 DEF Registry
      <3>2. \A i \in idx .. last - 1 : i + 1 \in Slots
        BY <1>1, <2>1 DEF Slots
      <3> QED BY <2>1, <2>2, <2>3, <3>1, <3>2 DEF Registry
    <2>9. TailZeroed(q)
      <3>1. \A i \in Slots : i > last - 1 => i = last \/ (i > last /\ i \notin idx .. last - 1)
        BY <1>1, <2>1 DEF Slots
      <3> QED BY <2>2, <2>4, <3>1 DEF RegistryOk, TailZeroed
    <2>10. DevicesDistinct(q)
      <3>1. \A i, j \in 1 .. last - 1 :
              r.devices[from(i)].info.deviceId = r.devices[from(j)].info.deviceId
                => from(i) = from(j)
        BY <2>5 DEF RegistryOk, DevicesDistinct
      <3>2. \A i \in 1 .. last - 1 : r.devices[from(i)].info.deviceId \in DeviceIds
        BY <2>5 DEF RegistryOk, DevicesDistinct
      <3>3. \A i \in 1 .. last - 1 :
              q.devices[i].info.deviceId = r.devices[from(i)].info.deviceId
        BY <2>5
      <3> QED BY <2>2, <2>6, <3>1, <3>2, <3>3 DEF DevicesDistinct
    <2>11. \A i \in 1 .. q.deviceCount : StorageOk(q.devices[i])
      BY <2>2, <2>5 DEF RegistryOk
    <2>12. PointersOk(q)
      <3>1. \A i \in 1 .. last - 1 :
              r.devices[from(i)].info.entities \in from(i) .. MaxDevices
        BY <2>5 DEF RegistryOk, PointersOk
      <3>2. \A i \in 1 .. last - 1 : from(i) .. MaxDevices \subseteq i .. MaxDevices
        BY <1>1, <2>5
      <3> QED BY <2>2, <2>5, <3>1, <3>2 DEF PointersOk
    <2>13. registeredIds(q) = registeredIds(r) \ {id}
      <3>1. \A j \in 1 .. last : r.devices[j].info.deviceId = id <=> j = idx
        BY <1>1, <1>3, <2>1 DEF RegistryOk, DevicesDistinct
      <3>2. registeredIds(q) \subseteq registeredIds(r) \ {id}
        BY <2>2, <2>5, <3>1 DEF registeredIds
      <3>3. registeredIds(r) \ {id} \subseteq registeredIds(q)
        BY <2>2, <2>5, <2>7, <3>1 DEF registeredIds
      <3> QED BY <3>2, <3>3
    <2>14. RegistryOk(q)
      BY <2>8, <2>9, <2>10, <2>11, <2>12 DEF RegistryOk
    <2>15. q.deviceCount <= r.deviceCount
      BY <1>1, <2>2
    <2>16. \A i \in 1 .. q.deviceCount :
             \E j \in 1 .. r.deviceCount : q.devices[i] = r.devices[j]
      BY <2>2, <2>5
    <2> QED BY <2>13, <2>14, <2>15, <2>16 DEF q
  <1> QED BY <1>2, <1>3

\* A removal moves the devices behind the one removed down by one slot.
LEMMA UnregisterDeviceShifts ==
    ASSUME NEW r, RegistryOk(r), NEW k \in 1 .. r.deviceCount
    PROVE  LET q == unregisterDevice(r, r.devices[k].info.deviceId)
           IN  /\ q.deviceCount = r.deviceCount - 1
               /\ \A i \in 1 .. r.deviceCount - 1 :
                    q.devices[i] = IF i < k THEN r.devices[i] ELSE r.devices[i + 1]
  <1> DEFINE id == r.devices[k].info.deviceId
             q == unregisterDevice(r, id)
  <1>1. /\ r.deviceCount \in Nat
        /\ 1 .. r.deviceCount \subseteq Slots
    BY MaxDevicesAssumption DEF RegistryOk, Registry, Slots
  <1>2. findDeviceIndex(r, id) = k
    <2>1. findDeviceIndex(r, id) \in 1 .. r.deviceCount
      BY <1>1, FindDeviceIndex
    <2> QED BY <2>1, FindDeviceIndex DEF RegistryOk, DevicesDistinct
  <1>3. q = [devices |-> [i \in Slots |->
                             IF i = r.deviceCount THEN ZeroSlot
                             ELSE IF i \in k .. r.deviceCount - 1 THEN r.devices[i + 1]
                             ELSE r.devices[i]],
              deviceCount |-> r.deviceCount - 1]
    BY <1>1, <1>2 DEF unregisterDevice
  <1>4. q.deviceCount = r.deviceCount - 1
    BY <1>3
  <1>5. ASSUME NEW i \in 1 .. r.deviceCount - 1
        PROVE  q.devices[i] = IF i < k THEN r.devices[i] ELSE r.devices[i + 1]
    <2>1. i \in Slots /\ i # r.deviceCount /\ (i \in k .. r.deviceCount - 1 <=> ~ (i < k))
      BY <1>1
    <2>2. q.devices[i] = IF i = r.deviceCount THEN ZeroSlot
                         ELSE IF i \in k .. r.deviceCount - 1 THEN r.devices[i + 1]
                         ELSE r.devices[i]
      BY <1>3, <2>1
    <2> QED BY <2>1, <2>2
  <1> QED BY <1>4, <1>5

\* A device that is new takes the slot behind the others, and no entity is in it.
LEMMA RegisterDeviceNew ==
    ASSUME NEW r, RegistryOk(r), NEW id \in DeviceIds, NEW now \in Millis,
           registerDeviceOk(r, id), ~ hasDevice(r, id)
    PROVE  LET q == registerDevice(r, id, now)
               new == r.deviceCount + 1
           IN  /\ q.deviceCount = new
               /\ q.devices[new].info.deviceId = id
               /\ entitiesOf(q, new) = {}
  <1> DEFINE q == registerDevice(r, id, now)
             new == r.deviceCount + 1
             slot == [info |-> [deviceId |-> id, lastSeen |-> now,
                                entityCount |-> 0, entities |-> new],
                      entities |-> r.devices[new].entities,
                      registeredEntityCount |-> 0]
  <1>1. /\ r.deviceCount \in Nat
        /\ new \in Slots
        /\ DOMAIN r.devices = Slots
    BY MaxDevicesAssumption DEF RegistryOk, Registry, registerDeviceOk, Slots
  <1>2. ~ (hasDevice(r, id) \/ r.deviceCount >= MaxDevices)
    BY <1>1, MaxDevicesAssumption DEF registerDeviceOk
  <1>3. q = [devices |-> [r.devices EXCEPT ![new] = slot], deviceCount |-> new]
    BY <1>2 DEF registerDevice
  <1>4. slot.info.deviceId = id /\ slot.registeredEntityCount = 0
    OBVIOUS
  <1> HIDE DEF slot, q
  <1>5. q.deviceCount = new /\ q.devices[new] = slot
    BY <1>1, <1>3
  <1>6. entitiesOf(q, new) = {}
    BY <1>4, <1>5 DEF entitiesOf
  <1> QED BY <1>4, <1>5, <1>6 DEF q

\* An announced entity is added to those of its device if the device has no
\* entity of its number and has room, and no pointer moves.
LEMMA RegisterEntitySlots ==
    ASSUME NEW r, RegistryOk(r), NEW entity \in EntityInfo, NEW i \in 1 .. r.deviceCount
    PROVE  LET q == registerEntity(r, entity.deviceId, entity)
               adds == /\ r.devices[i].info.deviceId = entity.deviceId
                       /\ ~ storesEntity(r, i, entity.entityId)
                       /\ r.devices[i].registeredEntityCount < MaxEntities
           IN  /\ q.devices[i].info.entities = r.devices[i].info.entities
               /\ adds => /\ registerEntityOk(r, entity.deviceId, entity)
                          /\ entitiesOf(q, i) = entitiesOf(r, i) \cup {entity}
               /\ ~ adds => entitiesOf(q, i) = entitiesOf(r, i)
  <1> DEFINE id == entity.deviceId
             idx == findDeviceIndex(r, id)
             old == r.devices[i]
             count == old.registeredEntityCount
             q == registerEntity(r, id, entity)
             adds == /\ old.info.deviceId = id
                     /\ ~ storesEntity(r, i, entity.entityId)
                     /\ count < MaxEntities
  <1>1. /\ r \in Registry
        /\ i \in Slots
        /\ old \in InternalDeviceInfo
        /\ idx = 0 \/ (idx \in 1 .. r.deviceCount /\ idx \in Slots)
        /\ idx # 0 => r.devices[idx].info.deviceId = id
        /\ old.info.deviceId = id <=> idx = i
    <2>1. r \in Registry /\ i \in Slots /\ r.deviceCount \in Nat /\ 1 .. r.deviceCount \subseteq Slots
      BY MaxDevicesAssumption DEF RegistryOk, Registry, Slots
    <2>2. /\ idx \in 0 .. r.deviceCount
          /\ idx = 0 => old.info.deviceId # id
          /\ idx # 0 => r.devices[idx].info.deviceId = id
      BY FindDeviceIndex
    <2> HIDE DEF idx
    <2>3. old.info.deviceId = id <=> idx = i
      BY <2>1, <2>2 DEF RegistryOk, DevicesDistinct
    <2> QED BY <2>1, <2>2, <2>3 DEF Registry
  <1>2. count \in Nat /\ (count < MaxEntities => count + 1 \in EntitySlots)
    BY <1>1, MaxEntitiesAssumption DEF InternalDeviceInfo, EntitySlots
  <1>3. ~ (count < MaxEntities) <=> count >= MaxEntities
    BY <1>2, MaxEntitiesAssumption
  <1>4. CASE adds
    <2>1. idx = i /\ idx # 0
      BY <1>1, <1>4
    <2>2. q = [r EXCEPT !.devices[i].entities[count + 1] = entity,
                        !.devices[i].registeredEntityCount = count + 1,
                        !.devices[i].info.entityCount = count + 1]
      BY <1>3, <1>4, <2>1 DEF registerEntity
    <2>3. registerEntityOk(r, id, entity)
      BY <1>4, <2>1 DEF registerEntityOk
    <2>4. /\ DOMAIN r = {"devices", "deviceCount"}
          /\ DOMAIN r.devices = Slots
          /\ DOMAIN old = {"info", "entities", "registeredEntityCount"}
          /\ DOMAIN old.info = {"deviceId", "lastSeen", "entityCount", "entities"}
          /\ DOMAIN old.entities = EntitySlots
      BY <1>1 DEF Registry, InternalDeviceInfo, DeviceInfo
    <2>5. /\ q.devices[i].registeredEntityCount = count + 1
          /\ q.devices[i].entities = [old.entities EXCEPT ![count + 1] = entity]
          /\ q.devices[i].info.entities = old.info.entities
      <3> HIDE DEF q, idx, count
      <3> QED BY <1>1, <2>2, <2>4
    <2> HIDE DEF q
    <2>6. entitiesOf(q, i) = entitiesOf(r, i) \cup {entity}
      <3>1. \A k \in 1 .. count : q.devices[i].entities[k] = old.entities[k]
        <4> HIDE DEF count, old
        <4>1. \A k \in 1 .. count : k \in EntitySlots /\ k # count + 1
          BY <1>2, <1>4, MaxEntitiesAssumption DEF EntitySlots
        <4> QED BY <2>4, <2>5, <4>1
      <3>2. q.devices[i].entities[count + 1] = entity
        BY <1>2, <1>4, <2>4, <2>5
      <3>3. entitiesOf(q, i) = {q.devices[i].entities[k] : k \in 1 .. count + 1}
        BY <2>5 DEF entitiesOf
      <3>4. 1 .. count + 1 = (1 .. count) \cup {count + 1}
        BY <1>2
      <3>5. entitiesOf(r, i) = {old.entities[k] : k \in 1 .. count}
        BY DEF entitiesOf
      <3> HIDE DEF old, count
      <3> QED BY <3>1, <3>2, <3>3, <3>4, <3>5
    <2> QED BY <1>4, <2>3, <2>5, <2>6 DEF q
  <1>5. CASE ~ adds
    <2>1. CASE idx = i
      <3>1. storesEntity(r, idx, entity.entityId) \/ count >= MaxEntities
        BY <1>1, <1>3, <1>5, <2>1
      <3>2. q = r
        BY <2>1, <3>1 DEF registerEntity
      <3> HIDE DEF q
      <3> QED BY <1>5, <3>2 DEF q
    <2>2. CASE idx # i
      <3>1. q.devices[i] = r.devices[i]
        <4>1. CASE q = r
          BY <4>1
        <4>2. CASE q # r
          <5> DEFINE n == r.devices[idx].registeredEntityCount
          <5>1. /\ idx \in Slots
                /\ q = [r EXCEPT !.devices[idx].entities[n + 1] = entity,
                                 !.devices[idx].registeredEntityCount = n + 1,
                                 !.devices[idx].info.entityCount = n + 1]
            BY <1>1, <4>2 DEF registerEntity
          <5>2. DOMAIN r.devices = Slots /\ DOMAIN r = {"devices", "deviceCount"}
            BY <1>1 DEF Registry
          <5> HIDE DEF q, n, idx
          <5> QED BY <1>1, <2>2, <5>1, <5>2
        <4> QED BY <4>1, <4>2
      <3> HIDE DEF q
      <3>2. entitiesOf(q, i) = entitiesOf(r, i)
        BY <3>1 DEF entitiesOf
      <3> QED BY <1>5, <3>1, <3>2 DEF q
    <2> QED BY <2>1, <2>2
  <1> QED BY <1>4, <1>5
=============================================================================

--------------------------- MODULE WebTaskProofs ---------------------------
(***************************************************************************)
(* The registry written step by step, for any number of slots, entities    *)
(* and devices: every method comes out as the operator of DeviceRegistry,  *)
(* and a reader in between finds whole slots and misses no device.  Then   *)
(* the same beside the web task, and what the two tasks send.              *)
(***************************************************************************)
EXTENDS WebTask, DeviceRegistryProofs

-----------------------------------------------------------------------------
(* The copy of a slot, part by part. *)

\* No part copied leaves the slot.
LEMMA CopiedNothing ==
    ASSUME NEW slot \in InternalDeviceInfo, NEW from
    PROVE  Copied(slot, from, {}) = slot
  BY DEF Copied, InternalDeviceInfo

\* All parts copied make the other slot.
LEMMA CopiedAll ==
    ASSUME NEW slot \in InternalDeviceInfo, NEW from \in InternalDeviceInfo
    PROVE  Copied(slot, from, Parts) = from
  BY DEF Copied, Parts, InternalDeviceInfo

\* The slots from `from` below i hold what was one slot higher, slot i is
\* under the copy.
ShiftedDevices(r, from, i, copied) ==
    [j \in Slots |-> IF j \in from .. i - 1 THEN r.devices[j + 1]
                     ELSE IF j = i THEN Copied(r.devices[j], r.devices[j + 1], copied)
                     ELSE r.devices[j]]

\* The slots before the last is zeroed.
ClosedUp(r, from) ==
    [j \in Slots |-> IF j \in from .. r.deviceCount - 1 THEN r.devices[j + 1]
                     ELSE r.devices[j]]

-----------------------------------------------------------------------------
(* The inductive invariant: what the registry is, in terms of what it was   *)
(* when the call began.                                                     *)

AnnouncedOnly(r) ==
    \A i \in 1 .. r.deviceCount :
      \A k \in 1 .. r.devices[i].registeredEntityCount :
        r.devices[i].entities[k] \in Announcements

SettledOk(r) == RegistryOk(r) /\ AnnouncedOnly(r)

Leaver == findDeviceIndex(call.before, call.leaving)

Shifting ==
    /\ call.at = "shift"
    /\ call.leaving \in DeviceIds
    /\ Leaver # 0
    /\ call.i \in Leaver .. call.before.deviceCount
    /\ call.copied \subseteq Parts
    /\ call.i = call.before.deviceCount => call.copied = {}
    /\ registry = [devices |-> ShiftedDevices(call.before, Leaver, call.i, call.copied),
                   deviceCount |-> call.before.deviceCount]

Zeroing ==
    /\ call.at = "memset"
    /\ call.leaving \in DeviceIds
    /\ Leaver # 0
    /\ registry = [devices |-> ClosedUp(call.before, Leaver),
                   deviceCount |-> call.before.deviceCount - 1]

\* What registerDevice leaves in the slot it takes.
NewSlot(r, d) ==
    [info |-> [deviceId |-> d, lastSeen |-> 0, entityCount |-> 0,
               entities |-> r.deviceCount + 1],
     entities |-> r.devices[r.deviceCount + 1].entities,
     registeredEntityCount |-> 0]

Publishing ==
    /\ call.at = "publish"
    /\ call.leaving = 0
    /\ call.before.deviceCount < MaxDevices
    /\ \E d \in DeviceIds :
         /\ ~ hasDevice(call.before, d)
         /\ registry = [devices |-> [call.before.devices EXCEPT
                                       ![call.before.deviceCount + 1] =
                                         NewSlot(call.before, d)],
                        deviceCount |-> call.before.deviceCount]

\* A slot with one entity more behind those that count.
WithEntity(slot, entity, count) ==
    [slot EXCEPT !.entities = [@ EXCEPT ![slot.registeredEntityCount + 1] = entity],
                 !.registeredEntityCount = count]

Adding(entity, count) ==
    LET r == call.before
        slot == r.devices[call.i]
    IN  /\ call.i = findDeviceIndex(r, entity.deviceId)
        /\ call.i # 0
        /\ call.leaving = 0
        /\ ~ storesEntity(r, call.i, entity.entityId)
        /\ slot.registeredEntityCount < MaxEntities
        /\ registry = [devices |-> [r.devices EXCEPT ![call.i] =
                                      WithEntity(slot, entity,
                                                 slot.registeredEntityCount + count)],
                       deviceCount |-> r.deviceCount]

CountingEntity ==
    /\ call.at = "countEntity"
    /\ \E entity \in Announcements : Adding(entity, 0)

CountingInfo ==
    /\ call.at = "countInfo"
    /\ \E entity \in Announcements : Adding(entity, 1)

InBetween == Shifting \/ Zeroing \/ Publishing \/ CountingEntity \/ CountingInfo

StepsInv ==
    /\ SettledOk(Settled)
    /\ call = NoCall \/ InBetween

-----------------------------------------------------------------------------
(* What each call comes to, and that it preserves the shape. *)

\* The facts about a registry between two calls that the steps use.
LEMMA SettledFacts ==
    ASSUME NEW r, SettledOk(r)
    PROVE  /\ r \in Registry
           /\ r = [devices |-> r.devices, deviceCount |-> r.deviceCount]
           /\ r.devices \in [Slots -> InternalDeviceInfo]
           /\ r.deviceCount \in Nat
           /\ r.deviceCount <= MaxDevices
           /\ MaxDevices \in Nat
           /\ 1 .. r.deviceCount \subseteq Slots
           /\ \A i \in 1 .. r.deviceCount :
                /\ r.devices[i] \in InternalDeviceInfo
                /\ r.devices[i].registeredEntityCount \in Nat
                /\ SlotReadable(r.devices[i])
  <1>1. /\ r \in Registry
        /\ r.deviceCount \in 0 .. MaxDevices
        /\ r.devices \in [Slots -> InternalDeviceInfo]
        /\ MaxDevices \in Nat
    BY MaxDevicesAssumption DEF SettledOk, RegistryOk, Registry
  <1>2. r = [devices |-> r.devices, deviceCount |-> r.deviceCount]
    BY <1>1 DEF Registry
  <1>3. 1 .. r.deviceCount \subseteq Slots
    BY <1>1 DEF Slots
  <1>4. ASSUME NEW i \in 1 .. r.deviceCount
        PROVE  /\ r.devices[i] \in InternalDeviceInfo
               /\ r.devices[i].registeredEntityCount \in 0 .. MaxEntities
               /\ SlotReadable(r.devices[i])
    <2> DEFINE slot == r.devices[i]
    <2>1. slot \in InternalDeviceInfo
      BY <1>1, <1>3
    <2>2. slot.registeredEntityCount \in 0 .. MaxEntities
      BY <2>1 DEF InternalDeviceInfo
    <2>3. slot.info.deviceId \in DeviceIds /\ StorageOk(slot)
      BY DEF SettledOk, RegistryOk, DevicesDistinct
    <2>4. \A k \in 1 .. slot.registeredEntityCount :
            /\ slot.entities[k] \in Announcements
            /\ slot.entities[k].deviceId = slot.info.deviceId
      <3>1. 1 .. slot.registeredEntityCount \subseteq EntitySlots
        BY <2>2, MaxEntitiesAssumption DEF EntitySlots
      <3> QED BY <2>2, <2>3, <3>1, MaxEntitiesAssumption
              DEF SettledOk, AnnouncedOnly, StorageOk
    <2> QED BY <2>1, <2>2, <2>3, <2>4 DEF SlotReadable
  <1> QED BY <1>1, <1>2, <1>3, <1>4, MaxEntitiesAssumption

\* The shift, the count and the memset make up unregisterDevice.
LEMMA UnregisterComesOut ==
    ASSUME NEW r, SettledOk(r), NEW d \in DeviceIds, findDeviceIndex(r, d) # 0
    PROVE  LET q == [devices |-> [ClosedUp(r, findDeviceIndex(r, d))
                                    EXCEPT ![r.deviceCount] = ZeroSlot],
                     deviceCount |-> r.deviceCount - 1]
           IN  q = unregisterDevice(r, d) /\ SettledOk(q)
  <1> DEFINE idx == findDeviceIndex(r, d)
             q == [devices |-> [ClosedUp(r, idx) EXCEPT ![r.deviceCount] = ZeroSlot],
                   deviceCount |-> r.deviceCount - 1]
  <1>1. /\ r.deviceCount \in Nat
        /\ 1 .. r.deviceCount \subseteq Slots
        /\ r.devices \in [Slots -> InternalDeviceInfo]
    BY SettledFacts
  <1>2. q = unregisterDevice(r, d)
    <2> DEFINE left == [ClosedUp(r, idx) EXCEPT ![r.deviceCount] = ZeroSlot]
               right == [i \in Slots |->
                           IF i = r.deviceCount THEN ZeroSlot
                           ELSE IF i \in idx .. r.deviceCount - 1 THEN r.devices[i + 1]
                           ELSE r.devices[i]]
    <2>1. left = right
      BY <1>1 DEF ClosedUp
    <2>2. unregisterDevice(r, d) = [devices |-> right, deviceCount |-> r.deviceCount - 1]
      BY DEF unregisterDevice
    <2> QED BY <2>1, <2>2
  <1>3. RegistryOk(q) /\ \A i \in 1 .. q.deviceCount :
                           \E j \in 1 .. r.deviceCount : q.devices[i] = r.devices[j]
    <2> HIDE DEF q
    <2> QED BY <1>2, UnregisterDeviceOk DEF SettledOk
  <1>4. AnnouncedOnly(q)
    <2> HIDE DEF q
    <2> QED BY <1>3 DEF SettledOk, AnnouncedOnly
  <1> QED BY <1>2, <1>3, <1>4 DEF SettledOk

\* The slot filled and then counted make up registerDevice.
LEMMA RegisterComesOut ==
    ASSUME NEW r, SettledOk(r), NEW d \in DeviceIds, ~ hasDevice(r, d),
           r.deviceCount < MaxDevices
    PROVE  LET q == [devices |-> [r.devices EXCEPT ![r.deviceCount + 1] = NewSlot(r, d)],
                     deviceCount |-> r.deviceCount + 1]
           IN  q = registerDevice(r, d, 0) /\ SettledOk(q)
  <1> DEFINE new == r.deviceCount + 1
             q == [devices |-> [r.devices EXCEPT ![new] = NewSlot(r, d)],
                   deviceCount |-> new]
  <1>1. /\ r.deviceCount \in Nat
        /\ MaxDevices \in Nat
        /\ 1 .. r.deviceCount \subseteq Slots
        /\ r.devices \in [Slots -> InternalDeviceInfo]
        /\ new \in Slots
    BY SettledFacts DEF Slots
  <1>2. q = registerDevice(r, d, 0)
    BY <1>1 DEF registerDevice, NewSlot
  <1>3. RegistryOk(q)
    <2>1. 0 \in Millis
      BY MillisRangeAssumption DEF Millis
    <2> HIDE DEF q
    <2> QED BY <1>2, <2>1, RegisterDeviceOk DEF SettledOk
  <1>4. \A i \in 1 .. new : q.devices[i] = IF i = new THEN NewSlot(r, d) ELSE r.devices[i]
    BY <1>1
  <1>5. NewSlot(r, d).registeredEntityCount = 0
    BY DEF NewSlot
  <1>6. AnnouncedOnly(q)
    <2> SUFFICES ASSUME NEW i \in 1 .. new
                 PROVE  \A k \in 1 .. q.devices[i].registeredEntityCount :
                          q.devices[i].entities[k] \in Announcements
      BY DEF AnnouncedOnly
    <2>1. CASE i = new
      BY <1>4, <1>5, <2>1
    <2>2. CASE i # new
      <3>1. i \in 1 .. r.deviceCount /\ q.devices[i] = r.devices[i]
        BY <1>1, <1>4, <2>2
      <3> HIDE DEF q
      <3> QED BY <3>1 DEF SettledOk, AnnouncedOnly
    <2> QED BY <2>1, <2>2
  <1> QED BY <1>2, <1>3, <1>6 DEF SettledOk

\* The entity written, counted in the slot and then in its DeviceInfo make up
\* registerEntity.
LEMMA RegisterEntityComesOut ==
    ASSUME NEW r, SettledOk(r), NEW entity \in Announcements,
           findDeviceIndex(r, entity.deviceId) # 0,
           ~ storesEntity(r, findDeviceIndex(r, entity.deviceId), entity.entityId),
           r.devices[findDeviceIndex(r, entity.deviceId)].registeredEntityCount < MaxEntities
    PROVE  LET idx == findDeviceIndex(r, entity.deviceId)
               count == r.devices[idx].registeredEntityCount + 1
               slot == WithEntity(r.devices[idx], entity, count)
               q == [devices |-> [r.devices EXCEPT ![idx] =
                                    [slot EXCEPT !.info = [@ EXCEPT !.entityCount = count]]],
                     deviceCount |-> r.deviceCount]
           IN  q = registerEntity(r, entity.deviceId, entity) /\ SettledOk(q)
  <1> DEFINE idx == findDeviceIndex(r, entity.deviceId)
             old == r.devices[idx]
             count == old.registeredEntityCount
             slot == [WithEntity(old, entity, count + 1)
                        EXCEPT !.info = [@ EXCEPT !.entityCount = count + 1]]
             q == [devices |-> [r.devices EXCEPT ![idx] = slot],
                   deviceCount |-> r.deviceCount]
  <1>1. /\ r \in Registry
        /\ r.deviceCount \in Nat
        /\ 1 .. r.deviceCount \subseteq Slots
        /\ r.devices \in [Slots -> InternalDeviceInfo]
        /\ idx \in 1 .. r.deviceCount
        /\ old \in InternalDeviceInfo
        /\ count \in Nat
    BY SettledFacts, FindDeviceIndex DEF SettledOk
  <1>2. q = registerEntity(r, entity.deviceId, entity)
    <2> DEFINE whole == [old EXCEPT !.entities[count + 1] = entity,
                                    !.registeredEntityCount = count + 1,
                                    !.info.entityCount = count + 1]
    <2>0. /\ count + 1 \in EntitySlots
          /\ idx \in Slots
          /\ ~ (count >= MaxEntities)
      BY <1>1, MaxEntitiesAssumption DEF EntitySlots
    <2>1. registerEntity(r, entity.deviceId, entity) = [r EXCEPT !.devices[idx] = whole]
      BY <1>1, <2>0 DEF registerEntity, Registry, InternalDeviceInfo, DeviceInfo
    <2>2. whole = slot
      BY <1>1 DEF WithEntity, InternalDeviceInfo, DeviceInfo
    <2>3. [r EXCEPT !.devices[idx] = slot] = q
      <3> HIDE DEF slot
      <3> QED BY <1>1 DEF Registry
    <2> QED BY <2>1, <2>2, <2>3
  <1>3. RegistryOk(q)
    <2>1. entity \in EntityInfo
      BY StepAnnouncementsAssumption
    <2> HIDE DEF q
    <2> QED BY <1>2, <2>1, RegisterEntityOk DEF SettledOk
  <1>4. /\ slot.registeredEntityCount = count + 1
        /\ slot.entities = [old.entities EXCEPT ![count + 1] = entity]
    BY <1>1 DEF WithEntity, InternalDeviceInfo, DeviceInfo
  <1>5. \A k \in 1 .. count + 1 : slot.entities[k] \in Announcements
    <2>1. /\ count + 1 \in EntitySlots
          /\ 1 .. count \subseteq EntitySlots
          /\ old.entities \in [EntitySlots -> EntityInfo \cup {ZeroEntity}]
      BY <1>1, MaxEntitiesAssumption DEF InternalDeviceInfo, EntitySlots
    <2>2. \A k \in 1 .. count : old.entities[k] \in Announcements
      BY <1>1 DEF SettledOk, AnnouncedOnly
    <2> HIDE DEF old, slot
    <2> QED BY <1>1, <1>4, <2>1, <2>2
  <1>6. AnnouncedOnly(q)
    <2> HIDE DEF slot
    <2>1. \A i \in 1 .. r.deviceCount :
            q.devices[i] = IF i = idx THEN slot ELSE r.devices[i]
      BY <1>1
    <2>2. q.deviceCount = r.deviceCount
      OBVIOUS
    <2>3. \A k \in 1 .. slot.registeredEntityCount : slot.entities[k] \in Announcements
      BY <1>4, <1>5
    <2>4. \A i \in 1 .. r.deviceCount :
            \A k \in 1 .. r.devices[i].registeredEntityCount :
              r.devices[i].entities[k] \in Announcements
      BY DEF SettledOk, AnnouncedOnly
    <2> HIDE DEF q
    <2>5. ASSUME NEW i \in 1 .. r.deviceCount
          PROVE  \A k \in 1 .. q.devices[i].registeredEntityCount :
                   q.devices[i].entities[k] \in Announcements
      <3>1. CASE i = idx
        <4>1. q.devices[i] = slot
          BY <2>1, <3>1
        <4> QED BY <2>3, <4>1
      <3>2. CASE i # idx
        <4>1. q.devices[i] = r.devices[i]
          BY <2>1, <3>2
        <4> QED BY <2>4, <4>1
      <3> QED BY <3>1, <3>2
    <2> QED BY <2>2, <2>5 DEF AnnouncedOnly
  <1> QED BY <1>2, <1>3, <1>6 DEF SettledOk
-----------------------------------------------------------------------------
(* The invariant is inductive: one lemma per method. *)

\* Before the first call.
LEMMA StepsInvInit == StepsInit => StepsInv
  <1> SUFFICES ASSUME StepsInit PROVE StepsInv
    OBVIOUS
  <1>1. call = NoCall /\ Settled = EmptyRegistry
    BY DEF StepsInit, Settled, InCall, NoCall, Idle
  <1>2. EmptyRegistry.deviceCount = 0
    BY DEF EmptyRegistry
  <1>3. AnnouncedOnly(EmptyRegistry)
    BY <1>2 DEF AnnouncedOnly
  <1> QED BY <1>1, <1>3, EmptyRegistryOk DEF StepsInv, SettledOk

\* What is known in each place of a call.
LEMMA WhereItIs ==
    ASSUME StepsInv
    PROVE  /\ InCall(Idle) => call = NoCall /\ Settled = registry /\ SettledOk(registry)
           /\ ~ InCall(Idle) => Settled = call.before /\ SettledOk(call.before)
           /\ InCall("shift") => Shifting
           /\ InCall("memset") => Zeroing
           /\ InCall("publish") => Publishing
           /\ InCall("countEntity") => CountingEntity
           /\ InCall("countInfo") => CountingInfo
           /\ call.at \in {Idle, "shift", "memset", "publish", "countEntity", "countInfo"}
  <1>1. call = NoCall => call.at = "idle"
    BY DEF NoCall, Idle
  <1>2. InBetween => call.at \in {"shift", "memset", "publish", "countEntity", "countInfo"}
    BY DEF InBetween, Shifting, Zeroing, Publishing, CountingEntity, CountingInfo
  <1>3. /\ Shifting => call.at = "shift"
        /\ Zeroing => call.at = "memset"
        /\ Publishing => call.at = "publish"
        /\ CountingEntity => call.at = "countEntity"
        /\ CountingInfo => call.at = "countInfo"
    BY DEF Shifting, Zeroing, Publishing, CountingEntity, CountingInfo
  <1> QED BY <1>1, <1>2, <1>3 DEF StepsInv, InCall, Idle, Settled, InBetween

\* unregisterDevice begins.
LEMMA BeginUnregisterInv ==
    ASSUME StepsInv, NEW d \in DeviceIds, BeginUnregister(d)
    PROVE  StepsInv'
  <1> DEFINE idx == findDeviceIndex(registry, d)
  <1>1. call = NoCall /\ SettledOk(registry)
    BY WhereItIs DEF BeginUnregister
  <1>2. /\ registry.deviceCount \in Nat
        /\ registry.devices \in [Slots -> InternalDeviceInfo]
        /\ registry = [devices |-> registry.devices, deviceCount |-> registry.deviceCount]
        /\ 1 .. registry.deviceCount \subseteq Slots
    BY <1>1, SettledFacts
  <1>3. /\ idx \in 1 .. registry.deviceCount
        /\ idx \in Slots
    BY <1>1, <1>2, FindDeviceIndex DEF BeginUnregister, hasDevice, SettledOk
  <1>4. /\ call'.at = "shift" /\ call'.i = idx /\ call'.copied = {}
        /\ call'.before = registry /\ call'.leaving = d
        /\ registry' = registry
    BY DEF BeginUnregister, NoCall
  <1>5. registry.devices = ShiftedDevices(registry, idx, idx, {})
    <2>1. ASSUME NEW j \in Slots
          PROVE  registry.devices[j] = ShiftedDevices(registry, idx, idx, {})[j]
      <3>1. registry.devices[j] \in InternalDeviceInfo
        BY <1>2
      <3>2. idx .. idx - 1 = {}
        BY <1>2, <1>3
      <3> QED BY <3>1, <3>2, CopiedNothing DEF ShiftedDevices
    <2>2. ShiftedDevices(registry, idx, idx, {})
            = [j \in Slots |-> ShiftedDevices(registry, idx, idx, {})[j]]
      BY DEF ShiftedDevices
    <2> QED BY <1>2, <2>1, <2>2
  <1>6. Settled' = registry
    BY <1>4 DEF Settled, InCall, Idle
  <1>7. Shifting'
    BY <1>2, <1>3, <1>4, <1>5 DEF Shifting, Leaver
  <1> QED BY <1>1, <1>6, <1>7 DEF StepsInv, InBetween

\* A part of a slot moves down.
LEMMA CopyPartInv ==
    ASSUME StepsInv, NEW part \in Parts, CopyPart(part)
    PROVE  StepsInv'
  <1> DEFINE B == call.before
             i == call.i
             D == ShiftedDevices(B, Leaver, i, call.copied)
             E == ShiftedDevices(B, Leaver, i, call.copied \cup {part})
  <1>1. Shifting /\ SettledOk(B)
    BY WhereItIs DEF CopyPart, InCall, Idle
  <1>2. /\ B.deviceCount \in Nat
        /\ B.devices \in [Slots -> InternalDeviceInfo]
        /\ 1 .. B.deviceCount \subseteq Slots
        /\ Leaver \in 1 .. B.deviceCount
    BY <1>1, SettledFacts, FindDeviceIndex DEF Shifting, Leaver, SettledOk
  <1>3. /\ registry = [devices |-> D, deviceCount |-> B.deviceCount]
        /\ i \in Leaver .. B.deviceCount - 1
        /\ i \in Slots /\ i + 1 \in Slots
    BY <1>1, <1>2 DEF Shifting, CopyPart, ShiftGoesOn
  <1>4. /\ D[i] = Copied(B.devices[i], B.devices[i + 1], call.copied)
        /\ D[i + 1] = B.devices[i + 1]
    BY <1>2, <1>3 DEF ShiftedDevices
  <1>5. Copied(D[i], D[i + 1], {part})
          = Copied(B.devices[i], B.devices[i + 1], call.copied \cup {part})
    <2>1. B.devices[i] \in InternalDeviceInfo /\ B.devices[i + 1] \in InternalDeviceInfo
      BY <1>2, <1>3
    <2> HIDE DEF D
    <2>2. Copied(Copied(B.devices[i], B.devices[i + 1], call.copied),
                 B.devices[i + 1], {part})
            = Copied(B.devices[i], B.devices[i + 1], call.copied \cup {part})
      BY <2>1 DEF Copied, InternalDeviceInfo
    <2> QED BY <1>4, <2>2
  <1>6. registry' = [devices |-> [D EXCEPT ![i] = Copied(D[i], D[i + 1], {part})],
                     deviceCount |-> B.deviceCount]
    <2> HIDE DEF D
    <2> QED BY <1>3 DEF CopyPart
  <1>7. [D EXCEPT ![i] = Copied(B.devices[i], B.devices[i + 1], call.copied \cup {part})] = E
    <2>1. D = [j \in Slots |-> D[j]] /\ E = [j \in Slots |-> E[j]]
      BY DEF ShiftedDevices
    <2>2. E[i] = Copied(B.devices[i], B.devices[i + 1], call.copied \cup {part})
      BY <1>2, <1>3 DEF ShiftedDevices
    <2>3. \A j \in Slots : j # i => E[j] = D[j]
      BY DEF ShiftedDevices
    <2> HIDE DEF D, E
    <2> QED BY <1>3, <2>1, <2>2, <2>3
  <1>8. /\ call'.at = "shift" /\ call'.i = i /\ call'.copied = call.copied \cup {part}
        /\ call'.before = B /\ call'.leaving = call.leaving
    BY <1>1 DEF CopyPart, Shifting, StepsInv
  <1>9. Settled' = B
    BY <1>8 DEF Settled, InCall, Idle
  <1> HIDE DEF D, E
  <1>10. Shifting'
    <2>1. Leaver' = Leaver
      BY <1>8 DEF Leaver
    <2>2. registry' = [devices |-> E, deviceCount |-> B.deviceCount]
      BY <1>5, <1>6, <1>7
    <2>3. i # B.deviceCount
      BY <1>2, <1>3
    <2> QED BY <1>1, <1>8, <2>1, <2>2, <2>3 DEF Shifting, E
  <1> QED BY <1>1, <1>9, <1>10 DEF StepsInv, InBetween

\* What holds throughout the shift and the memset.
LEMMA RemovalFacts ==
    ASSUME SettledOk(call.before), Leaver # 0
    PROVE  /\ call.before.deviceCount \in Nat
           /\ call.before.devices \in [Slots -> InternalDeviceInfo]
           /\ 1 .. call.before.deviceCount \subseteq Slots
           /\ Leaver \in 1 .. call.before.deviceCount
           /\ call.before.devices[Leaver].info.deviceId = call.leaving
  BY SettledFacts, FindDeviceIndex DEF Leaver, SettledOk

\* On to the next slot.
LEMMA NextShiftInv ==
    ASSUME StepsInv, NextShift
    PROVE  StepsInv'
  <1> DEFINE B == call.before
             i == call.i
             D == ShiftedDevices(B, Leaver, i, Parts)
             E == ShiftedDevices(B, Leaver, i + 1, {})
  <1>1. Shifting /\ SettledOk(B)
    BY WhereItIs DEF NextShift, InCall, Idle
  <1>2. /\ B.deviceCount \in Nat
        /\ B.devices \in [Slots -> InternalDeviceInfo]
        /\ 1 .. B.deviceCount \subseteq Slots
        /\ Leaver \in 1 .. B.deviceCount
    BY <1>1, RemovalFacts DEF Shifting
  <1>3. call.copied = Parts /\ call.copied # {}
    BY DEF NextShift, Parts
  <1>4. /\ registry = [devices |-> D, deviceCount |-> B.deviceCount]
        /\ i \in Leaver .. B.deviceCount - 1
        /\ i \in Slots /\ i + 1 \in Slots
        /\ i + 1 \in Leaver .. B.deviceCount
    BY <1>1, <1>2, <1>3 DEF Shifting
  <1>5. D = E
    <2>1. D = [j \in Slots |-> D[j]] /\ E = [j \in Slots |-> E[j]]
      BY DEF ShiftedDevices
    <2>2. ASSUME NEW j \in Slots PROVE D[j] = E[j]
      <3>1. CASE j = i
        <4>1. D[j] = Copied(B.devices[i], B.devices[i + 1], Parts)
          BY <1>2, <1>4, <3>1 DEF ShiftedDevices
        <4>2. E[j] = B.devices[i + 1]
          BY <1>2, <1>4, <3>1 DEF ShiftedDevices
        <4>3. B.devices[i] \in InternalDeviceInfo /\ B.devices[i + 1] \in InternalDeviceInfo
          BY <1>2, <1>4
        <4> QED BY <4>1, <4>2, <4>3, CopiedAll
      <3>2. CASE j = i + 1
        <4>1. D[j] = B.devices[j]
          BY <1>2, <1>4, <3>2 DEF ShiftedDevices
        <4>2. E[j] = Copied(B.devices[j], B.devices[j + 1], {})
          BY <1>2, <1>4, <3>2 DEF ShiftedDevices
        <4>3. B.devices[j] \in InternalDeviceInfo
          BY <1>2
        <4> QED BY <4>1, <4>2, <4>3, CopiedNothing
      <3>3. CASE j # i /\ j # i + 1
        BY <1>2, <1>4, <3>3 DEF ShiftedDevices, Slots
      <3> QED BY <3>1, <3>2, <3>3
    <2> HIDE DEF D, E
    <2> QED BY <2>1, <2>2
  <1>6. /\ call'.at = "shift" /\ call'.i = i + 1 /\ call'.copied = {}
        /\ call'.before = B /\ call'.leaving = call.leaving
        /\ registry' = registry
    BY <1>1 DEF NextShift, Shifting, StepsInv
  <1>7. Settled' = B
    BY <1>6 DEF Settled, InCall, Idle
  <1> HIDE DEF D, E
  <1>8. Shifting'
    <2>1. Leaver' = Leaver
      BY <1>6 DEF Leaver
    <2> QED BY <1>1, <1>4, <1>5, <1>6, <2>1 DEF Shifting, E
  <1> QED BY <1>1, <1>7, <1>8 DEF StepsInv, InBetween

\* The count goes down.
LEMMA EndShiftInv ==
    ASSUME StepsInv, EndShift
    PROVE  StepsInv'
  <1> DEFINE B == call.before
             n == B.deviceCount
             D == ShiftedDevices(B, Leaver, n, {})
             E == ClosedUp(B, Leaver)
  <1>1. Shifting /\ SettledOk(B)
    BY WhereItIs DEF EndShift, InCall, Idle
  <1>2. /\ n \in Nat
        /\ B.devices \in [Slots -> InternalDeviceInfo]
        /\ 1 .. n \subseteq Slots
        /\ Leaver \in 1 .. n
    BY <1>1, RemovalFacts DEF Shifting
  <1>3. call.i = n /\ call.copied = {}
    BY <1>1, <1>2 DEF Shifting, EndShift, ShiftGoesOn
  <1>4. registry = [devices |-> D, deviceCount |-> n]
    BY <1>1, <1>3 DEF Shifting
  <1>5. D = E
    <2>1. D = [j \in Slots |-> D[j]] /\ E = [j \in Slots |-> E[j]]
      BY DEF ShiftedDevices, ClosedUp
    <2>2. ASSUME NEW j \in Slots PROVE D[j] = E[j]
      <3>1. B.devices[j] \in InternalDeviceInfo
        BY <1>2
      <3> QED BY <1>2, <3>1, CopiedNothing DEF ShiftedDevices, ClosedUp
    <2> HIDE DEF D, E
    <2> QED BY <2>1, <2>2
  <1> HIDE DEF D, E
  <1>6. /\ call'.at = "memset"
        /\ call'.before = B /\ call'.leaving = call.leaving
        /\ registry' = [devices |-> D, deviceCount |-> n - 1]
    BY <1>1, <1>4 DEF EndShift, Goes, Shifting, StepsInv
  <1>7. Settled' = B
    BY <1>6 DEF Settled, InCall, Idle
  <1>8. Zeroing'
    <2>1. Leaver' = Leaver
      BY <1>6 DEF Leaver
    <2> QED BY <1>1, <1>5, <1>6, <2>1 DEF Zeroing, Shifting, E
  <1> QED BY <1>1, <1>7, <1>8 DEF StepsInv, InBetween

\* unregisterDevice returns.
LEMMA ZeroLastInv ==
    ASSUME StepsInv, ZeroLast
    PROVE  /\ StepsInv'
           /\ \E d \in DeviceIds : Settled' = unregisterDevice(Settled, d)
  <1> DEFINE B == call.before
             n == B.deviceCount
             D == ClosedUp(B, Leaver)
  <1>1. Zeroing /\ SettledOk(B) /\ Settled = B
    BY WhereItIs DEF ZeroLast, InCall, Idle
  <1>2. n \in Nat
    BY <1>1, RemovalFacts DEF Zeroing
  <1>3. registry = [devices |-> D, deviceCount |-> n - 1]
    BY <1>1 DEF Zeroing
  <1>4. registry' = [devices |-> [D EXCEPT ![n] = ZeroSlot], deviceCount |-> n - 1]
    <2>1. n - 1 + 1 = n
      BY <1>2
    <2> HIDE DEF D, n
    <2> QED BY <1>3, <2>1 DEF ZeroLast
  <1>5. call' = NoCall /\ Settled' = registry'
    BY DEF ZeroLast, Returns, Settled, InCall, NoCall, Idle
  <1>6. registry' = unregisterDevice(B, call.leaving) /\ SettledOk(registry')
    BY <1>1, <1>4, UnregisterComesOut DEF Zeroing, Leaver
  <1>7. SettledOk(Settled)'
    BY <1>5, <1>6
  <1>8. StepsInv'
    BY <1>5, <1>7 DEF StepsInv
  <1> QED BY <1>1, <1>5, <1>6, <1>8 DEF Zeroing

\* What a slot is when all but its entities is overwritten.
LEMMA SlotTaken ==
    ASSUME NEW s \in InternalDeviceInfo, NEW x
    PROVE  [s EXCEPT !.info = x, !.registeredEntityCount = 0]
             = [info |-> x, entities |-> s.entities, registeredEntityCount |-> 0]
  <1> DEFINE t == [s EXCEPT !.info = x]
  <1>1. t = [info |-> x, entities |-> s.entities,
             registeredEntityCount |-> s.registeredEntityCount]
    BY DEF InternalDeviceInfo
  <1>2. [s EXCEPT !.info = x, !.registeredEntityCount = 0]
          = [t EXCEPT !.registeredEntityCount = 0]
    OBVIOUS
  <1> HIDE DEF t
  <1> QED BY <1>1, <1>2

\* registerDevice begins.
LEMMA BeginRegisterInv ==
    ASSUME StepsInv, NEW d \in DeviceIds, BeginRegister(d)
    PROVE  StepsInv'
  <1> DEFINE new == registry.deviceCount + 1
             slot == NewSlot(registry, d)
  <1>1. call = NoCall /\ SettledOk(registry)
    BY WhereItIs DEF BeginRegister
  <1>2. /\ registry.deviceCount \in Nat
        /\ MaxDevices \in Nat
        /\ registry.devices \in [Slots -> InternalDeviceInfo]
        /\ registry = [devices |-> registry.devices, deviceCount |-> registry.deviceCount]
        /\ registry \in Registry
    BY <1>1, SettledFacts
  <1>3. new \in Slots /\ registry.deviceCount < MaxDevices
    BY <1>2 DEF BeginRegister, Slots
  <1>4. /\ call'.at = "publish" /\ call'.before = registry /\ call'.leaving = 0
    BY DEF BeginRegister, NoCall
  <1>5. registry' = [devices |-> [registry.devices EXCEPT ![new] = slot],
                     deviceCount |-> registry.deviceCount]
    <2> DEFINE old == registry.devices[new]
               info == [deviceId |-> d, lastSeen |-> 0,
                        entityCount |-> 0, entities |-> new]
               whole == [old EXCEPT !.info = info, !.registeredEntityCount = 0]
    <2>1. registry' = [registry EXCEPT !.devices[new].info = info,
                                       !.devices[new].registeredEntityCount = 0]
      BY DEF BeginRegister
    <2>2. old \in InternalDeviceInfo
      BY <1>2, <1>3
    <2>3. whole = slot
      <3>1. slot = [info |-> info, entities |-> old.entities, registeredEntityCount |-> 0]
        BY DEF NewSlot
      <3> HIDE DEF slot, info, old
      <3> QED BY <2>2, <3>1, SlotTaken
    <2>4. registry' = [registry EXCEPT !.devices[new] = whole]
      <3> HIDE DEF info
      <3> QED BY <1>2, <1>3, <2>1 DEF Registry, InternalDeviceInfo
    <2>5. [registry EXCEPT !.devices[new] = slot]
            = [devices |-> [registry.devices EXCEPT ![new] = slot],
               deviceCount |-> registry.deviceCount]
      <3> HIDE DEF slot
      <3> QED BY <1>2, <1>3 DEF Registry
    <2> HIDE DEF whole, slot
    <2> QED BY <2>3, <2>4, <2>5
  <1>6. Settled' = registry
    BY <1>4 DEF Settled, InCall, Idle
  <1>7. ~ hasDevice(registry, d)
    BY DEF BeginRegister
  <1>8. Publishing'
    BY <1>3, <1>4, <1>5, <1>7 DEF Publishing
  <1> QED BY <1>1, <1>6, <1>8 DEF StepsInv, InBetween

\* registerDevice returns.
LEMMA CountDeviceInv ==
    ASSUME StepsInv, CountDevice
    PROVE  /\ StepsInv'
           /\ \E d \in DeviceIds : Settled' = registerDevice(Settled, d, 0)
  <1> DEFINE B == call.before
             n == B.deviceCount
  <1>1. Publishing /\ SettledOk(B) /\ Settled = B
    BY WhereItIs DEF CountDevice, InCall, Idle
  <1>2. PICK d \in DeviceIds :
          /\ ~ hasDevice(B, d)
          /\ registry = [devices |-> [B.devices EXCEPT ![n + 1] = NewSlot(B, d)],
                         deviceCount |-> n]
    BY <1>1 DEF Publishing
  <1>3. registry' = [devices |-> [B.devices EXCEPT ![n + 1] = NewSlot(B, d)],
                     deviceCount |-> n + 1]
    BY <1>2 DEF CountDevice
  <1>4. call' = NoCall /\ Settled' = registry'
    BY DEF CountDevice, Returns, Settled, InCall, NoCall, Idle
  <1>5. n < MaxDevices
    BY <1>1 DEF Publishing
  <1>6. registry' = registerDevice(B, d, 0) /\ SettledOk(registry')
    BY <1>1, <1>2, <1>3, <1>5, RegisterComesOut
  <1>7. SettledOk(Settled)'
    BY <1>4, <1>6
  <1>8. StepsInv'
    BY <1>4, <1>7 DEF StepsInv
  <1> QED BY <1>1, <1>4, <1>6, <1>8

\* registerEntity begins.
LEMMA BeginRegisterEntityInv ==
    ASSUME StepsInv, NEW entity \in Announcements, BeginRegisterEntity(entity)
    PROVE  StepsInv'
  <1> DEFINE idx == findDeviceIndex(registry, entity.deviceId)
             old == registry.devices[idx]
             count == old.registeredEntityCount
             slot == WithEntity(old, entity, count + 0)
  <1>1. call = NoCall /\ SettledOk(registry)
    BY WhereItIs DEF BeginRegisterEntity
  <1>2. /\ registry.deviceCount \in Nat
        /\ registry.devices \in [Slots -> InternalDeviceInfo]
        /\ registry \in Registry
        /\ 1 .. registry.deviceCount \subseteq Slots
    BY <1>1, SettledFacts
  <1>3. /\ idx \in 1 .. registry.deviceCount
        /\ idx \in Slots
        /\ old \in InternalDeviceInfo
        /\ count \in Nat
    BY <1>1, <1>2, FindDeviceIndex, SettledFacts DEF BeginRegisterEntity, hasDevice, SettledOk
  <1>4. /\ call'.at = "countEntity" /\ call'.before = registry
        /\ call'.leaving = 0 /\ call'.i = idx
    BY DEF BeginRegisterEntity, NoCall
  <1>5. registry' = [devices |-> [registry.devices EXCEPT ![idx] = slot],
                     deviceCount |-> registry.deviceCount]
    <2>1. registry' = [registry EXCEPT !.devices[idx].entities[count + 1] = entity]
      BY DEF BeginRegisterEntity
    <2>2. [old EXCEPT !.entities[count + 1] = entity] = slot
      <3> DEFINE filled == [old.entities EXCEPT ![count + 1] = entity]
      <3>1. [old EXCEPT !.entities[count + 1] = entity] = [old EXCEPT !.entities = filled]
        BY <1>3 DEF InternalDeviceInfo
      <3>2. slot = [old EXCEPT !.entities = filled, !.registeredEntityCount = count]
        <4>1. count + 0 = count
          BY <1>3
        <4> QED BY <4>1 DEF WithEntity
      <3> HIDE DEF slot, filled
      <3>3. [old EXCEPT !.entities = filled, !.registeredEntityCount = count]
              = [old EXCEPT !.entities = filled]
        BY <1>3 DEF InternalDeviceInfo
      <3> QED BY <3>1, <3>2, <3>3
    <2>3. registry' = [registry EXCEPT !.devices[idx] =
                         [old EXCEPT !.entities[count + 1] = entity]]
      BY <1>2, <1>3, <2>1 DEF Registry, InternalDeviceInfo
    <2>4. [registry EXCEPT !.devices[idx] = slot]
            = [devices |-> [registry.devices EXCEPT ![idx] = slot],
               deviceCount |-> registry.deviceCount]
      <3> HIDE DEF slot
      <3> QED BY <1>2, <1>3 DEF Registry
    <2> QED BY <2>2, <2>3, <2>4
  <1>6. Settled' = registry
    BY <1>4 DEF Settled, InCall, Idle
  <1>7. ~ storesEntity(registry, idx, entity.entityId) /\ count < MaxEntities
    BY DEF BeginRegisterEntity
  <1> HIDE DEF slot
  <1>8. Adding(entity, 0)'
    BY <1>3, <1>4, <1>5, <1>7 DEF Adding, slot
  <1>9. CountingEntity'
    BY <1>4, <1>8 DEF CountingEntity
  <1> QED BY <1>1, <1>6, <1>9 DEF StepsInv, InBetween

\* The entity counts in its slot.
LEMMA CountEntityInv ==
    ASSUME StepsInv, CountEntity
    PROVE  StepsInv'
  <1> DEFINE B == call.before
             i == call.i
             old == B.devices[i]
             count == old.registeredEntityCount
  <1>1. CountingEntity /\ SettledOk(B)
    BY WhereItIs DEF CountEntity, InCall, Idle
  <1>2. PICK entity \in Announcements : Adding(entity, 0)
    BY <1>1 DEF CountingEntity
  <1>3. /\ B.devices \in [Slots -> InternalDeviceInfo]
        /\ i \in Slots
        /\ old \in InternalDeviceInfo
        /\ count \in Nat
    BY <1>1, <1>2, FindDeviceIndex, SettledFacts DEF Adding, SettledOk
  <1> DEFINE slot == WithEntity(old, entity, count)
             next == WithEntity(old, entity, count + 1)
  <1>4. registry = [devices |-> [B.devices EXCEPT ![i] = slot], deviceCount |-> B.deviceCount]
    <2>1. count + 0 = count
      BY <1>3
    <2> QED BY <1>2, <2>1 DEF Adding
  <1>5. /\ slot.registeredEntityCount = count
        /\ [slot EXCEPT !.registeredEntityCount = count + 1] = next
    BY <1>3 DEF WithEntity, InternalDeviceInfo
  <1>6. registry' = [devices |-> [B.devices EXCEPT ![i] = next], deviceCount |-> B.deviceCount]
    <2> HIDE DEF slot, next
    <2>1. registry' = [registry EXCEPT !.devices[i].registeredEntityCount = @ + 1]
      BY DEF CountEntity
    <2>2. registry' = [devices |-> [B.devices EXCEPT ![i] =
                                      [slot EXCEPT !.registeredEntityCount = count + 1]],
                       deviceCount |-> B.deviceCount]
      BY <1>3, <1>4, <1>5, <2>1
    <2> QED BY <1>5, <2>2
  <1>7. /\ call'.at = "countInfo" /\ call'.before = B
        /\ call'.leaving = call.leaving /\ call'.i = i
    BY <1>1 DEF CountEntity, Goes, CountingEntity, StepsInv
  <1>8. Settled' = B
    BY <1>7 DEF Settled, InCall, Idle
  <1> HIDE DEF next
  <1>9. Adding(entity, 1)'
    BY <1>2, <1>6, <1>7 DEF Adding, next
  <1>10. CountingInfo'
    BY <1>7, <1>9 DEF CountingInfo
  <1> QED BY <1>1, <1>8, <1>10 DEF StepsInv, InBetween

\* registerEntity returns.
LEMMA CountInfoInv ==
    ASSUME StepsInv, CountInfo
    PROVE  /\ StepsInv'
           /\ \E entity \in Announcements :
                Settled' = registerEntity(Settled, entity.deviceId, entity)
  <1> DEFINE B == call.before
             i == call.i
             old == B.devices[i]
             count == old.registeredEntityCount
  <1>1. CountingInfo /\ SettledOk(B) /\ Settled = B
    BY WhereItIs DEF CountInfo, InCall, Idle
  <1>2. PICK entity \in Announcements : Adding(entity, 1)
    BY <1>1 DEF CountingInfo
  <1>3. /\ B.devices \in [Slots -> InternalDeviceInfo]
        /\ i \in Slots
        /\ old \in InternalDeviceInfo
    BY <1>1, <1>2, FindDeviceIndex, SettledFacts DEF Adding, SettledOk
  <1> DEFINE slot == WithEntity(old, entity, count + 1)
             next == [slot EXCEPT !.info = [@ EXCEPT !.entityCount = count + 1]]
  <1>4. registry = [devices |-> [B.devices EXCEPT ![i] = slot], deviceCount |-> B.deviceCount]
    BY <1>2 DEF Adding
  <1>5. slot.registeredEntityCount = count + 1
    BY <1>3 DEF WithEntity, InternalDeviceInfo
  <1>6. registry' = [devices |-> [B.devices EXCEPT ![i] = next], deviceCount |-> B.deviceCount]
    <2> HIDE DEF slot
    <2>1. registry.devices[i] = slot
      BY <1>3, <1>4
    <2>2. registry' = [registry EXCEPT !.devices[i].info.entityCount = count + 1]
      BY <1>5, <2>1 DEF CountInfo
    <2> QED BY <1>3, <1>4, <2>2
  <1>7. call' = NoCall /\ Settled' = registry'
    BY DEF CountInfo, Returns, Settled, InCall, NoCall, Idle
  <1> HIDE DEF next
  <1>8. registry' = registerEntity(B, entity.deviceId, entity) /\ SettledOk(registry')
    BY <1>1, <1>2, <1>6, RegisterEntityComesOut DEF Adding, next
  <1>9. SettledOk(Settled)'
    BY <1>7, <1>8
  <1>10. StepsInv'
    BY <1>7, <1>9 DEF StepsInv
  <1> QED BY <1>1, <1>7, <1>8, <1>10

\* Every step of the loop task preserves the invariant.
LEMMA StepsInvNext == StepsInv /\ [StepsNext]_stepVars => StepsInv'
  <1> SUFFICES ASSUME StepsInv, [StepsNext]_stepVars
               PROVE  StepsInv'
    OBVIOUS
  <1>1. ASSUME NEW d \in DeviceIds, BeginUnregister(d) PROVE StepsInv'
    BY <1>1, BeginUnregisterInv
  <1>2. ASSUME NEW d \in DeviceIds, BeginRegister(d) PROVE StepsInv'
    BY <1>2, BeginRegisterInv
  <1>3. ASSUME NEW entity \in Announcements, BeginRegisterEntity(entity) PROVE StepsInv'
    BY <1>3, BeginRegisterEntityInv
  <1>4. ASSUME NEW part \in Parts, CopyPart(part) PROVE StepsInv'
    BY <1>4, CopyPartInv
  <1>5. CASE NextShift
    BY <1>5, NextShiftInv
  <1>6. CASE EndShift
    BY <1>6, EndShiftInv
  <1>7. CASE ZeroLast
    BY <1>7, ZeroLastInv
  <1>8. CASE CountDevice
    BY <1>8, CountDeviceInv
  <1>9. CASE CountEntity
    BY <1>9, CountEntityInv
  <1>10. CASE CountInfo
    BY <1>10, CountInfoInv
  <1>11. CASE UNCHANGED stepVars
    <2>1. registry' = registry /\ call' = call
      BY <1>11 DEF stepVars
    <2>2. Settled' = Settled
      BY <2>1 DEF Settled, InCall
    <2>3. InBetween' = InBetween
      BY <2>1 DEF InBetween, Shifting, Zeroing, Publishing, CountingEntity, CountingInfo,
                  Adding, Leaver
    <2> QED BY <2>1, <2>2, <2>3 DEF StepsInv
  <1> QED BY <1>1, <1>2, <1>3, <1>4, <1>5, <1>6, <1>7, <1>8, <1>9, <1>10, <1>11
          DEF StepsNext, BeginCall, Continue

-----------------------------------------------------------------------------
(* What a reader finds in between. *)

\* What a slot that is read has of a slot that was there.
Keeps(is, was) ==
    /\ is.info.deviceId = was.info.deviceId
    /\ is.registeredEntityCount >= was.registeredEntityCount
    /\ \A k \in 1 .. was.registeredEntityCount : is.entities[k] = was.entities[k]

\* During the shift, each slot but the torn one holds what it held or what was
\* one slot higher.
LEMMA SlotsInShift ==
    ASSUME StepsInv, InCall("shift")
    PROVE  /\ registry.deviceCount = call.before.deviceCount
           /\ \A i \in 1 .. registry.deviceCount :
                IF i \in Leaver .. call.i - 1
                THEN /\ i + 1 \in 1 .. call.before.deviceCount
                     /\ i # Torn
                     /\ registry.devices[i] = call.before.devices[i + 1]
                ELSE i # call.i => /\ i # Torn
                                   /\ registry.devices[i] = call.before.devices[i]
           /\ call.i # Torn =>
                \/ registry.devices[call.i] = call.before.devices[call.i]
                \/ /\ call.i + 1 \in 1 .. call.before.deviceCount
                   /\ registry.devices[call.i] = call.before.devices[call.i + 1]
  <1> DEFINE B == call.before
             D == ShiftedDevices(B, Leaver, call.i, call.copied)
  <1>1. Shifting /\ SettledOk(B)
    BY WhereItIs DEF InCall, Idle
  <1>2. /\ B.deviceCount \in Nat
        /\ B.devices \in [Slots -> InternalDeviceInfo]
        /\ 1 .. B.deviceCount \subseteq Slots
        /\ Leaver \in 1 .. B.deviceCount
    BY <1>1, RemovalFacts DEF Shifting
  <1>3. /\ registry = [devices |-> D, deviceCount |-> B.deviceCount]
        /\ call.i \in Leaver .. B.deviceCount
        /\ call.copied \subseteq Parts
        /\ call.i = B.deviceCount => call.copied = {}
    BY <1>1 DEF Shifting
  <1>4. Torn \in {0, call.i}
    BY DEF Torn
  <1>5. ASSUME NEW i \in 1 .. B.deviceCount
        PROVE  IF i \in Leaver .. call.i - 1
               THEN /\ i + 1 \in 1 .. B.deviceCount
                    /\ i # Torn
                    /\ D[i] = B.devices[i + 1]
               ELSE i # call.i => i # Torn /\ D[i] = B.devices[i]
    BY <1>2, <1>3, <1>4 DEF ShiftedDevices
  <1>6. ASSUME call.i # Torn
        PROVE  \/ D[call.i] = B.devices[call.i]
               \/ /\ call.i + 1 \in 1 .. B.deviceCount
                  /\ D[call.i] = B.devices[call.i + 1]
    <2>1. D[call.i] = Copied(B.devices[call.i], B.devices[call.i + 1], call.copied)
      BY <1>2, <1>3 DEF ShiftedDevices
    <2>2. B.devices[call.i] \in InternalDeviceInfo
      BY <1>2, <1>3
    <2>3. CASE call.i = B.deviceCount
      BY <1>3, <2>1, <2>2, <2>3, CopiedNothing
    <2>4. CASE call.i # B.deviceCount
      <3>1. call.copied = {} \/ call.copied = Parts
        BY <1>2, <1>3, <1>6, <2>4 DEF Torn, ShiftGoesOn, InCall
      <3>2. call.i + 1 \in 1 .. B.deviceCount /\ B.devices[call.i + 1] \in InternalDeviceInfo
        BY <1>2, <1>3, <2>4
      <3> QED BY <2>1, <2>2, <3>1, <3>2, CopiedNothing, CopiedAll
    <2> QED BY <2>3, <2>4
  <1> HIDE DEF D
  <1> QED BY <1>3, <1>5, <1>6

\* Before the memset, the slots are closed up.
LEMMA SlotsBeforeMemset ==
    ASSUME StepsInv, InCall("memset")
    PROVE  /\ registry.deviceCount = call.before.deviceCount - 1
           /\ \A i \in 1 .. registry.deviceCount :
                registry.devices[i] = IF i >= Leaver THEN call.before.devices[i + 1]
                                                     ELSE call.before.devices[i]
  <1> DEFINE B == call.before
             D == ClosedUp(B, Leaver)
  <1>1. Zeroing /\ SettledOk(B)
    BY WhereItIs DEF InCall, Idle
  <1>2. /\ B.deviceCount \in Nat
        /\ 1 .. B.deviceCount \subseteq Slots
        /\ Leaver \in 1 .. B.deviceCount
    BY <1>1, RemovalFacts DEF Zeroing
  <1>3. registry = [devices |-> D, deviceCount |-> B.deviceCount - 1]
    BY <1>1 DEF Zeroing
  <1>4. ASSUME NEW i \in 1 .. B.deviceCount - 1
        PROVE  D[i] = IF i >= Leaver THEN B.devices[i + 1] ELSE B.devices[i]
    BY <1>2 DEF ClosedUp
  <1> HIDE DEF D
  <1> QED BY <1>3, <1>4

\* A slot keeps what it has when an entity is added behind.
LEMMA WithEntityKeeps ==
    ASSUME NEW slot \in InternalDeviceInfo, SlotReadable(slot),
           slot.registeredEntityCount < MaxEntities,
           NEW entity \in Announcements, entity.deviceId = slot.info.deviceId,
           NEW more \in 0 .. 1
    PROVE  LET is == WithEntity(slot, entity, slot.registeredEntityCount + more)
           IN  Keeps(is, slot) /\ SlotReadable(is)
  <1> DEFINE count == slot.registeredEntityCount
             is == WithEntity(slot, entity, count + more)
  <1>1. /\ count \in Nat
        /\ MaxEntities \in Nat
        /\ slot.entities \in [EntitySlots -> EntityInfo \cup {ZeroEntity}]
        /\ 1 .. count + 1 \subseteq EntitySlots
    BY MaxEntitiesAssumption DEF InternalDeviceInfo, EntitySlots
  <1>2. /\ is.info = slot.info
        /\ is.registeredEntityCount = count + more
        /\ is.entities = [slot.entities EXCEPT ![count + 1] = entity]
    BY DEF WithEntity, InternalDeviceInfo
  <1>3. \A k \in 1 .. count + 1 :
          is.entities[k] = IF k = count + 1 THEN entity ELSE slot.entities[k]
    <2> HIDE DEF is, count
    <2> QED BY <1>1, <1>2
  <1> HIDE DEF is
  <1>4. Keeps(is, slot)
    BY <1>1, <1>2, <1>3 DEF Keeps
  <1>5. SlotReadable(is)
    BY <1>1, <1>2, <1>3 DEF SlotReadable
  <1> QED BY <1>4, <1>5 DEF is

\* registerDevice and registerEntity leave every slot in place and add behind.
LEMMA SlotsWhileAdding ==
    ASSUME StepsInv, InCall("publish") \/ InCall("countEntity") \/ InCall("countInfo")
    PROVE  /\ registry.deviceCount = call.before.deviceCount
           /\ \A i \in 1 .. registry.deviceCount :
                /\ Keeps(registry.devices[i], call.before.devices[i])
                /\ SlotReadable(registry.devices[i])
  <1> DEFINE B == call.before
             n == B.deviceCount
  <1>1. SettledOk(B) /\ Settled = B
    BY WhereItIs DEF InCall, Idle
  <1>2. /\ n \in Nat
        /\ B.devices \in [Slots -> InternalDeviceInfo]
        /\ 1 .. n \subseteq Slots
        /\ MaxDevices \in Nat
        /\ \A i \in 1 .. n : /\ B.devices[i] \in InternalDeviceInfo
                             /\ B.devices[i].registeredEntityCount \in Nat
                             /\ SlotReadable(B.devices[i])
    BY <1>1, SettledFacts
  <1>3. \A i \in 1 .. n : Keeps(B.devices[i], B.devices[i]) /\ SlotReadable(B.devices[i])
    BY <1>2 DEF Keeps
  <1>4. CASE InCall("publish")
    <2>1. Publishing
      BY <1>4, WhereItIs
    <2>2. PICK slot : registry = [devices |-> [B.devices EXCEPT ![n + 1] = slot],
                                  deviceCount |-> n]
      BY <2>1 DEF Publishing
    <2>3. \A i \in 1 .. n : registry.devices[i] = B.devices[i]
      BY <1>2, <2>2
    <2> QED BY <1>3, <2>2, <2>3
  <1>5. ASSUME NEW entity \in Announcements, NEW more \in 0 .. 1, Adding(entity, more)
        PROVE  /\ registry.deviceCount = n
               /\ \A i \in 1 .. n :
                    Keeps(registry.devices[i], B.devices[i]) /\ SlotReadable(registry.devices[i])
    <2> DEFINE old == B.devices[call.i]
               slot == WithEntity(old, entity, old.registeredEntityCount + more)
    <2>1. /\ call.i \in 1 .. n
          /\ old.info.deviceId = entity.deviceId
          /\ old.registeredEntityCount < MaxEntities
      BY <1>1, <1>2, <1>5, FindDeviceIndex DEF Adding, SettledOk
    <2>2. registry = [devices |-> [B.devices EXCEPT ![call.i] = slot], deviceCount |-> n]
      BY <1>5 DEF Adding
    <2>3. Keeps(slot, old) /\ SlotReadable(slot)
      BY <1>2, <2>1, WithEntityKeeps
    <2> HIDE DEF slot, old
    <2>4. \A i \in 1 .. n : registry.devices[i] = IF i = call.i THEN slot ELSE B.devices[i]
      BY <1>2, <2>1, <2>2
    <2> QED BY <1>3, <2>2, <2>3, <2>4 DEF old
  <1>6. CASE InCall("countEntity")
    <2>1. CountingEntity
      BY <1>6, WhereItIs
    <2> QED BY <1>5, <2>1 DEF CountingEntity
  <1>7. CASE InCall("countInfo")
    <2>1. CountingInfo
      BY <1>7, WhereItIs
    <2> QED BY <1>5, <2>1 DEF CountingInfo
  <1> QED BY <1>4, <1>6, <1>7

\* The invariant gives every reader whole slots.
LEMMA StepsInvReaders == StepsInv => ReadersFindWholeSlots
  <1> SUFFICES ASSUME StepsInv, NEW i \in 1 .. registry.deviceCount, i # Torn
               PROVE  SlotReadable(registry.devices[i])
    BY DEF ReadersFindWholeSlots
  <1>1. CASE InCall(Idle)
    BY <1>1, WhereItIs, SettledFacts
  <1>2. ASSUME ~ InCall(Idle)
        PROVE  /\ call.before.deviceCount \in Nat
               /\ \A j \in 1 .. call.before.deviceCount : SlotReadable(call.before.devices[j])
    BY <1>2, WhereItIs, SettledFacts
  <1>3. CASE InCall("shift")
    <2>1. ~ InCall(Idle)
      BY <1>3 DEF InCall, Idle
    <2> QED BY <1>2, <1>3, <2>1, SlotsInShift
  <1>4. CASE InCall("memset")
    <2>1. ~ InCall(Idle)
      BY <1>4 DEF InCall, Idle
    <2>2. /\ registry.deviceCount = call.before.deviceCount - 1
          /\ registry.devices[i] = call.before.devices[i + 1]
               \/ registry.devices[i] = call.before.devices[i]
      BY <1>4, SlotsBeforeMemset
    <2> QED BY <1>2, <2>1, <2>2
  <1>5. CASE InCall("publish") \/ InCall("countEntity") \/ InCall("countInfo")
    BY <1>5, SlotsWhileAdding
  <1> QED BY <1>1, <1>3, <1>4, <1>5, WhereItIs DEF InCall

\* The invariant keeps every device but the one that leaves in some whole slot.
LEMMA StepsInvNobodyVanishes == StepsInv => NobodyVanishes
  <1> DEFINE Seen(was) == \E i \in (1 .. registry.deviceCount) \ {Torn} :
                            Keeps(registry.devices[i], was)
  <1> SUFFICES ASSUME StepsInv, NEW j \in 1 .. Settled.deviceCount,
                      Settled.devices[j].info.deviceId # call.leaving
               PROVE  Seen(Settled.devices[j])
    BY DEF NobodyVanishes, Keeps
  <1>1. /\ Settled.deviceCount \in Nat
        /\ \A i \in 1 .. Settled.deviceCount :
             Keeps(Settled.devices[i], Settled.devices[i])
    BY SettledFacts DEF StepsInv, Keeps
  <1>2. ASSUME ~ InCall("shift") PROVE Torn = 0
    BY <1>2 DEF Torn
  <1>3. CASE InCall(Idle)
    <2>1. Settled = registry /\ Torn = 0
      BY <1>2, <1>3, WhereItIs DEF InCall, Idle
    <2> QED BY <1>1, <2>1
  <1>4. CASE InCall("shift")
    <2>1. /\ Settled = call.before /\ Shifting
          /\ SettledOk(call.before)
      BY <1>4, WhereItIs DEF InCall, Idle
    <2>2. /\ Leaver \in 1 .. Settled.deviceCount
          /\ j # Leaver
          /\ call.i \in Leaver .. Settled.deviceCount
      BY <2>1, RemovalFacts DEF Shifting
    <2>3. registry.deviceCount = Settled.deviceCount
      BY <1>4, <2>1, SlotsInShift
    <2>4. CASE j \in Leaver .. call.i
      <3>1. j - 1 \in Leaver .. call.i - 1 /\ j - 1 \in 1 .. registry.deviceCount
        BY <1>1, <2>2, <2>3, <2>4
      <3>2. j - 1 # Torn /\ registry.devices[j - 1] = Settled.devices[j - 1 + 1]
        BY <1>4, <2>1, <3>1, SlotsInShift
      <3>3. j - 1 + 1 = j
        BY <2>2, <2>4
      <3> QED BY <1>1, <3>1, <3>2, <3>3
    <2>5. CASE j \notin Leaver .. call.i
      <3>1. j \notin Leaver .. call.i - 1 /\ j # call.i /\ j \in 1 .. registry.deviceCount
        BY <1>1, <2>2, <2>3, <2>5
      <3>2. j # Torn /\ registry.devices[j] = Settled.devices[j]
        BY <1>4, <2>1, <3>1, SlotsInShift
      <3> QED BY <1>1, <3>1, <3>2
    <2> QED BY <2>4, <2>5
  <1>5. CASE InCall("memset")
    <2>1. /\ Settled = call.before /\ Zeroing
          /\ SettledOk(call.before)
          /\ Torn = 0
      BY <1>2, <1>5, WhereItIs DEF InCall, Idle
    <2>2. Leaver \in 1 .. Settled.deviceCount /\ j # Leaver
      BY <2>1, RemovalFacts DEF Zeroing
    <2>3. registry.deviceCount = Settled.deviceCount - 1
      BY <1>5, <2>1, SlotsBeforeMemset
    <2>4. CASE j < Leaver
      <3>1. j \in 1 .. registry.deviceCount
        BY <1>1, <2>2, <2>3, <2>4
      <3>2. registry.devices[j] = Settled.devices[j]
        BY <1>1, <1>5, <2>1, <2>2, <2>4, <3>1, SlotsBeforeMemset
      <3> QED BY <1>1, <2>1, <3>1, <3>2
    <2>5. CASE j > Leaver
      <3>1. j - 1 \in 1 .. registry.deviceCount /\ j - 1 >= Leaver /\ j - 1 + 1 = j
        BY <1>1, <2>2, <2>3, <2>5
      <3>2. registry.devices[j - 1] = Settled.devices[j]
        BY <1>5, <2>1, <3>1, SlotsBeforeMemset
      <3> QED BY <1>1, <2>1, <3>1, <3>2
    <2> QED BY <1>1, <2>2, <2>4, <2>5
  <1>6. CASE InCall("publish") \/ InCall("countEntity") \/ InCall("countInfo")
    <2>1. Settled = call.before /\ Torn = 0
      BY <1>2, <1>6, WhereItIs DEF InCall, Idle
    <2> QED BY <1>1, <1>6, <2>1, SlotsWhileAdding
  <1> QED BY <1>3, <1>4, <1>5, <1>6, WhereItIs DEF InCall

-----------------------------------------------------------------------------
(* The theorems about the registry. *)

\* The invariant holds throughout (the methods of DeviceRegistry.cpp).
THEOREM StepsInvariance == StepsSpec => []StepsInv
  <1> QED BY StepsInvInit, StepsInvNext, PTL DEF StepsSpec

\* Between any two writes a reader finds whole slots.
THEOREM WholeSlots == StepsSpec => []ReadersFindWholeSlots
  <1> QED BY StepsInvariance, StepsInvReaders, PTL

\* While a device is removed, no other disappears from the table.
THEOREM OthersStay == StepsSpec => []NobodyVanishes
  <1> QED BY StepsInvariance, StepsInvNobodyVanishes, PTL

\* The operators of the specification that is implemented are the same.
LEMMA SameOperators ==
    /\ Calls!EmptyRegistry = EmptyRegistry
    /\ \A r, d : Calls!unregisterDevice(r, d) = unregisterDevice(r, d)
    /\ \A r, d : Calls!registerDevice(r, d, 0) = registerDevice(r, d, 0)
    /\ \A r, d, e : Calls!registerEntity(r, d, e) = registerEntity(r, d, e)
  <1>1. /\ Calls!Slots = Slots
        /\ Calls!EntitySlots = EntitySlots
    BY DEF Calls!Slots, Slots, Calls!EntitySlots, EntitySlots
  <1>2. Calls!ZeroSlot = ZeroSlot
    BY <1>1 DEF Calls!ZeroSlot, ZeroSlot, Calls!ZeroEntity, ZeroEntity,
                Calls!ZeroInfo, ZeroInfo, Calls!NullPointer, NullPointer
  <1>3. \A S : Calls!FirstIndex(S) = FirstIndex(S)
    BY DEF Calls!FirstIndex, FirstIndex
  <1>4. \A r, d : Calls!findDeviceIndex(r, d) = findDeviceIndex(r, d)
    BY <1>3 DEF Calls!findDeviceIndex, findDeviceIndex
  <1>5. \A r, i, e : Calls!storesEntity(r, i, e) = storesEntity(r, i, e)
    BY <1>3 DEF Calls!storesEntity, storesEntity, Calls!entityIndex, entityIndex
  <1>6. Calls!EmptyRegistry = EmptyRegistry
    BY <1>1, <1>2 DEF Calls!EmptyRegistry, EmptyRegistry
  <1>7. \A r, d : Calls!unregisterDevice(r, d) = unregisterDevice(r, d)
    BY <1>1, <1>2, <1>4 DEF Calls!unregisterDevice, unregisterDevice
  <1>8. \A r, d : Calls!registerDevice(r, d, 0) = registerDevice(r, d, 0)
    BY <1>4 DEF Calls!registerDevice, registerDevice, Calls!hasDevice, hasDevice
  <1>9. \A r, d, e : Calls!registerEntity(r, d, e) = registerEntity(r, d, e)
    <2> TAKE r, d, e
    <2> DEFINE idx == findDeviceIndex(r, d)
               Full(i) == r.devices[i].registeredEntityCount >= MaxEntities
               Stays(i) == i = 0 \/ storesEntity(r, i, e.entityId) \/ Full(i)
               Added(i) == LET count == r.devices[i].registeredEntityCount
                           IN  [r EXCEPT !.devices[i].entities[count + 1] = e,
                                         !.devices[i].registeredEntityCount = count + 1,
                                         !.devices[i].info.entityCount = count + 1]
    <2>1. \A i : Calls!storesEntity(r, i, e.entityId) <=> storesEntity(r, i, e.entityId)
      BY <1>5
    <2>2. Calls!findDeviceIndex(r, d) = idx
      BY <1>4
    <2>3. CASE Stays(idx)
      <3>1. Calls!registerEntity(r, d, e) = r
        BY <2>1, <2>2, <2>3, Zenon DEF Calls!registerEntity
      <3>2. registerEntity(r, d, e) = r
        BY <2>3, Zenon DEF registerEntity
      <3> QED BY <3>1, <3>2
    <2>4. CASE ~ Stays(idx)
      <3>1. Calls!registerEntity(r, d, e) = Added(Calls!findDeviceIndex(r, d))
        BY <2>1, <2>2, <2>4, Zenon DEF Calls!registerEntity
      <3>2. registerEntity(r, d, e) = Added(idx)
        BY <2>4, Zenon DEF registerEntity
      <3> HIDE DEF Added
      <3> QED BY <2>2, <3>1, <3>2
    <2> QED BY <2>3, <2>4
  <1> QED BY <1>6, <1>7, <1>8, <1>9

\* A method that begins or goes on leaves the registry between two calls alone.
LEMMA GoesOnStutters ==
    ASSUME StepsInv, StepsNext, ~ ZeroLast, ~ CountDevice, ~ CountInfo
    PROVE  Settled' = Settled
  <1>1. ASSUME NEW d \in DeviceIds, BeginUnregister(d) \/ BeginRegister(d)
        PROVE  Settled' = Settled
    BY <1>1 DEF BeginUnregister, BeginRegister, Settled, InCall, NoCall, Idle
  <1>2. ASSUME NEW entity \in Announcements, BeginRegisterEntity(entity)
        PROVE  Settled' = Settled
    BY <1>2 DEF BeginRegisterEntity, Settled, InCall, NoCall, Idle
  <1>3. ASSUME \/ \E part \in Parts : CopyPart(part)
               \/ NextShift \/ EndShift \/ CountEntity
        PROVE  Settled' = Settled
    <2>1. InCall("shift") \/ InCall("countEntity")
      BY <1>3 DEF CopyPart, NextShift, EndShift, CountEntity
    <2>2. InBetween /\ Settled = call.before
      BY <2>1 DEF StepsInv, InCall, NoCall, Idle, Settled
    <2>3. call'.before = call.before /\ call'.at # "idle"
      <3>1. ASSUME NEW part \in Parts, CopyPart(part)
            PROVE  call'.before = call.before /\ call'.at # "idle"
        BY <2>2, <3>1 DEF CopyPart, InCall
      <3>2. CASE NextShift
        BY <2>2, <3>2 DEF NextShift, InCall
      <3>3. CASE EndShift
        BY <2>2, <3>3 DEF EndShift, Goes
      <3>4. CASE CountEntity
        BY <2>2, <3>4 DEF CountEntity, Goes
      <3> QED BY <1>3, <3>1, <3>2, <3>3, <3>4
    <2> QED BY <2>2, <2>3 DEF Settled, InCall, Idle
  <1> QED BY <1>1, <1>2, <1>3 DEF StepsNext, BeginCall, Continue

\* Write by write, the methods do what their callers rely on.
THEOREM StepsImplementCalls == StepsSpec => ImplementsCalls
  <1>1. StepsInit => Calls!CallsInit
    BY SameOperators DEF StepsInit, Settled, InCall, NoCall, Idle, Calls!CallsInit
  <1>2. StepsInv /\ [StepsNext]_stepVars => [Calls!CallsNext]_Settled
    <2> SUFFICES ASSUME StepsInv, [StepsNext]_stepVars
                 PROVE  Calls!CallsNext \/ Settled' = Settled
      OBVIOUS
    <2>1. CASE ZeroLast
      BY <2>1, ZeroLastInv, SameOperators DEF Calls!CallsNext
    <2>2. CASE CountDevice
      BY <2>2, CountDeviceInv, SameOperators DEF Calls!CallsNext
    <2>3. CASE CountInfo
      BY <2>3, CountInfoInv, SameOperators DEF Calls!CallsNext
    <2>4. CASE UNCHANGED stepVars
      BY <2>4 DEF stepVars, Settled, InCall
    <2> QED BY <2>1, <2>2, <2>3, <2>4, GoesOnStutters
  <1> QED BY <1>1, <1>2, StepsInvariance, PTL DEF StepsSpec, ImplementsCalls, Calls!CallsSpec

-----------------------------------------------------------------------------
(* Beside the web task. *)

\* The web task and the radio leave the registry to the loop task.
THEOREM WebTaskRefinesSteps == Spec => StepsSpec
  <1>1. Init => StepsInit
    BY DEF Init
  <1>2. [Next]_vars => [StepsNext]_stepVars
    <2> SUFFICES ASSUME [Next]_vars PROVE [StepsNext]_stepVars
      OBVIOUS
    <2>1. CASE LoopCalls
      BY <2>1 DEF LoopCalls, StepsNext
    <2>2. CASE LoopSends \/ LoopUsesRadio \/ RadioEnds
      BY <2>2 DEF LoopSends, LoopUsesRadio, RadioEnds, stepVars
    <2>3. CASE Serve
      BY <2>3 DEF Serve, FindDevice, SearchEntity, Converts, WebTransmits, Succeeds,
                  Returned, stepVars
    <2>4. ASSUME NEW request \in Requests, Asks(request) PROVE UNCHANGED stepVars
      BY <2>4 DEF Asks, AnswersAtOnce, SendsRequest, LooksUp, stepVars
    <2>5. CASE UNCHANGED vars
      BY <2>5 DEF vars, stepVars
    <2> QED BY <2>1, <2>2, <2>3, <2>4, <2>5 DEF Next, Loop
  <1> QED BY <1>1, <1>2, PTL DEF Spec, StepsSpec

\* The handlers of the requests find whole slots, and every other device, while
\* the loop task is in the registry.
THEOREM WebTaskReads == Spec => [](ReadersFindWholeSlots /\ NobodyVanishes)
  <1> QED BY WebTaskRefinesSteps, WholeSlots, OthersStay, PTL

\* With the web task beside it too, every registry call comes out whole.
THEOREM WebTaskImplementsCalls == Spec => ImplementsCalls
  <1> QED BY WebTaskRefinesSteps, StepsImplementCalls, PTL

-----------------------------------------------------------------------------
(* The radio that two tasks use. *)

RadioTypeOK ==
    /\ radio = [transmitting |-> radio.transmitting, txDone |-> radio.txDone,
                fifo |-> radio.fifo]
    /\ radio.transmitting \in BOOLEAN /\ radio.txDone \in BOOLEAN

SendingFields == {"pc", "packet", "taken", "aired"}

\* Where a task s is with a packet that had the radio r to itself.
AloneOk(s, r) ==
    /\ s.pc = "write" => r.fifo = <<>> /\ ~ r.transmitting /\ ~ r.txDone
    /\ s.pc = "end" => r.fifo = <<s.packet>> /\ ~ r.transmitting /\ ~ r.txDone
    /\ s.pc = "wait" => /\ r.fifo = <<s.packet>>
                        /\ r.txDone => s.aired = <<s.packet>>
    /\ s.pc \in {"clear", "sent"} => s.aired = <<s.packet>>

SenderOk(s, r) == /\ DOMAIN s = SendingFields
                  /\ s.taken \in BOOLEAN
                  /\ ~ s.taken => AloneOk(s, r)

\* Both tasks are in order, and one of them gets out of its wait.
RadioInv == /\ RadioTypeOK
            /\ sending = [t \in Tasks |-> sending[t]]
            /\ \A t \in Tasks : SenderOk(sending[t], radio)
            /\ (\A t \in Tasks : At(t, "wait")) => radio.transmitting \/ radio.txDone

\* A task outside of its packet cares for nothing in the radio.
LEMMA SenderAside ==
    ASSUME NEW s, NEW r, DOMAIN s = SendingFields, s.taken \in BOOLEAN,
           s.pc \in {"idle", "begin", "reset", "listen", "read"}
    PROVE  SenderOk(s, r)
  BY DEF SenderOk, AloneOk

\* What the other task is left with when the radio changes.
LEMMA TakenFrom ==
    ASSUME NEW s, NEW r, NEW next, SenderOk(s, r)
    PROVE  SenderOk([s EXCEPT !.taken = @ \/ s.pc \in Owning], next)
  <1> DEFINE after == [s EXCEPT !.taken = @ \/ s.pc \in Owning]
  <1>1. DOMAIN s = SendingFields /\ s.taken \in BOOLEAN
    BY DEF SenderOk
  <1>2. /\ DOMAIN after = SendingFields
        /\ after.pc = s.pc /\ after.packet = s.packet /\ after.aired = s.aired
    BY <1>1 DEF SendingFields
  <1>3. after.taken = (s.taken \/ s.pc \in Owning)
    BY <1>1 DEF SendingFields
  <1> HIDE DEF after
  <1>4. after.taken \in BOOLEAN /\ (~ after.taken => ~ s.taken /\ s.pc \notin Owning)
    BY <1>1, <1>3
  <1>5. s.pc \in {"clear", "sent"} /\ ~ s.taken => s.aired = <<s.packet>>
    BY DEF SenderOk, AloneOk
  <1>6. SenderOk(after, next)
    BY <1>2, <1>4, <1>5 DEF SenderOk, AloneOk, Owning
  <1> QED
    BY <1>6 DEF after

\* A use of the radio that leaves its user in order leaves both so, if it does
\* not wait, or transmits.
LEMMA UsesInOrder ==
    ASSUME RadioInv, NEW t \in Tasks, NEW next, Uses(t, next), SenderOk(next, radio'),
           RadioTypeOK', next.pc = "wait" => radio'.transmitting
    PROVE  RadioInv'
  <1>1. sending' = [u \in Tasks |->
                      IF u = t THEN next
                      ELSE [sending[u] EXCEPT !.taken = @ \/ sending[u].pc \in Owning]]
    BY Zenon DEF Uses
  <1>2. ASSUME NEW u \in Tasks PROVE SenderOk(sending'[u], radio')
    <2>1. CASE u = t
      <3>1. sending'[u] = next
        BY <1>1, <2>1
      <3> QED
        BY <3>1
    <2>2. CASE u # t
      <3>1. sending'[u] = [sending[u] EXCEPT !.taken = @ \/ sending[u].pc \in Owning]
        BY <1>1, <2>2
      <3>2. SenderOk([sending[u] EXCEPT !.taken = @ \/ sending[u].pc \in Owning], radio')
        BY TakenFrom DEF RadioInv
      <3> QED
        BY <3>1, <3>2
    <2> QED
      BY <2>1, <2>2
  <1>3. sending' = [u \in Tasks |-> sending'[u]]
    BY <1>1
  <1>4. sending'[t] = next
    BY <1>1
  <1>5. (\A u \in Tasks : At(u, "wait")') => radio'.transmitting
    BY <1>4 DEF At
  <1> QED
    BY <1>2, <1>3, <1>5 DEF RadioInv

\* A step of one task that leaves the radio alone and the task in order leaves
\* both so, if it does not begin to wait.
LEMMA StepsAside ==
    ASSUME RadioInv, NEW t \in Tasks, NEW next, SenderOk(next, radio), next.pc # "wait",
           sending' = [sending EXCEPT ![t] = next], UNCHANGED radio
    PROVE  RadioInv'
  <1>1. /\ sending' = [u \in Tasks |-> sending'[u]]
        /\ \A u \in Tasks : sending'[u] = IF u = t THEN next ELSE sending[u]
    BY DEF RadioInv
  <1>2. ASSUME NEW u \in Tasks PROVE SenderOk(sending'[u], radio')
    <2>1. CASE u = t
      BY <1>1, <2>1
    <2>2. CASE u # t
      BY <1>1, <2>2 DEF RadioInv
    <2> QED
      BY <2>1, <2>2
  <1>3. ~ At(t, "wait")'
    BY <1>1 DEF At
  <1>4. RadioTypeOK'
    BY DEF RadioInv, RadioTypeOK
  <1> QED
    BY <1>1, <1>2, <1>3, <1>4 DEF RadioInv

\* A task as it stands when it goes on to another point of its call.
LEMMA Onward ==
    ASSUME NEW s, NEW pc, DOMAIN s = SendingFields
    PROVE  LET next == [s EXCEPT !.pc = pc]
           IN  /\ DOMAIN next = SendingFields /\ next.pc = pc /\ next.packet = s.packet
               /\ next.taken = s.taken /\ next.aired = s.aired
  BY DEF SendingFields

\* Each step of sendMessage leaves the packets in order.
LEMMA SendMessageInOrder ==
    ASSUME RadioInv, NEW t \in Tasks, SendMessage(t)
    PROVE  RadioInv'
  <1> DEFINE s == sending[t]
             to(pc) == [s EXCEPT !.pc = pc]
  <1>1. /\ SenderOk(s, radio) /\ DOMAIN s = SendingFields /\ s.taken \in BOOLEAN
        /\ RadioTypeOK
    BY DEF RadioInv, SenderOk
  <1>2. CASE BeginRefused(t)
    <2> DEFINE next == [s EXCEPT !.pc = "write", !.taken = TRUE]
    <2>1. sending' = [sending EXCEPT ![t] = next] /\ UNCHANGED radio
      BY <1>2 DEF BeginRefused
    <2>2. DOMAIN next = SendingFields /\ next.taken = TRUE /\ next.pc = "write"
      BY <1>1 DEF SendingFields
    <2> HIDE DEF next
    <2>3. SenderOk(next, radio)
      BY <2>2 DEF SenderOk
    <2> QED
      BY <2>1, <2>2, <2>3, StepsAside
  <1>3. CASE BeginPacket(t)
    <2>1. sending' = [sending EXCEPT ![t] = to("reset")] /\ UNCHANGED radio
      BY <1>3 DEF BeginPacket
    <2>2. DOMAIN to("reset") = SendingFields /\ to("reset").taken \in BOOLEAN
          /\ to("reset").pc = "reset"
      BY <1>1, Onward
    <2> HIDE DEF to
    <2> QED
      BY <2>1, <2>2, SenderAside, StepsAside
  <1>4. CASE ResetFifo(t)
    <2>1. /\ radio' = [transmitting |-> FALSE, txDone |-> FALSE, fifo |-> <<>>]
          /\ Uses(t, to("write"))
      BY <1>4 DEF ResetFifo, GoesTo
    <2>2. DOMAIN to("write") = SendingFields /\ to("write").taken \in BOOLEAN
          /\ to("write").pc = "write"
      BY <1>1, Onward
    <2> HIDE DEF to
    <2>3. SenderOk(to("write"), radio') /\ RadioTypeOK'
      BY <2>1, <2>2 DEF SenderOk, AloneOk, RadioTypeOK
    <2> QED
      BY <2>1, <2>2, <2>3, UsesInOrder
  <1>5. CASE WritePacket(t)
    <2>1. /\ s.pc = "write" /\ Uses(t, to("end"))
          /\ radio' = [radio EXCEPT !.fifo = IF radio.fifo = <<>> THEN <<s.packet>>
                                             ELSE <<NoPacket>>]
      BY <1>5 DEF WritePacket, GoesTo, At
    <2>2. /\ DOMAIN to("end") = SendingFields /\ to("end").taken = s.taken
          /\ to("end").pc = "end" /\ to("end").packet = s.packet
      BY <1>1, Onward
    <2> HIDE DEF s, to
    <2>3. /\ radio'.transmitting = radio.transmitting /\ radio'.txDone = radio.txDone
          /\ RadioTypeOK'
          /\ radio'.fifo = IF radio.fifo = <<>> THEN <<s.packet>> ELSE <<NoPacket>>
      BY <1>1, <2>1 DEF RadioTypeOK
    <2>4. ASSUME ~ s.taken
          PROVE  radio'.fifo = <<s.packet>> /\ ~ radio'.transmitting /\ ~ radio'.txDone
      <3>1. radio.fifo = <<>> /\ ~ radio.transmitting /\ ~ radio.txDone
        BY <1>1, <2>1, <2>4 DEF SenderOk, AloneOk
      <3> QED
        BY <2>3, <3>1
    <2>5. SenderOk(to("end"), radio')
      BY <1>1, <2>2, <2>4 DEF SenderOk, AloneOk
    <2> QED
      BY <2>1, <2>2, <2>3, <2>5, UsesInOrder
  <1>6. CASE EndPacket(t)
    <2>1. /\ s.pc = "end" /\ radio' = [radio EXCEPT !.transmitting = TRUE]
          /\ Uses(t, to("wait"))
      BY <1>6 DEF EndPacket, GoesTo, At
    <2>2. /\ DOMAIN to("wait") = SendingFields /\ to("wait").taken = s.taken
          /\ to("wait").pc = "wait" /\ to("wait").packet = s.packet
      BY <1>1, Onward
    <2> HIDE DEF s, to
    <2>3. /\ radio'.transmitting = TRUE /\ radio'.txDone = radio.txDone
          /\ radio'.fifo = radio.fifo /\ RadioTypeOK'
      BY <1>1, <2>1 DEF RadioTypeOK
    <2>4. SenderOk(to("wait"), radio')
      BY <1>1, <2>1, <2>2, <2>3 DEF SenderOk, AloneOk
    <2> QED
      BY <2>1, <2>2, <2>3, <2>4, UsesInOrder
  <1>7. CASE SeesTxDone(t)
    <2>1. /\ s.pc = "wait" /\ radio.txDone
          /\ sending' = [sending EXCEPT ![t] = to("clear")] /\ UNCHANGED radio
      BY <1>7 DEF SeesTxDone, At
    <2>2. /\ DOMAIN to("clear") = SendingFields /\ to("clear").taken = s.taken
          /\ to("clear").pc = "clear" /\ to("clear").packet = s.packet
          /\ to("clear").aired = s.aired
      BY <1>1, Onward
    <2> HIDE DEF s, to
    <2>3. SenderOk(to("clear"), radio)
      BY <1>1, <2>1, <2>2 DEF SenderOk, AloneOk
    <2> QED
      BY <2>1, <2>2, <2>3, StepsAside
  <1>8. CASE ClearsTxDone(t)
    <2>1. /\ s.pc = "clear" /\ radio' = [radio EXCEPT !.txDone = FALSE]
          /\ Uses(t, to("sent"))
      BY <1>8 DEF ClearsTxDone, GoesTo, At
    <2>2. /\ DOMAIN to("sent") = SendingFields /\ to("sent").taken = s.taken
          /\ to("sent").pc = "sent" /\ to("sent").packet = s.packet
          /\ to("sent").aired = s.aired
      BY <1>1, Onward
    <2> HIDE DEF s, to
    <2>3. RadioTypeOK'
      BY <1>1, <2>1 DEF RadioTypeOK
    <2>4. SenderOk(to("sent"), radio')
      BY <1>1, <2>1, <2>2 DEF SenderOk, AloneOk
    <2> QED
      BY <2>1, <2>2, <2>3, <2>4, UsesInOrder
  <1> QED
    BY <1>2, <1>3, <1>4, <1>5, <1>6, <1>7, <1>8 DEF SendMessage

\* A poll of the loop task leaves the packets in order: the other task's is no
\* longer alone.
LEMMA HandleInOrder ==
    ASSUME RadioInv, Handle
    PROVE  RadioInv'
  <1> DEFINE s == sending["loop"]
             to(pc) == [s EXCEPT !.pc = pc]
  <1>1. PICK pc \in {"listen", "read", "idle"} :
          /\ Uses("loop", to(pc))
          /\ \E transmitting \in {radio.transmitting, FALSE}, txDone \in {radio.txDone, FALSE} :
             \E fifo \in MayOverwrite(radio.fifo) :
               radio' = [transmitting |-> transmitting, txDone |-> txDone, fifo |-> fifo]
    <2>1. RadioTypeOK
      BY DEF RadioInv
    <2>2. CASE LoopPolls
      BY <2>1, <2>2 DEF LoopPolls, GoesTo, RadioTypeOK, MayOverwrite
    <2>3. CASE LoopListens
      BY <2>1, <2>3 DEF LoopListens, GoesTo, RadioTypeOK
    <2>4. CASE LoopReads
      BY <2>1, <2>4 DEF LoopReads, GoesTo, RadioTypeOK
    <2> QED
      BY <2>2, <2>3, <2>4 DEF Handle
  <1>2. "loop" \in Tasks
    BY DEF Tasks
  <1>3. DOMAIN s = SendingFields /\ s.taken \in BOOLEAN
    BY <1>2 DEF RadioInv, SenderOk
  <1>4. DOMAIN to(pc) = SendingFields /\ to(pc).pc = pc /\ to(pc).taken \in BOOLEAN
    BY <1>3, Onward
  <1> HIDE DEF to
  <1>5. SenderOk(to(pc), radio')
    BY <1>4, SenderAside
  <1>6. RadioTypeOK'
    <2>1. radio.transmitting \in BOOLEAN /\ radio.txDone \in BOOLEAN
      BY DEF RadioInv, RadioTypeOK
    <2>2. PICK transmitting \in {radio.transmitting, FALSE}, txDone \in {radio.txDone, FALSE} :
            \E fifo \in MayOverwrite(radio.fifo) :
              radio' = [transmitting |-> transmitting, txDone |-> txDone, fifo |-> fifo]
      BY <1>1
    <2>3. transmitting \in BOOLEAN /\ txDone \in BOOLEAN
      BY <2>1, <2>2
    <2>4. PICK fifo :
            radio' = [transmitting |-> transmitting, txDone |-> txDone, fifo |-> fifo]
      BY <2>2
    <2> QED
      BY <2>3, <2>4 DEF RadioTypeOK
  <1> QED
    BY <1>1, <1>2, <1>4, <1>5, <1>6, UsesInOrder

\* So does the end of a transmission: it is that of the packet alone, if there
\* is one.
LEMMA TransmittedInOrder ==
    ASSUME RadioInv, Transmitted
    PROVE  RadioInv'
  <1>1. /\ radio.transmitting
        /\ radio' = [radio EXCEPT !.transmitting = FALSE, !.txDone = TRUE]
        /\ sending' = [t \in Tasks |->
                         IF At(t, "wait") /\ ~ sending[t].taken
                         THEN [sending[t] EXCEPT !.aired = radio.fifo]
                         ELSE sending[t]]
    BY DEF Transmitted
  <1>2. /\ ~ radio'.transmitting /\ radio'.txDone /\ radio'.fifo = radio.fifo
        /\ RadioTypeOK'
    BY <1>1 DEF RadioInv, RadioTypeOK
  <1>3. ASSUME NEW t \in Tasks PROVE SenderOk(sending'[t], radio')
    <2> DEFINE s == sending[t]
               out == [s EXCEPT !.aired = radio.fifo]
    <2>1. SenderOk(s, radio) /\ DOMAIN s = SendingFields
      BY DEF RadioInv, SenderOk
    <2>2. /\ DOMAIN out = SendingFields /\ out.pc = s.pc /\ out.packet = s.packet
          /\ out.taken = s.taken /\ out.aired = radio.fifo
      BY <2>1 DEF SendingFields
    <2>3. sending'[t] = IF s.pc = "wait" /\ ~ s.taken THEN out ELSE s
      BY <1>1 DEF At
    <2> HIDE DEF s, out
    <2>4. CASE s.pc = "wait" /\ ~ s.taken
      <3>1. SenderOk(out, radio')
        BY <1>2, <2>1, <2>2, <2>4 DEF SenderOk, AloneOk
      <3> QED
        BY <2>3, <2>4, <3>1
    <2>5. CASE s.pc # "wait" \/ s.taken
      <3>1. SenderOk(s, radio')
        BY <1>1, <2>1, <2>5 DEF SenderOk, AloneOk
      <3> QED
        BY <2>3, <2>5, <3>1
    <2> QED
      BY <2>4, <2>5
  <1>4. sending' = [t \in Tasks |-> sending'[t]]
    BY <1>1
  <1> QED
    BY <1>2, <1>3, <1>4 DEF RadioInv

\* A task that begins or ends a message does not touch the radio.
LEMMA SenderReplaced ==
    ASSUME RadioInv, NEW t \in Tasks, NEW next,
           DOMAIN next = SendingFields, next.taken = FALSE, next.pc \in {"idle", "begin"},
           sending' = [sending EXCEPT ![t] = next], UNCHANGED radio
    PROVE  RadioInv'
  <1>1. SenderOk(next, radio) /\ next.pc # "wait"
    BY SenderAside
  <1> QED
    BY <1>1, StepsAside

\* A packet not begun, and none.
LEMMA StartingAside ==
    ASSUME NEW packet
    PROVE  /\ DOMAIN Starting(packet) = SendingFields
           /\ Starting(packet).pc = "begin" /\ Starting(packet).taken = FALSE
           /\ DOMAIN NotSending = SendingFields
           /\ NotSending.pc = "idle" /\ NotSending.taken = FALSE
  BY DEF Starting, NotSending, SendingFields

\* A task takes up a packet.
LEMMA StartsInOrder ==
    ASSUME RadioInv, NEW t \in Tasks, NEW packet,
           sending' = [sending EXCEPT ![t] = Starting(packet)], UNCHANGED radio
    PROVE  RadioInv'
  BY StartingAside, SenderReplaced

\* A task has sent its packet.
LEMMA SentInOrder ==
    ASSUME RadioInv, NEW t \in Tasks, Sent(t)
    PROVE  RadioInv'
  BY StartingAside, SenderReplaced DEF Sent

\* No packet is begun at first.
LEMMA RadioInitInOrder == RadioInit => RadioInv
  <1> SUFFICES ASSUME RadioInit PROVE RadioInv
    OBVIOUS
  <1>1. SenderOk(NotSending, radio)
    BY StartingAside, SenderAside
  <1> QED
    BY <1>1, StartingAside DEF RadioInit, RadioInv, RadioTypeOK, At, Tasks

\* The invariant says what is asked of the radio.
LEMMA RadioInvSafe == RadioInv => OwnPacketOnAir /\ NotBothRobbed
  <1> SUFFICES ASSUME RadioInv PROVE OwnPacketOnAir /\ NotBothRobbed
    OBVIOUS
  <1>1. OwnPacketOnAir
    BY DEF RadioInv, SenderOk, AloneOk, OwnPacketOnAir, At
  <1>2. NotBothRobbed
    BY DEF RadioInv, NotBothRobbed, Robbed, Tasks
  <1> QED
    BY <1>1, <1>2

\* Two tasks that send what and when they like, and a loop that polls: a packet
\* that has the radio to itself goes out whole and alone, and never do both
\* tasks wait for a flag that nobody sets.
THEOREM RadioSafe == RadioSpec => [](OwnPacketOnAir /\ NotBothRobbed)
  <1>1. RadioInv /\ [RadioNext]_radioVars => RadioInv'
    <2> SUFFICES ASSUME RadioInv, [RadioNext]_radioVars PROVE RadioInv'
      OBVIOUS
    <2>1. ASSUME NEW t \in Tasks, Sends(t) PROVE RadioInv'
      BY <2>1, StartsInOrder DEF Sends
    <2>2. CASE UNCHANGED radioVars
      BY <2>2 DEF radioVars, RadioInv, RadioTypeOK, SenderOk, AloneOk, At
    <2> QED
      BY <2>1, <2>2, SendMessageInOrder, SentInOrder, HandleInOrder, TransmittedInOrder
      DEF RadioNext
  <1> QED
    BY <1>1, RadioInitInOrder, RadioInvSafe, PTL DEF RadioSpec

\* Every step of the two tasks keeps the radio's packets in order.
LEMMA StepInOrder == RadioInv /\ [Next]_vars => RadioInv'
  <1> SUFFICES ASSUME RadioInv, [Next]_vars PROVE RadioInv'
    OBVIOUS
  <1>1. CASE UNCHANGED <<radio, sending>>
    BY <1>1 DEF RadioInv, RadioTypeOK, SenderOk, AloneOk, At
  <1>2. "loop" \in Tasks /\ "web" \in Tasks
    BY DEF Tasks
  <1>3. CASE LoopSends
    BY <1>2, <1>3, StartsInOrder DEF LoopSends, Sends
  <1>4. CASE LoopUsesRadio
    BY <1>2, <1>4, SendMessageInOrder, SentInOrder, HandleInOrder DEF LoopUsesRadio
  <1>5. CASE RadioEnds
    BY <1>5, TransmittedInOrder DEF RadioEnds
  <1>6. ASSUME NEW request \in Requests, SendsRequest(request) PROVE RadioInv'
    BY <1>2, <1>6, StartsInOrder DEF SendsRequest
  <1>7. CASE Converts
    <2> DEFINE packet == Packet(web.request.deviceId, "valueSet_req",
                                web.request.entityId, PointedTo)
    <2>1. \/ UNCHANGED <<radio, sending>>
          \/ sending' = [sending EXCEPT !["web"] = Starting(packet)] /\ UNCHANGED radio
      BY <1>7, Zenon DEF Converts
    <2> HIDE DEF packet
    <2> QED
      BY <1>1, <1>2, <2>1, StartsInOrder
  <1>8. CASE Succeeds
    BY <1>2, <1>8, SentInOrder DEF Succeeds
  <1>9. CASE LoopCalls \/ FindDevice \/ SearchEntity \/ Returned
    BY <1>1, <1>9, Zenon DEF LoopCalls, FindDevice, SearchEntity, Returned
  <1>10. ASSUME NEW request \in Requests, AnswersAtOnce(request) \/ LooksUp(request)
         PROVE  RadioInv'
    BY <1>1, <1>10, Zenon DEF AnswersAtOnce, LooksUp
  <1>11. CASE UNCHANGED vars
    BY <1>1, <1>11 DEF vars
  <1>12. CASE Loop
    BY <1>3, <1>4, <1>9, <1>12, Zenon DEF Loop
  <1>13. CASE WebTransmits
    BY <1>2, <1>13, SendMessageInOrder DEF WebTransmits
  <1>14. CASE Serve
    BY <1>7, <1>8, <1>9, <1>13, <1>14, Zenon DEF Serve
  <1>15. ASSUME NEW request \in Requests, Asks(request) PROVE RadioInv'
    BY <1>6, <1>10, <1>15, Zenon DEF Asks
  <1> QED
    BY <1>5, <1>11, <1>12, <1>14, <1>15, Zenon DEF Next

\* No packet is begun at first.
LEMMA InitInOrder == Init => RadioInv
  BY RadioInitInOrder DEF Init

\* The same of the gateway: in any interleaving of its two tasks, with any number
\* of requests, a packet that found the radio free and kept it goes out whole and
\* alone, and never are both tasks stuck in their waits.
THEOREM PacketsWhole == Spec => [](OwnPacketOnAir /\ NotBothRobbed)
  <1> QED
    BY InitInOrder, StepInOrder, RadioInvSafe, PTL DEF Spec

-----------------------------------------------------------------------------
(* A slot that the web task has found, while the loop task goes on. *)

\* The slots that hold a device: one that falls free counts until it is zeroed.
UsedSlots == 1 .. (IF InCall("memset") THEN registry.deviceCount + 1
                                       ELSE registry.deviceCount)

\* registerDevice writes behind the slots that count.
LEMMA KeptInRegisterDevice ==
    ASSUME StepsInv, (\E d \in DeviceIds : BeginRegister(d)) \/ CountDevice,
           NEW slot \in 1 .. registry.deviceCount
    PROVE  /\ registry'.devices[slot] = registry.devices[slot]
           /\ registry'.deviceCount \in registry.deviceCount .. registry.deviceCount + 1
  <1>1. ASSUME NEW d \in DeviceIds, BeginRegister(d)
        PROVE  /\ registry'.devices[slot] = registry.devices[slot]
               /\ registry'.deviceCount
                    \in registry.deviceCount .. registry.deviceCount + 1
    <2> DEFINE new == registry.deviceCount + 1
    <2>1. SettledOk(registry)
      BY <1>1, WhereItIs DEF BeginRegister
    <2>2. /\ registry.deviceCount \in Nat
          /\ registry.devices \in [Slots -> InternalDeviceInfo]
          /\ registry \in Registry
          /\ slot \in Slots
      BY <2>1, SettledFacts
    <2>3. slot # new
      BY <2>2
    <2>4. /\ registry'.devices[slot] = registry.devices[slot]
          /\ registry'.deviceCount = registry.deviceCount
      BY <1>1, <2>2, <2>3 DEF BeginRegister, Registry
    <2> QED BY <2>2, <2>4
  <1>2. CASE CountDevice
    <2>1. Publishing /\ SettledOk(call.before)
      BY <1>2, WhereItIs DEF CountDevice, InCall, Idle
    <2>2. call.before.deviceCount \in Nat
      BY <2>1, SettledFacts
    <2>3. /\ DOMAIN registry = {"devices", "deviceCount"}
          /\ registry.deviceCount \in Nat
      BY <2>1, <2>2 DEF Publishing
    <2> QED BY <1>2, <2>3 DEF CountDevice
  <1> QED BY <1>1, <1>2

\* registerEntity writes behind the entities that count, then counts.
LEMMA KeptInRegisterEntity ==
    ASSUME StepsInv,
           \/ \E entity \in Announcements : BeginRegisterEntity(entity)
           \/ CountEntity \/ CountInfo,
           NEW slot \in 1 .. registry.deviceCount, SlotReadable(registry.devices[slot])
    PROVE  /\ Keeps(registry'.devices[slot], registry.devices[slot])
           /\ registry'.deviceCount \in registry.deviceCount .. registry.deviceCount + 1
  <1> DEFINE was == registry.devices[slot]
             is == registry'.devices[slot]
             count == was.registeredEntityCount
  <1>1. count \in Nat
    BY MaxEntitiesAssumption DEF SlotReadable
  <1>2. ASSUME NEW entity \in Announcements, BeginRegisterEntity(entity)
        PROVE  /\ Keeps(is, was)
               /\ registry'.deviceCount
                    \in registry.deviceCount .. registry.deviceCount + 1
    <2> DEFINE idx == findDeviceIndex(registry, entity.deviceId)
               place == registry.devices[idx].registeredEntityCount + 1
    <2>1. SettledOk(registry)
      BY <1>2, WhereItIs DEF BeginRegisterEntity
    <2>2. /\ registry.deviceCount \in Nat
          /\ registry.devices \in [Slots -> InternalDeviceInfo]
          /\ registry \in Registry
          /\ slot \in Slots
          /\ was \in InternalDeviceInfo
      BY <2>1, SettledFacts
    <2>3. registry' = [registry EXCEPT !.devices[idx].entities[place] = entity]
      BY <1>2 DEF BeginRegisterEntity
    <2>4. registry'.deviceCount = registry.deviceCount
      BY <2>2, <2>3 DEF Registry
    <2>5. CASE slot # idx
      <3>1. is = was
        BY <2>2, <2>3, <2>5 DEF Registry
      <3> QED BY <1>1, <2>2, <2>4, <3>1 DEF Keeps
    <2>6. CASE slot = idx
      <3>1. is = [was EXCEPT !.entities[count + 1] = entity]
        BY <2>2, <2>3, <2>6 DEF Registry
      <3> HIDE DEF is, was
      <3>2. /\ is.info = was.info
            /\ is.registeredEntityCount = count
            /\ is.entities = [was.entities EXCEPT ![count + 1] = entity]
        BY <2>2, <3>1 DEF InternalDeviceInfo
      <3>3. was.entities \in [EntitySlots -> EntityInfo \cup {ZeroEntity}]
        BY <2>2 DEF InternalDeviceInfo
      <3>4. \A k \in 1 .. count : is.entities[k] = was.entities[k]
        BY <1>1, <3>2, <3>3
      <3>5. Keeps(is, was)
        BY <1>1, <3>2, <3>4 DEF Keeps
      <3> QED BY <2>2, <2>4, <3>5 DEF is, was
    <2> QED BY <2>5, <2>6
  <1>3. ASSUME NEW more \in 0 .. 1, NEW new \in Announcements, Adding(new, more),
               SettledOk(call.before)
        PROVE  /\ DOMAIN registry = {"devices", "deviceCount"}
               /\ DOMAIN registry.devices = Slots
               /\ call.i \in Slots
               /\ DOMAIN registry.devices[call.i] = {"info", "entities", "registeredEntityCount"}
               /\ DOMAIN registry.devices[call.i].info
                    = {"deviceId", "lastSeen", "entityCount", "entities"}
               /\ registry.deviceCount \in Nat
               /\ slot \in Slots
    <2> DEFINE B == call.before
               old == B.devices[call.i]
               fresh == WithEntity(old, new, old.registeredEntityCount + more)
    <2>1. /\ B.devices \in [Slots -> InternalDeviceInfo]
          /\ call.i \in 1 .. B.deviceCount
          /\ call.i \in Slots
          /\ old \in InternalDeviceInfo
          /\ B.deviceCount \in Nat
          /\ 1 .. B.deviceCount \subseteq Slots
      BY <1>3, FindDeviceIndex, SettledFacts DEF Adding, SettledOk
    <2>2. registry = [devices |-> [B.devices EXCEPT ![call.i] = fresh],
                      deviceCount |-> B.deviceCount]
      BY <1>3 DEF Adding
    <2>3. /\ DOMAIN fresh = {"info", "entities", "registeredEntityCount"}
          /\ fresh.info = old.info
      BY <2>1 DEF WithEntity, InternalDeviceInfo
    <2>4. DOMAIN old.info = {"deviceId", "lastSeen", "entityCount", "entities"}
      BY <2>1 DEF InternalDeviceInfo, DeviceInfo
    <2> HIDE DEF fresh, old
    <2>5. registry.devices[call.i] = fresh
      BY <2>1, <2>2
    <2> QED BY <2>1, <2>2, <2>3, <2>4, <2>5
  <1>4. CASE CountEntity
    <2>1. CountingEntity /\ SettledOk(call.before)
      BY <1>4, WhereItIs DEF CountEntity, InCall, Idle
    <2>2. PICK new \in Announcements : Adding(new, 0)
      BY <2>1 DEF CountingEntity
    <2>3. registry' = [registry EXCEPT !.devices[call.i].registeredEntityCount = @ + 1]
      BY <1>4 DEF CountEntity
    <2>4. /\ registry'.deviceCount = registry.deviceCount
          /\ slot # call.i => is = was
          /\ slot = call.i => /\ is.info = was.info
                              /\ is.entities = was.entities
                              /\ is.registeredEntityCount = count + 1
      BY <1>3, <2>1, <2>2, <2>3
    <2>5. registry.deviceCount \in Nat
      BY <1>3, <2>1, <2>2
    <2> HIDE DEF is, was
    <2>6. Keeps(is, was)
      BY <1>1, <2>4 DEF Keeps
    <2> QED BY <2>4, <2>5, <2>6 DEF is, was
  <1>5. CASE CountInfo
    <2>1. CountingInfo /\ SettledOk(call.before)
      BY <1>5, WhereItIs DEF CountInfo, InCall, Idle
    <2>2. PICK new \in Announcements : Adding(new, 1)
      BY <2>1 DEF CountingInfo
    <2>3. registry' = [registry EXCEPT !.devices[call.i].info.entityCount =
                                         registry.devices[call.i].registeredEntityCount]
      BY <1>5 DEF CountInfo
    <2>4. /\ registry'.deviceCount = registry.deviceCount
          /\ is.info.deviceId = was.info.deviceId
          /\ is.entities = was.entities
          /\ is.registeredEntityCount = count
      BY <1>3, <2>1, <2>2, <2>3
    <2>5. registry.deviceCount \in Nat
      BY <1>3, <2>1, <2>2
    <2> HIDE DEF is, was
    <2>6. Keeps(is, was)
      BY <1>1, <2>4 DEF Keeps
    <2> QED BY <2>4, <2>5, <2>6 DEF is, was
  <1> QED BY <1>2, <1>4, <1>5

\* The slots of a device that is removed: their number.
LEMMA UsedWhileRemoving ==
    ASSUME StepsInv, InCall("shift") \/ InCall("memset")
    PROVE  registry.deviceCount \in Nat
  <1>1. Settled = call.before /\ SettledOk(call.before)
    BY WhereItIs DEF InCall, Idle
  <1>2. call.before.deviceCount \in Nat
    BY <1>1, SettledFacts
  <1>3. CASE InCall("shift")
    BY <1>2, <1>3, SlotsInShift
  <1>4. CASE InCall("memset")
    <2>1. Zeroing
      BY <1>4, WhereItIs
    <2>2. Leaver \in 1 .. call.before.deviceCount
      BY <1>1, <2>1, RemovalFacts DEF Zeroing
    <2>3. registry.deviceCount = call.before.deviceCount - 1
      BY <2>1 DEF Zeroing
    <2> QED BY <1>2, <2>2, <2>3
  <1> QED BY <1>3, <1>4

\* registerDevice and registerEntity leave what is in use in place.
LEMMA KeptWhileAdding ==
    ASSUME StepsInv, StepsNext, ~ InCall("shift"), ~ InCall("memset"),
           NEW slot \in 1 .. registry.deviceCount, SlotReadable(registry.devices[slot])
    PROVE  /\ ~ InCall("memset")' /\ Torn' = 0
           /\ slot \in 1 .. registry'.deviceCount
           /\ Keeps(registry'.devices[slot], registry.devices[slot])
  <1> DEFINE was == registry.devices[slot]
             is == registry'.devices[slot]
  <1>1. /\ was.registeredEntityCount \in Nat
        /\ is = was => Keeps(is, was)
    BY MaxEntitiesAssumption DEF SlotReadable, Keeps
  <1>2. registry.deviceCount \in Nat
    <2>1. CASE InCall(Idle)
      BY <2>1, WhereItIs, SettledFacts
    <2>2. CASE InCall("publish") \/ InCall("countEntity") \/ InCall("countInfo")
      <3>1. SettledOk(call.before)
        BY <2>2, WhereItIs DEF InCall, Idle
      <3> QED BY <2>2, <3>1, SettledFacts, SlotsWhileAdding
    <2> QED BY <2>1, <2>2, WhereItIs DEF InCall
  <1>3. ASSUME NEW d \in DeviceIds, BeginUnregister(d)
        PROVE  /\ call'.at = "shift" /\ call'.copied = {}
               /\ registry' = registry
    BY <1>3 DEF BeginUnregister, NoCall
  <1>4. ASSUME NEW d \in DeviceIds, BeginRegister(d) PROVE call'.at = "publish"
    BY <1>4 DEF BeginRegister, NoCall
  <1>5. ASSUME NEW entity \in Announcements, BeginRegisterEntity(entity)
        PROVE  call'.at = "countEntity"
    BY <1>5 DEF BeginRegisterEntity, NoCall
  <1>6. ASSUME CountEntity PROVE call'.at = "countInfo"
    <2>1. CountingEntity
      BY <1>6, WhereItIs DEF CountEntity
    <2> QED BY <1>6, <2>1 DEF CountEntity, Goes, CountingEntity, StepsInv
  <1>7. ASSUME CountDevice \/ CountInfo PROVE call'.at = "idle"
    BY <1>7 DEF CountDevice, CountInfo, Returns, NoCall, Idle
  <1>8. \/ \E d \in DeviceIds : BeginUnregister(d) \/ BeginRegister(d)
        \/ \E entity \in Announcements : BeginRegisterEntity(entity)
        \/ CountDevice \/ CountEntity \/ CountInfo
    <2>1. ~ NextShift /\ ~ EndShift /\ ~ ZeroLast /\ \A part \in Parts : ~ CopyPart(part)
      BY DEF CopyPart, NextShift, EndShift, ZeroLast
    <2> QED BY <2>1 DEF StepsNext, BeginCall, Continue
  <1>9. /\ call'.at \in {"idle", "shift", "publish", "countEntity", "countInfo"}
        /\ call'.at = "shift" => call'.copied = {}
    BY <1>3, <1>4, <1>5, <1>6, <1>7, <1>8
  <1>10. /\ Keeps(is, was)
         /\ registry'.deviceCount \in registry.deviceCount .. registry.deviceCount + 1
    BY <1>1, <1>2, <1>3, <1>8, KeptInRegisterDevice, KeptInRegisterEntity
  <1>11. slot \in 1 .. registry'.deviceCount
    BY <1>2, <1>10
  <1> QED BY <1>9, <1>10, <1>11 DEF InCall, Torn

\* A removal takes no slot out of use before it is written over.
LEMMA KeptWhileRemoving ==
    ASSUME StepsInv, StepsNext, InCall("shift") \/ InCall("memset"), NEW slot \in UsedSlots,
           SlotReadable(registry.devices[slot]),
           registry'.devices[slot] = registry.devices[slot]
    PROVE  slot \in UsedSlots'
  <1>1. registry.deviceCount \in Nat
    BY UsedWhileRemoving
  <1>2. DOMAIN registry = {"devices", "deviceCount"}
    <2>1. Shifting \/ Zeroing
      BY WhereItIs
    <2> QED BY <2>1 DEF Shifting, Zeroing
  <1>3. ASSUME NEW part \in Parts, CopyPart(part) PROVE slot \in UsedSlots'
    <2>1. registry'.deviceCount = registry.deviceCount
      BY <1>2, <1>3 DEF CopyPart
    <2>2. slot \in 1 .. registry.deviceCount
      BY <1>3 DEF CopyPart, UsedSlots, InCall
    <2> QED BY <1>1, <2>1, <2>2 DEF UsedSlots
  <1>4. CASE NextShift
    <2>1. registry'.deviceCount = registry.deviceCount
      BY <1>4 DEF NextShift
    <2>2. slot \in 1 .. registry.deviceCount
      BY <1>4 DEF NextShift, UsedSlots, InCall
    <2> QED BY <1>1, <2>1, <2>2 DEF UsedSlots
  <1>5. CASE EndShift
    <2>1. registry'.deviceCount = registry.deviceCount - 1
      BY <1>2, <1>5 DEF EndShift
    <2>2. slot \in 1 .. registry.deviceCount
      BY <1>5 DEF EndShift, UsedSlots, InCall
    <2>3. InCall("memset")'
      <3>1. Shifting
        BY <1>5, WhereItIs DEF EndShift
      <3>2. call'.at = "memset"
        BY <1>5, <3>1 DEF EndShift, Goes, Shifting, StepsInv
      <3> QED BY <3>2 DEF InCall
    <2> QED BY <1>1, <2>1, <2>2, <2>3 DEF UsedSlots
  <1>6. CASE ZeroLast
    <2> DEFINE last == registry.deviceCount + 1
    <2>1. /\ registry' = [registry EXCEPT !.devices[last] = ZeroSlot]
          /\ slot \in 1 .. last
          /\ call' = NoCall
      BY <1>6 DEF ZeroLast, UsedSlots, Returns
    <2>2. registry'.deviceCount = registry.deviceCount
      BY <1>2, <2>1
    <2>3. slot # last
      <3>1. ASSUME slot = last PROVE FALSE
        <4>1. last \in DOMAIN registry.devices
          <5>1. Zeroing /\ SettledOk(call.before)
            BY <1>6, WhereItIs DEF ZeroLast, InCall, Idle
          <5>2. last = call.before.deviceCount /\ DOMAIN registry.devices = Slots
            BY <1>1, <5>1, SettledFacts DEF Zeroing, ClosedUp
          <5>3. last \in 1 .. call.before.deviceCount
            BY <1>1, <5>2
          <5> QED BY <5>1, <5>2, <5>3, SettledFacts
        <4>2. registry'.devices[last] = ZeroSlot
          BY <1>2, <2>1, <4>1
        <4>3. registry.devices[slot].info.deviceId = 0
          BY <3>1, <4>2 DEF ZeroSlot, ZeroInfo
        <4> QED BY <4>3, DeviceIdsAssumption DEF SlotReadable
      <3> QED BY <3>1
    <2>4. ~ InCall("memset")'
      BY <2>1 DEF InCall, NoCall, Idle
    <2> QED BY <1>1, <2>1, <2>2, <2>3, <2>4 DEF UsedSlots
  <1>7. \/ \E part \in Parts : CopyPart(part)
        \/ NextShift \/ EndShift \/ ZeroLast
    <2>1. ~ BeginCall /\ ~ CountDevice /\ ~ CountEntity /\ ~ CountInfo
      BY DEF BeginCall, BeginUnregister, BeginRegister, BeginRegisterEntity, CountDevice,
             CountEntity, CountInfo, InCall, Idle
    <2> QED BY <2>1 DEF StepsNext, Continue
  <1> QED BY <1>3, <1>4, <1>5, <1>6, <1>7

\* A slot that is found stays in use and whole, and what was read of it stays as
\* it was, unless a removal writes it over.
LEMMA SlotKept ==
    ASSUME StepsInv, StepsNext, ReadersFindWholeSlots', NEW slot \in UsedSlots,
           SlotReadable(registry.devices[slot]),
           call.at \in Removing => registry'.devices[slot] = registry.devices[slot]
    PROVE  /\ slot \in UsedSlots'
           /\ SlotReadable(registry'.devices[slot])
           /\ Keeps(registry'.devices[slot], registry.devices[slot])
  <1>1. CASE InCall("shift") \/ InCall("memset")
    <2>1. registry'.devices[slot] = registry.devices[slot]
      BY <1>1 DEF InCall, Removing
    <2>2. registry.devices[slot].registeredEntityCount \in Nat
      BY MaxEntitiesAssumption DEF SlotReadable
    <2>3. /\ SlotReadable(registry'.devices[slot])
          /\ Keeps(registry'.devices[slot], registry.devices[slot])
      BY <2>1, <2>2 DEF Keeps
    <2> QED BY <1>1, <2>1, <2>3, KeptWhileRemoving
  <1>2. CASE ~ InCall("shift") /\ ~ InCall("memset")
    <2>1. slot \in 1 .. registry.deviceCount
      BY <1>2 DEF UsedSlots
    <2>2. /\ ~ InCall("memset")' /\ Torn' = 0
          /\ slot \in 1 .. registry'.deviceCount
          /\ Keeps(registry'.devices[slot], registry.devices[slot])
      BY <1>2, <2>1, KeptWhileAdding
    <2>3. SlotReadable(registry'.devices[slot])
      BY <2>1, <2>2 DEF ReadersFindWholeSlots
    <2> QED BY <2>2, <2>3 DEF UsedSlots
  <1> QED BY <1>1, <1>2

-----------------------------------------------------------------------------
(* The lookup of /value-set. *)

\* The fields of a request being served.
WebFields == {"pc", "request", "slot", "i", "status", "moved", "shifted", "known"}

\* What the web task points to is a whole slot of the device asked for, and when
\* it is done the entity asked for in it.
Points ==
    LET slot == registry.devices[web.slot]
    IN  /\ web.slot \in UsedSlots
        /\ SlotReadable(slot)
        /\ slot.info.deviceId = web.request.deviceId
        /\ web.pc = "convert" =>
             /\ web.i <= slot.registeredEntityCount
             /\ slot.entities[web.i].entityId = web.request.entityId

\* The entity asked for is at a place that the lookup has yet to come to.
AheadAt(j, k) ==
    LET slot == registry.devices[j]
    IN  /\ slot.info.deviceId = web.request.deviceId
        /\ k \in 1 .. slot.registeredEntityCount
        /\ slot.entities[k].entityId = web.request.entityId
        /\ web.pc = "find" => web.i <= j
        /\ web.pc = "search" => web.slot = j /\ web.i <= k

Ahead == /\ ~ InCall("shift") /\ ~ InCall("memset")
         /\ \E j \in 1 .. registry.deviceCount : \E k : AheadAt(j, k)

WebInv ==
    /\ DOMAIN web = WebFields
    /\ web.pc \in {"find", "search", "convert"} => web.i \in Nat \ {0}
    /\ web.pc \in {"search", "convert"} /\ ~ web.moved => Points
    /\ web.pc \in {"find", "search"} /\ web.known /\ ~ web.shifted => Ahead
    /\ RegisteredEntityFound

\* While no device is removed, the registry holds every device once, with what
\* it had when the method began.
LEMMA WhileAdding ==
    ASSUME StepsInv, ~ InCall("shift"), ~ InCall("memset")
    PROVE  /\ registry.deviceCount \in Nat
           /\ registry.deviceCount = Settled.deviceCount
           /\ SettledOk(Settled)
           /\ \A j \in 1 .. registry.deviceCount :
                /\ Keeps(registry.devices[j], Settled.devices[j])
                /\ SlotReadable(registry.devices[j])
           /\ \A j, l \in 1 .. registry.deviceCount :
                registry.devices[j].info.deviceId = registry.devices[l].info.deviceId => j = l
  <1>1. /\ SettledOk(Settled)
        /\ Settled.deviceCount \in Nat
        /\ \A j \in 1 .. Settled.deviceCount :
             /\ Settled.devices[j].registeredEntityCount \in Nat
             /\ SlotReadable(Settled.devices[j])
    BY SettledFacts DEF StepsInv
  <1>2. /\ registry.deviceCount = Settled.deviceCount
        /\ \A j \in 1 .. registry.deviceCount :
             /\ Keeps(registry.devices[j], Settled.devices[j])
             /\ SlotReadable(registry.devices[j])
    <2>1. CASE InCall(Idle)
      BY <1>1, <2>1 DEF Settled, Keeps
    <2>2. CASE InCall("publish") \/ InCall("countEntity") \/ InCall("countInfo")
      BY <2>2, WhereItIs, SlotsWhileAdding DEF InCall, Idle
    <2> QED BY <2>1, <2>2, WhereItIs DEF InCall
  <1>3. \A j, l \in 1 .. registry.deviceCount :
          registry.devices[j].info.deviceId = registry.devices[l].info.deviceId => j = l
    <2>1. DevicesDistinct(Settled)
      BY <1>1 DEF SettledOk, RegistryOk
    <2> QED BY <1>2, <2>1 DEF DevicesDistinct, Keeps
  <1> QED BY <1>1, <1>2, <1>3

\* An entity that getEntity finds in the registry as it was is there now.
LEMMA KnownIsThere ==
    ASSUME StepsInv, ~ InCall("shift"), ~ InCall("memset"), NEW d, NEW e,
           getEntity(Settled, d, e) # NoEntity
    PROVE  \E j \in 1 .. registry.deviceCount :
             LET slot == registry.devices[j]
             IN  /\ slot.info.deviceId = d
                 /\ \E k \in 1 .. slot.registeredEntityCount : slot.entities[k].entityId = e
  <1> DEFINE r == Settled
             idx == findDeviceIndex(r, d)
             slot == r.devices[idx]
             k == entityIndex(slot.entities, slot.registeredEntityCount, e)
  <1>1. idx # 0 /\ k # 0
    BY DEF getEntity
  <1>2. SettledOk(r) /\ RegistryOk(r)
    BY WhileAdding DEF SettledOk
  <1>3. idx \in 1 .. r.deviceCount /\ slot.info.deviceId = d
    BY <1>1, <1>2, FindDeviceIndex, SettledFacts
  <1>4. slot \in InternalDeviceInfo /\ StorageOk(slot)
    BY <1>2, <1>3, SettledFacts DEF RegistryOk
  <1>5. /\ slot.registeredEntityCount \in Nat
        /\ k \in 1 .. slot.registeredEntityCount /\ slot.entities[k].entityId = e
    <2>1. slot.registeredEntityCount \in Nat
      BY <1>2, <1>3, SettledFacts
    <2>2. k \in 0 .. slot.registeredEntityCount /\ slot.entities[k].entityId = e
      <3> HIDE DEF slot
      <3> QED BY <1>1, <1>4, EntityIndex
    <2> QED BY <1>1, <2>1, <2>2
  <1> HIDE DEF r, idx, k
  <1>6. /\ idx \in 1 .. registry.deviceCount
        /\ Keeps(registry.devices[idx], slot)
        /\ registry.devices[idx].registeredEntityCount \in Nat
    BY <1>3, WhileAdding, MaxEntitiesAssumption DEF r, SlotReadable
  <1>7. /\ registry.devices[idx].info.deviceId = d
        /\ k \in 1 .. registry.devices[idx].registeredEntityCount
        /\ registry.devices[idx].entities[k].entityId = e
    <2> HIDE DEF slot
    <2> QED BY <1>3, <1>5, <1>6 DEF Keeps
  <1> QED BY <1>6, <1>7

\* No request is served at first.
LEMMA WebInvInit == Init => WebInv
  BY DEF Init, NoRequest, WebInv, WebFields, RegisteredEntityFound

\* The steps that leave the request and the registry alone.
LEMMA WebInvStutters ==
    ASSUME WebInv, UNCHANGED <<registry, call, web>>
    PROVE  WebInv'
  BY DEF WebInv, Points, AheadAt, Ahead, UsedSlots, InCall, RegisteredEntityFound

\* The loop task works on the registry under the lookup.
LEMMA WebInvLoopCalls ==
    ASSUME StepsInv, ReadersFindWholeSlots', WebInv, LoopCalls
    PROVE  WebInv'
  <1>1. StepsNext
    BY DEF LoopCalls, StepsNext
  <1>2. /\ DOMAIN web' = WebFields
        /\ web'.pc = web.pc /\ web'.request = web.request /\ web'.slot = web.slot
        /\ web'.i = web.i /\ web'.status = web.status /\ web'.known = web.known
    BY DEF LoopCalls, WebInv, WebFields
  <1>3. ~ web'.moved => /\ ~ web.moved
                        /\ web.slot # 0 /\ call.at \in Removing =>
                             registry'.devices[web.slot] = registry.devices[web.slot]
    BY DEF LoopCalls, WebInv, WebFields
  <1>4. ~ web'.shifted => /\ ~ web.shifted
                          /\ web.pc \in {"find", "search"} => call'.at \notin Removing
    BY DEF LoopCalls, WebInv, WebFields
  <1>5. ASSUME web.pc \in {"search", "convert"}, ~ web'.moved PROVE Points'
    <2>1. Points
      BY <1>3, <1>5 DEF WebInv
    <2>2. web.slot # 0
      BY <2>1 DEF Points, UsedSlots
    <2>3. /\ web.slot \in UsedSlots'
          /\ SlotReadable(registry'.devices[web.slot])
          /\ Keeps(registry'.devices[web.slot], registry.devices[web.slot])
      BY <1>1, <1>3, <1>5, <2>1, <2>2, SlotKept DEF Points
    <2>4. ASSUME web.pc = "convert"
          PROVE  /\ web.i \in 1 .. registry.devices[web.slot].registeredEntityCount
                 /\ web.i <= registry'.devices[web.slot].registeredEntityCount
      BY <2>1, <2>3, <2>4, MaxEntitiesAssumption DEF Points, Keeps, SlotReadable, WebInv
    <2> QED BY <1>2, <2>1, <2>3, <2>4 DEF Points, Keeps
  <1>6. ASSUME web.pc \in {"find", "search"}, web.known, ~ web'.shifted PROVE Ahead'
    <2>1. Ahead
      BY <1>4, <1>6 DEF WebInv
    <2>2. PICK j \in 1 .. registry.deviceCount : \E k : AheadAt(j, k)
      BY <2>1 DEF Ahead
    <2>3. PICK k : AheadAt(j, k)
      BY <2>2
    <2>4. SlotReadable(registry.devices[j])
      BY <2>1, WhileAdding DEF Ahead
    <2>5. /\ j \in 1 .. registry'.deviceCount
          /\ Keeps(registry'.devices[j], registry.devices[j])
      BY <1>1, <2>1, <2>4, KeptWhileAdding DEF Ahead
    <2>6. ~ InCall("shift")' /\ ~ InCall("memset")'
      BY <1>4, <1>6 DEF InCall, Removing
    <2>7. SlotReadable(registry'.devices[j])
      BY <1>1, <2>1, <2>4, <2>5, KeptWhileAdding DEF Ahead, ReadersFindWholeSlots
    <2>8. k \in 1 .. registry'.devices[j].registeredEntityCount
      BY <2>3, <2>4, <2>5, <2>7, MaxEntitiesAssumption DEF AheadAt, Keeps, SlotReadable
    <2>9. AheadAt(j, k)'
      BY <1>2, <2>3, <2>5, <2>8 DEF AheadAt, Keeps
    <2> QED BY <2>5, <2>6, <2>9 DEF Ahead
  <1>7. RegisteredEntityFound'
    BY <1>2, <1>4 DEF WebInv, RegisteredEntityFound, Complete
  <1> QED BY <1>2, <1>5, <1>6, <1>7 DEF WebInv

\* A request comes in.
LEMMA WebInvAsks ==
    ASSUME StepsInv, WebInv, NEW request \in Requests, Asks(request)
    PROVE  WebInv'
  <1>1. ASSUME NEW status, web' = [NoRequest EXCEPT !.pc = "reply", !.request = request,
                                                    !.status = status]
        PROVE  WebInv'
    <2>1. DOMAIN web' = WebFields /\ web'.pc = "reply" /\ ~ web'.known
      BY <1>1 DEF NoRequest, WebFields
    <2> QED BY <2>1 DEF WebInv, RegisteredEntityFound
  <1>2. CASE AnswersAtOnce(request)
    BY <1>1, <1>2 DEF AnswersAtOnce
  <1>3. CASE SendsRequest(request)
    <2>1. DOMAIN web' = WebFields /\ web'.pc = "send"
      BY <1>3 DEF SendsRequest, NoRequest, WebFields
    <2> QED BY <2>1 DEF WebInv, RegisteredEntityFound
  <1>4. CASE LooksUp(request)
    <2> DEFINE d == request.deviceId
               e == request.entityId
    <2>1. /\ DOMAIN web' = WebFields /\ web'.pc = "find" /\ web'.request = request
          /\ web'.i = 1
          /\ ~ web'.shifted => call.at \notin Removing
          /\ web'.known => getEntity(Settled, d, e) # NoEntity
          /\ registry' = registry /\ call' = call
      BY <1>4 DEF LooksUp, NoRequest, WebFields
    <2>2. ASSUME web'.known, ~ web'.shifted PROVE Ahead'
      <3>1. ~ InCall("shift") /\ ~ InCall("memset")
        BY <2>1, <2>2 DEF InCall, Removing
      <3>2. PICK j \in 1 .. registry.deviceCount :
              LET slot == registry.devices[j]
              IN  /\ slot.info.deviceId = d
                  /\ \E k \in 1 .. slot.registeredEntityCount : slot.entities[k].entityId = e
        BY <2>1, <2>2, <3>1, KnownIsThere
      <3>3. registry.deviceCount \in Nat
        BY <3>1, WhileAdding
      <3>4. PICK k \in 1 .. registry.devices[j].registeredEntityCount :
              registry.devices[j].entities[k].entityId = e
        BY <3>2
      <3>5. AheadAt(j, k)'
        BY <2>1, <3>2, <3>3, <3>4 DEF AheadAt
      <3> QED BY <2>1, <3>1, <3>5 DEF Ahead, InCall
    <2> QED BY <2>1, <2>2 DEF WebInv, RegisteredEntityFound
  <1> QED BY <1>2, <1>3, <1>4 DEF Asks

\* A refusal, of an entity that is not known or after a removal.
LEMMA WebInvRefuses ==
    ASSUME WebInv, Answers(400), web.known => web.shifted
    PROVE  WebInv'
  <1>1. /\ DOMAIN web' = WebFields /\ web'.pc = "reply"
        /\ web'.known = web.known /\ web'.shifted = web.shifted
    BY DEF Answers, WebInv, WebFields
  <1> QED BY <1>1 DEF WebInv, RegisteredEntityFound

\* The lookup finds the device, in a slot that is whole unless it is torn.
LEMMA WebInvFindDevice ==
    ASSUME StepsInv, ReadersFindWholeSlots, WebInv, FindDevice
    PROVE  WebInv'
  <1>1. /\ web.pc = "find" /\ web.i \in Nat \ {0}
        /\ registry' = registry /\ call' = call
        /\ DOMAIN web = WebFields
    BY DEF FindDevice, WebInv
  <1>2. ASSUME web.known, ~ web.shifted
        PROVE  /\ ~ InCall("shift") /\ ~ InCall("memset")
               /\ registry.deviceCount \in Nat
               /\ \E j \in 1 .. registry.deviceCount : j >= web.i /\ \E k : AheadAt(j, k)
    BY <1>1, <1>2, WhileAdding DEF WebInv, Ahead, AheadAt
  <1>3. CASE web.i > registry.deviceCount /\ Answers(400)
    <2>1. web.known => web.shifted
      BY <1>1, <1>2, <1>3
    <2> QED BY <1>3, <2>1, WebInvRefuses
  <1>4. CASE /\ web.i <= registry.deviceCount
             /\ registry.devices[web.i].info.deviceId = web.request.deviceId
             /\ web' = [web EXCEPT !.pc = "search", !.slot = web.i, !.i = 1,
                                   !.moved = web.i = Torn]
    <2>1. /\ DOMAIN web' = WebFields /\ web'.pc = "search" /\ web'.slot = web.i /\ web'.i = 1
          /\ web'.moved = (web.i = Torn)
          /\ web'.known = web.known /\ web'.shifted = web.shifted
          /\ web'.request = web.request
      BY <1>1, <1>4 DEF WebFields
    <2>2. ASSUME ~ web'.moved PROVE Points'
      <3>1. registry.deviceCount \in Nat
        BY WhileAdding, UsedWhileRemoving
      <3>2. web.i \in 1 .. registry.deviceCount
        BY <1>1, <1>4, <3>1
      <3>3. web.i # Torn
        BY <2>1, <2>2, Zenon
      <3>4. web.i \in UsedSlots /\ SlotReadable(registry.devices[web.i])
        BY <3>1, <3>2, <3>3 DEF UsedSlots, ReadersFindWholeSlots
      <3> QED BY <1>1, <1>4, <2>1, <3>4 DEF Points, UsedSlots, InCall
    <2>3. ASSUME web.known, ~ web.shifted PROVE Ahead'
      <3>1. PICK j \in 1 .. registry.deviceCount : \E k : AheadAt(j, k)
        BY <1>2, <2>3
      <3>2. PICK k : AheadAt(j, k)
        BY <3>1
      <3>3. j = web.i
        BY <1>1, <1>2, <1>4, <2>3, <3>2, WhileAdding DEF AheadAt
      <3>4. k \in Nat \ {0}
        <4>1. registry.devices[j].registeredEntityCount \in Nat
          BY <1>2, <2>3, WhileAdding, MaxEntitiesAssumption DEF SlotReadable
        <4> QED BY <3>2, <4>1 DEF AheadAt
      <3>5. AheadAt(j, k)'
        BY <1>1, <2>1, <3>2, <3>3, <3>4 DEF AheadAt
      <3> QED BY <1>1, <1>2, <2>3, <3>5 DEF Ahead, InCall
    <2> QED BY <2>1, <2>2, <2>3 DEF WebInv, RegisteredEntityFound
  <1>5. CASE /\ web.i <= registry.deviceCount
             /\ registry.devices[web.i].info.deviceId # web.request.deviceId
             /\ web' = [web EXCEPT !.i = @ + 1]
    <2>1. /\ DOMAIN web' = WebFields /\ web'.pc = "find" /\ web'.i = web.i + 1
          /\ web'.known = web.known /\ web'.shifted = web.shifted
          /\ web'.request = web.request
      BY <1>1, <1>5 DEF WebFields
    <2>2. ASSUME web.known, ~ web.shifted PROVE Ahead'
      <3>1. PICK j \in 1 .. registry.deviceCount : j >= web.i /\ \E k : AheadAt(j, k)
        BY <1>2, <2>2
      <3>2. PICK k : AheadAt(j, k)
        BY <3>1
      <3>3. j >= web.i + 1
        BY <1>1, <1>2, <1>5, <2>2, <3>1, <3>2 DEF AheadAt
      <3>4. AheadAt(j, k)'
        BY <1>1, <2>1, <3>2, <3>3 DEF AheadAt
      <3> QED BY <1>1, <1>2, <2>2, <3>4 DEF Ahead, InCall
    <2> QED BY <1>1, <2>1, <2>2 DEF WebInv, RegisteredEntityFound
  <1> QED BY <1>3, <1>4, <1>5 DEF FindDevice

\* The lookup goes through the entities of the slot.
LEMMA WebInvSearchEntity ==
    ASSUME StepsInv, WebInv, SearchEntity
    PROVE  WebInv'
  <1> DEFINE slot == registry.devices[web.slot]
  <1>1. /\ web.pc = "search" /\ web.i \in Nat \ {0}
        /\ registry' = registry /\ call' = call
        /\ DOMAIN web = WebFields
    BY DEF SearchEntity, WebInv
  <1>2. ASSUME web.known, ~ web.shifted
        PROVE  \E k : /\ AheadAt(web.slot, k)
                      /\ web.slot \in 1 .. registry.deviceCount
                      /\ slot.registeredEntityCount \in Nat
                      /\ k \in web.i .. slot.registeredEntityCount
    <2>1. PICK j \in 1 .. registry.deviceCount : \E k : AheadAt(j, k)
      BY <1>1, <1>2 DEF WebInv, Ahead
    <2>2. PICK k : AheadAt(j, k)
      BY <2>1
    <2>3. SlotReadable(registry.devices[j])
      BY <1>1, <1>2, WhileAdding DEF WebInv, Ahead
    <2> QED BY <1>1, <2>2, <2>3, MaxEntitiesAssumption DEF AheadAt, SlotReadable
  <1>3. CASE web.i > slot.registeredEntityCount /\ Answers(400)
    <2>1. web.known => web.shifted
      BY <1>1, <1>2, <1>3
    <2> QED BY <1>3, <2>1, WebInvRefuses
  <1>4. CASE /\ web.i <= slot.registeredEntityCount
             /\ slot.entities[web.i].entityId = web.request.entityId
             /\ web' = Found
    <2>1. /\ DOMAIN web' = WebFields /\ web'.pc = "convert" /\ web'.slot = web.slot
          /\ web'.i = web.i /\ web'.moved = web.moved /\ web'.request = web.request
      BY <1>1, <1>4 DEF Found, WebFields
    <2>2. ~ web.moved => Points'
      BY <1>1, <1>4, <2>1 DEF WebInv, Points, UsedSlots, InCall
    <2> QED BY <1>1, <2>1, <2>2 DEF WebInv, RegisteredEntityFound
  <1>5. CASE /\ web.i <= slot.registeredEntityCount
             /\ slot.entities[web.i].entityId # web.request.entityId
             /\ web' = [web EXCEPT !.i = @ + 1]
    <2>1. /\ DOMAIN web' = WebFields /\ web'.pc = "search" /\ web'.slot = web.slot
          /\ web'.i = web.i + 1 /\ web'.moved = web.moved /\ web'.request = web.request
          /\ web'.known = web.known /\ web'.shifted = web.shifted
      BY <1>1, <1>5 DEF WebFields
    <2>2. ~ web.moved => Points'
      BY <1>1, <2>1 DEF WebInv, Points, UsedSlots, InCall
    <2>3. ASSUME web.known, ~ web.shifted PROVE Ahead'
      <3>1. PICK k : /\ AheadAt(web.slot, k)
                     /\ web.slot \in 1 .. registry.deviceCount
                     /\ k \in web.i .. slot.registeredEntityCount
        BY <1>2, <2>3
      <3>2. k # web.i
        BY <1>5, <3>1 DEF AheadAt
      <3>3. web.i + 1 <= k
        BY <1>1, <1>2, <2>3, <3>1, <3>2
      <3>4. AheadAt(web.slot, k)'
        BY <1>1, <2>1, <3>1, <3>3 DEF AheadAt
      <3>5. ~ InCall("shift") /\ ~ InCall("memset")
        BY <1>1, <2>3 DEF WebInv, Ahead
      <3> QED BY <1>1, <2>1, <3>1, <3>4, <3>5 DEF Ahead, InCall
    <2> QED BY <1>1, <2>1, <2>2, <2>3 DEF WebInv, RegisteredEntityFound
  <1> QED BY <1>3, <1>4, <1>5 DEF SearchEntity

\* A request leaves the lookup, and ends.
LEMMA WebInvEnds ==
    ASSUME WebInv, Converts \/ Succeeds \/ Returned
    PROVE  WebInv'
  <1>1. DOMAIN web = WebFields
    BY DEF WebInv
  <1>2. ASSUME NEW status \in {200, 500}, Answers(status) PROVE WebInv'
    <2>1. /\ DOMAIN web' = WebFields /\ web'.pc = "reply" /\ web'.status = status
      BY <1>1, <1>2 DEF Answers, WebFields
    <2> QED BY <2>1 DEF WebInv, RegisteredEntityFound
  <1>3. ASSUME web' = [web EXCEPT !.pc = "send", !.slot = 0, !.i = 0, !.moved = FALSE]
        PROVE  WebInv'
    <2>1. DOMAIN web' = WebFields /\ web'.pc = "send"
      BY <1>1, <1>3 DEF WebFields
    <2> QED BY <2>1 DEF WebInv, RegisteredEntityFound
  <1>4. ASSUME web' = NoRequest PROVE WebInv'
    BY <1>4 DEF NoRequest, WebInv, WebFields, RegisteredEntityFound
  <1> QED BY <1>2, <1>3, <1>4 DEF Converts, Succeeds, Returned

\* Every step of the two tasks preserves the invariant.
LEMMA WebInvNext ==
    StepsInv /\ ReadersFindWholeSlots /\ ReadersFindWholeSlots' /\ WebInv /\ [Next]_vars
      => WebInv'
  <1> SUFFICES ASSUME StepsInv, ReadersFindWholeSlots, ReadersFindWholeSlots', WebInv,
                      [Next]_vars
               PROVE  WebInv'
    OBVIOUS
  <1>1. CASE LoopCalls
    BY <1>1, WebInvLoopCalls
  <1>2. CASE LoopSends \/ LoopUsesRadio \/ RadioEnds
    BY <1>2, WebInvStutters DEF LoopSends, LoopUsesRadio, RadioEnds
  <1>3. CASE FindDevice
    BY <1>3, WebInvFindDevice
  <1>4. CASE SearchEntity
    BY <1>4, WebInvSearchEntity
  <1>5. CASE Converts \/ Succeeds \/ Returned
    BY <1>5, WebInvEnds
  <1>6. CASE WebTransmits
    BY <1>6, WebInvStutters DEF WebTransmits
  <1>7. ASSUME NEW request \in Requests, Asks(request) PROVE WebInv'
    BY <1>7, WebInvAsks
  <1>8. CASE UNCHANGED vars
    BY <1>8, WebInvStutters DEF vars
  <1> QED BY <1>1, <1>2, <1>3, <1>4, <1>5, <1>6, <1>7, <1>8 DEF Next, Loop, Serve

\* The invariant of the lookup holds throughout, in any interleaving of the two
\* tasks (WebServerHandler.cpp, DeviceRegistry.cpp).
THEOREM WebInvariance == Spec => [](StepsInv /\ ReadersFindWholeSlots /\ RadioInv /\ WebInv)
  <1>1. Spec => [](StepsInv /\ ReadersFindWholeSlots)
    BY WebTaskRefinesSteps, StepsInvariance, WholeSlots, PTL
  <1> QED BY <1>1, InitInOrder, StepInOrder, WebInvInit, WebInvNext, PTL DEF Spec

\* "Entity not found on device" is not said of a registered entity, unless a
\* removal overlaps the lookup.
THEOREM LookupFinds == Spec => []RegisteredEntityFound
  <1>1. WebInv => RegisteredEntityFound
    BY DEF WebInv
  <1> QED BY <1>1, WebInvariance, PTL

\* /value-set converts its value with the metadata announced for the entity it
\* names, as long as the slot found is not written over.
THEOREM Converted == Spec => ConvertedAsAnnounced
  <1> DEFINE by == sending'["web"].packet.convertedBy
             A == web.pc = "convert" /\ web'.pc = "send" /\ ~ web.moved =>
                    /\ by \in Announcements
                    /\ by.deviceId = web.request.deviceId
                    /\ by.entityId = web.request.entityId
  <1>1. StepsInv /\ RadioInv /\ WebInv /\ [Next]_vars => [A]_vars
    <2> SUFFICES ASSUME RadioInv, WebInv, Next, web.pc = "convert", web'.pc = "send",
                        ~ web.moved
                 PROVE  /\ by \in Announcements
                        /\ by.deviceId = web.request.deviceId
                        /\ by.entityId = web.request.entityId
      OBVIOUS
    <2>1. Converts
      <3>1. ASSUME LoopCalls PROVE web'.pc = web.pc
        BY <3>1 DEF LoopCalls, WebInv, WebFields
      <3>2. ~ LoopSends /\ ~ LoopUsesRadio /\ ~ RadioEnds /\ ~ WebTransmits
        BY DEF LoopSends, LoopUsesRadio, RadioEnds, WebTransmits
      <3>3. ~ FindDevice /\ ~ SearchEntity /\ ~ Succeeds /\ ~ Returned
        BY DEF FindDevice, SearchEntity, Succeeds, Returned
      <3>4. ASSUME NEW request \in Requests PROVE ~ Asks(request)
        BY DEF Asks, AnswersAtOnce, SendsRequest, LooksUp
      <3> QED BY <3>1, <3>2, <3>3, <3>4 DEF Next, Loop, Serve
    <2>2. by = PointedTo
      <3> DEFINE packet == Packet(web.request.deviceId, "valueSet_req",
                                  web.request.entityId, PointedTo)
      <3>1. ~ Answers(500)
        BY DEF Answers, WebInv, WebFields
      <3>2. sending' = [sending EXCEPT !["web"] = Starting(packet)]
        BY <2>1, <3>1 DEF Converts
      <3>3. "web" \in DOMAIN sending
        BY DEF RadioInv, Tasks
      <3>4. Starting(packet).packet = packet
        BY DEF Starting, NotSending
      <3>5. packet.convertedBy = PointedTo
        BY DEF Packet
      <3> HIDE DEF packet
      <3> QED BY <3>2, <3>3, <3>4, <3>5
    <2>3. Points /\ web.i \in Nat \ {0}
      BY DEF WebInv
    <2>4. /\ web.i \in 1 .. registry.devices[web.slot].registeredEntityCount
          /\ SlotReadable(registry.devices[web.slot])
      BY <2>3, MaxEntitiesAssumption DEF Points, SlotReadable
    <2> QED BY <2>2, <2>3, <2>4 DEF Points, SlotReadable, PointedTo
  <1> QED BY <1>1, WebInvariance, PTL DEF Spec, ConvertedAsAnnounced
=============================================================================

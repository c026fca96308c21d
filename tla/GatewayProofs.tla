---------------------------- MODULE GatewayProofs ----------------------------
(***************************************************************************)
(* For every size of the table, every timeout, every clock width and every *)
(* set of nodes: the registry stays well formed, and the timeout sweep     *)
(* removes no device that was heard within the timeout.                    *)
(***************************************************************************)
EXTENDS Gateway, DeviceRegistryProofs, FiniteSetTheorems

(***************************************************************************)
(* Unsigned clock arithmetic.                                              *)
(***************************************************************************)
\* When the clock advances an age grows by one, or wraps to zero.
LEMMA ElapsedTick ==
    ASSUME NEW a \in Millis, NEW b \in Millis,
           NEW c, c = IF a + 1 = MillisRange THEN 0 ELSE a + 1
    PROVE  /\ c \in Millis
           /\ Elapsed(c, b) <= Elapsed(a, b) + 1
           /\ Elapsed(c, b) <= MaxSilence
  BY MillisRangeAssumption, MaxSilenceAssumption DEF Elapsed, Millis

(***************************************************************************)
(* The invariant: the shape of the registry, and the time stamps.          *)
(***************************************************************************)
Inv == GatewayTypeOK /\ LastSeenNeverOlder

\* The part of LastSeenNeverOlder about one slot.
SlotFresh(r, i, now, quiet) ==
    Elapsed(now, r.devices[i].info.lastSeen) <= quiet[r.devices[i].info.deviceId]

\* LastSeenNeverOlder, slot by slot.
LEMMA FreshSlots ==
    LastSeenNeverOlder <=>
      \A i \in 1 .. registry.deviceCount :
        /\ SlotFresh(registry, i, millis, silence)
        /\ pc = "sweeping" => SlotFresh(registry, i, sweep.currentTime, silence)
  BY DEF LastSeenNeverOlder, SlotFresh

\* What the type invariant says of a used slot.
LEMMA UsedSlot ==
    ASSUME NEW r, RegistryOk(r), NEW i \in 1 .. r.deviceCount
    PROVE  /\ i \in Slots
           /\ r.devices[i].info.deviceId \in DeviceIds
           /\ r.devices[i].info.lastSeen \in Millis
  <1>1. r \in Registry /\ r.deviceCount \in 0 .. MaxDevices
    BY DEF RegistryOk, Registry
  <1>2. i \in Slots
    BY <1>1, MaxDevicesAssumption DEF Slots
  <1>3. r.devices[i] \in InternalDeviceInfo
    BY <1>1, <1>2 DEF Registry
  <1> QED BY <1>2, <1>3 DEF RegistryOk, DevicesDistinct, InternalDeviceInfo, DeviceInfo

SweepType == [i : Nat \ {0}, deviceCount : 0 .. MaxDevices, currentTime : Millis]

\* The clock starts in its range.
LEMMA ZeroMillis == 0 \in Millis
  BY MillisRangeAssumption DEF Millis

\* The record between two sweeps has the type of a sweep.
LEMMA NoSweepType == NoSweep \in SweepType
  BY ZeroMillis, MaxDevicesAssumption DEF NoSweep, SweepType

\* The invariant holds at boot.
LEMMA InitInv == Init => Inv
  <1> SUFFICES ASSUME Init PROVE Inv
    OBVIOUS
  <1>1. silence \in [DeviceIds -> 0 .. MaxSilence]
    BY MaxSilenceAssumption DEF Init
  <1>2. sweep \in SweepType
    BY NoSweepType DEF Init
  <1>3. /\ RegistryOk(registry)
        /\ 1 .. registry.deviceCount = {}
    BY EmptyRegistryOk DEF Init, EmptyRegistry
  <1>4. GatewayTypeOK
    BY <1>1, <1>2, <1>3, ZeroMillis DEF Init, GatewayTypeOK, SweepType
  <1> QED BY <1>3, <1>4 DEF Inv, LastSeenNeverOlder

(***************************************************************************)
(* One lemma per action that changes the registry, the clock or the sweep. *)
(***************************************************************************)
LEMMA ResetInv ==
    ASSUME Inv, Reset PROVE Inv'
  <1>1. /\ RegistryOk(registry')
        /\ 1 .. registry'.deviceCount = {}
    BY EmptyRegistryOk DEF Reset, EmptyRegistry
  <1>2. sweep' \in SweepType
    BY NoSweepType DEF Reset
  <1>3. GatewayTypeOK'
    BY <1>1, <1>2, ZeroMillis DEF Inv, Reset, GatewayTypeOK, SweepType
  <1> QED BY <1>1, <1>3 DEF Inv, LastSeenNeverOlder

\* Steps that leave the registry, the clock, the history and the sweep alone.
LEMMA QuietInv ==
    ASSUME Inv, UNCHANGED <<registry, millis, lastDeviceTimeoutCheck, silence>>,
           pc' \in {"setup", "sweep", "lora", "fault"},
           iterated' \in BOOLEAN, sweep' \in {sweep, NoSweep}
    PROVE  Inv'
  <1>1. sweep' \in SweepType
    BY NoSweepType DEF Inv, GatewayTypeOK, SweepType
  <1>2. GatewayTypeOK'
    BY <1>1 DEF Inv, GatewayTypeOK, SweepType
  <1> QED BY <1>2 DEF Inv, LastSeenNeverOlder

\* A sweep starts with the clock's reading: no device looks older to it than to
\* the clock.
LEMMA BeginSweepInv ==
    ASSUME Inv, BeginSweep PROVE Inv'
  <1>1. sweep' \in SweepType /\ sweep'.currentTime = millis
    BY MaxDevicesAssumption
    DEF Inv, GatewayTypeOK, BeginSweep, SweepType, RegistryOk, Registry
  <1>2. GatewayTypeOK'
    BY <1>1 DEF Inv, GatewayTypeOK, BeginSweep, SweepType
  <1> QED BY <1>1, <1>2 DEF Inv, LastSeenNeverOlder, BeginSweep

\* One turn of the sweep keeps the invariant, whichever device the slot holds by
\* now and if it is zeroed.
LEMMA SweepSlotInv ==
    ASSUME Inv, SweepSlot PROVE Inv'
  <1> DEFINE info == registry.devices[sweep.i].info
  <1>1. RegistryOk(registry) /\ sweep \in SweepType
    BY DEF Inv, GatewayTypeOK, SweepType
  <1>2. /\ RegistryOk(registry')
        /\ \A i \in 1 .. registry'.deviceCount :
             \E j \in 1 .. registry.deviceCount :
               registry'.devices[i] = registry.devices[j]
    <2>1. registry' \in {unregisterDevice(registry, info.deviceId), registry}
      BY DEF SweepSlot
    <2>2. CASE registry' = unregisterDevice(registry, info.deviceId)
      BY <1>1, <2>2, UnregisterDeviceOk
    <2>3. CASE registry' = registry
      BY <1>1, <2>3
    <2> QED BY <2>1, <2>2, <2>3
  <1>3. /\ sweep' \in SweepType
        /\ sweep'.currentTime = sweep.currentTime
    BY <1>1 DEF SweepSlot, SweepType
  <1>4. GatewayTypeOK'
    BY <1>2, <1>3 DEF Inv, GatewayTypeOK, SweepSlot, SweepType
  <1>5. UNCHANGED <<millis, pc, silence>>
    BY DEF SweepSlot
  <1>6. LastSeenNeverOlder'
    BY <1>2, <1>3, <1>5 DEF Inv, LastSeenNeverOlder
  <1> QED BY <1>4, <1>6 DEF Inv

\* Time passes: every age grows by one or wraps to a smaller one, and so does
\* every silence that is not at its bound.
LEMMA TickInv ==
    ASSUME Inv, Tick PROVE Inv'
  <1>1. /\ RegistryOk(registry)
        /\ millis \in Millis
        /\ silence \in [DeviceIds -> 0 .. MaxSilence]
        /\ sweep \in SweepType
    BY DEF Inv, GatewayTypeOK, SweepType
  <1>2. /\ millis' = IF millis + 1 = MillisRange THEN 0 ELSE millis + 1
        /\ \A d \in DeviceIds :
             silence'[d] = IF silence[d] < MaxSilence THEN silence[d] + 1 ELSE silence[d]
        /\ UNCHANGED <<registry, lastDeviceTimeoutCheck, sweep, pc>>
        /\ iterated' = FALSE
        /\ pc \in {"sweep", "sweeping", "lora"}
    BY DEF Tick, AfterTick
  <1>3. silence' \in [DeviceIds -> 0 .. MaxSilence]
    BY <1>1, MaxSilenceAssumption DEF Tick, AfterTick
  <1>4. millis' \in Millis
    BY <1>1, <1>2, MillisRangeAssumption DEF Millis
  <1>5. GatewayTypeOK'
    BY <1>1, <1>2, <1>3, <1>4 DEF Inv, GatewayTypeOK
  <1>6. ASSUME NEW i \in 1 .. registry.deviceCount
        PROVE  LET info == registry.devices[i].info
               IN  /\ Elapsed(millis', info.lastSeen) <= silence'[info.deviceId]
                   /\ pc = "sweeping" => Elapsed(sweep.currentTime, info.lastSeen)
                                           <= silence'[info.deviceId]
    <2> DEFINE info == registry.devices[i].info
               d == info.deviceId
               seen == info.lastSeen
    <2>1. d \in DeviceIds /\ seen \in Millis
      BY <1>1, UsedSlot
    <2>2. /\ Elapsed(millis, seen) <= silence[d]
          /\ pc = "sweeping" => Elapsed(sweep.currentTime, seen) <= silence[d]
      BY DEF Inv, LastSeenNeverOlder
    <2>3. /\ Elapsed(millis', seen) <= Elapsed(millis, seen) + 1
          /\ Elapsed(millis', seen) <= MaxSilence
          /\ Elapsed(millis', seen) \in Nat
          /\ Elapsed(millis, seen) \in Nat
      <3> HIDE DEF info, d, seen
      <3>1. /\ Elapsed(millis', seen) \in Nat
            /\ Elapsed(millis, seen) \in Nat
        BY <1>1, <1>4, <2>1, ElapsedRange
      <3>2. /\ Elapsed(millis', seen) <= Elapsed(millis, seen) + 1
            /\ Elapsed(millis', seen) <= MaxSilence
        BY <1>1, <1>2, <2>1, ElapsedTick
      <3> QED BY <3>1, <3>2
    <2>4. Elapsed(sweep.currentTime, seen) \in Nat
      <3>1. sweep.currentTime \in Millis
        BY <1>1 DEF SweepType
      <3> HIDE DEF info, d, seen
      <3> QED BY <2>1, <3>1, ElapsedRange
    <2>5. silence[d] \in 0 .. MaxSilence
      BY <1>1, <2>1
    <2>6. silence'[d] = IF silence[d] < MaxSilence THEN silence[d] + 1 ELSE silence[d]
      BY <1>2, <2>1
    <2> HIDE DEF d, seen, info
    <2>7. /\ Elapsed(millis', seen) <= silence'[d]
          /\ pc = "sweeping" => Elapsed(sweep.currentTime, seen) <= silence'[d]
      BY <2>2, <2>3, <2>4, <2>5, <2>6, MaxSilenceAssumption
    <2> QED BY <2>7 DEF d, seen, info
  <1> QED BY <1>2, <1>5, <1>6 DEF Inv, LastSeenNeverOlder

\* A handled message makes its device fresh and leaves the others as they were.
\* It is enough that every used slot is one used before, or is stamped now and
\* belongs to the device heard.
LEMMA HeardFresh ==
    ASSUME Inv, NEW d \in DeviceIds, Hears(d),
           RegistryOk(registry'),
           \A i \in 1 .. registry'.deviceCount :
             LET info == registry'.devices[i].info
             IN  \/ info.deviceId = d /\ info.lastSeen = millis
                 \/ /\ info.deviceId # d
                    /\ \E j \in 1 .. registry.deviceCount :
                         /\ registry.devices[j].info.deviceId = info.deviceId
                         /\ registry.devices[j].info.lastSeen = info.lastSeen,
           pc' = "sweep", iterated' = TRUE,
           UNCHANGED <<millis, lastDeviceTimeoutCheck, sweep>>
    PROVE  Inv'
  <1>1. /\ silence \in [DeviceIds -> 0 .. MaxSilence]
        /\ millis \in Millis
    BY DEF Inv, GatewayTypeOK
  <1>2. /\ silence' \in [DeviceIds -> 0 .. MaxSilence]
        /\ silence'[d] = 0
        /\ \A x \in DeviceIds : x # d => silence'[x] = silence[x]
    BY <1>1, MaxSilenceAssumption DEF Hears
  <1>3. GatewayTypeOK'
    BY <1>2 DEF Inv, GatewayTypeOK
  <1>4. ASSUME NEW i \in 1 .. registry'.deviceCount
        PROVE  LET info == registry'.devices[i].info
               IN  Elapsed(millis, info.lastSeen) <= silence'[info.deviceId]
    <2> DEFINE info == registry'.devices[i].info
    <2>1. info.deviceId \in DeviceIds
      BY UsedSlot
    <2>2. CASE info.deviceId = d /\ info.lastSeen = millis
      BY <1>1, <1>2, <2>2, ElapsedSelf
    <2>3. CASE /\ info.deviceId # d
               /\ \E j \in 1 .. registry.deviceCount :
                    /\ registry.devices[j].info.deviceId = info.deviceId
                    /\ registry.devices[j].info.lastSeen = info.lastSeen
      <3>1. Elapsed(millis, info.lastSeen) <= silence[info.deviceId]
        BY <2>3 DEF Inv, LastSeenNeverOlder
      <3>2. silence'[info.deviceId] = silence[info.deviceId]
        BY <1>2, <2>1, <2>3
      <3> QED BY <3>1, <3>2
    <2> QED BY <2>2, <2>3
  <1>5. LastSeenNeverOlder'
    BY <1>4 DEF LastSeenNeverOlder
  <1> QED BY <1>3, <1>5 DEF Inv

\* What an announcement does to the slots: those of its device are stamped, the
\* others stay as they were, in their places.
LEMMA DiscoverySlots ==
    ASSUME Inv, NEW entity \in EntityInfo, HandleDiscovery(entity)
    PROVE  /\ RegistryOk(registry')
           /\ \A i \in 1 .. registry'.deviceCount :
                LET info == registry'.devices[i].info
                IN  \/ info.deviceId = entity.deviceId /\ info.lastSeen = millis
                    \/ /\ info.deviceId # entity.deviceId
                       /\ i \in 1 .. registry.deviceCount
                       /\ registry.devices[i].info.deviceId = info.deviceId
                       /\ registry.devices[i].info.lastSeen = info.lastSeen
  <1> DEFINE d == entity.deviceId
             r == registry
             r1 == registerDevice(r, d, millis)
             r2 == updateDeviceLastSeen(r1, d, millis)
             r3 == registerEntity(r2, d, entity)
  <1>1. /\ RegistryOk(r)
        /\ millis \in Millis
        /\ d \in DeviceIds
    BY DEF Inv, GatewayTypeOK, EntityInfo
  <1>2. registry' = IF registerDeviceOk(r, d) THEN r3 ELSE r
    BY DEF HandleDiscovery, AfterDiscovery
  <1>3. CASE registerDeviceOk(r, d)
    <2>1. registry' = r3
      BY <1>2, <1>3
    <2>2. /\ RegistryOk(r1)
          /\ r1.deviceCount \in r.deviceCount .. r.deviceCount + 1
          /\ \A i \in 1 .. r.deviceCount : r1.devices[i] = r.devices[i]
          /\ r1.deviceCount # r.deviceCount
               => r1.devices[r1.deviceCount].info.deviceId = d
      BY <1>1, RegisterDeviceOk
    <2> HIDE DEF r1
    <2>3. /\ RegistryOk(r2)
          /\ r2.deviceCount = r1.deviceCount
          /\ \A i \in 1 .. r1.deviceCount :
               /\ r2.devices[i].info.deviceId = r1.devices[i].info.deviceId
               /\ r2.devices[i].info.lastSeen =
                    IF r1.devices[i].info.deviceId = d
                    THEN millis ELSE r1.devices[i].info.lastSeen
      BY <1>1, <2>2, UpdateDeviceLastSeenOk
    <2> HIDE DEF r2
    <2>4. /\ RegistryOk(r3)
          /\ r3.deviceCount = r2.deviceCount
          /\ \A i \in 1 .. r2.deviceCount :
               /\ r3.devices[i].info.deviceId = r2.devices[i].info.deviceId
               /\ r3.devices[i].info.lastSeen = r2.devices[i].info.lastSeen
      BY <2>3, RegisterEntityOk
    <2> HIDE DEF r3
    <2>5. r.deviceCount \in Nat
      BY <1>1, MaxDevicesAssumption DEF RegistryOk, Registry
    <2>6. ASSUME NEW i \in 1 .. r3.deviceCount
          PROVE  \/ r3.devices[i].info.deviceId = d /\ r3.devices[i].info.lastSeen = millis
                 \/ /\ r3.devices[i].info.deviceId # d
                    /\ i \in 1 .. r.deviceCount
                    /\ r.devices[i].info.deviceId = r3.devices[i].info.deviceId
                    /\ r.devices[i].info.lastSeen = r3.devices[i].info.lastSeen
      <3>1. i \in 1 .. r1.deviceCount /\ i \in 1 .. r2.deviceCount
        BY <2>3, <2>4
      <3>2. /\ r3.devices[i].info.deviceId = r1.devices[i].info.deviceId
            /\ r3.devices[i].info.lastSeen =
                 IF r1.devices[i].info.deviceId = d
                 THEN millis ELSE r1.devices[i].info.lastSeen
        BY <2>3, <2>4, <3>1
      <3>3. i \in 1 .. r.deviceCount \/ (r1.deviceCount # r.deviceCount /\ i = r1.deviceCount)
        BY <2>2, <2>5, <3>1
      <3> QED BY <2>2, <3>2, <3>3
    <2> QED BY <2>1, <2>4, <2>6
  <1>4. CASE ~ registerDeviceOk(r, d)
    <2>1. registry' = r /\ findDeviceIndex(r, d) = 0
      BY <1>2, <1>4 DEF registerDeviceOk, hasDevice
    <2>2. \A i \in 1 .. r.deviceCount : r.devices[i].info.deviceId # d
      BY <1>1, <2>1, FindDeviceIndex
    <2> QED BY <1>1, <2>1, <2>2
  <1> QED BY <1>3, <1>4

\* An announcement keeps the invariant: only its device is stamped, added or
\* given an entity, and that device has just been heard.
LEMMA HandleDiscoveryInv ==
    ASSUME Inv, NEW entity \in EntityInfo, HandleDiscovery(entity)
    PROVE  Inv'
  <1>1. /\ Hears(entity.deviceId)
        /\ entity.deviceId \in DeviceIds
        /\ pc' = "sweep"
        /\ iterated' = TRUE
        /\ UNCHANGED <<millis, lastDeviceTimeoutCheck, sweep>>
    BY DEF HandleDiscovery, NextIteration, EntityInfo
  <1>2. /\ RegistryOk(registry')
        /\ \A i \in 1 .. registry'.deviceCount :
             LET info == registry'.devices[i].info
             IN  \/ info.deviceId = entity.deviceId /\ info.lastSeen = millis
                 \/ /\ info.deviceId # entity.deviceId
                    /\ i \in 1 .. registry.deviceCount
                    /\ registry.devices[i].info.deviceId = info.deviceId
                    /\ registry.devices[i].info.lastSeen = info.lastSeen
    BY DiscoverySlots
  <1> QED BY <1>1, <1>2, HeardFresh

\* A value message keeps the invariant: it stamps the device that was heard.
LEMMA HandleValueInv ==
    ASSUME Inv, NEW d \in DeviceIds, NEW entityIds, HandleValue(d, entityIds)
    PROVE  Inv'
  <1> DEFINE r == registry
             q == updateDeviceLastSeen(r, d, millis)
  <1>1. RegistryOk(r) /\ millis \in Millis
    BY DEF Inv, GatewayTypeOK
  <1>2. /\ registry' = q
        /\ Hears(d)
        /\ pc' = "sweep"
        /\ iterated' = TRUE
        /\ UNCHANGED <<millis, lastDeviceTimeoutCheck, sweep>>
    BY DEF HandleValue, NextIteration
  <1>3. /\ RegistryOk(q)
        /\ q.deviceCount = r.deviceCount
        /\ \A i \in 1 .. r.deviceCount :
             /\ q.devices[i].info.deviceId = r.devices[i].info.deviceId
             /\ q.devices[i].info.lastSeen =
                  IF r.devices[i].info.deviceId = d
                  THEN millis ELSE r.devices[i].info.lastSeen
    BY <1>1, UpdateDeviceLastSeenOk
  <1> HIDE DEF q
  <1> QED BY <1>1, <1>2, <1>3, HeardFresh

\* A message that faults: nothing but the history moves, and the program is
\* no longer in the sweep.
LEMMA HandleUnregisteredValueInv ==
    ASSUME Inv, NEW d \in DeviceIds, NEW entityIds,
           HandleUnregisteredValue(d, entityIds)
    PROVE  Inv'
  <1>1. /\ RegistryOk(registry)
        /\ silence \in [DeviceIds -> 0 .. MaxSilence]
        /\ findDeviceIndex(registry, d) = 0
        /\ pc' = "fault"
        /\ UNCHANGED <<registry, millis, lastDeviceTimeoutCheck, sweep, iterated>>
    BY DEF Inv, GatewayTypeOK, HandleUnregisteredValue, hasDevice
  <1>2. /\ silence' \in [DeviceIds -> 0 .. MaxSilence]
        /\ \A x \in DeviceIds : x # d => silence'[x] = silence[x]
    BY <1>1, MaxSilenceAssumption DEF HandleUnregisteredValue, Hears
  <1>3. \A i \in 1 .. registry.deviceCount :
          /\ registry.devices[i].info.deviceId \in DeviceIds
          /\ registry.devices[i].info.deviceId # d
    BY <1>1, UsedSlot, FindDeviceIndex
  <1>4. GatewayTypeOK'
    BY <1>1, <1>2 DEF Inv, GatewayTypeOK
  <1>5. LastSeenNeverOlder'
    BY <1>1, <1>2, <1>3 DEF Inv, LastSeenNeverOlder
  <1> QED BY <1>4, <1>5 DEF Inv

\* Every step keeps the invariant.
LEMMA NextInv == Inv /\ [Next]_vars => Inv'
  <1> SUFFICES ASSUME Inv, [Next]_vars PROVE Inv'
    OBVIOUS
  <1>1. CASE UNCHANGED vars
    BY <1>1 DEF vars, Inv, GatewayTypeOK, LastSeenNeverOlder
  <1>2. CASE Setup \/ SkipSweep \/ EndSweep \/ NoMessage
    BY <1>2, QuietInv
    DEF Setup, SkipSweep, EndSweep, NoMessage, NextIteration, Inv, GatewayTypeOK
  <1>3. ASSUME NEW d \in DeviceIds, NEW asked, HandlePingRequest(d, asked)
        PROVE  Inv'
    BY <1>3, QuietInv DEF HandlePingRequest, NextIteration
  <1>4. CASE Reboot \/ PowerCycle
    BY <1>4, ResetInv DEF Reboot, PowerCycle
  <1>5. CASE BeginSweep
    BY <1>5, BeginSweepInv
  <1>6. CASE SweepSlot
    BY <1>6, SweepSlotInv
  <1>7. CASE Tick
    BY <1>7, TickInv
  <1>8. ASSUME NEW entity \in Announcements, HandleDiscovery(entity)
        PROVE  Inv'
    BY <1>8, HandleDiscoveryInv, AnnouncementsAssumption
  <1>9. ASSUME NEW d \in DeviceIds, NEW entityIds,
               HandleValue(d, entityIds) \/ HandleUnregisteredValue(d, entityIds)
        PROVE  Inv'
    BY <1>9, HandleValueInv, HandleUnregisteredValueInv
  <1> QED
    BY <1>1, <1>2, <1>3, <1>4, <1>5, <1>6, <1>7, <1>8, <1>9
    DEF Next, Program, Sweep, ReceivePacket

(***************************************************************************)
(* The registry keeps its shape and the time stamps never overstate an age *)
(* (GatewayTypeOK and LastSeenNeverOlder), in every execution.             *)
(***************************************************************************)
THEOREM Invariance == Spec => []Inv
  <1>1. Init => Inv
    BY InitInv
  <1>2. Inv /\ [Next]_vars => Inv'
    BY NextInv
  <1> QED BY <1>1, <1>2, PTL DEF Spec

\* The registry stays well formed between any two handlers.
THEOREM TypeCorrect == Spec => []GatewayTypeOK
  <1>1. Inv => GatewayTypeOK
    BY DEF Inv
  <1> QED BY <1>1, Invariance, PTL

\* No time stamp makes a device look older than it is.
THEOREM TimestampsSafe == Spec => []LastSeenNeverOlder
  <1>1. Inv => LastSeenNeverOlder
    BY DEF Inv
  <1> QED BY <1>1, Invariance, PTL

(***************************************************************************)
(* The sweep removes no device that was heard within the timeout.          *)
(***************************************************************************)

\* Only the sweep and a restart take a device out of the registry.
LEMMA HandlersKeepDevices ==
    ASSUME Inv, Next, ~ SweepSlot, ~ Reset
    PROVE  registeredIds(registry) \subseteq registeredIds(registry')
  <1>1. RegistryOk(registry) /\ millis \in Millis
    BY DEF Inv, GatewayTypeOK
  <1>2. ASSUME NEW entity \in Announcements, HandleDiscovery(entity)
        PROVE  registeredIds(registry) \subseteq registeredIds(registry')
    <2> DEFINE d == entity.deviceId
               r1 == registerDevice(registry, d, millis)
               r2 == updateDeviceLastSeen(r1, d, millis)
               r3 == registerEntity(r2, d, entity)
    <2>1. entity \in EntityInfo /\ d \in DeviceIds
      BY AnnouncementsAssumption DEF EntityInfo
    <2>2. RegistryOk(r1) /\ (registerDeviceOk(registry, d)
                               => registeredIds(r1) = registeredIds(registry) \cup {d})
      BY <1>1, <2>1, RegisterDeviceOk
    <2> HIDE DEF r1
    <2>3. RegistryOk(r2) /\ registeredIds(r2) = registeredIds(r1)
      BY <1>1, <2>2, UpdateDeviceLastSeenOk
    <2> HIDE DEF r2
    <2>4. registeredIds(r3) = registeredIds(r2)
      BY <2>1, <2>3, RegisterEntityOk
    <2>5. registry' = IF registerDeviceOk(registry, d) THEN r3 ELSE registry
      BY <1>2 DEF HandleDiscovery, AfterDiscovery, r1, r2
    <2> HIDE DEF r3
    <2> QED BY <2>2, <2>3, <2>4, <2>5
  <1>3. ASSUME NEW d \in DeviceIds, NEW entityIds, HandleValue(d, entityIds)
        PROVE  registeredIds(registry) \subseteq registeredIds(registry')
    BY <1>1, <1>3, UpdateDeviceLastSeenOk DEF HandleValue
  <1>4. ASSUME UNCHANGED registry
        PROVE  registeredIds(registry) \subseteq registeredIds(registry')
    BY <1>4
  <1>5. ASSUME NEW d \in DeviceIds, NEW x,
               HandlePingRequest(d, x) \/ HandleUnregisteredValue(d, x)
        PROVE  UNCHANGED registry
    BY <1>5 DEF HandlePingRequest, HandleUnregisteredValue
  <1>6. ASSUME Setup \/ SkipSweep \/ BeginSweep \/ EndSweep \/ NoMessage \/ Tick
        PROVE  UNCHANGED registry
    BY <1>6 DEF Setup, SkipSweep, BeginSweep, EndSweep, NoMessage, Tick
  <1> QED
    BY <1>2, <1>3, <1>4, <1>5, <1>6
    DEF Next, Program, Sweep, ReceivePacket, Reboot, PowerCycle

\* What a turn of the sweep removes has been silent for longer than the timeout,
\* since it looked old and no device looks older than it is.
LEMMA SweepRemovesSilent ==
    ASSUME Inv, SweepSlot, NEW d \in registeredIds(registry) \ registeredIds(registry')
    PROVE  silence[d] > NodeTimeout
  <1> DEFINE info == registry.devices[sweep.i].info
             age == Elapsed(sweep.currentTime, info.lastSeen)
  <1>1. /\ RegistryOk(registry)
        /\ sweep \in SweepType
        /\ silence \in [DeviceIds -> 0 .. MaxSilence]
    BY DEF Inv, GatewayTypeOK, SweepType
  <1>2. /\ age > NodeTimeout
        /\ registry' = unregisterDevice(registry, info.deviceId)
    BY DEF SweepSlot
  <1>3. d = info.deviceId
    BY <1>1, <1>2, UnregisterDeviceOk
  <1>4. sweep.i \in Slots
    BY <1>1, MaxDevicesAssumption DEF SweepSlot, SweepType, Slots
  <1>5. CASE sweep.i > registry.deviceCount
    <2>1. info.deviceId = 0
      BY <1>1, <1>4, <1>5 DEF RegistryOk, TailZeroed, ZeroSlot, ZeroInfo
    <2>2. d \in DeviceIds
      BY <1>1 DEF registeredIds, RegistryOk, DevicesDistinct
    <2> QED BY <1>3, <2>1, <2>2, DeviceIdsAssumption
  <1>6. CASE ~ (sweep.i > registry.deviceCount)
    <2>1. registry.deviceCount \in Nat
      BY <1>1, MaxDevicesAssumption DEF RegistryOk, Registry
    <2>2. sweep.i \in 1 .. registry.deviceCount
      BY <1>1, <1>6, <2>1 DEF SweepType
    <2>3. age <= silence[d]
      BY <1>3, <2>2 DEF Inv, LastSeenNeverOlder, SweepSlot
    <2>4. age \in Nat
      BY <1>1, <2>2, UsedSlot, ElapsedRange DEF SweepType
    <2>5. silence[d] \in Nat
      BY <1>1, <1>3, <2>2, UsedSlot
    <2> HIDE DEF age
    <2> QED BY <1>2, <2>3, <2>4, <2>5, NodeTimeoutAssumption
  <1> QED BY <1>5, <1>6

\* Whatever the table shifts under the sweep and however often the clock has
\* wrapped, a device that leaves the registry has been silent for longer than
\* the timeout, or the gateway has restarted.
THEOREM OnlySilentRemoved == Spec => OnlySilentDevicesRemoved
  <1> DEFINE Fair == \A d \in Registered \ registeredIds(registry') :
                       silence[d] > NodeTimeout \/ Reset
  <1>1. Inv /\ [Next]_vars => [Fair]_vars
    <2> SUFFICES ASSUME Inv, Next, NEW d \in Registered \ registeredIds(registry'),
                        ~ Reset
                 PROVE  silence[d] > NodeTimeout
      BY DEF Fair
    <2>1. SweepSlot
      BY HandlersKeepDevices DEF Registered
    <2> QED BY <2>1, SweepRemovesSilent DEF Registered
  <1> QED BY <1>1, Invariance, PTL DEF Spec, OnlySilentDevicesRemoved

-----------------------------------------------------------------------------
(***************************************************************************)
(* The registry as a directory: what each method does to the map from      *)
(* devices to the entities they announced.                                 *)
(***************************************************************************)

\* The directory holds the registered devices, and for the device of a slot
\* what that slot stores.
LEMMA DirectoryAt ==
    ASSUME NEW r, RegistryOk(r)
    PROVE  /\ DOMAIN DirectoryOf(r) = registeredIds(r)
           /\ DirectoryOf(r) = [d \in registeredIds(r) |-> DirectoryOf(r)[d]]
           /\ \A i \in 1 .. r.deviceCount :
                DirectoryOf(r)[r.devices[i].info.deviceId] = entitiesOf(r, i)
  <1>1. /\ DOMAIN DirectoryOf(r) = registeredIds(r)
        /\ DirectoryOf(r) = [d \in registeredIds(r) |-> DirectoryOf(r)[d]]
    BY DEF DirectoryOf
  <1>2. ASSUME NEW i \in 1 .. r.deviceCount
        PROVE  DirectoryOf(r)[r.devices[i].info.deviceId] = entitiesOf(r, i)
    <2> DEFINE d == r.devices[i].info.deviceId
               j == findDeviceIndex(r, d)
    <2>1. j \in 1 .. r.deviceCount /\ r.devices[j].info.deviceId = d
      <3>1. r.deviceCount \in Nat
        BY MaxDevicesAssumption DEF RegistryOk, Registry
      <3> QED BY <3>1, FindDeviceIndex
    <2>2. j = i
      <3> HIDE DEF j
      <3> QED BY <2>1 DEF RegistryOk, DevicesDistinct
    <2>3. d \in registeredIds(r)
      BY DEF registeredIds
    <2>4. DirectoryOf(r)[d] = entitiesOf(r, j)
      BY <2>3 DEF DirectoryOf
    <2> QED BY <2>2, <2>4
  <1> QED BY <1>1, <1>2

\* Two registries with the same devices, the slots of one holding what the
\* slots of the other hold, stand for the same directory.
LEMMA SameDirectory ==
    ASSUME NEW r, RegistryOk(r), NEW q, RegistryOk(q),
           \A i \in 1 .. q.deviceCount : \E j \in 1 .. r.deviceCount :
             /\ q.devices[i].info.deviceId = r.devices[j].info.deviceId
             /\ entitiesOf(q, i) = entitiesOf(r, j)
    PROVE  DirectoryOf(q) = [d \in registeredIds(q) |-> DirectoryOf(r)[d]]
  <1>1. ASSUME NEW d \in registeredIds(q)
        PROVE  DirectoryOf(q)[d] = DirectoryOf(r)[d]
    <2>1. PICK i \in 1 .. q.deviceCount : d = q.devices[i].info.deviceId
      BY DEF registeredIds
    <2>2. PICK j \in 1 .. r.deviceCount :
             /\ q.devices[i].info.deviceId = r.devices[j].info.deviceId
             /\ entitiesOf(q, i) = entitiesOf(r, j)
      OBVIOUS
    <2> QED BY <2>1, <2>2, DirectoryAt
  <1>2. DirectoryOf(q) = [d \in registeredIds(q) |-> DirectoryOf(q)[d]]
    BY DirectoryAt
  <1> QED BY <1>1, <1>2

\* A removal takes the device out of the directory and changes nothing else,
\* although the slots behind it move.
LEMMA UnregisterDeviceDirectory ==
    ASSUME NEW r, RegistryOk(r), NEW id
    PROVE  DirectoryOf(unregisterDevice(r, id)) =
             [d \in registeredIds(r) \ {id} |-> DirectoryOf(r)[d]]
  <1> DEFINE q == unregisterDevice(r, id)
  <1>1. /\ RegistryOk(q)
        /\ registeredIds(q) = registeredIds(r) \ {id}
        /\ \A i \in 1 .. q.deviceCount :
             \E j \in 1 .. r.deviceCount : q.devices[i] = r.devices[j]
    BY UnregisterDeviceOk
  <1> HIDE DEF q
  <1>2. \A i \in 1 .. q.deviceCount : \E j \in 1 .. r.deviceCount :
          /\ q.devices[i].info.deviceId = r.devices[j].info.deviceId
          /\ entitiesOf(q, i) = entitiesOf(r, j)
    BY <1>1 DEF entitiesOf
  <1>3. DirectoryOf(q) = [d \in registeredIds(q) |-> DirectoryOf(r)[d]]
    BY <1>1, <1>2, SameDirectory
  <1> QED BY <1>1, <1>3 DEF q

\* A time stamp is not in the directory.
LEMMA UpdateDeviceLastSeenDirectory ==
    ASSUME NEW r, RegistryOk(r), NEW id, NEW now \in Millis
    PROVE  DirectoryOf(updateDeviceLastSeen(r, id, now)) = DirectoryOf(r)
  <1> DEFINE idx == findDeviceIndex(r, id)
             q == updateDeviceLastSeen(r, id, now)
  <1>1. /\ RegistryOk(q)
        /\ registeredIds(q) = registeredIds(r)
        /\ q.deviceCount = r.deviceCount
        /\ \A i \in 1 .. r.deviceCount :
             q.devices[i].info.deviceId = r.devices[i].info.deviceId
    BY UpdateDeviceLastSeenOk
  <1>2. \A i \in 1 .. r.deviceCount :
          /\ q.devices[i].entities = r.devices[i].entities
          /\ q.devices[i].registeredEntityCount = r.devices[i].registeredEntityCount
    <2>1. CASE idx = 0
      BY <2>1 DEF updateDeviceLastSeen
    <2>2. CASE idx # 0
      <3>1. /\ idx \in 1 .. r.deviceCount
            /\ r \in Registry
            /\ 1 .. r.deviceCount \subseteq Slots
        BY <2>2, FindDeviceIndex, MaxDevicesAssumption DEF RegistryOk, Registry, Slots
      <3>2. q = [r EXCEPT !.devices[idx].info.lastSeen = now]
        BY <2>2 DEF updateDeviceLastSeen
      <3> HIDE DEF q, idx
      <3>3. /\ DOMAIN r = {"devices", "deviceCount"}
            /\ DOMAIN r.devices = Slots
            /\ \A i \in Slots : DOMAIN r.devices[i] =
                                  {"info", "entities", "registeredEntityCount"}
        BY <3>1 DEF Registry, InternalDeviceInfo
      <3>4. \A i \in Slots :
              /\ q.devices[i].entities = r.devices[i].entities
              /\ q.devices[i].registeredEntityCount = r.devices[i].registeredEntityCount
        BY <3>1, <3>2, <3>3
      <3> QED BY <3>1, <3>4
    <2> QED BY <2>1, <2>2
  <1> HIDE DEF q
  <1>3. \A i \in 1 .. q.deviceCount : \E j \in 1 .. r.deviceCount :
          /\ q.devices[i].info.deviceId = r.devices[j].info.deviceId
          /\ entitiesOf(q, i) = entitiesOf(r, j)
    BY <1>1, <1>2 DEF entitiesOf
  <1>4. DirectoryOf(q) = [d \in registeredIds(q) |-> DirectoryOf(r)[d]]
    BY <1>1, <1>3, SameDirectory
  <1> QED BY <1>1, <1>4, DirectoryAt DEF q

\* The number of registered devices is the number of slots in use.
LEMMA RegisteredCount ==
    ASSUME NEW r, RegistryOk(r)
    PROVE  Cardinality(registeredIds(r)) = r.deviceCount
  <1> DEFINE S == 1 .. r.deviceCount
             f == [i \in S |-> r.devices[i].info.deviceId]
  <1>1. r.deviceCount \in Nat
    BY MaxDevicesAssumption DEF RegistryOk, Registry
  <1>2. IsFiniteSet(S) /\ Cardinality(S) = r.deviceCount
    <2>1. /\ 1 \in Int /\ r.deviceCount \in Int
          /\ Cardinality(1 .. r.deviceCount) =
               IF 1 > r.deviceCount THEN 0 ELSE r.deviceCount - 1 + 1
          /\ IsFiniteSet(1 .. r.deviceCount)
      BY <1>1, FS_Interval
    <2> QED BY <1>1, <2>1
  <1>3. f \in Bijection(S, registeredIds(r))
    <2>1. \A i, j \in S : f[i] = f[j] => i = j
      BY DEF RegistryOk, DevicesDistinct
    <2>2. registeredIds(r) = {f[i] : i \in S}
      BY DEF registeredIds
    <2>3. f = [i \in S |-> f[i]]
      OBVIOUS
    <2> HIDE DEF f, S
    <2> QED BY <2>1, <2>2, <2>3 DEF Bijection, Injection, Surjection, IsInjective
  <1> HIDE DEF S, f
  <1> QED BY <1>2, <1>3, FS_Bijection DEF ExistsBijection

\* The number of entities of a device is the count its slot keeps.
LEMMA EntityCount ==
    ASSUME NEW r, RegistryOk(r), NEW i \in 1 .. r.deviceCount
    PROVE  /\ r.devices[i].registeredEntityCount \in 0 .. MaxEntities
           /\ Cardinality(entitiesOf(r, i)) = r.devices[i].registeredEntityCount
  <1> DEFINE slot == r.devices[i]
             count == slot.registeredEntityCount
             S == 1 .. count
             f == [k \in S |-> slot.entities[k]]
  <1>1. slot \in InternalDeviceInfo /\ StorageOk(slot)
    BY UsedSlot DEF RegistryOk, Registry
  <1>2. count \in 0 .. MaxEntities /\ count \in Nat
    BY <1>1, MaxEntitiesAssumption DEF InternalDeviceInfo
  <1>3. IsFiniteSet(S) /\ Cardinality(S) = count
    <2> HIDE DEF count
    <2>1. /\ Cardinality(1 .. count) = IF 1 > count THEN 0 ELSE count - 1 + 1
          /\ IsFiniteSet(1 .. count)
      BY <1>2, FS_Interval
    <2> QED BY <1>2, <2>1
  <1>4. f \in Bijection(S, entitiesOf(r, i))
    <2>1. \A k, l \in S : f[k] = f[l] => k = l
      BY <1>1 DEF StorageOk
    <2>2. entitiesOf(r, i) = {f[k] : k \in S}
      BY DEF entitiesOf
    <2>3. f = [k \in S |-> f[k]]
      OBVIOUS
    <2> HIDE DEF f, S
    <2> QED BY <2>1, <2>2, <2>3 DEF Bijection, Injection, Surjection, IsInjective
  <1>5. Cardinality(entitiesOf(r, i)) = count
    <2> HIDE DEF S, f, count, slot
    <2> QED BY <1>3, <1>4, FS_Bijection DEF ExistsBijection
  <1> QED BY <1>2, <1>5

\* The directory counts as the registry does.
LEMMA DirectoryCardinality ==
    ASSUME NEW S PROVE Directory!Cardinality(S) = Cardinality(S)
  BY DEF Directory!Cardinality, Cardinality

\* A device enters the directory with no entities; one that is in it stays as
\* it is.
LEMMA RegisterDeviceDirectory ==
    ASSUME NEW r, RegistryOk(r), NEW id \in DeviceIds, NEW now \in Millis,
           registerDeviceOk(r, id)
    PROVE  DirectoryOf(registerDevice(r, id, now)) =
             [x \in registeredIds(r) \cup {id} |->
                IF x \in registeredIds(r) THEN DirectoryOf(r)[x] ELSE {}]
  <1> DEFINE q == registerDevice(r, id, now)
             new == r.deviceCount + 1
  <1>1. /\ RegistryOk(q)
        /\ registeredIds(q) = registeredIds(r) \cup {id}
        /\ \A i \in 1 .. r.deviceCount : q.devices[i] = r.devices[i]
    BY RegisterDeviceOk
  <1>2. /\ r \in Registry
        /\ r.deviceCount \in Nat
    BY MaxDevicesAssumption DEF RegistryOk, Registry
  <1>3. CASE hasDevice(r, id)
    <2>1. q = r
      BY <1>3 DEF registerDevice
    <2>2. id \in registeredIds(r)
      BY <1>3, HasDevice
    <2> HIDE DEF q
    <2>3. DirectoryOf(r) = [x \in registeredIds(r) \cup {id} |->
                IF x \in registeredIds(r) THEN DirectoryOf(r)[x] ELSE {}]
      BY <2>2, DirectoryAt
    <2> QED BY <2>1, <2>3 DEF q
  <1>4. CASE ~ hasDevice(r, id)
    <2>2. /\ q.deviceCount = new
          /\ q.devices[new].info.deviceId = id
          /\ entitiesOf(q, new) = {}
      BY <1>4, RegisterDeviceNew
    <2>3. id \notin registeredIds(r)
      BY <1>4, HasDevice
    <2> HIDE DEF q
    <2>5. new \in 1 .. q.deviceCount
      BY <1>2, <2>2
    <2>6. DirectoryOf(q)[id] = {}
      BY <1>1, <2>2, <2>5, DirectoryAt
    <2>7. ASSUME NEW x \in registeredIds(r)
          PROVE  DirectoryOf(q)[x] = DirectoryOf(r)[x]
      <3>1. PICK i \in 1 .. r.deviceCount : x = r.devices[i].info.deviceId
        BY DEF registeredIds
      <3>2. i \in 1 .. q.deviceCount /\ q.devices[i] = r.devices[i]
        BY <1>1, <1>2, <2>2
      <3>3. entitiesOf(q, i) = entitiesOf(r, i)
        BY <3>2 DEF entitiesOf
      <3> QED BY <1>1, <3>1, <3>2, <3>3, DirectoryAt
    <2>8. DirectoryOf(q) = [x \in registeredIds(r) \cup {id} |-> DirectoryOf(q)[x]]
      BY <1>1, DirectoryAt
    <2>9. DirectoryOf(q) = [x \in registeredIds(r) \cup {id} |->
                IF x \in registeredIds(r) THEN DirectoryOf(r)[x] ELSE {}]
      BY <2>3, <2>6, <2>7, <2>8
    <2> QED BY <2>9 DEF q
  <1> QED BY <1>3, <1>4

\* An announced entity joins the others of its device, unless its number is
\* taken or the device is full.
LEMMA RegisterEntityDirectory ==
    ASSUME NEW r, RegistryOk(r), NEW entity \in EntityInfo,
           entity.deviceId \in registeredIds(r)
    PROVE  DirectoryOf(registerEntity(r, entity.deviceId, entity)) =
             [x \in registeredIds(r) |->
                IF x = entity.deviceId
                THEN Directory!WithEntity(DirectoryOf(r)[x], entity)
                ELSE DirectoryOf(r)[x]]
  <1> DEFINE id == entity.deviceId
             idx == findDeviceIndex(r, id)
             old == r.devices[idx]
             count == old.registeredEntityCount
             held == entitiesOf(r, idx)
             q == registerEntity(r, id, entity)
  <1>1. /\ r \in Registry
        /\ r.deviceCount \in Nat
        /\ idx \in 1 .. r.deviceCount
        /\ idx \in Slots
        /\ old.info.deviceId = id
    <2>1. r \in Registry /\ r.deviceCount \in Nat
      BY MaxDevicesAssumption DEF RegistryOk, Registry
    <2>2. idx # 0
      BY HasDevice DEF hasDevice
    <2>3. idx \in 1 .. r.deviceCount /\ old.info.deviceId = id
      BY <2>1, <2>2, FindDeviceIndex
    <2>4. idx \in Slots
      BY <2>3, UsedSlot
    <2> QED BY <2>1, <2>3, <2>4
  <1>2. /\ RegistryOk(q)
        /\ registeredIds(q) = registeredIds(r)
        /\ q.deviceCount = r.deviceCount
        /\ \A i \in 1 .. r.deviceCount :
             q.devices[i].info.deviceId = r.devices[i].info.deviceId
    BY RegisterEntityOk
  <1>3. /\ old \in InternalDeviceInfo
        /\ StorageOk(old)
        /\ count \in 0 .. MaxEntities
        /\ Cardinality(held) = count
        /\ DirectoryOf(r)[id] = held
    <2>1. old \in InternalDeviceInfo
      BY <1>1 DEF Registry
    <2>2. StorageOk(old)
      BY <1>1 DEF RegistryOk
    <2>3. count \in 0 .. MaxEntities /\ Cardinality(held) = count
      <3> HIDE DEF idx
      <3> QED BY <1>1, EntityCount
    <2>4. DirectoryOf(r)[id] = held
      <3> HIDE DEF idx
      <3> QED BY <1>1, DirectoryAt
    <2> QED BY <2>1, <2>2, <2>3, <2>4
  <1>4. storesEntity(r, idx, entity.entityId)
          <=> \E e \in held : e.entityId = entity.entityId
    <2> DEFINE k == entityIndex(old.entities, count, entity.entityId)
    <2>1. /\ k \in 0 .. count
          /\ k = 0 => \A l \in 1 .. count : old.entities[l].entityId # entity.entityId
          /\ k # 0 => old.entities[k].entityId = entity.entityId
      <3> HIDE DEF old
      <3> QED BY <1>3, EntityIndex
    <2>2. storesEntity(r, idx, entity.entityId) <=> k # 0
      BY DEF storesEntity
    <2>3. held = {old.entities[l] : l \in 1 .. count}
      BY DEF entitiesOf
    <2>4. count \in Nat
      BY <1>3, MaxEntitiesAssumption
    <2> HIDE DEF k, held, old, idx, count
    <2>5. CASE k = 0
      BY <2>1, <2>2, <2>3, <2>5
    <2>6. CASE k # 0
      <3>1. k \in 1 .. count
        BY <2>1, <2>4, <2>6
      <3> QED BY <2>1, <2>2, <2>3, <2>6, <3>1
    <2> QED BY <2>5, <2>6
  <1>5. CASE storesEntity(r, idx, entity.entityId) \/ count >= MaxEntities
    <2>1. q = r
      BY <1>5 DEF registerEntity
    <2>2. count >= MaxEntities => count = MaxEntities
      BY <1>3, MaxEntitiesAssumption
    <2>3. Directory!WithEntity(held, entity) = held
      <3> HIDE DEF held, count, idx
      <3> QED BY <1>3, <1>4, <1>5, <2>2, DirectoryCardinality DEF Directory!WithEntity
    <2>4. DirectoryOf(r) = [x \in registeredIds(r) |-> DirectoryOf(r)[x]]
      BY DirectoryAt
    <2>5. DirectoryOf(q) = [x \in registeredIds(r) |->
                IF x = id THEN Directory!WithEntity(DirectoryOf(r)[x], entity)
                          ELSE DirectoryOf(r)[x]]
      <3> HIDE DEF held, q, id
      <3> QED BY <1>3, <2>1, <2>3, <2>4
    <2> QED BY <2>5
  <1>6. CASE ~ (storesEntity(r, idx, entity.entityId) \/ count >= MaxEntities)
    <2>1. count + 1 \in EntitySlots /\ count # MaxEntities /\ count \in Nat
      BY <1>3, <1>6, MaxEntitiesAssumption DEF EntitySlots
    <2>5. entitiesOf(q, idx) = held \cup {entity}
      <3>1. count < MaxEntities
        BY <1>3, <1>6, MaxEntitiesAssumption
      <3> HIDE DEF idx
      <3> QED BY <1>1, <1>6, <3>1, RegisterEntitySlots
    <2> HIDE DEF q
    <2>6. Directory!WithEntity(held, entity) = held \cup {entity}
      <3> HIDE DEF held, count, idx
      <3> QED BY <1>3, <1>4, <1>6, <2>1, DirectoryCardinality DEF Directory!WithEntity
    <2>7. DirectoryOf(q)[id] = held \cup {entity}
      <3> HIDE DEF held, idx
      <3> QED BY <1>1, <1>2, <2>5, DirectoryAt
    <2>8. ASSUME NEW x \in registeredIds(r), x # id
          PROVE  DirectoryOf(q)[x] = DirectoryOf(r)[x]
      <3>1. PICK i \in 1 .. r.deviceCount : x = r.devices[i].info.deviceId
        BY DEF registeredIds
      <3>2. entitiesOf(q, i) = entitiesOf(r, i)
        BY <2>8, <3>1, RegisterEntitySlots DEF q
      <3> HIDE DEF idx
      <3> QED BY <1>2, <3>1, <3>2, DirectoryAt
    <2>9. DirectoryOf(q) = [x \in registeredIds(r) |-> DirectoryOf(q)[x]]
      BY <1>2, DirectoryAt
    <2>10. DirectoryOf(q) = [x \in registeredIds(r) |->
                IF x = id THEN Directory!WithEntity(DirectoryOf(r)[x], entity)
                          ELSE DirectoryOf(r)[x]]
      <3> HIDE DEF held, id
      <3> QED BY <1>3, <2>6, <2>7, <2>8, <2>9
    <2> QED BY <2>10 DEF q
  <1> QED BY <1>5, <1>6

-----------------------------------------------------------------------------
(***************************************************************************)
(* The gateway implements the directory: each of its steps is a step of    *)
(* the directory, or changes nothing of it.                                *)
(***************************************************************************)

\* At boot the directory is empty.
LEMMA DirectoryInit == Init => Directory!DirInit
  <1> SUFFICES ASSUME Init PROVE Directory!DirInit
    OBVIOUS
  <1>1. registeredIds(registry) = {}
    BY EmptyRegistryOk DEF Init
  <1>2. DirectoryOf(registry) = [d \in {} |-> {}]
    BY <1>1 DEF DirectoryOf
  <1> QED BY <1>2 DEF Init, Directory!DirInit

\* An announcement as a step of the directory.
LEMMA DiscoveryAnnounces ==
    ASSUME Inv, NEW entity \in Announcements, HandleDiscovery(entity)
    PROVE  Directory!Announce(entity)
  <1> DEFINE d == entity.deviceId
             r == registry
             r1 == registerDevice(r, d, millis)
             r2 == updateDeviceLastSeen(r1, d, millis)
             r3 == registerEntity(r2, d, entity)
             ids == registeredIds(r)
             dir == DirectoryOf(r)
             held == IF d \in ids THEN dir[d] ELSE {}
             dir3 == [x \in ids \cup {d} |->
                        IF x = d THEN Directory!WithEntity(held, entity) ELSE dir[x]]
  <1>1. /\ RegistryOk(r)
        /\ millis \in Millis
        /\ entity \in EntityInfo
        /\ d \in DeviceIds
        /\ r.deviceCount \in 0 .. MaxDevices
    BY AnnouncementsAssumption DEF Inv, GatewayTypeOK, EntityInfo, RegistryOk, Registry
  <1>2. /\ registry' = IF registerDeviceOk(r, d) THEN r3 ELSE r
        /\ announced' = {entity}
        /\ Hears(d)
    BY DEF HandleDiscovery, AfterDiscovery
  <1>3. /\ DOMAIN dir = ids
        /\ Cardinality(ids) = r.deviceCount
        /\ registerDeviceOk(r, d) <=> d \in ids \/ Cardinality(ids) < MaxDevices
    BY <1>1, DirectoryAt, RegisteredCount, HasDevice DEF registerDeviceOk
  <1>4. CASE registerDeviceOk(r, d)
    <2>1. /\ RegistryOk(r1)
          /\ registeredIds(r1) = ids \cup {d}
          /\ DirectoryOf(r1) = [x \in ids \cup {d} |-> IF x \in ids THEN dir[x] ELSE {}]
      <3>1. RegistryOk(r1) /\ registeredIds(r1) = ids \cup {d}
        BY <1>1, <1>4, RegisterDeviceOk
      <3>2. DirectoryOf(r1) = [x \in ids \cup {d} |-> IF x \in ids THEN dir[x] ELSE {}]
        BY <1>1, <1>4, RegisterDeviceDirectory
      <3> QED BY <3>1, <3>2
    <2> HIDE DEF r1
    <2>2. /\ RegistryOk(r2)
          /\ registeredIds(r2) = ids \cup {d}
          /\ DirectoryOf(r2) = DirectoryOf(r1)
      <3>1. RegistryOk(r2) /\ registeredIds(r2) = ids \cup {d}
        BY <1>1, <2>1, UpdateDeviceLastSeenOk
      <3>2. DirectoryOf(r2) = DirectoryOf(r1)
        BY <1>1, <2>1, UpdateDeviceLastSeenDirectory
      <3> QED BY <3>1, <3>2
    <2> HIDE DEF r2
    <2>3. DirectoryOf(r3) = [x \in ids \cup {d} |->
                               IF x = d THEN Directory!WithEntity(DirectoryOf(r2)[x], entity)
                                        ELSE DirectoryOf(r2)[x]]
      BY <1>1, <2>2, RegisterEntityDirectory
    <2> HIDE DEF r3, dir, ids
    <2>4. DirectoryOf(r2)[d] = held
      BY <2>1, <2>2
    <2>5. \A x \in ids \cup {d} : x # d => DirectoryOf(r2)[x] = dir[x]
      BY <2>1, <2>2
    <2>6. DirectoryOf(r3) = dir3
      <3> HIDE DEF held, d
      <3> QED BY <2>3, <2>4, <2>5
    <2>7. registry' = r3
      BY <1>2, <1>4
    <2> QED BY <1>2, <1>3, <1>4, <2>6, <2>7, DirectoryCardinality
            DEF Directory!Announce, Directory!Known, Directory!Hears, Hears, dir
  <1>5. CASE ~ registerDeviceOk(r, d)
    <2>1. registry' = r
      BY <1>2, <1>5
    <2> HIDE DEF ids
    <2> QED BY <1>2, <1>3, <1>5, <2>1, DirectoryCardinality
            DEF Directory!Announce, Directory!Known, Directory!Hears, Hears, dir
  <1> QED BY <1>4, <1>5

\* A value message, of a registered device or not, as a step of the directory.
LEMMA ValueHears ==
    ASSUME Inv, NEW d \in DeviceIds, NEW entityIds,
           HandleValue(d, entityIds) \/ HandleUnregisteredValue(d, entityIds)
    PROVE  Directory!Value(d)
  <1>1. /\ DirectoryOf(registry') = DirectoryOf(registry)
        /\ announced' = {}
        /\ Hears(d)
    <2>1. CASE HandleValue(d, entityIds)
      BY <2>1, UpdateDeviceLastSeenDirectory DEF HandleValue, Inv, GatewayTypeOK
    <2>2. CASE HandleUnregisteredValue(d, entityIds)
      BY <2>2 DEF HandleUnregisteredValue, Silent, NoData
    <2> QED BY <2>1, <2>2
  <1> QED BY <1>1 DEF Directory!Value, Directory!Hears, Hears

\* A turn of the sweep forgets the device it removes, or does nothing.
LEMMA SweepForgets ==
    ASSUME Inv, SweepSlot
    PROVE  (\E d \in DeviceIds : Directory!Forget(d)) \/ Directory!Idle
  <1> DEFINE id == registry.devices[sweep.i].info.deviceId
             ids == registeredIds(registry)
  <1>1. RegistryOk(registry)
    BY DEF Inv, GatewayTypeOK
  <1>2. /\ announced' = {}
        /\ UNCHANGED silence
        /\ registry' = unregisterDevice(registry, id) \/ UNCHANGED registry
    BY DEF SweepSlot, Silent, NoData
  <1>3. CASE registry' = unregisterDevice(registry, id) /\ id \in ids
    <2>1. /\ registeredIds(registry') = ids \ {id}
          /\ DirectoryOf(registry') = [x \in ids \ {id} |-> DirectoryOf(registry)[x]]
      BY <1>1, <1>3, UnregisterDeviceOk, UnregisterDeviceDirectory
    <2>2. silence[id] > NodeTimeout
      BY <1>3, <2>1, SweepRemovesSilent
    <2>3. id \in DeviceIds
      BY <1>1, <1>3 DEF registeredIds, RegistryOk, DevicesDistinct
    <2>4. DOMAIN DirectoryOf(registry) = ids
      BY <1>1, DirectoryAt
    <2> HIDE DEF id, ids
    <2>5. Directory!Forget(id)
      BY <1>2, <1>3, <2>1, <2>2, <2>4 DEF Directory!Forget, Directory!Known
    <2> QED BY <2>3, <2>5
  <1>4. CASE registry' = unregisterDevice(registry, id) /\ id \notin ids
    <2>1. findDeviceIndex(registry, id) = 0
      BY <1>1, <1>4, HasDevice DEF hasDevice
    <2>2. registry' = registry
      BY <1>4, <2>1 DEF unregisterDevice
    <2> QED BY <1>2, <2>2 DEF Directory!Idle
  <1>5. CASE UNCHANGED registry
    BY <1>2, <1>5 DEF Directory!Idle
  <1> QED BY <1>2, <1>3, <1>4, <1>5

\* A restart forgets every device.
LEMMA ResetRestarts ==
    ASSUME Reset PROVE Directory!Restart
  <1>1. registeredIds(registry') = {} /\ announced' = {} /\ UNCHANGED silence
    BY EmptyRegistryOk DEF Reset, Silent, NoData
  <1>2. DirectoryOf(registry') = [d \in {} |-> {}]
    BY <1>1 DEF DirectoryOf
  <1> QED BY <1>1, <1>2 DEF Directory!Restart

\* Every step of the gateway is a step of the directory, or a stutter.
LEMMA DirectoryNext ==
    Inv /\ [Next]_vars => [Directory!DirNext]_(Directory!dirVars)
  <1> SUFFICES ASSUME Inv, [Next]_vars
               PROVE  Directory!DirNext \/ UNCHANGED Directory!dirVars
    OBVIOUS
  <1>1. CASE UNCHANGED vars
    BY <1>1 DEF vars, Directory!dirVars
  <1>2. CASE Setup \/ SkipSweep \/ BeginSweep \/ EndSweep \/ NoMessage
    BY <1>2 DEF Setup, SkipSweep, BeginSweep, EndSweep, NoMessage, Silent, NoData,
                Directory!Idle, Directory!DirNext
  <1>3. ASSUME NEW d \in DeviceIds, NEW asked, HandlePingRequest(d, asked)
        PROVE  Directory!DirNext
    BY <1>3 DEF HandlePingRequest, NoData, Directory!Idle, Directory!DirNext
  <1>4. CASE Reboot \/ PowerCycle
    BY <1>4, ResetRestarts DEF Reboot, PowerCycle, Directory!DirNext
  <1>5. CASE SweepSlot
    BY <1>5, SweepForgets DEF Directory!DirNext
  <1>6. CASE Tick
    BY <1>6 DEF Tick, Directory!Passes, Directory!DirNext
  <1>7. ASSUME NEW entity \in Announcements, HandleDiscovery(entity)
        PROVE  Directory!DirNext
    BY <1>7, DiscoveryAnnounces DEF Directory!DirNext
  <1>8. ASSUME NEW d \in DeviceIds, NEW entityIds,
               HandleValue(d, entityIds) \/ HandleUnregisteredValue(d, entityIds)
        PROVE  Directory!DirNext
    BY <1>8, ValueHears DEF Directory!DirNext
  <1> QED
    BY <1>1, <1>2, <1>3, <1>4, <1>5, <1>6, <1>7, <1>8
    DEF Next, Program, Sweep, ReceivePacket

(***************************************************************************)
(* For every size of the table the registry and the loop implement the     *)
(* directory of devices: no shift of the table, no pointer, no zeroed slot *)
(* and no wrap of the clock shows through it.                              *)
(***************************************************************************)
THEOREM DirectoryImplemented == Spec => ImplementsDirectory
  <1>1. Init => Directory!DirInit
    BY DirectoryInit
  <1>2. Inv /\ [Next]_vars => [Directory!DirNext]_(Directory!dirVars)
    BY DirectoryNext
  <1> QED BY <1>1, <1>2, Invariance, PTL
          DEF Spec, ImplementsDirectory, Directory!DirectorySpec

-----------------------------------------------------------------------------
(***************************************************************************)
(* How long a silent device may stay.  A sweep passes over a device only   *)
(* when it removes the one in front of it, which moves the device down a   *)
(* slot: the slot bounds how often it can still happen.                    *)
(***************************************************************************)

\* The longest time from one sweep to the next.
Turn == CheckInterval + 1

\* Time since the last sweep started.
SweepAge == Elapsed(millis, lastDeviceTimeoutCheck)

\* How long the device of slot i may have been silent when a sweep has passed.
Stay(i) == NodeTimeout + (MaxDevices - i) * Turn

\* The longest silence of a registered device.
LongestStay == NodeTimeout + MaxDevices * Turn

\* A sweep starts at most Turn after the last one, and a sweep that was only
\* just due when the loop went round has not waited the last tick.
SweepsInTime ==
    /\ pc \in {"setup", "lora", "fault"} => SweepAge <= CheckInterval
    /\ pc = "lora" /\ SweepAge = CheckInterval => ~ iterated
    /\ pc = "sweep" => SweepAge <= Turn
    /\ pc = "sweep" /\ SweepAge = Turn => ~ iterated
    /\ pc = "sweeping" => /\ SweepAge <= 1
                          /\ iterated => SweepAge = 0
                          /\ sweep.currentTime = lastDeviceTimeoutCheck
                          /\ registry.deviceCount <= sweep.deviceCount

\* The device of slot i before the sweep has come to it: it was heard before
\* the sweep began, and one more removal in front of it is allowed for.
Awaits(info, i) ==
    /\ silence[info.deviceId] <= Stay(i - 1)
    /\ iterated => silence[info.deviceId] < Stay(i - 1)

\* The device of slot i after the last sweep.
Outstays(info, i) == silence[info.deviceId] <= Stay(i) + SweepAge

StaysInTurn ==
    \A i \in 1 .. registry.deviceCount :
      LET info == registry.devices[i].info
      IN  /\ Elapsed(millis, info.lastSeen) = silence[info.deviceId]
          /\ pc = "sweeping" =>
               /\ silence[info.deviceId] >= SweepAge
               /\ Elapsed(sweep.currentTime, info.lastSeen) =
                    silence[info.deviceId] - SweepAge
          /\ pc = "sweeping" /\ i >= sweep.i => Awaits(info, i)
          /\ pc # "sweeping" \/ i < sweep.i => Outstays(info, i)

\* One slot nearer to the front leaves room for one more turn.
LEMMA StaySteps ==
    ASSUME NEW i \in Int
    PROVE  /\ Stay(i) \in Int /\ Turn \in Nat /\ Turn >= 2 /\ LongestStay \in Nat
           /\ Turn = CheckInterval + 1
           /\ Stay(i - 1) = Stay(i) + Turn
           /\ i <= MaxDevices => NodeTimeout <= Stay(i)
           /\ i >= 1 => Stay(i) + Turn <= LongestStay
           /\ Turn <= LongestStay
  <1> DEFINE m == MaxDevices - i
  <1>1. /\ Turn \in Nat /\ Turn >= 2 /\ Turn = CheckInterval + 1
        /\ NodeTimeout \in Nat
        /\ MaxDevices \in Nat /\ MaxDevices >= 1
    BY CheckIntervalAssumption, NodeTimeoutAssumption, MaxDevicesAssumption DEF Turn
  <1>2. /\ Stay(i) = NodeTimeout + m * Turn
        /\ Stay(i - 1) = NodeTimeout + (m + 1) * Turn
        /\ LongestStay = NodeTimeout + MaxDevices * Turn
    <2>1. MaxDevices - (i - 1) = m + 1
      BY <1>1
    <2> QED BY <2>1 DEF Stay, LongestStay
  <1>3. ASSUME NEW x \in Int, NEW y \in Nat
        PROVE  /\ x * y \in Int
               /\ (x + 1) * y = x * y + y
               /\ x >= 0 => x * y >= 0
    OBVIOUS
  <1>4. MaxDevices * Turn >= Turn /\ MaxDevices * Turn \in Int
    <2>1. (MaxDevices - 1) * Turn >= 0 /\ (MaxDevices - 1) * Turn \in Int
      BY <1>1, <1>3
    <2>2. ((MaxDevices - 1) + 1) * Turn = (MaxDevices - 1) * Turn + Turn
      BY <1>1, <1>3
    <2>3. (MaxDevices - 1) + 1 = MaxDevices
      BY <1>1
    <2> QED BY <1>1, <2>1, <2>2, <2>3
  <1>5. i >= 1 => m * Turn + Turn <= MaxDevices * Turn
    <2> SUFFICES ASSUME i >= 1 PROVE m * Turn + Turn <= MaxDevices * Turn
      OBVIOUS
    <2>1. (i - 1) * Turn >= 0
      BY <1>1, <1>3
    <2>2. MaxDevices * Turn = m * Turn + Turn + (i - 1) * Turn
      BY <1>1
    <2>3. m * Turn \in Int /\ (i - 1) * Turn \in Int
      BY <1>1
    <2> HIDE DEF m
    <2> QED BY <1>1, <2>1, <2>2, <2>3
  <1>6. m \in Int /\ (i <= MaxDevices => m >= 0)
    BY <1>1
  <1>7. m * Turn \in Int /\ (m + 1) * Turn = m * Turn + Turn /\ (m >= 0 => m * Turn >= 0)
    BY <1>1, <1>3, <1>6
  <1> HIDE DEF m
  <1> QED BY <1>1, <1>2, <1>4, <1>5, <1>6, <1>7

\* What the invariants say of the device of a used slot.
LEMMA UsedSlotTimes ==
    ASSUME Inv, NEW i \in 1 .. registry.deviceCount
    PROVE  /\ i \in 1 .. MaxDevices /\ i \in Int
           /\ registry.devices[i].info.deviceId \in DeviceIds
           /\ registry.devices[i].info.lastSeen \in Millis
           /\ silence[registry.devices[i].info.deviceId] \in 0 .. MaxSilence
           /\ silence[registry.devices[i].info.deviceId] \in Nat
           /\ millis \in Millis
           /\ SweepAge \in Nat
  <1>1. RegistryOk(registry) /\ registry.deviceCount \in 0 .. MaxDevices
    BY DEF Inv, GatewayTypeOK, RegistryOk, Registry
  <1>2. /\ i \in 1 .. MaxDevices
        /\ registry.devices[i].info.deviceId \in DeviceIds
        /\ registry.devices[i].info.lastSeen \in Millis
    BY <1>1, UsedSlot DEF Slots
  <1>3. SweepAge \in Nat /\ millis \in Millis
    BY ElapsedRange DEF Inv, GatewayTypeOK, SweepAge
  <1>4. silence[registry.devices[i].info.deviceId] \in 0 .. MaxSilence
    BY <1>2 DEF Inv, GatewayTypeOK
  <1> QED BY <1>2, <1>3, <1>4, MaxSilenceAssumption

\* No device outstays its turns; one that a tick may still come to has one left.
LEMMA StayBounded ==
    ASSUME Inv, SweepsInTime, StaysInTurn, NEW i \in 1 .. registry.deviceCount
    PROVE  LET s == silence[registry.devices[i].info.deviceId]
           IN  /\ s <= LongestStay
               /\ iterated /\ pc \in {"sweep", "sweeping", "lora"} => s < LongestStay
  <1> DEFINE info == registry.devices[i].info
             s == silence[info.deviceId]
  <1>1. /\ i \in Int /\ i >= 1
        /\ s \in Nat /\ SweepAge \in Nat
        /\ sweep.i \in Nat
        /\ pc \in {"setup", "sweep", "sweeping", "lora", "fault"}
    BY UsedSlotTimes DEF Inv, GatewayTypeOK
  <1>2. /\ Stay(i) \in Int /\ Turn \in Nat /\ LongestStay \in Nat
        /\ Turn = CheckInterval + 1
        /\ CheckInterval \in Nat /\ CheckInterval >= 1
        /\ Stay(i - 1) = Stay(i) + Turn
        /\ Stay(i) + Turn <= LongestStay
    BY <1>1, StaySteps, CheckIntervalAssumption
  <1>3. /\ pc = "sweeping" /\ i >= sweep.i =>
             s <= Stay(i - 1) /\ (iterated => s < Stay(i - 1))
        /\ pc # "sweeping" \/ i < sweep.i => s <= Stay(i) + SweepAge
    BY DEF StaysInTurn, Awaits, Outstays
  <1> HIDE DEF s, info
  <1>4. s <= LongestStay
    BY <1>1, <1>2, <1>3 DEF SweepsInTime
  <1>5. iterated /\ pc \in {"sweep", "sweeping", "lora"} => s < LongestStay
    BY <1>1, <1>2, <1>3 DEF SweepsInTime
  <1> QED BY <1>4, <1>5 DEF s, info

\* The two invariants at boot and after a restart: no device, no time.
LEMMA BootInTurn ==
    ASSUME registry = EmptyRegistry, millis = 0, lastDeviceTimeoutCheck = 0, pc = "setup"
    PROVE  SweepsInTime /\ StaysInTurn
  <1>1. 1 .. registry.deviceCount = {}
    BY DEF EmptyRegistry
  <1>2. SweepAge = 0
    BY ZeroMillis, ElapsedSelf DEF SweepAge
  <1> QED BY <1>1, <1>2, CheckIntervalAssumption DEF SweepsInTime, StaysInTurn

\* The same for the state a restart leads to.
LEMMA ResetInTurn ==
    ASSUME Reset PROVE SweepsInTime' /\ StaysInTurn'
  <1>1. 1 .. registry'.deviceCount = {}
    BY DEF Reset, EmptyRegistry
  <1>2. SweepAge' = 0
    BY ZeroMillis, ElapsedSelf DEF Reset, SweepAge
  <1> QED BY <1>1, <1>2, CheckIntervalAssumption DEF Reset, SweepsInTime, StaysInTurn

\* Steps outside the sweep that leave the clock and the time of the last sweep
\* alone: a slot holds what a slot no further back held, or a device just heard.
LEMMA QuietInTurn ==
    ASSUME Inv, Inv', SweepsInTime, StaysInTurn, SweepsInTime',
           UNCHANGED <<millis, lastDeviceTimeoutCheck>>,
           pc # "sweeping", pc' # "sweeping",
           \A i \in 1 .. registry'.deviceCount :
             LET info == registry'.devices[i].info
             IN  \/ silence'[info.deviceId] = 0 /\ info.lastSeen = millis
                 \/ /\ i \in 1 .. registry.deviceCount
                    /\ info.deviceId = registry.devices[i].info.deviceId
                    /\ info.lastSeen = registry.devices[i].info.lastSeen
                    /\ silence'[info.deviceId] = silence[info.deviceId]
    PROVE  StaysInTurn'
  <1> SUFFICES ASSUME NEW i \in 1 .. registry'.deviceCount
               PROVE  LET info == registry'.devices[i].info
                      IN  /\ Elapsed(millis, info.lastSeen) = silence'[info.deviceId]
                          /\ silence'[info.deviceId] <= Stay(i) + SweepAge
    BY DEF StaysInTurn, Outstays, SweepAge
  <1> DEFINE info == registry'.devices[i].info
  <1>1. CASE silence'[info.deviceId] = 0 /\ info.lastSeen = millis
    <2>1. i \in 1 .. MaxDevices /\ MaxDevices \in Nat
      BY UsedSlot, MaxDevicesAssumption DEF Inv, GatewayTypeOK, Slots
    <2>2. Stay(i) \in Int /\ NodeTimeout <= Stay(i) /\ NodeTimeout \in Nat
      BY <2>1, StaySteps, NodeTimeoutAssumption
    <2>3. SweepAge \in Nat /\ Elapsed(millis, millis) = 0
      BY ElapsedRange, ElapsedSelf DEF Inv, GatewayTypeOK, SweepAge
    <2> HIDE DEF info
    <2>4. 0 <= Stay(i) + SweepAge
      BY <2>2, <2>3
    <2> QED BY <1>1, <2>3, <2>4 DEF info
  <1>2. CASE /\ i \in 1 .. registry.deviceCount
             /\ info.deviceId = registry.devices[i].info.deviceId
             /\ info.lastSeen = registry.devices[i].info.lastSeen
             /\ silence'[info.deviceId] = silence[info.deviceId]
    BY <1>2 DEF StaysInTurn, Outstays
  <1> QED BY <1>1, <1>2

\* A sweep that begins finds every device within its turns.
LEMMA BeginSweepInTurn ==
    ASSUME Inv, SweepsInTime, StaysInTurn, BeginSweep
    PROVE  SweepsInTime' /\ StaysInTurn'
  <1>1. /\ millis' = millis /\ lastDeviceTimeoutCheck' = millis
        /\ UNCHANGED <<registry, silence, iterated>>
        /\ pc = "sweep" /\ pc' = "sweeping"
        /\ sweep'.i = 1 /\ sweep'.currentTime = millis
        /\ sweep'.deviceCount = registry.deviceCount
    BY DEF BeginSweep
  <1>2. SweepAge' = 0
    BY <1>1, ElapsedSelf DEF SweepAge, Inv, GatewayTypeOK
  <1>3. SweepsInTime'
    BY <1>1, <1>2, MaxDevicesAssumption DEF SweepsInTime, Inv, GatewayTypeOK, RegistryOk, Registry
  <1>4. ASSUME NEW i \in 1 .. registry.deviceCount
        PROVE  LET info == registry.devices[i].info
               IN  /\ Elapsed(millis, info.lastSeen) = silence[info.deviceId]
                   /\ silence[info.deviceId] >= 0
                   /\ silence[info.deviceId] - 0 = silence[info.deviceId]
                   /\ silence[info.deviceId] <= Stay(i - 1)
                   /\ iterated => silence[info.deviceId] < Stay(i - 1)
    <2> DEFINE info == registry.devices[i].info
               s == silence[info.deviceId]
    <2>1. i \in Int /\ i >= 1 /\ s \in Nat /\ SweepAge \in Nat
      BY UsedSlotTimes
    <2>2. /\ Stay(i) \in Int /\ Turn \in Nat
          /\ Stay(i - 1) = Stay(i) + Turn
      BY <2>1, StaySteps
    <2>3. /\ Elapsed(millis, info.lastSeen) = s
          /\ s <= Stay(i) + SweepAge
          /\ SweepAge <= Turn
          /\ iterated => SweepAge # Turn
      BY <1>1 DEF StaysInTurn, Outstays, SweepsInTime
    <2>4. /\ s >= 0 /\ s - 0 = s /\ s <= Stay(i - 1)
          /\ iterated => s < Stay(i - 1)
      <3> HIDE DEF s, info
      <3> QED BY <2>1, <2>2, <2>3
    <2> QED BY <2>3, <2>4
  <1>5. StaysInTurn'
    <2>1. \A i \in 1 .. registry.deviceCount : i >= 1
      OBVIOUS
    <2> QED BY <1>1, <1>2, <1>4, <2>1 DEF StaysInTurn, Awaits
  <1> QED BY <1>3, <1>5

\* A sweep that ends has come to every slot in use.
LEMMA EndSweepInTurn ==
    ASSUME Inv, SweepsInTime, StaysInTurn, EndSweep
    PROVE  SweepsInTime' /\ StaysInTurn'
  <1>1. /\ UNCHANGED <<registry, millis, lastDeviceTimeoutCheck, silence, iterated>>
        /\ pc = "sweeping" /\ pc' = "lora"
        /\ sweep.i > sweep.deviceCount
    BY DEF EndSweep
  <1>2. /\ registry.deviceCount \in Nat /\ sweep.deviceCount \in Nat /\ sweep.i \in Nat
        /\ SweepAge \in Nat
    BY ElapsedRange, MaxDevicesAssumption
    DEF Inv, GatewayTypeOK, RegistryOk, Registry, SweepAge
  <1>3. SweepAge' = SweepAge
    BY <1>1 DEF SweepAge
  <1>4. SweepsInTime'
    BY <1>1, <1>2, <1>3, CheckIntervalAssumption DEF SweepsInTime
  <1>5. \A i \in 1 .. registry.deviceCount : i < sweep.i
    BY <1>1, <1>2 DEF SweepsInTime
  <1>6. StaysInTurn'
    BY <1>1, <1>3, <1>5 DEF StaysInTurn, Outstays
  <1> QED BY <1>4, <1>6

\* A turn of the sweep: it leaves a device that is not old within its turns,
\* and the device that moves into the place of one removed uses up a turn.
LEMMA SweepSlotInTurn ==
    ASSUME Inv, SweepsInTime, StaysInTurn, SweepSlot
    PROVE  SweepsInTime' /\ StaysInTurn'
  <1> DEFINE r == registry
             k == sweep.i
             info == r.devices[k].info
  <1>1. /\ UNCHANGED <<millis, lastDeviceTimeoutCheck, silence, iterated, pc>>
        /\ pc = "sweeping"
        /\ k <= sweep.deviceCount
        /\ registry' = IF Elapsed(sweep.currentTime, info.lastSeen) > NodeTimeout
                       THEN unregisterDevice(r, info.deviceId) ELSE r
        /\ sweep'.i = k + 1
        /\ sweep'.deviceCount = sweep.deviceCount
        /\ sweep'.currentTime = sweep.currentTime
    BY DEF SweepSlot, Inv, GatewayTypeOK
  <1>2. /\ RegistryOk(r)
        /\ r.deviceCount \in Nat /\ r.deviceCount <= MaxDevices /\ MaxDevices \in Nat
        /\ k \in Nat /\ k >= 1 /\ sweep.deviceCount \in Nat
        /\ sweep.deviceCount <= MaxDevices
        /\ r.deviceCount <= sweep.deviceCount
        /\ SweepAge \in Nat
    BY <1>1, ElapsedRange, MaxDevicesAssumption
    DEF Inv, GatewayTypeOK, RegistryOk, Registry, SweepAge, SweepsInTime
  <1>3. SweepAge' = SweepAge
    BY <1>1 DEF SweepAge
  <1>4. ASSUME NEW i \in 1 .. r.deviceCount
        PROVE  LET x == r.devices[i].info
               IN  /\ silence[x.deviceId] \in Nat
                   /\ Stay(i) \in Int /\ Turn \in Nat
                   /\ Stay(i - 1) = Stay(i) + Turn
                   /\ NodeTimeout <= Stay(i)
                   /\ Elapsed(millis, x.lastSeen) = silence[x.deviceId]
                   /\ silence[x.deviceId] >= SweepAge
                   /\ Elapsed(sweep.currentTime, x.lastSeen) =
                        silence[x.deviceId] - SweepAge
                   /\ i >= k => Awaits(x, i)
                   /\ i < k => Outstays(x, i)
    BY <1>1, <1>2, UsedSlotTimes, StaySteps DEF StaysInTurn
  <1>5. SweepsInTime' <=> registry'.deviceCount <= sweep.deviceCount
    BY <1>1, <1>3 DEF SweepsInTime
  <1> HIDE DEF k
  <1>6. ASSUME registry' = r,
               k <= r.deviceCount
                 => Elapsed(sweep.currentTime, info.lastSeen) <= NodeTimeout
        PROVE  SweepsInTime' /\ StaysInTurn'
    <2>1. SweepsInTime'
      BY <1>2, <1>5, <1>6
    <2>2. ASSUME NEW i \in 1 .. r.deviceCount, i < k + 1
          PROVE  Outstays(r.devices[i].info, i)
      <3>1. CASE i < k
        BY <1>4, <3>1
      <3>2. CASE i = k
        <4> DEFINE s == silence[r.devices[i].info.deviceId]
        <4>1. /\ s \in Nat /\ Stay(i) \in Int /\ NodeTimeout <= Stay(i)
              /\ s - SweepAge <= NodeTimeout
          BY <1>4, <1>6, <3>2
        <4> HIDE DEF s
        <4>2. s <= Stay(i) + SweepAge
          BY <1>2, <4>1, NodeTimeoutAssumption
        <4> QED BY <4>2 DEF Outstays, s
      <3> QED BY <1>2, <2>2, <3>1, <3>2
    <2>3. ASSUME NEW i \in 1 .. r.deviceCount, i >= k + 1
          PROVE  Awaits(r.devices[i].info, i)
      BY <1>2, <1>4, <2>3
    <2>4. StaysInTurn'
      BY <1>1, <1>3, <1>4, <1>6, <2>2, <2>3 DEF StaysInTurn, Awaits, Outstays
    <2> QED BY <2>1, <2>4
  <1>7. CASE k <= r.deviceCount /\ Elapsed(sweep.currentTime, info.lastSeen) > NodeTimeout
    <2> DEFINE from(i) == IF i < k THEN i ELSE i + 1
               last == r.deviceCount - 1
    <2>1. k \in 1 .. r.deviceCount
      BY <1>2, <1>7
    <2>2. /\ registry'.deviceCount = last
          /\ \A i \in 1 .. last :
               registry'.devices[i] = IF i < k THEN r.devices[i] ELSE r.devices[i + 1]
      BY <1>1, <1>2, <1>7, <2>1, UnregisterDeviceShifts
    <2>3. SweepsInTime'
      BY <1>2, <1>5, <2>2
    <2>4. \A i \in 1 .. last : /\ from(i) \in 1 .. r.deviceCount
                              /\ registry'.devices[i] = r.devices[from(i)]
      BY <1>2, <2>1, <2>2
    <2>5. ASSUME NEW i \in 1 .. last, i < k + 1
          PROVE  Outstays(r.devices[from(i)].info, i)
      <3>1. CASE i < k
        BY <1>4, <2>4, <3>1
      <3>2. CASE i = k
        <4> DEFINE s == silence[r.devices[i + 1].info.deviceId]
        <4>1. i + 1 \in 1 .. r.deviceCount /\ i + 1 >= k /\ from(i) = i + 1
              /\ (i + 1) - 1 = i /\ i \in 1 .. r.deviceCount
          BY <1>2, <2>4, <3>2
        <4>2. s \in Nat /\ s <= Stay(i) /\ Stay(i) \in Int
          BY <1>4, <4>1 DEF Awaits
        <4> HIDE DEF s
        <4>3. s <= Stay(i) + SweepAge
          BY <1>2, <4>2
        <4> QED BY <4>1, <4>3 DEF Outstays, s
      <3> QED BY <1>2, <2>5, <3>1, <3>2
    <2>6. ASSUME NEW i \in 1 .. last, i >= k + 1
          PROVE  Awaits(r.devices[from(i)].info, i)
      <3> DEFINE s == silence[r.devices[i + 1].info.deviceId]
      <3>1. i + 1 \in 1 .. r.deviceCount /\ i + 1 >= k /\ from(i) = i + 1
            /\ (i + 1) - 1 = i /\ i \in 1 .. r.deviceCount
        BY <1>2, <2>4, <2>6
      <3>2. /\ s \in Nat /\ s <= Stay(i) /\ (iterated => s < Stay(i))
            /\ Stay(i) \in Int /\ Stay(i - 1) = Stay(i) + Turn /\ Turn \in Nat
        BY <1>4, <3>1 DEF Awaits
      <3> HIDE DEF s
      <3>3. s <= Stay(i - 1) /\ (iterated => s < Stay(i - 1))
        BY <3>2
      <3> QED BY <3>1, <3>3 DEF Awaits, s
    <2> HIDE DEF from, last
    <2>7. ASSUME NEW i \in 1 .. last
          PROVE  LET x == registry'.devices[i].info
                 IN  /\ Elapsed(millis, x.lastSeen) = silence[x.deviceId]
                     /\ silence[x.deviceId] >= SweepAge
                     /\ Elapsed(sweep.currentTime, x.lastSeen) =
                          silence[x.deviceId] - SweepAge
                     /\ i >= k + 1 => Awaits(x, i)
                     /\ i < k + 1 => Outstays(x, i)
      BY <1>4, <2>4, <2>5, <2>6
    <2>8. StaysInTurn'
      BY <1>1, <1>3, <2>2, <2>7 DEF StaysInTurn, Awaits, Outstays
    <2> QED BY <2>3, <2>8
  <1>8. CASE k > r.deviceCount
    <2>1. k \in Slots
      BY <1>1, <1>2, <1>8 DEF Slots
    <2>2. info.deviceId = 0
      BY <1>2, <1>8, <2>1 DEF RegistryOk, TailZeroed, ZeroSlot, ZeroInfo
    <2>3. findDeviceIndex(r, info.deviceId) = 0
      <3>1. 0 \notin registeredIds(r)
        BY <1>2, DeviceIdsAssumption DEF registeredIds, RegistryOk, DevicesDistinct
      <3> QED BY <1>2, <2>2, <3>1, HasDevice DEF hasDevice
    <2>4. registry' = r
      BY <1>1, <2>3 DEF unregisterDevice
    <2>5. ~ (k <= r.deviceCount)
      BY <1>2, <1>8
    <2> QED BY <1>6, <2>4, <2>5
  <1>9. CASE k <= r.deviceCount /\ ~ (Elapsed(sweep.currentTime, info.lastSeen) > NodeTimeout)
    <2>1. registry' = r
      BY <1>1, <1>9
    <2>2. Elapsed(sweep.currentTime, info.lastSeen) <= NodeTimeout
      <3>1. k \in 1 .. r.deviceCount
        BY <1>2, <1>9
      <3>2. Elapsed(sweep.currentTime, info.lastSeen) \in Int
        BY <1>2, <1>4, <3>1
      <3> QED BY <1>9, <3>2, NodeTimeoutAssumption
    <2> QED BY <1>6, <2>1, <2>2
  <1> QED BY <1>2, <1>7, <1>8, <1>9

\* Time passes: no clock reading wraps onto a device within its turns.
LEMMA TickInTurn ==
    ASSUME LongestStay < MillisRange, Inv, SweepsInTime, StaysInTurn, Tick
    PROVE  SweepsInTime' /\ StaysInTurn'
  <1>1. /\ millis' = AfterTick(millis)
        /\ UNCHANGED <<registry, lastDeviceTimeoutCheck, sweep, pc>>
        /\ iterated = TRUE /\ iterated' = FALSE
        /\ pc \in {"sweep", "sweeping", "lora"}
        /\ \A d \in DeviceIds :
             silence'[d] = IF silence[d] < MaxSilence THEN silence[d] + 1 ELSE silence[d]
    BY DEF Tick, Inv, GatewayTypeOK
  <1>2. /\ Turn = CheckInterval + 1 /\ Turn <= LongestStay
        /\ CheckInterval \in Nat /\ CheckInterval >= 1
        /\ LongestStay \in Nat
        /\ SweepAge \in Nat
        /\ millis \in Millis /\ lastDeviceTimeoutCheck \in Millis
        /\ sweep.currentTime \in Millis
        /\ MillisRange \in Nat
    <2>1. 1 \in Int
      OBVIOUS
    <2> QED
      BY <2>1, StaySteps, CheckIntervalAssumption, ElapsedRange, MillisRangeAssumption
      DEF Inv, GatewayTypeOK, SweepAge
  <1>3. SweepAge <= CheckInterval /\ SweepAge + 1 < MillisRange
    BY <1>1, <1>2 DEF SweepsInTime
  <1>4. SweepAge' = SweepAge + 1
    BY <1>1, <1>2, <1>3, ElapsedAfterTick DEF SweepAge
  <1>5. SweepsInTime'
    BY <1>1, <1>2, <1>3, <1>4 DEF SweepsInTime
  <1>6. ASSUME NEW i \in 1 .. registry.deviceCount
        PROVE  LET info == registry.devices[i].info
                   s == silence'[info.deviceId]
               IN  /\ Elapsed(millis', info.lastSeen) = s
                   /\ pc = "sweeping" =>
                        /\ s >= SweepAge'
                        /\ Elapsed(sweep.currentTime, info.lastSeen) = s - SweepAge'
                   /\ pc = "sweeping" /\ i >= sweep.i => s <= Stay(i - 1)
                   /\ pc # "sweeping" \/ i < sweep.i => s <= Stay(i) + SweepAge'
    <2> DEFINE info == registry.devices[i].info
               s == silence[info.deviceId]
               s2 == silence'[info.deviceId]
    <2>1. /\ i \in Int /\ info.deviceId \in DeviceIds /\ info.lastSeen \in Millis
          /\ s \in Nat
      BY UsedSlotTimes
    <2>2. s < LongestStay
      BY <1>1, StayBounded
    <2>3. s2 = s + 1
      BY <1>1, <1>2, <2>1, <2>2, MaxSilenceAssumption
    <2>4. /\ Elapsed(millis, info.lastSeen) = s
          /\ pc = "sweeping" =>
               /\ s >= SweepAge
               /\ Elapsed(sweep.currentTime, info.lastSeen) = s - SweepAge
          /\ pc = "sweeping" /\ i >= sweep.i => s <= Stay(i - 1) /\ s < Stay(i - 1)
          /\ pc # "sweeping" \/ i < sweep.i => s <= Stay(i) + SweepAge
      BY <1>1 DEF StaysInTurn, Awaits, Outstays
    <2>5. Elapsed(millis', info.lastSeen) = s + 1
      <3>1. Elapsed(millis, info.lastSeen) + 1 < MillisRange
        BY <1>2, <2>1, <2>2, <2>4
      <3> QED BY <1>1, <1>2, <2>1, <2>4, <3>1, ElapsedAfterTick
    <2>6. Stay(i) \in Int /\ Stay(i - 1) \in Int
      BY <2>1, StaySteps
    <2> HIDE DEF info, s, s2
    <2>7. /\ Elapsed(millis', info.lastSeen) = s2
          /\ pc = "sweeping" =>
               /\ s2 >= SweepAge'
               /\ Elapsed(sweep.currentTime, info.lastSeen) = s2 - SweepAge'
          /\ pc = "sweeping" /\ i >= sweep.i => s2 <= Stay(i - 1)
          /\ pc # "sweeping" \/ i < sweep.i => s2 <= Stay(i) + SweepAge'
      BY <1>2, <1>4, <2>1, <2>3, <2>4, <2>5, <2>6
    <2> QED BY <2>7 DEF info, s2
  <1>7. StaysInTurn'
    BY <1>1, <1>6 DEF StaysInTurn, Awaits, Outstays
  <1> QED BY <1>5, <1>7

\* The end of setup, the check that no sweep is due and the end of an iteration
\* keep the time between two sweeps.
LEMMA LoopInTime ==
    ASSUME Inv, SweepsInTime, UNCHANGED <<millis, lastDeviceTimeoutCheck>>,
           \/ pc \in {"setup", "lora"} /\ pc' \in {"sweep", "fault"}
           \/ SkipSweep
    PROVE  SweepsInTime'
  <1>1. /\ SweepAge' = SweepAge /\ SweepAge \in Nat
        /\ CheckInterval \in Nat /\ Turn = CheckInterval + 1
    BY ElapsedRange, CheckIntervalAssumption DEF SweepAge, Inv, GatewayTypeOK, Turn
  <1>2. CASE pc \in {"setup", "lora"} /\ pc' \in {"sweep", "fault"}
    BY <1>1, <1>2 DEF SweepsInTime
  <1>3. CASE SkipSweep
    <2>1. pc' = "lora" /\ SweepAge < CheckInterval
      BY <1>3 DEF SkipSweep, SweepAge
    <2> QED BY <1>1, <2>1 DEF SweepsInTime
  <1> QED BY <1>2, <1>3

\* Every step keeps both invariants.
LEMMA NextInTurn ==
    ASSUME LongestStay < MillisRange, Inv, Inv', SweepsInTime, StaysInTurn, [Next]_vars
    PROVE  SweepsInTime' /\ StaysInTurn'
  <1>1. CASE UNCHANGED vars
    BY <1>1 DEF vars, SweepsInTime, StaysInTurn, Awaits, Outstays, SweepAge
  <1>2. ASSUME Setup \/ SkipSweep \/ NoMessage
               \/ \E d \in DeviceIds, asked \in {GatewayAddress, Broadcast} :
                    HandlePingRequest(d, asked)
        PROVE  SweepsInTime' /\ StaysInTurn'
    <2>1. /\ UNCHANGED <<registry, millis, lastDeviceTimeoutCheck, silence>>
          /\ pc # "sweeping" /\ pc' # "sweeping"
          /\ (pc \in {"setup", "lora"} /\ pc' \in {"sweep", "fault"}) \/ SkipSweep
      BY <1>2 DEF Setup, SkipSweep, NoMessage, HandlePingRequest, NextIteration
    <2>2. SweepsInTime'
      BY <2>1, LoopInTime
    <2> QED BY <2>1, <2>2, QuietInTurn
  <1>3. CASE Reboot \/ PowerCycle
    BY <1>3, ResetInTurn DEF Reboot, PowerCycle
  <1>4. CASE BeginSweep
    BY <1>4, BeginSweepInTurn
  <1>5. CASE SweepSlot
    BY <1>5, SweepSlotInTurn
  <1>6. CASE EndSweep
    BY <1>6, EndSweepInTurn
  <1>7. CASE Tick
    BY <1>7, TickInTurn
  <1>8. ASSUME NEW d \in DeviceIds, Hears(d), pc = "lora", pc' \in {"sweep", "fault"},
               UNCHANGED <<millis, lastDeviceTimeoutCheck>>,
               \A i \in 1 .. registry'.deviceCount :
                 LET info == registry'.devices[i].info
                 IN  \/ info.deviceId = d /\ info.lastSeen = millis
                     \/ /\ info.deviceId # d
                        /\ i \in 1 .. registry.deviceCount
                        /\ registry.devices[i].info.deviceId = info.deviceId
                        /\ registry.devices[i].info.lastSeen = info.lastSeen
        PROVE  SweepsInTime' /\ StaysInTurn'
    <2>1. silence'[d] = 0 /\ \A x \in DeviceIds : x # d => silence'[x] = silence[x]
      BY <1>8 DEF Hears, Inv, GatewayTypeOK
    <2>2. SweepsInTime'
      BY <1>8, LoopInTime
    <2>3. \A i \in 1 .. registry'.deviceCount :
            registry'.devices[i].info.deviceId \in DeviceIds
      BY DEF Inv, GatewayTypeOK, RegistryOk, DevicesDistinct
    <2>4. \A i \in 1 .. registry'.deviceCount :
             LET info == registry'.devices[i].info
             IN  \/ silence'[info.deviceId] = 0 /\ info.lastSeen = millis
                 \/ /\ i \in 1 .. registry.deviceCount
                    /\ info.deviceId = registry.devices[i].info.deviceId
                    /\ info.lastSeen = registry.devices[i].info.lastSeen
                    /\ silence'[info.deviceId] = silence[info.deviceId]
      BY <1>8, <2>1, <2>3
    <2> QED BY <1>8, <2>2, <2>4, QuietInTurn
  <1>9. ASSUME NEW entity \in Announcements, HandleDiscovery(entity)
        PROVE  SweepsInTime' /\ StaysInTurn'
    <2>1. entity \in EntityInfo /\ entity.deviceId \in DeviceIds
      BY AnnouncementsAssumption DEF EntityInfo
    <2>2. /\ Hears(entity.deviceId) /\ pc = "lora" /\ pc' = "sweep"
          /\ UNCHANGED <<millis, lastDeviceTimeoutCheck>>
      BY <1>9 DEF HandleDiscovery, NextIteration
    <2> QED BY <1>8, <1>9, <2>1, <2>2, DiscoverySlots
  <1>10. ASSUME NEW d \in DeviceIds, NEW entityIds, HandleValue(d, entityIds)
         PROVE  SweepsInTime' /\ StaysInTurn'
    <2>1. /\ Hears(d) /\ pc = "lora" /\ pc' = "sweep"
          /\ UNCHANGED <<millis, lastDeviceTimeoutCheck>>
          /\ registry' = updateDeviceLastSeen(registry, d, millis)
      BY <1>10 DEF HandleValue, NextIteration
    <2>2. /\ registry'.deviceCount = registry.deviceCount
          /\ \A i \in 1 .. registry.deviceCount :
               /\ registry'.devices[i].info.deviceId = registry.devices[i].info.deviceId
               /\ registry'.devices[i].info.lastSeen =
                    IF registry.devices[i].info.deviceId = d
                    THEN millis ELSE registry.devices[i].info.lastSeen
      BY <2>1, UpdateDeviceLastSeenOk DEF Inv, GatewayTypeOK
    <2> QED BY <1>8, <2>1, <2>2
  <1>11. ASSUME NEW d \in DeviceIds, NEW entityIds, HandleUnregisteredValue(d, entityIds)
         PROVE  SweepsInTime' /\ StaysInTurn'
    <2>1. /\ Hears(d) /\ pc = "lora" /\ pc' = "fault"
          /\ UNCHANGED <<millis, lastDeviceTimeoutCheck, registry>>
          /\ findDeviceIndex(registry, d) = 0
      BY <1>11 DEF HandleUnregisteredValue, hasDevice
    <2>2. \A i \in 1 .. registry.deviceCount : registry.devices[i].info.deviceId # d
      BY <2>1, FindDeviceIndex DEF Inv, GatewayTypeOK
    <2> QED BY <1>8, <2>1, <2>2
  <1> QED
    BY <1>1, <1>2, <1>3, <1>4, <1>5, <1>6, <1>7, <1>9, <1>10, <1>11
    DEF Next, Program, Sweep, ReceivePacket

(***************************************************************************)
(* A device that stays silent leaves in time: as long as the clock's range *)
(* holds the time a full table may take to drop its devices one per sweep  *)
(* (55 minutes against 49.7 days in the code), no device is registered for *)
(* longer than that without being heard, although the sweep passes over    *)
(* the device behind each one it removes.                                  *)
(***************************************************************************)
THEOREM SilentLeaveInTime ==
    ASSUME LongestStay < MillisRange
    PROVE  Spec => []SilentDevicesLeaveInTime
  <1>1. Init => SweepsInTime /\ StaysInTurn
    BY BootInTurn DEF Init
  <1>2. Inv /\ Inv' /\ SweepsInTime /\ StaysInTurn /\ [Next]_vars
          => SweepsInTime' /\ StaysInTurn'
    BY NextInTurn
  <1>3. Inv /\ SweepsInTime /\ StaysInTurn => SilentDevicesLeaveInTime
    <2> SUFFICES ASSUME Inv, SweepsInTime, StaysInTurn, NEW d \in Registered
                 PROVE  silence[d] <= LongestStay
      BY DEF SilentDevicesLeaveInTime, LongestStay, Turn
    <2>1. PICK i \in 1 .. registry.deviceCount : d = registry.devices[i].info.deviceId
      BY DEF Registered, registeredIds
    <2> QED BY <2>1, StayBounded
  <1> QED BY <1>1, <1>2, <1>3, Invariance, PTL DEF Spec
=============================================================================

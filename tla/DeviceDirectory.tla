-------------------------- MODULE DeviceDirectory --------------------------
(***************************************************************************)
(* What the gateway promises about the devices it knows, with no table,    *)
(* slot, pointer or clock: a partial map from devices to the entities they *)
(* announced, bounded in both directions.  A device enters it by           *)
(* announcing an entity, its entities are only ever added to, and it       *)
(* leaves only after a long silence or when the gateway restarts.          *)
(***************************************************************************)
EXTENDS Naturals, FiniteSets

CONSTANTS MaxDevices, MaxEntities, DeviceIds,
          Announcements,    \* the entity metadata nodes may announce
          NodeTimeout,      \* silence after which a device may be forgotten
          MaxSilence        \* silence is not counted further than this

VARIABLES
    directory,   \* partial function: known devices -> set of their entities
    announced,   \* the announcement just taken in, if any
    silence      \* time since the gateway last handled a message of a device

dirVars == <<directory, announced, silence>>

Known == DOMAIN directory

DirInit == /\ directory = [d \in {} |-> {}]
           /\ announced = {}
           /\ silence = [d \in DeviceIds |-> MaxSilence]

Hears(d) == silence' = [silence EXCEPT ![d] = 0]

\* The entities of a device after it announced one more: an entity number
\* already held keeps its metadata, and a full device takes no more.
WithEntity(held, entity) ==
    IF \/ \E e \in held : e.entityId = entity.entityId
       \/ Cardinality(held) = MaxEntities
    THEN held
    ELSE held \cup {entity}

\* A device announces an entity.  A full directory takes no new device.
Announce(entity) ==
    LET d == entity.deviceId
        held == IF d \in Known THEN directory[d] ELSE {}
    IN  /\ Hears(d)
        /\ announced' = {entity}
        /\ IF d \in Known \/ Cardinality(Known) < MaxDevices
           THEN directory' = [x \in Known \cup {d} |->
                                IF x = d THEN WithEntity(held, entity)
                                         ELSE directory[x]]
           ELSE UNCHANGED directory

\* A value of a device is handled: nothing is learnt but that it is alive.
Value(d) == /\ Hears(d)
            /\ announced' = {}
            /\ UNCHANGED directory

\* A device is forgotten, and nothing else changes.
Forget(d) == /\ d \in Known
             /\ silence[d] > NodeTimeout
             /\ directory' = [x \in Known \ {d} |-> directory[x]]
             /\ announced' = {}
             /\ UNCHANGED silence

\* Nothing is persisted.
Restart == /\ directory' = [d \in {} |-> {}]
           /\ announced' = {}
           /\ UNCHANGED silence

\* The announcement is done with.
Idle == announced' = {} /\ UNCHANGED <<directory, silence>>

Passes == /\ silence' = [d \in DeviceIds |->
                           IF silence[d] < MaxSilence THEN silence[d] + 1
                                                      ELSE silence[d]]
          /\ UNCHANGED <<directory, announced>>

DirNext == \/ \E entity \in Announcements : Announce(entity)
           \/ \E d \in DeviceIds : Value(d) \/ Forget(d)
           \/ Restart
           \/ Idle
           \/ Passes

DirectorySpec == DirInit /\ [][DirNext]_dirVars
=============================================================================

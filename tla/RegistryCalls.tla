--------------------------- MODULE RegistryCalls ---------------------------
(***************************************************************************)
(* What the callers of the registry rely on: each of its methods happens   *)
(* at once, as the operators of DeviceRegistry say.                        *)
(***************************************************************************)
EXTENDS DeviceRegistry

CONSTANT Announcements    \* the entity metadata the nodes announce

VARIABLE table

CallsInit == table = EmptyRegistry

CallsNext ==
    \/ \E d \in DeviceIds : table' = unregisterDevice(table, d)
    \/ \E d \in DeviceIds : table' = registerDevice(table, d, 0)
    \/ \E entity \in Announcements :
         table' = registerEntity(table, entity.deviceId, entity)

CallsSpec == CallsInit /\ [][CallsNext]_table
=============================================================================

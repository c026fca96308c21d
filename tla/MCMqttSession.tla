--------------------------- MODULE MCMqttSession ---------------------------
(***************************************************************************)
(* Small instances of MqttSession for TLC.                                 *)
(***************************************************************************)
EXTENDS MqttSession

Announced(d, e, dom) == [deviceId |-> d, entityId |-> e, metadata |-> dom]

\* Two devices with one entity each that takes commands.
MCAnnouncements == {Announced(1, 0, "cover"), Announced(2, 0, "number")}
\* One device.
MCOneAnnouncement == {Announced(1, 0, "cover")}
=============================================================================

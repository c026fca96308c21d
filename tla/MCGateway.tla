----------------------------- MODULE MCGateway -----------------------------
(***************************************************************************)
(* Small instances of Gateway for TLC.                                     *)
(***************************************************************************)
EXTENDS Gateway

Announced(d, e, dom) == [deviceId |-> d, entityId |-> e, metadata |-> dom]

\* Device 1 has two entities and may announce entity 0 with a new domain; the
\* others have one entity each.
MCAnnouncements == {Announced(1, 0, "cover"), Announced(1, 1, "sensor"),
                    Announced(1, 0, "number"),
                    Announced(2, 0, "sensor"),
                    Announced(3, 1, "cover")}
=============================================================================

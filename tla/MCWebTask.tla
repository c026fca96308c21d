----------------------------- MODULE MCWebTask -----------------------------
(***************************************************************************)
(* A small instance of WebTask for TLC.                                    *)
(***************************************************************************)
EXTENDS WebTask

Announced(d, e, dom) == [deviceId |-> d, entityId |-> e, metadata |-> dom]

\* Both devices have an entity 0; device 2 also has one numbered 255.
MCAnnouncements == {Announced(1, 0, "cover"),
                    Announced(2, 0, "number"), Announced(2, 255, "number")}

Asked(path, d, e, given) ==
    [path |-> path, deviceId |-> d, entityId |-> e, given |-> given]

MCRequests == {Asked("discovery", 2, 0, {"deviceId"}),
               Asked("value-set", 2, 0, Params),
               Asked("value-set", 2, 255, Params),
               Asked("value-set", 2, 0, {"deviceId", "value"}),
               Asked("status", 1, 0, {}),
               Asked("other", 1, 0, {})}
=============================================================================

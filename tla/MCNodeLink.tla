----------------------------- MODULE MCNodeLink -----------------------------
(***************************************************************************)
(* Small instances of NodeLink for TLC: bytes of four values and numbers   *)
(* in tenths.                                                              *)
(***************************************************************************)
EXTENDS NodeLink

Item(e, domain, isSigned, size, precision, low, high) ==
    [entityId |-> e, domain |-> domain, deviceClass |-> 1, category |-> 1,
     unit |-> 2, format |-> [isSigned |-> isSigned, size |-> size, precision |-> precision],
     minValue |-> low, maxValue |-> high, name |-> <<65>>]

Entity(d, item) == [deviceId |-> d, item |-> item]

\* Two nodes with entities of every domain, of the same numbers: a signed sensor of
\* two bytes and one decimal (-0.8 .. 0.7) and a binary sensor; a number -2 .. -1 and
\* a cover.
MCEntities ==
    {Entity(1, Item(0, SENSOR, TRUE, 1, 1, asWord(-8), 7)),
     Entity(1, Item(1, BINARY_SENSOR, FALSE, 0, 0, 0, 1)),
     Entity(2, Item(0, NUMBER, TRUE, 0, 0, asWord(-2), asWord(-1))),
     Entity(2, Item(1, COVER, FALSE, 0, 0, 0, 3))}

MCNumbers == [x \in MCEntities |->
                CASE x.item.domain = BINARY_SENSOR -> {0, 10}
                  [] x.item.domain = SENSOR -> {-6, 7}
                  [] x.item.domain = NUMBER -> {-20}
                  [] OTHER -> {10}]
MCCommands == {-14, 14, 2540}

\* A binary sensor, and a number -2 .. 1.
MCSignedEntities ==
    {Entity(1, Item(0, BINARY_SENSOR, FALSE, 0, 0, 0, 1)),
     Entity(1, Item(1, NUMBER, TRUE, 0, 0, asWord(-2), 1))}

MCSignedNumbers == [x \in MCSignedEntities |-> {0, 10}]
MCSignedCommands == {-20}

\* What the table can hold of them.
MCMetadata == {x.item : x \in MCEntities}
MCSignedMetadata == {x.item : x \in MCSignedEntities}
=============================================================================

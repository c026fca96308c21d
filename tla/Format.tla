------------------------------- MODULE Format -------------------------------
(***************************************************************************)
(* How a number of an entity is represented: the class Format of           *)
(* src/include/Format.h, and the words it is carried in.  A number is an   *)
(* integer count of the finest step there is, 10^-MaxPrecision; the        *)
(* rounding of floats themselves is not modelled.                          *)
(***************************************************************************)
EXTENDS Integers

CONSTANTS
    ByteRange,       \* values of a byte of a number, 256 in the code
    MaxPrecision     \* decimals a format can have, 3 in the code

ASSUME ByteRangeAssumption == /\ ByteRange \in 2 .. 256
                              /\ ByteRange % 2 = 0
ASSUME MaxPrecisionAssumption == MaxPrecision \in 0 .. 3

\* The values of one, two and four bytes (sizes 0, 1 and 2).
RangeOf(size) == CASE size = 0 -> ByteRange
                   [] size = 1 -> ByteRange * ByteRange
                   [] OTHER -> ByteRange * ByteRange * ByteRange * ByteRange
WordRange == RangeOf(2)

Formats == [isSigned : BOOLEAN, size : 0 .. 2, precision : 0 .. MaxPrecision]

-----------------------------------------------------------------------------
(* The byte of a format: sign, size and precision. *)

toByte(format) ==
    (IF format.isSigned THEN 16 ELSE 0) + 4 * format.size + format.precision

\* Faulty variant of fromByte: the bits are shifted and not masked.
fromByteUnmasked(b) == [isSigned |-> (b \div 16) % 2 = 1,
                        size |-> b \div 4,
                        precision |-> b % 4]

fromByte(b) == [isSigned |-> (b \div 16) % 2 = 1,
                size |-> (b \div 4) % 4,
                precision |-> b % 4]

-----------------------------------------------------------------------------
(* Casts. *)

\* The low `range` of a word, read as a signed number.
signExtend(word, range) ==
    LET low == word % range
    IN  IF 2 * low >= range THEN low - range ELSE low

\* An integer as a word (uint32_t).
asWord(n) == n % WordRange

-----------------------------------------------------------------------------
(* Raw values and numbers. *)

\* One unit of a raw value, in finest steps.
Step(format) == 10^(MaxPrecision - format.precision)

fromRawValue(format, raw) ==
    Step(format) * (IF format.isSigned THEN signExtend(raw, RangeOf(format.size))
                                       ELSE raw)

\* round(): halves away from zero.
Rounded(n, step) == IF n >= 0 THEN (2 * n + step) \div (2 * step)
                    ELSE - ((step - 2 * n) \div (2 * step))

\* The set of outcomes.  The cast of a negative number to uint32_t is
\* undefined: it wraps, which the tests expect, or saturates at 0; one below
\* every signed word comes out as the lowest of them, one too large as the
\* largest word.
toRawValue(format, n) ==
    LET raw == Rounded(n, Step(format))
    IN  IF raw < 0
        THEN {0, IF -2 * raw <= WordRange THEN asWord(raw) ELSE WordRange \div 2}
        ELSE IF raw >= WordRange THEN {WordRange - 1}
        ELSE {raw}

\* The raw value is one that the format's size can hold.
isValidRawValue(format, raw) ==
    IF format.isSigned
    THEN asWord(signExtend(raw, RangeOf(format.size))) = raw
    ELSE raw < RangeOf(format.size)
=============================================================================

------------------------------ MODULE Machine ------------------------------
(***************************************************************************)
(* What the modules share: the unsigned clock millis() of the ESP32, which *)
(* wraps (every 49.7 days in the code), the two ways the code subtracts    *)
(* its readings, and the linear search of a fixed array.                   *)
(***************************************************************************)
EXTENDS Integers

CONSTANT MillisRange    \* number of values of millis(), 2^32 in the code

ASSUME MillisRangeAssumption == MillisRange \in Nat \ {0}

Millis == 0 .. MillisRange - 1

AfterTick(now) == IF now + 1 = MillisRange THEN 0 ELSE now + 1

\* Faulty variant of Elapsed: the distance of the two readings, whichever is
\* larger, as if millis() never wrapped.
ElapsedAbsolute(later, earlier) ==
    IF later >= earlier THEN later - earlier ELSE earlier - later

\* uint32_t subtraction of two readings.
Elapsed(later, earlier) ==
    IF later >= earlier THEN later - earlier
                        ELSE later - earlier + MillisRange

\* The same difference cast to int32_t: the upper half of the range is negative.
SignedElapsed(later, earlier) ==
    LET diff == Elapsed(later, earlier)
    IN  IF 2 * diff >= MillisRange THEN diff - MillisRange ELSE diff

\* The least element of a set of indices, 0 when it is empty: where a linear
\* search stops.
FirstIndex(S) ==
    IF S = {} THEN 0 ELSE CHOOSE i \in S : \A j \in S : i <= j
=============================================================================

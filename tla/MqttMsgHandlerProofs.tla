------------------------ MODULE MqttMsgHandlerProofs ------------------------
(***************************************************************************)
(* For every number of slots, devices and messages, and every interval: an *)
(* MQTT command is refused only for one of the causes the code names, up   *)
(* to the wrap of the signed time difference, and no stretch of one        *)
(* interval sees two full windows of messages of a device.                 *)
(***************************************************************************)
EXTENDS MqttMsgHandler, WellFoundedInduction, FiniteSetTheorems, TLAPS

-----------------------------------------------------------------------------
(* The clock and the linear search, for every width and every set of indices. *)

\* The unsigned difference of two readings is a reading.
LEMMA ElapsedRange ==
    ASSUME NEW a \in Millis, NEW b \in Millis
    PROVE  Elapsed(a, b) \in Millis /\ Elapsed(a, b) \in Nat
  BY MillisRangeAssumption DEF Elapsed, Millis

\* A reading is of age zero at the same reading.
LEMMA ElapsedSelf ==
    ASSUME NEW a \in Millis
    PROVE  Elapsed(a, a) = 0
  BY MillisRangeAssumption DEF Elapsed, Millis

\* When the clock advances an age grows by one, short of the clock's range.
LEMMA ElapsedAfterTick ==
    ASSUME NEW a \in Millis, NEW b \in Millis, Elapsed(a, b) + 1 < MillisRange
    PROVE  Elapsed(AfterTick(a), b) = Elapsed(a, b) + 1
  BY MillisRangeAssumption DEF Elapsed, AfterTick, Millis

\* Both differences agree up to half the range of the clock.
LEMMA SignedElapsedPositive ==
    ASSUME NEW a \in Millis, NEW b \in Millis
    PROVE  /\ SignedElapsed(a, b) \in Int
           /\ SignedElapsed(a, b) <= Elapsed(a, b)
           /\ 2 * Elapsed(a, b) < MillisRange => SignedElapsed(a, b) = Elapsed(a, b)
  <1> DEFINE diff == Elapsed(a, b)
  <1>1. diff \in Nat /\ MillisRange \in Nat
    BY ElapsedRange, MillisRangeAssumption
  <1>2. SignedElapsed(a, b) = IF 2 * diff >= MillisRange THEN diff - MillisRange ELSE diff
    BY DEF SignedElapsed
  <1> HIDE DEF diff
  <1>3. /\ SignedElapsed(a, b) \in Int
        /\ SignedElapsed(a, b) <= diff
        /\ 2 * diff < MillisRange => SignedElapsed(a, b) = diff
    BY <1>1, <1>2
  <1> QED BY <1>3 DEF diff

\* A search finds a matching index if there is one.
LEMMA FirstIndexFound ==
    ASSUME NEW S, NEW n \in Nat, S \subseteq 1 .. n
    PROVE  /\ S = {} => FirstIndex(S) = 0
           /\ S # {} => FirstIndex(S) \in S /\ FirstIndex(S) # 0
  <1>1. S = {} => FirstIndex(S) = 0
    BY DEF FirstIndex
  <1>2. ASSUME S # {} PROVE FirstIndex(S) \in S
    <2> DEFINE Least(x) == \A j \in S : x <= j
    <2>1. PICK x \in S : \A y \in S : ~ (<<y, x>> \in OpToRel(<, Nat))
      <3>1. S \subseteq Nat
        OBVIOUS
      <3> QED BY <1>2, <3>1, WFMin, NatLessThanWellFounded
    <2>2. ASSUME NEW y \in S PROVE ~ (y < x)
      <3>1. /\ <<y, x>> \in Nat \X Nat
            /\ OpToRel(<, Nat) = {ss \in Nat \X Nat : ss[1] < ss[2]}
        BY DEF OpToRel
      <3> QED BY <2>1, <3>1
    <2>3. Least(x)
      BY <2>2
    <2>4. FirstIndex(S) = CHOOSE y \in S : Least(y)
      BY <1>2 DEF FirstIndex
    <2> HIDE DEF Least
    <2> QED BY <2>3, <2>4
  <1> QED BY <1>1, <1>2

\* The time stamp of an entry tells the age of its window, until it wraps.
AgesMatch ==
    \A i \in Slots :
      LET entry == rateLimitTable[i]
      IN  entry.deviceId # InvalidDeviceId =>
            \/ WrappedEntry(entry.deviceId)
            \/ Elapsed(millis, entry.lastMessageTime) = windowAge[entry.deviceId]

Inv == RateLimitTypeOK /\ AgesMatch /\ RefusedForCause

\* A well-formed table: what RateLimitTypeOK says of rateLimitTable.
TableOK(table) ==
    /\ table \in [Slots -> RateLimitEntry]
    /\ \A i \in Slots :
         table[i].deviceId # InvalidDeviceId => table[i].messageCount >= 1
    /\ \A i, j \in Slots :
         /\ table[i].deviceId = table[j].deviceId
         /\ table[i].deviceId # InvalidDeviceId
         => i = j

\* The part of AgesMatch about one table.
AgesIn(table, now, age) ==
    \A i \in Slots :
      table[i].deviceId # InvalidDeviceId =>
        \/ age[table[i].deviceId] = HalfRange
        \/ Elapsed(now, table[i].lastMessageTime) = age[table[i].deviceId]

\* Half the clock's range is longer than any interval the code compares with.
LEMMA HalfRangeFacts ==
    /\ HalfRange \in Nat
    /\ MillisRange = 2 * HalfRange
    /\ HalfRange > StaleAfter
    /\ StaleAfter >= Interval
    /\ Interval \in Nat /\ Interval >= 1
    /\ StaleAfter \in Nat
  BY MillisRangeAssumption, RangeAssumption, StaleAfterAssumption,
     IntervalAssumption DEF HalfRange

\* The search of the table.
LEMMA SlotOf ==
    ASSUME NEW table, NEW id
    PROVE  /\ slotOf(table, id) = 0 => \A i \in Slots : table[i].deviceId # id
           /\ slotOf(table, id) # 0 => /\ slotOf(table, id) \in Slots
                                       /\ table[slotOf(table, id)].deviceId = id
  <1> DEFINE S == {i \in Slots : table[i].deviceId = id}
  <1>1. S \subseteq 1 .. MaxDevices /\ MaxDevices \in Nat
    BY MaxDevicesAssumption DEF Slots
  <1>2. slotOf(table, id) = FirstIndex(S)
    BY DEF slotOf
  <1>3. /\ S = {} => FirstIndex(S) = 0
        /\ S # {} => FirstIndex(S) \in S /\ FirstIndex(S) # 0
    <2> HIDE DEF S
    <2> QED BY <1>1, FirstIndexFound
  <1> QED BY <1>2, <1>3

\* An entry whose window has not wrapped: its signed age is its age.
LEMMA EntryAge ==
    ASSUME Inv, NEW i \in Slots, rateLimitTable[i].deviceId # InvalidDeviceId
    PROVE  LET d == rateLimitTable[i].deviceId
           IN  /\ d \in Commanded
               /\ windowAge[d] \in 0 .. HalfRange
               /\ WrappedEntry(d) \/ timeDiff(rateLimitTable[i]) = windowAge[d]
  <1> DEFINE d == rateLimitTable[i].deviceId
             t == rateLimitTable[i].lastMessageTime
  <1>1. /\ rateLimitTable[i] \in RateLimitEntry
        /\ windowAge \in [Commanded -> 0 .. HalfRange]
        /\ millis \in Millis
    BY DEF Inv, RateLimitTypeOK
  <1>2. d \in Commanded /\ t \in Millis
    BY <1>1 DEF RateLimitEntry
  <1>3. windowAge[d] \in 0 .. HalfRange
    BY <1>1, <1>2
  <1>4. CASE windowAge[d] # HalfRange
    <2>1. Elapsed(millis, t) = windowAge[d]
      BY <1>4 DEF Inv, AgesMatch, WrappedEntry
    <2>2. 2 * Elapsed(millis, t) < MillisRange
      BY <1>3, <1>4, <2>1, HalfRangeFacts
    <2>3. SignedElapsed(millis, t) = windowAge[d]
      BY <1>1, <1>2, <2>1, <2>2, SignedElapsedPositive
    <2> QED BY <1>2, <1>3, <2>3 DEF timeDiff
  <1> QED BY <1>2, <1>3, <1>4 DEF WrappedEntry

(***************************************************************************)
(* Each step keeps the invariant.                                          *)
(***************************************************************************)
\* The invariant holds at boot.
LEMMA InitInv == Init => Inv
  <1> SUFFICES ASSUME Init PROVE Inv
    OBVIOUS
  <1>1. /\ FreeEntry \in RateLimitEntry
        /\ 0 \in Millis
    BY MillisRangeAssumption, MaxPerIntervalAssumption
    DEF FreeEntry, RateLimitEntry, Millis
  <1>2. RateLimitTypeOK
    BY <1>1, HalfRangeFacts DEF Init, RateLimitTypeOK, FreeEntry
  <1>3. AgesMatch
    BY DEF Init, AgesMatch, FreeEntry
  <1>4. RefusedForCause
    BY DEF Init, RefusedForCause, NoOutcome
  <1> QED BY <1>2, <1>3, <1>4 DEF Inv

\* Cleaning only frees entries.
LEMMA CleanupOK ==
    ASSUME Inv
    PROVE  LET cleaned == cleanupStaleRateLimitEntries(rateLimitTable)
           IN  /\ TableOK(cleaned)
               /\ AgesIn(cleaned, millis, windowAge)
               /\ \A i \in Slots : cleaned[i] \in {rateLimitTable[i], FreeEntry}
               /\ \A i \in Slots :
                    /\ rateLimitTable[i].deviceId # InvalidDeviceId
                    /\ cleaned[i].deviceId # InvalidDeviceId
                    => ~ (timeDiff(rateLimitTable[i]) > StaleAfter)
  <1> DEFINE cleaned == cleanupStaleRateLimitEntries(rateLimitTable)
  <1>1. FreeEntry \in RateLimitEntry
    BY MillisRangeAssumption, MaxPerIntervalAssumption
    DEF FreeEntry, RateLimitEntry, Millis
  <1>2. rateLimitTable \in [Slots -> RateLimitEntry]
    BY DEF Inv, RateLimitTypeOK
  <1>3. /\ cleaned = [i \in Slots |-> cleaned[i]]
        /\ \A i \in Slots :
             cleaned[i] = IF /\ rateLimitTable[i].deviceId # InvalidDeviceId
                             /\ timeDiff(rateLimitTable[i]) > StaleAfter
                          THEN FreeEntry ELSE rateLimitTable[i]
    BY DEF cleanupStaleRateLimitEntries
  <1> HIDE DEF cleaned
  <1>4. \A i \in Slots : cleaned[i] \in {rateLimitTable[i], FreeEntry}
    BY <1>3
  <1>5. cleaned \in [Slots -> RateLimitEntry]
    BY <1>1, <1>2, <1>3, <1>4
  <1>6. TableOK(cleaned)
    BY <1>4, <1>5 DEF Inv, RateLimitTypeOK, TableOK, FreeEntry
  <1>7. AgesIn(cleaned, millis, windowAge)
    BY <1>4 DEF Inv, AgesMatch, AgesIn, FreeEntry, WrappedEntry
  <1> QED BY <1>3, <1>4, <1>6, <1>7 DEF cleaned, FreeEntry

\* A window opened in a slot that is free or the device's own.
LEMMA OpenWindowInv ==
    ASSUME Inv, NEW table, TableOK(table), AgesIn(table, millis, windowAge),
           NEW i \in Slots, NEW d \in Commanded,
           \A j \in Slots \ {i} : table[j].deviceId # d,
           OpenWindow(table, i, d), UNCHANGED millis
    PROVE  Inv'
  <1>1. /\ millis \in Millis
        /\ windowAge \in [Commanded -> 0 .. HalfRange]
        /\ table \in [Slots -> RateLimitEntry]
        /\ d # InvalidDeviceId
    BY CommandedAssumption DEF Inv, RateLimitTypeOK, TableOK
  <1> DEFINE entry == [deviceId |-> d, lastMessageTime |-> millis, messageCount |-> 1]
  <1>2. entry \in RateLimitEntry
    BY <1>1, MaxPerIntervalAssumption DEF RateLimitEntry
  <1>3. /\ rateLimitTable' \in [Slots -> RateLimitEntry]
        /\ rateLimitTable'[i] = entry
        /\ \A j \in Slots \ {i} : rateLimitTable'[j] = table[j]
    BY <1>1, <1>2 DEF OpenWindow
  <1>4. /\ windowAge' \in [Commanded -> 0 .. HalfRange]
        /\ windowAge'[d] = 0
        /\ \A x \in Commanded \ {d} : windowAge'[x] = windowAge[x]
    BY <1>1, HalfRangeFacts DEF OpenWindow
  <1>5. RateLimitTypeOK'
    BY <1>1, <1>3, <1>4 DEF TableOK, RateLimitTypeOK
  <1>6. AgesMatch'
    <2>1. Elapsed(millis', entry.lastMessageTime) = 0
      BY <1>1, ElapsedSelf
    <2>2. \A j \in Slots \ {i} : table[j].deviceId # InvalidDeviceId =>
            /\ table[j].deviceId \in Commanded \ {d}
      BY <1>1 DEF RateLimitEntry
    <2> QED BY <1>1, <1>3, <1>4, <2>1, <2>2 DEF AgesIn, AgesMatch, WrappedEntry
  <1>7. RefusedForCause'
    BY DEF OpenWindow, Accept, RefusedForCause
  <1> QED BY <1>5, <1>6, <1>7 DEF Inv

\* A message of a device that has an entry keeps the invariant.
LEMMA CheckEntryInv ==
    ASSUME Inv, NEW d \in Commanded, NEW i \in Slots,
           rateLimitTable[i].deviceId = d, CheckEntry(i, d), UNCHANGED millis
    PROVE  Inv'
  <1> DEFINE entry == rateLimitTable[i]
  <1>1. /\ d # InvalidDeviceId
        /\ TableOK(rateLimitTable)
        /\ AgesIn(rateLimitTable, millis, windowAge)
        /\ \A j \in Slots \ {i} : rateLimitTable[j].deviceId # d
    BY CommandedAssumption
    DEF Inv, RateLimitTypeOK, AgesMatch, TableOK, AgesIn, WrappedEntry
  <1>2. CASE OpenWindow(rateLimitTable, i, d)
    BY <1>1, <1>2, OpenWindowInv
  <1>3. CASE /\ entry.messageCount < MaxPerInterval
             /\ rateLimitTable' = [rateLimitTable EXCEPT ![i].messageCount = @ + 1]
             /\ UNCHANGED windowAge
             /\ Accept(d)
    <2> DEFINE more == [entry EXCEPT !.messageCount = @ + 1]
    <2>1. rateLimitTable \in [Slots -> RateLimitEntry] /\ entry \in RateLimitEntry
      BY DEF Inv, RateLimitTypeOK
    <2>2. /\ more \in RateLimitEntry
          /\ more.deviceId = entry.deviceId
          /\ more.lastMessageTime = entry.lastMessageTime
          /\ more.messageCount >= 1
      BY <1>3, <2>1, MaxPerIntervalAssumption DEF RateLimitEntry
    <2>3. rateLimitTable' = [rateLimitTable EXCEPT ![i] = more]
      BY <1>3
    <2> HIDE DEF more
    <2>4. /\ rateLimitTable' \in [Slots -> RateLimitEntry]
          /\ rateLimitTable'[i] = more
          /\ \A j \in Slots \ {i} : rateLimitTable'[j] = rateLimitTable[j]
      BY <2>1, <2>2, <2>3
    <2>5. \A j \in Slots :
            /\ rateLimitTable'[j].deviceId = rateLimitTable[j].deviceId
            /\ rateLimitTable'[j].lastMessageTime = rateLimitTable[j].lastMessageTime
      BY <2>2, <2>4
    <2>6. RateLimitTypeOK'
      <3>1. \A j \in Slots : rateLimitTable'[j].deviceId # InvalidDeviceId
                             => rateLimitTable'[j].messageCount >= 1
        BY <2>2, <2>4 DEF Inv, RateLimitTypeOK
      <3>2. \A j, k \in Slots :
              /\ rateLimitTable'[j].deviceId = rateLimitTable'[k].deviceId
              /\ rateLimitTable'[j].deviceId # InvalidDeviceId
              => j = k
        BY <2>5 DEF Inv, RateLimitTypeOK
      <3> QED BY <1>3, <2>4, <3>1, <3>2 DEF Inv, RateLimitTypeOK
    <2>7. AgesMatch'
      BY <1>3, <2>5 DEF Inv, AgesMatch, WrappedEntry
    <2>8. RefusedForCause'
      BY <1>3 DEF Accept, RefusedForCause
    <2> QED BY <2>6, <2>7, <2>8 DEF Inv
  <1>4. CASE timeDiff(entry) < Interval /\ Refuse(d, "limited")
    <2>1. RateLimitTypeOK' /\ AgesMatch'
      BY <1>4 DEF Inv, RateLimitTypeOK, AgesMatch, WrappedEntry, Refuse
    <2>2. windowAge'[d] < Interval \/ windowAge'[d] = HalfRange
      BY <1>1, <1>4, EntryAge DEF Refuse, WrappedEntry
    <2>3. RefusedForCause'
      BY <1>4, <2>2 DEF Refuse, RefusedForCause, WrappedEntry
    <2> QED BY <2>1, <2>3 DEF Inv
  <1> QED BY <1>2, <1>3, <1>4 DEF CheckEntry

\* A message of a device without an entry keeps the invariant: the slot it takes
\* was free or has just been cleared.
LEMMA NewEntryInv ==
    ASSUME Inv, NEW d \in Commanded, slotOf(rateLimitTable, d) = 0,
           NewEntry(d), UNCHANGED millis
    PROVE  Inv'
  <1> DEFINE free == slotOf(rateLimitTable, InvalidDeviceId)
             cleaned == cleanupStaleRateLimitEntries(rateLimitTable)
             freed == slotOf(cleaned, InvalidDeviceId)
  <1>1. /\ d # InvalidDeviceId
        /\ TableOK(rateLimitTable)
        /\ AgesIn(rateLimitTable, millis, windowAge)
    BY CommandedAssumption
    DEF Inv, RateLimitTypeOK, AgesMatch, TableOK, AgesIn, WrappedEntry
  <1>2. \A i \in Slots : rateLimitTable[i].deviceId # d
    BY SlotOf
  <1>3. /\ TableOK(cleaned)
        /\ AgesIn(cleaned, millis, windowAge)
        /\ \A i \in Slots : cleaned[i] \in {rateLimitTable[i], FreeEntry}
        /\ \A i \in Slots :
             /\ rateLimitTable[i].deviceId # InvalidDeviceId
             /\ cleaned[i].deviceId # InvalidDeviceId
             => ~ (timeDiff(rateLimitTable[i]) > StaleAfter)
    BY CleanupOK
  <1> HIDE DEF cleaned
  <1>4. CASE free # 0 /\ OpenWindow(rateLimitTable, free, d)
    BY <1>1, <1>2, <1>4, SlotOf, OpenWindowInv
  <1>5. CASE freed # 0 /\ OpenWindow(cleaned, freed, d)
    <2>1. \A i \in Slots : cleaned[i].deviceId # d
      BY <1>1, <1>2, <1>3 DEF FreeEntry
    <2> QED BY <1>3, <1>5, <2>1, SlotOf, OpenWindowInv
  <1>6. CASE free = 0 /\ freed = 0 /\ Refuse(d, "table_full")
    <2>1. RateLimitTypeOK' /\ AgesMatch'
      BY <1>6 DEF Inv, RateLimitTypeOK, AgesMatch, WrappedEntry, Refuse
    <2>2. ASSUME NEW i \in Slots
          PROVE  LET holder == rateLimitTable[i].deviceId
                 IN  /\ holder \in Commanded \ {d}
                     /\ windowAge[holder] <= StaleAfter \/ WrappedEntry(holder)
      <3> DEFINE holder == rateLimitTable[i].deviceId
      <3>1. holder # InvalidDeviceId /\ cleaned[i].deviceId # InvalidDeviceId
        BY <1>6, SlotOf
      <3>2. ~ (timeDiff(rateLimitTable[i]) > StaleAfter)
        BY <1>3, <3>1
      <3>3. /\ holder \in Commanded
            /\ windowAge[holder] \in 0 .. HalfRange
            /\ WrappedEntry(holder) \/ timeDiff(rateLimitTable[i]) = windowAge[holder]
        BY <3>1, EntryAge
      <3>4. CASE timeDiff(rateLimitTable[i]) = windowAge[holder]
        <4>1. windowAge[holder] <= StaleAfter
          BY <3>2, <3>3, <3>4, HalfRangeFacts
        <4> QED BY <1>2, <3>3, <4>1
      <3> QED BY <1>2, <3>3, <3>4
    <2>3. RefusedForCause'
      BY <1>6, <2>2 DEF Refuse, RefusedForCause, WrappedEntry
    <2> QED BY <2>1, <2>3 DEF Inv
  <1> QED BY <1>4, <1>5, <1>6 DEF NewEntry, cleaned

\* An age grows with the clock until it is no longer told apart.
LEMMA TickInv ==
    ASSUME Inv, Tick PROVE Inv'
  <1>1. /\ rateLimitTable \in [Slots -> RateLimitEntry]
        /\ windowAge \in [Commanded -> 0 .. HalfRange]
        /\ millis \in Millis
        /\ UNCHANGED rateLimitTable
    BY DEF Inv, RateLimitTypeOK, Tick
  <1>2. /\ windowAge' \in [Commanded -> 0 .. HalfRange]
        /\ \A d \in Commanded : windowAge'[d] = IF windowAge[d] < HalfRange
                                               THEN windowAge[d] + 1 ELSE HalfRange
    BY <1>1, HalfRangeFacts DEF Tick
  <1>3. millis' \in Millis
    BY <1>1, MillisRangeAssumption DEF Tick, AfterTick, Millis
  <1>4. RateLimitTypeOK'
    BY <1>1, <1>2, <1>3 DEF Inv, RateLimitTypeOK
  <1>5. ASSUME NEW i \in Slots, rateLimitTable[i].deviceId # InvalidDeviceId
        PROVE  LET d == rateLimitTable[i].deviceId
               IN  \/ windowAge'[d] = HalfRange
                   \/ Elapsed(millis', rateLimitTable[i].lastMessageTime) = windowAge'[d]
    <2> DEFINE d == rateLimitTable[i].deviceId
               t == rateLimitTable[i].lastMessageTime
    <2>1. d \in Commanded /\ t \in Millis
      BY <1>1, <1>5 DEF RateLimitEntry
    <2>2. windowAge[d] \in 0 .. HalfRange
      BY <1>1, <2>1
    <2>3. CASE windowAge[d] >= HalfRange
      BY <1>2, <2>1, <2>2, <2>3, HalfRangeFacts
    <2>4. CASE windowAge[d] < HalfRange
      <3>1. Elapsed(millis, t) = windowAge[d]
        BY <1>5, <2>2, <2>4, HalfRangeFacts DEF Inv, AgesMatch, WrappedEntry
      <3>2. Elapsed(millis, t) + 1 < MillisRange \/ windowAge[d] + 1 = HalfRange
        BY <2>2, <2>4, <3>1, HalfRangeFacts
      <3>3. Elapsed(millis, t) + 1 < MillisRange
              => Elapsed(millis', t) = Elapsed(millis, t) + 1
        BY <1>1, <2>1, ElapsedAfterTick DEF Tick
      <3> QED BY <1>2, <2>1, <2>4, <3>1, <3>2, <3>3
    <2> QED BY <2>2, <2>3, <2>4, HalfRangeFacts
  <1>6. AgesMatch'
    BY <1>1, <1>5 DEF AgesMatch, WrappedEntry
  <1>7. RefusedForCause'
    BY DEF Tick, NoOutcome, RefusedForCause
  <1> QED BY <1>4, <1>6, <1>7 DEF Inv

\* Every step keeps the invariant.
LEMMA NextInv == Inv /\ [Next]_vars => Inv'
  <1> SUFFICES ASSUME Inv, [Next]_vars PROVE Inv'
    OBVIOUS
  <1>1. CASE UNCHANGED vars
    BY <1>1 DEF vars, Inv, RateLimitTypeOK, AgesMatch, RefusedForCause, WrappedEntry
  <1>2. CASE Tick
    BY <1>2, TickInv
  <1>3. ASSUME NEW d \in Commanded, HandleMessage(d) PROVE Inv'
    <2> DEFINE i == slotOf(rateLimitTable, d)
    <2>1. CASE i # 0 /\ CheckEntry(i, d)
      <3>1. i \in Slots /\ rateLimitTable[i].deviceId = d
        BY <2>1, SlotOf
      <3> HIDE DEF i
      <3> QED BY <1>3, <2>1, <3>1, CheckEntryInv DEF HandleMessage
    <2>2. CASE i = 0 /\ NewEntry(d)
      BY <1>3, <2>2, NewEntryInv DEF HandleMessage
    <2> QED BY <1>3, <2>1, <2>2 DEF HandleMessage
  <1> QED BY <1>1, <1>2, <1>3 DEF Next

\* The inductive invariant holds in every execution.
THEOREM RateLimitInvariance == Spec => []Inv
  <1>1. Init => Inv
    BY InitInv
  <1>2. Inv /\ [Next]_vars => Inv'
    BY NextInv
  <1> QED BY <1>1, <1>2, PTL DEF Spec

\* The table holds one entry per device, each with a message in its window.
THEOREM RateLimitTypeCorrect == Spec => []RateLimitTypeOK
  <1>1. Inv => RateLimitTypeOK
    BY DEF Inv
  <1> QED BY <1>1, RateLimitInvariance, PTL

\* A message is refused only in an open window or by a table full of fresh
\* entries of other devices, wrapped entries excepted.
THEOREM RefusalsJustified == Spec => []RefusedForCause
  <1>1. Inv => RefusedForCause
    BY DEF Inv
  <1> QED BY <1>1, RateLimitInvariance, PTL

-----------------------------------------------------------------------------
(***************************************************************************)
(* How many messages are accepted.  The messages of a device that are not  *)
(* older than its window are counted by its entry; of the window before,   *)
(* the first is always out of reach, which leaves one less than a window   *)
(* holds.                                                                  *)
(***************************************************************************)
Ages == 0 .. Interval - 1

\* The messages not older than w, and the older ones.
UpTo(h, w) == {m \in Messages(h) : m[1] <= w}
Beyond(h, w) == {m \in Messages(h) : m[1] > w}

\* While the window of d is open, its first message is there, the older messages
\* are of the window before, and the entry counts the others.  Afterwards all
\* messages there are of that window but not its first, whether the entry is
\* still in the table or not; and none was accepted in this tick if the next
\* will open a window.
Counted(table, now, w, h, d) ==
    /\ w < Interval =>
         /\ h[w] >= 1
         /\ Cardinality(Beyond(h, w)) <= MaxPerInterval - 1
         /\ \E i \in Slots : /\ table[i].deviceId = d
                             /\ Cardinality(UpTo(h, w)) <= table[i].messageCount
    /\ w >= Interval =>
         /\ Cardinality(Messages(h)) <= MaxPerInterval - 1
         /\ \A i \in Slots : table[i].deviceId = d
                               => Cardinality(Messages(h)) < table[i].messageCount
         /\ (\A i \in Slots : table[i].deviceId = d
                                => SignedElapsed(now, table[i].lastMessageTime) >= Interval)
              => h[0] = 0

Histories == [Ages -> Nat]

BurstInv ==
    /\ accepted \in [Commanded -> Histories]
    /\ \A d \in Commanded : Counted(rateLimitTable, millis, windowAge[d], accepted[d], d)

\* A message by its age and number.
LEMMA MessageIs ==
    ASSUME NEW h \in Histories, NEW m
    PROVE  m \in Messages(h) <=> \E age \in Ages : \E k \in 1 .. h[age] : m = <<age, k>>
  BY DEF Messages, Ages

\* There are finitely many of them.
LEMMA MessagesFinite ==
    ASSUME NEW h \in Histories
    PROVE  /\ IsFiniteSet(Messages(h))
           /\ \A w : IsFiniteSet(UpTo(h, w)) /\ IsFiniteSet(Beyond(h, w))
  <1> DEFINE Of(age) == {age} \X (1 .. h[age])
             all == {Of(age) : age \in Ages}
             f == [age \in Ages |-> Of(age)]
  <1>1. IsFiniteSet(Ages)
    BY FS_Interval, IntervalAssumption DEF Ages
  <1>2. f \in Surjection(Ages, all)
    BY DEF Surjection
  <1>3. IsFiniteSet(all)
    BY <1>1, <1>2, FS_Surjection
  <1>4. \A s \in all : IsFiniteSet(s)
    <2> SUFFICES ASSUME NEW age \in Ages PROVE IsFiniteSet(Of(age))
      OBVIOUS
    <2>1. h[age] \in Nat /\ IsFiniteSet({age})
      BY FS_Singleton DEF Histories
    <2>2. IsFiniteSet(1 .. h[age])
      BY <2>1, FS_Interval
    <2> QED BY <2>1, <2>2, FS_Product
  <1>5. Messages(h) = UNION all
    BY DEF Messages, Ages
  <1>6. IsFiniteSet(Messages(h))
    <2> HIDE DEF all
    <2> QED BY <1>3, <1>4, <1>5, FS_UNION
  <1>7. \A w : UpTo(h, w) \in SUBSET Messages(h) /\ Beyond(h, w) \in SUBSET Messages(h)
    BY DEF UpTo, Beyond
  <1> QED BY <1>6, <1>7, FS_Subset

\* Their numbers are.
LEMMA Counts ==
    ASSUME NEW h \in Histories, NEW w
    PROVE  /\ Cardinality(Messages(h)) \in Nat
           /\ Cardinality(UpTo(h, w)) \in Nat
           /\ Cardinality(Beyond(h, w)) \in Nat
           /\ Cardinality(UpTo(h, w)) <= Cardinality(Messages(h))
           /\ Cardinality(Beyond(h, w)) <= Cardinality(Messages(h))
  <1>1. /\ IsFiniteSet(Messages(h))
        /\ UpTo(h, w) \in SUBSET Messages(h) /\ Beyond(h, w) \in SUBSET Messages(h)
        /\ IsFiniteSet(UpTo(h, w)) /\ IsFiniteSet(Beyond(h, w))
    BY MessagesFinite DEF UpTo, Beyond
  <1> QED BY <1>1, FS_Subset, FS_CardinalityType

\* All messages, told apart by their age.
LEMMA CountsAddUp ==
    ASSUME NEW h \in Histories, NEW w \in Nat
    PROVE  Cardinality(Messages(h)) = Cardinality(UpTo(h, w)) + Cardinality(Beyond(h, w))
  <1>1. \A m \in Messages(h) : m[1] \in Nat
    BY MessageIs DEF Ages
  <1>2. /\ Messages(h) = UpTo(h, w) \cup Beyond(h, w)
        /\ UpTo(h, w) \cap Beyond(h, w) = {}
    BY <1>1 DEF UpTo, Beyond
  <1>3. /\ IsFiniteSet(UpTo(h, w)) /\ IsFiniteSet(Beyond(h, w))
        /\ Cardinality(UpTo(h, w)) \in Nat /\ Cardinality(Beyond(h, w)) \in Nat
    BY MessagesFinite, Counts
  <1>4. Cardinality(Messages(h)) =
          Cardinality(UpTo(h, w)) + Cardinality(Beyond(h, w)) - Cardinality({})
    BY <1>2, <1>3, FS_Union
  <1> QED BY <1>3, <1>4, FS_EmptySet

\* One more message now.
LEMMA AcceptCounts ==
    ASSUME NEW h \in Histories, NEW w \in Nat
    PROVE  LET q == [h EXCEPT ![0] = @ + 1]
           IN  /\ q \in Histories
               /\ q[0] = h[0] + 1
               /\ \A age \in Ages : q[age] >= h[age]
               /\ Cardinality(Messages(q)) = Cardinality(Messages(h)) + 1
               /\ Cardinality(UpTo(q, w)) = Cardinality(UpTo(h, w)) + 1
               /\ Beyond(q, w) = Beyond(h, w)
  <1> DEFINE q == [h EXCEPT ![0] = @ + 1]
             new == <<0, h[0] + 1>>
  <1>1. 0 \in Ages /\ h[0] \in Nat
    BY IntervalAssumption DEF Ages, Histories
  <1>2. /\ q \in Histories
        /\ q[0] = h[0] + 1
        /\ \A age \in Ages : age # 0 => q[age] = h[age]
        /\ \A age \in Ages : h[age] \in Nat
    BY <1>1 DEF Histories
  <1> HIDE DEF q
  <1>3. Messages(q) = Messages(h) \cup {new}
    <2>1. ASSUME NEW m PROVE m \in Messages(q) <=> m \in Messages(h) \/ m = new
      <3>1. m \in Messages(q) <=> \E age \in Ages : \E k \in 1 .. q[age] : m = <<age, k>>
        BY <1>2, MessageIs
      <3>2. m \in Messages(h) <=> \E age \in Ages : \E k \in 1 .. h[age] : m = <<age, k>>
        BY MessageIs
      <3>3. \A k : k \in 1 .. q[0] <=> k \in 1 .. h[0] \/ k = h[0] + 1
        BY <1>1, <1>2
      <3> QED BY <1>1, <1>2, <3>1, <3>2, <3>3
    <2> QED BY <2>1
  <1>4. new \notin Messages(h)
    BY <1>1, MessageIs
  <1>5. UpTo(q, w) = UpTo(h, w) \cup {new} /\ new \notin UpTo(h, w)
    BY <1>3, <1>4 DEF UpTo
  <1>6. Beyond(q, w) = Beyond(h, w)
    BY <1>3 DEF Beyond
  <1>7. /\ Cardinality(Messages(q)) = Cardinality(Messages(h)) + 1
        /\ Cardinality(UpTo(q, w)) = Cardinality(UpTo(h, w)) + 1
    BY <1>3, <1>4, <1>5, MessagesFinite, FS_AddElement
  <1>8. \A age \in Ages : q[age] >= h[age]
    BY <1>1, <1>2
  <1> QED BY <1>2, <1>6, <1>7, <1>8 DEF q

\* What the history of a device is after the clock has advanced.
Older(h) == [age \in Ages |-> IF age = 0 THEN 0 ELSE h[age - 1]]

\* The messages of an older history are those of the newer one, less some.
LEMMA OlderCounts ==
    ASSUME NEW h \in Histories
    PROVE  /\ Older(h) \in Histories
           /\ Older(h)[0] = 0
           /\ \A age \in Ages : age + 1 \in Ages => Older(h)[age + 1] = h[age]
           /\ \A A, B : /\ A \in SUBSET Messages(Older(h))
                        /\ B \in SUBSET Messages(h)
                        /\ \A m \in A : <<m[1] - 1, m[2]>> \in B
                        => Cardinality(A) <= Cardinality(B)
           /\ \A m \in Messages(Older(h)) :
                /\ m[1] \in Ages /\ m[1] - 1 \in Ages
                /\ <<m[1] - 1, m[2]>> \in Messages(h)
  <1> DEFINE q == Older(h)
  <1>1. /\ Interval \in Nat /\ Interval >= 1
        /\ \A age \in Ages : h[age] \in Nat
    BY IntervalAssumption DEF Histories
  <1>2. \A age \in Ages : age \in Nat /\ age <= Interval - 1
                          /\ (age # 0 => age - 1 \in Ages)
                          /\ (age + 1 <= Interval - 1 => age + 1 \in Ages)
    BY <1>1 DEF Ages
  <1>3. \A age \in Ages : q[age] = IF age = 0 THEN 0 ELSE h[age - 1]
    BY DEF Older
  <1>4. q \in Histories
    <2>1. \A age \in Ages : q[age] \in Nat
      BY <1>1, <1>2, <1>3
    <2> QED BY <2>1 DEF Older, Histories
  <1>5. 0 \in Ages /\ q[0] = 0
    BY <1>1, <1>3 DEF Ages
  <1>6. \A age \in Ages : age + 1 \in Ages => q[age + 1] = h[age]
    BY <1>2, <1>3
  <1> HIDE DEF q
  <1>7. ASSUME NEW m \in Messages(q)
        PROVE  \E age \in Ages : /\ age # 0 /\ m[1] = age /\ m = <<age, m[2]>>
                                 /\ age - 1 \in Ages
                                 /\ <<age - 1, m[2]>> \in Messages(h)
    <2>0. PICK age \in Ages : \E k \in 1 .. q[age] : m = <<age, k>>
      BY <1>4, <1>7, MessageIs
    <2>1. PICK k \in 1 .. q[age] : m = <<age, k>>
      BY <2>0
    <2>2. age # 0
      BY <1>5, <2>1
    <2>3. age - 1 \in Ages /\ k \in 1 .. h[age - 1]
      BY <1>2, <1>3, <2>1, <2>2
    <2>4. <<age - 1, k>> \in Messages(h)
      BY <2>3, MessageIs
    <2> QED BY <2>1, <2>2, <2>3, <2>4
  <1>8. ASSUME NEW A \in SUBSET Messages(q), NEW B \in SUBSET Messages(h),
               \A m \in A : <<m[1] - 1, m[2]>> \in B
        PROVE  Cardinality(A) <= Cardinality(B)
    <2> DEFINE f == [m \in A |-> <<m[1] - 1, m[2]>>]
    <2>1. f \in [A -> B]
      BY <1>8
    <2>2. ASSUME NEW m \in A, NEW n \in A, f[m] = f[n] PROVE m = n
      <3>1. PICK a \in Ages : m[1] = a /\ m = <<a, m[2]>>
        BY <1>7
      <3>2. PICK b \in Ages : n[1] = b /\ n = <<b, n[2]>>
        BY <1>7
      <3>3. m[1] - 1 = n[1] - 1 /\ m[2] = n[2]
        BY <2>2
      <3>4. a = b
        BY <1>2, <3>1, <3>2, <3>3
      <3> QED BY <3>1, <3>2, <3>3, <3>4
    <2>3. f \in Injection(A, B)
      BY <2>1, <2>2 DEF Injection, IsInjective
    <2>4. IsFiniteSet(B)
      BY MessagesFinite, FS_Subset
    <2> HIDE DEF f
    <2> QED BY <2>3, <2>4, FS_Injection
  <1>9. ASSUME NEW m \in Messages(q)
        PROVE  /\ m[1] \in Ages /\ m[1] - 1 \in Ages
               /\ <<m[1] - 1, m[2]>> \in Messages(h)
    BY <1>7
  <1> QED BY <1>4, <1>5, <1>6, <1>8, <1>9 DEF q

\* A table with the same entry for a device counts as before.
LEMMA SameEntry ==
    ASSUME NEW table, NEW other, NEW now, NEW w, NEW h, NEW d,
           Counted(table, now, w, h, d),
           \A i \in Slots : table[i].deviceId = d \/ other[i].deviceId = d
                              => other[i] = table[i]
    PROVE  Counted(other, now, w, h, d)
  BY DEF Counted

\* While a window is open its entry is there and of that age.
LEMMA OpenEntry ==
    ASSUME Inv, BurstInv, NEW d \in Commanded, windowAge[d] < Interval
    PROVE  \E i \in Slots :
             /\ rateLimitTable[i].deviceId = d
             /\ timeDiff(rateLimitTable[i]) = windowAge[d]
             /\ \A j \in Slots \ {i} : rateLimitTable[j].deviceId # d
  <1>1. PICK i \in Slots : rateLimitTable[i].deviceId = d
    BY DEF BurstInv, Counted
  <1>2. d # InvalidDeviceId
    BY CommandedAssumption
  <1>3. ~ WrappedEntry(d)
    BY HalfRangeFacts DEF WrappedEntry
  <1>4. timeDiff(rateLimitTable[i]) = windowAge[d]
    BY <1>1, <1>2, <1>3, EntryAge
  <1>5. \A j \in Slots \ {i} : rateLimitTable[j].deviceId # d
    BY <1>1, <1>2 DEF Inv, RateLimitTypeOK
  <1> QED BY <1>1, <1>4, <1>5

\* The property follows.
LEMMA BurstsFromCounts ==
    ASSUME Inv, BurstInv
    PROVE  BurstBounded
  <1> SUFFICES ASSUME NEW d \in Commanded
               PROVE  Burst(d) <= 2 * MaxPerInterval - 1
    BY DEF BurstBounded
  <1> DEFINE w == windowAge[d]
             h == accepted[d]
  <1>1. /\ h \in Histories
        /\ w \in Nat
        /\ Counted(rateLimitTable, millis, w, h, d)
        /\ rateLimitTable \in [Slots -> RateLimitEntry]
        /\ MaxPerInterval \in Nat /\ MaxPerInterval >= 1
        /\ Interval \in Nat
    BY HalfRangeFacts, MaxPerIntervalAssumption DEF Inv, RateLimitTypeOK, BurstInv
  <1> HIDE DEF w, h
  <1>2. /\ Cardinality(Messages(h)) \in Nat
        /\ Cardinality(UpTo(h, w)) \in Nat
        /\ Cardinality(Beyond(h, w)) \in Nat
        /\ Cardinality(Messages(h)) = Cardinality(UpTo(h, w)) + Cardinality(Beyond(h, w))
    BY <1>1, Counts, CountsAddUp
  <1>3. CASE w < Interval
    <2>1. PICK i \in Slots : Cardinality(UpTo(h, w)) <= rateLimitTable[i].messageCount
      BY <1>1, <1>3 DEF Counted
    <2>2. rateLimitTable[i].messageCount \in 0 .. MaxPerInterval
      BY <1>1 DEF RateLimitEntry
    <2>3. Cardinality(Beyond(h, w)) <= MaxPerInterval - 1
      BY <1>1, <1>3 DEF Counted
    <2> QED BY <1>1, <1>2, <2>1, <2>2, <2>3 DEF Burst, h
  <1>4. CASE w >= Interval
    <2>1. Cardinality(Messages(h)) <= MaxPerInterval - 1
      BY <1>1, <1>4 DEF Counted
    <2> QED BY <1>1, <1>2, <2>1 DEF Burst, h
  <1> QED BY <1>1, <1>3, <1>4

\* A window opened in a slot that is free or the device's own, when the one
\* before has passed.
LEMMA OpenWindowBurst ==
    ASSUME Inv, BurstInv, NEW table, TableOK(table), NEW i \in Slots,
           NEW d \in Commanded, table[i].deviceId \in {d, InvalidDeviceId},
           windowAge[d] >= Interval, accepted[d][0] = 0,
           \A x \in Commanded \ {d} :
             Counted(table, millis, windowAge[x], accepted[x], x),
           OpenWindow(table, i, d), UNCHANGED millis
    PROVE  BurstInv'
  <1> DEFINE h == accepted[d]
             q == [h EXCEPT ![0] = @ + 1]
             entry == [deviceId |-> d, lastMessageTime |-> millis, messageCount |-> 1]
  <1>1. /\ table \in [Slots -> RateLimitEntry]
        /\ h \in Histories
        /\ accepted \in [Commanded -> Histories]
        /\ windowAge \in [Commanded -> 0 .. HalfRange]
        /\ d # InvalidDeviceId
        /\ \A x \in Commanded : x # InvalidDeviceId
        /\ Interval \in Nat /\ Interval >= 1
        /\ 0 \in Ages
    BY CommandedAssumption, IntervalAssumption
    DEF TableOK, Inv, RateLimitTypeOK, BurstInv, Ages
  <1>2. /\ q \in Histories
        /\ q[0] = h[0] + 1
        /\ Cardinality(UpTo(q, 0)) = Cardinality(UpTo(h, 0)) + 1
        /\ Beyond(q, 0) = Beyond(h, 0)
    BY <1>1, AcceptCounts
  <1>3. /\ accepted' = [accepted EXCEPT ![d] = q]
        /\ windowAge' = [windowAge EXCEPT ![d] = 0]
        /\ rateLimitTable' = [table EXCEPT ![i] = entry]
    BY DEF OpenWindow, Accept
  <1> HIDE DEF q, entry
  <1>4. /\ accepted' \in [Commanded -> Histories]
        /\ accepted'[d] = q
        /\ windowAge'[d] = 0
        /\ rateLimitTable'[i] = entry
        /\ \A j \in Slots \ {i} : rateLimitTable'[j] = table[j]
        /\ \A x \in Commanded \ {d} : /\ accepted'[x] = accepted[x]
                                      /\ windowAge'[x] = windowAge[x]
    BY <1>1, <1>2, <1>3
  <1>5. UpTo(h, 0) = {}
    <2> SUFFICES ASSUME NEW m \in Messages(h), m[1] <= 0 PROVE FALSE
      BY DEF UpTo
    <2>1. PICK age \in Ages : \E k \in 1 .. h[age] : m = <<age, k>>
      BY <1>1, MessageIs
    <2>2. PICK k \in 1 .. h[age] : m = <<age, k>>
      BY <2>1
    <2>3. age = 0
      BY <2>2, <1>1 DEF Ages
    <2> QED BY <2>2, <2>3
  <1>6. Cardinality(UpTo(q, 0)) <= 1
    BY <1>2, <1>5, FS_EmptySet
  <1>7. Cardinality(Beyond(q, 0)) <= MaxPerInterval - 1
    <2>1. Cardinality(Messages(h)) <= MaxPerInterval - 1
      BY DEF BurstInv, Counted
    <2>2. /\ Cardinality(Beyond(h, 0)) \in Nat /\ Cardinality(Messages(h)) \in Nat
          /\ Cardinality(Beyond(h, 0)) <= Cardinality(Messages(h))
      BY <1>1, Counts
    <2> QED BY <1>2, <2>1, <2>2, MaxPerIntervalAssumption
  <1>8. q[0] >= 1
    BY <1>1, <1>2 DEF Histories
  <1>9. entry.deviceId = d /\ entry.messageCount = 1
    BY DEF entry
  <1>10. Counted(rateLimitTable', millis', windowAge'[d], accepted'[d], d)
    BY <1>1, <1>4, <1>6, <1>7, <1>8, <1>9 DEF Counted
  <1>11. ASSUME NEW x \in Commanded \ {d}
         PROVE  Counted(rateLimitTable', millis', windowAge'[x], accepted'[x], x)
    <2>1. \A j \in Slots : table[j].deviceId = x \/ rateLimitTable'[j].deviceId = x
                             => rateLimitTable'[j] = table[j]
      BY <1>1, <1>4, <1>9
    <2>2. Counted(table, millis, windowAge[x], accepted[x], x)
      OBVIOUS
    <2>3. Counted(rateLimitTable', millis, windowAge[x], accepted[x], x)
      BY <2>1, <2>2, SameEntry
    <2> QED BY <1>4, <2>3
  <1> QED BY <1>4, <1>10, <1>11 DEF BurstInv

\* A message of a device that has an entry.
LEMMA CheckEntryBurst ==
    ASSUME Inv, BurstInv, NEW d \in Commanded, NEW i \in Slots,
           rateLimitTable[i].deviceId = d, CheckEntry(i, d), UNCHANGED millis
    PROVE  BurstInv'
  <1> DEFINE entry == rateLimitTable[i]
             h == accepted[d]
             w == windowAge[d]
             q == [h EXCEPT ![0] = @ + 1]
  <1>1. /\ TableOK(rateLimitTable)
        /\ rateLimitTable \in [Slots -> RateLimitEntry]
        /\ h \in Histories
        /\ w \in Nat
        /\ accepted \in [Commanded -> Histories]
        /\ Counted(rateLimitTable, millis, w, h, d)
        /\ d # InvalidDeviceId
        /\ \A j \in Slots \ {i} : rateLimitTable[j].deviceId # d
        /\ entry.messageCount \in 0 .. MaxPerInterval
        /\ Interval \in Nat
    BY HalfRangeFacts, CommandedAssumption
    DEF TableOK, Inv, RateLimitTypeOK, BurstInv, RateLimitEntry
  <1>2. w < Interval => timeDiff(entry) = w
    <2> SUFFICES ASSUME windowAge[d] < Interval PROVE timeDiff(entry) = w
      OBVIOUS
    <2>1. PICK j \in Slots : /\ rateLimitTable[j].deviceId = d
                             /\ timeDiff(rateLimitTable[j]) = windowAge[d]
      BY OpenEntry
    <2>2. j = i
      BY <1>1, <2>1
    <2> QED BY <2>1, <2>2
  <1>3. CASE timeDiff(entry) >= Interval /\ OpenWindow(rateLimitTable, i, d)
    <2>1. w >= Interval
      BY <1>1, <1>2, <1>3
    <2>2. h[0] = 0
      <3>1. \A j \in Slots : rateLimitTable[j].deviceId = d
              => SignedElapsed(millis, rateLimitTable[j].lastMessageTime) >= Interval
        BY <1>1, <1>3 DEF timeDiff
      <3> QED BY <1>1, <2>1, <3>1 DEF Counted
    <2>3. \A x \in Commanded \ {d} :
            Counted(rateLimitTable, millis, windowAge[x], accepted[x], x)
      BY DEF BurstInv
    <2> QED BY <1>1, <1>3, <2>1, <2>2, <2>3, OpenWindowBurst
  <1>4. CASE /\ timeDiff(entry) < Interval
             /\ entry.messageCount < MaxPerInterval
             /\ rateLimitTable' = [rateLimitTable EXCEPT ![i].messageCount = @ + 1]
             /\ UNCHANGED windowAge
             /\ Accept(d)
    <2>1. /\ q \in Histories
          /\ \A age \in Ages : q[age] >= h[age]
          /\ Cardinality(Messages(q)) = Cardinality(Messages(h)) + 1
          /\ Cardinality(UpTo(q, w)) = Cardinality(UpTo(h, w)) + 1
          /\ Beyond(q, w) = Beyond(h, w)
      BY <1>1, AcceptCounts
    <2>2. /\ Cardinality(Messages(h)) \in Nat
          /\ Cardinality(UpTo(h, w)) \in Nat
          /\ \A age \in Ages : h[age] \in Nat /\ q[age] \in Nat
      BY <1>1, <2>1, Counts DEF Histories
    <2>3. accepted' = [accepted EXCEPT ![d] = q]
      BY <1>4 DEF Accept
    <2> HIDE DEF q
    <2>4. /\ accepted' \in [Commanded -> Histories]
          /\ accepted'[d] = q
          /\ \A x \in Commanded \ {d} : accepted'[x] = accepted[x]
      BY <1>1, <2>1, <2>3
    <2>5. /\ rateLimitTable'[i].deviceId = d
          /\ rateLimitTable'[i].messageCount = entry.messageCount + 1
          /\ rateLimitTable'[i].lastMessageTime = entry.lastMessageTime
          /\ \A j \in Slots \ {i} : rateLimitTable'[j] = rateLimitTable[j]
      BY <1>1, <1>4 DEF RateLimitEntry
    <2>6. Counted(rateLimitTable', millis, w, q, d)
      <3>1. CASE w < Interval
        <4>1. /\ h[w] >= 1
              /\ Cardinality(Beyond(h, w)) <= MaxPerInterval - 1
              /\ Cardinality(UpTo(h, w)) <= entry.messageCount
          BY <1>1, <3>1 DEF Counted
        <4>2. w \in Ages
          BY <1>1, <3>1 DEF Ages
        <4>3. q[w] >= 1
          BY <2>1, <2>2, <4>1, <4>2
        <4>4. Cardinality(UpTo(q, w)) <= rateLimitTable'[i].messageCount
          BY <1>1, <2>1, <2>2, <2>5, <4>1
        <4> QED BY <1>1, <2>1, <2>5, <3>1, <4>1, <4>3, <4>4 DEF Counted
      <3>2. CASE w >= Interval
        <4>1. Cardinality(Messages(h)) < entry.messageCount
          BY <1>1, <3>2 DEF Counted
        <4>2. /\ Cardinality(Messages(q)) < entry.messageCount + 1
              /\ Cardinality(Messages(q)) <= MaxPerInterval - 1
          BY <1>1, <1>4, <2>1, <2>2, <4>1, MaxPerIntervalAssumption
        <4>3. \A j \in Slots : rateLimitTable'[j].deviceId = d
                => Cardinality(Messages(q)) < rateLimitTable'[j].messageCount
          BY <1>1, <2>5, <4>2
        <4>4. SignedElapsed(millis, entry.lastMessageTime) < Interval
          BY <1>4 DEF timeDiff
        <4>5. SignedElapsed(millis, entry.lastMessageTime) \in Int
          BY <1>1, SignedElapsedPositive DEF Inv, RateLimitTypeOK, RateLimitEntry
        <4>6. ~ (\A j \in Slots : rateLimitTable'[j].deviceId = d
                   => SignedElapsed(millis, rateLimitTable'[j].lastMessageTime) >= Interval)
          BY <1>1, <2>5, <4>4, <4>5
        <4> QED BY <1>1, <3>2, <4>2, <4>3, <4>6 DEF Counted
      <3> QED BY <1>1, <3>1, <3>2
    <2>7. ASSUME NEW x \in Commanded \ {d}
          PROVE  Counted(rateLimitTable', millis, windowAge[x], accepted[x], x)
      <3>1. Counted(rateLimitTable, millis, windowAge[x], accepted[x], x)
        BY DEF BurstInv
      <3>2. \A j \in Slots :
              rateLimitTable[j].deviceId = x \/ rateLimitTable'[j].deviceId = x
                => rateLimitTable'[j] = rateLimitTable[j]
        BY <2>5
      <3> QED BY <3>1, <3>2, SameEntry
    <2> QED BY <1>4, <2>4, <2>6, <2>7 DEF BurstInv
  <1>5. CASE Refuse(d, "limited")
    BY <1>5 DEF Refuse, BurstInv
  <1> QED BY <1>3, <1>4, <1>5 DEF CheckEntry

\* A message of a device without an entry: its last window has passed, and no
\* device loses the entry of a window that is open.
LEMMA NewEntryBurst ==
    ASSUME Inv, BurstInv, NEW d \in Commanded, slotOf(rateLimitTable, d) = 0,
           NewEntry(d), UNCHANGED millis
    PROVE  BurstInv'
  <1> DEFINE free == slotOf(rateLimitTable, InvalidDeviceId)
             cleaned == cleanupStaleRateLimitEntries(rateLimitTable)
             freed == slotOf(cleaned, InvalidDeviceId)
  <1>1. /\ TableOK(rateLimitTable)
        /\ rateLimitTable \in [Slots -> RateLimitEntry]
        /\ windowAge \in [Commanded -> 0 .. HalfRange]
        /\ millis \in Millis
        /\ HalfRange \in Nat
        /\ Interval \in Nat
        /\ \A x \in Commanded : x # InvalidDeviceId
        /\ \A x \in Commanded : Counted(rateLimitTable, millis, windowAge[x], accepted[x], x)
    BY HalfRangeFacts, CommandedAssumption
    DEF TableOK, Inv, RateLimitTypeOK, BurstInv
  <1>2. \A i \in Slots : rateLimitTable[i].deviceId # d
    BY SlotOf
  <1>3. windowAge[d] >= Interval
    BY <1>1, <1>2 DEF Counted
  <1>4. accepted[d][0] = 0
    BY <1>1, <1>2, <1>3 DEF Counted
  <1>5. /\ TableOK(cleaned)
        /\ \A i \in Slots : cleaned[i] =
             IF /\ rateLimitTable[i].deviceId # InvalidDeviceId
                /\ timeDiff(rateLimitTable[i]) > StaleAfter
             THEN FreeEntry ELSE rateLimitTable[i]
    BY CleanupOK DEF cleanupStaleRateLimitEntries
  <1> HIDE DEF cleaned
  <1>6. CASE free # 0 /\ OpenWindow(rateLimitTable, free, d)
    <2>1. free \in Slots /\ rateLimitTable[free].deviceId \in {d, InvalidDeviceId}
      BY <1>6, SlotOf
    <2> HIDE DEF free
    <2> QED BY <1>1, <1>3, <1>4, <1>6, <2>1, OpenWindowBurst
  <1>7. CASE freed # 0 /\ OpenWindow(cleaned, freed, d)
    <2>1. freed \in Slots /\ cleaned[freed].deviceId \in {d, InvalidDeviceId}
      BY <1>7, SlotOf
    <2> HIDE DEF freed
    <2>2. ASSUME NEW x \in Commanded \ {d}
          PROVE  Counted(cleaned, millis, windowAge[x], accepted[x], x)
      <3> DEFINE w == windowAge[x]
                 h == accepted[x]
      <3>1. w \in Nat /\ Counted(rateLimitTable, millis, w, h, x)
        BY <1>1
      <3>2. \A i \in Slots : cleaned[i].deviceId = x
                               => cleaned[i] = rateLimitTable[i]
        BY <1>1, <1>5 DEF FreeEntry
      <3>3. CASE w < Interval
        <4>1. PICK i \in Slots : /\ rateLimitTable[i].deviceId = x
                                 /\ timeDiff(rateLimitTable[i]) = w
                                 /\ \A j \in Slots \ {i} : rateLimitTable[j].deviceId # x
          BY <3>3, OpenEntry
        <4>2. ~ (timeDiff(rateLimitTable[i]) > StaleAfter)
          BY <3>1, <3>3, <4>1, HalfRangeFacts
        <4>3. cleaned[i] = rateLimitTable[i]
          BY <1>5, <4>2
        <4>4. \A j \in Slots : rateLimitTable[j].deviceId = x \/ cleaned[j].deviceId = x
                                 => cleaned[j] = rateLimitTable[j]
          BY <3>2, <4>1, <4>3
        <4> QED BY <3>1, <4>4, SameEntry
      <3>4. CASE w >= Interval
        <4>1. ASSUME \A i \in Slots : cleaned[i].deviceId = x
                => SignedElapsed(millis, cleaned[i].lastMessageTime) >= Interval
              PROVE  h[0] = 0
          <5>1. ASSUME NEW i \in Slots, rateLimitTable[i].deviceId = x
                PROVE  SignedElapsed(millis, rateLimitTable[i].lastMessageTime) >= Interval
            <6>1. CASE timeDiff(rateLimitTable[i]) > StaleAfter
              <7>1. timeDiff(rateLimitTable[i]) \in Int
                BY <1>1, SignedElapsedPositive DEF timeDiff, RateLimitEntry
              <7> QED BY <6>1, <7>1, HalfRangeFacts DEF timeDiff
            <6>2. CASE ~ (timeDiff(rateLimitTable[i]) > StaleAfter)
              <7>1. cleaned[i] = rateLimitTable[i]
                BY <1>5, <6>2
              <7> QED BY <4>1, <5>1, <7>1
            <6> QED BY <6>1, <6>2
          <5> QED BY <3>1, <3>4, <5>1 DEF Counted
        <4>2. /\ Cardinality(Messages(h)) <= MaxPerInterval - 1
              /\ \A i \in Slots : cleaned[i].deviceId = x
                   => Cardinality(Messages(h)) < cleaned[i].messageCount
          BY <3>1, <3>2, <3>4 DEF Counted
        <4> QED BY <1>1, <3>1, <3>4, <4>1, <4>2 DEF Counted
      <3> QED BY <1>1, <3>1, <3>3, <3>4
    <2> QED BY <1>3, <1>4, <1>5, <1>7, <2>1, <2>2, OpenWindowBurst
  <1>8. CASE Refuse(d, "table_full")
    BY <1>8 DEF Refuse, BurstInv
  <1> QED BY <1>6, <1>7, <1>8 DEF NewEntry, cleaned

\* When the clock advances the messages grow older, and the first of a window
\* gets out of reach as the window passes.
LEMMA TickBurst ==
    ASSUME Inv, BurstInv, Tick
    PROVE  BurstInv'
  <1>1. /\ rateLimitTable \in [Slots -> RateLimitEntry]
        /\ windowAge \in [Commanded -> 0 .. HalfRange]
        /\ accepted \in [Commanded -> Histories]
        /\ UNCHANGED rateLimitTable
        /\ MaxPerInterval \in Nat
    BY MaxPerIntervalAssumption DEF Inv, RateLimitTypeOK, BurstInv, Tick
  <1>2. accepted' = [d \in Commanded |-> Older(accepted[d])]
    BY DEF Tick, Older, Ages
  <1>3. accepted' \in [Commanded -> Histories]
    BY <1>1, <1>2, OlderCounts
  <1>4. ASSUME NEW d \in Commanded
        PROVE  Counted(rateLimitTable', millis', windowAge'[d], accepted'[d], d)
    <2> DEFINE h == accepted[d]
               w == windowAge[d]
               q == Older(h)
    <2>1. /\ h \in Histories
          /\ w \in 0 .. HalfRange
          /\ Counted(rateLimitTable, millis, w, h, d)
          /\ accepted'[d] = q
          /\ windowAge'[d] = IF w < HalfRange THEN w + 1 ELSE HalfRange
      BY <1>1, <1>2 DEF BurstInv, Tick
    <2> HIDE DEF h, w
    <2>2. /\ q \in Histories
          /\ q[0] = 0
          /\ \A age \in Ages : age + 1 \in Ages => q[age + 1] = h[age]
          /\ \A A, B : /\ A \in SUBSET Messages(q)
                       /\ B \in SUBSET Messages(h)
                       /\ \A m \in A : <<m[1] - 1, m[2]>> \in B
                       => Cardinality(A) <= Cardinality(B)
          /\ \A m \in Messages(q) :
               /\ m[1] \in Ages /\ m[1] - 1 \in Ages
               /\ <<m[1] - 1, m[2]>> \in Messages(h)
      BY <2>1, OlderCounts
    <2> HIDE DEF q
    <2>3. /\ Cardinality(Messages(h)) \in Nat /\ Cardinality(Messages(q)) \in Nat
          /\ \A v : /\ Cardinality(UpTo(h, v)) \in Nat /\ Cardinality(UpTo(q, v)) \in Nat
                    /\ Cardinality(Beyond(h, v)) \in Nat /\ Cardinality(Beyond(q, v)) \in Nat
      BY <2>1, <2>2, Counts
    <2>4. /\ Interval \in Nat /\ Interval >= 1 /\ HalfRange \in Nat
          /\ HalfRange > Interval
          /\ \A age : age \in Ages <=> age \in Int /\ 0 <= age /\ age <= Interval - 1
      BY HalfRangeFacts DEF Ages
    <2>5. CASE w + 1 < Interval
      <3>1. w \in Ages /\ w + 1 \in Ages /\ w \in Nat /\ windowAge'[d] = w + 1
        BY <2>1, <2>4, <2>5
      <3>2. q[w + 1] = h[w] /\ h[w] >= 1
        BY <2>1, <2>2, <2>4, <2>5, <3>1 DEF Counted
      <3>3. Cardinality(UpTo(q, w + 1)) <= Cardinality(UpTo(h, w))
        <4>1. ASSUME NEW m \in UpTo(q, w + 1)
              PROVE  <<m[1] - 1, m[2]>> \in UpTo(h, w)
          <5> DEFINE older == <<m[1] - 1, m[2]>>
          <5>1. m \in Messages(q) /\ m[1] <= w + 1
            BY DEF UpTo
          <5>2. m[1] \in Int /\ older \in Messages(h)
            BY <2>2, <2>4, <5>1
          <5>3. older[1] <= w
            BY <3>1, <5>1, <5>2
          <5> QED BY <5>2, <5>3 DEF UpTo
        <4>2. UpTo(q, w + 1) \in SUBSET Messages(q) /\ UpTo(h, w) \in SUBSET Messages(h)
          BY DEF UpTo
        <4> QED BY <2>2, <4>1, <4>2
      <3>4. Cardinality(Beyond(q, w + 1)) <= Cardinality(Beyond(h, w))
        <4>1. ASSUME NEW m \in Beyond(q, w + 1)
              PROVE  <<m[1] - 1, m[2]>> \in Beyond(h, w)
          <5> DEFINE older == <<m[1] - 1, m[2]>>
          <5>1. m \in Messages(q) /\ m[1] > w + 1
            BY DEF Beyond
          <5>2. m[1] \in Int /\ older \in Messages(h)
            BY <2>2, <2>4, <5>1
          <5>3. older[1] > w
            BY <3>1, <5>1, <5>2
          <5> QED BY <5>2, <5>3 DEF Beyond
        <4>2. Beyond(q, w + 1) \in SUBSET Messages(q) /\ Beyond(h, w) \in SUBSET Messages(h)
          BY DEF Beyond
        <4> QED BY <2>2, <4>1, <4>2
      <3>5. Cardinality(Beyond(h, w)) <= MaxPerInterval - 1
        BY <2>1, <2>4, <2>5, <3>1 DEF Counted
      <3>6. PICK i \in Slots : /\ rateLimitTable[i].deviceId = d
                               /\ Cardinality(UpTo(h, w)) <= rateLimitTable[i].messageCount
        BY <2>1, <2>4, <2>5, <3>1 DEF Counted
      <3>7. rateLimitTable[i].messageCount \in Nat
        BY <1>1 DEF RateLimitEntry
      <3>8. /\ Cardinality(UpTo(q, w + 1)) <= rateLimitTable[i].messageCount
            /\ Cardinality(Beyond(q, w + 1)) <= MaxPerInterval - 1
        BY <1>1, <2>3, <3>3, <3>4, <3>5, <3>6, <3>7
      <3>9. ~ (w + 1 >= Interval)
        BY <2>4, <2>5, <3>1
      <3> QED BY <1>1, <2>1, <3>1, <3>2, <3>6, <3>8, <3>9 DEF Counted
    <2>6. CASE w + 1 = Interval
      <3>1. /\ w \in Ages /\ w \in Nat /\ w < Interval
            /\ windowAge'[d] = Interval
            /\ \A age \in Ages : age <= w
        BY <2>1, <2>4, <2>6
      <3> DEFINE first == <<w, 1>>
                 rest == Messages(h) \ {first}
      <3>2. first \in Messages(h)
        <4>1. h[w] >= 1 /\ h[w] \in Nat
          BY <2>1, <3>1 DEF Counted, Histories
        <4>2. 1 \in 1 .. h[w]
          BY <4>1
        <4> QED BY <2>1, <3>1, <4>2, MessageIs
      <3>3. Cardinality(rest) = Cardinality(Messages(h)) - 1
        BY <2>1, <3>2, MessagesFinite, FS_RemoveElement
      <3>4. Cardinality(Messages(q)) <= Cardinality(rest)
        <4>1. ASSUME NEW m \in Messages(q)
              PROVE  <<m[1] - 1, m[2]>> \in rest
          <5>1. m[1] \in Ages /\ <<m[1] - 1, m[2]>> \in Messages(h)
            BY <2>2
          <5>2. m[1] \in Int /\ m[1] <= w
            BY <2>4, <3>1, <5>1
          <5>3. m[1] - 1 # w
            BY <3>1, <5>2
          <5> QED BY <5>1, <5>3
        <4>2. Messages(q) \in SUBSET Messages(q) /\ rest \in SUBSET Messages(h)
          OBVIOUS
        <4> HIDE DEF rest
        <4> QED BY <2>2, <4>1, <4>2
      <3>5. Messages(h) = UpTo(h, w)
        <4>1. \A m \in Messages(h) : m[1] \in Ages
          BY <2>1, MessageIs
        <4> QED BY <3>1, <4>1 DEF UpTo
      <3>6. PICK i \in Slots : /\ rateLimitTable[i].deviceId = d
                               /\ Cardinality(UpTo(h, w)) <= rateLimitTable[i].messageCount
        BY <2>1, <3>1 DEF Counted
      <3>7. /\ rateLimitTable[i].messageCount \in 0 .. MaxPerInterval
            /\ \A j \in Slots : rateLimitTable[j].deviceId = d => j = i
        BY <1>1, <3>6, CommandedAssumption DEF RateLimitEntry, Inv, RateLimitTypeOK
      <3> HIDE DEF rest
      <3>8. /\ Cardinality(Messages(q)) < rateLimitTable[i].messageCount
            /\ Cardinality(Messages(q)) <= MaxPerInterval - 1
        BY <1>1, <2>3, <3>3, <3>4, <3>5, <3>6, <3>7
      <3>9. ~ (Interval < Interval)
        BY <2>4
      <3> QED BY <1>1, <2>1, <2>2, <3>1, <3>7, <3>8, <3>9 DEF Counted
    <2>7. CASE w >= Interval
      <3>1. windowAge'[d] >= Interval /\ ~ (windowAge'[d] < Interval) /\ ~ (w < Interval)
        BY <2>1, <2>4, <2>7
      <3>2. Cardinality(Messages(q)) <= Cardinality(Messages(h))
        BY <2>2
      <3>3. /\ Cardinality(Messages(h)) <= MaxPerInterval - 1
            /\ \A i \in Slots : rateLimitTable[i].deviceId = d
                 => Cardinality(Messages(h)) < rateLimitTable[i].messageCount
        BY <2>1, <2>7 DEF Counted
      <3>4. \A i \in Slots : rateLimitTable[i].messageCount \in Nat
        BY <1>1 DEF RateLimitEntry
      <3>5. /\ Cardinality(Messages(q)) <= MaxPerInterval - 1
            /\ \A i \in Slots : rateLimitTable[i].deviceId = d
                 => Cardinality(Messages(q)) < rateLimitTable[i].messageCount
        BY <1>1, <2>3, <3>2, <3>3, <3>4
      <3> QED BY <1>1, <2>1, <2>2, <3>1, <3>5 DEF Counted
    <2>8. w + 1 < Interval \/ w + 1 = Interval \/ w >= Interval
      BY <2>1, <2>4
    <2> QED BY <2>5, <2>6, <2>7, <2>8
  <1> QED BY <1>3, <1>4 DEF BurstInv

\* No message at boot.
LEMMA InitBurst == Init => BurstInv
  <1> SUFFICES ASSUME Init PROVE BurstInv
    OBVIOUS
  <1> DEFINE h == [age \in Ages |-> 0]
  <1>1. /\ accepted = [d \in Commanded |-> h]
        /\ windowAge = [d \in Commanded |-> HalfRange]
    BY DEF Init, Ages
  <1>2. h \in Histories /\ 0 \in Ages /\ h[0] = 0
    BY IntervalAssumption DEF Histories, Ages
  <1>3. Messages(h) = {}
    BY DEF Messages, Ages
  <1> HIDE DEF h
  <1>4. Cardinality(Messages(h)) = 0
    BY <1>3, FS_EmptySet
  <1>5. \A i \in Slots, d \in Commanded : rateLimitTable[i].deviceId # d
    BY CommandedAssumption DEF Init, FreeEntry
  <1>6. ASSUME NEW d \in Commanded
        PROVE  Counted(rateLimitTable, millis, HalfRange, h, d)
    <2>1. ~ (HalfRange < Interval) /\ 0 <= MaxPerInterval - 1
      BY HalfRangeFacts, MaxPerIntervalAssumption
    <2> QED BY <1>2, <1>4, <1>5, <2>1 DEF Counted
  <1> QED BY <1>1, <1>2, <1>6 DEF BurstInv

\* Every step keeps the count.
LEMMA NextBurst == Inv /\ BurstInv /\ [Next]_vars => BurstInv'
  <1> SUFFICES ASSUME Inv, BurstInv, [Next]_vars PROVE BurstInv'
    OBVIOUS
  <1>1. CASE UNCHANGED vars
    BY <1>1 DEF vars, BurstInv
  <1>2. CASE Tick
    BY <1>2, TickBurst
  <1>3. ASSUME NEW d \in Commanded, HandleMessage(d) PROVE BurstInv'
    <2> DEFINE i == slotOf(rateLimitTable, d)
    <2>1. CASE i # 0 /\ CheckEntry(i, d)
      <3>1. i \in Slots /\ rateLimitTable[i].deviceId = d
        BY <2>1, SlotOf
      <3> HIDE DEF i
      <3> QED BY <1>3, <2>1, <3>1, CheckEntryBurst DEF HandleMessage
    <2>2. CASE i = 0 /\ NewEntry(d)
      BY <1>3, <2>2, NewEntryBurst DEF HandleMessage
    <2> QED BY <1>3, <2>1, <2>2 DEF HandleMessage
  <1> QED BY <1>1, <1>2, <1>3 DEF Next

\* No stretch of one interval sees more than two windows' messages of a device
\* less one, wherever it starts and whatever the clock and the other devices do.
THEOREM BurstsBounded == Spec => []BurstBounded
  <1>1. Init => BurstInv
    BY InitBurst
  <1>2. Inv /\ BurstInv /\ [Next]_vars => BurstInv'
    BY NextBurst
  <1>3. Inv /\ BurstInv => BurstBounded
    BY BurstsFromCounts
  <1> QED BY <1>1, <1>2, <1>3, RateLimitInvariance, PTL DEF Spec
=============================================================================

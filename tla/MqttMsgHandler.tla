--------------------------- MODULE MqttMsgHandler ---------------------------
(***************************************************************************)
(* Commands from MQTT and their rate limit: handleMessage and              *)
(* checkRateLimit of src/src/MqttMsgHandler.cpp.  The table of limits is   *)
(* static, filled on first use, and cleaned of stale entries only when it  *)
(* is full.  Messages come at any time, any number of them in one tick.    *)
(***************************************************************************)
EXTENDS Machine, FiniteSets

CONSTANTS
    MaxDevices,       \* length of rateLimitTable, 50 in the code
    Commanded,        \* devices whose command topics are subscribed to
    Interval,         \* MQTT_RATE_LIMIT_INTERVAL_MS, 500
    MaxPerInterval,   \* MQTT_RATE_LIMIT_MAX_PER_INTERVAL, 10
    StaleAfter        \* idle time that lets an entry be cleared, 300000

InvalidDeviceId == 255   \* marks a free slot

ASSUME MaxDevicesAssumption == MaxDevices \in Nat \ {0}
ASSUME CommandedAssumption == Commanded \subseteq Nat \ {InvalidDeviceId}
ASSUME IntervalAssumption == Interval \in Nat \ {0}
ASSUME MaxPerIntervalAssumption == MaxPerInterval \in Nat \ {0}
ASSUME StaleAfterAssumption == StaleAfter \in Nat /\ StaleAfter >= Interval
ASSUME RangeAssumption == MillisRange % 2 = 0 /\ MillisRange > 2 * StaleAfter

Slots == 1 .. MaxDevices

\* The positive half of a signed difference of clock readings.
HalfRange == MillisRange \div 2

RateLimitEntry == [deviceId : Commanded \cup {InvalidDeviceId},
                   lastMessageTime : Millis,
                   messageCount : 0 .. MaxPerInterval]
FreeEntry == [deviceId |-> InvalidDeviceId, lastMessageTime |-> 0,
              messageCount |-> 0]

VARIABLES
    rateLimitTable,
    millis,
    outcome,      \* what became of the last message: the device and the verdict
    windowAge,    \* history: time since the window of a device was opened
    accepted      \* history: messages of a device accepted `age` ticks ago

vars == <<rateLimitTable, millis, outcome, windowAge, accepted>>

Verdicts == {"commanded", "dropped", "limited", "table_full"}
NoOutcome == [deviceId |-> InvalidDeviceId, verdict |-> "none"]

-----------------------------------------------------------------------------
Init == /\ rateLimitTable = [i \in Slots |-> FreeEntry]
        /\ millis = 0
        /\ outcome = NoOutcome
        /\ windowAge = [d \in Commanded |-> HalfRange]
        /\ accepted = [d \in Commanded |-> [age \in 0 .. Interval - 1 |-> 0]]

\* The first slot that holds an id, 0 if none does.
slotOf(table, id) == FirstIndex({i \in Slots : table[i].deviceId = id})

\* Faulty variant of timeDiff: the cast is forgotten and the clock taken to
\* never wrap.
timeDiffAbsolute(entry) == ElapsedAbsolute(millis, entry.lastMessageTime)

\* The signed time since an entry's window was opened.
timeDiff(entry) == SignedElapsed(millis, entry.lastMessageTime)

cleanupStaleRateLimitEntries(table) ==
    [i \in Slots |-> IF /\ table[i].deviceId # InvalidDeviceId
                        /\ timeDiff(table[i]) > StaleAfter
                     THEN FreeEntry ELSE table[i]]

\* Once past the limit the payload and the entity decide whether a LoRa
\* command goes out: it is dropped when too long, blank or not a number in
\* range, or when the entity is unknown or takes no commands.
Accept(d) ==
    /\ \E verdict \in {"commanded", "dropped"} :
         outcome' = [deviceId |-> d, verdict |-> verdict]
    /\ accepted' = [accepted EXCEPT ![d][0] = @ + 1]

Refuse(d, verdict) ==
    /\ outcome' = [deviceId |-> d, verdict |-> verdict]
    /\ UNCHANGED <<rateLimitTable, windowAge, accepted>>

OpenWindow(table, i, d) ==
    /\ rateLimitTable' = [table EXCEPT ![i] =
                            [deviceId |-> d, lastMessageTime |-> millis,
                             messageCount |-> 1]]
    /\ windowAge' = [windowAge EXCEPT ![d] = 0]
    /\ Accept(d)

\* Faulty variant of CheckEntry: the counter may go one past the limit.
CheckEntryOffByOne(i, d) ==
    LET entry == rateLimitTable[i]
    IN  \/ /\ timeDiff(entry) >= Interval
           /\ OpenWindow(rateLimitTable, i, d)
        \/ /\ timeDiff(entry) < Interval
           /\ entry.messageCount <= MaxPerInterval
           /\ rateLimitTable' = [rateLimitTable EXCEPT ![i].messageCount = @ + 1]
           /\ UNCHANGED windowAge
           /\ Accept(d)
        \/ /\ timeDiff(entry) < Interval
           /\ entry.messageCount > MaxPerInterval
           /\ Refuse(d, "limited")

\* The device has an entry: its window has passed, has room, or is used up.
CheckEntry(i, d) ==
    LET entry == rateLimitTable[i]
    IN  \/ /\ timeDiff(entry) >= Interval
           /\ OpenWindow(rateLimitTable, i, d)
        \/ /\ timeDiff(entry) < Interval
           /\ entry.messageCount < MaxPerInterval
           /\ rateLimitTable' = [rateLimitTable EXCEPT ![i].messageCount = @ + 1]
           /\ UNCHANGED windowAge
           /\ Accept(d)
        \/ /\ timeDiff(entry) < Interval
           /\ entry.messageCount >= MaxPerInterval
           /\ Refuse(d, "limited")

\* Faulty variant of NewEntry: the table is not cleaned when it is full.
NewEntryNoCleanup(d) ==
    LET free == slotOf(rateLimitTable, InvalidDeviceId)
    IN  \/ free # 0 /\ OpenWindow(rateLimitTable, free, d)
        \/ free = 0 /\ Refuse(d, "table_full")

\* The device has no entry: it takes a free slot, or one that falls free when
\* the table is cleaned.
NewEntry(d) ==
    LET free == slotOf(rateLimitTable, InvalidDeviceId)
        cleaned == cleanupStaleRateLimitEntries(rateLimitTable)
        freed == slotOf(cleaned, InvalidDeviceId)
    IN  \/ free # 0 /\ OpenWindow(rateLimitTable, free, d)
        \/ free = 0 /\ freed # 0 /\ OpenWindow(cleaned, freed, d)
        \/ free = 0 /\ freed = 0 /\ Refuse(d, "table_full")

\* handleMessage for a message on a well-formed command topic (others return
\* before they touch any state).
HandleMessage(d) ==
    LET i == slotOf(rateLimitTable, d)
    IN  /\ \/ i # 0 /\ CheckEntry(i, d)
           \/ i = 0 /\ NewEntry(d)
        /\ UNCHANGED millis

Tick ==
    /\ millis' = AfterTick(millis)
    /\ outcome' = NoOutcome
    /\ windowAge' = [d \in Commanded |-> IF windowAge[d] < HalfRange
                                         THEN windowAge[d] + 1 ELSE HalfRange]
    /\ accepted' = [d \in Commanded |->
                      [age \in 0 .. Interval - 1 |->
                         IF age = 0 THEN 0 ELSE accepted[d][age - 1]]]
    /\ UNCHANGED rateLimitTable

Next == Tick \/ \E d \in Commanded : HandleMessage(d)

Spec == Init /\ [][Next]_vars

-----------------------------------------------------------------------------
(* Safety. *)

\* Type invariant, and the shape of the table that the first search of
\* checkRateLimit relies on: one entry per device, none without a message.
RateLimitTypeOK ==
    /\ rateLimitTable \in [Slots -> RateLimitEntry]
    /\ \A i \in Slots :
         rateLimitTable[i].deviceId # InvalidDeviceId
           => rateLimitTable[i].messageCount >= 1
    /\ \A i, j \in Slots :
         /\ rateLimitTable[i].deviceId = rateLimitTable[j].deviceId
         /\ rateLimitTable[i].deviceId # InvalidDeviceId
         => i = j
    /\ millis \in Millis
    /\ windowAge \in [Commanded -> 0 .. HalfRange]

\* The messages in a history of one device, numbered by age and among those of
\* one age; and how many a device had accepted in the last Interval.
Messages(history) ==
    UNION {{age} \X (1 .. history[age]) : age \in 0 .. Interval - 1}
Burst(d) == Cardinality(Messages(accepted[d]))

\* In no stretch of time of one interval, wherever it starts, are more than
\* 2 * MaxPerInterval - 1 messages of a device accepted: the clock's wrap, the
\* signed difference and the clearing of entries never open a second window.
BurstBounded == \A d \in Commanded : Burst(d) <= 2 * MaxPerInterval - 1

\* An entry that looks used up or fresh only because its window was opened
\* more than half the clock's range ago (24.8 days).
WrappedEntry(d) == windowAge[d] = HalfRange

\* A message is refused only while the window of its device is open, or when
\* every slot is taken by another device that is not stale; a wrapped entry
\* excepted.
RefusedForCause ==
    LET d == outcome.deviceId
    IN  /\ outcome.verdict = "limited" => windowAge[d] < Interval \/ WrappedEntry(d)
        /\ outcome.verdict = "table_full" =>
             \A i \in Slots :
               LET holder == rateLimitTable[i].deviceId
               IN  /\ holder \in Commanded \ {d}
                   /\ windowAge[holder] <= StaleAfter \/ WrappedEntry(holder)
=============================================================================

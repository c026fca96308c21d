------------------------------- MODULE Logger -------------------------------
(***************************************************************************)
(* The logger of src/src/Logger.cpp.  A message is put together in one     *)
(* buffer, by any number of calls, until a line ends it; the finished      *)
(* entry goes into a ring and to the web clients.  The methods are         *)
(* operators on a logger value l, for the two tasks that call them.        *)
(*                                                                         *)
(* A text is told apart by what it is: a part of a line, the end of one,   *)
(* or all of a printf.  The line's end itself is no text, since            *)
(* finalizeMessage strips it and drops a message that holds nothing else.  *)
(* The ring holds its entries by number, counted from boot, as their time  *)
(* stamps would tell them; the newest entry is also kept in full.          *)
(***************************************************************************)
EXTENDS Naturals, Sequences

CONSTANT RingMax       \* RING_BUFFER_MAX, 200 in the code

ASSUME RingMaxAssumption == RingMax \in Nat \ {0}

ERR == 0
WRN == 1
INF == 2
DBG == 3
Level == ERR .. DBG

Text == {"part", "line", "message"}
LogEntry == [level : Level, message : Seq(Text)]

\* `entries` counts the entries since boot, `newest` is the last of them.
LoggerState ==
    [webSocket : BOOLEAN, webEnabled : BOOLEAN, maxLevel : Level,
     currentMessageLevel : Level, messageActive : BOOLEAN,
     buffer : Seq(Text), ringBuffer : Seq(Nat), entries : Nat, newest : LogEntry]

\* The constructor.
NewLogger ==
    [webSocket |-> FALSE, webEnabled |-> FALSE, maxLevel |-> DBG,
     currentMessageLevel |-> INF, messageActive |-> FALSE,
     buffer |-> <<>>, ringBuffer |-> <<>>, entries |-> 0,
     newest |-> [level |-> INF, message |-> <<>>]]

setWebSocket(l, connected) == [l EXCEPT !.webSocket = connected]
setWebEnabled(l, enabled) == [l EXCEPT !.webEnabled = enabled]
setMaxLevel(l, level) == [l EXCEPT !.maxLevel = level]

-----------------------------------------------------------------------------
(* Entries. *)

\* Faulty variant of addToRingBuffer: a full ring starts over at its first place.
addToRingBufferOver(ring, entry) ==
    IF Len(ring) < RingMax
    THEN Append(ring, entry)
    ELSE [ring EXCEPT ![((entry - 1) % RingMax) + 1] = entry]

\* The vector gives up its first entry when it is full.
addToRingBuffer(ring, entry) ==
    Append(IF Len(ring) >= RingMax THEN Tail(ring) ELSE ring, entry)

finalizeMessage(l) ==
    IF l.buffer = <<>>
    THEN l
    ELSE [l EXCEPT !.ringBuffer = addToRingBuffer(@, l.entries + 1),
                   !.entries = @ + 1,
                   !.newest = [level |-> l.currentMessageLevel, message |-> l.buffer]]

\* What pushToWebSocket gives every client in a call that turns l into l2.
pushed(l, l2) ==
    IF l2.entries > l.entries /\ l2.webSocket /\ l2.webEnabled
    THEN {l2.entries} ELSE {}

-----------------------------------------------------------------------------
(* The Print interface and its convenience methods. *)

Buffering(l) == l.messageActive /\ l.currentMessageLevel <= l.maxLevel

\* The bytes of one text, whoever calls and whatever its level.
write(l, text) ==
    IF Buffering(l) THEN [l EXCEPT !.buffer = Append(@, text)] ELSE l

\* Faulty variant of Closed: the text is left for the next message.
ClosedKeepingText(l) == [l EXCEPT !.messageActive = FALSE]

Closed(l) == [l EXCEPT !.messageActive = FALSE, !.buffer = <<>>]

\* Faulty variant of flush: the level is not looked at again.
flushUnchecked(l) == Closed(IF l.messageActive THEN finalizeMessage(l) ELSE l)

flush(l) == Closed(IF Buffering(l) THEN finalizeMessage(l) ELSE l)

Started(l, level) == [l EXCEPT !.messageActive = TRUE,
                               !.currentMessageLevel = level, !.buffer = <<>>]

\* A text continues the message that is active, at that message's level.
Opened(l, level) == IF l.messageActive THEN l ELSE Started(l, level)

print(l, level) ==
    IF level > l.maxLevel THEN l ELSE write(Opened(l, level), "part")

println(l, level) ==
    IF level > l.maxLevel THEN l ELSE flush(write(Opened(l, level), "line"))

\* println without a text.
printlnEmpty(l, level) ==
    IF level > l.maxLevel THEN l ELSE flush(Opened(l, level))

\* Faulty variant of printf: a message that is active is continued.
printfContinuing(l, level) ==
    IF level > l.maxLevel THEN l ELSE flush(write(Opened(l, level), "message"))

\* A message of its own: one that is active is thrown away.
printf(l, level) ==
    IF level > l.maxLevel THEN l ELSE flush(write(Started(l, level), "message"))
=============================================================================

------------------------------ MODULE Console ------------------------------
(***************************************************************************)
(* Who writes to the log and who reads it: setup() and loop() of           *)
(* src/src/main.cpp in one task, the handlers of src/src/WebServerHandler  *)
(* .cpp in another, on the one logger.  A call of the logger is one step;  *)
(* a message that a handler puts together by several calls takes several,  *)
(* and the other task may come in between.  Two calls never overlap here:  *)
(* in the program they may, which is a race on a String.                   *)
(*                                                                         *)
(* setup() is also where the program starts devices that may fail, tries   *)
(* them again and restarts.                                                *)
(***************************************************************************)
EXTENDS Logger, Integers, FiniteSets

CONSTANTS
    InitMaxAttempts,     \* INIT_MAX_ATTEMPTS, 5 in the code
    MaxPollAttempts,     \* WIFI_MAX_POLL_ATTEMPTS, 20 in the code
    LoopLevels,          \* levels of the loop's own lines
    MaxEntries,          \* bound: entries of one boot
    MaxPieces            \* bound: texts of a message that handlers add to

ASSUME InitMaxAttemptsAssumption == InitMaxAttempts \in Nat \ {0}
ASSUME MaxPollAttemptsAssumption == MaxPollAttempts \in Nat \ {0}
ASSUME LoopLevelsAssumption == LoopLevels \subseteq Level
ASSUME BoundsAssumption == MaxEntries \in Nat /\ MaxPieces \in Nat

Parts == {"spiffs", "lora"}
Tasks == {"loop", "web"}

VARIABLES
    log,         \* logger
    phase,       \* how far setup() is, then "loop"
    attempts,    \* failed attempts to start the part of the phase
    works,       \* whether each part would start now
    wifi,        \* wifiState and wifiConnectAttempts
    pc,          \* where each task is with a message it puts together, or the
                 \* web task with the replay
    client       \* a client of the web socket, and the replay it is sent

vars == <<log, phase, attempts, works, wifi, pc, client>>

NoClient == [connected |-> FALSE, start |-> 0, pos |-> 0, end |-> 0,
             got |-> <<>>, on |-> TRUE, live |-> {}]
NoWifi == [state |-> "NEED_CONNECT", polls |-> 0]

\* What RAM holds when setup() begins.
PowerOn == /\ log = NewLogger
           /\ phase = "welcome"
           /\ attempts = 0
           /\ wifi = NoWifi
           /\ pc = [t \in Tasks |-> "idle"]
           /\ client = NoClient

Init == PowerOn /\ works \in [Parts -> BOOLEAN]

PowersOn == /\ log' = NewLogger
            /\ phase' = "welcome"
            /\ attempts' = 0
            /\ wifi' = NoWifi
            /\ pc' = [t \in Tasks |-> "idle"]
            /\ client' = NoClient

\* What is pushed to the client, as long as nothing was held back from it.
Delivered(c, l, l2) ==
    IF ~ c.connected \/ ~ c.on \/ l2.entries = l.entries
    THEN c
    ELSE IF pushed(l, l2) = {}
         THEN [c EXCEPT !.on = FALSE, !.live = {}]
         ELSE [c EXCEPT !.live = @ \cup pushed(l, l2)]

RoomForText == Len(log.buffer) < MaxPieces

Logs(l2) == log' = l2 /\ client' = Delivered(client, log, l2)
Goes(t, at) == pc' = [pc EXCEPT ![t] = at]

-----------------------------------------------------------------------------
(* setup(): no other task calls the logger yet. *)

Welcome == /\ phase = "welcome"
           /\ log' = print(printf(log, INF), INF)
           /\ phase' = "spiffs"
           /\ attempts' = 0
           /\ UNCHANGED <<works, wifi, pc, client>>

\* SPIFFS.begin, or loRa.begin.
Starts == /\ phase \in Parts
          /\ works[phase]
          /\ LET ok == println(log, INF)
             IN  IF phase = "spiffs"
                 THEN phase' = "lora" /\ log' = print(ok, INF)
                 ELSE phase' = "loop" /\ log' = ok
          /\ attempts' = 0
          /\ UNCHANGED <<works, wifi, pc, client>>

\* Faulty variant of FailsToStart: attempts are not counted.
FailsToStartUncounted ==
    /\ phase \in Parts
    /\ ~ works[phase]
    /\ attempts + 1 < InitMaxAttempts
    /\ log' = IF RoomForText THEN print(log, INF) ELSE log
    /\ UNCHANGED <<attempts, phase, works, wifi, pc, client>>

FailsToStart == /\ phase \in Parts
                /\ ~ works[phase]
                /\ attempts + 1 < InitMaxAttempts
                /\ log' = print(log, INF)
                /\ attempts' = attempts + 1
                /\ UNCHANGED <<phase, works, wifi, pc, client>>

\* The last failure is logged and ESP.restart() forgets it.
GivesUp == /\ phase \in Parts
           /\ ~ works[phase]
           /\ attempts + 1 >= InitMaxAttempts
           /\ PowersOn
           /\ UNCHANGED works

Setup == Welcome \/ Starts \/ FailsToStart \/ GivesUp

-----------------------------------------------------------------------------
(* loop().  Lines are printed while the bound allows another entry. *)

Looping == phase = "loop" /\ log.entries < MaxEntries
LoopIdle == Looping /\ pc["loop"] = "idle"

\* A line of any handler, by printf or by println.
LoopLine == /\ LoopIdle
            /\ \E level \in LoopLevels :
                 Logs(printf(log, level)) \/ Logs(println(log, level))
            /\ UNCHANGED <<phase, attempts, works, wifi, pc>>

\* handleWiFi, whose dots are one message over many iterations.
WifiBegins == /\ LoopIdle
              /\ wifi.state = "NEED_CONNECT"
              /\ Logs(printf(log, INF))
              /\ wifi' = [state |-> "CONNECTING", polls |-> 0]
              /\ UNCHANGED <<phase, attempts, works, pc>>

WifiSucceeds == /\ LoopIdle
                /\ wifi.state = "CONNECTING"
                /\ Logs(printf(log, INF))
                /\ wifi' = [wifi EXCEPT !.state = "CONNECTED"]
                /\ UNCHANGED <<phase, attempts, works, pc>>

WifiPolls == /\ LoopIdle
             /\ wifi.state = "CONNECTING" /\ RoomForText
             /\ Logs(print(log, INF))
             /\ wifi' = [wifi EXCEPT !.polls = @ + 1]
             /\ Goes("loop", IF wifi.polls + 1 >= MaxPollAttempts THEN "failed" ELSE "idle")
             /\ UNCHANGED <<phase, attempts, works>>

\* The back-off that follows prints nothing.
WifiFails == /\ Looping
             /\ pc["loop"] = "failed"
             /\ Logs(println(log, WRN))
             /\ wifi' = NoWifi
             /\ Goes("loop", "idle")
             /\ UNCHANGED <<phase, attempts, works>>

WifiLost == /\ LoopIdle
            /\ wifi.state = "CONNECTED"
            /\ Logs(println(log, WRN))
            /\ wifi' = NoWifi
            /\ UNCHANGED <<phase, attempts, works, pc>>

WebServerBegins == /\ LoopIdle
                   /\ wifi.state = "CONNECTED"
                   /\ ~ log.webSocket
                   /\ Logs(println(setWebSocket(log, TRUE), INF))
                   /\ UNCHANGED <<phase, attempts, works, wifi, pc>>

Loop == \/ LoopLine \/ WifiBegins \/ WifiSucceeds \/ WifiPolls \/ WifiFails \/ WifiLost
        \/ WebServerBegins

-----------------------------------------------------------------------------
(* The async_tcp task: one handler at a time. *)

Serving == Looping /\ log.webSocket /\ pc["web"] = "idle"

\* onWsEvent: from here on the socket pushes to the client.
Connects == /\ Serving
            /\ ~ client.connected
            /\ log' = printf(log, INF)
            /\ client' = Delivered([NoClient EXCEPT !.connected = TRUE], log, log')
            /\ Goes("web", "init")
            /\ UNCHANGED <<phase, attempts, works, wifi>>

Evicted == log.entries - Len(log.ringBuffer)

\* Faulty variant of SendInit: the replay stops before the last entry.
SendInitShort ==
    /\ pc["web"] = "init"
    /\ client' = [client EXCEPT !.start = Evicted, !.pos = 1,
                                !.end = Len(log.ringBuffer) - 1]
    /\ Goes("web", IF Len(log.ringBuffer) < 2 THEN "idle" ELSE "replay")
    /\ UNCHANGED <<log, phase, attempts, works, wifi>>

\* sendInitToClient: the bounds of the loop over the entries are read once.
SendInit ==
    /\ pc["web"] = "init"
    /\ client' = [client EXCEPT !.start = Evicted, !.pos = 1,
                                !.end = Len(log.ringBuffer)]
    /\ Goes("web", IF log.ringBuffer = <<>> THEN "idle" ELSE "replay")
    /\ UNCHANGED <<log, phase, attempts, works, wifi>>

SendEntry ==
    /\ pc["web"] = "replay"
    /\ client' = [client EXCEPT !.got = Append(@, log.ringBuffer[client.pos]),
                                !.pos = @ + 1]
    /\ Goes("web", IF client.pos = client.end THEN "idle" ELSE "replay")
    /\ UNCHANGED <<log, phase, attempts, works, wifi>>

Disconnects == /\ Serving
               /\ client.connected
               /\ log' = printf(log, INF)
               /\ client' = NoClient
               /\ UNCHANGED <<phase, attempts, works, wifi, pc>>

\* handleWsMessage.
SetsLogLevel == /\ Serving
                /\ \E level \in Level : Logs(printf(setMaxLevel(log, level), INF))
                /\ UNCHANGED <<phase, attempts, works, wifi, pc>>

TogglesWebLog == /\ Serving
                 /\ \E enabled \in BOOLEAN :
                      Logs(printf(setWebEnabled(log, enabled), INF))
                 /\ UNCHANGED <<phase, attempts, works, wifi, pc>>

\* The line of a request's handler, of a message that is no JSON, or of an error.
WebLine == /\ Serving
           /\ \E level \in {ERR, WRN, INF} : Logs(printf(log, level))
           /\ UNCHANGED <<phase, attempts, works, wifi, pc>>

Web == \/ Connects \/ SendInit \/ SendEntry \/ Disconnects
       \/ SetsLogLevel \/ TogglesWebLog \/ WebLine

-----------------------------------------------------------------------------
(* Both tasks dump what they send, and the loop what it receives, byte by   *)
(* byte between two calls of level DBG.                                     *)

DumpBegins(t) ==
    /\ IF t = "loop" THEN LoopIdle ELSE Serving
    /\ RoomForText
    /\ Logs(print(log, DBG))
    /\ Goes(t, "dump")
    /\ UNCHANGED <<phase, attempts, works, wifi>>

DumpBytes(t) ==
    /\ Looping /\ pc[t] = "dump"
    /\ RoomForText
    /\ Logs(write(log, "part"))
    /\ Goes(t, "dumped")
    /\ UNCHANGED <<phase, attempts, works, wifi>>

\* By println, or by the printf of handleDiscoveryMessage.
DumpEnds(t) ==
    /\ Looping /\ pc[t] = "dumped"
    /\ \/ Logs(printlnEmpty(log, DBG))
       \/ t = "loop" /\ Logs(printf(log, DBG))
    /\ Goes(t, "idle")
    /\ UNCHANGED <<phase, attempts, works, wifi>>

Dump(t) == DumpBegins(t) \/ DumpBytes(t) \/ DumpEnds(t)

-----------------------------------------------------------------------------
PowerCycle == PowersOn /\ UNCHANGED works

\* A part begins or ceases to work, which matters while it is started.
WorksChanges == /\ phase \in Parts
                /\ works' = [works EXCEPT ![phase] = ~ @]
                /\ UNCHANGED <<log, phase, attempts, wifi, pc, client>>

Next == Setup \/ Loop \/ Web \/ (\E t \in Tasks : Dump(t)) \/ PowerCycle \/ WorksChanges

Spec == Init /\ [][Next]_vars

\* setup() goes on.
FairSpec == Spec /\ WF_vars(Setup)

-----------------------------------------------------------------------------
(* Properties. *)

\* Type invariant: a message has a text exactly while it is active, and the
\* ring holds the last entries, all of them and in order (Logger.cpp).
RingOk(l) == /\ Len(l.ringBuffer) <= RingMax
             /\ Len(l.ringBuffer) <= l.entries
             /\ \A i \in 1 .. Len(l.ringBuffer) :
                  l.ringBuffer[i] = l.entries - Len(l.ringBuffer) + i

LoggerOk(l) == /\ l \in LoggerState
               /\ l.messageActive <=> l.buffer # <<>>
               /\ RingOk(l)

ConsoleTypeOK ==
    /\ LoggerOk(log)
    /\ phase \in Parts \cup {"welcome", "loop"}
    /\ attempts \in 0 .. InitMaxAttempts - 1
    /\ works \in [Parts -> BOOLEAN]
    /\ wifi.state \in {"NEED_CONNECT", "CONNECTING", "CONNECTED"}
    /\ wifi.polls \in 0 .. MaxPollAttempts
    /\ pc["loop"] \in {"idle", "failed", "dump", "dumped"}
    /\ pc["web"] \in {"idle", "init", "replay", "dump", "dumped"}

\* An entry is one message: nothing follows the end of its line, and what one
\* printf says stands alone, whatever message the other task left open and
\* whatever level was set in between (printf, println, flush).
OneMessagePerEntry ==
    LET message == log.newest.message
    IN  /\ \A i \in 1 .. Len(message) - 1 : message[i] = "part"
        /\ message # <<>> /\ message[Len(message)] = "message" => Len(message) = 1

\* A level set by one task while the other has a message open holds for that
\* message too: an entry above the level is not stored (Logger::flush).
EntriesPassTheFilter ==
    [][log'.entries > log.entries => log'.newest.level <= log'.maxLevel]_vars

\* What the replay sends are entries of the history in their order, none twice,
\* and an entry that the full ring gives up meanwhile costs one at most
\* (sendInitToClient walks the ring by position while it moves).
ReplayInOrder ==
    LET got == client.got
    IN  /\ \A k, m \in 1 .. Len(got) : k < m => got[k] < got[m]
        /\ \A k \in 1 .. Len(got) :
             got[k] - (client.start + k) \in 0 .. Evicted - client.start

\* A client that nothing was held back from has all of the log in the end, but
\* for one entry at most for each that the ring gave up: what is logged during
\* the replay is pushed to it (sendInitToClient, pushToWebSocket).
ClientMissesOnlyEvicted ==
    LET sent == {client.got[k] : k \in 1 .. Len(client.got)} \cup client.live
    IN  client.connected /\ client.on /\ pc["web"] = "idle" =>
          Cardinality(((client.start + 1) .. log.entries) \ sent) <= Evicted - client.start

\* setup() does not hang: it gets through, or restarts after InitMaxAttempts
\* (main.cpp:239: "A hard (infinite) lockup is undesirable").
SetupNeverHangs == phase \in Parts ~> phase \in {"loop", "welcome"}
=============================================================================

--------------------------- MODULE ConsoleProofs ---------------------------
(***************************************************************************)
(* For every size of the ring and every number of attempts: the ring holds *)
(* the last entries in order, an entry is one message that passes the      *)
(* filter, and a client that joins while the log goes on gets all of it    *)
(* but for what the full ring gives up during the replay.                  *)
(***************************************************************************)
EXTENDS Console, SequenceTheorems, FiniteSetTheorems, TLAPS

-----------------------------------------------------------------------------
(***************************************************************************)
(* The logger, whoever calls it.  Its invariant: besides LoggerOk, that an *)
(* open message has nothing but parts, and that the newest entry is one    *)
(* message.                                                                *)
(***************************************************************************)
OnlyParts(buffer) == \A i \in 1 .. Len(buffer) : buffer[i] = "part"

OneMessage(message) ==
    /\ \A i \in 1 .. Len(message) - 1 : message[i] = "part"
    /\ message # <<>> /\ message[Len(message)] = "message" => Len(message) = 1

LoggerInv(l) == /\ LoggerOk(l)
                /\ OnlyParts(l.buffer)
                /\ OneMessage(l.newest.message)

\* A call that makes no entry, and one that makes one.
Quiet(l, l2) == l2.entries = l.entries /\ l2.ringBuffer = l.ringBuffer
Logged(l, l2) == /\ l2.entries = l.entries + 1
                 /\ l2.ringBuffer = addToRingBuffer(l.ringBuffer, l2.entries)
                 /\ l2.newest.level <= l2.maxLevel

LogStep(l, l2) == LoggerInv(l2) /\ (Quiet(l, l2) \/ Logged(l, l2))

\* An entry goes behind the others, and a full ring gives up its first.
LEMMA RingKeepsLast ==
    ASSUME NEW l, l \in LoggerState, RingOk(l)
    PROVE  LET ring == addToRingBuffer(l.ringBuffer, l.entries + 1)
               n == Len(l.ringBuffer)
           IN  /\ ring \in Seq(Nat)
               /\ Len(ring) = IF n < RingMax THEN n + 1 ELSE n
               /\ Len(ring) <= RingMax
               /\ Len(ring) <= l.entries + 1
               /\ \A i \in 1 .. Len(ring) : ring[i] = (l.entries + 1) - Len(ring) + i
  <1> DEFINE old == l.ringBuffer
             n == Len(old)
             e == l.entries
             kept == IF n >= RingMax THEN Tail(old) ELSE old
             ring == addToRingBuffer(old, e + 1)
  <1>1. /\ old \in Seq(Nat) /\ e \in Nat /\ n \in Nat /\ RingMax \in Nat \ {0}
        /\ n <= RingMax /\ n <= e
        /\ \A i \in 1 .. n : old[i] = e - n + i
    BY RingMaxAssumption, LenProperties DEF LoggerState, RingOk
  <1>2. ring = Append(kept, e + 1)
    BY DEF addToRingBuffer
  <1>3. /\ kept \in Seq(Nat)
        /\ Len(kept) = IF n < RingMax THEN n ELSE n - 1
        /\ \A i \in 1 .. Len(kept) : kept[i] = e - Len(kept) + i
    <2>1. CASE n >= RingMax
      <3>1. old # <<>>
        BY <1>1, <2>1, EmptySeq
      <3>2. /\ Tail(old) \in Seq(Nat)
            /\ Len(Tail(old)) = n - 1
            /\ \A i \in 1 .. n - 1 : Tail(old)[i] = old[i + 1]
        BY <1>1, <3>1, HeadTailProperties
      <3>3. kept = Tail(old) /\ Len(kept) = n - 1 /\ ~ (n < RingMax)
        BY <1>1, <2>1, <3>2
      <3> HIDE DEF kept, n, e, old
      <3>4. ASSUME NEW i \in 1 .. n - 1 PROVE kept[i] = e - (n - 1) + i
        <4>1. i \in Nat /\ i + 1 \in 1 .. n
          BY <1>1
        <4>2. kept[i] = old[i + 1] /\ old[i + 1] = e - n + (i + 1)
          BY <1>1, <3>2, <3>3, <4>1
        <4> QED BY <1>1, <4>1, <4>2
      <3> QED BY <3>2, <3>3, <3>4
    <2>2. CASE ~ (n >= RingMax)
      BY <1>1, <2>2
    <2> QED BY <2>1, <2>2
  <1> HIDE DEF kept, ring
  <1>4. /\ ring \in Seq(Nat)
        /\ Len(ring) = Len(kept) + 1
        /\ \A i \in 1 .. Len(kept) : ring[i] = kept[i]
        /\ ring[Len(kept) + 1] = e + 1
    BY <1>1, <1>2, <1>3, AppendProperties
  <1> DEFINE m == Len(kept)
  <1>5. ASSUME NEW i \in 1 .. Len(ring) PROVE ring[i] = e + 1 - Len(ring) + i
    <2>1. m \in Nat /\ Len(ring) = m + 1 /\ i \in 1 .. m + 1
      BY <1>3, <1>4, LenProperties
    <2> HIDE DEF m, e
    <2>2. CASE i = m + 1
      BY <1>1, <1>4, <2>1, <2>2 DEF m
    <2>3. CASE i \in 1 .. m
      <3>1. ring[i] = e - m + i
        BY <1>3, <1>4, <2>3 DEF m
      <3> QED BY <1>1, <2>1, <2>3, <3>1
    <2> QED BY <2>1, <2>2, <2>3
  <1>6. /\ Len(ring) = IF n < RingMax THEN n + 1 ELSE n
        /\ Len(ring) <= RingMax
        /\ Len(ring) <= e + 1
    BY <1>1, <1>3, <1>4
  <1>7. \A i \in 1 .. Len(ring) : ring[i] = (e + 1) - Len(ring) + i
    <2>1. Len(ring) \in Nat
      BY <1>4, LenProperties
    <2> QED BY <1>1, <1>5, <2>1
  <1> QED BY <1>4, <1>6, <1>7 DEF ring

\* What the bytes of a text and the end of a message do to a message that is
\* active.
LEMMA WriteBuffers ==
    ASSUME NEW l, l \in LoggerState, NEW text \in Text
    PROVE  LET q == write(l, text)
           IN  /\ q \in LoggerState
               /\ q.messageActive = l.messageActive
               /\ q.currentMessageLevel = l.currentMessageLevel
               /\ q.maxLevel = l.maxLevel
               /\ q.entries = l.entries /\ q.ringBuffer = l.ringBuffer
               /\ q.newest = l.newest
               /\ q.buffer = IF Buffering(l) THEN Append(l.buffer, text) ELSE l.buffer
  <1>1. CASE Buffering(l)
    <2>1. Append(l.buffer, text) \in Seq(Text)
      BY AppendProperties DEF LoggerState
    <2> QED BY <1>1, <2>1 DEF write, LoggerState
  <1>2. CASE ~ Buffering(l)
    BY <1>2 DEF write
  <1> QED BY <1>1, <1>2

\* The end of a message makes an entry of what it holds, if its level is still
\* let through.
LEMMA FlushLogs ==
    ASSUME NEW l, l \in LoggerState, RingOk(l), OneMessage(l.newest.message),
           l.messageActive /\ l.buffer # <<>> => OneMessage(l.buffer)
    PROVE  LogStep(l, flush(l))
  <1> DEFINE q == flush(l)
  <1>1. CASE ~ Buffering(l) \/ l.buffer = <<>>
    <2>1. q = Closed(l)
      BY <1>1 DEF flush, finalizeMessage
    <2>2. q \in LoggerState /\ ~ q.messageActive /\ q.buffer = <<>>
      BY <2>1, EmptySeq DEF Closed, LoggerState
    <2>3. q.entries = l.entries /\ q.ringBuffer = l.ringBuffer /\ q.newest = l.newest
      BY <2>1 DEF Closed, LoggerState
    <2> QED BY <2>2, <2>3 DEF LogStep, LoggerInv, LoggerOk, RingOk, OnlyParts, Quiet
  <1>2. CASE Buffering(l) /\ l.buffer # <<>>
    <2> DEFINE ring == addToRingBuffer(l.ringBuffer, l.entries + 1)
               entry == [level |-> l.currentMessageLevel, message |-> l.buffer]
    <2>1. q = [l EXCEPT !.ringBuffer = ring, !.entries = l.entries + 1, !.newest = entry,
                        !.messageActive = FALSE, !.buffer = <<>>]
      BY <1>2 DEF flush, finalizeMessage, Closed, LoggerState
    <2>2. /\ ring \in Seq(Nat) /\ Len(ring) <= RingMax /\ Len(ring) <= l.entries + 1
          /\ \A i \in 1 .. Len(ring) : ring[i] = (l.entries + 1) - Len(ring) + i
      BY RingKeepsLast
    <2> HIDE DEF ring
    <2>3. entry \in LogEntry /\ entry.message = l.buffer /\ entry.level = l.currentMessageLevel
      BY DEF LogEntry, LoggerState
    <2> HIDE DEF entry, q
    <2>4. /\ q \in LoggerState
          /\ ~ q.messageActive /\ q.buffer = <<>>
          /\ q.ringBuffer = ring /\ q.entries = l.entries + 1 /\ q.newest = entry
          /\ q.maxLevel = l.maxLevel
      <3>1. l.entries + 1 \in Nat /\ <<>> \in Seq(Text)
        BY EmptySeq DEF LoggerState
      <3> QED BY <2>1, <2>2, <2>3, <3>1 DEF LoggerState
    <2>5. OneMessage(q.newest.message) /\ q.newest.level <= q.maxLevel
      BY <1>2, <2>3, <2>4 DEF Buffering
    <2>6. RingOk(q)
      BY <2>2, <2>4 DEF RingOk
    <2>7. OnlyParts(q.buffer)
      BY <2>4 DEF OnlyParts
    <2>8. LoggerInv(q)
      BY <2>4, <2>5, <2>6, <2>7 DEF LoggerInv, LoggerOk
    <2>9. Logged(l, q)
      BY <2>4, <2>5 DEF Logged, ring
    <2> QED BY <2>8, <2>9 DEF LogStep, q
  <1> QED BY <1>1, <1>2

\* What a level's setting changes is no entry.
LEMMA SettingsQuiet ==
    ASSUME NEW l, LoggerInv(l), NEW level \in Level, NEW on \in BOOLEAN
    PROVE  /\ LoggerInv(setMaxLevel(l, level)) /\ Quiet(l, setMaxLevel(l, level))
           /\ LoggerInv(setWebSocket(l, on)) /\ Quiet(l, setWebSocket(l, on))
           /\ LoggerInv(setWebEnabled(l, on)) /\ Quiet(l, setWebEnabled(l, on))
  <1>1. ASSUME NEW q, q \in LoggerState, q.messageActive = l.messageActive,
               q.buffer = l.buffer, q.ringBuffer = l.ringBuffer,
               q.entries = l.entries, q.newest = l.newest
        PROVE  LoggerInv(q) /\ Quiet(l, q)
    BY <1>1 DEF LoggerInv, LoggerOk, RingOk, OnlyParts, Quiet
  <1>2. l \in LoggerState
    BY DEF LoggerInv, LoggerOk
  <1>3. LoggerInv(setMaxLevel(l, level)) /\ Quiet(l, setMaxLevel(l, level))
    <2> DEFINE q == setMaxLevel(l, level)
    <2>1. /\ q \in LoggerState /\ q.messageActive = l.messageActive /\ q.buffer = l.buffer
          /\ q.ringBuffer = l.ringBuffer /\ q.entries = l.entries /\ q.newest = l.newest
      BY <1>2 DEF setMaxLevel, LoggerState
    <2> QED BY <1>1, <2>1
  <1>4. LoggerInv(setWebSocket(l, on)) /\ Quiet(l, setWebSocket(l, on))
    <2> DEFINE q == setWebSocket(l, on)
    <2>1. /\ q \in LoggerState /\ q.messageActive = l.messageActive /\ q.buffer = l.buffer
          /\ q.ringBuffer = l.ringBuffer /\ q.entries = l.entries /\ q.newest = l.newest
      BY <1>2 DEF setWebSocket, LoggerState
    <2> QED BY <1>1, <2>1
  <1>5. LoggerInv(setWebEnabled(l, on)) /\ Quiet(l, setWebEnabled(l, on))
    <2> DEFINE q == setWebEnabled(l, on)
    <2>1. /\ q \in LoggerState /\ q.messageActive = l.messageActive /\ q.buffer = l.buffer
          /\ q.ringBuffer = l.ringBuffer /\ q.entries = l.entries /\ q.newest = l.newest
      BY <1>2 DEF setWebEnabled, LoggerState
    <2> QED BY <1>1, <2>1
  <1> QED BY <1>3, <1>4, <1>5

\* A message that begins, or goes on, at a level that is let through.
LEMMA OpenedActive ==
    ASSUME NEW l, LoggerInv(l), NEW level \in Level
    PROVE  LET q == Opened(l, level)
               s == Started(l, level)
           IN  /\ q \in LoggerState /\ s \in LoggerState
               /\ q.messageActive /\ s.messageActive
               /\ s.currentMessageLevel = level /\ s.buffer = <<>>
               /\ ~ l.messageActive => q = s
               /\ l.messageActive => q = l
               /\ OnlyParts(q.buffer)
               /\ \A x \in {q, s} : /\ x.maxLevel = l.maxLevel
                                    /\ x.entries = l.entries
                                    /\ x.ringBuffer = l.ringBuffer
                                    /\ x.newest = l.newest
  <1> DEFINE s == Started(l, level)
  <1>1. l \in LoggerState /\ OnlyParts(l.buffer)
    BY DEF LoggerInv, LoggerOk
  <1>2. /\ s \in LoggerState
        /\ s.messageActive
        /\ s.currentMessageLevel = level /\ s.buffer = <<>>
        /\ s.maxLevel = l.maxLevel /\ s.entries = l.entries
        /\ s.ringBuffer = l.ringBuffer /\ s.newest = l.newest
    BY <1>1, EmptySeq DEF Started, LoggerState
  <1>3. OnlyParts(<<>>)
    BY DEF OnlyParts
  <1> HIDE DEF s
  <1> QED BY <1>1, <1>2, <1>3 DEF Opened, s

\* A text put behind parts keeps a message one message.
LEMMA AppendToParts ==
    ASSUME NEW b \in Seq(Text), OnlyParts(b), NEW text \in Text
    PROVE  /\ Append(b, text) # <<>>
           /\ text = "part" => OnlyParts(Append(b, text))
           /\ text \in {"part", "line"} \/ b = <<>> => OneMessage(Append(b, text))
  <1> DEFINE n == Len(b)
             a == Append(b, text)
  <1>1. /\ a \in Seq(Text) /\ a # <<>>
        /\ n \in Nat
        /\ Len(a) = n + 1
        /\ \A i \in 1 .. n : a[i] = b[i]
        /\ a[n + 1] = text
    BY AppendProperties, LenProperties
  <1>2. b = <<>> => n = 0
    BY EmptySeq
  <1> HIDE DEF a, n
  <1>3. \A i \in 1 .. n : a[i] = "part"
    BY <1>1 DEF OnlyParts, n
  <1>4. text = "part" => OnlyParts(a)
    BY <1>1, <1>3 DEF OnlyParts
  <1>5. text \in {"part", "line"} \/ b = <<>> => OneMessage(a)
    <2>1. Len(a) - 1 = n
      BY <1>1
    <2> QED BY <1>1, <1>2, <1>3, <2>1 DEF OneMessage
  <1> QED BY <1>1, <1>4, <1>5 DEF a

\* A message of nothing but parts is one message.
LEMMA PartsAreOne ==
    ASSUME NEW b \in Seq(Text), OnlyParts(b)
    PROVE  OneMessage(b)
  <1>1. Len(b) \in Nat /\ (b # <<>> => Len(b) \in 1 .. Len(b))
    BY EmptySeq, LenProperties
  <1> QED BY <1>1 DEF OnlyParts, OneMessage

\* A text alone, as the byte dumps write it, makes no entry.
LEMMA WritePartStep ==
    ASSUME NEW l, LoggerInv(l)
    PROVE  LoggerInv(write(l, "part")) /\ Quiet(l, write(l, "part"))
  <1> DEFINE q == write(l, "part")
  <1>1. /\ l \in LoggerState /\ l.buffer \in Seq(Text) /\ OnlyParts(l.buffer)
        /\ "part" \in Text
        /\ l.messageActive <=> l.buffer # <<>>
        /\ RingOk(l) /\ OneMessage(l.newest.message)
    BY DEF LoggerInv, LoggerOk, LoggerState, Text
  <1>2. /\ q \in LoggerState
        /\ q.messageActive = l.messageActive
        /\ q.entries = l.entries /\ q.ringBuffer = l.ringBuffer /\ q.newest = l.newest
        /\ q.buffer = IF Buffering(l) THEN Append(l.buffer, "part") ELSE l.buffer
    BY <1>1, WriteBuffers
  <1> HIDE DEF q
  <1>3. OnlyParts(q.buffer) /\ (q.messageActive <=> q.buffer # <<>>)
    BY <1>1, <1>2, AppendToParts DEF Buffering
  <1>4. RingOk(q)
    BY <1>1, <1>2 DEF RingOk
  <1> QED BY <1>1, <1>2, <1>3, <1>4 DEF LoggerInv, LoggerOk, Quiet, q

\* print makes no entry.
LEMMA PrintStep ==
    ASSUME NEW l, LoggerInv(l), NEW level \in Level
    PROVE  LoggerInv(print(l, level)) /\ Quiet(l, print(l, level))
  <1> DEFINE o == Opened(l, level)
             q == write(o, "part")
  <1>1. CASE level > l.maxLevel
    BY <1>1 DEF print, Quiet
  <1>2. CASE ~ (level > l.maxLevel)
    <2>1. /\ l \in LoggerState /\ (l.messageActive <=> l.buffer # <<>>)
          /\ RingOk(l) /\ OneMessage(l.newest.message)
          /\ level \in Int /\ l.maxLevel \in Int
          /\ "part" \in Text
      BY DEF LoggerInv, LoggerOk, LoggerState, Text, Level, ERR, DBG
    <2>2. /\ o \in LoggerState /\ o.messageActive /\ OnlyParts(o.buffer)
          /\ o.buffer \in Seq(Text)
          /\ ~ l.messageActive => o.currentMessageLevel = level
          /\ l.messageActive => o.buffer # <<>>
          /\ o.maxLevel = l.maxLevel /\ o.entries = l.entries
          /\ o.ringBuffer = l.ringBuffer /\ o.newest = l.newest
      BY <2>1, OpenedActive DEF LoggerState
    <2> HIDE DEF o
    <2>3. /\ q \in LoggerState
          /\ q.messageActive
          /\ q.entries = l.entries /\ q.ringBuffer = l.ringBuffer /\ q.newest = l.newest
          /\ q.buffer = IF Buffering(o) THEN Append(o.buffer, "part") ELSE o.buffer
      BY <2>1, <2>2, WriteBuffers
    <2> HIDE DEF q
    <2>4. OnlyParts(q.buffer) /\ q.buffer # <<>>
      <3>1. ~ Buffering(o) => o.buffer # <<>>
        BY <1>2, <2>1, <2>2 DEF Buffering
      <3> QED BY <2>1, <2>2, <2>3, <3>1, AppendToParts
    <2>5. RingOk(q)
      BY <2>1, <2>3 DEF RingOk
    <2>6. LoggerInv(q) /\ Quiet(l, q)
      BY <2>1, <2>3, <2>4, <2>5 DEF LoggerInv, LoggerOk, Quiet
    <2> QED BY <1>2, <2>6 DEF print, q, o
  <1> QED BY <1>1, <1>2

\* A step of the logger from a state that agrees on entries is one from l.
LEMMA StepFrom ==
    ASSUME NEW l, NEW o, Quiet(l, o), NEW q, LogStep(o, q)
    PROVE  LogStep(l, q)
  BY DEF LogStep, Quiet, Logged

\* println, with a text or without, makes an entry of the message it ends.
LEMMA PrintlnStep ==
    ASSUME NEW l, LoggerInv(l), NEW level \in Level
    PROVE  LogStep(l, println(l, level)) /\ LogStep(l, printlnEmpty(l, level))
  <1> DEFINE o == Opened(l, level)
             w == write(o, "line")
  <1>1. CASE level > l.maxLevel
    BY <1>1 DEF println, printlnEmpty, LogStep, Quiet
  <1>2. CASE ~ (level > l.maxLevel)
    <2>1. l \in LoggerState /\ RingOk(l) /\ OneMessage(l.newest.message) /\ "line" \in Text
      BY DEF LoggerInv, LoggerOk, Text
    <2>2. /\ o \in LoggerState /\ o.messageActive /\ OnlyParts(o.buffer)
          /\ o.buffer \in Seq(Text)
          /\ o.entries = l.entries /\ o.ringBuffer = l.ringBuffer /\ o.newest = l.newest
      BY OpenedActive DEF LoggerState
    <2> HIDE DEF o
    <2>3. /\ w \in LoggerState
          /\ w.entries = l.entries /\ w.ringBuffer = l.ringBuffer /\ w.newest = l.newest
          /\ w.buffer = IF Buffering(o) THEN Append(o.buffer, "line") ELSE o.buffer
      BY <2>1, <2>2, WriteBuffers
    <2> HIDE DEF w
    <2>4. OneMessage(o.buffer) /\ OneMessage(w.buffer)
      BY <2>1, <2>2, <2>3, AppendToParts, PartsAreOne
    <2>5. RingOk(o) /\ RingOk(w) /\ Quiet(l, o) /\ Quiet(l, w)
      BY <2>1, <2>2, <2>3 DEF RingOk, Quiet
    <2>6. LogStep(l, flush(w))
      BY <2>1, <2>3, <2>4, <2>5, FlushLogs, StepFrom
    <2>7. LogStep(l, flush(o))
      BY <2>1, <2>2, <2>4, <2>5, FlushLogs, StepFrom
    <2> QED BY <1>2, <2>6, <2>7 DEF println, printlnEmpty, w, o
  <1> QED BY <1>1, <1>2

\* printf makes an entry of its own message and of nothing else.
LEMMA PrintfStep ==
    ASSUME NEW l, LoggerInv(l), NEW level \in Level
    PROVE  LogStep(l, printf(l, level))
  <1> DEFINE s == Started(l, level)
             w == write(s, "message")
  <1>1. CASE level > l.maxLevel
    BY <1>1 DEF printf, LogStep, Quiet
  <1>2. CASE ~ (level > l.maxLevel)
    <2>1. l \in LoggerState /\ RingOk(l) /\ OneMessage(l.newest.message) /\ "message" \in Text
      BY DEF LoggerInv, LoggerOk, Text
    <2>2. /\ s \in LoggerState /\ s.buffer = <<>> /\ <<>> \in Seq(Text)
          /\ s.entries = l.entries /\ s.ringBuffer = l.ringBuffer /\ s.newest = l.newest
      BY OpenedActive, EmptySeq
    <2> HIDE DEF s
    <2>3. /\ w \in LoggerState
          /\ w.entries = l.entries /\ w.ringBuffer = l.ringBuffer /\ w.newest = l.newest
          /\ w.buffer = IF Buffering(s) THEN Append(<<>>, "message") ELSE <<>>
      BY <2>1, <2>2, WriteBuffers
    <2> HIDE DEF w
    <2>4. w.buffer # <<>> => OneMessage(w.buffer)
      <3>1. OnlyParts(<<>>)
        BY DEF OnlyParts
      <3> QED BY <2>1, <2>2, <2>3, <3>1, AppendToParts
    <2>5. RingOk(w) /\ Quiet(l, w)
      BY <2>1, <2>3 DEF RingOk, Quiet
    <2>6. LogStep(l, flush(w))
      BY <2>1, <2>3, <2>4, <2>5, FlushLogs, StepFrom
    <2> QED BY <1>2, <2>6 DEF printf, w, s
  <1> QED BY <1>1, <1>2

\* A new logger has nothing to say.
LEMMA NewLoggerInv == LoggerInv(NewLogger)
  BY EmptySeq, RingMaxAssumption
  DEF NewLogger, LoggerInv, LoggerOk, LoggerState, LogEntry, Level, ERR, DBG, INF, RingOk,
      OnlyParts, OneMessage

-----------------------------------------------------------------------------
(***************************************************************************)
(* The inductive invariant of the console.  Of the tasks: polls stay below *)
(* their maximum until the message about them is due, and only the loop    *)
(* phase has a client.  Of the replay: up to its end it has sent the first *)
(* positions of the ring, each of them no further on than the ring had     *)
(* moved by then; all that was logged since it began has been pushed.      *)
(***************************************************************************)
Clients == [connected : BOOLEAN, start : Nat, pos : Nat, end : Nat,
            got : Seq(Nat), on : BOOLEAN, live : SUBSET Nat]

TasksOk ==
    /\ LoggerInv(log)
    /\ phase \in Parts \cup {"welcome", "loop"}
    /\ attempts \in 0 .. InitMaxAttempts - 1
    /\ works \in [Parts -> BOOLEAN]
    /\ wifi \in [state : {"NEED_CONNECT", "CONNECTING", "CONNECTED"}, polls : 0 .. MaxPollAttempts]
    /\ DOMAIN pc = Tasks
    /\ pc["loop"] \in {"idle", "failed", "dump", "dumped"}
    /\ pc["web"] \in {"idle", "init", "replay", "dump", "dumped"}
    /\ pc["loop"] # "failed" => wifi.polls < MaxPollAttempts

\* Positions sent so far.
Sent(c) == Len(c.got)

\* What the client c has got from a ring that has given up `evicted` entries.
ReplayOk(c, evicted) ==
    /\ c.start <= evicted
    /\ \A k, m \in 1 .. Sent(c) : k < m => c.got[k] < c.got[m]
    /\ \A k \in 1 .. Sent(c) : c.got[k] - (c.start + k) \in 0 .. evicted - c.start

\* Where the replay to the client c is, by the place of the web task.
ProgressOk(c, at) ==
    /\ at \in {"init", "replay"} => c.connected
    /\ at = "init" => c.got = <<>> /\ c.start = 0
    /\ at = "replay" => c.pos \in 1 .. c.end /\ Sent(c) = c.pos - 1
    /\ at \notin {"init", "replay"} => Sent(c) = c.end

\* Everything behind the replay was pushed, unless something was held back.
PushedOk(c, at, entries) ==
    c.connected /\ c.on /\ at # "init" => \A n \in c.start + c.end + 1 .. entries : n \in c.live

ClientInv(c, l, at) ==
    /\ c \in Clients
    /\ ~ c.connected => c = NoClient
    /\ c.end <= Len(l.ringBuffer)
    /\ c.start + c.end <= l.entries
    /\ ReplayOk(c, l.entries - Len(l.ringBuffer))
    /\ ProgressOk(c, at)
    /\ PushedOk(c, at, l.entries)

ConsoleInv ==
    /\ TasksOk
    /\ ClientInv(client, log, pc["web"])
    /\ client.connected => phase = "loop"

\* INF and the other levels of the handlers' lines.
LEMMA LevelsOk == /\ {ERR, WRN, INF, DBG} \subseteq Level
                  /\ LoopLevels \subseteq Level
  BY LoopLevelsAssumption DEF Level, ERR, WRN, INF, DBG

\* Neither the entries, nor the ring, nor what it has given up ever get fewer.
LEMMA LogGrows ==
    ASSUME NEW l, NEW l2, LoggerInv(l), LogStep(l, l2)
    PROVE  /\ l.entries \in Nat /\ l2.entries \in Nat
           /\ Len(l.ringBuffer) \in Nat /\ Len(l2.ringBuffer) \in Nat
           /\ l2.entries \in {l.entries, l.entries + 1}
           /\ Len(l.ringBuffer) <= Len(l2.ringBuffer)
           /\ Len(l.ringBuffer) <= l.entries /\ Len(l2.ringBuffer) <= l2.entries
           /\ l.entries - Len(l.ringBuffer) \in Nat
           /\ l.entries - Len(l.ringBuffer) <= l2.entries - Len(l2.ringBuffer)
  <1>1. /\ l \in LoggerState /\ RingOk(l) /\ l2 \in LoggerState /\ RingOk(l2)
        /\ l.ringBuffer \in Seq(Nat) /\ l2.ringBuffer \in Seq(Nat)
        /\ l.entries \in Nat /\ l2.entries \in Nat
    BY DEF LogStep, LoggerInv, LoggerOk, LoggerState
  <1>2. Len(l.ringBuffer) \in Nat /\ Len(l2.ringBuffer) \in Nat
    BY <1>1, LenProperties
  <1>3. Len(l.ringBuffer) <= l.entries /\ Len(l2.ringBuffer) <= l2.entries
    BY <1>1 DEF RingOk
  <1>4. CASE Quiet(l, l2)
    BY <1>1, <1>2, <1>3, <1>4 DEF Quiet
  <1>5. CASE Logged(l, l2)
    <2>1. /\ l2.entries = l.entries + 1
          /\ Len(l2.ringBuffer) = IF Len(l.ringBuffer) < RingMax
                                  THEN Len(l.ringBuffer) + 1 ELSE Len(l.ringBuffer)
      BY <1>1, <1>5, RingKeepsLast DEF Logged
    <2> QED BY <1>1, <1>2, <1>3, <2>1
  <1> QED BY <1>4, <1>5 DEF LogStep

\* What a client has got stays right when the ring moves on.
LEMMA ReplayStaysOk ==
    ASSUME NEW c, c \in Clients, NEW evicted \in Nat, NEW later \in Nat, evicted <= later,
           ReplayOk(c, evicted)
    PROVE  ReplayOk(c, later)
  <1>1. c.start \in Nat /\ c.start <= evicted
    BY DEF ReplayOk, Clients
  <1>2. evicted - c.start \in Nat /\ later - c.start \in Nat
        /\ evicted - c.start <= later - c.start
    BY <1>1
  <1>3. 0 .. evicted - c.start \subseteq 0 .. later - c.start
    BY <1>2
  <1> QED BY <1>1, <1>3 DEF ReplayOk

\* What is delivered to a client of an entry is the entry, or the client is
\* known to have missed it.
LEMMA DeliveredOk ==
    ASSUME NEW l, NEW l2, LoggerInv(l), LogStep(l, l2), NEW c, NEW at, ClientInv(c, l, at)
    PROVE  /\ ClientInv(Delivered(c, l, l2), l2, at)
           /\ Delivered(c, l, l2).connected = c.connected
  <1> DEFINE q == Delivered(c, l, l2)
  <1>1. /\ c \in Clients /\ (~ c.connected => c = NoClient)
        /\ c.start \in Nat /\ c.end \in Nat /\ c.connected \in BOOLEAN
    BY DEF ClientInv, Clients
  <1>2. /\ l.entries \in Nat /\ l2.entries \in Nat
        /\ l2.entries \in {l.entries, l.entries + 1}
        /\ pushed(l, l2) \in {{}, {l2.entries}}
    BY LogGrows DEF pushed
  <1>3. \/ q = c /\ (c.connected /\ c.on => l2.entries = l.entries)
        \/ q = [c EXCEPT !.on = FALSE, !.live = {}]
        \/ q = [c EXCEPT !.live = @ \cup {l2.entries}]
    BY <1>2 DEF Delivered
  <1>4. /\ q \in Clients
        /\ q.connected = c.connected /\ q.start = c.start /\ q.end = c.end
        /\ q.pos = c.pos /\ q.got = c.got
        /\ q.on => /\ c.on
                   /\ c.live \subseteq q.live
                   /\ c.connected => l2.entries = l.entries \/ l2.entries \in q.live
        /\ ~ c.connected => q = c
    <2>1. ~ c.connected => q = c
      BY DEF Delivered
    <2>2. CASE q = c /\ (c.connected /\ c.on => l2.entries = l.entries)
      BY <1>1, <2>2
    <2>3. CASE q = [c EXCEPT !.on = FALSE, !.live = {}]
      <3> HIDE DEF q
      <3>1. {} \in SUBSET Nat
        OBVIOUS
      <3> QED BY <1>1, <2>1, <2>3, <3>1 DEF Clients
    <2>4. CASE q = [c EXCEPT !.live = @ \cup {l2.entries}]
      <3> HIDE DEF q
      <3>1. c.live \cup {l2.entries} \in SUBSET Nat
        BY <1>1, <1>2 DEF Clients
      <3> QED BY <1>1, <2>1, <2>4, <3>1 DEF Clients
    <2> QED BY <1>3, <2>2, <2>3, <2>4
  <1> HIDE DEF q
  <1>5. ~ q.connected => q = NoClient
    BY <1>1, <1>4
  <1>6. q.end <= Len(l2.ringBuffer) /\ q.start + q.end <= l2.entries
    BY <1>1, <1>4, LogGrows DEF ClientInv
  <1>7. ReplayOk(q, l2.entries - Len(l2.ringBuffer))
    <2> DEFINE old == l.entries - Len(l.ringBuffer)
               new == l2.entries - Len(l2.ringBuffer)
    <2>1. old \in Nat /\ new \in Nat /\ old <= new
      BY LogGrows
    <2>2. ReplayOk(q, old)
      BY <1>4 DEF ClientInv, ReplayOk, Sent
    <2> HIDE DEF old, new
    <2>3. ReplayOk(q, new)
      BY <1>4, <2>1, <2>2, ReplayStaysOk
    <2> QED BY <2>3 DEF new
  <1>8. ProgressOk(q, at)
    BY <1>4 DEF ClientInv, ProgressOk, Sent
  <1>9. PushedOk(q, at, l2.entries)
    <2> SUFFICES ASSUME q.connected, q.on, at # "init",
                        NEW n \in q.start + q.end + 1 .. l2.entries
                 PROVE  n \in q.live
      BY DEF PushedOk
    <2>1. \/ n \in c.start + c.end + 1 .. l.entries
          \/ n = l2.entries /\ l2.entries # l.entries
      <3> DEFINE a == c.start + c.end + 1
                 e == l.entries
                 e2 == l2.entries
      <3>1. a \in Nat /\ e \in Nat /\ e2 \in {e, e + 1} /\ n \in a .. e2
        BY <1>1, <1>2, <1>4
      <3> HIDE DEF a, e, e2
      <3>2. n \in a .. e \/ (n = e2 /\ e2 # e)
        BY <3>1
      <3> QED BY <3>2 DEF a, e, e2
    <2> QED BY <1>4, <2>1 DEF ClientInv, PushedOk
  <1> QED BY <1>4, <1>5, <1>6, <1>7, <1>8, <1>9 DEF ClientInv, q

\* Without a client there is nothing to say.
LEMMA NoClientInv ==
    ASSUME NEW l, LoggerInv(l), NEW at, at \notin {"init", "replay"}
    PROVE  ClientInv(NoClient, l, at)
  <1>1. LogStep(l, l)
    BY DEF LogStep, Quiet
  <1>2. /\ Len(l.ringBuffer) \in Nat /\ l.entries \in Nat
        /\ l.entries - Len(l.ringBuffer) \in Nat
    BY <1>1, LogGrows
  <1> DEFINE c == NoClient
  <1>3. /\ c \in Clients /\ ~ c.connected /\ c.start = 0 /\ c.end = 0
        /\ c.got = <<>> /\ Len(c.got) = 0
    BY EmptySeq DEF NoClient, Clients
  <1> HIDE DEF c
  <1>4. ReplayOk(c, l.entries - Len(l.ringBuffer))
    BY <1>2, <1>3 DEF ReplayOk, Sent
  <1>5. ProgressOk(c, at) /\ PushedOk(c, at, l.entries)
    BY <1>3 DEF ProgressOk, PushedOk, Sent
  <1> QED BY <1>2, <1>3, <1>4, <1>5 DEF ClientInv, c

\* It makes no difference which of the places outside the replay the web task
\* is at.
LEMMA SamePlace ==
    ASSUME NEW c, NEW l, NEW at, ClientInv(c, l, at), at \notin {"init", "replay"},
           NEW at2, at2 \notin {"init", "replay"}
    PROVE  ClientInv(c, l, at2)
  BY DEF ClientInv, ProgressOk, PushedOk

-----------------------------------------------------------------------------
(* The steps. *)

\* A step of the program takes the logger from one call to the next, or the
\* logger is new.
LogGoesOn == LogStep(log, log') \/ log' = NewLogger

\* What RAM holds at power on.
LEMMA PowersOnInv ==
    ASSUME PowersOn, works' \in [Parts -> BOOLEAN]
    PROVE  ConsoleInv' /\ LogGoesOn
  <1>1. /\ log' = NewLogger /\ phase' = "welcome" /\ attempts' = 0 /\ client' = NoClient
        /\ wifi' = [state |-> "NEED_CONNECT", polls |-> 0]
        /\ pc' = [t \in Tasks |-> "idle"]
    BY DEF PowersOn, NoWifi
  <1>2. pc'["web"] = "idle" /\ pc'["loop"] = "idle" /\ DOMAIN pc' = Tasks
    BY <1>1 DEF Tasks
  <1>3. LoggerInv(log')
    BY <1>1, NewLoggerInv
  <1>4. ClientInv(client', log', pc'["web"]) /\ ~ client'.connected
    BY <1>1, <1>2, <1>3, NoClientInv DEF NoClient
  <1>5. TasksOk'
    BY <1>1, <1>2, <1>3, InitMaxAttemptsAssumption, MaxPollAttemptsAssumption DEF TasksOk
  <1> QED BY <1>1, <1>4, <1>5 DEF ConsoleInv, LogGoesOn

\* The first states.
LEMMA InitInv == Init => ConsoleInv
  <1> SUFFICES ASSUME Init PROVE ConsoleInv
    OBVIOUS
  <1>1. /\ log = NewLogger /\ phase = "welcome" /\ attempts = 0 /\ client = NoClient
        /\ wifi = [state |-> "NEED_CONNECT", polls |-> 0]
        /\ pc = [t \in Tasks |-> "idle"]
        /\ works \in [Parts -> BOOLEAN]
    BY DEF Init, PowerOn, NoWifi
  <1>2. pc["web"] = "idle" /\ pc["loop"] = "idle" /\ DOMAIN pc = Tasks
    BY <1>1 DEF Tasks
  <1>3. LoggerInv(log)
    BY <1>1, NewLoggerInv
  <1>4. ClientInv(client, log, pc["web"]) /\ ~ client.connected
    BY <1>1, <1>2, <1>3, NoClientInv DEF NoClient
  <1>5. TasksOk
    BY <1>1, <1>2, <1>3, InitMaxAttemptsAssumption, MaxPollAttemptsAssumption DEF TasksOk
  <1> QED BY <1>1, <1>4, <1>5 DEF ConsoleInv

\* A call of the logger in loop() or in a handler, at whatever place of the web
\* task outside the replay, or anywhere in it when only the loop moves.
LEMMA LogsOk ==
    ASSUME ConsoleInv, NEW l2, LogStep(log, l2), Logs(l2), NEW at,
           \/ at = pc["web"]
           \/ at \notin {"init", "replay"} /\ pc["web"] \notin {"init", "replay"}
    PROVE  /\ LoggerInv(log') /\ LogGoesOn
           /\ ClientInv(client', log', at)
           /\ client'.connected = client.connected
  <1>1. LoggerInv(log) /\ ClientInv(client, log, pc["web"])
    BY DEF ConsoleInv, TasksOk
  <1>2. ClientInv(client, log, at)
    BY <1>1, SamePlace
  <1>3. /\ ClientInv(Delivered(client, log, l2), l2, at)
        /\ Delivered(client, log, l2).connected = client.connected
    BY <1>1, <1>2, DeliveredOk
  <1> QED BY <1>3 DEF Logs, LogStep, LogGoesOn

\* Before the loop nobody is served.
LEMMA SetupLogs ==
    ASSUME ConsoleInv, phase # "loop", LogStep(log, log'), UNCHANGED <<pc, client>>
    PROVE  /\ LoggerInv(log') /\ LogGoesOn
           /\ ClientInv(client', log', pc'["web"])
           /\ ~ client'.connected
  <1>1. client' = Delivered(client, log, log') /\ ~ client.connected
    BY DEF ConsoleInv, Delivered
  <1>2. Logs(log')
    BY <1>1 DEF Logs
  <1> QED BY <1>1, <1>2, LogsOk

\* A call that makes no entry, behind one that may: the filter is the first's,
\* which print leaves as it is.
LEMMA QuietAfter ==
    ASSUME NEW l, LoggerInv(l), NEW o, LogStep(l, o), NEW level \in Level
    PROVE  LogStep(l, print(o, level))
  <1> DEFINE q == print(o, level)
  <1>1. LoggerInv(q) /\ Quiet(o, q)
    BY PrintStep DEF LogStep
  <1>2. q.newest = o.newest /\ q.maxLevel = o.maxLevel
    <2>1. o \in LoggerState
      BY DEF LogStep, LoggerInv, LoggerOk
    <2>2. Opened(o, level).newest = o.newest /\ Opened(o, level).maxLevel = o.maxLevel
          /\ Opened(o, level) \in LoggerState
      BY OpenedActive DEF LogStep
    <2>3. "part" \in Text
      BY DEF Text
    <2> QED BY <2>2, <2>3, WriteBuffers DEF print
  <1> HIDE DEF q
  <1> QED BY <1>1, <1>2 DEF LogStep, Quiet, Logged, q

\* The steps of setup(), for the part that is started in this phase.
LEMMA SetupInv ==
    ASSUME ConsoleInv, Setup
    PROVE  ConsoleInv' /\ LogGoesOn
  <1>1. /\ LoggerInv(log) /\ TasksOk /\ works \in [Parts -> BOOLEAN]
        /\ INF \in Level
    BY LevelsOk DEF ConsoleInv, TasksOk
  <1>2. InitMaxAttempts \in Nat \ {0} /\ attempts \in 0 .. InitMaxAttempts - 1
    BY <1>1, InitMaxAttemptsAssumption DEF TasksOk
  <1>3. CASE GivesUp
    BY <1>1, <1>3, PowersOnInv DEF GivesUp
  <1>4. CASE Welcome
    <2>1. /\ log' = print(printf(log, INF), INF)
          /\ phase = "welcome" /\ phase' = "spiffs" /\ attempts' = 0
          /\ UNCHANGED <<works, wifi, pc, client>>
      BY <1>4 DEF Welcome
    <2>2. LogStep(log, log')
      <3>1. LogStep(log, printf(log, INF))
        BY <1>1, PrintfStep
      <3> QED BY <1>1, <2>1, <3>1, QuietAfter
    <2>3. /\ LoggerInv(log') /\ LogGoesOn /\ ClientInv(client', log', pc'["web"])
          /\ ~ client'.connected
      BY <2>1, <2>2, SetupLogs
    <2>4. TasksOk'
      BY <1>1, <1>2, <2>1, <2>3 DEF TasksOk, Parts
    <2> QED BY <2>3, <2>4 DEF ConsoleInv
  <1>5. CASE Starts
    <2>1. /\ phase \in Parts /\ phase' \in {"lora", "loop"} /\ attempts' = 0
          /\ log' = println(log, INF) \/ log' = print(println(log, INF), INF)
          /\ UNCHANGED <<works, wifi, pc, client>>
      BY <1>5 DEF Starts
    <2>2. LogStep(log, log')
      <3>1. LogStep(log, println(log, INF))
        BY <1>1, PrintlnStep
      <3>2. LogStep(log, print(println(log, INF), INF))
        BY <1>1, <3>1, QuietAfter
      <3> QED BY <2>1, <3>1, <3>2
    <2>3. /\ LoggerInv(log') /\ LogGoesOn /\ ClientInv(client', log', pc'["web"])
          /\ ~ client'.connected
      BY <2>1, <2>2, SetupLogs DEF Parts
    <2>4. TasksOk'
      BY <1>1, <1>2, <2>1, <2>3 DEF TasksOk, Parts
    <2> QED BY <2>3, <2>4 DEF ConsoleInv
  <1>6. CASE FailsToStart
    <2>1. /\ phase \in Parts /\ attempts + 1 < InitMaxAttempts /\ attempts' = attempts + 1
          /\ log' = print(log, INF)
          /\ UNCHANGED <<phase, works, wifi, pc, client>>
      BY <1>6 DEF FailsToStart
    <2>2. LogStep(log, log')
      BY <1>1, <2>1, PrintStep DEF LogStep
    <2>3. /\ LoggerInv(log') /\ LogGoesOn /\ ClientInv(client', log', pc'["web"])
          /\ ~ client'.connected
      BY <2>1, <2>2, SetupLogs DEF Parts
    <2>4. attempts' \in 0 .. InitMaxAttempts - 1
      BY <1>2, <2>1
    <2>5. TasksOk'
      BY <1>1, <2>1, <2>3, <2>4 DEF TasksOk
    <2> QED BY <2>3, <2>5 DEF ConsoleInv
  <1> QED BY <1>3, <1>4, <1>5, <1>6 DEF Setup

\* A step of the loop, once its call of the logger is known.
LEMMA LoopStep ==
    ASSUME ConsoleInv, NEW l2, LogStep(log, l2), Logs(l2),
           UNCHANGED <<phase, attempts, works>>,
           DOMAIN pc' = Tasks, pc'["web"] = pc["web"],
           pc'["loop"] \in {"idle", "failed", "dump", "dumped"},
           wifi' \in [state : {"NEED_CONNECT", "CONNECTING", "CONNECTED"},
                      polls : 0 .. MaxPollAttempts],
           pc'["loop"] # "failed" => wifi'.polls < MaxPollAttempts
    PROVE  ConsoleInv' /\ LogGoesOn
  <1>1. /\ LoggerInv(log') /\ LogGoesOn
        /\ ClientInv(client', log', pc'["web"])
        /\ client'.connected = client.connected
    BY LogsOk
  <1>2. TasksOk'
    BY <1>1 DEF ConsoleInv, TasksOk
  <1> QED BY <1>1, <1>2 DEF ConsoleInv

\* Where a task goes.
LEMMA GoesTo ==
    ASSUME ConsoleInv, NEW t \in Tasks, NEW at, Goes(t, at)
    PROVE  /\ DOMAIN pc' = Tasks /\ pc'[t] = at
           /\ \A u \in Tasks \ {t} : pc'[u] = pc[u]
  BY DEF ConsoleInv, TasksOk, Goes

\* The steps of loop().
LEMMA LoopInv ==
    ASSUME ConsoleInv, Loop
    PROVE  ConsoleInv' /\ LogGoesOn
  <1> DEFINE Wifi == [state : {"NEED_CONNECT", "CONNECTING", "CONNECTED"},
                      polls : 0 .. MaxPollAttempts]
  <1>1. /\ LoggerInv(log)
        /\ wifi \in Wifi /\ wifi.polls \in 0 .. MaxPollAttempts
        /\ DOMAIN pc = Tasks /\ pc["loop"] \in {"idle", "failed", "dump", "dumped"}
        /\ pc["loop"] # "failed" => wifi.polls < MaxPollAttempts
        /\ "loop" \in Tasks /\ "web" \in Tasks \ {"loop"}
    BY DEF ConsoleInv, TasksOk, Tasks
  <1>2. /\ MaxPollAttempts \in Nat \ {0} /\ 0 \in 0 .. MaxPollAttempts
        /\ \A s \in {"NEED_CONNECT", "CONNECTING", "CONNECTED"} :
             [state |-> s, polls |-> 0] \in Wifi
        /\ NoWifi \in Wifi /\ NoWifi.polls = 0
    BY MaxPollAttemptsAssumption DEF NoWifi
  <1>3. \A level \in Level : /\ LogStep(log, printf(log, level))
                             /\ LogStep(log, println(log, level))
                             /\ LogStep(log, print(log, level))
    BY <1>1, PrintfStep, PrintlnStep, PrintStep DEF LogStep
  <1>4. INF \in Level /\ WRN \in Level /\ DBG \in Level /\ LoopLevels \subseteq Level
    BY LevelsOk
  <1>5. CASE LoopLine
    <2>1. PICK level \in LoopLevels : Logs(printf(log, level)) \/ Logs(println(log, level))
      BY <1>5 DEF LoopLine
    <2>2. UNCHANGED <<phase, attempts, works, wifi, pc>>
      BY <1>5 DEF LoopLine
    <2> QED BY <1>1, <1>3, <1>4, <2>1, <2>2, LoopStep
  <1>6. CASE WifiBegins
    <2>1. /\ Logs(printf(log, INF))
          /\ wifi' = [state |-> "CONNECTING", polls |-> 0]
          /\ UNCHANGED <<phase, attempts, works, pc>>
      BY <1>6 DEF WifiBegins
    <2>2. wifi' \in Wifi /\ wifi'.polls < MaxPollAttempts
      BY <1>2, <2>1
    <2> QED BY <1>1, <1>3, <1>4, <2>1, <2>2, LoopStep
  <1>7. CASE WifiSucceeds
    <2>1. /\ Logs(printf(log, INF))
          /\ wifi' = [wifi EXCEPT !.state = "CONNECTED"]
          /\ UNCHANGED <<phase, attempts, works, pc>>
      BY <1>7 DEF WifiSucceeds
    <2>2. wifi' \in Wifi /\ wifi'.polls = wifi.polls
      BY <1>1, <2>1
    <2> QED BY <1>1, <1>3, <1>4, <2>1, <2>2, LoopStep
  <1>8. CASE WifiPolls
    <2>1. /\ LoopIdle
          /\ Logs(print(log, INF))
          /\ wifi' = [wifi EXCEPT !.polls = @ + 1]
          /\ Goes("loop", IF wifi.polls + 1 >= MaxPollAttempts THEN "failed" ELSE "idle")
          /\ UNCHANGED <<phase, attempts, works>>
      BY <1>8 DEF WifiPolls
    <2>2. /\ DOMAIN pc' = Tasks /\ pc'["web"] = pc["web"]
          /\ pc'["loop"] = IF wifi.polls + 1 >= MaxPollAttempts THEN "failed" ELSE "idle"
      BY <1>1, <2>1, GoesTo
    <2>3. wifi.polls + 1 \in 0 .. MaxPollAttempts
      BY <1>1, <1>2, <2>1 DEF LoopIdle
    <2>4. wifi' \in Wifi /\ wifi'.polls = wifi.polls + 1
      BY <1>1, <2>1, <2>3
    <2>5. pc'["loop"] # "failed" => wifi'.polls < MaxPollAttempts
      BY <1>1, <1>2, <2>2, <2>3, <2>4
    <2> QED BY <1>3, <1>4, <2>1, <2>2, <2>4, <2>5, LoopStep
  <1>9. CASE WifiFails
    <2>1. /\ Logs(println(log, WRN)) /\ wifi' = NoWifi /\ Goes("loop", "idle")
          /\ UNCHANGED <<phase, attempts, works>>
      BY <1>9 DEF WifiFails
    <2>2. DOMAIN pc' = Tasks /\ pc'["web"] = pc["web"] /\ pc'["loop"] = "idle"
      BY <1>1, <2>1, GoesTo
    <2> QED BY <1>2, <1>3, <1>4, <2>1, <2>2, LoopStep
  <1>10. CASE WifiLost
    <2>1. /\ Logs(println(log, WRN)) /\ wifi' = NoWifi
          /\ UNCHANGED <<phase, attempts, works, pc>>
      BY <1>10 DEF WifiLost
    <2> QED BY <1>1, <1>2, <1>3, <1>4, <2>1, LoopStep
  <1>11. CASE WebServerBegins
    <2>1. /\ Logs(println(setWebSocket(log, TRUE), INF))
          /\ UNCHANGED <<phase, attempts, works, wifi, pc>>
      BY <1>11 DEF WebServerBegins
    <2>2. LogStep(log, println(setWebSocket(log, TRUE), INF))
      <3>1. LoggerInv(setWebSocket(log, TRUE)) /\ Quiet(log, setWebSocket(log, TRUE))
        BY <1>1, <1>4, SettingsQuiet
      <3> QED BY <1>4, <3>1, PrintlnStep, StepFrom
    <2> QED BY <1>1, <2>1, <2>2, LoopStep
  <1> QED BY <1>5, <1>6, <1>7, <1>8, <1>9, <1>10, <1>11 DEF Loop

\* A call of the logger by a handler, which stays where it is outside the replay.
LEMMA HandlerStep ==
    ASSUME ConsoleInv, NEW l2, LogStep(log, l2), Logs(l2),
           UNCHANGED <<phase, attempts, works, wifi>>,
           DOMAIN pc' = Tasks, pc'["loop"] = pc["loop"],
           pc["web"] \in {"idle", "dump", "dumped"}, pc'["web"] \in {"idle", "dump", "dumped"}
    PROVE  ConsoleInv' /\ LogGoesOn
  <1>1. /\ LoggerInv(log') /\ LogGoesOn
        /\ ClientInv(client', log', pc'["web"])
        /\ client'.connected = client.connected
    BY LogsOk
  <1>2. TasksOk'
    BY <1>1 DEF ConsoleInv, TasksOk
  <1> QED BY <1>1, <1>2 DEF ConsoleInv

\* A client joins: from here on the socket pushes to it.
LEMMA ConnectsInv ==
    ASSUME ConsoleInv, Connects
    PROVE  ConsoleInv' /\ LogGoesOn
  <1> DEFINE c == [NoClient EXCEPT !.connected = TRUE]
  <1>1. /\ log' = printf(log, INF)
        /\ client' = Delivered(c, log, log')
        /\ Goes("web", "init")
        /\ UNCHANGED <<phase, attempts, works, wifi>>
        /\ phase = "loop"
        /\ LoggerInv(log)
        /\ "web" \in Tasks /\ "loop" \in Tasks \ {"web"}
    BY DEF Connects, Serving, Looping, ConsoleInv, TasksOk, Tasks
  <1>2. DOMAIN pc' = Tasks /\ pc'["web"] = "init" /\ pc'["loop"] = pc["loop"]
    BY <1>1, GoesTo
  <1>3. LogStep(log, log')
    BY <1>1, PrintfStep, LevelsOk
  <1>4. ClientInv(c, log, "init")
    <2>1. /\ c \in Clients /\ c.connected /\ c.start = 0 /\ c.end = 0
          /\ c.got = <<>> /\ Len(c.got) = 0
      BY EmptySeq DEF NoClient, Clients
    <2> HIDE DEF c
    <2>2. /\ Len(log.ringBuffer) \in Nat /\ log.entries \in Nat
          /\ log.entries - Len(log.ringBuffer) \in Nat
      BY <1>1, <1>3, LogGrows
    <2>3. ReplayOk(c, log.entries - Len(log.ringBuffer))
      BY <2>1, <2>2 DEF ReplayOk, Sent
    <2>4. ProgressOk(c, "init") /\ PushedOk(c, "init", log.entries)
      BY <2>1 DEF ProgressOk, PushedOk
    <2> QED BY <2>1, <2>2, <2>3, <2>4 DEF ClientInv
  <1>5. ClientInv(client', log', pc'["web"])
    BY <1>1, <1>2, <1>3, <1>4, DeliveredOk
  <1>6. TasksOk'
    BY <1>1, <1>2, <1>3 DEF ConsoleInv, TasksOk, LogStep
  <1> QED BY <1>1, <1>3, <1>5, <1>6 DEF ConsoleInv, LogGoesOn

\* A client leaves.
LEMMA DisconnectsInv ==
    ASSUME ConsoleInv, Disconnects
    PROVE  ConsoleInv' /\ LogGoesOn
  <1>1. /\ log' = printf(log, INF) /\ client' = NoClient
        /\ UNCHANGED <<phase, attempts, works, wifi, pc>>
        /\ pc["web"] = "idle" /\ LoggerInv(log)
    BY DEF Disconnects, Serving, ConsoleInv, TasksOk
  <1>2. LogStep(log, log') /\ LoggerInv(log')
    BY <1>1, PrintfStep, LevelsOk DEF LogStep
  <1>3. ClientInv(client', log', pc'["web"]) /\ ~ client'.connected
    BY <1>1, <1>2, NoClientInv DEF NoClient
  <1>4. TasksOk'
    BY <1>1, <1>2 DEF ConsoleInv, TasksOk
  <1> QED BY <1>2, <1>3, <1>4 DEF ConsoleInv, LogGoesOn

\* The replay begins: what is in the ring now is what it will walk over.
LEMMA SendInitInv ==
    ASSUME ConsoleInv, SendInit
    PROVE  ConsoleInv' /\ LogGoesOn
  <1> DEFINE n == Len(log.ringBuffer)
             at == IF log.ringBuffer = <<>> THEN "idle" ELSE "replay"
  <1>1. /\ client' = [client EXCEPT !.start = Evicted, !.pos = 1, !.end = n]
        /\ pc["web"] = "init"
        /\ Goes("web", at)
        /\ UNCHANGED <<log, phase, attempts, works, wifi>>
        /\ LoggerInv(log)
        /\ ClientInv(client, log, "init")
        /\ "web" \in Tasks /\ "loop" \in Tasks \ {"web"}
    BY DEF SendInit, ConsoleInv, TasksOk, Tasks
  <1>2. DOMAIN pc' = Tasks /\ pc'["web"] = at /\ pc'["loop"] = pc["loop"]
    BY <1>1, GoesTo
  <1>3. LogStep(log, log')
    BY <1>1 DEF LogStep, Quiet
  <1>4. /\ n \in Nat /\ log.entries \in Nat /\ Evicted \in Nat /\ Evicted = log.entries - n
        /\ log.ringBuffer = <<>> <=> n = 0
    <2>1. log.ringBuffer \in Seq(Nat)
      BY <1>1 DEF LoggerInv, LoggerOk, LoggerState
    <2> QED BY <1>1, <1>3, <2>1, LogGrows, EmptySeq DEF Evicted
  <1>5. client \in Clients /\ client.connected /\ client.got = <<>> /\ Len(<<>>) = 0
    BY <1>1, EmptySeq DEF ClientInv, ProgressOk
  <1> HIDE DEF n
  <1>6. /\ client' \in Clients
        /\ client'.connected
        /\ client'.start = Evicted /\ client'.pos = 1 /\ client'.end = n
        /\ client'.got = <<>>
    BY <1>1, <1>4, <1>5 DEF Clients
  <1>7. ReplayOk(client', Evicted)
    BY <1>4, <1>5, <1>6 DEF ReplayOk, Sent
  <1>8. ProgressOk(client', at)
    BY <1>4, <1>5, <1>6 DEF ProgressOk, Sent
  <1>9. PushedOk(client', at, log.entries)
    <2>1. Evicted + n = log.entries
      BY <1>4
    <2>2. Evicted + n + 1 .. log.entries = {}
      BY <1>4, <2>1
    <2> QED BY <1>6, <2>2 DEF PushedOk
  <1>10. ClientInv(client', log', pc'["web"])
    <2>1. /\ client'.end <= n
          /\ client'.start + client'.end <= log.entries
      BY <1>4, <1>6
    <2>2. /\ log' = log /\ pc'["web"] = at
          /\ Evicted = log.entries - Len(log.ringBuffer)
      BY <1>1, <1>2 DEF Evicted
    <2> QED BY <1>6, <1>7, <1>8, <1>9, <2>1, <2>2 DEF ClientInv, n
  <1>11. TasksOk'
    BY <1>1, <1>2 DEF ConsoleInv, TasksOk
  <1>12. phase' = "loop"
    BY <1>1, <1>5 DEF ConsoleInv
  <1> QED BY <1>3, <1>10, <1>11, <1>12 DEF ConsoleInv, LogGoesOn

\* One entry of the replay: the ring has moved on at least as far as when the
\* one before was sent.
LEMMA SendEntryInv ==
    ASSUME ConsoleInv, SendEntry
    PROVE  ConsoleInv' /\ LogGoesOn
  <1> DEFINE c == client
             entry == log.ringBuffer[c.pos]
             at == IF c.pos = c.end THEN "idle" ELSE "replay"
             k == c.pos
             e == Evicted
  <1>1. /\ client' = [client EXCEPT !.got = Append(@, entry), !.pos = @ + 1]
        /\ pc["web"] = "replay"
        /\ Goes("web", at)
        /\ UNCHANGED <<log, phase, attempts, works, wifi>>
        /\ LoggerInv(log)
        /\ ClientInv(c, log, "replay")
        /\ "web" \in Tasks /\ "loop" \in Tasks \ {"web"}
    BY DEF SendEntry, ConsoleInv, TasksOk, Tasks
  <1>2. DOMAIN pc' = Tasks /\ pc'["web"] = at /\ pc'["loop"] = pc["loop"]
    BY <1>1, GoesTo
  <1>3. LogStep(log, log')
    BY <1>1 DEF LogStep, Quiet
  <1>4. /\ c \in Clients /\ c.connected
        /\ c.start \in Nat /\ c.end \in Nat /\ c.got \in Seq(Nat)
        /\ k \in 1 .. c.end /\ Len(c.got) = k - 1 /\ k \in Nat
        /\ c.start + c.end <= log.entries
        /\ c.end <= Len(log.ringBuffer)
        /\ ReplayOk(c, e)
    BY <1>1 DEF ClientInv, ProgressOk, Sent, Clients, Evicted
  <1>5. e \in Nat /\ log.entries \in Nat /\ Len(log.ringBuffer) \in Nat
    BY <1>1, <1>3, LogGrows DEF Evicted
  <1>6. entry = e + k /\ entry \in Nat
    <2>1. k \in 1 .. Len(log.ringBuffer)
      BY <1>4, <1>5
    <2>2. entry = log.entries - Len(log.ringBuffer) + k
      BY <1>1, <2>1 DEF LoggerInv, LoggerOk, RingOk
    <2> QED BY <1>4, <1>5, <2>2 DEF Evicted
  <1> HIDE DEF c, k, e, entry
  <1> DEFINE got == Append(c.got, entry)
  <1>7. /\ got \in Seq(Nat) /\ Len(got) = k
        /\ \A i \in 1 .. k - 1 : got[i] = c.got[i]
        /\ got[k] = e + k
    <2>1. /\ got \in Seq(Nat) /\ Len(got) = Len(c.got) + 1
          /\ \A i \in 1 .. Len(c.got) : got[i] = c.got[i]
          /\ got[Len(c.got) + 1] = entry
      BY <1>4, <1>6, AppendProperties
    <2>2. Len(c.got) + 1 = k
      BY <1>4
    <2> QED BY <1>4, <1>6, <2>1, <2>2
  <1> HIDE DEF got
  <1>8. /\ client' \in Clients /\ client'.connected
        /\ client'.start = c.start /\ client'.end = c.end
        /\ client'.pos = k + 1 /\ client'.got = got
        /\ client'.on = c.on /\ client'.live = c.live
    <2>1. client' = [c EXCEPT !.got = got, !.pos = k + 1]
      BY <1>1 DEF c, k, got, entry
    <2>2. k + 1 \in Nat
      BY <1>4
    <2> QED BY <1>4, <1>7, <2>1, <2>2 DEF Clients
  <1>9. /\ c.start <= e
        /\ \A i, j \in 1 .. k - 1 : i < j => c.got[i] < c.got[j]
        /\ \A i \in 1 .. k - 1 : c.got[i] - (c.start + i) \in 0 .. e - c.start
    BY <1>4 DEF ReplayOk, Sent
  <1>10. \A i \in 1 .. k : got[i] - (c.start + i) \in 0 .. e - c.start
    <2>1. (e + k) - (c.start + k) \in 0 .. e - c.start
      BY <1>4, <1>5, <1>9
    <2>2. ASSUME NEW i \in 1 .. k PROVE i = k \/ i \in 1 .. k - 1
      BY <1>4
    <2> QED BY <1>7, <1>9, <2>1, <2>2
  <1>11. \A i, j \in 1 .. k : i < j => got[i] < got[j]
    <2> SUFFICES ASSUME NEW i \in 1 .. k, NEW j \in 1 .. k, i < j PROVE got[i] < got[j]
      OBVIOUS
    <2>1. i \in 1 .. k - 1 /\ (j = k \/ j \in 1 .. k - 1)
      BY <1>4
    <2>2. CASE j \in 1 .. k - 1
      BY <1>7, <1>9, <2>1, <2>2
    <2>3. CASE j = k
      <3>1. c.got[i] \in Nat
        BY <1>4, <2>1, ElementOfSeq
      <3>2. c.got[i] - (c.start + i) <= e - c.start
        BY <1>9, <2>1
      <3>3. c.got[i] < e + k
        <4> DEFINE g == c.got[i]
                   s == c.start
        <4>1. /\ g \in Nat /\ s \in Nat /\ k \in Nat /\ i \in 1 .. k - 1 /\ e \in Nat
              /\ g - (s + i) <= e - s
          BY <1>4, <1>5, <2>1, <3>1, <3>2
        <4> HIDE DEF g, s
        <4>2. g < e + k
          BY <4>1
        <4> QED BY <4>2 DEF g
      <3> QED BY <1>7, <2>1, <2>3, <3>3
    <2> QED BY <2>1, <2>2, <2>3
  <1>12. ReplayOk(client', e)
    BY <1>7, <1>8, <1>9, <1>10, <1>11 DEF ReplayOk, Sent
  <1>13. ProgressOk(client', at)
    BY <1>4, <1>7, <1>8 DEF ProgressOk, Sent, c, k
  <1>14. PushedOk(client', at, log.entries)
    BY <1>1, <1>4, <1>8 DEF ClientInv, PushedOk
  <1>15. ClientInv(client', log', pc'["web"])
    <2>1. log' = log /\ pc'["web"] = at /\ e = log.entries - Len(log.ringBuffer)
      BY <1>1, <1>2 DEF e, Evicted
    <2> QED BY <1>4, <1>8, <1>12, <1>13, <1>14, <2>1 DEF ClientInv
  <1>16. TasksOk'
    BY <1>1, <1>2 DEF ConsoleInv, TasksOk
  <1>17. phase' = "loop"
    BY <1>1, <1>4 DEF ConsoleInv, c
  <1> QED BY <1>3, <1>15, <1>16, <1>17 DEF ConsoleInv, LogGoesOn

\* The steps of the async_tcp task.
LEMMA WebInv ==
    ASSUME ConsoleInv, Web
    PROVE  ConsoleInv' /\ LogGoesOn
  <1>1. LoggerInv(log) /\ DOMAIN pc = Tasks /\ INF \in Level /\ {ERR, WRN, INF} \subseteq Level
    BY LevelsOk DEF ConsoleInv, TasksOk
  <1>2. CASE SetsLogLevel
    <2>1. PICK level \in Level : Logs(printf(setMaxLevel(log, level), INF))
      BY <1>2 DEF SetsLogLevel
    <2>2. LogStep(log, printf(setMaxLevel(log, level), INF))
      <3>1. LoggerInv(setMaxLevel(log, level)) /\ Quiet(log, setMaxLevel(log, level))
        BY <1>1, SettingsQuiet
      <3> QED BY <1>1, <3>1, PrintfStep, StepFrom
    <2>3. UNCHANGED <<phase, attempts, works, wifi, pc>> /\ pc["web"] = "idle"
      BY <1>2 DEF SetsLogLevel, Serving
    <2> QED BY <1>1, <2>1, <2>2, <2>3, HandlerStep
  <1>3. CASE TogglesWebLog
    <2>1. PICK enabled \in BOOLEAN : Logs(printf(setWebEnabled(log, enabled), INF))
      BY <1>3 DEF TogglesWebLog
    <2>2. LogStep(log, printf(setWebEnabled(log, enabled), INF))
      <3>1. LoggerInv(setWebEnabled(log, enabled)) /\ Quiet(log, setWebEnabled(log, enabled))
        BY <1>1, SettingsQuiet
      <3> QED BY <1>1, <3>1, PrintfStep, StepFrom
    <2>3. UNCHANGED <<phase, attempts, works, wifi, pc>> /\ pc["web"] = "idle"
      BY <1>3 DEF TogglesWebLog, Serving
    <2> QED BY <1>1, <2>1, <2>2, <2>3, HandlerStep
  <1>4. CASE WebLine
    <2>1. PICK level \in {ERR, WRN, INF} : Logs(printf(log, level))
      BY <1>4 DEF WebLine
    <2>2. LogStep(log, printf(log, level))
      BY <1>1, PrintfStep
    <2>3. UNCHANGED <<phase, attempts, works, wifi, pc>> /\ pc["web"] = "idle"
      BY <1>4 DEF WebLine, Serving
    <2> QED BY <1>1, <2>1, <2>2, <2>3, HandlerStep
  <1> QED BY <1>2, <1>3, <1>4, ConnectsInv, DisconnectsInv, SendInitInv, SendEntryInv DEF Web

\* The steps of the byte dumps, in either task.
LEMMA DumpInv ==
    ASSUME ConsoleInv, NEW t \in Tasks, Dump(t)
    PROVE  ConsoleInv' /\ LogGoesOn
  <1>1. /\ LoggerInv(log) /\ DBG \in Level
        /\ wifi \in [state : {"NEED_CONNECT", "CONNECTING", "CONNECTED"},
                     polls : 0 .. MaxPollAttempts]
        /\ pc["loop"] # "failed" => wifi.polls < MaxPollAttempts
        /\ Tasks = {"loop", "web"}
    BY LevelsOk DEF ConsoleInv, TasksOk, Tasks
  <1>2. PICK l2 :
          /\ LogStep(log, l2) /\ Logs(l2)
          /\ UNCHANGED <<phase, attempts, works, wifi>>
          /\ pc[t] \in {"idle", "dump", "dumped"}
          /\ \E at \in {"idle", "dump", "dumped"} : Goes(t, at)
    <2>1. CASE DumpBegins(t)
      <3>1. /\ Logs(print(log, DBG)) /\ Goes(t, "dump") /\ pc[t] = "idle"
            /\ UNCHANGED <<phase, attempts, works, wifi>>
        BY <1>1, <2>1 DEF DumpBegins, LoopIdle, Serving
      <3>2. LogStep(log, print(log, DBG))
        BY <1>1, PrintStep DEF LogStep
      <3> QED BY <3>1, <3>2
    <2>2. CASE DumpBytes(t)
      <3>1. /\ Logs(write(log, "part")) /\ Goes(t, "dumped") /\ pc[t] = "dump"
            /\ UNCHANGED <<phase, attempts, works, wifi>>
        BY <2>2 DEF DumpBytes
      <3>2. LogStep(log, write(log, "part"))
        BY <1>1, WritePartStep DEF LogStep
      <3> QED BY <3>1, <3>2
    <2>3. CASE DumpEnds(t)
      <3>1. /\ Logs(printlnEmpty(log, DBG)) \/ Logs(printf(log, DBG))
            /\ Goes(t, "idle") /\ pc[t] = "dumped"
            /\ UNCHANGED <<phase, attempts, works, wifi>>
        BY <2>3 DEF DumpEnds
      <3>2. LogStep(log, printlnEmpty(log, DBG)) /\ LogStep(log, printf(log, DBG))
        BY <1>1, PrintlnStep, PrintfStep
      <3> QED BY <3>1, <3>2
    <2> QED BY <2>1, <2>2, <2>3 DEF Dump
  <1>3. PICK at \in {"idle", "dump", "dumped"} : Goes(t, at)
    BY <1>2
  <1>4. DOMAIN pc' = Tasks /\ pc'[t] = at /\ \A u \in Tasks \ {t} : pc'[u] = pc[u]
    BY <1>3, GoesTo
  <1>5. CASE t = "loop"
    BY <1>1, <1>2, <1>4, <1>5, LoopStep
  <1>6. CASE t = "web"
    BY <1>1, <1>2, <1>4, <1>6, HandlerStep
  <1> QED BY <1>1, <1>5, <1>6

\* No step leaves the invariant, and none forgets the logger but a restart.
LEMMA NextInv == ConsoleInv /\ [Next]_vars => ConsoleInv' /\ LogGoesOn
  <1> SUFFICES ASSUME ConsoleInv, [Next]_vars PROVE ConsoleInv' /\ LogGoesOn
    OBVIOUS
  <1>1. ASSUME UNCHANGED <<log, pc, client, phase, wifi, attempts>>, works' \in [Parts -> BOOLEAN]
        PROVE  ConsoleInv' /\ LogGoesOn
    BY <1>1 DEF ConsoleInv, TasksOk, LogGoesOn, LogStep, Quiet
  <1>2. works \in [Parts -> BOOLEAN]
    BY DEF ConsoleInv, TasksOk
  <1>3. CASE Setup
    BY <1>3, SetupInv
  <1>4. CASE Loop
    BY <1>4, LoopInv
  <1>5. CASE Web
    BY <1>5, WebInv
  <1>6. ASSUME NEW t \in Tasks, Dump(t) PROVE ConsoleInv' /\ LogGoesOn
    BY <1>6, DumpInv
  <1>7. CASE PowerCycle
    BY <1>2, <1>7, PowersOnInv DEF PowerCycle
  <1>8. CASE WorksChanges
    <2>1. works' \in [Parts -> BOOLEAN]
      BY <1>2, <1>8 DEF WorksChanges
    <2> QED BY <1>1, <1>8, <2>1 DEF WorksChanges
  <1>9. CASE UNCHANGED vars
    BY <1>1, <1>2, <1>9 DEF vars
  <1> QED BY <1>3, <1>4, <1>5, <1>6, <1>7, <1>8, <1>9 DEF Next

-----------------------------------------------------------------------------
(* What follows. *)

\* When the replay is over, of the entries it walked over as many may be
\* missing as the ring gave up meanwhile: the first positions came out as entries
\* it began with, each another one.
LEMMA MissesFew ==
    ASSUME NEW c, c \in Clients, NEW e \in Nat, NEW n \in Nat,
           c.connected, c.on, Sent(c) = c.end,
           ReplayOk(c, e), PushedOk(c, "idle", n)
    PROVE  LET sent == {c.got[k] : k \in 1 .. Len(c.got)} \cup c.live
           IN  Cardinality((c.start + 1 .. n) \ sent) <= e - c.start
  <1> DEFINE sent == {c.got[k] : k \in 1 .. Len(c.got)} \cup c.live
             s == c.start
             z == c.end
             m == e - s
             missing == (s + 1 .. n) \ sent
             walked == s + 1 .. s + z
  <1>1. /\ s \in Nat /\ z \in Nat /\ m \in Nat /\ c.got \in Seq(Nat)
        /\ Len(c.got) = z
        /\ \A i, j \in 1 .. z : i < j => c.got[i] < c.got[j]
        /\ \A i \in 1 .. z : c.got[i] - (s + i) \in 0 .. m
        /\ \A i \in s + z + 1 .. n : i \in c.live
    BY DEF Clients, ReplayOk, PushedOk, Sent
  <1> HIDE DEF s, z, m
  <1>2. missing \subseteq walked
    <2> SUFFICES ASSUME NEW i \in s + 1 .. n, i \notin sent PROVE i \in walked
      OBVIOUS
    <2>1. i \notin s + z + 1 .. n
      BY <1>1
    <2> QED BY <1>1, <2>1
  <1>3. IsFiniteSet(walked) /\ Cardinality(walked) = z
    <2>1. s + 1 \in Int /\ s + z \in Int
      BY <1>1
    <2>2. /\ IsFiniteSet(walked)
          /\ Cardinality(walked) = IF s + 1 > s + z THEN 0 ELSE (s + z) - (s + 1) + 1
      BY <2>1, FS_Interval
    <2>3. (IF s + 1 > s + z THEN 0 ELSE (s + z) - (s + 1) + 1) = z
      BY <1>1
    <2> QED BY <2>2, <2>3
  <1>4. ASSUME m >= z PROVE Cardinality(missing) <= m
    <2>1. Cardinality(missing) <= Cardinality(walked) /\ IsFiniteSet(missing)
      BY <1>2, <1>3, FS_Subset
    <2>2. Cardinality(missing) \in Nat
      BY <2>1, FS_CardinalityType
    <2> HIDE DEF missing
    <2>3. Cardinality(missing) <= m
      BY <1>1, <1>3, <1>4, <2>1, <2>2
    <2> QED BY <2>3 DEF missing
  <1>5. ASSUME m < z PROVE Cardinality(missing) <= m
    <2> DEFINE h == z - m
               f == [k \in 1 .. h |-> c.got[k]]
               first == {c.got[k] : k \in 1 .. h}
    <2>1. h \in Nat /\ h + m = z /\ h <= z /\ 1 .. h \subseteq 1 .. z
      BY <1>1, <1>5
    <2> HIDE DEF h
    <2>2. \A k \in 1 .. h : c.got[k] \in walked
      <3> SUFFICES ASSUME NEW k \in 1 .. h PROVE c.got[k] \in walked
        OBVIOUS
      <3>1. c.got[k] \in Nat /\ k \in 1 .. z
        BY <1>1, <2>1, ElementOfSeq
      <3>2. c.got[k] - (s + k) \in 0 .. m
        BY <1>1, <3>1
      <3> DEFINE g == c.got[k]
      <3> HIDE DEF g
      <3>3. g \in s + 1 .. s + z
        <4>1. g \in Nat /\ k \in 1 .. h /\ g - (s + k) \in 0 .. m
          BY <3>1, <3>2 DEF g
        <4> QED BY <1>1, <2>1, <4>1
      <3> QED BY <3>3 DEF g
    <2>3. IsFiniteSet(1 .. h) /\ Cardinality(1 .. h) = h
      BY <2>1, FS_Interval
    <2>4. f \in Surjection(1 .. h, first)
      BY DEF Surjection
    <2>5. f \in Injection(1 .. h, first)
      <3>1. f \in [1 .. h -> first]
        OBVIOUS
      <3>2. ASSUME NEW i \in 1 .. h, NEW j \in 1 .. h, f[i] = f[j] PROVE i = j
        <4>1. i \in 1 .. z /\ j \in 1 .. z /\ c.got[i] = c.got[j]
          BY <2>1, <3>2
        <4>2. c.got[i] \in Nat /\ c.got[j] \in Nat
          BY <1>1, <4>1, ElementOfSeq
        <4>3. ~ (c.got[i] < c.got[j]) /\ ~ (c.got[j] < c.got[i])
          BY <4>1, <4>2
        <4>4. ~ (i < j) /\ ~ (j < i)
          BY <1>1, <4>1, <4>3
        <4> QED BY <1>1, <4>1, <4>4
      <3> HIDE DEF f, first
      <3> QED BY <3>1, <3>2 DEF Injection, IsInjective
    <2>6. IsFiniteSet(first) /\ Cardinality(first) = h
      BY <2>3, <2>4, <2>5, FS_Surjection
    <2>7. first \subseteq walked /\ first \subseteq sent
      <3>1. first \subseteq sent
        BY <1>1, <2>1
      <3> QED BY <2>2, <3>1
    <2>8. IsFiniteSet(walked \ first) /\ Cardinality(walked \ first) = z - h
      <3>1. walked \cap first = first
        BY <2>7
      <3> HIDE DEF walked, first
      <3>2. /\ IsFiniteSet(walked \ first)
            /\ Cardinality(walked \ first) = Cardinality(walked) - Cardinality(walked \cap first)
        BY <1>3, FS_Difference
      <3> QED BY <1>3, <2>6, <3>1, <3>2
    <2>9. missing \in SUBSET (walked \ first)
      BY <1>2, <2>7
    <2>10. Cardinality(missing) <= z - h
      BY <2>8, <2>9, FS_Subset
    <2>11. z - h = m
      BY <1>1, <2>1
    <2> QED BY <2>10, <2>11
  <1>6. Cardinality(missing) <= m
    <2> HIDE DEF missing
    <2> QED BY <1>1, <1>4, <1>5
  <1> QED BY <1>6 DEF m, s

\* The invariant holds in every state of the program.
THEOREM ConsoleInvariance == Spec => []ConsoleInv
  BY InitInv, NextInv, PTL DEF Spec

\* Every variable keeps its type; a message has a text exactly while it is active,
\* and the ring holds the last entries, all of them and in order
\* (addToRingBuffer of Logger.cpp).
THEOREM ConsoleTypeCorrect == Spec => []ConsoleTypeOK
  <1>1. ConsoleInv => ConsoleTypeOK
    BY DEF ConsoleInv, TasksOk, LoggerInv, ConsoleTypeOK
  <1> QED BY <1>1, ConsoleInvariance, PTL

\* An entry is one message, whatever the other task left open when a printf came
\* (printf, println, flush of Logger.cpp).
THEOREM EntriesAreMessages == Spec => []OneMessagePerEntry
  <1>1. ConsoleInv => OneMessagePerEntry
    BY DEF ConsoleInv, TasksOk, LoggerInv, OneMessage, OneMessagePerEntry
  <1> QED BY <1>1, ConsoleInvariance, PTL

\* No entry is stored whose level the filter of that moment keeps out, also when
\* the other task has set the level under an open message (Logger::flush).
THEOREM EntriesFiltered == Spec => EntriesPassTheFilter
  <1>1. ConsoleInv /\ [Next]_vars => [log'.entries > log.entries => log'.newest.level <= log'.maxLevel]_vars
    <2> SUFFICES ASSUME ConsoleInv, [Next]_vars, log'.entries > log.entries
                 PROVE  log'.newest.level <= log'.maxLevel
      OBVIOUS
    <2>1. log.entries \in Nat
      BY DEF ConsoleInv, TasksOk, LoggerInv, LoggerOk, LoggerState
    <2>2. log' # NewLogger
      BY <2>1 DEF NewLogger
    <2>3. ~ Quiet(log, log')
      BY <2>1 DEF Quiet
    <2> QED BY <2>2, <2>3, NextInv DEF LogGoesOn, LogStep, Logged
  <1> QED BY <1>1, ConsoleInvariance, PTL DEF Spec, EntriesPassTheFilter

\* The replay sends entries in their order, none twice, and each position slips
\* by at most what the ring has given up (sendInitToClient walks by position
\* while the other task adds entries).
THEOREM ReplayOrdered == Spec => []ReplayInOrder
  <1>1. ConsoleInv => ReplayInOrder
    BY DEF ConsoleInv, ClientInv, ReplayOk, Sent, ReplayInOrder, Evicted
  <1> QED BY <1>1, ConsoleInvariance, PTL

\* A client that nothing was held back from has all of the log from its start on,
\* but for one entry at most for each that the ring gave up (sendInitToClient,
\* pushToWebSocket).
THEOREM ClientHasTheLog == Spec => []ClientMissesOnlyEvicted
  <1>1. ConsoleInv => ClientMissesOnlyEvicted
    <2> SUFFICES ASSUME ConsoleInv, client.connected, client.on, pc["web"] = "idle"
                 PROVE  ClientMissesOnlyEvicted
      BY DEF ClientMissesOnlyEvicted
    <2>1. /\ client \in Clients /\ Sent(client) = client.end
          /\ ReplayOk(client, Evicted) /\ PushedOk(client, "idle", log.entries)
          /\ LoggerInv(log)
      BY DEF ConsoleInv, TasksOk, ClientInv, ProgressOk, Evicted
    <2>2. LogStep(log, log)
      BY <2>1 DEF LogStep, Quiet
    <2>3. Evicted \in Nat /\ log.entries \in Nat
      BY <2>1, <2>2, LogGrows DEF Evicted
    <2> QED BY <2>1, <2>3, MissesFew DEF ClientMissesOnlyEvicted
  <1> QED BY <1>1, ConsoleInvariance, PTL
=============================================================================

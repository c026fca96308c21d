----------------------------- MODULE LoRaRadio -----------------------------
(***************************************************************************)
(* LoRaHandler::sendMessage and LoRaHandler::handle of                     *)
(* src/src/LoRaHandler.cpp on a radio that the loop task and the async_tcp *)
(* task share without a lock.  The LoRa library and the chip behind it are *)
(* external: beginPacket returns 0 while a packet is on the air, endPacket *)
(* waits for the flag TX_DONE, parsePacket clears every flag and makes the *)
(* radio listen.  A call is cut at its accesses of the radio, but that the *)
(* reset of beginPacket and the bytes of a packet are one step each.       *)
(***************************************************************************)
CONSTANTS
    Packets,        \* what the tasks send of their own accord
    NoPacket        \* bytes that are not one packet of theirs

ASSUME NoPacketAssumption == NoPacket \notin Packets

Tasks == {"loop", "web"}

VARIABLES
    radio,      \* whether it transmits, its flag TX_DONE, what is in its buffer
    sending     \* where each task is in sendMessage or handle, and with what

radioVars == <<radio, sending>>

\* The buffer is empty, holds one packet from its start to its end, or NoPacket.
\* Histories: taken, whether this packet had the radio to itself no more since
\* beginPacket; aired, what went out while its task waited, if it had.
NotSending == [pc |-> "idle", packet |-> NoPacket, taken |-> FALSE, aired |-> <<>>]

At(t, pc) == sending[t].pc = pc

RadioInit == /\ radio = [transmitting |-> FALSE, txDone |-> FALSE, fifo |-> <<>>]
             /\ sending = [t \in Tasks |-> NotSending]

-----------------------------------------------------------------------------
(* sendMessage.  No packet of theirs is too long to be encoded. *)

\* From what beginPacket reads of the radio to the end of the wait.
Owning == {"reset", "write", "end", "wait"}

\* Task t changes the radio: a packet that the other has begun is no longer alone.
Uses(t, next) ==
    sending' = [u \in Tasks |->
                  IF u = t THEN next
                  ELSE [sending[u] EXCEPT !.taken = @ \/ sending[u].pc \in Owning]]

GoesTo(t, pc) == Uses(t, [sending[t] EXCEPT !.pc = pc])

Starting(packet) == [NotSending EXCEPT !.pc = "begin", !.packet = packet]

\* beginPacket while a packet is on the air: it returns 0 and resets nothing.
\* Nobody looks at what it returns.
BeginRefused(t) ==
    /\ At(t, "begin") /\ radio.transmitting
    /\ sending' = [sending EXCEPT ![t] = [@ EXCEPT !.pc = "write", !.taken = TRUE]]
    /\ UNCHANGED radio

BeginPacket(t) ==
    /\ At(t, "begin") /\ ~ radio.transmitting
    /\ sending' = [sending EXCEPT ![t] = [@ EXCEPT !.pc = "reset"]]
    /\ UNCHANGED radio

\* Faulty variant of ResetFifo: the buffer keeps what was sent before.
ResetFifoForgotten(t) ==
    /\ At(t, "reset")
    /\ radio' = [radio EXCEPT !.transmitting = FALSE, !.txDone = FALSE]
    /\ GoesTo(t, "write")

\* Behind the test: the flag is cleared, the radio set to standby, whatever it
\* does by now, and its buffer emptied.
ResetFifo(t) ==
    /\ At(t, "reset")
    /\ radio' = [transmitting |-> FALSE, txDone |-> FALSE, fifo |-> <<>>]
    /\ GoesTo(t, "write")

\* Behind what is in the buffer.
WritePacket(t) ==
    /\ At(t, "write")
    /\ radio' = [radio EXCEPT !.fifo = IF @ = <<>> THEN <<sending[t].packet>>
                                       ELSE <<NoPacket>>]
    /\ GoesTo(t, "end")

EndPacket(t) ==
    /\ At(t, "end")
    /\ radio' = [radio EXCEPT !.transmitting = TRUE]
    /\ GoesTo(t, "wait")

\* while ((readRegister(REG_IRQ_FLAGS) & IRQ_TX_DONE_MASK) == 0) yield();
SeesTxDone(t) ==
    /\ At(t, "wait") /\ radio.txDone
    /\ sending' = [sending EXCEPT ![t] = [@ EXCEPT !.pc = "clear"]]
    /\ UNCHANGED radio

ClearsTxDone(t) ==
    /\ At(t, "clear")
    /\ radio' = [radio EXCEPT !.txDone = FALSE]
    /\ GoesTo(t, "sent")

SendMessage(t) == \/ BeginRefused(t) \/ BeginPacket(t) \/ ResetFifo(t)
                  \/ WritePacket(t) \/ EndPacket(t)
                  \/ SeesTxDone(t) \/ ClearsTxDone(t)

-----------------------------------------------------------------------------
(* handle, of the loop task. *)

\* Faulty variant of LoopPolls: also from within the wait, as if yield() or a
\* timer called it.
LoopPollsWaiting ==
    \/ /\ At("loop", "idle")
       /\ radio' = [radio EXCEPT !.txDone = FALSE]
       /\ GoesTo("loop", "listen")
    \/ /\ At("loop", "wait")
       /\ radio' = [radio EXCEPT !.txDone = FALSE]
       /\ GoesTo("loop", "wait")

\* parsePacket clears every flag it finds ...
LoopPolls ==
    /\ At("loop", "idle")
    /\ radio' = [radio EXCEPT !.txDone = FALSE]
    /\ GoesTo("loop", "listen")

\* What is heard overwrites the buffer.
MayOverwrite(fifo) == {fifo, <<NoPacket>>}

\* ... and makes a radio that does not receive listen, or one with a packet
\* stand by for it to be read: a transmission is broken off either way.
LoopListens ==
    /\ At("loop", "listen")
    /\ \E fifo \in MayOverwrite(radio.fifo) :
         radio' = [radio EXCEPT !.transmitting = FALSE, !.fifo = fifo]
    /\ \/ GoesTo("loop", "read") \/ GoesTo("loop", "idle")

\* readPacket moves through the buffer.
LoopReads ==
    /\ At("loop", "read")
    /\ \E fifo \in MayOverwrite(radio.fifo) : radio' = [radio EXCEPT !.fifo = fifo]
    /\ GoesTo("loop", "idle")

Handle == LoopPolls \/ LoopListens \/ LoopReads

-----------------------------------------------------------------------------
(* The chip: external. *)

Transmitted ==
    /\ radio.transmitting
    /\ radio' = [radio EXCEPT !.transmitting = FALSE, !.txDone = TRUE]
    /\ sending' = [t \in Tasks |->
                     IF At(t, "wait") /\ ~ sending[t].taken
                     THEN [sending[t] EXCEPT !.aired = radio.fifo]
                     ELSE sending[t]]

-----------------------------------------------------------------------------
(* The radio by itself: tasks that send when they like. *)

Sends(t) == /\ At(t, "idle")
            /\ \E packet \in Packets : sending' = [sending EXCEPT ![t] = Starting(packet)]
            /\ UNCHANGED radio

Sent(t) == /\ At(t, "sent")
           /\ sending' = [sending EXCEPT ![t] = NotSending]
           /\ UNCHANGED radio

RadioNext == \/ \E t \in Tasks : Sends(t) \/ SendMessage(t) \/ Sent(t)
             \/ Handle
             \/ Transmitted

RadioSpec == RadioInit /\ [][RadioNext]_radioVars

-----------------------------------------------------------------------------
(* Properties. *)

\* A packet that found the radio free goes out whole and alone if the other task
\* left the radio alone until it was out: nothing stays behind of earlier
\* packets, of one that was refused, written behind another, mixed or broken off,
\* and no flag of another transmission ends the wait (LoRaHandler.cpp:41-43).
OwnPacketOnAir ==
    \A t \in Tasks :
      At(t, "sent") /\ ~ sending[t].taken => sending[t].aired = <<sending[t].packet>>

\* The end of a transmission was taken from a task: it waits for a flag that
\* nobody is going to set.
Robbed(t) == At(t, "wait") /\ ~ radio.transmitting /\ ~ radio.txDone

\* The tasks never both wait for a flag that nobody sets, however they got in
\* each other's way: the one that came last to its wait is not robbed
\* (LoRaHandler.cpp:43, 55).
NotBothRobbed == \E t \in Tasks : ~ Robbed(t)
=============================================================================

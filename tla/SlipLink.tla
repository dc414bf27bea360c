------------------------------- MODULE SlipLink -------------------------------
(***************************************************************************)
(* A peer sends frames over the serial line; USART2_IRQHandler (sio.c)     *)
(* queues their bytes, the slip thread takes them off the queue and runs   *)
(* slipif_rxbyte_input.  Bytes are lost to line errors and to a full       *)
(* queue, data bytes to an exhausted pool, packets to a full mailbox.      *)
(* Here the interrupt handler is one step; SioRx takes it apart.           *)
(***************************************************************************)
EXTENDS SlipIf

CONSTANTS
  NFrames,      \* frames the peer sends
  Payloads,     \* the payloads it may choose from
  QueueSize,    \* SIZE_QUEUE_RX_IN_SIO_C
  MaxLoss       \* line bytes that may be lost of one frame

Frame == 1..NFrames

ASSUME LinkAssumption ==
  /\ NFrames \in Nat /\ QueueSize \in Nat \ {0} /\ MaxLoss \in Nat
  /\ Origin = Frame
  /\ \A pay \in Payloads : pay \in Seq(Char) /\ pay # <<>>

VARIABLES
  payload,     \* payload[f]: what the peer sends in frame f
  line,        \* the bytes not sent yet
  queueUART,   \* the receive queue of sio.c
  lost,        \* ghost: line bytes of each frame the interrupt handler dropped
  hurt,        \* ghost: frames some byte of which was dropped somewhere
  log          \* ghost: every packet the tcpip thread was given, in order

linkVars == <<vars, payload, line, queueUART, lost, hurt, log>>

Tagged(chars, f) == [k \in DOMAIN chars |-> [ch |-> chars[k], of |-> f]]

\* The peer frames packets as slipif_output does: an END before and after.
Stream(pay) == FlattenSeq([f \in Frame |-> Tagged(Encode(pay[f]), f)])

LinkInit == /\ Init
            /\ payload \in [Frame -> Payloads]
            /\ line = Stream(payload)
            /\ queueUART = <<>>
            /\ lost = [f \in Frame |-> 0]
            /\ hurt = {}
            /\ log = <<>>

\* xQueueSendFromISR refuses a byte when the queue is full.
HasRoom == Len(queueUART) < QueueSize

\* A byte arrives and the handler queues it.
IsrToFront == /\ line # <<>> /\ HasRoom
              /\ queueUART' = <<Head(line)>> \o queueUART
              /\ line' = Tail(line)
              /\ UNCHANGED <<vars, payload, lost, hurt, log>>
Isr == /\ line # <<>> /\ HasRoom
       /\ queueUART' = Append(queueUART, Head(line))
       /\ line' = Tail(line)
       /\ UNCHANGED <<vars, payload, lost, hurt, log>>

\* The handler sees a noise, framing, parity or overrun error, or a full queue:
\* the byte is gone.
IsrDrop == /\ line # <<>>
           /\ LET f == Head(line).of IN
                /\ lost[f] < MaxLoss
                /\ lost' = [lost EXCEPT ![f] = @ + 1]
                /\ hurt' = hurt \union {f}
           /\ line' = Tail(line)
           /\ UNCHANGED <<vars, payload, queueUART, log>>

\* sio_recv blocks while the queue is empty.
ReadableWhenFull == Len(queueUART) = QueueSize
Readable == queueUART # <<>>

\* slipif_loop_thread: sio_read one byte and process it.
SlipThread ==
  /\ Readable
  /\ queueUART' = Tail(queueUART)
  /\ LET b == Head(queueUART) IN
       \/ /\ RxEnd(b)
          /\ log' = IF mbox' # mbox THEN Append(log, out') ELSE log
          /\ hurt' = IF mbox' # mbox THEN hurt ELSE hurt \union {c.of : c \in ToSet(SubSeq(mem, 1, recved))}
       \/ /\ RxIdleEnd(b) \/ RxEsc(b)
          /\ UNCHANGED <<log, hurt>>
       \/ /\ RxData(b)
          /\ hurt' = IF recved' > recved THEN hurt ELSE hurt \union {b.of}
          /\ UNCHANGED log
  /\ UNCHANGED <<payload, line, lost>>

Upper == /\ TcpipFetch \/ PbufFree \/ ApiPost
         /\ UNCHANGED <<payload, line, queueUART, lost, hurt, log>>

Done == line = <<>> /\ queueUART = <<>> /\ UNCHANGED linkVars

LinkNext == Isr \/ IsrDrop \/ SlipThread \/ Upper \/ Done

\* The peer goes on sending and the slip thread, of the highest priority among
\* the tasks that never end, runs whenever a byte is queued.
LinkSpec == LinkInit /\ [][LinkNext]_linkVars
            /\ WF_linkVars(Isr) /\ WF_linkVars(SlipThread)

-------------------------------------------------------------------------------
\* All bytes of frame f have been sent and processed.
Past(f) == \A b \in ToSet(line) \union ToSet(queueUART) : b.of > f

Intact(f) == Tagged(payload[f], f) \in ToSet(log)

\* While no frame loses more than one byte of the line, damage to a frame never
\* reaches another one: the END that opens every frame ends whatever the damage
\* left behind.
DamageStaysInFrame ==
  (\A f \in Frame : lost[f] <= 1) => \A f \in Frame : Past(f) /\ f \notin hurt => Intact(f)

\* When several bytes are lost in a row, an ESC may come to stand before the END
\* that opens the next frame.  That frame is spoilt, but none after it.
DamageEndsWithNextFrame ==
  \A f \in Frame : Past(f) /\ f \notin hurt /\ f - 1 \notin hurt => Intact(f)

\* Packets go up in the order their frames were sent, none of them twice.
InOrderOnce ==
  /\ \A j, k \in DOMAIN log : j < k => log[j] # log[k]
  /\ LET all == FlattenSeq(log) IN
       \A j, k \in DOMAIN all : j < k => all[j].of <= all[k].of

\* In the end every frame was delivered, or bytes of it or of the one before it
\* were lost.
FramesArrive ==
  <>(\A f \in Frame : f \in hurt \/ f - 1 \in hurt \/ Intact(f))
=============================================================================

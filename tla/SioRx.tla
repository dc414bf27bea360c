-------------------------------- MODULE SioRx --------------------------------
(***************************************************************************)
(* The receive path of src/sio.c at the grain of register accesses: bytes  *)
(* arrive in USART2 whenever they like, also between two accesses of       *)
(* USART2_IRQHandler; the handler fills queueUART, sio_recv empties it,    *)
(* and a task of priority 1 reports errors.  The registers themselves are  *)
(* external: they behave as the STM32F4 reference manual says.             *)
(***************************************************************************)
EXTENDS Naturals, Sequences, SequencesExt, FiniteSets

CONSTANTS
  NBytes,      \* bytes that arrive in a behaviour, numbered from 1
  QueueSize    \* SIZE_QUEUE_RX_IN_SIO_C

ASSUME SioAssumption == NBytes \in Nat /\ QueueSize \in Nat \ {0}

VARIABLES
  \* the receiver of USART2
  next,        \* number of the next byte to arrive
  rxne,        \* SR.RXNE: DR holds a byte that was not read
  ore,         \* SR.ORE: a byte came while RXNE was set, and is lost
  bad,         \* SR.NE, FE or PE: the byte in DR is damaged
  dr,          \* DR
  armed,       \* error flags the last read of SR saw: reading DR clears them
  \* the handler
  isr,         \* the access it makes next, "idle" when it is not running
  data,        \* its local variable
  masked,      \* some task is in a critical section
  \* sio.c
  opened,      \* how far sio_open has come
  queueUART,
  errorUartSR,
  reporter,    \* where task_rrintErrorUart stands
  said,        \* the messages of its current round
  \* ghosts
  got,         \* bytes sio_recv returned, in order
  lost,        \* bytes nobody will see
  early,       \* those of them read before there was a queue
  owed         \* bytes lost since errorUartSR was last cleared

usart == <<next, rxne, ore, bad, dr, armed>>
vars == <<usart, isr, data, masked, opened, queueUART, errorUartSR,
          reporter, said, got, lost, early, owed>>

Bytes == 1..NBytes
FLAG_ERROR_QUEUE == "FLAG_ERROR_QUEUE"
ORE == "USART_SR_ORE"
REST == "other bits of SR"
ErrorBits == {FLAG_ERROR_QUEUE, ORE, REST}

TypeOK ==
  /\ next \in 1..(NBytes + 1) /\ dr \in Bytes \union {0}
  /\ rxne \in BOOLEAN /\ ore \in BOOLEAN /\ bad \in BOOLEAN /\ masked \in BOOLEAN
  /\ armed \subseteq {"ore", "bad"}
  /\ isr \in {"idle", "errors", "read", "send", "log", "drain", "clear"}
  /\ data \in Bytes \union {0}
  /\ opened \in {"no", "uart", "queue"}
  /\ queueUART \in Seq(Bytes) /\ Len(queueUART) <= QueueSize
  /\ errorUartSR \subseteq ErrorBits
  /\ reporter \in {"test", "queue", "overrun", "reset", "delay"}
  /\ said \subseteq ErrorBits
  /\ got \in Seq(Bytes)
  /\ lost \subseteq Bytes /\ early \subseteq lost /\ owed \subseteq lost

Init ==
  /\ next = 1 /\ rxne = FALSE /\ ore = FALSE /\ bad = FALSE /\ dr = 0 /\ armed = {}
  /\ isr = "idle" /\ data = 0 /\ masked = FALSE
  /\ opened = "no" /\ queueUART = <<>> /\ errorUartSR = {}
  /\ reporter = "test" /\ said = {}
  /\ got = <<>> /\ lost = {} /\ early = {} /\ owed = {}

-------------------------------------------------------------------------------
\* The UART requests an interrupt while RXNE or ORE is set (RXNEIE enables both).
Irq == rxne \/ ore

\* Tasks run when neither the handler runs nor a request is waiting for it.
TasksRun == isr = "idle" /\ ~masked /\ ~Irq

Lose(bytes) == lost' = lost \union bytes /\ owed' = owed \union bytes

\* A byte arrives; with DR still full it is lost and the overrun noted.
ByteArrives ==
  /\ opened # "no" /\ next <= NBytes
  /\ next' = next + 1
  /\ \/ /\ ~rxne
        /\ rxne' = TRUE /\ dr' = next /\ bad' \in BOOLEAN
        /\ UNCHANGED <<ore, lost, owed>>
     \/ /\ rxne
        /\ ore' = TRUE
        /\ Lose({next})
        /\ UNCHANGED <<rxne, dr, bad>>
  /\ UNCHANGED <<armed, isr, data, masked, opened, queueUART, errorUartSR,
                 reporter, said, got, early>>

\* Software reads SR, and so arms the flags that are set ...
ReadSR == armed' = (IF ore THEN {"ore"} ELSE {}) \union (IF bad THEN {"bad"} ELSE {})

\* ... for the next read of DR to clear.
ReadDR == /\ rxne' = FALSE
          /\ ore' = (ore /\ "ore" \notin armed)
          /\ bad' = (bad /\ "bad" \notin armed)
          /\ armed' = {}

-------------------------------------------------------------------------------
\* USART2_IRQHandler.  A request with RXNE clear makes it return at once, which
\* changes nothing: the request stays, and the tasks do not run.
IsrEnter == /\ isr = "idle" /\ ~masked /\ rxne
            /\ isr' = "errors"
            /\ ReadSR
            /\ UNCHANGED <<next, rxne, ore, bad, dr, data, queueUART, errorUartSR,
                           lost, early, owed>>

IsrTestErrors == /\ isr = "errors"
                 /\ isr' = IF bad \/ ore THEN "log" ELSE "read"
                 /\ ReadSR
                 /\ UNCHANGED <<next, rxne, ore, bad, dr, data, queueUART,
                                errorUartSR, lost, early, owed>>

IsrRead == /\ isr = "read"
           /\ isr' = "send"
           /\ data' = dr
           /\ ReadDR
           /\ UNCHANGED <<next, dr, queueUART, errorUartSR, lost, early, owed>>

\* xQueueSendFromISR refuses a byte when the queue is full, and the handler flags
\* that.
HasRoomOffByOne == Len(queueUART) <= QueueSize
HasRoom == Len(queueUART) < QueueSize

FlagQueueErrorNot == errorUartSR
FlagQueueError == errorUartSR \union {FLAG_ERROR_QUEUE}

IsrSend ==
  /\ isr = "send"
  /\ isr' = "idle"
  /\ CASE opened # "queue" ->
            /\ lost' = lost \union {data} /\ early' = early \union {data}
            /\ UNCHANGED <<queueUART, errorUartSR, owed>>
       [] opened = "queue" /\ HasRoom ->
            /\ queueUART' = Append(queueUART, data)
            /\ UNCHANGED <<errorUartSR, lost, early, owed>>
       [] OTHER ->
            /\ errorUartSR' = FlagQueueError
            /\ Lose({data})
            /\ UNCHANGED <<queueUART, early>>
  /\ UNCHANGED <<usart, data>>

IsrLog == /\ isr = "log"
          /\ isr' = "drain"
          /\ errorUartSR' = errorUartSR \union {REST} \union IF ore THEN {ORE} ELSE {}
          /\ ReadSR
          /\ UNCHANGED <<next, rxne, ore, bad, dr, data, queueUART, lost, early, owed>>

IsrDrain == /\ isr = "drain"
            /\ isr' = "clear"
            /\ Lose(IF rxne THEN {dr} ELSE {})
            /\ ReadDR
            /\ UNCHANGED <<next, dr, data, queueUART, errorUartSR, early>>

\* Writing SR clears RXNE, also for a byte that came since DR was read.
IsrClear == /\ isr = "clear"
            /\ isr' = "idle"
            /\ Lose(IF rxne THEN {dr} ELSE {})
            /\ rxne' = FALSE
            /\ ReadSR
            /\ UNCHANGED <<next, ore, bad, dr, data, queueUART, errorUartSR, early>>

Isr == /\ \/ IsrEnter \/ IsrTestErrors \/ IsrRead \/ IsrSend
          \/ IsrLog \/ IsrDrain \/ IsrClear
       /\ UNCHANGED <<masked, opened, reporter, said, got>>

-------------------------------------------------------------------------------
\* sio_open enables the UART first and creates the queue, and the reporter, after.
SioOpen == /\ TasksRun /\ opened # "queue"
           /\ opened' = IF opened = "no" THEN "uart" ELSE "queue"
           /\ UNCHANGED <<usart, isr, data, masked, queueUART, errorUartSR,
                          reporter, said, got, lost, early, owed>>

\* sio_recv, called by the slip thread, blocks while the queue is empty.
ReadableOffByOne == Len(queueUART) > 1
Readable == queueUART # <<>>

SioRecvPeek == /\ TasksRun /\ Readable
               /\ got' = Append(got, Head(queueUART))
               /\ UNCHANGED <<usart, isr, data, masked, opened, queueUART, errorUartSR,
                              reporter, said, lost, early, owed>>
SioRecv == /\ TasksRun /\ Readable
           /\ got' = Append(got, Head(queueUART))
           /\ queueUART' = Tail(queueUART)
           /\ UNCHANGED <<usart, isr, data, masked, opened, errorUartSR,
                          reporter, said, lost, early, owed>>

\* task_rrintErrorUart.
ReportTestOreOnly == /\ reporter = "test"
                     /\ reporter' = IF ORE \in errorUartSR THEN "queue" ELSE "delay"
                     /\ UNCHANGED <<said, errorUartSR, owed>>
ReportTest == /\ reporter = "test"
              /\ reporter' = IF errorUartSR # {} THEN "queue" ELSE "delay"
              /\ UNCHANGED <<said, errorUartSR, owed>>

ReportIf(bit, from, to) == /\ reporter = from
                        /\ reporter' = to
                        /\ said' = said \union (errorUartSR \intersect {bit})
                        /\ UNCHANGED <<errorUartSR, owed>>

\* "errorUartSR = 0": what the handler added since the tests goes with it.
ReportReset == /\ reporter = "reset"
               /\ reporter' = "delay"
               /\ errorUartSR' = {}
               /\ owed' = {}
               /\ UNCHANGED said

ReportWake == /\ reporter = "delay"
              /\ reporter' = "test"
              /\ said' = {}
              /\ UNCHANGED <<errorUartSR, owed>>

Reporter == /\ TasksRun /\ opened = "queue"
            /\ \/ ReportTest
               \/ ReportIf(FLAG_ERROR_QUEUE, "queue", "overrun")
               \/ ReportIf(ORE, "overrun", "reset")
               \/ ReportReset
               \/ ReportWake
            /\ UNCHANGED <<usart, isr, data, masked, opened, queueUART, got, lost, early>>

\* A task enters or leaves a critical section: the handler has to wait.
Mask == /\ TasksRun \/ (masked /\ isr = "idle")
        /\ masked' = ~masked
        /\ UNCHANGED <<usart, isr, data, opened, queueUART, errorUartSR,
                       reporter, said, got, lost, early, owed>>

Next == ByteArrives \/ Isr \/ SioOpen \/ SioRecv \/ Reporter \/ Mask

\* The handler runs when requested, critical sections end, and every task gets
\* the processor again and again as long as interrupts leave it any.
Spec == Init /\ [][Next]_vars
        /\ WF_vars(Isr) /\ WF_vars(Mask /\ masked)
        /\ SF_vars(SioOpen) /\ SF_vars(SioRecv) /\ SF_vars(Reporter)
-------------------------------------------------------------------------------
\* Every byte that arrived is in exactly one place: read by the slip thread, in
\* the queue, in the hands of the handler, in DR, or lost.
InHand == (IF isr = "send" THEN {data} ELSE {}) \union (IF rxne THEN {dr} ELSE {})

BytesAccounted ==
  LET order == got \o queueUART IN
  /\ 1..(next - 1) = ToSet(order) \union InHand \union lost
  /\ (ToSet(order) \union InHand) \intersect lost = {}
  /\ \A j, k \in DOMAIN order : j < k => order[j] < order[k]
  /\ \A b \in ToSet(order), h \in InHand : b < h

\* Once the queue exists no byte is lost without a trace: some bit of
\* errorUartSR is set, or the overrun flag that will set it.
LossIsFlagged == owed # {} => errorUartSR # {} \/ ore

\* The overrun came when the handler had seen SR without it: ORE is set, RXNE is
\* not, and the handler returns at its first test, over and over.
Storm == isr = "idle" /\ ore /\ ~rxne

\* A full queue noticed while the reporter sleeps is printed, unless the tasks
\* never run again.
QueueErrorReported ==
  (reporter = "delay" /\ FLAG_ERROR_QUEUE \in errorUartSR)
    ~> (FLAG_ERROR_QUEUE \in said \/ Storm)

\* The slip thread gets every byte that was queued.
QueueDrains == (queueUART # <<>>) ~> (queueUART = <<>> \/ Storm)

\* "and also clear the interrupt flag": the request of an overrun goes away.
OverrunRequestCleared == ore ~> ~ore
=============================================================================

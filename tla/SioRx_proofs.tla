---------------------------- MODULE SioRx_proofs ----------------------------
(***************************************************************************)
(* Proofs about SioRx, for every number of bytes and every queue: types,   *)
(* that no byte is lost without a flag, and that every byte is in exactly  *)
(* one place, wherever between two register accesses of the handler the    *)
(* bytes arrive.                                                           *)
(***************************************************************************)
EXTENDS SioRx, SequenceTheorems, TLAPS

\* Where a byte number stands it is one: in DR once the handler was called, and in
\* the handler's hands.
DataIsByte ==
  /\ rxne => dr \in Bytes
  /\ isr # "idle" => dr \in Bytes
  /\ isr = "send" => data \in Bytes

\* The handler reads DR with no flag armed on the good path, so that it cannot clear
\* an overrun it has not seen, and has noted an error before it drops a byte.
FlagBeforeClear ==
  /\ isr = "read" => armed = {}
  /\ isr \in {"drain", "clear"} => errorUartSR # {}

IInv == TypeOK /\ DataIsByte /\ FlagBeforeClear /\ LossIsFlagged

THEOREM InitInv == Init => IInv
<1> SUFFICES ASSUME Init PROVE IInv
  OBVIOUS
<1>1. queueUART \in Seq(Bytes) /\ Len(queueUART) <= QueueSize /\ got \in Seq(Bytes)
  BY SioAssumption DEF Init
<1>2. next \in 1..(NBytes + 1)
  BY SioAssumption DEF Init
<1>3. TypeOK
  BY <1>1, <1>2 DEF Init, TypeOK
<1> QED BY <1>3 DEF Init, IInv, DataIsByte, FlagBeforeClear, LossIsFlagged

LEMMA ByteArrivesInv == IInv /\ ByteArrives => IInv'
<1> SUFFICES ASSUME IInv, ByteArrives PROVE IInv'
  OBVIOUS
<1> USE DEF IInv
<1>1. next \in Bytes /\ next' \in 1..(NBytes + 1)
  BY SioAssumption DEF ByteArrives, TypeOK, Bytes
<1>2. TypeOK'
  BY <1>1 DEF ByteArrives, TypeOK, Lose
<1>3. DataIsByte'
  BY <1>1 DEF ByteArrives, DataIsByte
<1>4. FlagBeforeClear'
  BY DEF ByteArrives, FlagBeforeClear
<1>5. LossIsFlagged'
  BY DEF ByteArrives, LossIsFlagged
<1> QED BY <1>2, <1>3, <1>4, <1>5

\* The handler, one access at a time.
LEMMA IsrInv == IInv /\ Isr => IInv'
<1> SUFFICES ASSUME IInv, Isr PROVE IInv'
  OBVIOUS
<1> USE DEF IInv
<1>1. UNCHANGED <<masked, opened, reporter, said, got>>
  BY DEF Isr
<1>2. CASE IsrEnter
  <2>1. TypeOK'
    BY <1>1, <1>2 DEF IsrEnter, ReadSR, TypeOK
  <2>2. DataIsByte' /\ FlagBeforeClear' /\ LossIsFlagged'
    BY <1>1, <1>2 DEF IsrEnter, DataIsByte, FlagBeforeClear, LossIsFlagged
  <2> QED BY <2>1, <2>2
<1>3. CASE IsrTestErrors
  <2>1. TypeOK'
    BY <1>1, <1>3 DEF IsrTestErrors, ReadSR, TypeOK
  <2>2. FlagBeforeClear'
    BY <1>3 DEF IsrTestErrors, ReadSR, FlagBeforeClear
  <2>3. DataIsByte' /\ LossIsFlagged'
    BY <1>3 DEF IsrTestErrors, DataIsByte, LossIsFlagged
  <2> QED BY <2>1, <2>2, <2>3
<1>4. CASE IsrRead
  <2>1. TypeOK'
    BY <1>1, <1>4 DEF IsrRead, ReadDR, TypeOK
  <2>2. DataIsByte' /\ FlagBeforeClear'
    BY <1>4 DEF IsrRead, ReadDR, DataIsByte, FlagBeforeClear
  <2>3. LossIsFlagged'
    BY <1>4 DEF IsrRead, ReadDR, LossIsFlagged, FlagBeforeClear, TypeOK
  <2> QED BY <2>1, <2>2, <2>3
<1>5. CASE IsrSend
  <2>1. data \in Bytes
    BY <1>5 DEF IsrSend, DataIsByte
  <2>2. queueUART' \in Seq(Bytes) /\ Len(queueUART') <= QueueSize
    <3>1. \/ UNCHANGED queueUART
          \/ Len(queueUART) < QueueSize /\ queueUART' = Append(queueUART, data)
      BY <1>5 DEF IsrSend, HasRoom
    <3>2. queueUART \in Seq(Bytes) /\ Len(queueUART) <= QueueSize
      BY DEF TypeOK
    <3> QED BY <2>1, <3>1, <3>2, SioAssumption
  <2>3. errorUartSR' \subseteq ErrorBits
    BY <1>5 DEF IsrSend, FlagQueueError, ErrorBits, TypeOK
  <2>4. lost' \subseteq Bytes /\ early' \subseteq lost' /\ owed' \subseteq lost'
    BY <1>5, <2>1 DEF IsrSend, Lose, TypeOK
  <2>5. TypeOK'
    BY <1>1, <1>5, <2>2, <2>3, <2>4 DEF IsrSend, usart, TypeOK
  <2>6. DataIsByte' /\ FlagBeforeClear'
    BY <1>5 DEF IsrSend, usart, DataIsByte, FlagBeforeClear
  <2>7. LossIsFlagged'
    BY <1>5 DEF IsrSend, usart, FlagQueueError, Lose, LossIsFlagged
  <2> QED BY <2>5, <2>6, <2>7
<1>6. CASE IsrLog
  <2>1. errorUartSR' \subseteq ErrorBits /\ errorUartSR' # {}
    BY <1>6 DEF IsrLog, ErrorBits, TypeOK
  <2>2. TypeOK'
    BY <1>1, <1>6, <2>1 DEF IsrLog, ReadSR, TypeOK
  <2>3. DataIsByte' /\ FlagBeforeClear' /\ LossIsFlagged'
    BY <1>6, <2>1 DEF IsrLog, DataIsByte, FlagBeforeClear, LossIsFlagged
  <2> QED BY <2>2, <2>3
<1>7. CASE IsrDrain
  <2>1. dr \in Bytes /\ errorUartSR # {}
    BY <1>7 DEF IsrDrain, DataIsByte, FlagBeforeClear
  <2>2. lost' \subseteq Bytes /\ early' \subseteq lost' /\ owed' \subseteq lost'
    BY <1>7, <2>1 DEF IsrDrain, Lose, TypeOK
  <2>3. TypeOK'
    BY <1>1, <1>7, <2>2 DEF IsrDrain, ReadDR, TypeOK
  <2>4. DataIsByte' /\ FlagBeforeClear' /\ LossIsFlagged'
    BY <1>7, <2>1 DEF IsrDrain, ReadDR, DataIsByte, FlagBeforeClear, LossIsFlagged
  <2> QED BY <2>3, <2>4
<1>8. CASE IsrClear
  <2>1. dr \in Bytes /\ errorUartSR # {}
    BY <1>8 DEF IsrClear, DataIsByte, FlagBeforeClear
  <2>2. lost' \subseteq Bytes /\ early' \subseteq lost' /\ owed' \subseteq lost'
    BY <1>8, <2>1 DEF IsrClear, Lose, TypeOK
  <2>3. TypeOK'
    BY <1>1, <1>8, <2>2 DEF IsrClear, ReadSR, TypeOK
  <2>4. DataIsByte' /\ FlagBeforeClear' /\ LossIsFlagged'
    BY <1>8, <2>1 DEF IsrClear, DataIsByte, FlagBeforeClear, LossIsFlagged
  <2> QED BY <2>3, <2>4
<1> QED BY <1>2, <1>3, <1>4, <1>5, <1>6, <1>7, <1>8 DEF Isr

LEMMA SioRecvInv == IInv /\ SioRecv => IInv'
<1> SUFFICES ASSUME IInv, SioRecv PROVE IInv'
  OBVIOUS
<1> USE DEF IInv
<1>1. /\ got' \in Seq(Bytes)
      /\ queueUART' \in Seq(Bytes) /\ Len(queueUART') <= QueueSize
  BY SioAssumption DEF SioRecv, Readable, TypeOK
<1>2. TypeOK'
  BY <1>1 DEF SioRecv, usart, TypeOK
<1>3. DataIsByte' /\ FlagBeforeClear' /\ LossIsFlagged'
  BY DEF SioRecv, usart, DataIsByte, FlagBeforeClear, LossIsFlagged
<1> QED BY <1>2, <1>3

\* The reporter clears the flags between two calls of the handler only, and with
\* them the account of what was lost.
LEMMA ReporterInv == IInv /\ Reporter => IInv'
<1> SUFFICES ASSUME IInv, Reporter PROVE IInv'
  OBVIOUS
<1> USE DEF IInv
<1>1. isr = "idle" /\ UNCHANGED <<usart, isr, data, masked, opened, queueUART, got, lost, early>>
  BY DEF Reporter, TasksRun
<1>2. /\ reporter' \in {"test", "queue", "overrun", "reset", "delay"}
      /\ said' \subseteq ErrorBits
      /\ errorUartSR' \subseteq ErrorBits
      /\ owed' \subseteq lost
  BY DEF Reporter, ReportTest, ReportIf, ReportReset, ReportWake, TypeOK
<1>3. TypeOK'
  BY <1>1, <1>2 DEF usart, TypeOK
<1>4. DataIsByte' /\ FlagBeforeClear'
  BY <1>1 DEF usart, DataIsByte, FlagBeforeClear
<1>5. LossIsFlagged'
  <2>1. owed' = {} \/ UNCHANGED <<owed, errorUartSR>>
    BY DEF Reporter, ReportTest, ReportIf, ReportReset, ReportWake
  <2> QED BY <1>1, <2>1 DEF usart, LossIsFlagged
<1> QED BY <1>3, <1>4, <1>5

THEOREM NextInv == IInv /\ [Next]_vars => IInv'
<1> SUFFICES ASSUME IInv, [Next]_vars PROVE IInv'
  OBVIOUS
<1>1. CASE ByteArrives
  BY <1>1, ByteArrivesInv
<1>2. CASE Isr
  BY <1>2, IsrInv
<1>3. CASE SioOpen
  BY <1>3 DEF SioOpen, usart, IInv, TypeOK, DataIsByte, FlagBeforeClear, LossIsFlagged
<1>4. CASE SioRecv
  BY <1>4, SioRecvInv
<1>5. CASE Reporter
  BY <1>5, ReporterInv
<1>6. CASE Mask
  BY <1>6 DEF Mask, usart, IInv, TypeOK, DataIsByte, FlagBeforeClear, LossIsFlagged
<1>7. CASE UNCHANGED vars
  BY <1>7 DEF vars, usart, IInv, TypeOK, DataIsByte, FlagBeforeClear, LossIsFlagged
<1> QED BY <1>1, <1>2, <1>3, <1>4, <1>5, <1>6, <1>7 DEF Next

THEOREM Invariance == Spec => []IInv
<1> QED BY InitInv, NextInv, PTL DEF Spec

\* The state of the receive path is well typed: in particular the queue never holds
\* more bytes than it was created for, and what is in it arrived.
THEOREM TypeCorrect == Spec => []TypeOK
<1>1. IInv => TypeOK
  BY DEF IInv
<1> QED BY <1>1, Invariance, PTL

\* Whenever a byte was lost since the reporter last cleared errorUartSR, a flag or
\* the overrun bit that will set one is there to tell.
THEOREM LossFlagged == Spec => []LossIsFlagged
<1>1. IInv => LossIsFlagged
  BY DEF IInv
<1> QED BY <1>1, Invariance, PTL

-------------------------------------------------------------------------------
\* Where the bytes are.  Order is what was and what will be read, in order.
Order == got \o queueUART

\* The handler has a byte in DR until it reads DR; a byte that comes after that is a
\* later one.
HandInOrder ==
  /\ isr \in {"errors", "read", "log", "drain"} => rxne
  /\ isr = "send" /\ rxne => data < dr

AInv == IInv /\ HandInOrder /\ BytesAccounted

\* BytesAccounted, part by part.
LEMMA Accounted ==
  BytesAccounted <=>
    /\ 1..(next - 1) = ToSet(Order) \union InHand \union lost
    /\ (ToSet(Order) \union InHand) \intersect lost = {}
    /\ \A j, k \in DOMAIN Order : j < k => Order[j] < Order[k]
    /\ \A b \in ToSet(Order), h \in InHand : b < h
  BY DEF BytesAccounted, Order

LEMMA OrderIsSeq ==
  ASSUME TypeOK
  PROVE  Order \in Seq(Bytes) /\ Bytes \subseteq Nat
  BY ConcatProperties DEF TypeOK, Order, Bytes

\* sio_recv moves a byte from one end of Order to the other side of its seam.
LEMMA RecvKeepsOrder ==
  ASSUME TypeOK, SioRecv
  PROVE  Order' = Order
<1>1. queueUART \in Seq(Bytes) /\ queueUART # <<>> /\ got \in Seq(Bytes)
  BY DEF TypeOK, SioRecv, Readable
<1> DEFINE h == Head(queueUART)
           t == Tail(queueUART)
<1>2. h \in Bytes /\ t \in Seq(Bytes) /\ queueUART = <<h>> \o t
  <2>1. h \in Bytes /\ t \in Seq(Bytes)
    BY <1>1, HeadTailProperties
  <2>2. <<h>> \o t = queueUART
    BY <1>1
  <2> QED BY <2>1, <2>2
<1>3. <<h>> \in Seq(Bytes)
  BY <1>2
<1>4. Append(got, h) = got \o <<h>>
  BY <1>1, <1>2, AppendIsConcat
<1>5. (got \o <<h>>) \o t = got \o (<<h>> \o t)
  BY <1>1, <1>2, <1>3, ConcatAssociative
<1>6. got' = Append(got, h) /\ queueUART' = t
  BY DEF SioRecv
<1> QED BY <1>2, <1>4, <1>5, <1>6 DEF Order

\* A step that moves no byte.
LEMMA NothingMoves ==
  ASSUME BytesAccounted, UNCHANGED <<next, lost>>, Order' = Order, InHand' = InHand
  PROVE  BytesAccounted'
<1>1. /\ 1..(next' - 1) = ToSet(Order') \union InHand' \union lost'
      /\ (ToSet(Order') \union InHand') \intersect lost' = {}
      /\ \A j, k \in DOMAIN Order' : j < k => Order'[j] < Order'[k]
      /\ \A b \in ToSet(Order'), h \in InHand' : b < h
  BY Accounted
<1> QED BY <1>1 DEF BytesAccounted, Order

\* A step by which some bytes in hand are lost.
LEMMA HandLoses ==
  ASSUME BytesAccounted, UNCHANGED next, Order' = Order,
         NEW gone, gone \subseteq InHand, InHand' = InHand \ gone, lost' = lost \union gone
  PROVE  BytesAccounted'
<1>1. /\ 1..(next - 1) = ToSet(Order) \union InHand \union lost
      /\ (ToSet(Order) \union InHand) \intersect lost = {}
      /\ \A b \in ToSet(Order), h \in InHand : b < h
  BY Accounted
<1>2. \A b \in Nat : ~(b < b)
  OBVIOUS
<1>3. InHand \subseteq Nat
  BY <1>1
<1>4. /\ 1..(next' - 1) = ToSet(Order') \union InHand' \union lost'
      /\ \A b \in ToSet(Order'), h \in InHand' : b < h
  BY <1>1
<1>5. (ToSet(Order') \union InHand') \intersect lost' = {}
  BY <1>1, <1>2, <1>3
<1>6. \A j, k \in DOMAIN Order' : j < k => Order'[j] < Order'[k]
  BY Accounted
<1> QED BY <1>4, <1>5, <1>6 DEF BytesAccounted, Order

LEMMA ByteArrivesAccounted == AInv /\ ByteArrives => HandInOrder' /\ BytesAccounted'
<1> SUFFICES ASSUME AInv, ByteArrives PROVE HandInOrder' /\ BytesAccounted'
  OBVIOUS
<1>1. /\ 1..(next - 1) = ToSet(Order) \union InHand \union lost
      /\ (ToSet(Order) \union InHand) \intersect lost = {}
      /\ \A j, k \in DOMAIN Order : j < k => Order[j] < Order[k]
      /\ \A b \in ToSet(Order), h \in InHand : b < h
  BY Accounted DEF AInv
<1>2. next \in Nat \ {0} /\ next' = next + 1 /\ Order' = Order
  BY SioAssumption DEF AInv, IInv, TypeOK, ByteArrives, Order
<1>3. 1..(next' - 1) = (1..(next - 1)) \union {next}
  BY <1>2
<1>4. \A b \in 1..(next - 1) : b < next /\ b # next
  BY <1>2
<1>5. HandInOrder'
  <2>1. isr = "send" => data \in InHand
    BY DEF InHand
  <2> QED BY <2>1, <1>1, <1>4 DEF AInv, HandInOrder, ByteArrives
<1>6. CASE ~rxne
  <2>1. InHand' = InHand \union {next} /\ lost' = lost
    BY <1>6 DEF ByteArrives, InHand
  <2>2. /\ 1..(next' - 1) = ToSet(Order') \union InHand' \union lost'
        /\ (ToSet(Order') \union InHand') \intersect lost' = {}
        /\ \A b \in ToSet(Order'), h \in InHand' : b < h
    BY <2>1, <1>1, <1>2, <1>3, <1>4
  <2> QED BY <2>2, <1>1, <1>2, <1>5 DEF BytesAccounted, Order
<1>7. CASE rxne
  <2>1. InHand' = InHand /\ lost' = lost \union {next}
    BY <1>7 DEF ByteArrives, Lose, InHand
  <2>2. /\ 1..(next' - 1) = ToSet(Order') \union InHand' \union lost'
        /\ (ToSet(Order') \union InHand') \intersect lost' = {}
        /\ \A b \in ToSet(Order'), h \in InHand' : b < h
    BY <2>1, <1>1, <1>2, <1>3, <1>4
  <2> QED BY <2>2, <1>1, <1>2, <1>5 DEF BytesAccounted, Order
<1> QED BY <1>6, <1>7

\* xQueueSendFromISR puts the byte behind all others.
LEMMA SendAppends ==
  ASSUME TypeOK, NEW d \in Bytes, queueUART' = Append(queueUART, d), UNCHANGED got
  PROVE  Order' = Append(Order, d)
<1>1. queueUART \in Seq(Bytes) /\ got \in Seq(Bytes) /\ <<d>> \in Seq(Bytes)
  BY DEF TypeOK
<1>2. Append(queueUART, d) = queueUART \o <<d>>
  BY <1>1, AppendIsConcat
<1>3. got \o (queueUART \o <<d>>) = (got \o queueUART) \o <<d>>
  BY <1>1, ConcatAssociative
<1>4. Append(Order, d) = Order \o <<d>>
  BY OrderIsSeq, AppendIsConcat
<1> QED BY <1>2, <1>3, <1>4 DEF Order

LEMMA IsrSendAccounted == AInv /\ IsrSend /\ UNCHANGED got => HandInOrder' /\ BytesAccounted'
<1> SUFFICES ASSUME AInv, IsrSend, UNCHANGED got PROVE HandInOrder' /\ BytesAccounted'
  OBVIOUS
<1>1. /\ 1..(next - 1) = ToSet(Order) \union InHand \union lost
      /\ (ToSet(Order) \union InHand) \intersect lost = {}
      /\ \A j, k \in DOMAIN Order : j < k => Order[j] < Order[k]
      /\ \A b \in ToSet(Order), h \in InHand : b < h
  BY Accounted DEF AInv
<1>2. HandInOrder'
  BY DEF IsrSend, HandInOrder
<1>3. TypeOK /\ data \in Bytes /\ data \in InHand
  BY DEF AInv, IInv, DataIsByte, IsrSend, InHand
<1>4. rxne => dr \in Bytes /\ data < dr
  BY DEF AInv, IInv, DataIsByte, HandInOrder, IsrSend
<1>5. Bytes \subseteq Nat
  BY DEF Bytes
<1>6. InHand' = InHand \ {data}
  <2>1. rxne => dr # data
    BY <1>3, <1>4, <1>5
  <2> QED BY <2>1 DEF IsrSend, usart, InHand
<1>7. UNCHANGED next
  BY DEF IsrSend, usart
<1>8. CASE UNCHANGED queueUART /\ lost' = lost \union {data}
  <2>1. Order' = Order
    BY <1>8 DEF Order
  <2> QED BY <2>1, <1>2, <1>3, <1>6, <1>7, <1>8, HandLoses DEF AInv
<1>9. CASE queueUART' = Append(queueUART, data) /\ UNCHANGED lost
  <2>1. Order' = Append(Order, data) /\ Order \in Seq(Bytes)
    BY <1>3, <1>9, SendAppends, OrderIsSeq
  <2>2. /\ DOMAIN Order' = 1..(Len(Order) + 1) /\ DOMAIN Order = 1..Len(Order)
        /\ Len(Order) \in Nat
        /\ \A j \in DOMAIN Order : Order'[j] = Order[j]
        /\ Order'[Len(Order) + 1] = data
    BY <2>1, <1>3
  <2>3. ToSet(Order') = ToSet(Order) \union {data}
    BY <2>2 DEF ToSet
  <2>4. \A j, k \in DOMAIN Order' : j < k => Order'[j] < Order'[k]
    <3> SUFFICES ASSUME NEW j \in DOMAIN Order', NEW k \in DOMAIN Order', j < k
                 PROVE  Order'[j] < Order'[k]
      OBVIOUS
    <3>1. j \in DOMAIN Order
      BY <2>2
    <3>2. CASE k \in DOMAIN Order
      BY <3>1, <3>2, <2>2, <1>1
    <3>3. CASE k = Len(Order) + 1
      BY <3>1, <3>3, <2>2, <1>1, <1>3 DEF ToSet
    <3> QED BY <3>2, <3>3, <2>2
  <2>5. \A b \in ToSet(Order'), h \in InHand' : b < h
    BY <2>3, <1>1, <1>4, <1>6 DEF InHand, IsrSend
  <2>6. /\ 1..(next' - 1) = ToSet(Order') \union InHand' \union lost'
        /\ (ToSet(Order') \union InHand') \intersect lost' = {}
    BY <2>3, <1>1, <1>3, <1>6, <1>7, <1>9
  <2> QED BY <2>4, <2>5, <2>6, <1>2 DEF BytesAccounted, Order
<1> QED BY <1>8, <1>9 DEF IsrSend, Lose

LEMMA IsrAccounted == AInv /\ Isr => HandInOrder' /\ BytesAccounted'
<1> SUFFICES ASSUME AInv, Isr PROVE HandInOrder' /\ BytesAccounted'
  OBVIOUS
<1>1. BytesAccounted /\ HandInOrder /\ TypeOK /\ UNCHANGED got
  BY DEF AInv, IInv, Isr
<1>2. CASE IsrEnter \/ IsrTestErrors \/ IsrLog
  <2>1. UNCHANGED <<next, lost>> /\ Order' = Order
    BY <1>1, <1>2 DEF IsrEnter, IsrTestErrors, IsrLog, Order
  <2>2. InHand' = InHand /\ HandInOrder'
    BY <1>1, <1>2 DEF IsrEnter, IsrTestErrors, IsrLog, InHand, HandInOrder
  <2> QED BY <1>1, <2>1, <2>2, NothingMoves
<1>3. CASE IsrRead
  <2>1. UNCHANGED <<next, lost>> /\ Order' = Order /\ HandInOrder'
    BY <1>1, <1>3 DEF IsrRead, ReadDR, Order, HandInOrder
  <2>2. InHand' = InHand
    BY <1>1, <1>3 DEF IsrRead, ReadDR, InHand, HandInOrder
  <2> QED BY <1>1, <2>1, <2>2, NothingMoves
<1>4. CASE IsrSend
  BY <1>1, <1>4, IsrSendAccounted
<1>5. CASE IsrDrain
  <2>1. UNCHANGED next /\ Order' = Order /\ HandInOrder'
    BY <1>1, <1>5 DEF IsrDrain, ReadDR, Order, HandInOrder
  <2>2. InHand = {dr} /\ InHand' = {} /\ lost' = lost \union {dr}
    BY <1>1, <1>5 DEF IsrDrain, ReadDR, Lose, InHand, HandInOrder
  <2> QED BY <1>1, <2>1, <2>2, HandLoses
<1>6. CASE IsrClear
  <2>1. UNCHANGED next /\ Order' = Order /\ HandInOrder'
    BY <1>1, <1>6 DEF IsrClear, Order, HandInOrder
  <2>2. InHand' = {} /\ lost' = lost \union InHand
    BY <1>6 DEF IsrClear, Lose, InHand
  <2> QED BY <1>1, <2>1, <2>2, HandLoses
<1> QED BY <1>2, <1>3, <1>4, <1>5, <1>6 DEF Isr

\* The steps of the tasks move no byte of the order, and none in hand.
LEMMA TasksAccounted ==
  ASSUME AInv, SioOpen \/ SioRecv \/ Reporter \/ Mask \/ UNCHANGED vars
  PROVE  HandInOrder' /\ BytesAccounted'
<1>1. BytesAccounted /\ HandInOrder /\ TypeOK
  BY DEF AInv, IInv
<1>2. UNCHANGED <<usart, isr, data, lost>>
  BY DEF SioOpen, SioRecv, Reporter, Mask, vars, usart
<1>3. Order' = Order
  <2>1. CASE SioRecv
    BY <2>1, <1>1, RecvKeepsOrder
  <2>2. CASE SioOpen \/ Reporter \/ Mask \/ UNCHANGED vars
    BY <2>2 DEF SioOpen, Reporter, Mask, vars, Order
  <2> QED BY <2>1, <2>2
<1>4. InHand' = InHand /\ HandInOrder'
  BY <1>1, <1>2 DEF usart, InHand, HandInOrder
<1> QED BY <1>1, <1>2, <1>3, <1>4, NothingMoves DEF usart

\* Whatever the handler is interrupted by a byte in, every byte that arrived was
\* read, is queued, is in the handler's hands or in DR, or is lost; it is in one of
\* these places only, and what is read is read in the order of arrival.
THEOREM BytesAreAccounted == Spec => []BytesAccounted
<1>1. Init => AInv
  <2> SUFFICES ASSUME Init PROVE HandInOrder /\ BytesAccounted
    BY InitInv DEF AInv
  <2>1. Order = <<>> /\ InHand = {} /\ lost = {} /\ next = 1
    BY DEF Init, Order, InHand
  <2>2. ToSet(<<>>) = {} /\ DOMAIN <<>> = {} /\ 1..(1 - 1) = {}
    BY DEF ToSet
  <2>3. BytesAccounted
    BY <2>1, <2>2, Accounted
  <2> QED BY <2>3 DEF Init, HandInOrder
<1>2. AInv /\ [Next]_vars => AInv'
  <2> SUFFICES ASSUME AInv, [Next]_vars PROVE HandInOrder' /\ BytesAccounted'
    BY NextInv DEF AInv
  <2> QED BY ByteArrivesAccounted, IsrAccounted, TasksAccounted DEF Next
<1>3. AInv => BytesAccounted
  BY DEF AInv
<1> QED BY <1>1, <1>2, <1>3, PTL DEF Spec
=============================================================================

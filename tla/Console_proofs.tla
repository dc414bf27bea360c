----------------------------- MODULE Console_proofs -----------------------------
(***************************************************************************)
(* Proofs about Console: no key is lost or doubled, the graph that is      *)
(* printed is that of one moment, and the figures agree, for every length  *)
(* of the queue, of the graph and of a behaviour.                          *)
(***************************************************************************)
EXTENDS Console, SequenceTheorems, TLAPS

\* The share of a second is a percentage: it is reckoned from the largest count so far.
LEMMA ShareBounded ==
  ASSUME NEW c \in Nat, NEW m \in Nat, m > 0, c <= m
  PROVE  (100 * c) \div m \in 0..100
<1> DEFINE q == (100 * c) \div m
<1>1. q \in Nat /\ q * m <= 100 * c
  OBVIOUS
<1>2. q <= 100
  <2> SUFFICES ASSUME q > 100 PROVE FALSE
    BY <1>1
  <2>1. q * m >= 101 * m
    BY <1>1
  <2> QED BY <1>1, <2>1
<1> QED BY <1>1, <1>2

\* A place in the graph is a place of the array.
LEMMA PlaceInGraph ==
  ASSUME NEW n \in Int
  PROVE  n % GraphSize \in 0..(GraphSize - 1)
BY ConsoleAssumption

LEMMA MinIs ==
  ASSUME NEW S \in SUBSET Int, NEW x \in S, \A y \in S : x <= y
  PROVE  Min(S) = x
<1>1. \E z \in S : \A y \in S : z <= y
  OBVIOUS
<1>2. Min(S) \in S /\ \A y \in S : Min(S) <= y
  BY <1>1 DEF Min
<1>3. Min(S) \in Int /\ x \in Int
  BY <1>2
<1>4. Min(S) <= x /\ x <= Min(S)
  BY <1>2
<1> QED BY <1>3, <1>4

-----------------------------------------------------------------------------
\* Nothing happens before it may: while the other tasks are suspended none of them has
\* moved, the server sleeps until the console has created semaphore and queue, and two
\* seconds have been measured when they run.
StartsInOrder ==
  /\ boot # "gone" => console = "semaphore"
  /\ boot = "gone" => Len(shares) >= 2
  /\ console \in {"semaphore", "give", "queue"} => server = "delay"
  /\ server = "delay" => recyveData = <<>>

\* The seconds the graph and the minimum already know.
Shifted == Len(shares) - IF hook = "count" THEN 0 ELSE 1
Weighed == Len(shares) - IF hook = "minimum" THEN 1 ELSE 0

\* What the idle task has written is what it measured, as far as it has come in its turn.
HookSoFar ==
  /\ hook # "shift" => i = 1
  /\ hook # "count" => Len(shares) > 0
  /\ Len(shares) > 0 => MPU_IDLE = shares[Len(shares)]
  /\ \A j \in 0..(GraphSize - 1) : masCpuFree[j] =
       Share(Shifted - GraphSize + j + IF j + 1 < i THEN 2 ELSE 1)
  /\ MIN_MPU_FREE \in {shares[s] : s \in 1..Weighed} \union {100}
  /\ \A s \in 1..Weighed : MIN_MPU_FREE <= shares[s]

\* What a command has printed is still what the variables hold: the idle task does not
\* run while it prints.
PrintedStands == console \in {"CPU_Gra", "CPU_Idle"} =>
                   \A f \in DOMAIN printed : printed[f] = Figure(f)

IInv == TypeOK /\ StartsInOrder /\ NoKeyLost /\ HookSoFar /\ PrintedStands

-----------------------------------------------------------------------------
LEMMA InitInv == Init => IInv
<1> SUFFICES ASSUME Init PROVE IInv
  OBVIOUS
<1> USE DEF Init
<1>1. TypeOK
  <2>1. masCpuFree \in [0..(GraphSize - 1) -> 0..100]
    OBVIOUS
  <2>2. i \in 1..GraphSize
    BY ConsoleAssumption
  <2> QED BY <2>1, <2>2, ConsoleAssumption DEF TypeOK, Keys
<1>2. StartsInOrder
  BY DEF StartsInOrder
<1>3. NoKeyLost
  BY DEF NoKeyLost, KeysOnTheirWay
<1>4. HookSoFar
  <2>1. Shifted = 0 /\ Weighed = 0 /\ Len(shares) = 0 /\ i = 1
    BY DEF Shifted, Weighed
  <2>2. \A j \in 0..(GraphSize - 1) :
          masCpuFree[j] = Share(Shifted - GraphSize + j + IF j + 1 < i THEN 2 ELSE 1)
    BY <2>1, ConsoleAssumption DEF Share
  <2> QED BY <2>1, <2>2 DEF HookSoFar
<1>5. PrintedStands
  BY DEF PrintedStands
<1> QED BY <1>1, <1>2, <1>3, <1>4, <1>5 DEF IInv

\* The graph and the minimum are functions of what the idle task owns.
LEMMA HookFrame ==
  ASSUME HookSoFar, UNCHANGED idleVars
  PROVE  HookSoFar'
BY DEF HookSoFar, idleVars, Shifted, Weighed, Share

LEMMA PrintedFrame ==
  ASSUME PrintedStands, UNCHANGED <<consoleVars, idleVars>>
  PROVE  PrintedStands'
BY DEF PrintedStands, Figure, consoleVars, idleVars

-----------------------------------------------------------------------------
\* resumAllTask and the server
LEMMA BootInv ==
  ASSUME IInv, Suspend \/ Resume
  PROVE  IInv'
<1>1. TypeOK'
  BY DEF IInv, Suspend, Resume, TypeOK, serverVars, consoleVars, idleVars
<1>2. NoKeyLost'
  BY DEF IInv, Suspend, Resume, NoKeyLost, KeysOnTheirWay, serverVars, consoleVars
<1>4. StartsInOrder'
  <2>1. UNCHANGED <<console, server, recyveData, shares>> /\ boot' # "suspend"
    BY DEF Suspend, Resume, serverVars, consoleVars, idleVars
  <2>2. CASE Suspend
    BY <2>1, <2>2 DEF Suspend, IInv, StartsInOrder
  <2>3. CASE Resume
    <3>1. Len(shares) >= 2
      BY <2>3 DEF Resume
    <3> QED BY <2>1, <2>3, <3>1 DEF Resume, IInv, StartsInOrder
  <2> QED BY <2>2, <2>3
<1>3. UNCHANGED <<consoleVars, idleVars>>
  BY DEF Suspend, Resume
<1> QED BY <1>1, <1>2, <1>3, <1>4, HookFrame, PrintedFrame DEF IInv

LEMMA ServerTypes ==
  ASSUME TypeOK, Server \/ KeyArrives
  PROVE  TypeOK'
<1>1. CASE ServerStarts \/ Take \/ Give
  BY <1>1 DEF ServerStarts, Take, Give, TypeOK, serverVars, consoleVars, idleVars
<1>2. CASE KeyArrives
  <2>1. PICK k \in Keys : key' = k /\ typed' = Append(typed, k)
    BY <1>2 DEF KeyArrives
  <2>2. typed' \in Seq(Keys)
    BY <2>1 DEF TypeOK
  <2> QED BY <1>2, <2>1, <2>2 DEF KeyArrives, TypeOK, consoleVars, idleVars
<1>3. CASE Send
  <2>1. recyveData' \in Seq(Keys) /\ Len(recyveData') <= QueueLength
    BY <1>3, ConsoleAssumption DEF Send, TypeOK
  <2> QED BY <1>3, <2>1 DEF Send, TypeOK, consoleVars, idleVars
<1> QED BY <1>1, <1>2, <1>3 DEF Server

\* A key on its way moves from the hand of the server to the end of the queue.
LEMMA ServerKeys ==
  ASSUME TypeOK, NoKeyLost, StartsInOrder, Server \/ KeyArrives
  PROVE  NoKeyLost'
<1>0. recyveData \in Seq(Keys) /\ handled \in Seq(Keys) /\ typed \in Seq(Keys) /\ key \in Keys
  BY DEF TypeOK
<1>1. CASE ServerStarts \/ Take \/ Give
  BY <1>1 DEF ServerStarts, Take, Give, NoKeyLost, KeysOnTheirWay, consoleVars
<1>2. CASE KeyArrives
  <2>1. PICK k \in Keys : key' = k /\ typed' = Append(typed, k)
    BY <1>2 DEF KeyArrives
  <2>2. typed = handled \o recyveData
    BY <1>0, <1>2, ConcatEmptySeq DEF KeyArrives, NoKeyLost, KeysOnTheirWay
  <2>3. UNCHANGED <<handled, recyveData>> /\ server' = "take"
    BY <1>2 DEF KeyArrives, consoleVars
  <2>4. Append(handled \o recyveData, k) = handled \o (recyveData \o <<k>>)
    <3>1. handled \o recyveData \in Seq(Keys) /\ <<k>> \in Seq(Keys)
      BY <1>0, ConcatProperties
    <3>2. Append(handled \o recyveData, k) = (handled \o recyveData) \o <<k>>
      BY <3>1, AppendIsConcat
    <3>3. (handled \o recyveData) \o <<k>> = handled \o (recyveData \o <<k>>)
      BY <1>0, <3>1, ConcatAssociative
    <3> QED BY <3>2, <3>3
  <2> QED BY <2>1, <2>2, <2>3, <2>4 DEF NoKeyLost, KeysOnTheirWay
<1>3. CASE Send
  <2>1. /\ recyveData' = Append(recyveData, key) /\ server' = "give" /\ server = "send"
        /\ UNCHANGED <<handled, typed>>
    BY <1>3 DEF Send, consoleVars
  <2>2. recyveData \o <<key>> = Append(recyveData, key) \o <<>>
    BY <1>0, AppendIsConcat, ConcatEmptySeq, AppendProperties
  <2> QED BY <2>1, <2>2 DEF NoKeyLost, KeysOnTheirWay
<1> QED BY <1>1, <1>2, <1>3 DEF Server

LEMMA ServerInv ==
  ASSUME IInv, Server \/ KeyArrives
  PROVE  IInv'
<1>1. TypeOK' /\ NoKeyLost'
  BY ServerTypes, ServerKeys DEF IInv
<1>2. StartsInOrder'
  <2>1. CASE KeyArrives \/ Take \/ Send \/ Give
    BY <2>1 DEF KeyArrives, Take, Send, Give, IInv, StartsInOrder, consoleVars, idleVars
  <2>2. CASE ServerStarts
    BY <2>2 DEF ServerStarts, ConsoleReady, IInv, StartsInOrder, consoleVars, idleVars
  <2> QED BY <2>1, <2>2 DEF Server
<1>3. UNCHANGED <<consoleVars, idleVars>>
  BY DEF Server, ServerStarts, KeyArrives, Take, Send, Give
<1> QED BY <1>1, <1>2, <1>3, HookFrame, PrintedFrame DEF IInv

-----------------------------------------------------------------------------
\* The console
LEMMA FigureIsShare ==
  ASSUME TypeOK, NEW n \in Nat \ {0}
  PROVE  Figure(n) \in 0..100
<1>1. (n - 1) % GraphSize \in 0..(GraphSize - 1)
  BY PlaceInGraph
<1> QED BY <1>1 DEF TypeOK, Figure

LEMMA ConsoleTypes ==
  ASSUME TypeOK, Console
  PROVE  TypeOK'
<1> USE DEF Console
<1>1. CASE (CreateSemaphore \/ GiveFirst \/ CreateQueue) /\ UNCHANGED <<printed, handled>>
  <2>1. recyveData' = recyveData \/ recyveData' = <<>>
    BY <1>1 DEF CreateSemaphore, GiveFirst, CreateQueue
  <2>2. recyveData' \in Seq(Keys) /\ Len(recyveData') <= QueueLength
    <3>1. recyveData \in Seq(Keys) /\ Len(recyveData) <= QueueLength
      BY DEF TypeOK
    <3>2. <<>> \in Seq(Keys) /\ Len(<<>>) <= QueueLength
      BY ConsoleAssumption
    <3> QED BY <2>1, <3>1, <3>2
  <2> QED BY <1>1, <2>2 DEF CreateSemaphore, GiveFirst, CreateQueue, TypeOK, serverVars, idleVars
<1>2. CASE Receive
  <2>1. /\ Head(recyveData) \in Keys
        /\ recyveData' \in Seq(Keys) /\ Len(recyveData') <= QueueLength
    BY <1>2, ConsoleAssumption DEF Receive, TypeOK
  <2>2. handled' \in Seq(Keys) /\ printed' \in Seq(0..100)
    BY <1>2, <2>1 DEF Receive, TypeOK
  <2>3. console' \in {"receive", "CPU_Gra", "CPU_Idle"}
    BY <1>2, <2>1 DEF Receive, Keys
  <2> QED BY <1>2, <2>1, <2>2, <2>3 DEF Receive, TypeOK, serverVars, idleVars
<1>3. CASE PrintFigure
  <2>1. printed' \in Seq(0..100) /\ console' \in {"receive", "CPU_Gra", "CPU_Idle"}
    <3>1. CASE Len(printed) < Figures
      <4>1. printed \in Seq(0..100) /\ Len(printed) + 1 \in Nat \ {0}
        BY DEF TypeOK
      <4>2. Figure(Len(printed) + 1) \in 0..100
        BY <4>1, FigureIsShare
      <4>3. Append(printed, Figure(Len(printed) + 1)) \in Seq(0..100)
        BY <4>1, <4>2, AppendProperties
      <4> QED BY <1>3, <3>1, <4>3 DEF PrintFigure
    <3>2. CASE ~(Len(printed) < Figures)
      BY <1>3, <3>2 DEF PrintFigure
    <3> QED BY <3>1, <3>2
  <2> QED BY <1>3, <2>1 DEF PrintFigure, TypeOK, serverVars, idleVars
<1> QED BY <1>1, <1>2, <1>3

\* A key on its way moves from the front of the queue to the keys that were handled.
LEMMA ConsoleKeys ==
  ASSUME TypeOK, NoKeyLost, StartsInOrder, Console
  PROVE  NoKeyLost'
<1> USE DEF Console
<1>0. recyveData \in Seq(Keys) /\ handled \in Seq(Keys) /\ typed \in Seq(Keys) /\ key \in Keys
  BY DEF TypeOK
<1>1. UNCHANGED <<server, key, typed>>
  BY DEF serverVars
<1>2. CASE Receive
  <2> DEFINE hand == IF server \in {"take", "send"} THEN <<key>> ELSE <<>>
  <2>1. hand \in Seq(Keys)
    BY <1>0
  <2>2. recyveData = <<Head(recyveData)>> \o Tail(recyveData)
        /\ Head(recyveData) \in Keys /\ Tail(recyveData) \in Seq(Keys)
    BY <1>0, <1>2 DEF Receive
  <2> HIDE DEF hand
  <2>3. handled \o (recyveData \o hand)
          = Append(handled, Head(recyveData)) \o (Tail(recyveData) \o hand)
    <3>1. ASSUME NEW h \in Keys, NEW t \in Seq(Keys)
          PROVE  handled \o ((<<h>> \o t) \o hand) = Append(handled, h) \o (t \o hand)
      <4>1. <<h>> \in Seq(Keys) /\ t \o hand \in Seq(Keys) /\ handled \in Seq(Keys)
        BY <1>0, <2>1, ConcatProperties
      <4>2. (<<h>> \o t) \o hand = <<h>> \o (t \o hand)
        BY <2>1, <4>1, ConcatAssociative
      <4>3. Append(handled, h) = handled \o <<h>>
        BY <4>1, AppendIsConcat
      <4>4. (handled \o <<h>>) \o (t \o hand) = handled \o (<<h>> \o (t \o hand))
        BY <4>1, ConcatAssociative
      <4> QED BY <4>2, <4>3, <4>4
    <3> QED BY <2>2, <3>1
  <2>4. recyveData' = Tail(recyveData) /\ handled' = Append(handled, Head(recyveData))
    BY <1>2 DEF Receive
  <2> QED BY <1>1, <2>3, <2>4 DEF NoKeyLost, KeysOnTheirWay, hand
<1>3. CASE (CreateSemaphore \/ GiveFirst \/ CreateQueue) /\ UNCHANGED <<printed, handled>>
  <2>1. recyveData' = recyveData
    BY <1>3 DEF CreateSemaphore, GiveFirst, CreateQueue, StartsInOrder
  <2> QED BY <1>1, <1>3, <2>1 DEF NoKeyLost, KeysOnTheirWay
<1>4. CASE PrintFigure
  BY <1>1, <1>4 DEF PrintFigure, NoKeyLost, KeysOnTheirWay
<1> QED BY <1>2, <1>3, <1>4

\* What is printed is what stands there now.
LEMMA ConsolePrints ==
  ASSUME TypeOK, PrintedStands, Console
  PROVE  PrintedStands'
<1> USE DEF Console
<1>1. UNCHANGED <<masCpuFree, MPU_IDLE, MIN_MPU_FREE>>
  BY DEF idleVars
<1>2. CASE CreateSemaphore \/ GiveFirst \/ CreateQueue
  BY <1>2 DEF CreateSemaphore, GiveFirst, CreateQueue, PrintedStands
<1>3. CASE Receive
  BY <1>3 DEF Receive, PrintedStands
<1>4. CASE PrintFigure
  <2>1. CASE Len(printed) < Figures
    <3>1. /\ printed' = Append(printed, Figure(Len(printed) + 1)) /\ console' = console
          /\ console \in {"CPU_Gra", "CPU_Idle"} /\ printed \in Seq(0..100)
      BY <1>4, <2>1 DEF PrintFigure, TypeOK
    <3>2. \A f \in Nat : Figure(f)' = Figure(f)
      BY <1>1, <3>1 DEF Figure
    <3>3. ASSUME NEW f \in DOMAIN printed' PROVE printed'[f] = Figure(f)
      <4>1. /\ f \in 1..(Len(printed) + 1)
            /\ f <= Len(printed) => f \in DOMAIN printed /\ printed'[f] = printed[f]
            /\ f = Len(printed) + 1 => printed'[f] = Figure(Len(printed) + 1)
        BY <3>1
      <4>2. f <= Len(printed) \/ f = Len(printed) + 1
        BY <3>1, <4>1
      <4> QED BY <3>1, <4>1, <4>2 DEF PrintedStands
    <3>4. DOMAIN printed' \subseteq Nat
      BY <3>1
    <3> QED BY <3>2, <3>3, <3>4 DEF PrintedStands
  <2>2. CASE ~(Len(printed) < Figures)
    BY <1>4, <2>2 DEF PrintFigure, PrintedStands
  <2> QED BY <2>1, <2>2
<1> QED BY <1>2, <1>3, <1>4

LEMMA ConsoleInv ==
  ASSUME IInv, Console
  PROVE  IInv'
<1>1. TypeOK' /\ NoKeyLost' /\ PrintedStands'
  BY ConsoleTypes, ConsoleKeys, ConsolePrints DEF IInv
<1>2. UNCHANGED <<boot, serverVars, idleVars, typed>>
  BY DEF Console
<1>3. StartsInOrder'
  <2>1. CASE PrintFigure \/ Receive
    <3>1. console' \in {"receive", "CPU_Gra", "CPU_Idle"}
      BY <1>2, <2>1 DEF PrintFigure, Receive, IInv, TypeOK, Keys, serverVars
    <3>2. server = "delay" => recyveData' = <<>>
      BY <2>1 DEF PrintFigure, Receive, IInv, StartsInOrder
    <3> QED BY <1>2, <2>1, <3>1, <3>2 DEF Console, IInv, StartsInOrder, serverVars, idleVars
  <2>2. CASE CreateSemaphore \/ GiveFirst \/ CreateQueue
    BY <1>2, <2>2 DEF CreateSemaphore, GiveFirst, CreateQueue, IInv, StartsInOrder, serverVars, idleVars, Console
  <2> QED BY <2>1, <2>2 DEF Console
<1> QED BY <1>1, <1>2, <1>3, HookFrame DEF IInv

-----------------------------------------------------------------------------
\* The idle task
LEMMA IdleTypes ==
  ASSUME TypeOK, Idle
  PROVE  TypeOK'
<1> USE DEF Idle
<1>1. CASE HookShare
  <2>1. PICK count \in Counts :
          /\ max_count' = IF count > max_count THEN count ELSE max_count
          /\ MPU_IDLE' = (100 * count) \div max_count'
    BY <1>1 DEF HookShare
  <2>2. count \in Nat /\ max_count' \in Nat /\ max_count' > 0 /\ count <= max_count'
    BY <2>1, ConsoleAssumption DEF TypeOK
  <2>3. MPU_IDLE' \in 0..100
    BY <2>1, <2>2, ShareBounded
  <2>4. shares' \in Seq(0..100)
    BY <1>1, <2>3 DEF HookShare, TypeOK
  <2> QED BY <1>1, <2>2, <2>3, <2>4 DEF HookShare, TypeOK, serverVars, consoleVars
<1>2. CASE HookMinimum
  BY <1>2, ConsoleAssumption DEF HookMinimum, TypeOK, serverVars, consoleVars
<1>3. CASE HookShift
  <2>1. i' \in 1..GraphSize /\ hook' \in {"count", "minimum", "shift"}
    BY <1>3, ConsoleAssumption DEF HookShift, TypeOK
  <2>2. masCpuFree' \in [0..(GraphSize - 1) -> 0..100]
    <3>1. masCpuFree \in [0..(GraphSize - 1) -> 0..100] /\ MPU_IDLE \in 0..100
      BY DEF TypeOK
    <3>2. CASE i < GraphSize
      <4>1. i \in 0..(GraphSize - 1) /\ i - 1 \in 0..(GraphSize - 1)
        BY <3>2, ConsoleAssumption DEF TypeOK
      <4>2. masCpuFree' = [masCpuFree EXCEPT ![i - 1] = masCpuFree[i]]
        BY <1>3, <3>2, <4>1, ConsoleAssumption DEF HookShift
      <4> QED BY <3>1, <4>1, <4>2
    <3>3. CASE i = GraphSize
      <4>1. masCpuFree' = [masCpuFree EXCEPT ![GraphSize - 1] = MPU_IDLE]
        BY <1>3, <3>3, ConsoleAssumption DEF HookShift
      <4> QED BY <3>1, <4>1
    <3> QED BY <1>3, <3>2, <3>3 DEF HookShift
  <2> QED BY <1>3, <2>1, <2>2 DEF HookShift, TypeOK, serverVars, consoleVars
<1> QED BY <1>1, <1>2, <1>3

\* A new second: the graph and the minimum lag behind by it.
LEMMA HookShareSoFar ==
  ASSUME TypeOK, HookSoFar, HookShare
  PROVE  HookSoFar'
<1>1. /\ hook = "count" /\ hook' = "minimum" /\ i = 1 /\ i' = 1
      /\ UNCHANGED <<MIN_MPU_FREE, masCpuFree>>
      /\ shares' = Append(shares, MPU_IDLE') /\ shares \in Seq(0..100)
  BY DEF HookShare, HookSoFar, TypeOK
<1>2. /\ Len(shares') = Len(shares) + 1 /\ shares'[Len(shares')] = MPU_IDLE'
      /\ \A s \in 1..Len(shares) : shares'[s] = shares[s]
  BY <1>1
<1>3. Shifted = Len(shares) /\ Shifted' = Len(shares) /\ Weighed = Len(shares) /\ Weighed' = Len(shares)
  BY <1>1, <1>2 DEF Shifted, Weighed
<1>4. ASSUME NEW j \in 0..(GraphSize - 1)
      PROVE  masCpuFree'[j] = Share(Shifted - GraphSize + j + IF j + 1 < i THEN 2 ELSE 1)'
  <2>1. ~(j + 1 < 1) /\ Len(shares) - GraphSize + j + 1 \in Int
        /\ Len(shares) - GraphSize + j + 1 <= Len(shares)
    BY <1>1, ConsoleAssumption
  <2>2. masCpuFree[j] = Share(Len(shares) - GraphSize + j + 1)
    BY <1>1, <1>3, <2>1 DEF HookSoFar
  <2>3. Share(Shifted - GraphSize + j + IF j + 1 < i THEN 2 ELSE 1)'
          = IF Len(shares) - GraphSize + j + 1 > 0 THEN shares'[Len(shares) - GraphSize + j + 1] ELSE 0
    BY <1>1, <1>3, <2>1 DEF Share
  <2>4. CASE Len(shares) - GraphSize + j + 1 > 0
    <3>1. Len(shares) - GraphSize + j + 1 \in 1..Len(shares)
      BY <2>1, <2>4
    <3>2. shares'[Len(shares) - GraphSize + j + 1] = shares[Len(shares) - GraphSize + j + 1]
      BY <1>2, <3>1
    <3>3. masCpuFree[j] = shares[Len(shares) - GraphSize + j + 1]
      BY <2>2, <2>4 DEF Share
    <3> QED BY <1>1, <2>3, <2>4, <3>2, <3>3
  <2>5. CASE ~(Len(shares) - GraphSize + j + 1 > 0)
    <3>1. masCpuFree[j] = 0
      BY <2>2, <2>5 DEF Share
    <3> QED BY <1>1, <2>3, <2>5, <3>1
  <2> QED BY <2>4, <2>5
<1>5. MIN_MPU_FREE' \in {shares'[s] : s \in 1..Weighed'} \union {100}
  <2>1. MIN_MPU_FREE \in {shares[s] : s \in 1..Len(shares)} \union {100}
    BY <1>3 DEF HookSoFar
  <2> QED BY <1>1, <1>2, <1>3, <2>1
<1>6. \A s \in 1..Weighed' : MIN_MPU_FREE' <= shares'[s]
  BY <1>1, <1>2, <1>3 DEF HookSoFar
<1>7. Len(shares') > 0
  BY <1>1, <1>2
<1> QED BY <1>1, <1>2, <1>4, <1>5, <1>6, <1>7 DEF HookSoFar

\* The minimum has caught up.
LEMMA HookMinimumSoFar ==
  ASSUME TypeOK, HookSoFar, HookMinimum
  PROVE  HookSoFar'
<1>1. /\ hook = "minimum" /\ hook' = "shift" /\ i = 1 /\ i' = 1
      /\ UNCHANGED <<MPU_IDLE, masCpuFree, shares>>
      /\ MIN_MPU_FREE' = IF MPU_IDLE < MIN_MPU_FREE THEN MPU_IDLE ELSE MIN_MPU_FREE
  BY DEF HookMinimum, HookSoFar
<1>2. Shifted' = Shifted /\ Weighed = Len(shares) - 1 /\ Weighed' = Len(shares) /\ Len(shares) \in Nat
  BY <1>1 DEF Shifted, Weighed, TypeOK
<1>3. /\ Len(shares) > 0 /\ MPU_IDLE = shares[Len(shares)]
      /\ \A s \in 1..Len(shares) : shares[s] \in 0..100
      /\ MPU_IDLE \in 0..100 /\ MIN_MPU_FREE \in 0..100
  <2>1. Len(shares) > 0 /\ MPU_IDLE = shares[Len(shares)]
    BY <1>1 DEF HookSoFar
  <2>2. shares \in Seq(0..100) /\ MPU_IDLE \in 0..100 /\ MIN_MPU_FREE \in 0..100
    BY DEF TypeOK
  <2>3. \A s \in 1..Len(shares) : shares[s] \in 0..100
    BY <2>2, ElementOfSeq
  <2> QED BY <2>1, <2>2, <2>3
<1>4. \A s \in 1..(Len(shares) - 1) : MIN_MPU_FREE <= shares[s]
  BY <1>2 DEF HookSoFar
<1>5. MIN_MPU_FREE' \in {shares'[s] : s \in 1..Weighed'} \union {100}
  <2>1. MIN_MPU_FREE \in {shares[s] : s \in 1..(Len(shares) - 1)} \union {100}
    BY <1>2 DEF HookSoFar
  <2>2. 1..(Len(shares) - 1) \subseteq 1..Len(shares) /\ Len(shares) \in 1..Len(shares)
    BY <1>2, <1>3
  <2> QED BY <1>1, <1>2, <1>3, <2>1, <2>2
<1>6. ASSUME NEW s \in 1..Len(shares) PROVE MIN_MPU_FREE' <= shares[s]
  <2>1. s \in 1..(Len(shares) - 1) \/ s = Len(shares)
    BY <1>2
  <2>2. MIN_MPU_FREE' <= MPU_IDLE /\ MIN_MPU_FREE' <= MIN_MPU_FREE /\ MIN_MPU_FREE' \in Int
    BY <1>1, <1>3
  <2>3. shares[s] \in Int /\ MIN_MPU_FREE \in Int
    <3>1. shares[s] \in 0..100 /\ MIN_MPU_FREE \in 0..100
      BY <1>3
    <3>2. 0..100 \subseteq Int
      OBVIOUS
    <3> QED BY <3>1, <3>2
  <2>4. CASE s \in 1..(Len(shares) - 1)
    <3>1. MIN_MPU_FREE <= shares[s]
      BY <1>4, <2>4
    <3> QED BY <2>2, <2>3, <3>1
  <2>5. CASE s = Len(shares)
    BY <1>3, <2>2, <2>5
  <2> QED BY <2>1, <2>4, <2>5
<1>7. \A j \in 0..(GraphSize - 1) :
        masCpuFree'[j] = Share(Shifted - GraphSize + j + IF j + 1 < i THEN 2 ELSE 1)'
  BY <1>1, <1>2 DEF HookSoFar, Share
<1> QED BY <1>1, <1>2, <1>3, <1>5, <1>6, <1>7 DEF HookSoFar

\* The shift: every place that was passed holds the second after the one it held.
LEMMA HookShiftSoFar ==
  ASSUME TypeOK, HookSoFar, HookShift
  PROVE  HookSoFar'
<1>1. /\ hook = "shift" /\ Len(shares) > 0 /\ MPU_IDLE = shares[Len(shares)]
      /\ UNCHANGED <<MPU_IDLE, MIN_MPU_FREE, shares>> /\ Len(shares) \in Nat
      /\ i \in 1..GraphSize /\ GraphSize \in Nat /\ GraphSize > 1
      /\ masCpuFree \in [0..(GraphSize - 1) -> 0..100]
  BY ConsoleAssumption DEF HookShift, HookSoFar, TypeOK
<1> DEFINE n == Len(shares)
<1>2. Shifted = n - 1 /\ Weighed = n /\ hook' \in {"shift", "count"} /\ Weighed' = n
  BY <1>1 DEF Shifted, Weighed, HookShift
<1>3. \A s \in Int : Share(s)' = Share(s)
  BY <1>1 DEF Share
<1>4. \A j \in 0..(GraphSize - 1) :
        masCpuFree[j] = Share(n - 1 - GraphSize + j + IF j + 1 < i THEN 2 ELSE 1)
  BY <1>2 DEF HookSoFar
<1>5. CASE i < GraphSize
  <2>1. /\ masCpuFree' = [masCpuFree EXCEPT ![i - 1] = masCpuFree[i]]
        /\ i' = i + 1 /\ hook' = "shift"
    BY <1>1, <1>5 DEF HookShift
  <2>2. Shifted' = n - 1
    BY <1>1, <2>1 DEF Shifted
  <2>3. ASSUME NEW j \in 0..(GraphSize - 1)
        PROVE  masCpuFree'[j] = Share(n - 1 - GraphSize + j + IF j + 1 < i + 1 THEN 2 ELSE 1)
    <3>1. CASE j = i - 1
      <4>1. i \in 0..(GraphSize - 1) /\ ~(i + 1 < i) /\ j + 1 < i + 1 /\ j \in Int
        BY <1>1, <1>5, <3>1
      <4>2. masCpuFree'[j] = masCpuFree[i]
        BY <1>1, <2>1, <3>1
      <4>3. masCpuFree[i] = Share(n - 1 - GraphSize + i + 1)
        BY <1>4, <4>1
      <4>4. n - 1 - GraphSize + i + 1 = n - 1 - GraphSize + j + 2
        BY <1>1, <3>1
      <4> QED BY <4>1, <4>2, <4>3, <4>4
    <3>2. CASE j # i - 1
      <4>1. (j + 1 < i + 1) <=> (j + 1 < i)
        BY <1>1, <3>2
      <4>2. masCpuFree'[j] = masCpuFree[j]
        BY <1>1, <2>1, <3>2
      <4> QED BY <1>4, <4>1, <4>2
    <3> QED BY <3>1, <3>2
  <2>4. ASSUME NEW j \in 0..(GraphSize - 1)
        PROVE  masCpuFree'[j] = Share(Shifted - GraphSize + j + IF j + 1 < i THEN 2 ELSE 1)'
    <3>1. Share(Shifted - GraphSize + j + IF j + 1 < i THEN 2 ELSE 1)'
            = Share(n - 1 - GraphSize + j + IF j + 1 < i + 1 THEN 2 ELSE 1)
      BY <1>1, <2>1, <2>2 DEF Share
    <3> QED BY <2>3, <3>1
  <2> QED BY <1>1, <1>2, <2>1, <2>4 DEF HookSoFar
<1>6. CASE i = GraphSize
  <2>1. /\ masCpuFree' = [masCpuFree EXCEPT ![GraphSize - 1] = MPU_IDLE]
        /\ hook' = "count" /\ i' = 1
    BY <1>1, <1>6 DEF HookShift
  <2>2. Shifted' = n
    BY <1>1, <2>1 DEF Shifted
  <2>3. ASSUME NEW j \in 0..(GraphSize - 1)
        PROVE  masCpuFree'[j] = Share(n - GraphSize + j + 1)
    <3>1. CASE j = GraphSize - 1
      <4>1. masCpuFree'[j] = shares[n]
        BY <1>1, <2>1, <3>1
      <4>2. n - GraphSize + j + 1 = n /\ n > 0
        BY <1>1, <3>1
      <4> QED BY <4>1, <4>2 DEF Share
    <3>2. CASE j # GraphSize - 1
      <4>1. j + 1 < i /\ n - 1 - GraphSize + j + 2 = n - GraphSize + j + 1
        BY <1>1, <1>6, <3>2
      <4>2. masCpuFree'[j] = masCpuFree[j]
        BY <1>1, <2>1, <3>2
      <4> QED BY <1>4, <4>1, <4>2
    <3> QED BY <3>1, <3>2
  <2>4. ASSUME NEW j \in 0..(GraphSize - 1)
        PROVE  masCpuFree'[j] = Share(Shifted - GraphSize + j + IF j + 1 < i THEN 2 ELSE 1)'
    <3>1. ~(j + 1 < 1)
      OBVIOUS
    <3>2. Share(Shifted - GraphSize + j + IF j + 1 < i THEN 2 ELSE 1)' = Share(n - GraphSize + j + 1)
      BY <1>1, <2>1, <2>2, <3>1 DEF Share
    <3> QED BY <2>3, <3>2
  <2> QED BY <1>1, <1>2, <2>1, <2>4 DEF HookSoFar
<1> QED BY <1>5, <1>6 DEF HookShift

LEMMA IdleInv ==
  ASSUME IInv, Idle
  PROVE  IInv'
<1>1. UNCHANGED <<boot, serverVars, semaforeAbonent, recyveData, consoleVars, typed>>
  BY DEF Idle
<1>2. TypeOK'
  BY IdleTypes DEF IInv
<1>3. StartsInOrder'
  <2>1. Len(shares') >= Len(shares) /\ Len(shares) \in Nat /\ Len(shares') \in Nat
    BY DEF IInv, TypeOK, Idle, HookShare, HookMinimum, HookShift
  <2> QED BY <1>1, <2>1 DEF IInv, StartsInOrder, serverVars, consoleVars
<1>4. NoKeyLost'
  BY <1>1 DEF IInv, NoKeyLost, KeysOnTheirWay, serverVars, consoleVars
<1>5. HookSoFar'
  BY HookShareSoFar, HookMinimumSoFar, HookShiftSoFar DEF IInv, Idle
<1>6. PrintedStands'
  <2>1. console \notin {"CPU_Gra", "CPU_Idle"}
    BY DEF Idle, IdleTurn, ConsoleReady, IInv, StartsInOrder
  <2> QED BY <1>1, <2>1 DEF PrintedStands, consoleVars
<1> QED BY <1>2, <1>3, <1>4, <1>5, <1>6 DEF IInv

-----------------------------------------------------------------------------
THEOREM Invariance == Spec => []IInv
<1>1. Init => IInv
  BY InitInv
<1>2. IInv /\ [Next]_vars => IInv'
  <2> SUFFICES ASSUME IInv, [Next]_vars PROVE IInv'
    OBVIOUS
  <2>1. CASE Next
    BY <2>1, BootInv, ServerInv, ConsoleInv, IdleInv DEF Next
  <2>2. CASE UNCHANGED vars
    <3>1. UNCHANGED <<boot, serverVars, semaforeAbonent, recyveData, consoleVars, idleVars, typed>>
      BY <2>2 DEF vars
    <3>2. TypeOK'
      BY <3>1 DEF IInv, TypeOK, serverVars, consoleVars, idleVars
    <3>3. StartsInOrder' /\ NoKeyLost'
      BY <3>1 DEF IInv, StartsInOrder, NoKeyLost, KeysOnTheirWay, serverVars, consoleVars, idleVars
    <3> QED BY <3>1, <3>2, <3>3, HookFrame, PrintedFrame DEF IInv
  <2> QED BY <2>1, <2>2
<1> QED BY <1>1, <1>2, PTL DEF Spec

\* The variables keep their types, and the share of idle time is a percentage: the
\* division by the largest count so far neither fails nor exceeds 100.
THEOREM TypeCorrect == Spec => []TypeOK
<1>1. IInv => TypeOK
  BY DEF IInv
<1> QED BY <1>1, Invariance, PTL

\* No key is lost, doubled or put out of order between client and line editor.
THEOREM KeysNotLost == Spec => []NoKeyLost
<1>1. IInv => NoKeyLost
  BY DEF IInv
<1> QED BY <1>1, Invariance, PTL

\* The idle task does not run while CPU_Gra prints, and what it left is a graph of one
\* moment with at most one second standing twice.
THEOREM GraphOfOneMoment == Spec => []GraphIsOfOneMoment
<1>1. IInv => GraphIsOfOneMoment
  <2> SUFFICES ASSUME IInv, console = "CPU_Gra"
               PROVE  \E moved \in 0..(GraphSize - 1) :
                        \E n \in (Len(shares) - (IF hook = "count" THEN 0 ELSE 1))..Len(shares) :
                          /\ moved > 0 => n < Len(shares)
                          /\ \A f \in DOMAIN printed :
                               printed[f] = GraphAt(n, moved)[((f - 1) % GraphSize) + 1]
    BY DEF GraphIsOfOneMoment
  <2>1. /\ Len(shares) \in Nat /\ i \in 1..GraphSize /\ GraphSize \in Nat
        /\ DOMAIN printed \subseteq Int
    BY ConsoleAssumption DEF IInv, TypeOK
  <2>2. /\ Shifted \in (Len(shares) - (IF hook = "count" THEN 0 ELSE 1))..Len(shares)
        /\ i - 1 > 0 => Shifted < Len(shares)
        /\ i - 1 \in 0..(GraphSize - 1)
        /\ Shifted \in Int
    BY <2>1 DEF Shifted, IInv, HookSoFar
  <2>3. ASSUME NEW f \in DOMAIN printed
        PROVE  printed[f] = GraphAt(Shifted, i - 1)[((f - 1) % GraphSize) + 1]
    <3> DEFINE j == (f - 1) % GraphSize
    <3>0. f - 1 \in Int
      BY <2>1
    <3>1. j \in 0..(GraphSize - 1)
      BY <3>0, PlaceInGraph
    <3>2. printed[f] = masCpuFree[j]
      BY DEF IInv, PrintedStands, Figure
    <3> HIDE DEF j
    <3>3. masCpuFree[j] = Share(Shifted - GraphSize + j + IF j + 1 < i THEN 2 ELSE 1)
      BY <3>1 DEF IInv, HookSoFar
    <3>4. j + 1 \in 1..GraphSize
      BY <2>1, <3>1
    <3>5. GraphAt(Shifted, i - 1)[j + 1]
            = Share(Shifted - GraphSize + (j + 1) + (IF j + 1 <= i - 1 THEN 1 ELSE 0))
      BY <3>4 DEF GraphAt
    <3>6. Shifted - GraphSize + (j + 1) + (IF j + 1 <= i - 1 THEN 1 ELSE 0)
            = Shifted - GraphSize + j + IF j + 1 < i THEN 2 ELSE 1
      BY <2>1, <2>2, <3>1
    <3> QED BY <3>2, <3>3, <3>5, <3>6 DEF j
  <2> QED BY <2>2, <2>3
<1> QED BY <1>1, Invariance, PTL

\* What CPU_Idle prints is one share and one minimum, though the idle task may have been
\* stopped between the two.
THEOREM FiguresOfOneMoment == Spec => []FiguresAgree
<1>1. IInv => FiguresAgree
  <2> SUFFICES ASSUME IInv, console = "CPU_Idle"
               PROVE  \E n \in {Len(shares) - 1, Len(shares)} :
                        \A f \in DOMAIN printed :
                          printed[f] = IF f <= 3 THEN Last(shares)
                                       ELSE Min({shares[s] : s \in 1..n} \union {100})
    BY DEF FiguresAgree
  <2>1. boot = "gone" /\ Len(shares) >= 2 /\ shares \in Seq(0..100) /\ Len(shares) \in Nat
    BY DEF IInv, StartsInOrder, TypeOK
  <2>2. Weighed \in {Len(shares) - 1, Len(shares)}
    BY <2>1 DEF Weighed
  <2>3. MPU_IDLE = Last(shares)
    BY <2>1 DEF IInv, HookSoFar, Last
  <2>4. MIN_MPU_FREE = Min({shares[s] : s \in 1..Weighed} \union {100})
    <3> DEFINE S == {shares[s] : s \in 1..Weighed} \union {100}
    <3>1. S \in SUBSET Int
      BY <2>1, <2>2
    <3>2. MIN_MPU_FREE \in S /\ \A y \in S : MIN_MPU_FREE <= y
      BY DEF IInv, HookSoFar, TypeOK
    <3> QED BY <3>1, <3>2, MinIs
  <2>5. \A f \in DOMAIN printed : printed[f] = IF f <= 3 THEN MPU_IDLE ELSE MIN_MPU_FREE
    BY DEF IInv, PrintedStands, Figure
  <2> QED BY <2>2, <2>3, <2>4, <2>5
<1> QED BY <1>1, Invariance, PTL
=============================================================================

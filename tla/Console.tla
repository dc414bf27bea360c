-------------------------------- MODULE Console --------------------------------
(***************************************************************************)
(* The console task of microrlthead.c between the telnet server, which     *)
(* feeds it keys, and the idle task of main.c, whose figures its commands  *)
(* print; and resumAllTask, which lets nobody but the idle task run at     *)
(* first.  Server and console have one priority and share the processor by *)
(* slices of time; the idle task runs when neither is ready.  Of the keys  *)
(* only those matter that end the line of a command which reads what the   *)
(* idle task writes; the line editor itself is Microrl.                    *)
(***************************************************************************)
EXTENDS Integers, SequencesExt, FiniteSetsExt

CONSTANTS
  QueueLength,   \* SIZE_MICRORL_QUEUE
  GraphSize,     \* SIZE_CPU_FREE
  Rows,          \* rows of the graph that CPU_Gra prints, Y_MAS + 1
  Counts,        \* how often the idle task may run in a second
  MaxKeys,       \* keys typed in a behaviour
  MaxSeconds     \* seconds it lasts

ASSUME ConsoleAssumption ==
  /\ QueueLength \in Nat \ {0} /\ GraphSize \in Nat \ {0, 1} /\ Rows \in Nat \ {0}
  /\ Counts \subseteq Nat \ {0}
  /\ MaxKeys \in Nat /\ MaxSeconds \in Nat

VARIABLES
  boot,              \* where resumAllTask stands: "suspend", "delay", "gone"
  \* the telnet server
  server, key,
  \* microrlthead.c
  semaforeAbonent,   \* "NULL", "taken" or "free"
  recyveData,
  console,           \* where taskMicroRl stands
  printed,           \* the figures the command that runs has read so far
  \* main.c
  hook, i,           \* where vApplicationIdleHook stands
  max_count, MPU_IDLE, MIN_MPU_FREE, masCpuFree,
  \* ghosts
  typed, handled,    \* keys the clients typed, keys microrl_insert_char was given
  shares             \* the shares of idle time of all seconds

serverVars == <<server, key>>
consoleVars == <<console, printed, handled>>
idleVars == <<hook, i, max_count, MPU_IDLE, MIN_MPU_FREE, masCpuFree, shares>>
vars == <<boot, serverVars, semaforeAbonent, recyveData, consoleVars, idleVars, typed>>

Keys == {"letter", "CPU_Gra", "CPU_Idle"}

TypeOK ==
  /\ boot \in {"suspend", "delay", "gone"}
  /\ server \in {"delay", "recv", "take", "send", "give"} /\ key \in Keys
  /\ semaforeAbonent \in {"NULL", "taken", "free"}
  /\ recyveData \in Seq(Keys) /\ Len(recyveData) <= QueueLength
  /\ console \in {"semaphore", "give", "queue", "receive", "CPU_Gra", "CPU_Idle"}
  /\ printed \in Seq(0..100)
  /\ hook \in {"count", "minimum", "shift"} /\ i \in 1..GraphSize
  /\ max_count \in Nat /\ MPU_IDLE \in 0..100 /\ MIN_MPU_FREE \in 0..100
  /\ masCpuFree \in [0..(GraphSize - 1) -> 0..100]
  /\ typed \in Seq(Keys) /\ handled \in Seq(Keys) /\ shares \in Seq(0..100)

Init ==
  /\ boot = "suspend"
  /\ server = "delay" /\ key = "letter"
  /\ semaforeAbonent = "NULL" /\ recyveData = <<>>
  /\ console = "semaphore" /\ printed = <<>>
  /\ hook = "count" /\ i = 1
  /\ max_count = 0 /\ MPU_IDLE = 100 /\ MIN_MPU_FREE = 100
  /\ masCpuFree = [j \in 0..(GraphSize - 1) |-> 0]
  /\ typed = <<>> /\ handled = <<>> /\ shares = <<>>

-------------------------------------------------------------------------------
\* Who may run.  A suspended task is not ready, nor one that waits.
ConsoleReady == boot = "gone" /\ ~(console = "receive" /\ recyveData = <<>>)
ServerReady == /\ boot = "gone"
               /\ \/ server = "take" /\ semaforeAbonent = "free"
                  \/ server = "send" /\ Len(recyveData) < QueueLength
                  \/ server = "give"
IdleTurnAlways == boot # "suspend"
IdleTurn == boot # "suspend" /\ ~ConsoleReady /\ ~ServerReady

-------------------------------------------------------------------------------
\* resumAllTask has the highest priority: it suspends the other tasks before they run,
\* sleeps for 2200 ms, in which the idle task sees two whole seconds, resumes them and
\* deletes itself.
Suspend == /\ boot = "suspend" /\ boot' = "delay"
           /\ UNCHANGED <<serverVars, semaforeAbonent, recyveData, consoleVars, idleVars, typed>>
Resume == /\ boot = "delay" /\ Len(shares) = 2 /\ hook = "count" /\ boot' = "gone"
          /\ UNCHANGED <<serverVars, semaforeAbonent, recyveData, consoleVars, idleVars, typed>>

-------------------------------------------------------------------------------
\* The server sleeps for 500 ticks, time enough for the console to come to its queue.
ServerStarts == /\ server = "delay" /\ boot = "gone" /\ ~ConsoleReady
                /\ server' = "recv"
                /\ UNCHANGED <<boot, key, semaforeAbonent, recyveData, consoleVars, idleVars, typed>>

\* A key arrives from the client: telNetConsole and recymeMas.
KeyArrives == /\ server = "recv" /\ Len(typed) < MaxKeys
              /\ \E k \in Keys : key' = k /\ typed' = Append(typed, k)
              /\ server' = "take"
              /\ UNCHANGED <<boot, semaforeAbonent, recyveData, consoleVars, idleVars>>

Take == /\ server = "take" /\ semaforeAbonent = "free"
        /\ semaforeAbonent' = "taken"
        /\ server' = "send"
        /\ UNCHANGED <<boot, key, recyveData, consoleVars, idleVars, typed>>

\* recyveDat waits for ever for a place in the queue.
SendNoWait ==
  /\ server = "send"
  /\ recyveData' = IF Len(recyveData) < QueueLength THEN Append(recyveData, key) ELSE recyveData
  /\ server' = "give"
  /\ UNCHANGED <<boot, key, semaforeAbonent, consoleVars, idleVars, typed>>
SendAnyway == /\ server = "send" /\ recyveData' = Append(recyveData, key)
              /\ server' = "give"
              /\ UNCHANGED <<boot, key, semaforeAbonent, consoleVars, idleVars, typed>>
Send == /\ server = "send" /\ Len(recyveData) < QueueLength
        /\ recyveData' = Append(recyveData, key)
        /\ server' = "give"
        /\ UNCHANGED <<boot, key, semaforeAbonent, consoleVars, idleVars, typed>>

GiveForgotten == /\ server = "give" /\ server' = "recv"
                 /\ UNCHANGED <<boot, key, semaforeAbonent, recyveData, consoleVars, idleVars, typed>>
Give == /\ server = "give"
        /\ semaforeAbonent' = "free"
        /\ server' = "recv"
        /\ UNCHANGED <<boot, key, recyveData, consoleVars, idleVars, typed>>

Server == ServerStarts \/ Take \/ Send \/ Give

-------------------------------------------------------------------------------
\* taskMicroRl until its loop
CreateSemaphore == /\ console = "semaphore" /\ console' = "give"
                   /\ semaforeAbonent' = "taken"
                   /\ UNCHANGED recyveData
GiveFirst == /\ console = "give" /\ console' = "queue"
             /\ semaforeAbonent' = "free"
             /\ UNCHANGED recyveData
CreateQueue == /\ console = "queue" /\ console' = "receive"
               /\ recyveData' = <<>>
               /\ UNCHANGED semaforeAbonent

\* A key is taken; the editor handles it at once, or begins a command.
Receive == /\ console = "receive" /\ recyveData # <<>>
           /\ recyveData' = Tail(recyveData)
           /\ handled' = Append(handled, Head(recyveData))
           /\ console' = IF Head(recyveData) = "letter" THEN "receive" ELSE Head(recyveData)
           /\ printed' = <<>>
           /\ UNCHANGED semaforeAbonent

\* print_MAS_CPU reads the whole graph for every row; print_CPU_FREE the share for its
\* colour, for itself and for what is left of 100, and the minimum likewise.
Figures == IF console = "CPU_Gra" THEN Rows * GraphSize ELSE 6
Figure(n) == IF console = "CPU_Gra" THEN masCpuFree[(n - 1) % GraphSize]
             ELSE IF n <= 3 THEN MPU_IDLE ELSE MIN_MPU_FREE

PrintFigure == /\ console \in {"CPU_Gra", "CPU_Idle"}
               /\ IF Len(printed) < Figures
                  THEN printed' = Append(printed, Figure(Len(printed) + 1)) /\ UNCHANGED console
                  ELSE printed' = <<>> /\ console' = "receive"
               /\ UNCHANGED <<semaforeAbonent, recyveData, handled>>

Console == /\ boot = "gone"
           /\ \/ (CreateSemaphore \/ GiveFirst \/ CreateQueue) /\ UNCHANGED <<printed, handled>>
              \/ Receive
              \/ PrintFigure
           /\ UNCHANGED <<boot, serverVars, idleVars, typed>>

-------------------------------------------------------------------------------
\* vApplicationIdleHook when a second is over.  count and max_count are its own; the
\* share, the minimum and the graph are read by the console.
HookShare == /\ hook = "count" /\ Len(shares) < MaxSeconds
             /\ boot = "delay" => Len(shares) < 2
             /\ \E count \in Counts :
                  /\ max_count' = IF count > max_count THEN count ELSE max_count
                  /\ MPU_IDLE' = (100 * count) \div max_count'
             /\ shares' = Append(shares, MPU_IDLE')
             /\ hook' = "minimum"
             /\ UNCHANGED <<i, MIN_MPU_FREE, masCpuFree>>
HookMinimum == /\ hook = "minimum"
               /\ MIN_MPU_FREE' = IF MPU_IDLE < MIN_MPU_FREE THEN MPU_IDLE ELSE MIN_MPU_FREE
               /\ hook' = "shift" /\ i' = 1
               /\ UNCHANGED <<max_count, MPU_IDLE, masCpuFree, shares>>
HookShiftUp == /\ hook = "shift"
               /\ \/ /\ i < GraphSize
                     /\ masCpuFree' = [masCpuFree EXCEPT ![i] = masCpuFree[i - 1]]
                     /\ i' = i + 1 /\ UNCHANGED hook
                  \/ /\ i = GraphSize
                     /\ masCpuFree' = [masCpuFree EXCEPT ![GraphSize - 1] = MPU_IDLE]
                     /\ hook' = "count" /\ i' = 1
               /\ UNCHANGED <<max_count, MPU_IDLE, MIN_MPU_FREE, shares>>
HookShift == /\ hook = "shift"
             /\ \/ /\ i < GraphSize
                   /\ masCpuFree' = [masCpuFree EXCEPT ![i - 1] = masCpuFree[i]]
                   /\ i' = i + 1 /\ UNCHANGED hook
                \/ /\ i = GraphSize
                   /\ masCpuFree' = [masCpuFree EXCEPT ![GraphSize - 1] = MPU_IDLE]
                   /\ hook' = "count" /\ i' = 1
             /\ UNCHANGED <<max_count, MPU_IDLE, MIN_MPU_FREE, shares>>

Idle == /\ IdleTurn
        /\ HookShare \/ HookMinimum \/ HookShift
        /\ UNCHANGED <<boot, serverVars, semaforeAbonent, recyveData, consoleVars, typed>>

Next == Suspend \/ Resume \/ KeyArrives \/ Server \/ Console \/ Idle

\* Slices of time run server and console in turn; the idle task always runs on.
Fairness == /\ WF_vars(Suspend \/ Resume)
            /\ WF_vars(Server) /\ WF_vars(Console) /\ WF_vars(Idle)

Spec == Init /\ [][Next]_vars /\ Fairness

-------------------------------------------------------------------------------
\* Every key typed was handled, in its order, or is still on its way: nothing is lost
\* or doubled while the queue is full and the console is in a command.
KeysOnTheirWay == recyveData \o IF server \in {"take", "send"} THEN <<key>> ELSE <<>>
NoKeyLost == typed = handled \o KeysOnTheirWay

\* What CPU_Gra prints is the graph of one moment, though it reads it again for every
\* row and the server runs in between: the shares of the last seconds, but that the
\* idle task may have been stopped in its shift, with one of them standing twice and
\* the newest (or the oldest before it) missing.
Share(s) == IF s > 0 THEN shares[s] ELSE 0
GraphAt(n, moved) == [j \in 1..GraphSize |->
                        Share(n - GraphSize + j + (IF j <= moved THEN 1 ELSE 0))]
GraphIsOfOneMoment ==
  console = "CPU_Gra" =>
    \E moved \in 0..(GraphSize - 1) :
      \E n \in (Len(shares) - (IF hook = "count" THEN 0 ELSE 1))..Len(shares) :
        /\ moved > 0 => n < Len(shares)
        /\ \A f \in DOMAIN printed : printed[f] = GraphAt(n, moved)[((f - 1) % GraphSize) + 1]

\* What CPU_Idle prints agrees with itself: one share throughout, that of the last
\* second; one minimum throughout, which is behind by that second at most.
FiguresAgree ==
  console = "CPU_Idle" =>
    \E n \in {Len(shares) - 1, Len(shares)} :
      \A f \in DOMAIN printed :
        printed[f] = IF f <= 3 THEN Last(shares)
                     ELSE Min({shares[s] : s \in 1..n} \union {100})

\* Every key is handled in the end, and its command comes to an end: the server cannot
\* be left in a full queue, nor the console without keys that were typed.
EveryKeyIsHandled ==
  \A n \in 1..MaxKeys : Len(typed) >= n ~> Len(handled) >= n /\ console = "receive"
=============================================================================

----------------------------- MODULE RtosQueue ------------------------------
(***************************************************************************)
(* A FreeRTOS queue with the tasks and the interrupt handler that use it   *)
(* (FreeRTOS/queue.c, FreeRTOS/tasks.c).  A call that cannot proceed       *)
(* leaves its critical section, suspends the scheduler, locks the queue    *)
(* and only then puts itself on an event list; interrupts come at any      *)
(* point of this.  While the queue is locked the handler leaves the lists  *)
(* alone and counts its posts, and the unlocker wakes tasks in its stead.  *)
(* Ticks wrap at TickMod, as those of the 32 bit counter do, and the       *)
(* largest tick count means to wait for ever.                              *)
(*                                                                         *)
(* The handler of this firmware only sends (sio.c:80), and it passes       *)
(* pdTRUE where a flag is expected, so a task that it wakes runs at the    *)
(* next tick or switch and not when the interrupt returns.                 *)
(***************************************************************************)
EXTENDS Integers, Sequences, FiniteSets

CONSTANTS Sender, Receiver,    \* tasks that send, tasks that receive
          Isr,                 \* the interrupt handler, as a sender of items
          Idle,                \* the idle task: always ready, lowest priority
          Prio,                \* [Task \cup {Idle} -> Nat]
          Waits,               \* [Task -> block times it calls with]; a sender of this
                               \* firmware waits not at all or for ever
          Busy,                \* tasks that wait for other things between calls
          QueueLength,         \* uxLength
          TickMod,             \* number of values of TickType_t
          LockMax              \* bound: posts during one locked section

Task == Sender \cup Receiver
Forever == TickMod - 1         \* portMAX_DELAY
Unlocked == -1                 \* queueUNLOCKED
Unmodified == 0                \* queueLOCKED_UNMODIFIED
Lists == {"no", "current", "overflow", "forever"}
Points == {"out", "elsewhere", "test", "suspend", "lock", "check", "blocked", "place",
           "unlock", "resume", "yield", "last"}

ASSUME QueueAssumption ==
  /\ IsFiniteSet(Sender) /\ IsFiniteSet(Receiver)
  /\ Sender \cap Receiver = {} /\ Isr \notin Task /\ Idle \notin Task
  /\ Prio \in [Task \cup {Idle} -> Nat] /\ \A t \in Task : Prio[t] > Prio[Idle]
  /\ QueueLength \in Nat \ {0} /\ LockMax \in Nat
  /\ TickMod \in Nat \ {0, 1} /\ Waits \in [Task -> SUBSET (0..Forever)]
  /\ \A t \in Sender : Waits[t] \subseteq {0, Forever}
  /\ Busy \subseteq Task

VARIABLES
  store, rd, wr, messages,     \* the ring: pcReadFrom, pcWriteTo, uxMessagesWaiting
  cTxLock,                     \* posts since the queue was locked, or Unlocked
  waitingToReceive, waitingToSend,  \* the event lists, as sets
  cur, ready, suspended, pendingReady, yieldPending,
  tick, pendedTick,            \* at most one tick falls in a locked section (bound)
  ticked,                      \* bound: the task that runs takes a step between two ticks
  delayed,                     \* which delayed list a task is on, and its wake time
  pc, ticksToWait, entryTimeSet, timeOut, verdict,  \* locals of a call
  asked, waited                \* history: block time of the call, ticks since it was noted

ring == <<store, rd, wr, messages>>
events == <<waitingToReceive, waitingToSend>>
sched == <<cur, ready, suspended, pendingReady, yieldPending>>
clock == <<tick, pendedTick, delayed>>
locals == <<ticksToWait, entryTimeSet, timeOut, verdict>>
history == <<asked, waited>>
vars == <<ring, cTxLock, events, sched, clock, ticked, pc, locals, history>>

-----------------------------------------------------------------------------
\* Mutant: the end of the storage area passed by one.
AfterTooFar(i) == IF i + 1 > QueueLength THEN 0 ELSE i + 1

\* The storage area: the slot after i, and the two copies.
After(i) == IF i + 1 >= QueueLength THEN 0 ELSE i + 1

\* Mutant: the item goes to the front, as xQueueSendToFront puts it.
CopyDataToFront(item) ==
  /\ store' = [store EXCEPT ![rd] = item]
  /\ rd' = (IF rd = 0 THEN QueueLength - 1 ELSE rd - 1) /\ messages' = messages + 1 /\ UNCHANGED wr

CopyDataToQueue(item) ==
  /\ store' = [store EXCEPT ![wr] = item]
  /\ wr' = After(wr) /\ messages' = messages + 1 /\ UNCHANGED rd

CopyDataFromQueue ==
  /\ rd' = After(rd) /\ messages' = messages - 1 /\ UNCHANGED <<store, wr>>

\* Tasks of the highest priority in a set; which of several equals comes first is left open.
Top(S) == {t \in S : \A u \in S : Prio[u] <= Prio[t]}

\* The tasks that n removals from the head of an event list take off it.
Heads(list, n) ==
  {W \in SUBSET list : /\ Cardinality(W) = (IF n < Cardinality(list) THEN n ELSE Cardinality(list))
                       /\ \A t \in W, u \in list \ W : Prio[u] <= Prio[t]}

\* A task on no delayed list.
Awake == [list |-> "no", wake |-> 0]

\* Mutant: with the scheduler suspended the task is taken off the event list only.
MakeReadyLater(W) ==
  IF suspended THEN UNCHANGED <<pendingReady, ready, delayed>>
  ELSE /\ ready' = ready \cup W
       /\ delayed' = [t \in Task |-> IF t \in W THEN Awake ELSE delayed[t]]
       /\ UNCHANGED pendingReady

\* xTaskRemoveFromEventList, apart from the list itself.
MakeReady(W) ==
  IF suspended
  THEN pendingReady' = pendingReady \cup W /\ UNCHANGED <<ready, delayed>>
  ELSE /\ ready' = ready \cup W
       /\ delayed' = [t \in Task |-> IF t \in W THEN Awake ELSE delayed[t]]
       /\ UNCHANGED pendingReady

Outranks(W) == \E t \in W : Prio[t] > Prio[cur]

\* vTaskSwitchContext with the scheduler running.
SwitchContext(R) == cur' \in Top(R) /\ yieldPending' = FALSE

\* The task running goes on, or another does if it must yield.
GoOn(mustYield, R) == IF mustYield THEN SwitchContext(R) ELSE UNCHANGED <<cur, yieldPending>>

\* Sums and differences of two tick counts, in the width of TickType_t.
Wrap(n) == IF n >= TickMod THEN n - TickMod ELSE IF n < 0 THEN n + TickMod ELSE n

\* xTaskIncrementTick with the scheduler running: lists d and ready tasks R age one tick.
NextTick == Wrap(tick + 1)
\* Mutant: the lists are not exchanged when the count wraps.
SwitchedNever(d) == d

Switched(d) == [t \in Task |-> IF NextTick = 0 /\ d[t].list = "overflow"
                               THEN [d[t] EXCEPT !.list = "current"] ELSE d[t]]
Due(d) == {t \in Task : Switched(d)[t].list = "current" /\ d[t].wake <= NextTick}
IncrementTick(d, R) ==
  /\ tick' = NextTick
  /\ delayed' = [t \in Task |-> IF t \in Due(d) THEN Awake ELSE Switched(d)[t]]
  /\ ready' = R \cup Due(d)
  /\ waitingToReceive' = waitingToReceive \ Due(d)
  /\ waitingToSend' = waitingToSend \ Due(d)
  /\ timeOut' = [t \in Task |-> [timeOut[t] EXCEPT !.overflowed = @ \/ (NextTick = 0 /\ entryTimeSet[t])]]

TickSwitches(d, R) ==
  \/ \E t \in Due(d) : Prio[t] >= Prio[cur]
  \/ Cardinality({t \in R \cup Due(d) : Prio[t] = Prio[cur]}) > 1

NoTime == [time |-> 0, overflowed |-> FALSE]

Init ==
  /\ store = [i \in 0..QueueLength - 1 |-> Isr]
  /\ rd = QueueLength - 1 /\ wr = 0 /\ messages = 0
  /\ cTxLock = Unlocked
  /\ waitingToReceive = {} /\ waitingToSend = {}
  /\ ready = Task \cup {Idle} /\ cur \in Top(ready)
  /\ suspended = FALSE /\ pendingReady = {} /\ yieldPending = FALSE
  /\ tick = 0 /\ pendedTick = FALSE /\ ticked = FALSE
  /\ delayed = [t \in Task |-> Awake]
  /\ pc = [t \in Task |-> "out"]
  /\ ticksToWait = [t \in Task |-> 0] /\ entryTimeSet = [t \in Task |-> FALSE]
  /\ timeOut = [t \in Task |-> NoTime] /\ verdict = [t \in Task |-> "again"]
  /\ asked = [t \in Task |-> 0] /\ waited = [t \in Task |-> 0]

-----------------------------------------------------------------------------
\* The task that runs is at p.
At(t, p) == cur = t /\ pc[t] = p
Goto(t, p) == pc' = [pc EXCEPT ![t] = p]

\* The locals of a call end with it.
Return(t) ==
  /\ Goto(t, "out")
  /\ entryTimeSet' = [entryTimeSet EXCEPT ![t] = FALSE]
  /\ timeOut' = [timeOut EXCEPT ![t] = NoTime]
  /\ ticksToWait' = [ticksToWait EXCEPT ![t] = 0]
  /\ verdict' = [verdict EXCEPT ![t] = "again"]
  /\ asked' = [asked EXCEPT ![t] = 0] /\ waited' = [waited EXCEPT ![t] = 0]

Call(t) ==
  /\ At(t, "out") /\ Goto(t, "test")
  /\ \E w \in Waits[t] :
       /\ ticksToWait' = [ticksToWait EXCEPT ![t] = w]
       /\ asked' = [asked EXCEPT ![t] = w]
  /\ UNCHANGED <<ring, cTxLock, events, sched, clock, entryTimeSet, timeOut, verdict, waited>>

\* Between calls a task waits for other things, and an event from outside makes it ready.
BlockElsewhere(t) ==
  /\ At(t, "out") /\ t \in Busy /\ Goto(t, "elsewhere")
  /\ ready' = ready \ {t} /\ SwitchContext(ready \ {t})
  /\ UNCHANGED <<ring, cTxLock, events, suspended, pendingReady, clock, locals, history>>

\* Mutant: the event switches tasks though the scheduler is suspended.
ReadyAgainAtOnce(t) ==
  /\ pc[t] = "elsewhere" /\ Goto(t, "out")
  /\ MakeReady({t}) /\ GoOn(Outranks({t}), ready \cup {t})
  /\ UNCHANGED <<ring, cTxLock, events, suspended, tick, pendedTick, locals, history>>

ReadyAgain(t) ==
  /\ pc[t] = "elsewhere" /\ Goto(t, "out")
  /\ MakeReady({t})
  /\ IF suspended THEN yieldPending' = (yieldPending \/ Outranks({t})) /\ UNCHANGED cur
     ELSE GoOn(Outranks({t}), ready \cup {t})
  /\ UNCHANGED <<ring, cTxLock, events, suspended, tick, pendedTick, locals, history>>

\* The critical section at the head of xQueueGenericSend when there is room.
SendNow(t) ==
  /\ At(t, "test") /\ messages < QueueLength
  /\ CopyDataToQueue(t)
  /\ \E W \in Heads(waitingToReceive, 1) :
       /\ waitingToReceive' = waitingToReceive \ W
       /\ MakeReady(W) /\ GoOn(Outranks(W), ready \cup W)
  /\ Return(t)
  /\ UNCHANGED <<cTxLock, waitingToSend, suspended, tick, pendedTick>>

\* The same of xQueueReceive when there is an item.
ReceiveNow(t) ==
  /\ At(t, "test") /\ messages > 0
  /\ CopyDataFromQueue
  /\ \E W \in Heads(waitingToSend, 1) :
       /\ waitingToSend' = waitingToSend \ W
       /\ MakeReady(W) /\ GoOn(Outranks(W), ready \cup W)
  /\ Return(t)
  /\ UNCHANGED <<cTxLock, waitingToReceive, suspended, tick, pendedTick>>

Blocked(t) == IF t \in Sender THEN messages = QueueLength ELSE messages = 0

\* No block time, or none left: the call fails.
GiveUpAtOnce(t) ==
  /\ At(t, "test") /\ Blocked(t) /\ ticksToWait[t] = 0
  /\ Return(t)
  /\ UNCHANGED <<ring, cTxLock, events, sched, clock>>

\* Otherwise the time of entry is noted, once in a call; a call that waits for ever never
\* looks at it, and it is left out there.
Timed(t) == ticksToWait[t] # Forever
SetTimeOutState(t) ==
  /\ At(t, "test") /\ Blocked(t) /\ ticksToWait[t] > 0
  /\ entryTimeSet' = [entryTimeSet EXCEPT ![t] = Timed(t)]
  /\ timeOut' = IF entryTimeSet[t] \/ ~Timed(t) THEN timeOut
                ELSE [timeOut EXCEPT ![t] = [time |-> tick, overflowed |-> FALSE]]
  /\ Goto(t, "suspend")
  /\ UNCHANGED <<ring, cTxLock, events, sched, clock, ticksToWait, verdict, history>>

SuspendAll(t) ==
  /\ At(t, "suspend") /\ suspended' = TRUE /\ Goto(t, "lock")
  /\ UNCHANGED <<ring, cTxLock, events, cur, ready, pendingReady, yieldPending, clock, locals, history>>

LockQueue(t) ==
  /\ At(t, "lock") /\ Goto(t, "check")
  /\ cTxLock' = IF cTxLock = Unlocked THEN Unmodified ELSE cTxLock
  /\ UNCHANGED <<ring, events, sched, clock, locals, history>>

\* xTaskCheckForTimeOut
Elapsed(t) == Wrap(tick - timeOut[t].time)
WrappedAround(t) == timeOut[t].overflowed /\ tick >= timeOut[t].time

\* Mutants: the remaining time is not reduced; the time of entry is not moved up with it.
NotExpiredFullTime(t) ==
  /\ At(t, "check") /\ Goto(t, "blocked")
  /\ ~Timed(t) \/ (~WrappedAround(t) /\ Elapsed(t) < ticksToWait[t])
  /\ timeOut' = IF Timed(t) THEN [timeOut EXCEPT ![t] = [time |-> tick, overflowed |-> FALSE]] ELSE timeOut
  /\ UNCHANGED <<ring, cTxLock, events, sched, clock, ticksToWait, entryTimeSet, verdict, history>>
NotExpiredOldEntry(t) ==
  /\ At(t, "check") /\ Goto(t, "blocked")
  /\ ~Timed(t) \/ (~WrappedAround(t) /\ Elapsed(t) < ticksToWait[t])
  /\ ticksToWait' = IF Timed(t) THEN [ticksToWait EXCEPT ![t] = @ - Elapsed(t)] ELSE ticksToWait
  /\ UNCHANGED <<ring, cTxLock, events, sched, clock, entryTimeSet, timeOut, verdict, history>>

NotExpired(t) ==
  /\ At(t, "check")
  /\ \/ ~Timed(t) /\ UNCHANGED <<ticksToWait, timeOut>>
     \/ /\ Timed(t) /\ ~WrappedAround(t) /\ Elapsed(t) < ticksToWait[t]
        /\ ticksToWait' = [ticksToWait EXCEPT ![t] = @ - Elapsed(t)]
        /\ timeOut' = [timeOut EXCEPT ![t] = [time |-> tick, overflowed |-> FALSE]]
  /\ Goto(t, "blocked")
  /\ UNCHANGED <<ring, cTxLock, events, sched, clock, entryTimeSet, verdict, history>>

Expired(t) ==
  /\ At(t, "check") /\ Timed(t)
  /\ WrappedAround(t) \/ Elapsed(t) >= ticksToWait[t]
  /\ ticksToWait' = [ticksToWait EXCEPT ![t] = IF WrappedAround(t) THEN @ ELSE 0]
  /\ verdict' = [verdict EXCEPT ![t] = "expired"] /\ Goto(t, "unlock")
  /\ UNCHANGED <<ring, cTxLock, events, sched, clock, entryTimeSet, timeOut, history>>

\* Mutant: the queue is not looked at again once it is locked.
TestAgainSkipped(t) ==
  /\ At(t, "blocked") /\ verdict' = [verdict EXCEPT ![t] = "sleep"] /\ Goto(t, "place")
  /\ UNCHANGED <<ring, cTxLock, events, sched, clock, ticksToWait, entryTimeSet, timeOut, history>>

\* prvIsQueueFull, prvIsQueueEmpty
TestAgain(t) ==
  /\ At(t, "blocked")
  /\ verdict' = [verdict EXCEPT ![t] = IF Blocked(t) THEN "sleep" ELSE "again"]
  /\ Goto(t, IF Blocked(t) THEN "place" ELSE "unlock")
  /\ UNCHANGED <<ring, cTxLock, events, sched, clock, ticksToWait, entryTimeSet, timeOut, history>>

\* Mutant: the wake time always goes on the current list.
PlaceOnCurrentList(t) ==
  /\ At(t, "place") /\ Goto(t, "unlock")
  /\ waitingToSend' = IF t \in Sender THEN waitingToSend \cup {t} ELSE waitingToSend
  /\ waitingToReceive' = IF t \in Receiver THEN waitingToReceive \cup {t} ELSE waitingToReceive
  /\ ready' = ready \ {t}
  /\ delayed' = [delayed EXCEPT ![t] = [list |-> "current", wake |-> Wrap(tick + ticksToWait[t])]]
  /\ UNCHANGED <<ring, cTxLock, cur, suspended, pendingReady, yieldPending, tick, pendedTick, locals, history>>

\* vTaskPlaceOnEventList, prvAddCurrentTaskToDelayedList
PlaceOnEventList(t) ==
  /\ At(t, "place") /\ Goto(t, "unlock")
  /\ waitingToSend' = IF t \in Sender THEN waitingToSend \cup {t} ELSE waitingToSend
  /\ waitingToReceive' = IF t \in Receiver THEN waitingToReceive \cup {t} ELSE waitingToReceive
  /\ ready' = ready \ {t}
  /\ LET wake == Wrap(tick + ticksToWait[t]) IN
       delayed' = [delayed EXCEPT ![t] =
                     IF Timed(t) THEN [list |-> IF wake < tick THEN "overflow" ELSE "current", wake |-> wake]
                     ELSE [list |-> "forever", wake |-> 0]]
  /\ UNCHANGED <<ring, cTxLock, cur, suspended, pendingReady, yieldPending, tick, pendedTick, locals, history>>

\* prvUnlockQueue: wake a receiver for every post, up to as many as wait.  Its second half
\* does the same for removals by a handler, of which there are none.
UnlockQueue(t) ==
  /\ At(t, "unlock") /\ Goto(t, "resume")
  /\ \E W \in Heads(waitingToReceive, cTxLock) :
       /\ waitingToReceive' = waitingToReceive \ W
       /\ MakeReady(W) /\ yieldPending' = (yieldPending \/ Outranks(W))
  /\ cTxLock' = Unlocked
  /\ UNCHANGED <<ring, waitingToSend, cur, suspended, tick, pendedTick, locals, history>>

\* xTaskResumeAll: tasks held pending become ready, then the pended tick is counted.
ResumeAll(t) ==
  /\ At(t, "resume")
  /\ suspended' = FALSE /\ pendingReady' = {} /\ pendedTick' = FALSE
  /\ LET R == ready \cup pendingReady
         d == [u \in Task |-> IF u \in pendingReady THEN Awake ELSE delayed[u]]
         mustYield == \/ yieldPending \/ \E u \in pendingReady : Prio[u] >= Prio[cur]
                      \/ pendedTick /\ TickSwitches(d, R)
     IN /\ IF pendedTick THEN IncrementTick(d, R)
           ELSE ready' = R /\ delayed' = d /\ UNCHANGED <<tick, events, timeOut>>
        /\ GoOn(mustYield, ready')
        /\ Goto(t, CASE verdict[t] = "expired" -> "last"
                     [] verdict[t] = "sleep" /\ ~mustYield -> "yield"
                     [] OTHER -> "test")
  /\ UNCHANGED <<ring, cTxLock, ticksToWait, entryTimeSet, verdict, history>>

\* portYIELD_WITHIN_API
Yield(t) ==
  /\ At(t, "yield") /\ Goto(t, "test") /\ SwitchContext(ready)
  /\ UNCHANGED <<ring, cTxLock, events, ready, suspended, pendingReady, clock, locals, history>>

\* A receiver whose time is over looks once more; no sender has a time that can be over.
Fail(t) ==
  /\ At(t, "last") /\ messages = 0
  /\ Return(t)
  /\ UNCHANGED <<ring, cTxLock, events, sched, clock>>

Retry(t) ==
  /\ At(t, "last") /\ messages > 0 /\ Goto(t, "test")
  /\ UNCHANGED <<ring, cTxLock, events, sched, clock, locals, history>>

-----------------------------------------------------------------------------
\* xQueueSendFromISR.  LockMax is a bound of the model: cTxLock has 8 bits.
SendFromISR ==
  /\ messages < QueueLength /\ cTxLock < LockMax
  /\ CopyDataToQueue(Isr)
  /\ IF cTxLock = Unlocked
     THEN /\ \E W \in Heads(waitingToReceive, 1) :
               /\ waitingToReceive' = waitingToReceive \ W
               /\ MakeReady(W) /\ yieldPending' = (yieldPending \/ Outranks(W))
          /\ UNCHANGED cTxLock
     ELSE cTxLock' = cTxLock + 1 /\ UNCHANGED <<waitingToReceive, ready, pendingReady, delayed, yieldPending>>
  /\ UNCHANGED <<waitingToSend, cur, suspended, tick, pendedTick, pc, locals, history>>

\* The tick interrupt; with the scheduler suspended it is only counted.
TickInterrupt ==
  /\ ~ticked
  /\ IF suspended
     THEN /\ ~pendedTick /\ pendedTick' = TRUE
          /\ UNCHANGED <<events, sched, tick, delayed, timeOut>>
     ELSE /\ IncrementTick(delayed, ready)
          /\ GoOn(yieldPending \/ TickSwitches(delayed, ready), ready')
          /\ UNCHANGED <<suspended, pendingReady, pendedTick>>
  /\ ticked' = (cur' # Idle)
  /\ waited' = [t \in Task |-> IF entryTimeSet[t] /\ waited[t] < TickMod THEN waited[t] + 1 ELSE waited[t]]
  /\ UNCHANGED <<ring, cTxLock, pc, ticksToWait, entryTimeSet, verdict, asked>>

Step(t) ==
  \/ BlockElsewhere(t) \/ Call(t) \/ GiveUpAtOnce(t) \/ SetTimeOutState(t) \/ SuspendAll(t) \/ LockQueue(t)
  \/ NotExpired(t) \/ Expired(t) \/ TestAgain(t) \/ PlaceOnEventList(t)
  \/ UnlockQueue(t) \/ ResumeAll(t) \/ Yield(t) \/ Fail(t) \/ Retry(t)

Run == /\ \/ \E t \in Sender : SendNow(t)
          \/ \E t \in Receiver : ReceiveNow(t)
          \/ \E t \in Task : Step(t)
       /\ ticked' = FALSE

Event == SendFromISR \/ \E t \in Task : ReadyAgain(t)

Next == Run \/ TickInterrupt \/ (Event /\ UNCHANGED ticked)

\* The processor runs the current task, and ticks come.
Spec == Init /\ [][Next]_vars /\ WF_vars(Run) /\ WF_vars(TickInterrupt)
-----------------------------------------------------------------------------
TypeOK ==
  /\ store \in [0..QueueLength - 1 -> Task \cup {Isr}]
  /\ rd \in 0..QueueLength - 1 /\ wr \in 0..QueueLength - 1 /\ messages \in 0..QueueLength
  /\ cTxLock \in Unlocked..LockMax
  /\ waitingToReceive \subseteq Receiver /\ waitingToSend \subseteq Sender
  /\ cur \in Task \cup {Idle} /\ ready \subseteq Task \cup {Idle} /\ Idle \in ready
  /\ suspended \in BOOLEAN /\ pendingReady \subseteq Task /\ yieldPending \in BOOLEAN
  /\ tick \in 0..TickMod - 1 /\ pendedTick \in BOOLEAN /\ ticked \in BOOLEAN
  /\ delayed \in [Task -> [list : Lists, wake : 0..TickMod - 1]]
  /\ pc \in [Task -> Points]
  /\ ticksToWait \in [Task -> 0..Forever] /\ entryTimeSet \in [Task -> BOOLEAN]
  /\ timeOut \in [Task -> [time : 0..TickMod - 1, overflowed : BOOLEAN]]
  /\ verdict \in [Task -> {"again", "sleep", "expired"}]
  /\ asked \in [Task -> 0..Forever] /\ waited \in [Task -> 0..TickMod]

\* Tasks between prvLockQueue and the end of prvUnlockQueue.
HoldsLock(t) == pc[t] \in {"check", "blocked", "place", "unlock"}

(* One task at a time is between vTaskSuspendAll and xTaskResumeAll, it is the one that
   runs, and the queue is locked only then: vListInsert may walk an event list that no
   other task and no handler changes meanwhile (queue.c:836-868). *)
LockDiscipline ==
  /\ \A t \in Task : HoldsLock(t) \/ pc[t] \in {"lock", "resume"} => suspended /\ cur = t
  /\ cTxLock # Unlocked => \E t \in Task : HoldsLock(t)
  /\ pendingReady # {} \/ pendedTick => suspended

(* Whoever is not ready can still be woken: it is on the event list of this queue, or held
   pending until the scheduler resumes, or on a delayed list that its tick has not passed;
   and one that waits for ever never leaves the event list but to be woken. *)
EverySleeperCanWake ==
  \A t \in Task : t \notin ready =>
    \/ pc[t] = "elsewhere"
    \/ t \in waitingToReceive \cup waitingToSend \cup pendingReady
    \/ delayed[t].list = "current" /\ delayed[t].wake > tick
    \/ delayed[t].list = "overflow"

(* While a receiver sleeps with the queue unlocked, every item in the queue has a receiver
   of its own that is awake in its call and has yet to look; the same holds of free places
   and senders.  A wake-up lost between the test and the event list would break it. *)
InCall(t) == pc[t] \notin {"out", "elsewhere"}
AwakeInCall(S) == {t \in S : t \in ready \cup pendingReady /\ InCall(t)}
NoSleeperForgotten ==
  /\ cTxLock = Unlocked /\ waitingToReceive # {} => messages <= Cardinality(AwakeInCall(Receiver))
  /\ cTxLock = Unlocked /\ waitingToSend # {} => QueueLength - messages <= Cardinality(AwakeInCall(Sender))

(* A call gives up only after as many ticks as it was given, through every return to the
   loop and every wrap of the tick counter, and one that waits for ever never does. *)
GivesUp(t) == InCall(t) /\ pc'[t] = "out" /\ messages' = messages
NeverEarly ==
  [][\A t \in Task : GivesUp(t) => asked[t] # Forever /\ waited[t] >= asked[t]]_vars

(* No call of a task that outranks every other sleeps longer than it was given: the remaining
   time that a woken task computes for its next sleep never grows, and when it has run out a
   counted tick has made the task ready.  Of equals the one that is left ready may be kept
   from computing it for so long that the tick count comes round. *)
Foremost(t) == \A u \in Task \ {t} : Prio[u] < Prio[t]
SleepsNoLongerThanAsked ==
  \A t \in Task : Foremost(t) /\ delayed[t].list \in {"current", "overflow"} =>
    waited[t] < asked[t] + (IF pendedTick THEN 1 ELSE 0)

(* When the tick count wraps, the list of tasks that were to wake before it is empty
   (the assertion of taskSWITCH_DELAYED_LISTS). *)
DelayedListsInOrder ==
  \A t \in Task : /\ delayed[t].list = "current" => delayed[t].wake > tick
                  /\ delayed[t].list = "overflow" => delayed[t].wake <= tick

(* A receiver of the highest priority leaves its call whenever it has a block time, and if it
   waits for ever it leaves it or the items go: the handler that woke it may leave the
   processor to another receiver until the next tick, but not for longer. *)
TopReceiverServed ==
  \A t \in Top(Task) \cap Receiver :
    InCall(t) /\ (messages > 0 \/ asked[t] # Forever)
      ~> (~InCall(t) \/ (messages = 0 /\ asked[t] = Forever))

\* The queue is a bounded FIFO in which each call has one effect at one instant.
Slot(i) == IF rd + i >= QueueLength THEN rd + i - QueueLength ELSE rd + i
Fifo == INSTANCE BlockingFifo WITH
          Capacity <- QueueLength,
          items <- [i \in 1..messages |-> store[Slot(i)]],
          inCall <- {t \in Task : InCall(t)}
ImplementsFifo == Fifo!FifoSpec
=============================================================================

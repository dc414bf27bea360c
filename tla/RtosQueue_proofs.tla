-------------------------- MODULE RtosQueue_proofs --------------------------
(***************************************************************************)
(* Proofs about RtosQueue, for every set of tasks, all priorities and      *)
(* every length: types, the discipline of the lock, that no sleeper is out *)
(* of reach, that the queue is the FIFO of BlockingFifo, that no wake-up   *)
(* is lost, that no call gives up before its time, and that none of a task *)
(* that outranks the others sleeps beyond it.                              *)
(***************************************************************************)
EXTENDS RtosQueue, SequenceTheorems, FiniteSetTheorems, TLAPS

\* The next slot to write follows the newest item.
WriteFollows == wr = After(Slot(messages))

(* A call that may yet go to sleep has time left. *)
MaySleep(t) == pc[t] \in {"suspend", "lock", "check", "blocked", "place"}
TimeLeft == \A t \in Task : MaySleep(t) => ticksToWait[t] > 0

IInv == /\ TypeOK /\ LockDiscipline /\ EverySleeperCanWake /\ DelayedListsInOrder
        /\ WriteFollows /\ TimeLeft

-----------------------------------------------------------------------------
\* What the operators of the scheduler leave where it belongs.
LEMMA HeadsInList ==
  ASSUME NEW list, NEW n, NEW W \in Heads(list, n) PROVE W \subseteq list
BY DEF Heads

LEMMA WrapType ==
  ASSUME NEW a \in 0..TickMod - 1, NEW b \in 0..TickMod - 1
  PROVE Wrap(a + b) \in 0..TickMod - 1 /\ Wrap(a - b) \in 0..TickMod - 1
BY QueueAssumption DEF Wrap

LEMMA ElapsedType == ASSUME TypeOK, NEW t \in Task PROVE Elapsed(t) \in 0..TickMod - 1
<1>1. tick \in 0..TickMod - 1 /\ timeOut[t].time \in 0..TickMod - 1
  BY DEF TypeOK
<1> QED BY <1>1, WrapType DEF Elapsed

LEMMA AfterType ==
  ASSUME NEW i \in 0..QueueLength - 1 PROVE After(i) \in 0..QueueLength - 1
BY QueueAssumption DEF After

LEMMA MakeReadyType ==
  ASSUME TypeOK, NEW W \in SUBSET Task, MakeReady(W)
  PROVE /\ ready' \subseteq Task \cup {Idle} /\ Idle \in ready'
        /\ pendingReady' \subseteq Task
        /\ delayed' \in [Task -> [list : Lists, wake : 0..TickMod - 1]]
BY QueueAssumption DEF TypeOK, MakeReady, Awake, Lists

LEMMA SwitchType ==
  ASSUME TypeOK, NEW R \in SUBSET (Task \cup {Idle}), NEW b, GoOn(b, R)
  PROVE cur' \in Task \cup {Idle} /\ yieldPending' \in BOOLEAN
BY DEF TypeOK, GoOn, SwitchContext, Top

LEMMA TickType ==
  ASSUME TypeOK, NEW R \in SUBSET (Task \cup {Idle}), Idle \in R,
         NEW d \in [Task -> [list : Lists, wake : 0..TickMod - 1]], IncrementTick(d, R)
  PROVE /\ tick' \in 0..TickMod - 1
        /\ delayed' \in [Task -> [list : Lists, wake : 0..TickMod - 1]]
        /\ ready' \subseteq Task \cup {Idle} /\ Idle \in ready'
        /\ waitingToReceive' \subseteq Receiver /\ waitingToSend' \subseteq Sender
        /\ timeOut' \in [Task -> [time : 0..TickMod - 1, overflowed : BOOLEAN]]
<1>1. NextTick \in 0..TickMod - 1
  <2>1. tick \in 0..TickMod - 1 /\ 1 \in 0..TickMod - 1
    BY QueueAssumption DEF TypeOK
  <2> QED BY <2>1, WrapType DEF NextTick
<1>2. Awake \in [list : Lists, wake : 0..TickMod - 1]
  BY QueueAssumption DEF Awake, Lists
<1>3. Switched(d) \in [Task -> [list : Lists, wake : 0..TickMod - 1]]
  BY DEF Switched, Lists
<1>4. Due(d) \subseteq Task
  BY DEF Due
<1>5. \A t \in Task : [timeOut[t] EXCEPT !.overflowed = @ \/ (NextTick = 0 /\ entryTimeSet[t])]
                      \in [time : 0..TickMod - 1, overflowed : BOOLEAN]
  BY DEF TypeOK
<1> QED BY <1>1, <1>2, <1>3, <1>4, <1>5 DEF IncrementTick, TypeOK

-----------------------------------------------------------------------------
THEOREM InitInv == Init => IInv
<1> SUFFICES ASSUME Init PROVE IInv
  OBVIOUS
<1>1. cur \in Task \cup {Idle}
  BY DEF Init, Top
<1>a. /\ store \in [0..QueueLength - 1 -> Task \cup {Isr}]
      /\ rd \in 0..QueueLength - 1 /\ wr \in 0..QueueLength - 1 /\ messages \in 0..QueueLength
      /\ cTxLock \in Unlocked..LockMax
  BY QueueAssumption DEF Init, Unlocked
<1>b. /\ tick \in 0..TickMod - 1
      /\ delayed \in [Task -> [list : Lists, wake : 0..TickMod - 1]]
  BY QueueAssumption DEF Init, Lists, Awake
<1>c. /\ pc \in [Task -> Points] /\ ticksToWait \in [Task -> 0..Forever]
      /\ timeOut \in [Task -> [time : 0..TickMod - 1, overflowed : BOOLEAN]]
      /\ asked \in [Task -> 0..Forever] /\ waited \in [Task -> 0..TickMod]
  BY QueueAssumption DEF Init, Points, NoTime, Forever
<1>2. TypeOK
  BY <1>1, <1>a, <1>b, <1>c DEF Init, TypeOK
<1>3. LockDiscipline
  BY DEF Init, LockDiscipline, HoldsLock
<1>4. WriteFollows
  BY QueueAssumption DEF Init, WriteFollows, After, Slot
<1>5. EverySleeperCanWake
  BY DEF Init, EverySleeperCanWake
<1>6. DelayedListsInOrder
  BY DEF Init, DelayedListsInOrder, Awake
<1>7. TimeLeft
  BY DEF Init, TimeLeft, MaySleep
<1> QED BY <1>2, <1>3, <1>4, <1>5, <1>6, <1>7 DEF IInv

LEMMA ReturnType ==
  ASSUME TypeOK, NEW t \in Task, Return(t)
  PROVE /\ pc' = [pc EXCEPT ![t] = "out"]
        /\ pc' \in [Task -> Points]
        /\ ticksToWait' \in [Task -> 0..Forever] /\ entryTimeSet' \in [Task -> BOOLEAN]
        /\ timeOut' \in [Task -> [time : 0..TickMod - 1, overflowed : BOOLEAN]]
        /\ verdict' \in [Task -> {"again", "sleep", "expired"}]
        /\ asked' \in [Task -> 0..Forever] /\ waited' \in [Task -> 0..TickMod]
BY QueueAssumption DEF TypeOK, Return, Goto, NoTime, Forever, Points


-----------------------------------------------------------------------------
\* Types, one action at a time.
LEMMA SendNowType == ASSUME TypeOK, NEW t \in Sender, SendNow(t), ticked' = FALSE PROVE TypeOK'
<1>1. t \in Task
  BY DEF Task
<1>2. PICK W \in Heads(waitingToReceive, 1) :
        /\ waitingToReceive' = waitingToReceive \ W
        /\ MakeReady(W) /\ GoOn(Outranks(W), ready \cup W)
  BY DEF SendNow
<1>3. W \in SUBSET Task /\ W \subseteq waitingToReceive
  BY <1>2, HeadsInList DEF TypeOK, Task
<1>4. /\ ready' \subseteq Task \cup {Idle} /\ Idle \in ready' /\ pendingReady' \subseteq Task
      /\ delayed' \in [Task -> [list : Lists, wake : 0..TickMod - 1]]
  BY <1>2, <1>3, MakeReadyType
<1>5. cur' \in Task \cup {Idle} /\ yieldPending' \in BOOLEAN
  <2>1. ready \cup W \in SUBSET (Task \cup {Idle})
    BY <1>3 DEF TypeOK
  <2> QED BY <1>2, <2>1, SwitchType
<1>6. store' \in [0..QueueLength - 1 -> Task \cup {Isr}] /\ wr' \in 0..QueueLength - 1
      /\ messages' \in 0..QueueLength
  BY <1>1, AfterType, QueueAssumption DEF SendNow, CopyDataToQueue, TypeOK
<1>7. Return(t)
  BY DEF SendNow
<1> HIDE DEF Points
<1> QED BY <1>1, <1>2, <1>4, <1>5, <1>6, <1>7, ReturnType DEF SendNow, TypeOK, CopyDataToQueue

LEMMA ReceiveNowType == ASSUME TypeOK, NEW t \in Receiver, ReceiveNow(t), ticked' = FALSE PROVE TypeOK'
<1>1. t \in Task
  BY DEF Task
<1>2. PICK W \in Heads(waitingToSend, 1) :
        /\ waitingToSend' = waitingToSend \ W
        /\ MakeReady(W) /\ GoOn(Outranks(W), ready \cup W)
  BY DEF ReceiveNow
<1>3. W \in SUBSET Task /\ W \subseteq waitingToSend
  BY <1>2, HeadsInList DEF TypeOK, Task
<1>4. /\ ready' \subseteq Task \cup {Idle} /\ Idle \in ready' /\ pendingReady' \subseteq Task
      /\ delayed' \in [Task -> [list : Lists, wake : 0..TickMod - 1]]
  BY <1>2, <1>3, MakeReadyType
<1>5. cur' \in Task \cup {Idle} /\ yieldPending' \in BOOLEAN
  <2>1. ready \cup W \in SUBSET (Task \cup {Idle})
    BY <1>3 DEF TypeOK
  <2> QED BY <1>2, <2>1, SwitchType
<1>6. rd' \in 0..QueueLength - 1 /\ messages' \in 0..QueueLength
  BY <1>1, AfterType, QueueAssumption DEF ReceiveNow, CopyDataFromQueue, TypeOK
<1>7. Return(t)
  BY DEF ReceiveNow
<1> QED BY <1>1, <1>2, <1>4, <1>5, <1>6, <1>7, ReturnType DEF ReceiveNow, TypeOK, CopyDataFromQueue

LEMMA StepType == ASSUME TypeOK, NEW t \in Task, Step(t), ticked' = FALSE PROVE TypeOK'
<1>1. CASE BlockElsewhere(t)
  <2>1. cur' \in Task \cup {Idle} /\ yieldPending' \in BOOLEAN
    BY <1>1 DEF BlockElsewhere, SwitchContext, Top, TypeOK
  <2> QED BY <1>1, <2>1, QueueAssumption DEF BlockElsewhere, TypeOK, Goto, Points, ring, events, clock, locals, history
<1>2. CASE Call(t)
  <2>1. PICK w \in Waits[t] : /\ ticksToWait' = [ticksToWait EXCEPT ![t] = w]
                             /\ asked' = [asked EXCEPT ![t] = w]
    BY <1>2 DEF Call
  <2>2. w \in 0..Forever
    BY <2>1, QueueAssumption
  <2>3. ticksToWait' \in [Task -> 0..Forever] /\ asked' \in [Task -> 0..Forever]
    BY <2>1, <2>2 DEF TypeOK
  <2> QED BY <1>2, <2>3 DEF Call, TypeOK, Goto, Points, ring, events, sched, clock
<1>3. CASE GiveUpAtOnce(t)
  BY <1>3, ReturnType DEF GiveUpAtOnce, TypeOK, ring, events, sched, clock
<1>4. CASE SetTimeOutState(t)
  BY <1>4 DEF SetTimeOutState, TypeOK, Goto, Points, ring, events, sched, clock, history, Timed
<1>5. CASE SuspendAll(t)
  BY <1>5 DEF SuspendAll, TypeOK, Goto, Points, ring, events, clock, locals, history
<1>6. CASE LockQueue(t)
  <2>1. cTxLock' \in Unlocked..LockMax
    BY <1>6, QueueAssumption DEF LockQueue, TypeOK, Unlocked, Unmodified
  <2> QED BY <1>6, <2>1 DEF LockQueue, TypeOK, Goto, Points, ring, events, sched, clock, locals, history
<1>7. CASE NotExpired(t)
  <2>1. Elapsed(t) \in 0..TickMod - 1
    BY ElapsedType
  <2>2. CASE ~Timed(t) /\ UNCHANGED <<ticksToWait, timeOut>>
    BY <1>7, <2>2 DEF NotExpired, TypeOK, Goto, Points, ring, events, sched, clock, history
  <2>3. CASE /\ Elapsed(t) < ticksToWait[t]
             /\ ticksToWait' = [ticksToWait EXCEPT ![t] = @ - Elapsed(t)]
             /\ timeOut' = [timeOut EXCEPT ![t] = [time |-> tick, overflowed |-> FALSE]]
    <3>1. ticksToWait[t] - Elapsed(t) \in 0..Forever
      BY <2>1, <2>3, QueueAssumption DEF TypeOK, Forever
    <3>2. ticksToWait' \in [Task -> 0..Forever]
      BY <2>3, <3>1 DEF TypeOK
    <3>3. timeOut' \in [Task -> [time : 0..TickMod - 1, overflowed : BOOLEAN]]
      BY <2>3 DEF TypeOK
    <3> QED BY <1>7, <3>2, <3>3 DEF NotExpired, TypeOK, Goto, Points, ring, events, sched, clock, history
  <2> QED BY <1>7, <2>2, <2>3 DEF NotExpired
<1>8. CASE Expired(t)
  <2>1. ticksToWait' \in [Task -> 0..Forever]
    BY <1>8, QueueAssumption DEF Expired, TypeOK, Forever
  <2> QED BY <1>8, <2>1 DEF Expired, TypeOK, Goto, Points, ring, events, sched, clock, history
<1>9. CASE TestAgain(t)
  BY <1>9 DEF TestAgain, TypeOK, Goto, Points, ring, events, sched, clock, history
<1>10. CASE PlaceOnEventList(t)
  <2>1. Wrap(tick + ticksToWait[t]) \in 0..TickMod - 1
    <3>1. tick \in 0..TickMod - 1 /\ ticksToWait[t] \in 0..TickMod - 1
      BY DEF TypeOK, Forever
    <3> QED BY <3>1, WrapType
  <2>2. delayed' \in [Task -> [list : Lists, wake : 0..TickMod - 1]]
    BY <1>10, <2>1, QueueAssumption DEF PlaceOnEventList, TypeOK, Lists
  <2>3. ready' \subseteq Task \cup {Idle} /\ Idle \in ready'
    BY <1>10, QueueAssumption DEF PlaceOnEventList, TypeOK
  <2> QED BY <1>10, <2>2, <2>3 DEF PlaceOnEventList, TypeOK, Goto, Points, Task, ring, locals, history
<1>11. CASE UnlockQueue(t)
  <2>1. PICK W \in Heads(waitingToReceive, cTxLock) :
          /\ waitingToReceive' = waitingToReceive \ W
          /\ MakeReady(W) /\ yieldPending' = (yieldPending \/ Outranks(W))
    BY <1>11 DEF UnlockQueue
  <2>2. W \in SUBSET Task
    BY <2>1, HeadsInList DEF TypeOK, Task
  <2>3. /\ ready' \subseteq Task \cup {Idle} /\ Idle \in ready' /\ pendingReady' \subseteq Task
        /\ delayed' \in [Task -> [list : Lists, wake : 0..TickMod - 1]]
    BY <2>1, <2>2, MakeReadyType
  <2>4. yieldPending' \in BOOLEAN
    BY <2>1 DEF TypeOK, Outranks
  <2>5. cTxLock' \in Unlocked..LockMax
    BY <1>11, QueueAssumption DEF UnlockQueue, Unlocked
  <2> QED BY <1>11, <2>1, <2>3, <2>4, <2>5 DEF UnlockQueue, TypeOK, Goto, Points, ring, locals, history
<1>12. CASE ResumeAll(t)
  <2> DEFINE R == ready \cup pendingReady
             d == [u \in Task |-> IF u \in pendingReady THEN Awake ELSE delayed[u]]
  <2>1. R \in SUBSET (Task \cup {Idle}) /\ Idle \in R
    BY DEF TypeOK
  <2>2. d \in [Task -> [list : Lists, wake : 0..TickMod - 1]]
    BY QueueAssumption DEF TypeOK, Awake, Lists
  <2>3. /\ tick' \in 0..TickMod - 1
        /\ delayed' \in [Task -> [list : Lists, wake : 0..TickMod - 1]]
        /\ ready' \subseteq Task \cup {Idle} /\ Idle \in ready'
        /\ waitingToReceive' \subseteq Receiver /\ waitingToSend' \subseteq Sender
        /\ timeOut' \in [Task -> [time : 0..TickMod - 1, overflowed : BOOLEAN]]
    <3>1. CASE pendedTick
      <4>1. IncrementTick(d, R)
        BY <1>12, <3>1 DEF ResumeAll
      <4> QED BY <2>1, <2>2, <4>1, TickType
    <3>2. CASE ~pendedTick
      <4>1. ready' = R /\ delayed' = d /\ UNCHANGED <<tick, events, timeOut>>
        BY <1>12, <3>2 DEF ResumeAll
      <4> HIDE DEF R, d
      <4> QED BY <2>1, <2>2, <4>1 DEF TypeOK, events
    <3> QED BY <3>1, <3>2
  <2>4. cur' \in Task \cup {Idle} /\ yieldPending' \in BOOLEAN
    <3>1. PICK b \in BOOLEAN : GoOn(b, ready')
      BY <1>12 DEF ResumeAll
    <3> QED BY <2>3, <3>1 DEF TypeOK, GoOn, SwitchContext, Top
  <2>5. pc' \in [Task -> Points]
    <3>1. \E p \in {"test", "yield", "last"} : Goto(t, p)
      BY <1>12 DEF ResumeAll
    <3> QED BY <3>1 DEF TypeOK, Points, Goto
  <2> QED BY <1>12, <2>3, <2>4, <2>5 DEF ResumeAll, TypeOK, ring, history
<1>13. CASE Yield(t)
  <2>1. cur' \in Task \cup {Idle} /\ yieldPending' \in BOOLEAN
    BY <1>13 DEF Yield, SwitchContext, Top, TypeOK
  <2> QED BY <1>13, <2>1 DEF Yield, TypeOK, Goto, Points, ring, events, clock, locals, history
<1>14. CASE Fail(t)
  BY <1>14, ReturnType DEF Fail, TypeOK, ring, events, sched, clock
<1>15. CASE Retry(t)
  BY <1>15 DEF Retry, TypeOK, Goto, Points, ring, events, sched, clock, locals, history
<1> QED BY <1>1, <1>2, <1>3, <1>4, <1>5, <1>6, <1>7, <1>8, <1>9, <1>10, <1>11, <1>12, <1>13, <1>14, <1>15 DEF Step

LEMMA ReadyAgainType == ASSUME TypeOK, NEW t \in Task, ReadyAgain(t), UNCHANGED ticked PROVE TypeOK'
<1>1. /\ ready' \subseteq Task \cup {Idle} /\ Idle \in ready' /\ pendingReady' \subseteq Task
      /\ delayed' \in [Task -> [list : Lists, wake : 0..TickMod - 1]]
  BY MakeReadyType DEF ReadyAgain
<1>2. cur' \in Task \cup {Idle} /\ yieldPending' \in BOOLEAN
  <2>1. CASE suspended
    BY <2>1 DEF ReadyAgain, TypeOK, Outranks
  <2>2. CASE ~suspended
    <3>1. ready \cup {t} \in SUBSET (Task \cup {Idle}) /\ GoOn(Outranks({t}), ready \cup {t})
      BY <2>2 DEF ReadyAgain, TypeOK
    <3> QED BY <3>1, SwitchType
  <2> QED BY <2>1, <2>2
<1> QED BY <1>1, <1>2 DEF ReadyAgain, TypeOK, Goto, Points, ring, events, locals, history

LEMMA SendFromISRType == ASSUME TypeOK, SendFromISR, UNCHANGED ticked PROVE TypeOK'
<1>1. store' \in [0..QueueLength - 1 -> Task \cup {Isr}] /\ wr' \in 0..QueueLength - 1
      /\ messages' \in 0..QueueLength
  BY AfterType, QueueAssumption DEF SendFromISR, CopyDataToQueue, TypeOK
<1>2. CASE cTxLock = Unlocked
  <2>1. PICK W \in Heads(waitingToReceive, 1) :
          /\ waitingToReceive' = waitingToReceive \ W
          /\ MakeReady(W) /\ yieldPending' = (yieldPending \/ Outranks(W))
    BY <1>2 DEF SendFromISR
  <2>2. W \in SUBSET Task
    BY <2>1, HeadsInList DEF TypeOK, Task
  <2>3. /\ ready' \subseteq Task \cup {Idle} /\ Idle \in ready' /\ pendingReady' \subseteq Task
        /\ delayed' \in [Task -> [list : Lists, wake : 0..TickMod - 1]]
    BY <2>1, <2>2, MakeReadyType
  <2>4. yieldPending' \in BOOLEAN
    BY <2>1 DEF TypeOK, Outranks
  <2> QED BY <1>1, <1>2, <2>1, <2>3, <2>4 DEF SendFromISR, TypeOK, CopyDataToQueue, locals, history
<1>3. CASE cTxLock # Unlocked
  <2>1. cTxLock' \in Unlocked..LockMax
    BY <1>3, QueueAssumption DEF SendFromISR, TypeOK, Unlocked
  <2> QED BY <1>1, <1>3, <2>1 DEF SendFromISR, TypeOK, CopyDataToQueue, locals, history
<1> QED BY <1>2, <1>3

LEMMA TickInterruptType == ASSUME TypeOK, TickInterrupt PROVE TypeOK'
<1>1. waited' \in [Task -> 0..TickMod] /\ ticked' \in BOOLEAN
  <2>a. waited \in [Task -> 0..TickMod]
    BY DEF TypeOK
  <2>b. TickMod \in Nat
    BY QueueAssumption
  <2>1. \A t \in Task : waited[t] \in 0..TickMod /\ (waited[t] < TickMod => waited[t] + 1 \in 0..TickMod)
    BY ONLY <2>a, <2>b
  <2>2. waited' = [t \in Task |-> IF entryTimeSet[t] /\ waited[t] < TickMod THEN waited[t] + 1 ELSE waited[t]]
    BY DEF TickInterrupt
  <2>3. waited' \in [Task -> 0..TickMod]
    BY <2>1, <2>2
  <2>4. ticked' \in BOOLEAN
    BY DEF TickInterrupt
  <2> QED BY <2>3, <2>4
<1>2. CASE suspended
  BY <1>1, <1>2 DEF TickInterrupt, TypeOK, ring, events, sched
<1>3. CASE ~suspended
  <2>1. IncrementTick(delayed, ready) /\ GoOn(yieldPending \/ TickSwitches(delayed, ready), ready')
    BY <1>3 DEF TickInterrupt
  <2>2. /\ tick' \in 0..TickMod - 1
        /\ delayed' \in [Task -> [list : Lists, wake : 0..TickMod - 1]]
        /\ ready' \subseteq Task \cup {Idle} /\ Idle \in ready'
        /\ waitingToReceive' \subseteq Receiver /\ waitingToSend' \subseteq Sender
        /\ timeOut' \in [Task -> [time : 0..TickMod - 1, overflowed : BOOLEAN]]
    BY <2>1, TickType DEF TypeOK
  <2>3. cur' \in Task \cup {Idle} /\ yieldPending' \in BOOLEAN
    BY <2>1, <2>2 DEF TypeOK, GoOn, SwitchContext, Top
  <2> QED BY <1>1, <1>3, <2>2, <2>3 DEF TickInterrupt, TypeOK, ring
<1> QED BY <1>2, <1>3

LEMMA TypeStep == ASSUME TypeOK, [Next]_vars PROVE TypeOK'
<1>1. CASE UNCHANGED vars
  BY <1>1 DEF TypeOK, vars, ring, events, sched, clock, locals, history
<1>2. CASE Run
  BY <1>2, SendNowType, ReceiveNowType, StepType DEF Run
<1>3. CASE TickInterrupt
  BY <1>3, TickInterruptType
<1>4. CASE Event /\ UNCHANGED ticked
  BY <1>4, SendFromISRType, ReadyAgainType DEF Event
<1> QED BY <1>1, <1>2, <1>3, <1>4 DEF Next

-----------------------------------------------------------------------------
(* The lock.  A task that runs outside a locked section shows that there is no locked
   section, and only the task in one can be the one that runs. *)
LEMMA NoneInside ==
  ASSUME LockDiscipline, NEW t \in Task, cur = t,
         ~HoldsLock(t), pc[t] \notin {"lock", "resume"}
  PROVE /\ \A u \in Task : ~HoldsLock(u) /\ pc[u] \notin {"lock", "resume"}
        /\ cTxLock = Unlocked
BY DEF LockDiscipline

\* A step outside keeps the discipline if it enters nothing and holds nothing pending.
LEMMA OutsideStep ==
  ASSUME TypeOK, LockDiscipline, NEW t \in Task, cur = t,
         ~HoldsLock(t), pc[t] \notin {"lock", "resume"},
         NEW p, p \notin {"check", "blocked", "place", "unlock", "lock", "resume"}, Goto(t, p),
         UNCHANGED <<cTxLock, pendedTick, suspended>>,
         UNCHANGED pendingReady \/ suspended
  PROVE LockDiscipline'
<1>1. /\ \A u \in Task : ~HoldsLock(u) /\ pc[u] \notin {"lock", "resume"}
      /\ cTxLock = Unlocked
  BY NoneInside
<1>2. \A u \in Task : ~HoldsLock(u)' /\ pc'[u] \notin {"lock", "resume"}
  BY <1>1 DEF TypeOK, Goto, HoldsLock
<1> QED BY <1>1, <1>2 DEF LockDiscipline

\* A step inside keeps it if it stays inside.
LEMMA InsideStep ==
  ASSUME TypeOK, LockDiscipline, NEW t \in Task, cur = t, HoldsLock(t),
         NEW p, p \in {"check", "blocked", "place", "unlock"}, Goto(t, p),
         UNCHANGED <<cTxLock, pendedTick, suspended, pendingReady, cur>>
  PROVE LockDiscipline'
BY DEF TypeOK, LockDiscipline, HoldsLock, Goto

LEMMA LockStep ==
  ASSUME TypeOK, LockDiscipline, NEW t \in Task, Step(t)
  PROVE LockDiscipline'
<1>1. CASE BlockElsewhere(t)
  BY <1>1, OutsideStep DEF BlockElsewhere, At, HoldsLock, clock
<1>2. CASE Call(t)
  BY <1>2, OutsideStep DEF Call, At, HoldsLock, clock, sched
<1>3. CASE GiveUpAtOnce(t)
  BY <1>3, OutsideStep DEF GiveUpAtOnce, Return, At, HoldsLock, clock, sched
<1>4. CASE SetTimeOutState(t)
  BY <1>4, OutsideStep DEF SetTimeOutState, At, HoldsLock, clock, sched
<1>5. CASE SuspendAll(t)
  <2>1. /\ \A u \in Task : ~HoldsLock(u) /\ pc[u] \notin {"lock", "resume"}
        /\ cTxLock = Unlocked
    BY <1>5, NoneInside DEF SuspendAll, At, HoldsLock
  <2> QED BY <1>5, <2>1 DEF SuspendAll, At, Goto, LockDiscipline, HoldsLock, TypeOK, clock
<1>6. CASE LockQueue(t)
  BY <1>6 DEF LockQueue, At, Goto, LockDiscipline, HoldsLock, TypeOK, sched, clock
<1>7. CASE NotExpired(t)
  BY <1>7, InsideStep DEF NotExpired, At, HoldsLock, sched, clock
<1>8. CASE Expired(t)
  BY <1>8, InsideStep DEF Expired, At, HoldsLock, sched, clock
<1>9. CASE TestAgain(t)
  <2>1. PICK p \in {"place", "unlock"} : Goto(t, p)
    BY <1>9 DEF TestAgain
  <2> QED BY <1>9, <2>1, InsideStep DEF TestAgain, At, HoldsLock, sched, clock
<1>10. CASE PlaceOnEventList(t)
  BY <1>10, InsideStep DEF PlaceOnEventList, At, HoldsLock
<1>11. CASE UnlockQueue(t)
  <2>1. suspended /\ cur = t /\ \A u \in Task : u # t => ~HoldsLock(u) /\ pc[u] \notin {"lock", "resume"}
    BY <1>11 DEF UnlockQueue, At, LockDiscipline, HoldsLock
  <2> QED BY <1>11, <2>1 DEF UnlockQueue, Goto, LockDiscipline, HoldsLock, TypeOK
<1>12. CASE ResumeAll(t)
  <2>1. /\ \A u \in Task : u # t => ~HoldsLock(u) /\ pc[u] \notin {"lock", "resume"}
        /\ cTxLock = Unlocked
    BY <1>12 DEF ResumeAll, At, LockDiscipline, HoldsLock
  <2>2. PICK p \in {"test", "yield", "last"} : Goto(t, p)
    BY <1>12 DEF ResumeAll
  <2>3. \A u \in Task : ~HoldsLock(u)' /\ pc'[u] \notin {"lock", "resume"}
    BY <2>1, <2>2 DEF HoldsLock, TypeOK, Goto
  <2> QED BY <1>12, <2>1, <2>3 DEF ResumeAll, LockDiscipline
<1>13. CASE Yield(t)
  BY <1>13, OutsideStep DEF Yield, At, HoldsLock, clock
<1>14. CASE Fail(t)
  BY <1>14, OutsideStep DEF Fail, Return, At, HoldsLock, clock, sched
<1>15. CASE Retry(t)
  BY <1>15, OutsideStep DEF Retry, At, HoldsLock, clock, sched
<1> QED BY <1>1, <1>2, <1>3, <1>4, <1>5, <1>6, <1>7, <1>8, <1>9, <1>10, <1>11, <1>12, <1>13, <1>14, <1>15 DEF Step

LEMMA LockNext == ASSUME TypeOK, LockDiscipline, [Next]_vars PROVE LockDiscipline'
<1>1. CASE UNCHANGED vars
  BY <1>1 DEF LockDiscipline, HoldsLock, vars, sched, clock
<1>2. ASSUME NEW t \in Sender, SendNow(t) PROVE LockDiscipline'
  <2>1. PICK W \in Heads(waitingToReceive, 1) : MakeReady(W)
    BY <1>2 DEF SendNow
  <2> QED BY <1>2, <2>1, OutsideStep DEF SendNow, MakeReady, Return, At, HoldsLock, Task
<1>3. ASSUME NEW t \in Receiver, ReceiveNow(t) PROVE LockDiscipline'
  <2>1. PICK W \in Heads(waitingToSend, 1) : MakeReady(W)
    BY <1>3 DEF ReceiveNow
  <2> QED BY <1>3, <2>1, OutsideStep DEF ReceiveNow, MakeReady, Return, At, HoldsLock, Task
<1>4. CASE TickInterrupt
  BY <1>4 DEF TickInterrupt, LockDiscipline, HoldsLock, sched
<1>5. CASE SendFromISR
  <2>1. UNCHANGED <<cur, suspended, pc, pendedTick>> /\ (cTxLock' # Unlocked => cTxLock # Unlocked)
    BY <1>5 DEF SendFromISR
  <2>2. pendingReady' # {} => pendingReady # {} \/ suspended
    BY <1>5 DEF SendFromISR, MakeReady
  <2> QED BY <2>1, <2>2 DEF LockDiscipline, HoldsLock
<1>6. ASSUME NEW t \in Task, ReadyAgain(t) PROVE LockDiscipline'
  <2>1. UNCHANGED <<suspended, cTxLock, pendedTick>> /\ (suspended => UNCHANGED cur)
    BY <1>6 DEF ReadyAgain
  <2>2. pendingReady' # {} => pendingReady # {} \/ suspended
    BY <1>6 DEF ReadyAgain, MakeReady
  <2>3. ~HoldsLock(t) /\ ~HoldsLock(t)' /\ pc'[t] = "out" /\ \A u \in Task \ {t} : pc'[u] = pc[u]
    BY <1>6 DEF ReadyAgain, Goto, HoldsLock, TypeOK
  <2> QED BY <2>1, <2>2, <2>3 DEF LockDiscipline, HoldsLock
<1> QED BY <1>1, <1>2, <1>3, <1>4, <1>5, <1>6, LockStep DEF Next, Run, Event

-----------------------------------------------------------------------------
\* The delayed lists are in order for one task if its wake time is on the right side of now.
InOrder(d, now) == (d.list = "current" => d.wake > now) /\ (d.list = "overflow" => d.wake <= now)

LEMMA AwakeInOrder == ASSUME NEW now PROVE InOrder(Awake, now)
BY DEF InOrder, Awake

LEMMA TickOrder ==
  ASSUME TypeOK, NEW R, NEW d \in [Task -> [list : Lists, wake : 0..TickMod - 1]],
         IncrementTick(d, R), \A t \in Task : InOrder(d[t], tick)
  PROVE \A t \in Task : InOrder(delayed'[t], tick')
<1> SUFFICES ASSUME NEW t \in Task PROVE InOrder(delayed'[t], tick')
  OBVIOUS
<1>1. /\ tick \in 0..TickMod - 1 /\ d[t].wake \in 0..TickMod - 1
      /\ NextTick = IF tick + 1 >= TickMod THEN 0 ELSE tick + 1
  <2>1. tick \in 0..TickMod - 1 /\ d[t].wake \in 0..TickMod - 1
    BY DEF TypeOK
  <2>2. Wrap(tick + 1) = IF tick + 1 >= TickMod THEN 0 ELSE tick + 1
    BY <2>1, QueueAssumption DEF Wrap
  <2> QED BY <2>1, <2>2 DEF NextTick
<1>2. tick' = NextTick /\ delayed'[t] = IF t \in Due(d) THEN Awake ELSE Switched(d)[t]
  BY DEF IncrementTick
<1>3. CASE t \in Due(d)
  BY <1>2, <1>3, AwakeInOrder
<1>4. CASE t \notin Due(d)
  <2>1. Switched(d)[t].list = "current" => d[t].wake > NextTick
    BY <1>1, <1>4 DEF Due
  <2>2. CASE NextTick = 0 /\ d[t].list = "overflow"
    <3>1. Switched(d)[t] = [d[t] EXCEPT !.list = "current"]
      BY <2>2 DEF Switched
    <3>2. Switched(d)[t].list = "current" /\ Switched(d)[t].wake = d[t].wake
      BY <3>1
    <3> QED BY <1>2, <1>4, <2>1, <3>2 DEF InOrder
  <2>3. CASE ~(NextTick = 0 /\ d[t].list = "overflow")
    <3>1. Switched(d)[t] = d[t]
      BY <2>3 DEF Switched
    <3>2. d[t].list = "overflow" => d[t].wake <= tick /\ NextTick = tick + 1
      BY <1>1, <2>3, QueueAssumption DEF InOrder
    <3> QED BY <1>1, <1>2, <1>4, <2>1, <3>1, <3>2 DEF InOrder
  <2> QED BY <2>2, <2>3
<1> QED BY <1>3, <1>4

LEMMA OrderIsInOrder == DelayedListsInOrder <=> \A t \in Task : InOrder(delayed[t], tick)
BY DEF DelayedListsInOrder, InOrder

LEMMA MakeReadyOrder ==
  ASSUME TypeOK, DelayedListsInOrder, NEW W, MakeReady(W), tick' = tick PROVE DelayedListsInOrder'
<1>1. \A t \in Task : delayed'[t] = delayed[t] \/ delayed'[t] = Awake
  BY DEF MakeReady, TypeOK
<1>2. \A t \in Task : InOrder(delayed'[t], tick')
  BY <1>1, OrderIsInOrder, AwakeInOrder
<1> QED BY <1>2 DEF DelayedListsInOrder, InOrder

LEMMA TimeLeftNext == ASSUME TypeOK, TimeLeft, [Next]_vars PROVE TimeLeft'
<1>1. CASE UNCHANGED vars
  BY <1>1 DEF TimeLeft, MaySleep, vars, locals
<1>2. ASSUME NEW t \in Task, Return(t) PROVE TimeLeft'
  BY <1>2 DEF TimeLeft, MaySleep, Return, Goto, TypeOK
<1>3. ASSUME NEW t \in Task, NEW p \in Points, Goto(t, p), UNCHANGED ticksToWait,
             p \in {"suspend", "lock", "check", "blocked", "place"} => ticksToWait[t] > 0
      PROVE TimeLeft'
  BY <1>3 DEF TimeLeft, MaySleep, Goto, TypeOK
<1>4. ASSUME NEW t \in Task, Step(t) PROVE TimeLeft'
  <2>1. CASE BlockElsewhere(t)
    BY <1>3, <2>1 DEF BlockElsewhere, Points, locals
  <2>2. CASE Call(t)
    BY <2>2 DEF Call, Goto, TimeLeft, MaySleep, TypeOK
  <2>3. CASE GiveUpAtOnce(t) \/ Fail(t)
    BY <1>2, <2>3 DEF GiveUpAtOnce, Fail
  <2>4. CASE SetTimeOutState(t)
    BY <1>3, <2>4 DEF SetTimeOutState, Points
  <2>5. CASE SuspendAll(t) \/ LockQueue(t) \/ TestAgain(t)
    <3>1. /\ MaySleep(t) /\ UNCHANGED ticksToWait
          /\ \E p \in {"lock", "check", "place", "unlock"} : Goto(t, p)
      BY <2>5 DEF SuspendAll, LockQueue, TestAgain, At, MaySleep, locals
    <3> QED BY <1>3, <3>1 DEF TimeLeft, Points
  <2>6. CASE NotExpired(t)
    <3>1. ticksToWait[t] > 0
      BY <2>6 DEF NotExpired, At, TimeLeft, MaySleep
    <3>2. CASE UNCHANGED ticksToWait
      BY <1>3, <2>6, <3>1, <3>2 DEF NotExpired, Points
    <3>3. CASE Elapsed(t) < ticksToWait[t] /\ ticksToWait' = [ticksToWait EXCEPT ![t] = @ - Elapsed(t)]
      <4>1. Elapsed(t) \in Int /\ ticksToWait[t] \in Int
        <5>1. Elapsed(t) \in 0..TickMod - 1 /\ TickMod \in Nat
          BY QueueAssumption, ElapsedType
        <5>2. ticksToWait[t] \in 0..TickMod - 1
          BY DEF TypeOK, Forever
        <5> QED BY <5>1, <5>2
      <4>2. ticksToWait'[t] > 0 /\ \A u \in Task \ {t} : ticksToWait'[u] = ticksToWait[u]
        BY <3>3, <4>1 DEF TypeOK
      <4> QED BY <2>6, <4>2 DEF NotExpired, Goto, TimeLeft, MaySleep, TypeOK
    <3> QED BY <2>6, <3>2, <3>3 DEF NotExpired
  <2>7. CASE Expired(t)
    BY <2>7 DEF Expired, Goto, TimeLeft, MaySleep, TypeOK
  <2>8. CASE PlaceOnEventList(t) \/ UnlockQueue(t) \/ Yield(t) \/ Retry(t)
    <3>1. UNCHANGED ticksToWait /\ \E p \in {"unlock", "resume", "test"} : Goto(t, p)
      BY <2>8 DEF PlaceOnEventList, UnlockQueue, Yield, Retry, locals
    <3> QED BY <1>3, <3>1 DEF Points
  <2>9. CASE ResumeAll(t)
    <3>1. UNCHANGED ticksToWait /\ \E p \in {"test", "yield", "last"} : Goto(t, p)
      BY <2>9 DEF ResumeAll
    <3> QED BY <1>3, <3>1 DEF Points
  <2> QED BY <1>4, <2>1, <2>2, <2>3, <2>4, <2>5, <2>6, <2>7, <2>8, <2>9 DEF Step
<1>5. CASE Run
  BY <1>2, <1>4, <1>5 DEF Run, SendNow, ReceiveNow, Task
<1>6. CASE TickInterrupt \/ SendFromISR
  BY <1>6 DEF TickInterrupt, SendFromISR, TimeLeft, MaySleep, locals
<1>7. ASSUME NEW t \in Task, ReadyAgain(t) PROVE TimeLeft'
  BY <1>3, <1>7 DEF ReadyAgain, locals, Points
<1> QED BY <1>1, <1>5, <1>6, <1>7 DEF Next, Event

LEMMA OrderNext == ASSUME TypeOK, TimeLeft, DelayedListsInOrder, [Next]_vars PROVE DelayedListsInOrder'
<1>1. ASSUME UNCHANGED <<tick, delayed>> PROVE DelayedListsInOrder'
  BY <1>1 DEF DelayedListsInOrder
<1>2. ASSUME NEW t \in Task, PlaceOnEventList(t) PROVE DelayedListsInOrder'
  <2>1. ticksToWait[t] \in 1..TickMod - 1 /\ tick \in 0..TickMod - 1
    BY <1>2, QueueAssumption DEF PlaceOnEventList, At, TimeLeft, MaySleep, TypeOK, Forever
  <2> DEFINE wake == Wrap(tick + ticksToWait[t])
  <2>2. wake > tick \/ wake < tick
    BY <2>1, QueueAssumption DEF Wrap
  <2>3. delayed'[t] = IF Timed(t) THEN [list |-> IF wake < tick THEN "overflow" ELSE "current", wake |-> wake]
                      ELSE [list |-> "forever", wake |-> 0]
    BY <1>2 DEF PlaceOnEventList, TypeOK
  <2>4. \A u \in Task \ {t} : delayed'[u] = delayed[u]
    BY <1>2 DEF PlaceOnEventList, TypeOK
  <2>5. tick' = tick
    BY <1>2 DEF PlaceOnEventList
  <2>6. wake \in Int
    BY <2>1, QueueAssumption DEF Wrap
  <2> HIDE DEF wake
  <2>7. InOrder(delayed'[t], tick)
    BY <2>1, <2>2, <2>3, <2>6 DEF InOrder
  <2> QED BY <2>4, <2>5, <2>7 DEF DelayedListsInOrder, InOrder
<1>3. ASSUME NEW t \in Task, ResumeAll(t) PROVE DelayedListsInOrder'
  <2> DEFINE R == ready \cup pendingReady
             d == [u \in Task |-> IF u \in pendingReady THEN Awake ELSE delayed[u]]
  <2>1. d \in [Task -> [list : Lists, wake : 0..TickMod - 1]]
    BY QueueAssumption DEF TypeOK, Awake, Lists
  <2>2. \A u \in Task : InOrder(d[u], tick)
    BY AwakeInOrder, OrderIsInOrder
  <2>3. CASE pendedTick
    <3>1. IncrementTick(d, R)
      BY <1>3, <2>3 DEF ResumeAll
    <3>2. \A u \in Task : InOrder(delayed'[u], tick')
      BY <2>1, <2>2, <3>1, TickOrder
    <3> QED BY <3>2 DEF DelayedListsInOrder, InOrder
  <2>4. CASE ~pendedTick
    <3>1. delayed' = d /\ tick' = tick
      BY <1>3, <2>4 DEF ResumeAll
    <3> QED BY <2>2, <3>1 DEF DelayedListsInOrder, InOrder
  <2> QED BY <2>3, <2>4
<1>4. ASSUME NEW t \in Task, UnlockQueue(t) PROVE DelayedListsInOrder'
  BY <1>4, MakeReadyOrder DEF UnlockQueue
<1>5. ASSUME NEW t \in Task, Step(t) PROVE DelayedListsInOrder'
  BY <1>1, <1>2, <1>3, <1>4, <1>5
     DEF Step, BlockElsewhere, Call, GiveUpAtOnce, SetTimeOutState, SuspendAll, LockQueue, NotExpired,
         Expired, TestAgain, Yield, Fail, Retry, clock
<1>6. CASE Run
  BY <1>5, <1>6, MakeReadyOrder DEF Run, SendNow, ReceiveNow
<1>7. CASE TickInterrupt
  <2>1. CASE suspended
    BY <1>1, <1>7, <2>1 DEF TickInterrupt
  <2>2. CASE ~suspended
    <3>1. IncrementTick(delayed, ready)
      BY <1>7, <2>2 DEF TickInterrupt
    <3>2. \A u \in Task : InOrder(delayed'[u], tick')
      BY <3>1, OrderIsInOrder, TickOrder DEF TypeOK
    <3> QED BY <3>2 DEF DelayedListsInOrder, InOrder
  <2> QED BY <2>1, <2>2
<1>8. CASE Event
  BY <1>1, <1>8, MakeReadyOrder DEF Event, SendFromISR, ReadyAgain
<1>9. CASE UNCHANGED vars
  BY <1>1, <1>9 DEF vars, clock
<1> QED BY <1>6, <1>7, <1>8, <1>9 DEF Next

-----------------------------------------------------------------------------
(* Sleepers.  What the invariant says of one task that is not ready. *)
Wakeable(t) == \/ pc[t] = "elsewhere"
               \/ t \in waitingToReceive \cup waitingToSend \cup pendingReady
               \/ delayed[t].list = "current" /\ delayed[t].wake > tick
               \/ delayed[t].list = "overflow"

LEMMA SleeperIsWakeable == EverySleeperCanWake <=> \A t \in Task : t \notin ready => Wakeable(t)
BY DEF EverySleeperCanWake, Wakeable

\* Tasks that are woken become ready or are held pending, and the others stay as they are.
LEMMA WakeStep ==
  ASSUME TypeOK, EverySleeperCanWake, NEW W \in SUBSET Task, MakeReady(W), tick' = tick,
         waitingToReceive \ W \subseteq waitingToReceive', waitingToSend \ W \subseteq waitingToSend',
         \A t \in Task \ W : pc[t] = "elsewhere" => pc'[t] = "elsewhere"
  PROVE EverySleeperCanWake'
<1> SUFFICES ASSUME NEW t \in Task, t \notin ready' PROVE Wakeable(t)'
  BY SleeperIsWakeable DEF EverySleeperCanWake, Wakeable
<1>1. CASE suspended
  BY <1>1 DEF MakeReady, Wakeable, EverySleeperCanWake
<1>2. CASE ~suspended
  <2>1. t \notin W /\ t \notin ready /\ delayed'[t] = delayed[t] /\ pendingReady' = pendingReady
    BY <1>2 DEF MakeReady
  <2> QED BY <2>1 DEF Wakeable, EverySleeperCanWake
<1> QED BY <1>1, <1>2

\* A tick makes ready whom it takes off the lists, and passes no wake time.
LEMMA TickWakes ==
  ASSUME TypeOK, NEW R, NEW d \in [Task -> [list : Lists, wake : 0..TickMod - 1]],
         IncrementTick(d, R),
         \A t \in Task : t \notin R =>
           \/ pc'[t] = "elsewhere" \/ t \in waitingToReceive \cup waitingToSend \cup pendingReady'
           \/ d[t].list \in {"current", "overflow"}
  PROVE EverySleeperCanWake'
<1> SUFFICES ASSUME NEW t \in Task, t \notin ready' PROVE Wakeable(t)'
  BY DEF EverySleeperCanWake, Wakeable
<1>1. t \notin R /\ t \notin Due(d) /\ delayed'[t] = Switched(d)[t] /\ tick' = NextTick
  BY DEF IncrementTick
<1>2. CASE pc'[t] = "elsewhere" \/ t \in waitingToReceive \cup waitingToSend \cup pendingReady'
  BY <1>1, <1>2 DEF IncrementTick, Wakeable
<1>3. CASE d[t].list \in {"current", "overflow"}
  <2>1. Switched(d)[t].list \in {"current", "overflow"} /\ Switched(d)[t].wake = d[t].wake
    BY <1>3 DEF Switched
  <2>2. d[t].wake \in Int /\ NextTick \in Int
    <3>1. tick \in 0..TickMod - 1 /\ 1 \in 0..TickMod - 1
      BY QueueAssumption DEF TypeOK
    <3>2. NextTick \in 0..TickMod - 1
      BY <3>1, WrapType DEF NextTick
    <3> QED BY <3>2
  <2>3. Switched(d)[t].list = "current" => d[t].wake > NextTick
    BY <1>1, <2>2 DEF Due
  <2> QED BY <1>1, <2>1, <2>3 DEF Wakeable
<1> QED BY <1>1, <1>2, <1>3

LEMMA SleeperStep == ASSUME TypeOK, EverySleeperCanWake, NEW t \in Task, Step(t) PROVE EverySleeperCanWake'
<1>1. ASSUME UNCHANGED <<events, ready, pendingReady, tick, delayed>>, NEW p, Goto(t, p), pc[t] # "elsewhere"
      PROVE EverySleeperCanWake'
  BY <1>1 DEF EverySleeperCanWake, Goto, TypeOK, events
<1>2. CASE Call(t) \/ SuspendAll(t) \/ LockQueue(t) \/ NotExpired(t) \/ Expired(t) \/ TestAgain(t) \/ Retry(t)
  <2>1. UNCHANGED <<events, ready, pendingReady, tick, delayed>> /\ pc[t] # "elsewhere"
    BY <1>2 DEF Call, SuspendAll, LockQueue, NotExpired, Expired, TestAgain, Retry, At, sched, clock
  <2>2. \E p : Goto(t, p)
    BY <1>2 DEF Call, SuspendAll, LockQueue, NotExpired, Expired, TestAgain, Retry
  <2> QED BY <1>1, <2>1, <2>2
<1>3. CASE GiveUpAtOnce(t) \/ SetTimeOutState(t) \/ Fail(t) \/ Yield(t)
  <2>1. UNCHANGED <<events, ready, pendingReady, tick, delayed>> /\ pc[t] # "elsewhere"
    BY <1>3 DEF GiveUpAtOnce, SetTimeOutState, Fail, Yield, At, sched, clock
  <2>2. \E p : Goto(t, p)
    BY <1>3 DEF GiveUpAtOnce, SetTimeOutState, Fail, Yield, Return
  <2> QED BY <1>1, <2>1, <2>2
<1>4. CASE BlockElsewhere(t)
  BY <1>4 DEF BlockElsewhere, At, Goto, EverySleeperCanWake, TypeOK, events, clock
<1>5. CASE PlaceOnEventList(t)
  <2>1. /\ ready' = ready \ {t} /\ UNCHANGED <<pendingReady, tick>> /\ pc[t] # "elsewhere"
        /\ waitingToSend \subseteq waitingToSend' /\ waitingToReceive \subseteq waitingToReceive'
        /\ t \in waitingToReceive' \cup waitingToSend'
    BY <1>5 DEF PlaceOnEventList, At, Task
  <2>2. \A u \in Task \ {t} : pc'[u] = pc[u] /\ delayed'[u] = delayed[u]
    BY <1>5 DEF PlaceOnEventList, Goto, TypeOK
  <2> QED BY <2>1, <2>2 DEF EverySleeperCanWake
<1>6. CASE UnlockQueue(t)
  <2>1. PICK W \in Heads(waitingToReceive, cTxLock) : waitingToReceive' = waitingToReceive \ W /\ MakeReady(W)
    BY <1>6 DEF UnlockQueue
  <2>2. W \in SUBSET Task
    BY <2>1, HeadsInList DEF TypeOK, Task
  <2>3. /\ tick' = tick /\ waitingToSend' = waitingToSend
        /\ \A u \in Task \ W : pc[u] = "elsewhere" => pc'[u] = "elsewhere"
    BY <1>6 DEF UnlockQueue, At, Goto, TypeOK
  <2> QED BY <2>1, <2>2, <2>3, WakeStep
<1>7. CASE ResumeAll(t)
  <2> DEFINE R == ready \cup pendingReady
             d == [u \in Task |-> IF u \in pendingReady THEN Awake ELSE delayed[u]]
  <2>1. d \in [Task -> [list : Lists, wake : 0..TickMod - 1]]
    BY QueueAssumption DEF TypeOK, Awake, Lists
  <2>2. \A u \in Task : pc[u] = "elsewhere" => pc'[u] = "elsewhere"
    <3>1. pc[t] # "elsewhere" /\ \E p : Goto(t, p)
      BY <1>7 DEF ResumeAll, At
    <3> QED BY <3>1 DEF Goto, TypeOK
  <2>3. \A u \in Task : u \notin R =>
           /\ d[u] = delayed[u]
           /\ \/ pc'[u] = "elsewhere" \/ u \in waitingToReceive \cup waitingToSend
              \/ d[u].list = "current" /\ d[u].wake > tick
              \/ d[u].list = "overflow"
    BY <2>2 DEF EverySleeperCanWake
  <2>4. CASE pendedTick
    <3>1. IncrementTick(d, R)
      BY <1>7, <2>4 DEF ResumeAll
    <3>2. \A u \in Task : u \notin R =>
           \/ pc'[u] = "elsewhere" \/ u \in waitingToReceive \cup waitingToSend \cup pendingReady'
           \/ d[u].list \in {"current", "overflow"}
      BY <2>3
    <3> HIDE DEF d, R
    <3> QED BY <2>1, <3>1, <3>2, TickWakes
  <2>5. CASE ~pendedTick
    <3>1. ready' = R /\ delayed' = d /\ UNCHANGED <<tick, events>>
      BY <1>7, <2>5 DEF ResumeAll
    <3> HIDE DEF d, R
    <3> QED BY <2>3, <3>1 DEF EverySleeperCanWake, events
  <2> QED BY <2>4, <2>5
<1> QED BY <1>2, <1>3, <1>4, <1>5, <1>6, <1>7 DEF Step

LEMMA SleeperNext == ASSUME TypeOK, EverySleeperCanWake, [Next]_vars PROVE EverySleeperCanWake'
<1>1. CASE UNCHANGED vars
  BY <1>1 DEF EverySleeperCanWake, vars, events, sched, clock
<1>2. ASSUME NEW t \in Sender, SendNow(t) PROVE EverySleeperCanWake'
  <2>1. PICK W \in Heads(waitingToReceive, 1) : waitingToReceive' = waitingToReceive \ W /\ MakeReady(W)
    BY <1>2 DEF SendNow
  <2>2. W \in SUBSET Task
    BY <2>1, HeadsInList DEF TypeOK, Task
  <2>3. /\ tick' = tick /\ waitingToSend' = waitingToSend
        /\ \A u \in Task \ W : pc[u] = "elsewhere" => pc'[u] = "elsewhere"
    BY <1>2 DEF SendNow, Return, At, Goto, TypeOK
  <2> QED BY <2>1, <2>2, <2>3, WakeStep
<1>3. ASSUME NEW t \in Receiver, ReceiveNow(t) PROVE EverySleeperCanWake'
  <2>1. PICK W \in Heads(waitingToSend, 1) : waitingToSend' = waitingToSend \ W /\ MakeReady(W)
    BY <1>3 DEF ReceiveNow
  <2>2. W \in SUBSET Task
    BY <2>1, HeadsInList DEF TypeOK, Task
  <2>3. /\ tick' = tick /\ waitingToReceive' = waitingToReceive
        /\ \A u \in Task \ W : pc[u] = "elsewhere" => pc'[u] = "elsewhere"
    BY <1>3 DEF ReceiveNow, Return, At, Goto, TypeOK
  <2> QED BY <2>1, <2>2, <2>3, WakeStep
<1>4. CASE TickInterrupt
  <2>1. CASE suspended
    BY <1>4, <2>1 DEF TickInterrupt, EverySleeperCanWake, events, sched
  <2>2. CASE ~suspended
    <3>1. IncrementTick(delayed, ready) /\ UNCHANGED <<pc, pendingReady>>
      BY <1>4, <2>2 DEF TickInterrupt
    <3>2. delayed \in [Task -> [list : Lists, wake : 0..TickMod - 1]]
      BY DEF TypeOK
    <3>3. \A t \in Task : t \notin ready =>
           \/ pc'[t] = "elsewhere" \/ t \in waitingToReceive \cup waitingToSend \cup pendingReady'
           \/ delayed[t].list \in {"current", "overflow"}
      BY <3>1 DEF EverySleeperCanWake
    <3> QED BY <3>1, <3>2, <3>3, TickWakes
  <2> QED BY <2>1, <2>2
<1>5. CASE SendFromISR
  <2>1. CASE cTxLock = Unlocked
    <3>1. PICK W \in Heads(waitingToReceive, 1) : waitingToReceive' = waitingToReceive \ W /\ MakeReady(W)
      BY <1>5, <2>1 DEF SendFromISR
    <3>2. W \in SUBSET Task
      BY <3>1, HeadsInList DEF TypeOK, Task
    <3> QED BY <1>5, <3>1, <3>2, WakeStep DEF SendFromISR
  <2>2. CASE cTxLock # Unlocked
    BY <1>5, <2>2 DEF SendFromISR, EverySleeperCanWake
  <2> QED BY <2>1, <2>2
<1>6. ASSUME NEW t \in Task, ReadyAgain(t) PROVE EverySleeperCanWake'
  <2>1. /\ MakeReady({t}) /\ UNCHANGED <<events, tick>>
        /\ \A u \in Task \ {t} : pc[u] = "elsewhere" => pc'[u] = "elsewhere"
    BY <1>6 DEF ReadyAgain, Goto, TypeOK
  <2>2. {t} \in SUBSET Task
    OBVIOUS
  <2> QED BY <2>1, <2>2, WakeStep DEF events
<1> QED BY <1>1, <1>2, <1>3, <1>4, <1>5, <1>6, SleeperStep DEF Next, Run, Event

-----------------------------------------------------------------------------
(* The queue as a FIFO: its contents and the tasks in a call, as BlockingFifo names them. *)
Items == [i \in 1..messages |-> store[Slot(i)]]
Callers == {t \in Task : InCall(t)}

ItemsAreSlots ==
  /\ Items \in Seq(Task \cup {Isr}) /\ Len(Items) = messages /\ messages \in 0..QueueLength
  /\ \A i \in 1..messages : Items[i] = store[Slot(i)]

LEMMA ItemsType == TypeOK => ItemsAreSlots
<1> SUFFICES ASSUME TypeOK PROVE ItemsAreSlots
  OBVIOUS
<1>1. messages \in Nat
  BY QueueAssumption DEF TypeOK
<1>2. \A i \in 1..messages : Slot(i) \in 0..QueueLength - 1
  BY QueueAssumption DEF TypeOK, Slot
<1>3. \A i \in 1..messages : store[Slot(i)] \in Task \cup {Isr}
  BY <1>2 DEF TypeOK
<1> QED BY <1>1, <1>3, IsASeq DEF ItemsAreSlots, Items, TypeOK

LEMMA PutBack ==
  ASSUME TypeOK, TypeOK', WriteFollows, NEW x \in Task \cup {Isr}, messages < QueueLength, CopyDataToQueue(x)
  PROVE Items' = Append(Items, x) /\ Len(Items) < QueueLength /\ WriteFollows'
<1>1. /\ rd \in 0..QueueLength - 1 /\ rd' = rd /\ wr \in 0..QueueLength - 1
      /\ messages \in 0..QueueLength - 1 /\ messages' = messages + 1 /\ QueueLength \in Nat
  BY QueueAssumption DEF CopyDataToQueue, TypeOK
<1>2. Slot(messages + 1) = wr /\ \A i \in 1..messages : Slot(i) # wr
  BY <1>1 DEF WriteFollows, After, Slot
<1>3. \A i \in 1..messages' : Slot(i)' = Slot(i)
  BY <1>1 DEF Slot
<1>4. WriteFollows'
  BY <1>1, <1>2 DEF CopyDataToQueue, WriteFollows, After, Slot
<1>5. /\ Items \in Seq(Task \cup {Isr}) /\ Len(Items) = messages
      /\ \A i \in 1..messages : Items[i] = store[Slot(i)]
  BY ItemsType DEF ItemsAreSlots
<1>6. /\ Items' \in Seq(Task \cup {Isr}) /\ Len(Items') = messages + 1
      /\ \A i \in 1..messages + 1 : Items'[i] = store'[Slot(i)]
  <2>1. Items' \in Seq(Task \cup {Isr}) /\ Len(Items') = messages'
        /\ \A i \in 1..messages' : Items'[i] = store'[Slot(i)']
    <3>1. ItemsAreSlots'
      BY ItemsType, PTL
    <3> QED BY <3>1 DEF ItemsAreSlots
  <2> QED BY <1>1, <1>3, <2>1
<1>7. \A i \in 1..messages + 1 : Items'[i] = IF i = messages + 1 THEN x ELSE Items[i]
  <2> SUFFICES ASSUME NEW i \in 1..messages + 1 PROVE Items'[i] = IF i = messages + 1 THEN x ELSE Items[i]
    OBVIOUS
  <2>1. CASE i = messages + 1
    BY <1>1, <1>2, <1>6, <2>1 DEF CopyDataToQueue, TypeOK
  <2>2. CASE i # messages + 1
    <3>1. i \in 1..messages /\ Slot(i) # wr /\ Slot(i) \in 0..QueueLength - 1
      BY <1>1, <1>2, <2>2 DEF Slot
    <3> QED BY <1>5, <1>6, <2>2, <3>1 DEF CopyDataToQueue, TypeOK
  <2> QED BY <2>1, <2>2
<1>8. /\ Append(Items, x) \in Seq(Task \cup {Isr}) /\ Len(Append(Items, x)) = messages + 1
      /\ \A i \in 1..messages + 1 : Append(Items, x)[i] = IF i = messages + 1 THEN x ELSE Items[i]
  BY <1>1, <1>5, AppendProperties
<1>9. Items' = Append(Items, x)
  BY <1>6, <1>7, <1>8, SeqEqual
<1> QED BY <1>1, <1>4, <1>5, <1>9

LEMMA TakeFront ==
  ASSUME TypeOK, TypeOK', WriteFollows, messages > 0, CopyDataFromQueue
  PROVE Items' = Tail(Items) /\ Items # << >> /\ WriteFollows'
<1>1. /\ rd \in 0..QueueLength - 1 /\ rd' = After(rd) /\ UNCHANGED <<store, wr>>
      /\ messages \in 1..QueueLength /\ messages' = messages - 1 /\ QueueLength \in Nat \ {0}
  BY QueueAssumption DEF CopyDataFromQueue, TypeOK
<1>2. \A i \in 0..messages - 1 : Slot(i)' = Slot(i + 1)
  BY <1>1 DEF Slot, After
<1>3. WriteFollows'
  BY <1>1, <1>2 DEF WriteFollows, After
<1>4. /\ Items \in Seq(Task \cup {Isr}) /\ Len(Items) = messages
      /\ \A i \in 1..messages : Items[i] = store[Slot(i)]
  BY ItemsType DEF ItemsAreSlots
<1>5. /\ Items' \in Seq(Task \cup {Isr}) /\ Len(Items') = messages - 1
      /\ \A i \in 1..messages - 1 : Items'[i] = store[Slot(i)']
  <2>1. Items' \in Seq(Task \cup {Isr}) /\ Len(Items') = messages'
        /\ \A i \in 1..messages' : Items'[i] = store'[Slot(i)']
    <3>1. ItemsAreSlots'
      BY ItemsType, PTL
    <3> QED BY <3>1 DEF ItemsAreSlots
  <2> QED BY <1>1, <2>1
<1>6. Items # << >>
  BY <1>1, <1>4
<1>7. /\ Tail(Items) \in Seq(Task \cup {Isr}) /\ Len(Tail(Items)) = messages - 1
      /\ \A i \in 1..messages - 1 : Tail(Items)[i] = Items[i + 1]
  BY <1>1, <1>4, <1>6, HeadTailProperties
<1>8. \A i \in 1..messages - 1 : Items'[i] = Tail(Items)[i]
  BY <1>1, <1>2, <1>4, <1>5, <1>7
<1>9. Items' = Tail(Items)
  BY <1>5, <1>7, <1>8, SeqEqual
<1> QED BY <1>3, <1>6, <1>9

\* A step of a task outside the two that move an item begins a call, ends it, or neither.
LEMMA CallersStep ==
  ASSUME TypeOK, NEW t \in Task, Step(t)
  PROVE \/ t \notin Callers /\ Callers' = Callers \cup {t}
        \/ t \in Callers /\ Callers' = Callers \ {t}
        \/ Callers' = Callers
<1>1. PICK p \in Points : Goto(t, p)
  BY DEF Step, BlockElsewhere, Call, GiveUpAtOnce, SetTimeOutState, SuspendAll, LockQueue, NotExpired,
         Expired, TestAgain, PlaceOnEventList, UnlockQueue, ResumeAll, Yield, Fail, Retry, Return, Points
<1>2. \A u \in Task : pc'[u] = IF u = t THEN p ELSE pc[u]
  BY <1>1 DEF Goto, TypeOK
<1>3. CASE p \in {"out", "elsewhere"}
  <2>1. Callers' = Callers \ {t}
    BY <1>2, <1>3 DEF Callers, InCall
  <2> QED BY <2>1
<1>4. CASE p \notin {"out", "elsewhere"}
  <2>1. Callers' = Callers \cup {t}
    BY <1>2, <1>4 DEF Callers, InCall
  <2> QED BY <2>1
<1> QED BY <1>3, <1>4

\* Whoever returns was in a call.
LEMMA ReturnLeaves ==
  ASSUME TypeOK, NEW t \in Task, pc[t] \notin {"out", "elsewhere"}, Return(t)
  PROVE t \in Callers /\ Callers' = Callers \ {t}
<1>1. \A u \in Task : pc'[u] = IF u = t THEN "out" ELSE pc[u]
  BY DEF Return, Goto, TypeOK
<1> QED BY <1>1 DEF Callers, InCall

LEMMA FifoNames ==
  /\ UNCHANGED Fifo!fifoVars <=> UNCHANGED <<Items, Callers>>
  /\ \A t : Fifo!Enter(t) <=> t \notin Callers /\ Callers' = Callers \cup {t} /\ UNCHANGED Items
  /\ \A t : Fifo!Put(t) <=> /\ t \in Callers /\ Len(Items) < QueueLength
                            /\ Items' = Append(Items, t) /\ Callers' = Callers \ {t}
  /\ \A t : Fifo!Take(t) <=> /\ t \in Callers /\ Items # <<>>
                             /\ Items' = Tail(Items) /\ Callers' = Callers \ {t}
  /\ \A t : Fifo!GiveUp(t) <=> t \in Callers /\ Callers' = Callers \ {t} /\ UNCHANGED Items
  /\ Fifo!IsrPut <=> Len(Items) < QueueLength /\ Items' = Append(Items, Isr) /\ UNCHANGED Callers
BY DEF Fifo!fifoVars, Fifo!Enter, Fifo!Put, Fifo!Take, Fifo!GiveUp, Fifo!IsrPut, Items, Callers

(* Every step of the queue is a step of the FIFO or leaves it alone: a call takes effect in
   the one critical section in which the item moves. *)
LEMMA FifoStep ==
  ASSUME TypeOK, TypeOK', WriteFollows, [Next]_vars
  PROVE [Fifo!FifoNext]_(Fifo!fifoVars) /\ WriteFollows'
<1>1. ASSUME UNCHANGED ring PROVE UNCHANGED Items /\ WriteFollows'
  BY <1>1 DEF ring, Items, WriteFollows, Slot
<1>2. CASE UNCHANGED vars
  <2>1. UNCHANGED ring /\ UNCHANGED Callers
    BY <1>2 DEF vars, Callers, InCall
  <2> QED BY <1>1, <2>1, FifoNames
<1>3. ASSUME NEW t \in Sender, SendNow(t) PROVE Fifo!Put(t) /\ WriteFollows'
  <2>1. t \in Task /\ pc[t] = "test" /\ Return(t) /\ messages < QueueLength /\ CopyDataToQueue(t)
    BY <1>3 DEF SendNow, At, Task
  <2> QED BY <2>1, PutBack, ReturnLeaves, FifoNames
<1>4. ASSUME NEW t \in Receiver, ReceiveNow(t) PROVE Fifo!Take(t) /\ WriteFollows'
  <2>1. t \in Task /\ pc[t] = "test" /\ Return(t) /\ messages > 0 /\ CopyDataFromQueue
    BY <1>4 DEF ReceiveNow, At, Task
  <2> QED BY <2>1, TakeFront, ReturnLeaves, FifoNames
<1>5. CASE SendFromISR
  <2>1. messages < QueueLength /\ CopyDataToQueue(Isr) /\ UNCHANGED pc
    BY <1>5 DEF SendFromISR
  <2>2. UNCHANGED Callers
    BY <2>1 DEF Callers, InCall
  <2>3. Fifo!IsrPut /\ WriteFollows'
    BY <2>1, <2>2, PutBack, FifoNames
  <2> QED BY <2>3 DEF Fifo!FifoNext
<1>6. ASSUME NEW t \in Task, Step(t) PROVE (Fifo!Enter(t) \/ Fifo!GiveUp(t) \/ UNCHANGED <<Items, Callers>>) /\ WriteFollows'
  <2>1. UNCHANGED ring
    BY <1>6 DEF Step, BlockElsewhere, Call, GiveUpAtOnce, SetTimeOutState, SuspendAll, LockQueue, NotExpired,
                Expired, TestAgain, PlaceOnEventList, UnlockQueue, ResumeAll, Yield, Fail, Retry
  <2> QED BY <1>1, <1>6, <2>1, CallersStep, FifoNames
<1>7. CASE TickInterrupt
  <2>1. UNCHANGED ring /\ UNCHANGED Callers
    BY <1>7 DEF TickInterrupt, Callers, InCall
  <2> QED BY <1>1, <2>1, FifoNames
<1>8. ASSUME NEW t \in Task, ReadyAgain(t) PROVE UNCHANGED <<Items, Callers>> /\ WriteFollows'
  <2>1. \A u \in Task : InCall(u)' <=> InCall(u)
    BY <1>8 DEF ReadyAgain, Goto, InCall, TypeOK
  <2>2. UNCHANGED ring
    BY <1>8 DEF ReadyAgain
  <2> QED BY <1>1, <2>1, <2>2 DEF Callers
<1>9. CASE Run
  <2>1. CASE \E t \in Sender : SendNow(t)
    BY <1>3, <2>1 DEF Fifo!FifoNext
  <2>2. CASE \E t \in Receiver : ReceiveNow(t)
    BY <1>4, <2>2 DEF Fifo!FifoNext
  <2>3. CASE \E t \in Task : Step(t)
    <3>1. PICK t \in Task : Fifo!Enter(t) \/ Fifo!GiveUp(t) \/ UNCHANGED <<Items, Callers>>
      BY <1>6, <2>3
    <3>2. (Fifo!Enter(t) \/ Fifo!GiveUp(t)) => Fifo!FifoNext
      BY DEF Fifo!FifoNext, Task
    <3> QED BY <1>6, <2>3, <3>1, <3>2, FifoNames
  <2> QED BY <1>9, <2>1, <2>2, <2>3 DEF Run
<1> QED BY <1>2, <1>5, <1>7, <1>8, <1>9, FifoNames DEF Next, Event

-----------------------------------------------------------------------------
(* The invariant is inductive. *)
THEOREM Invariance == Spec => []IInv
<1>1. Init => IInv
  BY InitInv
<1>2. IInv /\ [Next]_vars => IInv'
  <2> SUFFICES ASSUME IInv, [Next]_vars PROVE IInv'
    OBVIOUS
  <2>1. TypeOK'
    BY TypeStep DEF IInv
  <2> QED BY <2>1, LockNext, SleeperNext, OrderNext, TimeLeftNext, FifoStep DEF IInv
<1> QED BY <1>1, <1>2, PTL DEF Spec

(* Every variable keeps its type, for any tasks, priorities, block times and lengths. *)
THEOREM TypeCorrect == Spec => []TypeOK
<1>1. IInv => TypeOK
  BY DEF IInv
<1> QED BY <1>1, Invariance, PTL

(* A locked section is never shared and the lock never outlives it. *)
THEOREM LockSafe == Spec => []LockDiscipline
<1>1. IInv => LockDiscipline
  BY DEF IInv
<1> QED BY <1>1, Invariance, PTL

(* No task is ever out of reach of what could wake it. *)
THEOREM SleepersReachable == Spec => []EverySleeperCanWake
<1>1. IInv => EverySleeperCanWake
  BY DEF IInv
<1> QED BY <1>1, Invariance, PTL

(* The assertion of taskSWITCH_DELAYED_LISTS never fails, however the tick count wraps. *)
THEOREM ListsInOrder == Spec => []DelayedListsInOrder
<1>1. IInv => DelayedListsInOrder
  BY DEF IInv
<1> QED BY <1>1, Invariance, PTL

(* The queue implements the bounded FIFO. *)
THEOREM QueueIsFifo == Spec => ImplementsFifo
<1>1. Init => Fifo!FifoInit
  <2> SUFFICES ASSUME Init PROVE Fifo!FifoInit
    OBVIOUS
  <2>1. messages = 0 /\ TypeOK
    BY InitInv DEF Init, IInv
  <2>2. Items = <<>>
    BY <2>1, ItemsType, EmptySeq DEF ItemsAreSlots
  <2>3. Callers = {}
    BY DEF Init, Callers, InCall
  <2> QED BY <2>2, <2>3 DEF Fifo!FifoInit, Items, Callers
<1>2. IInv /\ IInv' /\ [Next]_vars => [Fifo!FifoNext]_(Fifo!fifoVars)
  BY FifoStep DEF IInv
<1> QED BY <1>1, <1>2, Invariance, PTL DEF Spec, ImplementsFifo, Fifo!FifoSpec

-----------------------------------------------------------------------------
(* Where the tasks are.  The scheduler is suspended and the queue locked only for the one
   task inside the section; the task that runs is ready unless it has just gone to sleep;
   and a task held pending, on an event list or on a delayed list is not ready too. *)
Inside(t) == HoldsLock(t) \/ pc[t] \in {"lock", "resume"}
LockedInside == \A t \in Task : HoldsLock(t) => cTxLock # Unlocked
Suspension == suspended => \E t \in Task : Inside(t)
GoingToSleep(t) == (pc[t] \in {"unlock", "resume"} /\ verdict[t] = "sleep") \/ pc[t] = "yield"
RunnerReady == /\ cur \in Task => cur \in ready \/ GoingToSleep(cur)
               /\ \A t \in Task : pc[t] = "place" => verdict[t] = "sleep"
Placed(t) ==
  /\ t \in pendingReady => t \notin ready /\ pc[t] # "elsewhere"
  /\ t \in waitingToReceive \cup waitingToSend => InCall(t) /\ t \notin ready \cup pendingReady
  /\ delayed[t].list # "no" => InCall(t) /\ t \notin ready
  /\ pc[t] = "elsewhere" => t \notin ready
Apart == \A t \in Task : Placed(t)

Sched == LockedInside /\ Suspension /\ RunnerReady /\ Apart

\* The task that runs outside the section runs with the scheduler running, and is ready.
LEMMA RunsFreely ==
  ASSUME LockDiscipline, Sched, NEW t \in Task, cur = t, pc[t] \in {"out", "test", "last", "suspend"}
  PROVE /\ ~suspended /\ ~pendedTick /\ cTxLock = Unlocked /\ pendingReady = {}
        /\ t \in ready /\ delayed[t].list = "no" /\ t \notin waitingToReceive \cup waitingToSend
<1>1. ~suspended
  BY DEF LockDiscipline, Sched, Suspension, Inside, HoldsLock
<1>2. cTxLock = Unlocked /\ ~pendedTick /\ pendingReady = {}
  BY <1>1 DEF LockDiscipline, HoldsLock
<1>3. t \in ready
  BY DEF Sched, RunnerReady, GoingToSleep
<1> QED BY <1>1, <1>2, <1>3 DEF Sched, Apart, Placed

LEMMA DueWaits ==
  ASSUME NEW d \in [Task -> [list : Lists, wake : 0..TickMod - 1]]
  PROVE \A t \in Due(d) : t \in Task /\ d[t].list \in {"current", "overflow"}
BY DEF Due, Switched, Lists

\* A wake-up keeps the places if those it wakes leave the lists.
LEMMA WakePlaces ==
  ASSUME TypeOK, Apart, NEW W \in SUBSET Task, MakeReady(W), W \cap (ready \cup pendingReady) = {},
         waitingToReceive' \subseteq waitingToReceive \ W, waitingToSend' \subseteq waitingToSend \ W,
         \A u \in Task : /\ InCall(u) /\ (u \notin ready) => InCall(u)'
                         /\ pc'[u] = "elsewhere" => pc[u] = "elsewhere" /\ u \notin W
  PROVE Apart'
<1> SUFFICES ASSUME NEW u \in Task PROVE Placed(u)'
  BY DEF Apart
<1>1. Placed(u)
  BY DEF Apart
<1>2. CASE suspended
  BY <1>1, <1>2 DEF MakeReady, Placed
<1>3. CASE ~suspended
  <2>1. /\ ready' = ready \cup W /\ pendingReady' = pendingReady
        /\ delayed'[u] = IF u \in W THEN Awake ELSE delayed[u]
    BY <1>3 DEF MakeReady
  <2> QED BY <1>1, <2>1 DEF Placed, Awake
<1> QED BY <1>2, <1>3

\* A step that moves nobody keeps them if it leaves and enters calls only while ready.
LEMMA SamePlaces ==
  ASSUME TypeOK, Apart, NEW t \in Task, NEW p, Goto(t, p), p # "elsewhere",
         p = "out" => t \in ready,
         UNCHANGED <<events, ready, pendingReady, delayed>>
  PROVE Apart'
<1> SUFFICES ASSUME NEW u \in Task PROVE Placed(u)'
  BY DEF Apart
<1>1. Placed(u)
  BY DEF Apart
<1>2. pc'[u] = IF u = t THEN p ELSE pc[u]
  BY DEF Goto, TypeOK
<1> QED BY <1>1, <1>2 DEF Placed, InCall, events

LEMMA TickPlaces ==
  ASSUME TypeOK, Apart, IncrementTick(delayed, ready), UNCHANGED <<pc, pendingReady>>, pendingReady = {}
  PROVE Apart'
<1> SUFFICES ASSUME NEW u \in Task PROVE Placed(u)'
  BY DEF Apart
<1>1. Placed(u)
  BY DEF Apart
<1>2. /\ u \in Due(delayed) => delayed[u].list # "no"
      /\ ready' = ready \cup Due(delayed)
      /\ waitingToReceive' = waitingToReceive \ Due(delayed) /\ waitingToSend' = waitingToSend \ Due(delayed)
  BY DueWaits DEF TypeOK, IncrementTick
<1>3. delayed'[u].list # "no" => u \notin Due(delayed) /\ delayed[u].list # "no"
  <2>1. delayed'[u] = IF u \in Due(delayed) THEN Awake ELSE Switched(delayed)[u]
    BY DEF IncrementTick
  <2>2. Switched(delayed)[u].list # "no" => delayed[u].list # "no"
    BY DEF Switched
  <2> QED BY <2>1, <2>2 DEF Awake
<1> QED BY <1>1, <1>2, <1>3 DEF Placed, InCall

LEMMA ResumePlaces ==
  ASSUME TypeOK, Apart, NEW t \in Task, ResumeAll(t)
  PROVE Apart'
<1> SUFFICES ASSUME NEW u \in Task PROVE Placed(u)'
  BY DEF Apart
<1> DEFINE R == ready \cup pendingReady
           d == [v \in Task |-> IF v \in pendingReady THEN Awake ELSE delayed[v]]
<1>1. Placed(u)
  BY DEF Apart
<1>2. PICK p \in {"test", "yield", "last"} : Goto(t, p)
  BY DEF ResumeAll
<1>3. pc'[u] = (IF u = t THEN p ELSE pc[u]) /\ pendingReady' = {} /\ pc[t] = "resume"
  BY <1>2 DEF Goto, TypeOK, ResumeAll, At
<1>4. InCall(u)' <=> InCall(u)
  BY <1>3 DEF InCall
<1>a. pc'[u] = "elsewhere" => pc[u] = "elsewhere"
  BY <1>3
<1>5. d[u].list # "no" => u \notin pendingReady /\ delayed[u].list # "no"
  BY DEF Awake
<1>6. CASE pendedTick
  <2>1. IncrementTick(d, R)
    BY <1>6 DEF ResumeAll
  <2>2. d \in [Task -> [list : Lists, wake : 0..TickMod - 1]]
    BY QueueAssumption DEF TypeOK, Awake, Lists
  <2> HIDE DEF d
  <2>3. u \in Due(d) => d[u].list # "no"
    BY <2>2, DueWaits
  <2>4. delayed'[u].list # "no" => u \notin Due(d) /\ d[u].list # "no"
    <3>1. delayed'[u] = IF u \in Due(d) THEN Awake ELSE Switched(d)[u]
      BY <2>1 DEF IncrementTick
    <3>2. Switched(d)[u].list # "no" => d[u].list # "no"
      BY DEF Switched
    <3> QED BY <3>1, <3>2 DEF Awake
  <2>5. /\ ready' = R \cup Due(d)
        /\ waitingToReceive' = waitingToReceive \ Due(d) /\ waitingToSend' = waitingToSend \ Due(d)
    BY <2>1 DEF IncrementTick
  <2> QED BY <1>1, <1>3, <1>4, <1>a, <1>5, <2>3, <2>4, <2>5 DEF Placed, InCall
<1>7. CASE ~pendedTick
  <2>1. ready' = R /\ delayed' = d /\ UNCHANGED events
    BY <1>7 DEF ResumeAll
  <2> HIDE DEF d
  <2> QED BY <1>1, <1>3, <1>4, <1>a, <1>5, <2>1 DEF Placed, events
<1> QED BY <1>6, <1>7

LEMMA PlacesStep ==
  ASSUME TypeOK, LockDiscipline, Sched, NEW t \in Task, Step(t)
  PROVE Apart'
<1> USE DEF Sched
<1>1. CASE BlockElsewhere(t)
  <2>1. /\ t \in ready /\ delayed[t].list = "no" /\ t \notin waitingToReceive \cup waitingToSend
        /\ pendingReady = {}
    BY <1>1, RunsFreely DEF BlockElsewhere, At
  <2> SUFFICES ASSUME NEW u \in Task PROVE Placed(u)'
    BY DEF Apart
  <2>2. /\ pc'[u] = IF u = t THEN "elsewhere" ELSE pc[u]
        /\ ready' = ready \ {t} /\ UNCHANGED <<events, pendingReady, delayed>>
    BY <1>1 DEF BlockElsewhere, Goto, TypeOK, clock
  <2>3. Placed(u)
    BY DEF Apart
  <2> QED BY <2>1, <2>2, <2>3 DEF Placed, InCall, events
<1>2. CASE Call(t)
  BY <1>2, SamePlaces DEF Call, At, sched, clock
<1>3. CASE GiveUpAtOnce(t)
  <2>1. t \in ready
    BY <1>3, RunsFreely DEF GiveUpAtOnce, At
  <2> QED BY <1>3, <2>1, SamePlaces DEF GiveUpAtOnce, Return, sched, clock
<1>4. CASE SetTimeOutState(t)
  BY <1>4, SamePlaces DEF SetTimeOutState, sched, clock
<1>5. CASE SuspendAll(t)
  BY <1>5, SamePlaces DEF SuspendAll, clock
<1>6. CASE LockQueue(t)
  BY <1>6, SamePlaces DEF LockQueue, sched, clock
<1>7. CASE NotExpired(t)
  BY <1>7, SamePlaces DEF NotExpired, sched, clock
<1>8. CASE Expired(t)
  BY <1>8, SamePlaces DEF Expired, sched, clock
<1>9. CASE TestAgain(t)
  <2>1. PICK p \in {"place", "unlock"} : Goto(t, p)
    BY <1>9 DEF TestAgain
  <2> QED BY <1>9, <2>1, SamePlaces DEF TestAgain, sched, clock
<1>10. CASE PlaceOnEventList(t)
  <2>1. t \in ready /\ Placed(t)
    BY <1>10 DEF PlaceOnEventList, At, RunnerReady, GoingToSleep, Apart
  <2> SUFFICES ASSUME NEW u \in Task PROVE Placed(u)'
    BY DEF Apart
  <2>2. /\ pc'[u] = (IF u = t THEN "unlock" ELSE pc[u]) /\ pc[t] = "place"
        /\ ready' = ready \ {t} /\ pendingReady' = pendingReady
        /\ waitingToReceive' \subseteq waitingToReceive \cup {t}
        /\ waitingToSend' \subseteq waitingToSend \cup {t}
        /\ u # t => delayed'[u] = delayed[u]
    BY <1>10 DEF PlaceOnEventList, At, Goto, TypeOK
  <2>3. Placed(u)
    BY DEF Apart
  <2> QED BY <2>1, <2>2, <2>3 DEF Placed, InCall
<1>11. CASE UnlockQueue(t)
  <2>1. PICK W \in Heads(waitingToReceive, cTxLock) : waitingToReceive' = waitingToReceive \ W /\ MakeReady(W)
    BY <1>11 DEF UnlockQueue
  <2>2. W \in SUBSET Task /\ W \subseteq waitingToReceive
    BY <2>1, HeadsInList DEF TypeOK, Task
  <2>3. /\ \A u \in Task : pc'[u] = (IF u = t THEN "resume" ELSE pc[u])
        /\ pc[t] = "unlock" /\ waitingToSend' = waitingToSend
    BY <1>11 DEF UnlockQueue, At, Goto, TypeOK
  <2>4. W \cap (ready \cup pendingReady) = {} /\ W \cap waitingToSend = {} /\ \A u \in W : InCall(u)
    BY <2>2, QueueAssumption DEF Apart, Placed, TypeOK
  <2>5. \A u \in Task : /\ InCall(u) /\ u \notin ready => InCall(u)'
                        /\ pc'[u] = "elsewhere" => pc[u] = "elsewhere" /\ u \notin W
    BY <2>3, <2>4 DEF InCall
  <2>6. waitingToReceive' \subseteq waitingToReceive \ W /\ waitingToSend' \subseteq waitingToSend \ W
    BY <2>1, <2>3, <2>4
  <2> QED BY <2>1, <2>2, <2>4, <2>5, <2>6, WakePlaces
<1>12. CASE ResumeAll(t)
  BY <1>12, ResumePlaces
<1>13. CASE Yield(t)
  BY <1>13, SamePlaces DEF Yield, clock
<1>14. CASE Fail(t)
  <2>1. t \in ready
    BY <1>14, RunsFreely DEF Fail, At
  <2> QED BY <1>14, <2>1, SamePlaces DEF Fail, Return, sched, clock
<1>15. CASE Retry(t)
  BY <1>15, SamePlaces DEF Retry, sched, clock
<1> QED BY <1>1, <1>2, <1>3, <1>4, <1>5, <1>6, <1>7, <1>8, <1>9, <1>10, <1>11, <1>12, <1>13, <1>14, <1>15 DEF Step

\* A call that moves an item: the caller leaves while it is ready, and wakes from one list.
LEMMA MovePlaces ==
  ASSUME TypeOK, LockDiscipline, Sched, NEW t \in Task, At(t, "test"), Return(t),
         NEW W \in SUBSET Task, MakeReady(W),
         \/ W \subseteq waitingToReceive /\ waitingToReceive' = waitingToReceive \ W /\ UNCHANGED waitingToSend
         \/ W \subseteq waitingToSend /\ waitingToSend' = waitingToSend \ W /\ UNCHANGED waitingToReceive
  PROVE Apart'
<1>1. t \in ready
  BY RunsFreely DEF At
<1>2. \A u \in Task : pc'[u] = (IF u = t THEN "out" ELSE pc[u])
  BY DEF Return, Goto, TypeOK
<1>3. /\ W \cap (ready \cup pendingReady) = {} /\ \A u \in W : InCall(u)
      /\ waitingToReceive \cap waitingToSend = {}
  BY QueueAssumption DEF Sched, Apart, Placed, TypeOK
<1>4. \A u \in Task : /\ InCall(u) /\ u \notin ready => InCall(u)'
                      /\ pc'[u] = "elsewhere" => pc[u] = "elsewhere" /\ u \notin W
  BY <1>1, <1>2, <1>3 DEF InCall
<1>5. waitingToReceive' \subseteq waitingToReceive \ W /\ waitingToSend' \subseteq waitingToSend \ W
  BY <1>3
<1> QED BY <1>3, <1>4, <1>5, WakePlaces DEF Sched

LEMMA PlacesNext == ASSUME TypeOK, LockDiscipline, Sched, [Next]_vars PROVE Apart'
<1>0. Apart
  BY DEF Sched
<1>1. CASE UNCHANGED vars
  BY <1>0, <1>1 DEF Apart, Placed, InCall, vars, events, sched, clock
<1>2. ASSUME NEW t \in Sender, SendNow(t) PROVE Apart'
  <2>1. PICK W \in Heads(waitingToReceive, 1) : waitingToReceive' = waitingToReceive \ W /\ MakeReady(W)
    BY <1>2 DEF SendNow
  <2>2. W \in SUBSET Task /\ W \subseteq waitingToReceive
    BY <2>1, HeadsInList DEF TypeOK, Task
  <2>3. t \in Task /\ At(t, "test") /\ Return(t) /\ UNCHANGED waitingToSend
    BY <1>2 DEF SendNow, Task
  <2> QED BY <2>1, <2>2, <2>3, MovePlaces
<1>3. ASSUME NEW t \in Receiver, ReceiveNow(t) PROVE Apart'
  <2>1. PICK W \in Heads(waitingToSend, 1) : waitingToSend' = waitingToSend \ W /\ MakeReady(W)
    BY <1>3 DEF ReceiveNow
  <2>2. W \in SUBSET Task /\ W \subseteq waitingToSend
    BY <2>1, HeadsInList DEF TypeOK, Task
  <2>3. t \in Task /\ At(t, "test") /\ Return(t) /\ UNCHANGED waitingToReceive
    BY <1>3 DEF ReceiveNow, Task
  <2> QED BY <2>1, <2>2, <2>3, MovePlaces
<1>4. CASE TickInterrupt
  <2>1. CASE suspended
    BY <1>0, <1>4, <2>1 DEF TickInterrupt, Apart, Placed, InCall, events, sched
  <2>2. CASE ~suspended
    <3>1. IncrementTick(delayed, ready) /\ UNCHANGED <<pc, pendingReady>>
      BY <1>4, <2>2 DEF TickInterrupt
    <3>2. pendingReady = {}
      BY <2>2 DEF LockDiscipline
    <3> QED BY <1>0, <3>1, <3>2, TickPlaces
  <2> QED BY <2>1, <2>2
<1>5. CASE SendFromISR
  <2>1. CASE cTxLock = Unlocked
    <3>1. PICK W \in Heads(waitingToReceive, 1) : waitingToReceive' = waitingToReceive \ W /\ MakeReady(W)
      BY <1>5, <2>1 DEF SendFromISR
    <3>2. W \in SUBSET Task /\ W \subseteq waitingToReceive
      BY <3>1, HeadsInList DEF TypeOK, Task
    <3>3. UNCHANGED <<pc, waitingToSend>>
      BY <1>5 DEF SendFromISR
    <3>4. W \cap (ready \cup pendingReady) = {} /\ W \cap waitingToSend = {} /\ \A u \in W : InCall(u)
      BY <1>0, <3>2, QueueAssumption DEF Apart, Placed, TypeOK
    <3>5. \A u \in Task : /\ InCall(u) /\ u \notin ready => InCall(u)'
                          /\ pc'[u] = "elsewhere" => pc[u] = "elsewhere" /\ u \notin W
      BY <3>3, <3>4 DEF InCall
    <3> QED BY <1>0, <3>1, <3>2, <3>3, <3>4, <3>5, WakePlaces
  <2>2. CASE cTxLock # Unlocked
    BY <1>0, <1>5, <2>2 DEF SendFromISR, Apart, Placed, InCall
  <2> QED BY <2>1, <2>2
<1>6. ASSUME NEW t \in Task, ReadyAgain(t) PROVE Apart'
  <2>1. MakeReady({t}) /\ UNCHANGED events /\ pc[t] = "elsewhere"
        /\ \A u \in Task : pc'[u] = (IF u = t THEN "out" ELSE pc[u])
    BY <1>6 DEF ReadyAgain, Goto, TypeOK
  <2>2. {t} \in SUBSET Task /\ {t} \cap (ready \cup pendingReady) = {}
        /\ t \notin waitingToReceive \cup waitingToSend
    BY <1>0, <2>1 DEF Apart, Placed, InCall
  <2>3. \A u \in Task : /\ InCall(u) /\ u \notin ready => InCall(u)'
                        /\ pc'[u] = "elsewhere" => pc[u] = "elsewhere" /\ u \notin {t}
    BY <2>1 DEF InCall
  <2>4. waitingToReceive' \subseteq waitingToReceive \ {t} /\ waitingToSend' \subseteq waitingToSend \ {t}
    BY <2>1, <2>2 DEF events
  <2> QED BY <1>0, <2>1, <2>2, <2>3, <2>4, WakePlaces
<1> QED BY <1>1, <1>2, <1>3, <1>4, <1>5, <1>6, PlacesStep DEF Next, Run, Event

-----------------------------------------------------------------------------
\* A step of a task that runs, seen from the section: it stays in it, or none is in it.
SectionKept == LockedInside /\ Suspension

LEMMA StepOutside ==
  ASSUME TypeOK, LockDiscipline, Sched, NEW t \in Task, cur = t, pc[t] \in {"out", "test", "last", "yield"},
         NEW p, p \in {"out", "elsewhere", "test", "suspend"}, Goto(t, p), UNCHANGED suspended
  PROVE SectionKept'
<1>1. \A u \in Task : ~HoldsLock(u) /\ pc[u] \notin {"lock", "resume"}
  BY NoneInside DEF HoldsLock
<1>2. ~suspended
  BY <1>1 DEF Sched, Suspension, Inside
<1>3. \A u \in Task : ~HoldsLock(u)'
  BY <1>1 DEF Goto, TypeOK, HoldsLock
<1> QED BY <1>2, <1>3 DEF SectionKept, LockedInside, Suspension

LEMMA StepInside ==
  ASSUME TypeOK, LockDiscipline, Sched, NEW t \in Task, HoldsLock(t),
         NEW p, p \in {"check", "blocked", "place", "unlock"}, Goto(t, p), UNCHANGED <<cTxLock, suspended>>
  PROVE SectionKept'
<1>1. HoldsLock(t)' /\ \A u \in Task : HoldsLock(u)' => HoldsLock(u)
  BY DEF Goto, TypeOK, HoldsLock
<1> QED BY <1>1 DEF Sched, SectionKept, LockedInside, Suspension, Inside

LEMMA SectionStep ==
  ASSUME TypeOK, LockDiscipline, Sched, NEW t \in Task, Step(t)
  PROVE SectionKept'
<1>1. CASE BlockElsewhere(t)
  BY <1>1, StepOutside DEF BlockElsewhere, At
<1>2. CASE Call(t)
  BY <1>2, StepOutside DEF Call, At, sched
<1>3. CASE GiveUpAtOnce(t)
  BY <1>3, StepOutside DEF GiveUpAtOnce, At, Return, sched
<1>4. CASE SetTimeOutState(t)
  BY <1>4, StepOutside DEF SetTimeOutState, At, sched
<1>5. CASE SuspendAll(t)
  <2>1. \A u \in Task : ~HoldsLock(u)
    BY <1>5, NoneInside DEF SuspendAll, At, HoldsLock
  <2>2. \A u \in Task : pc'[u] = IF u = t THEN "lock" ELSE pc[u]
    BY <1>5 DEF SuspendAll, Goto, TypeOK
  <2> QED BY <2>1, <2>2 DEF SectionKept, LockedInside, Suspension, Inside, HoldsLock
<1>6. CASE LockQueue(t)
  <2>1. \A u \in Task : pc'[u] = IF u = t THEN "check" ELSE pc[u]
    BY <1>6 DEF LockQueue, Goto, TypeOK
  <2>2. cTxLock' # Unlocked
    BY <1>6 DEF LockQueue, Unlocked, Unmodified
  <2> QED BY <2>1, <2>2 DEF SectionKept, LockedInside, Suspension, Inside, HoldsLock
<1>7. CASE NotExpired(t)
  BY <1>7, StepInside DEF NotExpired, At, HoldsLock, sched
<1>8. CASE Expired(t)
  BY <1>8, StepInside DEF Expired, At, HoldsLock, sched
<1>9. CASE TestAgain(t)
  <2>1. PICK p \in {"place", "unlock"} : Goto(t, p)
    BY <1>9 DEF TestAgain
  <2> QED BY <1>9, <2>1, StepInside DEF TestAgain, At, HoldsLock, sched
<1>10. CASE PlaceOnEventList(t)
  BY <1>10, StepInside DEF PlaceOnEventList, At, HoldsLock
<1>11. CASE UnlockQueue(t)
  <2>1. \A u \in Task : pc'[u] = IF u = t THEN "resume" ELSE pc[u]
    BY <1>11 DEF UnlockQueue, Goto, TypeOK
  <2>2. \A u \in Task : HoldsLock(u) => u = t
    BY <1>11 DEF UnlockQueue, At, LockDiscipline
  <2> QED BY <2>1, <2>2 DEF SectionKept, LockedInside, Suspension, Inside, HoldsLock
<1>12. CASE ResumeAll(t)
  <2>1. PICK p \in {"test", "yield", "last"} : Goto(t, p)
    BY <1>12 DEF ResumeAll
  <2>2. \A u \in Task : pc'[u] = IF u = t THEN p ELSE pc[u]
    BY <2>1 DEF Goto, TypeOK
  <2>3. \A u \in Task : HoldsLock(u) => u = t
    BY <1>12 DEF ResumeAll, At, LockDiscipline
  <2>4. ~suspended'
    BY <1>12 DEF ResumeAll
  <2> QED BY <2>1, <2>2, <2>3, <2>4 DEF SectionKept, LockedInside, Suspension, HoldsLock
<1>13. CASE Yield(t)
  BY <1>13, StepOutside DEF Yield, At
<1>14. CASE Fail(t)
  BY <1>14, StepOutside DEF Fail, At, Return, sched
<1>15. CASE Retry(t)
  BY <1>15, StepOutside DEF Retry, At, sched
<1> QED BY <1>1, <1>2, <1>3, <1>4, <1>5, <1>6, <1>7, <1>8, <1>9, <1>10, <1>11, <1>12, <1>13, <1>14, <1>15 DEF Step

LEMMA SectionNext == ASSUME TypeOK, LockDiscipline, Sched, [Next]_vars PROVE SectionKept'
<1>0. LockedInside /\ Suspension
  BY DEF Sched
<1>1. CASE UNCHANGED vars
  BY <1>0, <1>1 DEF SectionKept, LockedInside, Suspension, Inside, HoldsLock, vars, sched
<1>2. ASSUME NEW t \in Sender, SendNow(t) PROVE SectionKept'
  BY <1>2, StepOutside DEF SendNow, At, Return, Task
<1>3. ASSUME NEW t \in Receiver, ReceiveNow(t) PROVE SectionKept'
  BY <1>3, StepOutside DEF ReceiveNow, At, Return, Task
<1>4. CASE TickInterrupt
  BY <1>0, <1>4 DEF TickInterrupt, SectionKept, LockedInside, Suspension, Inside, HoldsLock, sched
<1>5. CASE SendFromISR
  <2>1. UNCHANGED <<pc, suspended>> /\ (cTxLock # Unlocked => cTxLock' # Unlocked)
    BY <1>5 DEF SendFromISR, TypeOK, Unlocked
  <2> QED BY <1>0, <2>1 DEF SectionKept, LockedInside, Suspension, Inside, HoldsLock
<1>6. ASSUME NEW t \in Task, ReadyAgain(t) PROVE SectionKept'
  <2>1. /\ \A u \in Task : pc'[u] = (IF u = t THEN "out" ELSE pc[u])
        /\ pc[t] = "elsewhere" /\ UNCHANGED <<cTxLock, suspended>>
    BY <1>6 DEF ReadyAgain, Goto, TypeOK
  <2> QED BY <1>0, <2>1 DEF SectionKept, LockedInside, Suspension, Inside, HoldsLock
<1> QED BY <1>1, <1>2, <1>3, <1>4, <1>5, <1>6, SectionStep DEF Next, Run, Event

-----------------------------------------------------------------------------
\* Whoever is switched to is ready.
LEMMA SwitchReady ==
  ASSUME NEW R, NEW b, GoOn(b, R), R \subseteq ready'
  PROVE cur' \in ready' \/ (cur' = cur /\ ~b)
BY DEF GoOn, SwitchContext, Top

LEMMA RunnerStep ==
  ASSUME TypeOK, LockDiscipline, Sched, NEW t \in Task, Step(t)
  PROVE RunnerReady'
<1>0. RunnerReady
  BY DEF Sched
<1>1. CASE BlockElsewhere(t)
  <2>1. cur' \in ready'
    BY <1>1 DEF BlockElsewhere, SwitchContext, Top
  <2>2. \A u \in Task : pc'[u] = IF u = t THEN "elsewhere" ELSE pc[u]
    BY <1>1 DEF BlockElsewhere, Goto, TypeOK
  <2> QED BY <1>0, <1>1, <2>1, <2>2 DEF BlockElsewhere, RunnerReady, locals
<1>2. CASE Call(t)
  <2>1. \A u \in Task : pc'[u] = IF u = t THEN "test" ELSE pc[u]
    BY <1>2 DEF Call, Goto, TypeOK
  <2> QED BY <1>0, <1>2, <2>1 DEF Call, At, RunnerReady, GoingToSleep, sched
<1>3. ASSUME Return(t), UNCHANGED sched, At(t, "test") \/ At(t, "last") PROVE RunnerReady'
  <2>1. \A u \in Task : /\ pc'[u] = IF u = t THEN "out" ELSE pc[u]
                        /\ verdict'[u] = IF u = t THEN "again" ELSE verdict[u]
    BY <1>3 DEF Return, Goto, TypeOK
  <2> QED BY <1>0, <1>3, <2>1 DEF At, RunnerReady, GoingToSleep, sched
<1>4. ASSUME NEW p \in {"suspend", "check", "blocked", "lock", "test"}, Goto(t, p), UNCHANGED <<verdict, cur, ready>>,
             cur = t, pc[t] \in {"test", "suspend", "lock", "check", "last"} PROVE RunnerReady'
  <2>1. \A u \in Task : pc'[u] = IF u = t THEN p ELSE pc[u]
    BY <1>4 DEF Goto, TypeOK
  <2> QED BY <1>0, <1>4, <2>1 DEF RunnerReady, GoingToSleep
<1>5. CASE Expired(t)
  <2>1. \A u \in Task : /\ pc'[u] = IF u = t THEN "unlock" ELSE pc[u]
                        /\ verdict'[u] = IF u = t THEN "expired" ELSE verdict[u]
    BY <1>5 DEF Expired, Goto, TypeOK
  <2> QED BY <1>0, <1>5, <2>1 DEF Expired, At, RunnerReady, GoingToSleep, sched
<1>6. CASE TestAgain(t)
  <2>1. PICK b \in BOOLEAN : \A u \in Task :
           /\ pc'[u] = IF u = t THEN (IF b THEN "place" ELSE "unlock") ELSE pc[u]
           /\ verdict'[u] = IF u = t THEN (IF b THEN "sleep" ELSE "again") ELSE verdict[u]
    <3>1. CASE Blocked(t)
      BY <1>6, <3>1 DEF TestAgain, Goto, TypeOK
    <3>2. CASE ~Blocked(t)
      BY <1>6, <3>2 DEF TestAgain, Goto, TypeOK
    <3> QED BY <3>1, <3>2
  <2> QED BY <1>0, <1>6, <2>1 DEF TestAgain, At, RunnerReady, GoingToSleep, sched
<1>7. CASE PlaceOnEventList(t)
  <2>1. \A u \in Task : pc'[u] = IF u = t THEN "unlock" ELSE pc[u]
    BY <1>7 DEF PlaceOnEventList, Goto, TypeOK
  <2> QED BY <1>0, <1>7, <2>1 DEF PlaceOnEventList, At, RunnerReady, GoingToSleep, locals
<1>8. CASE UnlockQueue(t)
  <2>1. \A u \in Task : pc'[u] = IF u = t THEN "resume" ELSE pc[u]
    BY <1>8 DEF UnlockQueue, Goto, TypeOK
  <2>2. ready \subseteq ready' /\ UNCHANGED <<cur, verdict>>
    BY <1>8 DEF UnlockQueue, MakeReady, locals
  <2> QED BY <1>0, <1>8, <2>1, <2>2 DEF UnlockQueue, At, RunnerReady, GoingToSleep
<1>9. CASE ResumeAll(t)
  <2>1. PICK b \in BOOLEAN :
           /\ GoOn(b, ready')
           /\ Goto(t, CASE verdict[t] = "expired" -> "last"
                        [] verdict[t] = "sleep" /\ ~b -> "yield"
                        [] OTHER -> "test")
    <3> DEFINE R == ready \cup pendingReady
               d == [u \in Task |-> IF u \in pendingReady THEN Awake ELSE delayed[u]]
               mustYield == \/ yieldPending \/ \E u \in pendingReady : Prio[u] >= Prio[cur]
                            \/ pendedTick /\ TickSwitches(d, R)
    <3>1. mustYield \in BOOLEAN
      BY DEF TypeOK, TickSwitches
    <3>2. /\ GoOn(mustYield, ready')
          /\ Goto(t, CASE verdict[t] = "expired" -> "last"
                       [] verdict[t] = "sleep" /\ ~mustYield -> "yield"
                       [] OTHER -> "test")
      BY <1>9 DEF ResumeAll
    <3> QED BY <3>1, <3>2
  <2>2. PICK p : /\ \A u \in Task : pc'[u] = IF u = t THEN p ELSE pc[u]
                 /\ p # "place" /\ (verdict[t] = "sleep" /\ ~b => p = "yield")
    BY <2>1 DEF Goto, TypeOK
  <2>3. cur' \in ready' \/ (cur' = cur /\ ~b)
    BY <2>1, SwitchReady
  <2>4. ready \subseteq ready' /\ UNCHANGED verdict /\ cur = t /\ pc[t] = "resume"
    BY <1>9 DEF ResumeAll, At, IncrementTick
  <2> QED BY <1>0, <2>2, <2>3, <2>4 DEF RunnerReady, GoingToSleep
<1>10. CASE Yield(t)
  <2>1. cur' \in ready'
    BY <1>10 DEF Yield, SwitchContext, Top
  <2>2. \A u \in Task : pc'[u] = IF u = t THEN "test" ELSE pc[u]
    BY <1>10 DEF Yield, Goto, TypeOK
  <2> QED BY <1>0, <1>10, <2>1, <2>2 DEF Yield, RunnerReady, locals
<1>11. GiveUpAtOnce(t) \/ Fail(t) => RunnerReady'
  BY <1>3 DEF GiveUpAtOnce, Fail
<1>12. CASE SetTimeOutState(t) \/ SuspendAll(t) \/ LockQueue(t) \/ NotExpired(t) \/ Retry(t)
  BY <1>4, <1>12 DEF SetTimeOutState, SuspendAll, LockQueue, NotExpired, Retry, At, sched, locals
<1> QED BY <1>1, <1>2, <1>5, <1>6, <1>7, <1>8, <1>9, <1>10, <1>11, <1>12 DEF Step

LEMMA RunnerNext == ASSUME TypeOK, LockDiscipline, Sched, [Next]_vars PROVE RunnerReady'
<1>0. RunnerReady
  BY DEF Sched
<1>1. CASE UNCHANGED vars
  BY <1>0, <1>1 DEF RunnerReady, GoingToSleep, vars, sched, locals
<1>2. ASSUME NEW t \in Task, At(t, "test"), Return(t), NEW W, MakeReady(W), GoOn(Outranks(W), ready \cup W)
      PROVE RunnerReady'
  <2>1. ~suspended /\ t \in ready
    BY <1>2, RunsFreely DEF At
  <2>2. ready' = ready \cup W
    BY <1>2, <2>1 DEF MakeReady
  <2>3. cur' \in ready' \/ cur' = cur
    BY <1>2, <2>2, SwitchReady
  <2>4. \A u \in Task : /\ pc'[u] = IF u = t THEN "out" ELSE pc[u]
                        /\ verdict'[u] = IF u = t THEN "again" ELSE verdict[u]
    BY <1>2 DEF Return, Goto, TypeOK
  <2> QED BY <1>0, <1>2, <2>1, <2>2, <2>3, <2>4 DEF At, RunnerReady, GoingToSleep
<1>3. ASSUME NEW t \in Sender, SendNow(t) PROVE RunnerReady'
  BY <1>2, <1>3 DEF SendNow, Task
<1>4. ASSUME NEW t \in Receiver, ReceiveNow(t) PROVE RunnerReady'
  BY <1>2, <1>4 DEF ReceiveNow, Task
<1>5. ASSUME ready \subseteq ready', UNCHANGED <<pc, verdict>>, cur' \in ready' \/ cur' = cur PROVE RunnerReady'
  BY <1>0, <1>5 DEF RunnerReady, GoingToSleep
<1>6. CASE TickInterrupt
  <2>1. CASE suspended
    BY <1>5, <1>6, <2>1 DEF TickInterrupt, sched
  <2>2. CASE ~suspended
    <3>1. IncrementTick(delayed, ready) /\ GoOn(yieldPending \/ TickSwitches(delayed, ready), ready')
      BY <1>6, <2>2 DEF TickInterrupt
    <3> QED BY <1>5, <1>6, <3>1, SwitchReady DEF TickInterrupt, IncrementTick
  <2> QED BY <2>1, <2>2
<1>7. CASE SendFromISR
  BY <1>5, <1>7 DEF SendFromISR, MakeReady, locals
<1>8. ASSUME NEW t \in Task, ReadyAgain(t) PROVE RunnerReady'
  <2>1. /\ \A u \in Task : pc'[u] = (IF u = t THEN "out" ELSE pc[u])
        /\ pc[t] = "elsewhere" /\ UNCHANGED verdict /\ ready \subseteq ready'
    BY <1>8 DEF ReadyAgain, Goto, TypeOK, MakeReady, locals
  <2>2. cur' \in ready' \/ cur' = cur
    <3>1. CASE suspended
      BY <1>8, <3>1 DEF ReadyAgain
    <3>2. CASE ~suspended
      <4>1. ready' = ready \cup {t} /\ GoOn(Outranks({t}), ready \cup {t})
        BY <1>8, <3>2 DEF ReadyAgain, MakeReady
      <4> QED BY <4>1, SwitchReady
    <3> QED BY <3>1, <3>2
  <2>3. cur = t => cur \notin Task \/ cur \in ready
    BY <1>0, <2>1 DEF RunnerReady, GoingToSleep
  <2> QED BY <1>0, <2>1, <2>2, <2>3 DEF RunnerReady, GoingToSleep
<1> QED BY <1>1, <1>3, <1>4, <1>6, <1>7, <1>8, RunnerStep DEF Next, Run, Event

-----------------------------------------------------------------------------
(* What n items (or places) have to do with a list of sleepers: as long as anyone sleeps
   there is someone awake, or a wake-up noted, for each of them. *)
Enough(list, awake, n, posts) == list # {} => n <= Cardinality(awake) + posts

LEMMA StillEnough ==
  ASSUME NEW A, NEW B, IsFiniteSet(B), A \subseteq B, NEW list, NEW left \in SUBSET list,
         NEW n \in Int, NEW m \in Int, NEW p \in Int, NEW q \in Int, Enough(list, A, n, p), m - q <= n - p
  PROVE Enough(left, B, m, q)
<1>1. IsFiniteSet(A) /\ Cardinality(A) <= Cardinality(B)
  BY FS_Subset
<1>2. Cardinality(A) \in Nat /\ Cardinality(B) \in Nat
  BY <1>1, FS_CardinalityType
<1> QED BY <1>1, <1>2 DEF Enough

\* As many are woken as come in or were noted, unless the list runs out.
LEMMA EnoughWoken ==
  ASSUME NEW A, NEW B, IsFiniteSet(B), NEW list, IsFiniteSet(list), NEW k \in Nat, NEW W \in Heads(list, k),
         A \cup W \subseteq B, A \cap W = {},
         NEW n \in Int, NEW m \in Int, NEW p \in Int, NEW q \in Int, Enough(list, A, n, p), m - q <= n - p + k
  PROVE Enough(list \ W, B, m, q)
<1> SUFFICES ASSUME list \ W # {} PROVE m <= Cardinality(B) + q
  BY DEF Enough
<1>1. W \subseteq list /\ IsFiniteSet(W) /\ IsFiniteSet(A)
  BY HeadsInList, FS_Subset
<1>2. Cardinality(W) < Cardinality(list)
  <2>1. W # list
    OBVIOUS
  <2>2. Cardinality(W) <= Cardinality(list) /\ (Cardinality(W) = Cardinality(list) => W = list)
    BY <1>1, FS_Subset
  <2>3. Cardinality(W) \in Nat /\ Cardinality(list) \in Nat
    BY <1>1, FS_CardinalityType
  <2> QED BY <2>1, <2>2, <2>3
<1>3. Cardinality(W) = IF k < Cardinality(list) THEN k ELSE Cardinality(list)
  BY DEF Heads
<1>4. Cardinality(W) = k
  BY <1>2, <1>3, <1>1, FS_CardinalityType
<1>5. IsFiniteSet(A \cup W) /\ Cardinality(A \cup W) = Cardinality(A) + k
  <2>1. Cardinality(A \cap W) = 0
    BY FS_EmptySet
  <2>2. /\ IsFiniteSet(A \cup W)
        /\ Cardinality(A \cup W) = Cardinality(A) + Cardinality(W) - Cardinality(A \cap W)
    BY <1>1, FS_Union
  <2>3. Cardinality(A) \in Nat
    BY <1>1, FS_CardinalityType
  <2> QED BY <1>4, <2>1, <2>2, <2>3
<1>6. Cardinality(A \cup W) <= Cardinality(B)
  BY FS_Subset
<1>7. Cardinality(A) \in Nat /\ Cardinality(B) \in Nat
  BY <1>1, FS_CardinalityType
<1>8. n <= Cardinality(A) + p
  BY DEF Enough
<1> QED BY <1>5, <1>6, <1>7, <1>8

\* One of those awake takes its item and goes.
LEMMA OneServed ==
  ASSUME NEW A, IsFiniteSet(A), NEW t \in A, NEW list, NEW n \in Int, NEW p \in Int, Enough(list, A, n, p)
  PROVE Enough(list, A \ {t}, n - 1, p)
<1>1. Cardinality(A \ {t}) = Cardinality(A) - 1 /\ Cardinality(A) \in Nat
  BY FS_RemoveElement, FS_CardinalityType
<1> QED BY <1>1 DEF Enough

LEMMA NothingToServe ==
  ASSUME NEW A, IsFiniteSet(A), NEW list, NEW p \in Int, NEW n \in Int, n <= p PROVE Enough(list, A, n, p)
<1>1. Cardinality(A) \in Nat
  BY FS_CardinalityType
<1> QED BY <1>1 DEF Enough

-----------------------------------------------------------------------------
(* A receiver on its way to the event list has seen the queue empty, and what came since is
   noted in the lock; a sender on its way has seen it full, and it still is. *)
AtPlace == \A t \in Task : pc[t] = "place" =>
              /\ t \in Receiver => messages <= cTxLock
              /\ t \in Sender => messages = QueueLength

LEMMA AtPlaceNext ==
  ASSUME TypeOK, LockDiscipline, Sched, AtPlace, [Next]_vars PROVE AtPlace'
<1>1. CASE UNCHANGED vars
  BY <1>1 DEF AtPlace, vars, ring
<1>2. ASSUME NEW t \in Task, cur = t, NEW p, Goto(t, p), p # "place" PROVE AtPlace'
  <2>1. \A u \in Task : u # t => pc[u] # "place"
    BY <1>2 DEF LockDiscipline, HoldsLock
  <2>2. \A u \in Task : pc'[u] # "place"
    BY <1>2, <2>1 DEF Goto, TypeOK
  <2> QED BY <2>2 DEF AtPlace
<1>3. ASSUME NEW t \in Task, Step(t) PROVE AtPlace'
  <2>1. CASE TestAgain(t)
    <3>1. \A u \in Task : u # t => pc[u] # "place"
      BY <2>1 DEF TestAgain, At, LockDiscipline, HoldsLock
    <3>2. Blocked(t) \/ \A u \in Task : pc'[u] # "place"
      BY <2>1, <3>1 DEF TestAgain, Goto, TypeOK
    <3>3. cTxLock # Unlocked /\ UNCHANGED <<messages, cTxLock>>
      BY <2>1 DEF TestAgain, At, Sched, LockedInside, HoldsLock, ring
    <3>4. \A u \in Task : u # t => pc'[u] # "place"
      BY <2>1, <3>1 DEF TestAgain, Goto, TypeOK
    <3>5. cTxLock \in Nat /\ messages \in Nat
      BY <3>3, QueueAssumption DEF TypeOK, Unlocked
    <3> QED BY <3>2, <3>3, <3>4, <3>5, QueueAssumption DEF Blocked, AtPlace
  <2>2. CASE ~TestAgain(t)
    <3>1. \E p : cur = t /\ Goto(t, p) /\ p # "place"
      <4>1. CASE ResumeAll(t)
        BY <4>1 DEF ResumeAll, At
      <4>2. CASE ~ResumeAll(t)
        BY <1>3, <2>2, <4>2 DEF Step, BlockElsewhere, Call, GiveUpAtOnce, SetTimeOutState, SuspendAll,
           LockQueue, NotExpired, Expired, PlaceOnEventList, UnlockQueue, Yield, Fail, Retry, Return, At
      <4> QED BY <4>1, <4>2
    <3> QED BY <1>2, <3>1
  <2> QED BY <2>1, <2>2
<1>4. ASSUME NEW t \in Sender, SendNow(t) PROVE AtPlace'
  BY <1>2, <1>4 DEF SendNow, At, Return, Task
<1>5. ASSUME NEW t \in Receiver, ReceiveNow(t) PROVE AtPlace'
  BY <1>2, <1>5 DEF ReceiveNow, At, Return, Task
<1>6. CASE TickInterrupt
  BY <1>6 DEF TickInterrupt, AtPlace, ring
<1>7. CASE SendFromISR
  <2>1. /\ UNCHANGED pc /\ messages' = messages + 1 /\ messages < QueueLength
        /\ cTxLock # Unlocked => cTxLock' = cTxLock + 1
    BY <1>7 DEF SendFromISR, CopyDataToQueue
  <2>2. messages \in Int /\ cTxLock \in Int /\ QueueLength \in Int
    BY QueueAssumption DEF TypeOK, Unlocked
  <2>3. \A u \in Task : pc[u] = "place" => cTxLock # Unlocked
    BY DEF Sched, LockedInside, HoldsLock
  <2> QED BY <2>1, <2>2, <2>3 DEF AtPlace
<1>8. ASSUME NEW t \in Task, ReadyAgain(t) PROVE AtPlace'
  <2>1. /\ \A u \in Task : pc'[u] = (IF u = t THEN "out" ELSE pc[u])
        /\ UNCHANGED <<messages, cTxLock>>
    BY <1>8 DEF ReadyAgain, Goto, TypeOK, ring
  <2> QED BY <2>1 DEF AtPlace
<1> QED BY <1>1, <1>3, <1>4, <1>5, <1>6, <1>7, <1>8 DEF Next, Run, Event

-----------------------------------------------------------------------------
(* The invariant behind NoSleeperForgotten: a post noted in the lock counts as a wake-up. *)
Posts == IF cTxLock = Unlocked THEN 0 ELSE cTxLock
ReceiversServed == Enough(waitingToReceive, AwakeInCall(Receiver), messages, Posts)
SendersServed == Enough(waitingToSend, AwakeInCall(Sender), QueueLength - messages, 0)
Served == ReceiversServed /\ SendersServed

LEMMA AwakeFinite ==
  ASSUME NEW S, S \subseteq Sender \/ S \subseteq Receiver
  PROVE IsFiniteSet(AwakeInCall(S)) /\ IsFiniteSet(AwakeInCall(S)')
<1>1. IsFiniteSet(S)
  BY FS_Subset, QueueAssumption
<1> QED BY <1>1, FS_Subset DEF AwakeInCall

LEMMA CountsAreNumbers ==
  ASSUME TypeOK
  PROVE /\ messages \in Int /\ Posts \in Int /\ QueueLength \in Int /\ QueueLength - messages \in Int
        /\ Posts >= 0 /\ messages >= 0 /\ messages <= QueueLength /\ cTxLock \in Int
BY QueueAssumption DEF TypeOK, Posts, Unlocked

\* The awake in S only grow when nobody in it leaves, or leaves the ready list, but by waking.
LEMMA AwakeGrow ==
  ASSUME NEW S, S \subseteq Sender \/ S \subseteq Receiver,
         NEW W, W \subseteq Task, \A u \in W : InCall(u)',
         (ready \cap S) \cup pendingReady \cup W \subseteq ready' \cup pendingReady',
         \A u \in S : InCall(u) /\ u \in ready \cup pendingReady => InCall(u)'
  PROVE AwakeInCall(S) \cup (W \cap S) \subseteq AwakeInCall(S)'
BY DEF AwakeInCall

\* Steps that put nobody to sleep and move no item.
LEMMA QuietServed ==
  ASSUME TypeOK, TypeOK', Served, messages' = messages, Posts' = Posts,
         waitingToReceive' \subseteq waitingToReceive, waitingToSend' \subseteq waitingToSend,
         (ready \cap Task) \cup pendingReady \subseteq ready' \cup pendingReady',
         \A u \in Task : InCall(u) => InCall(u)'
  PROVE Served'
<1>1. AwakeInCall(Receiver) \subseteq AwakeInCall(Receiver)' /\ AwakeInCall(Sender) \subseteq AwakeInCall(Sender)'
  BY AwakeGrow DEF Task, AwakeInCall
<1>2. IsFiniteSet(AwakeInCall(Receiver)') /\ IsFiniteSet(AwakeInCall(Sender)')
  BY AwakeFinite
<1>3. /\ messages \in Int /\ Posts \in Int /\ QueueLength - messages \in Int
      /\ messages' = messages /\ (QueueLength - messages)' = QueueLength - messages
  BY CountsAreNumbers
<1>4. ReceiversServed'
  <2>1. messages - Posts <= messages - Posts
    BY <1>3
  <2>2. Enough(waitingToReceive', AwakeInCall(Receiver)', messages, Posts)
    BY <1>1, <1>2, <1>3, <2>1, StillEnough DEF Served, ReceiversServed
  <2> QED BY <2>2 DEF ReceiversServed, Enough
<1>5. SendersServed'
  <2>1. (QueueLength - messages) - 0 <= (QueueLength - messages) - 0
    BY <1>3
  <2>2. Enough(waitingToSend', AwakeInCall(Sender)', QueueLength - messages, 0)
    BY <1>1, <1>2, <1>3, <2>1, StillEnough DEF Served, SendersServed
  <2> QED BY <2>2 DEF SendersServed, Enough
<1> QED BY <1>4, <1>5 DEF Served

\* A caller that gives up leaves nothing for the others of its kind to do.
LEMMA GiveUpServed ==
  ASSUME TypeOK, TypeOK', Served, NEW t \in Task, Return(t), UNCHANGED <<ring, cTxLock, events, sched>>,
         Blocked(t)
  PROVE Served'
<1>1. /\ \A u \in Task : u # t => (InCall(u)' <=> InCall(u))
      /\ UNCHANGED <<messages, cTxLock, waitingToReceive, waitingToSend, ready, pendingReady>>
  BY DEF Return, Goto, TypeOK, InCall, ring, events, sched
<1>2. /\ messages \in Int /\ Posts \in Int /\ Posts' = Posts /\ QueueLength - messages \in Int /\ Posts >= 0
      /\ messages' = messages /\ (QueueLength - messages)' = QueueLength - messages
  BY <1>1, CountsAreNumbers DEF Posts
<1>3. IsFiniteSet(AwakeInCall(Receiver)') /\ IsFiniteSet(AwakeInCall(Sender)')
  BY AwakeFinite
<1>4. ASSUME t \in Receiver PROVE Served'
  <2>1. t \notin Sender /\ messages = 0
    BY <1>4, QueueAssumption DEF Blocked
  <2>2. AwakeInCall(Sender)' = AwakeInCall(Sender)
    BY <1>1, <2>1 DEF AwakeInCall, Task
  <2>3. Enough(waitingToReceive, AwakeInCall(Receiver)', messages, Posts)
    BY <1>2, <1>3, <2>1, NothingToServe
  <2> QED BY <1>1, <1>2, <2>2, <2>3 DEF Served, ReceiversServed, SendersServed, Enough
<1>5. ASSUME t \in Sender PROVE Served'
  <2>1. t \notin Receiver /\ messages = QueueLength
    BY <1>5, QueueAssumption DEF Blocked
  <2>2. AwakeInCall(Receiver)' = AwakeInCall(Receiver)
    BY <1>1, <2>1 DEF AwakeInCall, Task
  <2>a. QueueLength - messages <= 0
    BY <2>1, <1>2
  <2>3. Enough(waitingToSend, AwakeInCall(Sender)', QueueLength - messages, 0)
    BY <1>2, <1>3, <2>a, NothingToServe
  <2> QED BY <1>1, <1>2, <2>2, <2>3 DEF Served, ReceiversServed, SendersServed, Enough
<1> QED BY <1>4, <1>5 DEF Task

\* One call moves an item: n falls for its own kind, and rises for the other, of whom it wakes one.
LEMMA SendServed ==
  ASSUME TypeOK, TypeOK', LockDiscipline, Sched, Served, NEW t \in Sender, SendNow(t)
  PROVE Served'
<1>1. PICK W \in Heads(waitingToReceive, 1) : waitingToReceive' = waitingToReceive \ W /\ MakeReady(W)
  BY DEF SendNow
<1>2. t \in Task /\ t \notin Receiver /\ ~suspended /\ cTxLock = Unlocked /\ cTxLock' = cTxLock /\ t \in ready
      /\ messages' = messages + 1 /\ waitingToSend' = waitingToSend /\ InCall(t)
  BY RunsFreely, QueueAssumption DEF SendNow, At, Task, CopyDataToQueue, InCall
<1>3. /\ ready' = ready \cup W /\ pendingReady' = pendingReady
      /\ \A u \in Task : InCall(u)' <=> InCall(u) /\ u # t
  <2>1. Return(t)
    BY DEF SendNow
  <2> QED BY <1>1, <1>2, <2>1 DEF MakeReady, Return, Goto, TypeOK, InCall
<1>4. W \subseteq waitingToReceive /\ waitingToReceive \subseteq Receiver
  BY <1>1, HeadsInList DEF TypeOK
<1>5. AwakeInCall(Receiver)' = AwakeInCall(Receiver) \cup W /\ AwakeInCall(Receiver) \cap W = {}
  <2>1. \A u \in W : u \in Task /\ InCall(u) /\ u \notin ready \cup pendingReady
    BY <1>4 DEF Sched, Apart, Placed, Task
  <2> QED BY <1>2, <1>3, <1>4, <2>1 DEF AwakeInCall, Task
<1>6. AwakeInCall(Sender)' = AwakeInCall(Sender) \ {t} /\ t \in AwakeInCall(Sender)
  <2>1. W \cap Sender = {}
    BY <1>4, QueueAssumption
  <2> QED BY <1>2, <1>3, <2>1 DEF AwakeInCall, Task
<1>7. /\ messages \in Int /\ Posts = 0 /\ Posts' = 0 /\ QueueLength - messages \in Int /\ messages + 1 \in Int
      /\ messages' = messages + 1 /\ (QueueLength - messages)' = (QueueLength - messages) - 1
      /\ (messages + 1) - 0 <= (messages - 0) + 1
  BY <1>2, CountsAreNumbers DEF Posts
<1>8. /\ IsFiniteSet(AwakeInCall(Receiver)') /\ IsFiniteSet(AwakeInCall(Sender)) /\ IsFiniteSet(waitingToReceive)
  BY <1>4, AwakeFinite, FS_Subset, QueueAssumption
<1>9. ReceiversServed'
  <2>1. Enough(waitingToReceive \ W, AwakeInCall(Receiver)', messages + 1, 0)
    BY <1>1, <1>5, <1>7, <1>8, EnoughWoken DEF Served, ReceiversServed
  <2> QED BY <1>1, <1>7, <2>1 DEF ReceiversServed, Enough
<1>10. SendersServed'
  <2>1. Enough(waitingToSend, AwakeInCall(Sender) \ {t}, (QueueLength - messages) - 1, 0)
    BY <1>6, <1>7, <1>8, OneServed DEF Served, SendersServed
  <2> QED BY <1>2, <1>6, <1>7, <2>1 DEF SendersServed, Enough
<1> QED BY <1>9, <1>10 DEF Served

LEMMA ReceiveServed ==
  ASSUME TypeOK, TypeOK', LockDiscipline, Sched, Served, NEW t \in Receiver, ReceiveNow(t)
  PROVE Served'
<1>1. PICK W \in Heads(waitingToSend, 1) : waitingToSend' = waitingToSend \ W /\ MakeReady(W)
  BY DEF ReceiveNow
<1>2. t \in Task /\ t \notin Sender /\ ~suspended /\ cTxLock = Unlocked /\ cTxLock' = cTxLock /\ t \in ready
      /\ messages' = messages - 1 /\ waitingToReceive' = waitingToReceive /\ InCall(t)
  BY RunsFreely, QueueAssumption DEF ReceiveNow, At, Task, CopyDataFromQueue, InCall
<1>3. /\ ready' = ready \cup W /\ pendingReady' = pendingReady
      /\ \A u \in Task : InCall(u)' <=> InCall(u) /\ u # t
  <2>1. Return(t)
    BY DEF ReceiveNow
  <2> QED BY <1>1, <1>2, <2>1 DEF MakeReady, Return, Goto, TypeOK, InCall
<1>4. W \subseteq waitingToSend /\ waitingToSend \subseteq Sender
  BY <1>1, HeadsInList DEF TypeOK
<1>5. AwakeInCall(Sender)' = AwakeInCall(Sender) \cup W /\ AwakeInCall(Sender) \cap W = {}
  <2>1. \A u \in W : u \in Task /\ InCall(u) /\ u \notin ready \cup pendingReady
    BY <1>4 DEF Sched, Apart, Placed, Task
  <2> QED BY <1>2, <1>3, <1>4, <2>1 DEF AwakeInCall, Task
<1>6. AwakeInCall(Receiver)' = AwakeInCall(Receiver) \ {t} /\ t \in AwakeInCall(Receiver)
  <2>1. W \cap Receiver = {}
    BY <1>4, QueueAssumption
  <2> QED BY <1>2, <1>3, <2>1 DEF AwakeInCall, Task
<1>7. /\ messages \in Int /\ Posts = 0 /\ Posts' = 0 /\ QueueLength - messages \in Int
      /\ (QueueLength - messages) + 1 \in Int
      /\ messages' = messages - 1 /\ (QueueLength - messages)' = (QueueLength - messages) + 1
      /\ ((QueueLength - messages) + 1) - 0 <= ((QueueLength - messages) - 0) + 1
  BY <1>2, CountsAreNumbers DEF Posts
<1>8. /\ IsFiniteSet(AwakeInCall(Sender)') /\ IsFiniteSet(AwakeInCall(Receiver)) /\ IsFiniteSet(waitingToSend)
  BY <1>4, AwakeFinite, FS_Subset, QueueAssumption
<1>9. SendersServed'
  <2>1. Enough(waitingToSend \ W, AwakeInCall(Sender)', (QueueLength - messages) + 1, 0)
    BY <1>1, <1>5, <1>7, <1>8, EnoughWoken DEF Served, SendersServed
  <2> QED BY <1>1, <1>7, <2>1 DEF SendersServed, Enough
<1>10. ReceiversServed'
  <2>1. Enough(waitingToReceive, AwakeInCall(Receiver) \ {t}, messages - 1, 0)
    BY <1>6, <1>7, <1>8, OneServed DEF Served, ReceiversServed
  <2> QED BY <1>2, <1>6, <1>7, <2>1 DEF ReceiversServed, Enough
<1> QED BY <1>9, <1>10 DEF Served

LEMMA IsrServed ==
  ASSUME TypeOK, TypeOK', Sched, Served, SendFromISR
  PROVE Served'
<1>1. /\ messages' = messages + 1 /\ UNCHANGED <<waitingToSend, pc>>
      /\ \A u \in Task : InCall(u)' <=> InCall(u)
  BY DEF SendFromISR, CopyDataToQueue, InCall
<1>2. /\ messages \in Int /\ QueueLength - messages \in Int /\ messages + 1 \in Int
      /\ Posts \in Int /\ Posts >= 0 /\ Posts' \in Int /\ (QueueLength - messages) - 1 \in Int
      /\ messages' = messages + 1 /\ (QueueLength - messages)' = (QueueLength - messages) - 1
      /\ ((QueueLength - messages) - 1) - 0 <= (QueueLength - messages) - 0
  <2>1. messages \in Int /\ QueueLength \in Int /\ Posts \in Int /\ Posts >= 0
    BY CountsAreNumbers
  <2>2. Posts' \in Int
    BY QueueAssumption DEF TypeOK, Posts, Unlocked
  <2> QED BY <1>1, <2>1, <2>2
<1>3. /\ IsFiniteSet(AwakeInCall(Receiver)') /\ IsFiniteSet(AwakeInCall(Sender)')
      /\ IsFiniteSet(waitingToReceive)
  BY AwakeFinite, FS_Subset, QueueAssumption DEF TypeOK
<1>4. ASSUME NEW W, W \subseteq waitingToReceive,
             ready \cup pendingReady \cup W = ready' \cup pendingReady'
      PROVE /\ AwakeInCall(Receiver) \cup W \subseteq AwakeInCall(Receiver)'
            /\ AwakeInCall(Receiver) \cap W = {}
            /\ AwakeInCall(Sender) \subseteq AwakeInCall(Sender)'
  <2>1. \A u \in W : u \in Receiver /\ u \in Task /\ InCall(u) /\ u \notin ready \cup pendingReady
    BY <1>4 DEF Sched, Apart, Placed, Task, TypeOK
  <2> QED BY <1>1, <1>4, <2>1 DEF AwakeInCall, Task
<1>5. SendersServed'
  <2>1. AwakeInCall(Sender) \subseteq AwakeInCall(Sender)'
    <3>1. ready \cup pendingReady \subseteq ready' \cup pendingReady'
      BY DEF SendFromISR, MakeReady
    <3> QED BY <1>1, <3>1 DEF AwakeInCall, Task
  <2>2. Enough(waitingToSend, AwakeInCall(Sender)', (QueueLength - messages) - 1, 0)
    BY <1>2, <1>3, <2>1, StillEnough DEF Served, SendersServed
  <2> QED BY <1>1, <1>2, <2>2 DEF SendersServed, Enough
<1>6. CASE cTxLock = Unlocked
  <2>1. PICK W \in Heads(waitingToReceive, 1) : waitingToReceive' = waitingToReceive \ W /\ MakeReady(W)
    BY <1>6 DEF SendFromISR
  <2>2. W \subseteq waitingToReceive /\ ready \cup pendingReady \cup W = ready' \cup pendingReady'
    BY <2>1, HeadsInList DEF MakeReady
  <2>3. Posts = 0 /\ Posts' = 0
    BY <1>6 DEF SendFromISR, Posts
  <2>4. AwakeInCall(Receiver) \cup W \subseteq AwakeInCall(Receiver)' /\ AwakeInCall(Receiver) \cap W = {}
    BY <1>4, <2>2
  <2>5. (messages + 1) - 0 <= (messages - 0) + 1
    BY <1>2
  <2>6. Enough(waitingToReceive \ W, AwakeInCall(Receiver)', messages + 1, 0)
    BY <1>2, <1>3, <2>1, <2>3, <2>4, <2>5, EnoughWoken DEF Served, ReceiversServed
  <2>7. ReceiversServed'
    BY <1>2, <2>1, <2>3, <2>6 DEF ReceiversServed, Enough
  <2> QED BY <1>5, <2>7 DEF Served
<1>7. CASE cTxLock # Unlocked
  <2>1. cTxLock' = cTxLock + 1 /\ UNCHANGED <<waitingToReceive, ready, pendingReady>>
    BY <1>7 DEF SendFromISR
  <2>2. Posts' = Posts + 1
    <3>1. cTxLock \in Int /\ cTxLock >= -1
      BY QueueAssumption DEF TypeOK, Unlocked
    <3> QED BY <1>7, <2>1, <3>1 DEF Posts, Unlocked
  <2>3. AwakeInCall(Receiver) \subseteq AwakeInCall(Receiver)'
    BY <1>1, <2>1 DEF AwakeInCall, Task
  <2>4. (messages + 1) - (Posts + 1) <= messages - Posts
    BY <1>2
  <2>5. Enough(waitingToReceive, AwakeInCall(Receiver)', messages + 1, Posts + 1)
    <3>1. Posts + 1 \in Int
      BY <1>2
    <3> QED BY <1>2, <1>3, <2>3, <2>4, <3>1, StillEnough DEF Served, ReceiversServed
  <2>6. ReceiversServed'
    BY <1>2, <2>1, <2>2, <2>5 DEF ReceiversServed, Enough
  <2> QED BY <1>5, <2>6 DEF Served
<1> QED BY <1>6, <1>7

\* The unlocker wakes one receiver for each post noted, and the note is gone.
LEMMA UnlockServed ==
  ASSUME TypeOK, TypeOK', LockDiscipline, Sched, Served, NEW t \in Task, UnlockQueue(t)
  PROVE Served'
<1>1. PICK W \in Heads(waitingToReceive, cTxLock) : waitingToReceive' = waitingToReceive \ W /\ MakeReady(W)
  BY DEF UnlockQueue
<1>2. cTxLock # Unlocked
  BY DEF UnlockQueue, At, Sched, LockedInside, HoldsLock
<1>3. cTxLock \in Nat /\ Posts = cTxLock /\ Posts' = 0
  BY <1>2, QueueAssumption DEF TypeOK, Unlocked, Posts, UnlockQueue
<1>4. /\ \A u \in Task : InCall(u)' <=> InCall(u)
      /\ UNCHANGED <<messages, waitingToSend>>
  BY DEF UnlockQueue, At, Goto, TypeOK, InCall, ring
<1>5. W \subseteq waitingToReceive /\ ready \cup pendingReady \cup W = ready' \cup pendingReady'
  BY <1>1, HeadsInList DEF MakeReady
<1>6. /\ AwakeInCall(Receiver) \cup W \subseteq AwakeInCall(Receiver)'
      /\ AwakeInCall(Receiver) \cap W = {}
      /\ AwakeInCall(Sender) \subseteq AwakeInCall(Sender)'
  <2>1. \A u \in W : u \in Receiver /\ u \in Task /\ InCall(u) /\ u \notin ready \cup pendingReady
    BY <1>5 DEF Sched, Apart, Placed, Task, TypeOK
  <2> QED BY <1>4, <1>5, <2>1 DEF AwakeInCall, Task
<1>7. /\ IsFiniteSet(AwakeInCall(Receiver)') /\ IsFiniteSet(AwakeInCall(Sender)')
      /\ IsFiniteSet(waitingToReceive)
  BY AwakeFinite, FS_Subset, QueueAssumption DEF TypeOK
<1>8. /\ messages \in Int /\ QueueLength - messages \in Int /\ cTxLock \in Int
      /\ (QueueLength - messages)' = QueueLength - messages
      /\ messages - 0 <= (messages - cTxLock) + cTxLock
      /\ (QueueLength - messages) - 0 <= (QueueLength - messages) - 0
  BY <1>4, CountsAreNumbers
<1>9. ReceiversServed'
  <2>1. Enough(waitingToReceive \ W, AwakeInCall(Receiver)', messages, 0)
    BY <1>1, <1>3, <1>6, <1>7, <1>8, EnoughWoken DEF Served, ReceiversServed
  <2> QED BY <1>1, <1>3, <1>4, <2>1 DEF ReceiversServed, Enough
<1>10. SendersServed'
  <2>1. Enough(waitingToSend, AwakeInCall(Sender)', QueueLength - messages, 0)
    BY <1>6, <1>7, <1>8, StillEnough DEF Served, SendersServed
  <2> QED BY <1>4, <1>8, <2>1 DEF SendersServed, Enough
<1> QED BY <1>9, <1>10 DEF Served

\* Whoever joins a list knows that there is nothing for it yet.
LEMMA PlaceServed ==
  ASSUME TypeOK, TypeOK', LockDiscipline, Sched, AtPlace, Served, NEW t \in Task, PlaceOnEventList(t)
  PROVE Served'
<1>1. /\ \A u \in Task : InCall(u)' <=> InCall(u)
      /\ UNCHANGED <<messages, cTxLock, pendingReady>> /\ ready' = ready \ {t} /\ pc[t] = "place"
  BY DEF PlaceOnEventList, At, Goto, TypeOK, InCall, ring
<1>2. /\ messages \in Int /\ QueueLength - messages \in Int /\ Posts \in Int /\ Posts >= 0
      /\ (QueueLength - messages)' = QueueLength - messages /\ Posts' = Posts
  BY <1>1, CountsAreNumbers DEF Posts
<1>3. IsFiniteSet(AwakeInCall(Receiver)') /\ IsFiniteSet(AwakeInCall(Sender)')
  BY AwakeFinite
<1>4. ASSUME t \in Receiver PROVE Served'
  <2>1. t \notin Sender /\ messages <= Posts /\ waitingToSend' = waitingToSend
    BY <1>1, <1>4, QueueAssumption DEF AtPlace, Posts, PlaceOnEventList, Sched, LockedInside, HoldsLock
  <2>2. AwakeInCall(Sender)' = AwakeInCall(Sender)
    BY <1>1, <2>1 DEF AwakeInCall, Task
  <2>3. Enough(waitingToReceive', AwakeInCall(Receiver)', messages, Posts)
    BY <1>2, <1>3, <2>1, NothingToServe
  <2> QED BY <1>1, <1>2, <2>1, <2>2, <2>3 DEF Served, ReceiversServed, SendersServed, Enough
<1>5. ASSUME t \in Sender PROVE Served'
  <2>1. t \notin Receiver /\ messages = QueueLength /\ waitingToReceive' = waitingToReceive
    BY <1>1, <1>5, QueueAssumption DEF AtPlace, PlaceOnEventList
  <2>2. AwakeInCall(Receiver)' = AwakeInCall(Receiver)
    BY <1>1, <2>1 DEF AwakeInCall, Task
  <2>a. QueueLength - messages <= 0
    BY <2>1, <1>2
  <2>3. Enough(waitingToSend', AwakeInCall(Sender)', QueueLength - messages, 0)
    BY <1>2, <1>3, <2>a, NothingToServe
  <2> QED BY <1>1, <1>2, <2>1, <2>2, <2>3 DEF Served, ReceiversServed, SendersServed, Enough
<1> QED BY <1>4, <1>5 DEF Task

LEMMA BlockServed ==
  ASSUME TypeOK, TypeOK', Served, NEW t \in Task, BlockElsewhere(t)
  PROVE Served'
<1>1. /\ \A u \in Task : InCall(u)' <=> InCall(u)
      /\ UNCHANGED <<messages, cTxLock, pendingReady, waitingToReceive, waitingToSend>>
      /\ ready' = ready \ {t} /\ ~InCall(t)
  BY DEF BlockElsewhere, At, Goto, TypeOK, InCall, ring, events
<1>2. AwakeInCall(Receiver)' = AwakeInCall(Receiver) /\ AwakeInCall(Sender)' = AwakeInCall(Sender)
  BY <1>1 DEF AwakeInCall, Task
<1> QED BY <1>1, <1>2 DEF Served, ReceiversServed, SendersServed, Enough, Posts

LEMMA ResumeServed ==
  ASSUME TypeOK, TypeOK', Served, NEW t \in Task, ResumeAll(t)
  PROVE Served'
<1>1. PICK p \in {"test", "yield", "last"} : Goto(t, p)
  BY DEF ResumeAll
<1>2. \A u \in Task : InCall(u) => InCall(u)'
  BY <1>1 DEF Goto, TypeOK, InCall
<1>3. /\ waitingToReceive' \subseteq waitingToReceive /\ waitingToSend' \subseteq waitingToSend
      /\ ready \cup pendingReady \subseteq ready'
  <2>1. CASE pendedTick
    BY <2>1 DEF ResumeAll, IncrementTick
  <2>2. CASE ~pendedTick
    BY <2>2 DEF ResumeAll, events
  <2> QED BY <2>1, <2>2
<1>4. messages' = messages /\ Posts' = Posts
  BY DEF ResumeAll, Posts, ring
<1> QED BY <1>2, <1>3, <1>4, QuietServed

LEMMA ServedStep ==
  ASSUME TypeOK, TypeOK', LockDiscipline, Sched, AtPlace, Served, NEW t \in Task, Step(t),
         pc[t] = "last" => t \in Receiver
  PROVE Served'
<1>1. ASSUME NEW p, Goto(t, p), p \notin {"out", "elsewhere"},
             UNCHANGED <<ring, cTxLock, events, ready, pendingReady>>
      PROVE Served'
  <2>1. \A u \in Task : InCall(u) => InCall(u)'
    BY <1>1 DEF Goto, TypeOK, InCall
  <2>2. /\ UNCHANGED <<messages, waitingToReceive, waitingToSend, ready, pendingReady>>
        /\ Posts' = Posts
    BY <1>1 DEF ring, events, Posts
  <2> QED BY <2>1, <2>2, QuietServed
<1>2. CASE LockQueue(t)
  <2>1. \A u \in Task : InCall(u) => InCall(u)'
    BY <1>2 DEF LockQueue, Goto, TypeOK, InCall
  <2>2. /\ UNCHANGED <<messages, waitingToReceive, waitingToSend, ready, pendingReady>>
        /\ Posts' = Posts
    BY <1>2 DEF LockQueue, ring, events, sched, Posts, Unlocked, Unmodified
  <2> QED BY <2>1, <2>2, QuietServed
<1>3. CASE GiveUpAtOnce(t)
  BY <1>3, GiveUpServed DEF GiveUpAtOnce
<1>4. CASE Fail(t)
  <2>1. Blocked(t)
    BY <1>4, QueueAssumption DEF Fail, At, Blocked
  <2> QED BY <1>4, <2>1, GiveUpServed DEF Fail
<1>5. CASE TestAgain(t)
  BY <1>1, <1>5 DEF TestAgain, sched
<1>6. CASE Call(t) \/ SetTimeOutState(t) \/ SuspendAll(t) \/ NotExpired(t) \/ Expired(t) \/ Yield(t) \/ Retry(t)
  BY <1>1, <1>6 DEF Call, SetTimeOutState, SuspendAll, NotExpired, Expired, Yield, Retry, sched
<1> QED BY <1>2, <1>3, <1>4, <1>5, <1>6, BlockServed, PlaceServed, UnlockServed, ResumeServed DEF Step

LEMMA ServedNext ==
  ASSUME TypeOK, TypeOK', LockDiscipline, Sched, AtPlace, Served, [Next]_vars,
         \A t \in Task : pc[t] = "last" => t \in Receiver
  PROVE Served'
<1>1. CASE UNCHANGED vars
  <2>1. \A u \in Task : InCall(u) => InCall(u)'
    BY <1>1 DEF vars, InCall
  <2>2. /\ UNCHANGED <<messages, waitingToReceive, waitingToSend, ready, pendingReady>>
        /\ Posts' = Posts
    BY <1>1 DEF vars, ring, events, sched, Posts
  <2> QED BY <2>1, <2>2, QuietServed
<1>2. CASE TickInterrupt
  <2>1. /\ \A u \in Task : InCall(u) => InCall(u)'
        /\ messages' = messages /\ Posts' = Posts
    BY <1>2 DEF TickInterrupt, InCall, ring, Posts
  <2>2. /\ waitingToReceive' \subseteq waitingToReceive /\ waitingToSend' \subseteq waitingToSend
        /\ ready \cup pendingReady \subseteq ready' \cup pendingReady'
    <3>1. CASE suspended
      BY <1>2, <3>1 DEF TickInterrupt, events, sched
    <3>2. CASE ~suspended
      BY <1>2, <3>2 DEF TickInterrupt, IncrementTick
    <3> QED BY <3>1, <3>2
  <2> QED BY <2>1, <2>2, QuietServed
<1>3. ASSUME NEW t \in Task, ReadyAgain(t) PROVE Served'
  <2>1. \A u \in Task : InCall(u) => InCall(u)'
    BY <1>3 DEF ReadyAgain, Goto, TypeOK, InCall
  <2>2. /\ UNCHANGED <<messages, waitingToReceive, waitingToSend>> /\ Posts' = Posts
        /\ ready \cup pendingReady \subseteq ready' \cup pendingReady'
    BY <1>3 DEF ReadyAgain, MakeReady, ring, events, Posts
  <2> QED BY <2>1, <2>2, QuietServed
<1> QED BY <1>1, <1>2, <1>3, SendServed, ReceiveServed, IsrServed, ServedStep DEF Next, Run, Event

-----------------------------------------------------------------------------
(* The time of a call.  The ticks counted since the entry was noted cover what has been
   taken off the remaining time, and besides them the age of the time noted last, with the
   tick that is pended.  So a call whose time is over has waited for all of it. *)
Age(t) == tick - timeOut[t].time + (IF timeOut[t].overflowed THEN TickMod ELSE 0)
Pended == IF pendedTick THEN 1 ELSE 0
Measured(t) ==
  /\ asked[t] # Forever
  /\ timeOut[t].overflowed \/ timeOut[t].time <= tick
  /\ waited[t] >= asked[t] \/ waited[t] >= asked[t] - ticksToWait[t] + Age(t) + Pended
InTime(t) ==
  /\ entryTimeSet[t] => Measured(t)
  /\ ~entryTimeSet[t] => ticksToWait[t] = asked[t]
  /\ ticksToWait[t] <= asked[t]
  /\ ~InCall(t) => ~entryTimeSet[t] /\ verdict[t] = "again"
  /\ MaySleep(t) /\ Timed(t) => entryTimeSet[t]
  /\ verdict[t] = "expired" => asked[t] \notin {0, Forever} /\ waited[t] >= asked[t]
  /\ pc[t] = "last" => verdict[t] = "expired"
  /\ t \in Sender => asked[t] \in {0, Forever}
Clocked == \A t \in Task : InTime(t)

\* The state of one call.
Same(t) == /\ pc'[t] = pc[t] /\ ticksToWait'[t] = ticksToWait[t] /\ entryTimeSet'[t] = entryTimeSet[t]
           /\ verdict'[t] = verdict[t] /\ asked'[t] = asked[t]
SameCall(t) == Same(t) /\ timeOut'[t] = timeOut[t] /\ waited'[t] = waited[t]

LEMMA TimeTypes ==
  ASSUME TypeOK, NEW t \in Task
  PROVE /\ tick \in 0..TickMod - 1 /\ TickMod \in Nat /\ TickMod > 1 /\ Forever = TickMod - 1
        /\ timeOut[t].time \in 0..TickMod - 1 /\ timeOut[t].overflowed \in BOOLEAN
        /\ ticksToWait[t] \in 0..Forever /\ asked[t] \in 0..Forever /\ waited[t] \in 0..TickMod
        /\ entryTimeSet[t] \in BOOLEAN /\ Pended \in {0, 1} /\ Age(t) \in Int
<1>1. /\ tick \in 0..TickMod - 1 /\ TickMod \in Nat /\ TickMod > 1
      /\ timeOut[t].time \in 0..TickMod - 1 /\ timeOut[t].overflowed \in BOOLEAN
  BY QueueAssumption DEF TypeOK
<1>2. Age(t) \in Int
  BY <1>1 DEF Age
<1> QED BY <1>1, <1>2 DEF TypeOK, Forever, Pended

LEMMA SameInTime ==
  ASSUME TypeOK, NEW t \in Task, InTime(t), SameCall(t), UNCHANGED <<tick, pendedTick>>
  PROVE InTime(t)'
BY DEF InTime, SameCall, Same, Measured, Age, Pended, InCall, MaySleep, Timed

\* A tick ages what was noted by one at most, and a wrap is noted too.
LEMMA TickAges ==
  ASSUME TypeOK, NEW d, NEW R, IncrementTick(d, R), NEW t \in Task, entryTimeSet[t],
         timeOut[t].overflowed \/ timeOut[t].time <= tick
  PROVE /\ Age(t)' <= Age(t) + 1
        /\ timeOut'[t].overflowed \/ timeOut'[t].time <= tick'
<1>1. /\ tick' = NextTick
      /\ timeOut'[t].time = timeOut[t].time
      /\ timeOut'[t].overflowed = (timeOut[t].overflowed \/ NextTick = 0)
  <2>1. timeOut'[t] = [timeOut[t] EXCEPT !.overflowed = @ \/ (NextTick = 0 /\ entryTimeSet[t])]
    BY DEF IncrementTick
  <2>2. timeOut[t] \in [time : 0..TickMod - 1, overflowed : BOOLEAN]
    BY DEF TypeOK
  <2>3. /\ timeOut'[t].time = timeOut[t].time
        /\ timeOut'[t].overflowed = (timeOut[t].overflowed \/ (NextTick = 0 /\ entryTimeSet[t]))
    BY <2>1, <2>2
  <2>4. (NextTick = 0 /\ entryTimeSet[t]) = (NextTick = 0)
    OBVIOUS
  <2> QED BY <2>3, <2>4 DEF IncrementTick
<1>2. /\ tick \in 0..TickMod - 1 /\ TickMod \in Nat /\ TickMod > 1
      /\ timeOut[t].time \in 0..TickMod - 1
  BY TimeTypes
<1>3. CASE tick = TickMod - 1
  <2>1. NextTick = 0
    BY <1>2, <1>3 DEF NextTick, Wrap
  <2>2. tick' = 0 /\ timeOut'[t].overflowed
    BY <1>1, <2>1
  <2>3. Age(t)' = TickMod - timeOut[t].time
    BY <1>1, <1>2, <2>2 DEF Age
  <2>4. Age(t) >= tick - timeOut[t].time
    BY <1>2 DEF Age
  <2>5. Age(t) \in Int
    BY TimeTypes
  <2> QED BY <1>2, <1>3, <2>2, <2>3, <2>4, <2>5
<1>4. CASE tick # TickMod - 1
  <2>1. NextTick = tick + 1 /\ NextTick # 0
    BY <1>2, <1>4 DEF NextTick, Wrap
  <2>2. timeOut'[t].overflowed = timeOut[t].overflowed
    <3>1. timeOut[t].overflowed \in BOOLEAN
      BY TimeTypes
    <3> QED BY <1>1, <2>1, <3>1, Zenon
  <2>3. Age(t)' = Age(t) + 1
    BY <1>1, <1>2, <2>1, <2>2 DEF Age
  <2>4. timeOut'[t].overflowed \/ timeOut'[t].time <= tick'
    <3>1. timeOut[t].time <= tick => timeOut'[t].time <= tick'
      BY <1>1, <1>2, <2>1
    <3> QED BY <2>2, <3>1, Zenon
  <2>5. Age(t) \in Int
    BY TimeTypes
  <2>6. Age(t)' <= Age(t) + 1
    BY <2>3, <2>5
  <2> QED BY <2>4, <2>6
<1> QED BY <1>3, <1>4

\* The tick interrupt: what is not counted now is pended, and each of them is waited.
LEMMA TickInTime ==
  ASSUME TypeOK, TypeOK', LockDiscipline, Clocked, TickInterrupt
  PROVE Clocked'
<1> SUFFICES ASSUME NEW t \in Task PROVE InTime(t)'
  BY DEF Clocked
<1>1. InTime(t)
  BY DEF Clocked
<1>2. /\ Same(t)
      /\ waited'[t] = IF entryTimeSet[t] /\ waited[t] < TickMod THEN waited[t] + 1 ELSE waited[t]
  BY DEF TickInterrupt, Same
<1>3. /\ ticksToWait[t] \in Int /\ asked[t] \in Int /\ waited[t] \in Int /\ Pended \in Int /\ Age(t) \in Int
      /\ TickMod \in Int /\ asked[t] <= TickMod /\ waited[t] <= TickMod
  BY TimeTypes
<1>4. waited'[t] >= waited[t] /\ (waited[t] >= asked[t] => waited'[t] >= asked[t])
  BY <1>2, <1>3
<1>5. ASSUME entryTimeSet[t] PROVE Measured(t)'
  <2>1. waited'[t] >= asked[t] \/ waited'[t] = waited[t] + 1
    BY <1>2, <1>3, <1>5
  <2>2. Measured(t)
    BY <1>1, <1>5 DEF InTime
  <2>3. CASE suspended
    <3>1. Pended' = Pended + 1 /\ UNCHANGED <<tick, timeOut>>
      BY <1>5, <2>3 DEF TickInterrupt, Pended
    <3>2. Age(t)' = Age(t)
      BY <3>1 DEF Age
    <3>3. waited'[t] >= asked[t] \/ waited'[t] >= asked[t] - ticksToWait[t] + Age(t) + (Pended + 1)
      BY <1>3, <1>4, <2>1, <2>2 DEF Measured
    <3> QED BY <1>2, <2>2, <3>1, <3>2, <3>3 DEF Measured, Same
  <2>4. CASE ~suspended
    <3>1. IncrementTick(delayed, ready) /\ ~pendedTick /\ ~pendedTick'
      BY <2>4 DEF TickInterrupt, LockDiscipline
    <3>2. /\ Age(t)' <= Age(t) + 1
          /\ timeOut'[t].overflowed \/ timeOut'[t].time <= tick'
      BY <1>5, <2>2, <3>1, TickAges DEF Measured
    <3>3. Pended = 0 /\ Pended' = 0
      BY <3>1 DEF Pended
    <3>4. Age(t)' \in Int
      <4>1. /\ tick' \in 0..TickMod - 1 /\ TickMod \in Nat /\ timeOut'[t].time \in 0..TickMod - 1
        BY QueueAssumption DEF TypeOK
      <4> QED BY <4>1 DEF Age
    <3>5. waited'[t] >= asked[t] \/ waited'[t] >= asked[t] - ticksToWait[t] + Age(t)' + 0
      BY <1>3, <1>4, <2>1, <2>2, <3>2, <3>3, <3>4 DEF Measured
    <3> QED BY <1>2, <2>2, <3>2, <3>3, <3>5 DEF Measured, Same
  <2> QED BY <2>3, <2>4
<1> QED BY <1>1, <1>2, <1>4, <1>5 DEF InTime, Same, InCall, MaySleep, Timed

\* The pended tick is counted when the scheduler resumes.
LEMMA ResumeInTime ==
  ASSUME TypeOK, TypeOK', Clocked, NEW r \in Task, ResumeAll(r)
  PROVE Clocked'
<1> SUFFICES ASSUME NEW t \in Task PROVE InTime(t)'
  BY DEF Clocked
<1>1. InTime(t)
  BY DEF Clocked
<1>2. /\ ticksToWait'[t] = ticksToWait[t] /\ entryTimeSet'[t] = entryTimeSet[t]
      /\ verdict'[t] = verdict[t] /\ asked'[t] = asked[t] /\ waited'[t] = waited[t]
      /\ ~pendedTick'
  BY DEF ResumeAll, history
<1>3. PICK p \in {"test", "yield", "last"} : Goto(r, p) /\ (p = "last" => verdict[r] = "expired")
  BY DEF ResumeAll
<1>4. pc'[t] = (IF t = r THEN p ELSE pc[t]) /\ pc[r] = "resume"
  BY <1>3 DEF Goto, TypeOK, ResumeAll, At
<1>5. /\ ticksToWait[t] \in Int /\ asked[t] \in Int /\ waited[t] \in Int /\ Pended \in Int /\ Age(t) \in Int
  BY TimeTypes
<1>6. ASSUME entryTimeSet[t] PROVE Measured(t)'
  <2>2. Measured(t)
    BY <1>1, <1>6 DEF InTime
  <2>a. Pended' = 0
    BY <1>2 DEF Pended
  <2>3. /\ Age(t)' <= Age(t) + Pended /\ Age(t)' \in Int
        /\ timeOut'[t].overflowed \/ timeOut'[t].time <= tick'
    <3>1. CASE pendedTick
      <4>1. PICK d, R : IncrementTick(d, R)
        BY <3>1 DEF ResumeAll
      <4>2. /\ Age(t)' <= Age(t) + 1
            /\ timeOut'[t].overflowed \/ timeOut'[t].time <= tick'
        BY <1>6, <2>2, <4>1, TickAges DEF Measured
      <4>3. /\ tick' \in 0..TickMod - 1 /\ TickMod \in Nat /\ timeOut'[t].time \in 0..TickMod - 1
        BY QueueAssumption DEF TypeOK
      <4>4. Age(t)' \in Int
        BY <4>3 DEF Age
      <4>5. Pended = 1
        BY <3>1 DEF Pended
      <4> QED BY <4>2, <4>4, <4>5
    <3>2. CASE ~pendedTick
      <4>1. UNCHANGED <<tick, timeOut>> /\ Pended = 0
        BY <3>2 DEF ResumeAll, Pended
      <4>2. Age(t)' = Age(t)
        BY <4>1 DEF Age
      <4> QED BY <1>5, <2>2, <4>1, <4>2 DEF Measured
    <3> QED BY <3>1, <3>2
  <2>4. waited[t] >= asked[t] \/ waited[t] >= asked[t] - ticksToWait[t] + Age(t)' + 0
    BY <1>5, <2>2, <2>3 DEF Measured
  <2> QED BY <1>2, <2>2, <2>a, <2>3, <2>4 DEF Measured
<1> QED BY <1>1, <1>2, <1>3, <1>4, <1>6 DEF InTime, InCall, MaySleep, Timed

\* A call begins and ends with nothing noted.
LEMMA ReturnInTime ==
  ASSUME TypeOK, Clocked, NEW t \in Task, Return(t), UNCHANGED <<tick, pendedTick>>
  PROVE Clocked'
<1> SUFFICES ASSUME NEW u \in Task PROVE InTime(u)'
  BY DEF Clocked
<1>1. CASE u = t
  <2>1. /\ pc'[u] = "out" /\ ticksToWait'[u] = 0 /\ ~entryTimeSet'[u] /\ verdict'[u] = "again" /\ asked'[u] = 0
    BY <1>1 DEF Return, Goto, TypeOK
  <2> QED BY <2>1 DEF InTime, InCall, MaySleep
<1>2. CASE u # t
  <2>1. SameCall(u)
    BY <1>2 DEF Return, Goto, TypeOK, SameCall, Same
  <2> QED BY <2>1, SameInTime DEF Clocked
<1> QED BY <1>1, <1>2

\* A step of a call between its tests changes only where it is.
LEMMA MoveInTime ==
  ASSUME TypeOK, Clocked, NEW t \in Task, NEW p, Goto(t, p),
         UNCHANGED <<tick, pendedTick, ticksToWait, entryTimeSet, timeOut, asked, waited>>,
         \A u \in Task : u # t => verdict'[u] = verdict[u],
         /\ verdict'[t] = "expired" => asked[t] \notin {0, Forever} /\ waited[t] >= asked[t]
         /\ p = "last" => verdict'[t] = "expired"
         /\ p \in {"out", "elsewhere"} => ~entryTimeSet[t] /\ verdict'[t] = "again"
         /\ p \in {"suspend", "lock", "check", "blocked", "place"} /\ Timed(t) => entryTimeSet[t]
  PROVE Clocked'
<1> SUFFICES ASSUME NEW u \in Task PROVE InTime(u)'
  BY DEF Clocked
<1>0. InTime(u)
  BY DEF Clocked
<1>1. CASE u = t
  <2>1. pc'[u] = p
    BY <1>1 DEF Goto, TypeOK
  <2>2. Measured(u)' <=> Measured(u)
    BY DEF Measured, Age, Pended
  <2> QED BY <1>0, <1>1, <2>1, <2>2 DEF InTime, InCall, MaySleep, Timed
<1>2. CASE u # t
  <2>1. SameCall(u)
    BY <1>2 DEF Goto, TypeOK, SameCall, Same
  <2> QED BY <1>0, <2>1, SameInTime
<1> QED BY <1>1, <1>2

LEMMA CallInTime ==
  ASSUME TypeOK, Clocked, NEW t \in Task, Call(t) PROVE Clocked'
<1>1. PICK w \in Waits[t] : ticksToWait' = [ticksToWait EXCEPT ![t] = w] /\ asked' = [asked EXCEPT ![t] = w]
  BY DEF Call
<1> SUFFICES ASSUME NEW u \in Task PROVE InTime(u)'
  BY DEF Clocked
<1>0. InTime(u)
  BY DEF Clocked
<1>2. w \in Int /\ (t \in Sender => w \in {0, Forever})
  BY <1>1, QueueAssumption DEF Forever
<1>3. UNCHANGED <<tick, pendedTick, entryTimeSet, timeOut, verdict, waited>> /\ pc[t] = "out"
  BY DEF Call, At, clock
<1>4. CASE u = t
  <2>1. pc'[u] = "test" /\ ticksToWait'[u] = w /\ asked'[u] = w /\ ~entryTimeSet'[u] /\ verdict'[u] = "again"
    BY <1>0, <1>1, <1>3, <1>4 DEF Call, Goto, TypeOK, InTime, InCall
  <2> QED BY <1>2, <1>4, <2>1 DEF InTime, InCall, MaySleep
<1>5. CASE u # t
  <2>1. SameCall(u)
    BY <1>1, <1>3, <1>5 DEF Call, Goto, TypeOK, SameCall, Same
  <2> QED BY <1>0, <1>3, <2>1, SameInTime
<1> QED BY <1>4, <1>5

\* The entry is noted once, and then the call has all of its time.
LEMMA NoteInTime ==
  ASSUME TypeOK, LockDiscipline, Sched, Clocked, NEW t \in Task, SetTimeOutState(t) PROVE Clocked'
<1> SUFFICES ASSUME NEW u \in Task PROVE InTime(u)'
  BY DEF Clocked
<1>0. InTime(u)
  BY DEF Clocked
<1>1. UNCHANGED <<tick, pendedTick, ticksToWait, verdict, asked, waited>> /\ pc[t] = "test"
  BY DEF SetTimeOutState, At, clock, history
<1>2. CASE u = t
  <2>1. pc'[u] = "suspend" /\ entryTimeSet'[u] = Timed(u)
    BY <1>2 DEF SetTimeOutState, Goto, TypeOK
  <2>2. /\ ticksToWait[u] \in 0..Forever /\ asked[u] \in 0..Forever /\ waited[u] \in Int /\ tick \in Int
    BY TimeTypes
  <2>3. entryTimeSet[u] => Timed(u)
    BY <1>0, <2>2 DEF InTime, Measured, Timed, Forever
  <2>4. Timed(u) => Measured(u)'
    <3>1. CASE entryTimeSet[u]
      <4>1. timeOut' = timeOut
        BY <1>2, <3>1 DEF SetTimeOutState
      <4> QED BY <1>0, <1>1, <3>1, <4>1 DEF InTime, Measured, Age, Pended
    <3>2. CASE ~entryTimeSet[u] /\ Timed(u)
      <4>1. timeOut'[u] = [time |-> tick, overflowed |-> FALSE]
        BY <1>2, <3>2 DEF SetTimeOutState, TypeOK
      <4>2. ~pendedTick
        BY <1>1, <1>2, RunsFreely DEF SetTimeOutState, At
      <4>3. Age(u)' = 0 /\ Pended' = 0
        BY <1>1, <2>2, <4>1, <4>2 DEF Age, Pended
      <4>4. ticksToWait[u] = asked[u]
        BY <1>0, <3>2 DEF InTime
      <4>5. waited[u] >= 0
        BY TimeTypes
      <4>6. waited[u] >= asked[u] - ticksToWait[u] + 0 + 0
        BY <2>2, <4>4, <4>5 DEF Forever
      <4>7. asked[u] # Forever
        BY <3>2, <4>4 DEF Timed
      <4>8. timeOut'[u].time <= tick'
        BY <1>1, <2>2, <4>1
      <4> QED BY <1>1, <4>1, <4>3, <4>6, <4>7, <4>8 DEF Measured
    <3> QED BY <3>1, <3>2
  <2>5. ~Timed(u) => ticksToWait[u] = asked[u]
    BY <1>0, <2>3 DEF InTime
  <2>6. Timed(u)' = Timed(u)
    BY <1>1 DEF Timed
  <2>7. verdict[u] = "expired" => asked[u] \notin {0, Forever} /\ waited[u] >= asked[u]
    BY <1>0 DEF InTime
  <2> QED BY <1>0, <1>1, <2>1, <2>4, <2>5, <2>6, <2>7 DEF InTime, InCall, MaySleep
<1>3. CASE u # t
  <2>1. SameCall(u)
    BY <1>1, <1>3 DEF SetTimeOutState, Goto, TypeOK, SameCall, Same
  <2> QED BY <1>0, <1>1, <2>1, SameInTime
<1> QED BY <1>2, <1>3

\* What has elapsed: the age of the time noted, unless the count has come all the way round.
LEMMA ElapsedIsAge ==
  ASSUME TypeOK, NEW t \in Task, Measured(t)
  PROVE /\ ~WrappedAround(t) => Elapsed(t) = Age(t)
        /\ WrappedAround(t) => Age(t) >= TickMod
        /\ Elapsed(t) >= 0
<1>1. /\ tick \in 0..TickMod - 1 /\ TickMod \in Nat /\ timeOut[t].time \in 0..TickMod - 1
      /\ timeOut[t].overflowed \in BOOLEAN
  BY TimeTypes
<1>2. CASE timeOut[t].overflowed
  BY <1>1, <1>2 DEF Elapsed, Age, WrappedAround, Wrap
<1>3. CASE ~timeOut[t].overflowed
  BY <1>1, <1>3 DEF Measured, Elapsed, Age, WrappedAround, Wrap
<1> QED BY <1>2, <1>3

LEMMA NotExpiredInTime ==
  ASSUME TypeOK, Clocked, NEW t \in Task, NotExpired(t) PROVE Clocked'
<1> SUFFICES ASSUME NEW u \in Task PROVE InTime(u)'
  BY DEF Clocked
<1>0. InTime(u)
  BY DEF Clocked
<1>1. UNCHANGED <<tick, pendedTick, entryTimeSet, verdict, asked, waited>> /\ pc[t] = "check"
  BY DEF NotExpired, At, clock, history
<1>2. CASE u = t /\ ~Timed(t)
  <2>1. UNCHANGED <<ticksToWait, timeOut>> /\ pc'[u] = "blocked"
    BY <1>2 DEF NotExpired, Goto, TypeOK
  <2>2. Measured(u)' <=> Measured(u)
    BY <1>1, <2>1 DEF Measured, Age, Pended
  <2> QED BY <1>0, <1>1, <1>2, <2>1, <2>2 DEF InTime, InCall, MaySleep, Timed
<1>3. CASE u = t /\ Timed(t)
  <2>1. /\ ~WrappedAround(u) /\ Elapsed(u) < ticksToWait[u]
        /\ ticksToWait' = [ticksToWait EXCEPT ![u] = @ - Elapsed(u)]
        /\ timeOut' = [timeOut EXCEPT ![u] = [time |-> tick, overflowed |-> FALSE]]
        /\ pc'[u] = "blocked"
    BY <1>3 DEF NotExpired, Goto, TypeOK
  <2>2. ticksToWait'[u] = ticksToWait[u] - Elapsed(u) /\ timeOut'[u] = [time |-> tick, overflowed |-> FALSE]
    BY <2>1 DEF TypeOK
  <2>3. entryTimeSet[u] /\ Measured(u)
    BY <1>0, <1>1, <1>3 DEF InTime, MaySleep
  <2>4. Elapsed(u) = Age(u) /\ Elapsed(u) >= 0
    BY <2>1, <2>3, ElapsedIsAge
  <2>5. /\ ticksToWait[u] \in 0..Forever /\ asked[u] \in 0..Forever /\ waited[u] \in Int /\ tick \in Int
        /\ Age(u) \in Int /\ Pended \in Int /\ Forever \in Int
    BY TimeTypes DEF Forever
  <2>6. Age(u)' = 0 /\ Pended' = Pended
    BY <1>1, <2>2, <2>5 DEF Age, Pended
  <2>7. waited[u] >= asked[u] \/ waited[u] >= asked[u] - ticksToWait'[u] + 0 + Pended
    BY <2>2, <2>3, <2>4, <2>5 DEF Measured
  <2>8. timeOut'[u].time <= tick'
    BY <1>1, <2>2, <2>5
  <2>9. Measured(u)'
    BY <1>1, <2>3, <2>6, <2>7, <2>8 DEF Measured
  <2>10. ticksToWait'[u] <= asked[u]
    BY <1>0, <2>2, <2>4, <2>5 DEF InTime
  <2> QED BY <1>0, <1>1, <2>1, <2>3, <2>9, <2>10 DEF InTime, InCall, MaySleep
<1>4. CASE u # t
  <2>1. SameCall(u)
    BY <1>1, <1>4 DEF NotExpired, Goto, TypeOK, SameCall, Same
  <2> QED BY <1>0, <1>1, <2>1, SameInTime
<1> QED BY <1>2, <1>3, <1>4

\* A time that is over was waited for.
LEMMA ExpiredInTime ==
  ASSUME TypeOK, Clocked, TimeLeft, NEW t \in Task, Expired(t) PROVE Clocked'
<1> SUFFICES ASSUME NEW u \in Task PROVE InTime(u)'
  BY DEF Clocked
<1>0. InTime(u)
  BY DEF Clocked
<1>1. UNCHANGED <<tick, pendedTick, entryTimeSet, timeOut, asked, waited>> /\ pc[t] = "check"
  BY DEF Expired, At, clock, history
<1>2. CASE u = t
  <2>1. /\ Timed(u) /\ (WrappedAround(u) \/ Elapsed(u) >= ticksToWait[u])
        /\ ticksToWait'[u] = (IF WrappedAround(u) THEN ticksToWait[u] ELSE 0)
        /\ pc'[u] = "unlock" /\ verdict'[u] = "expired"
    BY <1>2 DEF Expired, Goto, TypeOK
  <2>3. entryTimeSet[u] /\ Measured(u) /\ ticksToWait[u] > 0 /\ ticksToWait[u] <= asked[u]
    BY <1>0, <1>1, <1>2, <2>1 DEF InTime, MaySleep, TimeLeft
  <2>4. /\ ~WrappedAround(u) => Elapsed(u) = Age(u)
        /\ WrappedAround(u) => Age(u) >= TickMod
    BY <2>3, ElapsedIsAge
  <2>5. /\ ticksToWait[u] \in 0..Forever /\ asked[u] \in 0..Forever /\ waited[u] \in Int /\ TickMod \in Int
        /\ Age(u) \in Int /\ Pended \in {0, 1} /\ Forever = TickMod - 1
    BY TimeTypes
  <2>6. waited[u] >= asked[u]
    <3>1. CASE WrappedAround(u)
      BY <2>3, <2>4, <2>5, <3>1 DEF Measured
    <3>2. CASE ~WrappedAround(u)
      <4>1. Age(u) >= ticksToWait[u]
        BY <2>1, <2>4, <3>2
      <4> QED BY <2>3, <2>5, <4>1 DEF Measured
    <3> QED BY <3>1, <3>2
  <2>7. asked[u] \notin {0, Forever} /\ ticksToWait'[u] <= asked[u]
    BY <2>1, <2>3, <2>5 DEF Measured
  <2>8. Measured(u)'
    BY <1>1, <2>3, <2>6 DEF Measured
  <2> QED BY <1>0, <1>1, <2>1, <2>3, <2>6, <2>7, <2>8 DEF InTime, InCall, MaySleep
<1>3. CASE u # t
  <2>1. SameCall(u)
    BY <1>1, <1>3 DEF Expired, Goto, TypeOK, SameCall, Same
  <2> QED BY <1>0, <1>1, <2>1, SameInTime
<1> QED BY <1>2, <1>3

LEMMA StepInTime ==
  ASSUME TypeOK, TypeOK', LockDiscipline, Sched, TimeLeft, Clocked, NEW t \in Task, Step(t) PROVE Clocked'
<1>0. InTime(t)
  BY DEF Clocked
<1>1. CASE BlockElsewhere(t)
  BY <1>0, <1>1, MoveInTime DEF BlockElsewhere, At, InTime, InCall, clock, locals, history
<1>2. CASE Call(t)
  BY <1>2, CallInTime
<1>3. CASE GiveUpAtOnce(t) \/ Fail(t)
  BY <1>3, ReturnInTime DEF GiveUpAtOnce, Fail, clock
<1>4. CASE SetTimeOutState(t)
  BY <1>4, NoteInTime
<1>5. CASE SuspendAll(t)
  BY <1>0, <1>5, MoveInTime DEF SuspendAll, At, InTime, MaySleep, clock, locals, history
<1>6. CASE LockQueue(t)
  BY <1>0, <1>6, MoveInTime DEF LockQueue, At, InTime, MaySleep, clock, locals, history
<1>7. CASE NotExpired(t)
  BY <1>7, NotExpiredInTime
<1>8. CASE Expired(t)
  BY <1>8, ExpiredInTime
<1>9. CASE TestAgain(t)
  <2>1. PICK p \in {"place", "unlock"} : Goto(t, p)
    BY <1>9 DEF TestAgain
  <2>2. /\ verdict'[t] \in {"sleep", "again"} /\ \A u \in Task : u # t => verdict'[u] = verdict[u]
        /\ pc[t] = "blocked"
        /\ UNCHANGED <<tick, pendedTick, ticksToWait, entryTimeSet, timeOut, asked, waited>>
    BY <1>9 DEF TestAgain, TypeOK, At, clock, history
  <2> QED BY <1>0, <2>1, <2>2, MoveInTime DEF InTime, MaySleep
<1>10. CASE PlaceOnEventList(t)
  BY <1>0, <1>10, MoveInTime DEF PlaceOnEventList, At, InTime, locals, history
<1>11. CASE UnlockQueue(t)
  BY <1>0, <1>11, MoveInTime DEF UnlockQueue, At, InTime, locals, history
<1>12. CASE ResumeAll(t)
  BY <1>12, ResumeInTime
<1>13. CASE Yield(t)
  BY <1>0, <1>13, MoveInTime DEF Yield, At, InTime, clock, locals, history
<1>14. CASE Retry(t)
  BY <1>0, <1>14, MoveInTime DEF Retry, At, InTime, clock, locals, history
<1> QED BY <1>1, <1>2, <1>3, <1>4, <1>5, <1>6, <1>7, <1>8, <1>9, <1>10, <1>11, <1>12, <1>13, <1>14 DEF Step

LEMMA ClockedNext ==
  ASSUME TypeOK, TypeOK', LockDiscipline, Sched, TimeLeft, Clocked, [Next]_vars PROVE Clocked'
<1>1. CASE UNCHANGED vars
  <2>1. \A u \in Task : SameCall(u)
    BY <1>1 DEF vars, locals, history, SameCall, Same
  <2>2. UNCHANGED <<tick, pendedTick>>
    BY <1>1 DEF vars, clock
  <2> QED BY <2>1, <2>2, SameInTime DEF Clocked
<1>2. ASSUME NEW t \in Sender, SendNow(t) PROVE Clocked'
  BY <1>2, ReturnInTime DEF SendNow, Task
<1>3. ASSUME NEW t \in Receiver, ReceiveNow(t) PROVE Clocked'
  BY <1>3, ReturnInTime DEF ReceiveNow, Task
<1>4. CASE SendFromISR
  <2>1. \A u \in Task : SameCall(u)
    BY <1>4 DEF SendFromISR, locals, history, SameCall, Same
  <2>2. UNCHANGED <<tick, pendedTick>>
    BY <1>4 DEF SendFromISR
  <2> QED BY <2>1, <2>2, SameInTime DEF Clocked
<1>5. ASSUME NEW t \in Task, ReadyAgain(t) PROVE Clocked'
  <2>1. InTime(t)
    BY DEF Clocked
  <2> QED BY <1>5, <2>1, MoveInTime DEF ReadyAgain, InTime, InCall, locals, history
<1> QED BY <1>1, <1>2, <1>3, <1>4, <1>5, StepInTime, TickInTime DEF Next, Run, Event

-----------------------------------------------------------------------------
\* All of this together is inductive over IInv.
WInv == Sched /\ AtPlace /\ Clocked /\ Served

LEMMA WakeInit == Init => WInv
<1> SUFFICES ASSUME Init PROVE WInv
  OBVIOUS
<1>1. Sched
  <2>1. \A t \in Task : pc[t] = "out" /\ delayed[t].list = "no"
    BY DEF Init, Awake
  <2>2. cur \in ready /\ ~suspended /\ pendingReady = {} /\ waitingToReceive = {} /\ waitingToSend = {}
    BY DEF Init, Top
  <2> QED BY <2>1, <2>2 DEF Sched, LockedInside, Suspension, RunnerReady, Apart, Placed, HoldsLock
<1>2. AtPlace
  BY DEF Init, AtPlace
<1>3. Clocked
  BY DEF Init, Clocked, InTime, MaySleep
<1>4. Served
  BY DEF Init, Served, ReceiversServed, SendersServed, Enough
<1> QED BY <1>1, <1>2, <1>3, <1>4 DEF WInv

\* Whoever looks once more has a time that is over, and no sender has.
LEMMA LastReceives == ASSUME Clocked, NEW t \in Task, pc[t] = "last" PROVE t \in Receiver
BY DEF Clocked, InTime, Task

THEOREM WakeInvariance == Spec => []WInv
<1>1. IInv /\ IInv' /\ WInv /\ [Next]_vars => WInv'
  <2> SUFFICES ASSUME IInv, IInv', WInv, [Next]_vars PROVE WInv'
    OBVIOUS
  <2>1. TypeOK /\ TypeOK' /\ LockDiscipline /\ TimeLeft /\ Sched /\ AtPlace /\ Clocked /\ Served
    BY DEF IInv, WInv
  <2>2. Sched'
    BY <2>1, PlacesNext, SectionNext, RunnerNext DEF Sched, SectionKept
  <2>3. AtPlace'
    BY <2>1, AtPlaceNext
  <2>4. Clocked'
    BY <2>1, ClockedNext
  <2>5. Served'
    BY <2>1, ServedNext, LastReceives
  <2> QED BY <2>2, <2>3, <2>4, <2>5 DEF WInv
<1> QED BY <1>1, WakeInit, Invariance, PTL DEF Spec

(* No wake-up is lost between the test of a call and its place on the event list. *)
THEOREM NoWakeupLost == Spec => []NoSleeperForgotten
<1>1. IInv /\ WInv => NoSleeperForgotten
  <2> SUFFICES ASSUME IInv, WInv PROVE NoSleeperForgotten
    OBVIOUS
  <2>1. IsFiniteSet(AwakeInCall(Receiver)) /\ IsFiniteSet(AwakeInCall(Sender))
    BY AwakeFinite
  <2>2. Cardinality(AwakeInCall(Receiver)) \in Nat /\ Cardinality(AwakeInCall(Sender)) \in Nat
    BY <2>1, FS_CardinalityType
  <2> QED BY <2>2 DEF WInv, Served, ReceiversServed, SendersServed, Enough, Posts, NoSleeperForgotten
<1> QED BY <1>1, Invariance, WakeInvariance, PTL

\* The two ways to give up.
LEMMA GivingUp ==
  ASSUME TypeOK, [Next]_vars, NEW t \in Task, GivesUp(t)
  PROVE GiveUpAtOnce(t) \/ Fail(t)
<1>1. InCall(t) /\ pc'[t] = "out" /\ messages' = messages /\ pc'[t] # pc[t]
  BY DEF GivesUp, InCall
<1>2. messages \in Int
  BY QueueAssumption DEF TypeOK
<1>3. CASE UNCHANGED vars
  BY <1>1, <1>3 DEF vars
<1>4. ASSUME NEW u \in Task, Step(u) PROVE GiveUpAtOnce(t) \/ Fail(t)
  <2>1. PICK p \in Points : Goto(u, p) /\ (p = "out" => GiveUpAtOnce(u) \/ Fail(u))
    <3>1. CASE ResumeAll(u)
      BY <3>1 DEF ResumeAll, Points
    <3>2. CASE TestAgain(u)
      BY <3>2 DEF TestAgain, Points
    <3>3. CASE ~ResumeAll(u) /\ ~TestAgain(u)
      BY <1>4, <3>3 DEF Step, BlockElsewhere, Call, GiveUpAtOnce, SetTimeOutState, SuspendAll, LockQueue,
         NotExpired, Expired, PlaceOnEventList, UnlockQueue, Yield, Fail, Retry, Return, Points
    <3> QED BY <3>1, <3>2, <3>3
  <2>2. u = t /\ p = "out"
    BY <1>1, <2>1 DEF Goto, TypeOK
  <2> QED BY <2>1, <2>2
<1>5. ASSUME NEW u \in Sender, SendNow(u) PROVE FALSE
  BY <1>1, <1>2, <1>5 DEF SendNow, CopyDataToQueue
<1>6. ASSUME NEW u \in Receiver, ReceiveNow(u) PROVE FALSE
  BY <1>1, <1>2, <1>6 DEF ReceiveNow, CopyDataFromQueue
<1>7. ~TickInterrupt /\ ~SendFromISR
  BY <1>1 DEF TickInterrupt, SendFromISR
<1>8. ASSUME NEW u \in Task, ReadyAgain(u) PROVE FALSE
  BY <1>1, <1>8 DEF ReadyAgain, Goto, TypeOK, InCall
<1> QED BY <1>3, <1>4, <1>5, <1>6, <1>7, <1>8 DEF Next, Run, Event

(* No call gives up before it has waited for as long as it was asked to, whatever the
   tick count does meanwhile, and one that is to wait for ever never gives up. *)
THEOREM GivesUpInTime == Spec => NeverEarly
<1>1. IInv /\ WInv /\ [Next]_vars => [\A t \in Task : GivesUp(t) => asked[t] # Forever /\ waited[t] >= asked[t]]_vars
  <2> SUFFICES ASSUME IInv, WInv, [Next]_vars, NEW t \in Task, GivesUp(t)
               PROVE asked[t] # Forever /\ waited[t] >= asked[t]
    OBVIOUS
  <2>1. GiveUpAtOnce(t) \/ Fail(t)
    BY GivingUp DEF IInv
  <2>2. InTime(t)
    BY DEF WInv, Clocked
  <2>3. /\ ticksToWait[t] \in Int /\ asked[t] \in 0..Forever /\ waited[t] \in Int /\ waited[t] >= 0
        /\ Pended \in {0, 1} /\ Forever >= 1 /\ Forever \in Int /\ Age(t) \in Int
    BY TimeTypes DEF IInv
  <2>4. CASE GiveUpAtOnce(t)
    <3>1. ticksToWait[t] = 0
      BY <2>4 DEF GiveUpAtOnce
    <3>2. CASE entryTimeSet[t]
      <4>1. Measured(t)
        BY <2>2, <3>2 DEF InTime
      <4>2. Age(t) >= 0
        <5>1. /\ tick \in 0..TickMod - 1 /\ TickMod \in Nat /\ timeOut[t].time \in 0..TickMod - 1
          BY TimeTypes DEF IInv
        <5> QED BY <4>1, <5>1 DEF Measured, Age
      <4> QED BY <2>3, <3>1, <4>1, <4>2 DEF Measured
    <3>3. CASE ~entryTimeSet[t]
      BY <2>2, <2>3, <3>1, <3>3 DEF InTime
    <3> QED BY <3>2, <3>3
  <2>5. CASE Fail(t)
    BY <2>2, <2>5 DEF Fail, At, InTime
  <2> QED BY <2>1, <2>4, <2>5
<1> QED BY <1>1, Invariance, WakeInvariance, PTL DEF Spec, NeverEarly

-----------------------------------------------------------------------------
(* The task that outranks every other.  It runs whenever it is ready, or a switch to it is
   owed at the next tick; nobody takes the processor from it while it is inside a call. *)
Owed(t) == /\ cur = t => ~yieldPending
           /\ t \in ready => cur = t \/ yieldPending
Prompt(t) == Owed(t) /\ (pc[t] \notin {"out", "elsewhere", "test"} => cur = t)

LEMMA ForemostFirst ==
  ASSUME NEW t \in Task, Foremost(t), NEW R \in SUBSET (Task \cup {Idle}), t \in R
  PROVE Top(R) = {t}
<1>1. \A u \in R \ {t} : Prio[u] < Prio[t]
  BY QueueAssumption DEF Foremost
<1>2. \A u \in R : Prio[u] \in Nat
  BY QueueAssumption
<1>3. \A u \in R \ {t} : ~(Prio[t] <= Prio[u])
  BY <1>1, <1>2
<1>4. \A u \in R : Prio[u] <= Prio[t]
  BY <1>1, <1>2
<1> QED BY <1>3, <1>4 DEF Top

LEMMA NobodyOutranks ==
  ASSUME NEW t \in Task, Foremost(t), NEW W \in SUBSET Task
  PROVE /\ cur = t => ~Outranks(W)
        /\ cur \in (Task \cup {Idle}) \ {t} /\ t \in W => Outranks(W)
<1>1. \A u \in Task \cup {Idle} : Prio[u] \in Nat /\ (u # t => Prio[u] < Prio[t])
  BY QueueAssumption DEF Foremost
<1>2. \A u \in Task : ~(Prio[u] > Prio[t])
  BY <1>1
<1>3. cur = t => ~Outranks(W)
  BY <1>2 DEF Outranks
<1>4. cur \in (Task \cup {Idle}) \ {t} /\ t \in W => Outranks(W)
  BY <1>1 DEF Outranks
<1> QED BY <1>3, <1>4

\* A tick takes the processor from it only if it is the one that wakes.
LEMMA TickLeavesForemost ==
  ASSUME NEW t \in Task, Foremost(t), NEW R \in SUBSET (Task \cup {Idle}), NEW d,
         cur \in Task \cup {Idle}
  PROVE /\ cur = t /\ t \notin Due(d) => ~TickSwitches(d, R)
        /\ t \in Due(d) => TickSwitches(d, R)
<1>1. \A u \in Task \cup {Idle} : Prio[u] \in Nat /\ (u # t => Prio[u] < Prio[t])
  BY QueueAssumption DEF Foremost
<1>2. \A u \in Task \cup {Idle} : (Prio[u] >= Prio[t] => u = t) /\ Prio[t] >= Prio[u]
  BY <1>1
<1>3. Due(d) \subseteq Task
  BY DEF Due
<1>4. ASSUME cur = t, t \notin Due(d) PROVE ~TickSwitches(d, R)
  <2>1. ~ \E u \in Due(d) : Prio[u] >= Prio[cur]
    BY <1>2, <1>3, <1>4
  <2> DEFINE E == {u \in R \cup Due(d) : Prio[u] = Prio[cur]}
  <2>2. E \subseteq {t}
    <3>1. \A u \in Task \cup {Idle} : Prio[u] = Prio[t] => u = t
      BY <1>1
    <3> QED BY <1>3, <1>4, <3>1
  <2>3. IsFiniteSet({t}) /\ Cardinality({t}) = 1
    BY FS_Singleton
  <2> HIDE DEF E
  <2>4. Cardinality(E) <= 1 /\ Cardinality(E) \in Nat
    BY <2>2, <2>3, FS_Subset, FS_CardinalityType
  <2>5. ~(Cardinality(E) > 1)
    BY <2>4
  <2> QED BY <2>1, <2>5 DEF TickSwitches, E
<1>5. t \in Due(d) => TickSwitches(d, R)
  BY <1>2 DEF TickSwitches
<1> QED BY <1>4, <1>5

LEMMA SwitchOwed ==
  ASSUME NEW t \in Task, Foremost(t), Owed(t), NEW b \in BOOLEAN,
         ready' \in SUBSET (Task \cup {Idle}), GoOn(b, ready'),
         t \in ready' => t \in ready \/ b \/ cur = t
  PROVE /\ Owed(t)'
        /\ cur = t /\ (t \in ready' \/ ~b) => cur' = t
        /\ t \in ready' /\ b => cur' = t
<1>1. CASE b
  <2>1. cur' \in Top(ready') /\ yieldPending' = FALSE
    BY <1>1 DEF GoOn, SwitchContext
  <2>2. t \in ready' => cur' = t
    <3>1. PICK R \in SUBSET (Task \cup {Idle}) : R = ready'
      OBVIOUS
    <3>2. t \in R => Top(R) = {t}
      BY ForemostFirst
    <3>3. Top(ready') = Top(R)
      BY <3>1
    <3> QED BY <2>1, <3>1, <3>2, <3>3
  <2> QED BY <1>1, <2>1, <2>2 DEF Owed
<1>2. CASE ~b
  <2>1. UNCHANGED <<cur, yieldPending>>
    BY <1>2 DEF GoOn
  <2> QED BY <1>2, <2>1 DEF Owed
<1> QED BY <1>1, <1>2

\* Tasks made ready with the scheduler running, and a switch if one of them outranks who runs.
LEMMA WakeOwed ==
  ASSUME TypeOK, NEW t \in Task, Foremost(t), Owed(t), NEW W \in SUBSET Task,
         ~suspended, MakeReady(W), GoOn(Outranks(W), ready \cup W)
  PROVE Owed(t)' /\ (cur = t => cur' = t)
<1>1. ready' = ready \cup W
  BY DEF MakeReady
<1>2. ready' \in SUBSET (Task \cup {Idle}) /\ Outranks(W) \in BOOLEAN
  BY <1>1 DEF TypeOK, Outranks
<1>3. cur \in Task \cup {Idle}
  BY DEF TypeOK
<1>4. t \in ready' => t \in ready \/ Outranks(W) \/ cur = t
  BY <1>1, <1>3, NobodyOutranks
<1>5. GoOn(Outranks(W), ready')
  BY <1>1
<1>6. /\ Owed(t)'
      /\ cur = t /\ (t \in ready' \/ ~Outranks(W)) => cur' = t
  <2>1. PICK b \in BOOLEAN : b = Outranks(W)
    BY <1>2
  <2>2. GoOn(b, ready') /\ (t \in ready' => t \in ready \/ b \/ cur = t)
    BY <1>4, <1>5, <2>1
  <2>3. /\ Owed(t)'
        /\ cur = t /\ (t \in ready' \/ ~b) => cur' = t
    BY <1>2, <2>2, SwitchOwed
  <2> QED BY <2>1, <2>3
<1> QED BY <1>6, NobodyOutranks

\* Tasks made ready, and a switch left pending for the next tick.
LEMMA PendOwed ==
  ASSUME TypeOK, NEW t \in Task, Foremost(t), Owed(t), NEW W \in SUBSET Task,
         MakeReady(W), cur' = cur, yieldPending' = (yieldPending \/ Outranks(W))
  PROVE Owed(t)'
<1>1. t \in ready' => t \in ready \/ t \in W
  BY DEF MakeReady
<1>2. cur \in Task \cup {Idle}
  BY DEF TypeOK
<1>3. /\ cur = t => ~Outranks(W)
      /\ cur # t /\ t \in W => Outranks(W)
  BY <1>2, NobodyOutranks
<1> QED BY <1>1, <1>3 DEF Owed

\* A counted tick, whoever counts it; x stands for what else asks for a switch.
LEMMA TickOwed ==
  ASSUME TypeOK, NEW t \in Task, Foremost(t), Owed(t), NEW d, NEW R \in SUBSET (Task \cup {Idle}),
         NEW x \in BOOLEAN, IncrementTick(d, R), GoOn(yieldPending \/ x \/ TickSwitches(d, R), ready'),
         t \in R => t \in ready \/ x, cur = t => t \in R \/ ~x
  PROVE /\ Owed(t)' /\ (cur = t => cur' = t)
        /\ ~yieldPending'
        /\ t \in Due(d) => cur' = t
<1>1. ready' = R \cup Due(d) /\ Due(d) \subseteq Task
  BY DEF IncrementTick, Due
<1>2. cur \in Task \cup {Idle}
  BY DEF TypeOK
<1>3. /\ cur = t /\ t \notin Due(d) => ~TickSwitches(d, R)
      /\ t \in Due(d) => TickSwitches(d, R)
  BY <1>2, TickLeavesForemost
<1>4. PICK b \in BOOLEAN : b = (yieldPending \/ x \/ TickSwitches(d, R))
  BY DEF TypeOK
<1>5. GoOn(b, ready') /\ ready' \in SUBSET (Task \cup {Idle})
  BY <1>1, <1>4
<1>6. t \in ready' => t \in ready \/ b \/ cur = t
  BY <1>1, <1>3, <1>4
<1>7. /\ Owed(t)' /\ (cur = t /\ (t \in ready' \/ ~b) => cur' = t)
      /\ t \in ready' /\ b => cur' = t
  BY <1>5, <1>6, SwitchOwed
<1>8. ~yieldPending'
  <2>1. CASE b
    BY <1>5, <2>1 DEF GoOn, SwitchContext
  <2>2. CASE ~b
    BY <1>4, <1>5, <2>2 DEF GoOn
  <2> QED BY <2>1, <2>2
<1>9. cur = t => t \in ready' \/ ~b
  BY <1>1, <1>3, <1>4 DEF Owed
<1>10. t \in Due(d) => cur' = t
  BY <1>1, <1>3, <1>4, <1>7
<1> QED BY <1>7, <1>8, <1>9, <1>10

LEMMA ResumeOwed ==
  ASSUME TypeOK, NEW t \in Task, Foremost(t), Owed(t), NEW r \in Task, ResumeAll(r)
  PROVE /\ Owed(t)' /\ (cur = t => cur' = t)
        /\ ~yieldPending'
<1> DEFINE R == ready \cup pendingReady
           d == [u \in Task |-> IF u \in pendingReady THEN Awake ELSE delayed[u]]
<1>1. PICK x \in BOOLEAN : x = \E u \in pendingReady : Prio[u] >= Prio[cur]
  OBVIOUS
<1>2. /\ GoOn(yieldPending \/ x \/ (pendedTick /\ TickSwitches(d, R)), ready')
      /\ IF pendedTick THEN IncrementTick(d, R) ELSE ready' = R
  BY <1>1 DEF ResumeAll
<1>3. R \in SUBSET (Task \cup {Idle}) /\ pendingReady \subseteq Task /\ cur \in Task \cup {Idle}
  BY DEF TypeOK
<1>4. \A u \in Task \cup {Idle} : Prio[u] \in Nat /\ (u # t => Prio[u] < Prio[t])
  BY QueueAssumption DEF Foremost
<1>5. \A u \in Task \cup {Idle} : (Prio[u] >= Prio[t] => u = t) /\ Prio[t] >= Prio[u]
  BY <1>4
<1>6. t \in R => t \in ready \/ x
  BY <1>1, <1>3, <1>5
<1>7. cur = t => t \in R \/ ~x
  BY <1>1, <1>3, <1>5
<1> HIDE DEF R, d
<1>8. CASE pendedTick
  <2>1. IncrementTick(d, R) /\ GoOn(yieldPending \/ x \/ TickSwitches(d, R), ready')
    BY <1>2, <1>8
  <2> QED BY <1>3, <1>6, <1>7, <2>1, TickOwed
<1>9. CASE ~pendedTick
  <2>1. PICK b \in BOOLEAN : b = (yieldPending \/ x)
    BY DEF TypeOK
  <2>2. GoOn(b, ready') /\ ready' = R
    BY <1>2, <1>9, <2>1
  <2>3. t \in ready' => t \in ready \/ b \/ cur = t
    BY <1>6, <2>1, <2>2
  <2>4. Owed(t)' /\ (cur = t /\ (t \in ready' \/ ~b) => cur' = t)
    BY <1>3, <2>2, <2>3, SwitchOwed
  <2>5. cur = t => t \in ready' \/ ~b
    BY <1>7, <2>1, <2>2 DEF Owed
  <2>6. ~yieldPending'
    <3>1. CASE b
      BY <2>2, <3>1 DEF GoOn, SwitchContext
    <3>2. CASE ~b
      BY <2>1, <2>2, <3>2 DEF GoOn
    <3> QED BY <3>1, <3>2
  <2> QED BY <2>4, <2>5, <2>6
<1> QED BY <1>8, <1>9

\* The tick interrupt with the scheduler running.
LEMMA InterruptOwed ==
  ASSUME TypeOK, NEW t \in Task, Foremost(t), Owed(t), TickInterrupt, ~suspended
  PROVE /\ Owed(t)' /\ (cur = t => cur' = t)
        /\ ~yieldPending'
<1>1. /\ IncrementTick(delayed, ready)
      /\ GoOn(yieldPending \/ FALSE \/ TickSwitches(delayed, ready), ready')
  BY DEF TickInterrupt
<1>2. ready \in SUBSET (Task \cup {Idle})
  BY DEF TypeOK
<1> QED BY <1>1, <1>2, TickOwed

\* Nobody else takes the processor from it, but for its own blocking and yielding.
LEMMA KeepsProcessor ==
  ASSUME TypeOK, LockDiscipline, Sched, NEW t \in Task, Foremost(t), Owed(t), [Next]_vars,
         cur = t, ~BlockElsewhere(t), ~Yield(t)
  PROVE cur' = t
<1>1. ASSUME NEW u \in Task, NEW W \in SUBSET Task, cur = u, pc[u] = "test",
             MakeReady(W), GoOn(Outranks(W), ready \cup W)
      PROVE cur' = t
  <2>1. ~suspended
    BY <1>1, RunsFreely
  <2> QED BY <1>1, <2>1, WakeOwed
<1>2. ASSUME NEW u \in Sender, SendNow(u) PROVE cur' = t
  <2>1. PICK W \in Heads(waitingToReceive, 1) : MakeReady(W) /\ GoOn(Outranks(W), ready \cup W)
    BY <1>2 DEF SendNow
  <2>2. W \in SUBSET Task
    BY <2>1, HeadsInList DEF TypeOK, Task
  <2> QED BY <1>1, <1>2, <2>1, <2>2 DEF SendNow, At, Task
<1>3. ASSUME NEW u \in Receiver, ReceiveNow(u) PROVE cur' = t
  <2>1. PICK W \in Heads(waitingToSend, 1) : MakeReady(W) /\ GoOn(Outranks(W), ready \cup W)
    BY <1>3 DEF ReceiveNow
  <2>2. W \in SUBSET Task
    BY <2>1, HeadsInList DEF TypeOK, Task
  <2> QED BY <1>1, <1>3, <2>1, <2>2 DEF ReceiveNow, At, Task
<1>4. ASSUME NEW u \in Task, Step(u) PROVE cur' = t
  <2>1. u = t
    BY <1>4 DEF Step, At, BlockElsewhere, Call, GiveUpAtOnce, SetTimeOutState, SuspendAll, LockQueue, NotExpired,
         Expired, TestAgain, PlaceOnEventList, UnlockQueue, ResumeAll, Yield, Fail, Retry
  <2>2. CASE ResumeAll(u)
    BY <2>2, ResumeOwed
  <2>3. CASE ~ResumeAll(u)
    BY <1>4, <2>1, <2>3 DEF Step, Call, GiveUpAtOnce, SetTimeOutState, SuspendAll, LockQueue, NotExpired,
         Expired, TestAgain, PlaceOnEventList, UnlockQueue, Fail, Retry, sched
  <2> QED BY <2>2, <2>3
<1>5. CASE TickInterrupt
  <2>1. CASE suspended
    BY <1>5, <2>1 DEF TickInterrupt, sched
  <2> QED BY <1>5, <2>1, InterruptOwed
<1>6. CASE SendFromISR
  BY <1>6 DEF SendFromISR
<1>7. ASSUME NEW u \in Task, ReadyAgain(u) PROVE cur' = t
  <2>1. CASE suspended
    BY <1>7, <2>1 DEF ReadyAgain
  <2>2. CASE ~suspended
    <3>1. MakeReady({u}) /\ GoOn(Outranks({u}), ready \cup {u}) /\ {u} \in SUBSET Task
      BY <1>7, <2>2 DEF ReadyAgain
    <3> QED BY <2>2, <3>1, WakeOwed
  <2> QED BY <2>1, <2>2
<1>8. CASE UNCHANGED vars
  BY <1>8 DEF vars, sched
<1> QED BY <1>2, <1>3, <1>4, <1>5, <1>6, <1>7, <1>8 DEF Next, Run, Event

LEMMA OwedStep ==
  ASSUME TypeOK, LockDiscipline, Sched, NEW t \in Task, Foremost(t), Owed(t), NEW u \in Task, Step(u)
  PROVE Owed(t)'
<1>1. CASE BlockElsewhere(u)
  <2>1. ready' = ready \ {u} /\ SwitchContext(ready')
    BY <1>1 DEF BlockElsewhere
  <2>2. GoOn(TRUE, ready') /\ ready' \in SUBSET (Task \cup {Idle})
    BY <2>1 DEF GoOn, TypeOK
  <2> QED BY <2>2, SwitchOwed
<1>2. CASE Yield(u)
  <2>1. GoOn(TRUE, ready') /\ ready' \in SUBSET (Task \cup {Idle})
    BY <1>2 DEF Yield, GoOn, TypeOK
  <2> QED BY <2>1, SwitchOwed
<1>3. CASE ResumeAll(u)
  BY <1>3, ResumeOwed
<1>4. CASE UnlockQueue(u)
  <2>1. PICK W \in Heads(waitingToReceive, cTxLock) :
          MakeReady(W) /\ yieldPending' = (yieldPending \/ Outranks(W))
    BY <1>4 DEF UnlockQueue
  <2>2. W \in SUBSET Task /\ cur' = cur
    BY <1>4, <2>1, HeadsInList DEF TypeOK, Task, UnlockQueue
  <2> QED BY <2>1, <2>2, PendOwed
<1>5. CASE PlaceOnEventList(u)
  BY <1>5 DEF PlaceOnEventList, Owed
<1>6. CASE ~(BlockElsewhere(u) \/ Yield(u) \/ ResumeAll(u) \/ UnlockQueue(u) \/ PlaceOnEventList(u))
  <2>1. UNCHANGED <<cur, ready, yieldPending>>
    BY <1>6 DEF Step, Call, GiveUpAtOnce, SetTimeOutState, SuspendAll, LockQueue, NotExpired,
         Expired, TestAgain, Fail, Retry, sched
  <2> QED BY <2>1 DEF Owed
<1> QED BY <1>1, <1>2, <1>3, <1>4, <1>5, <1>6

LEMMA OwedNext ==
  ASSUME TypeOK, LockDiscipline, Sched, NEW t \in Task, Foremost(t), Owed(t), [Next]_vars
  PROVE Owed(t)'
<1>1. ASSUME NEW u \in Task, NEW W \in SUBSET Task, cur = u, pc[u] = "test",
             MakeReady(W), GoOn(Outranks(W), ready \cup W)
      PROVE Owed(t)'
  <2>1. ~suspended
    BY <1>1, RunsFreely
  <2> QED BY <1>1, <2>1, WakeOwed
<1>2. ASSUME NEW u \in Sender, SendNow(u) PROVE Owed(t)'
  <2>1. PICK W \in Heads(waitingToReceive, 1) : MakeReady(W) /\ GoOn(Outranks(W), ready \cup W)
    BY <1>2 DEF SendNow
  <2>2. W \in SUBSET Task
    BY <2>1, HeadsInList DEF TypeOK, Task
  <2> QED BY <1>1, <1>2, <2>1, <2>2 DEF SendNow, At, Task
<1>3. ASSUME NEW u \in Receiver, ReceiveNow(u) PROVE Owed(t)'
  <2>1. PICK W \in Heads(waitingToSend, 1) : MakeReady(W) /\ GoOn(Outranks(W), ready \cup W)
    BY <1>3 DEF ReceiveNow
  <2>2. W \in SUBSET Task
    BY <2>1, HeadsInList DEF TypeOK, Task
  <2> QED BY <1>1, <1>3, <2>1, <2>2 DEF ReceiveNow, At, Task
<1>5. CASE TickInterrupt
  <2>1. CASE suspended
    BY <1>5, <2>1 DEF TickInterrupt, sched, Owed
  <2> QED BY <1>5, <2>1, InterruptOwed
<1>6. CASE SendFromISR
  <2>1. CASE cTxLock = Unlocked
    <3>1. PICK W \in Heads(waitingToReceive, 1) :
            MakeReady(W) /\ yieldPending' = (yieldPending \/ Outranks(W))
      BY <1>6, <2>1 DEF SendFromISR
    <3>2. W \in SUBSET Task /\ cur' = cur
      BY <1>6, <3>1, HeadsInList DEF TypeOK, Task, SendFromISR
    <3> QED BY <3>1, <3>2, PendOwed
  <2>2. CASE cTxLock # Unlocked
    BY <1>6, <2>2 DEF SendFromISR, Owed
  <2> QED BY <2>1, <2>2
<1>7. ASSUME NEW u \in Task, ReadyAgain(u) PROVE Owed(t)'
  <2>0. MakeReady({u}) /\ {u} \in SUBSET Task
    BY <1>7 DEF ReadyAgain
  <2>1. CASE suspended
    BY <1>7, <2>0, <2>1, PendOwed DEF ReadyAgain
  <2>2. CASE ~suspended
    <3>1. GoOn(Outranks({u}), ready \cup {u})
      BY <1>7, <2>2 DEF ReadyAgain
    <3> QED BY <2>0, <2>2, <3>1, WakeOwed
  <2> QED BY <2>1, <2>2
<1>8. CASE UNCHANGED vars
  BY <1>8 DEF vars, sched, Owed
<1> QED BY <1>2, <1>3, OwedStep, <1>5, <1>6, <1>7, <1>8 DEF Next, Run, Event

LEMMA PromptNext ==
  ASSUME TypeOK, LockDiscipline, Sched, NEW t \in Task, Foremost(t), Prompt(t), [Next]_vars
  PROVE Prompt(t)'
<1>0. Owed(t) /\ (pc[t] \notin {"out", "elsewhere", "test"} => cur = t)
  BY DEF Prompt
<1>1. Owed(t)'
  BY <1>0, OwedNext
<1>2. SUFFICES ASSUME pc'[t] \notin {"out", "elsewhere", "test"} PROVE cur' = t
  BY <1>1 DEF Prompt
<1>3. cur = t
  <2>1. CASE pc'[t] = pc[t]
    BY <1>0, <1>2, <2>1
  <2>2. CASE pc'[t] # pc[t]
    <3>1. ~(UNCHANGED vars) /\ ~TickInterrupt /\ ~SendFromISR
      BY <2>2 DEF vars, TickInterrupt, SendFromISR
    <3>2. ASSUME NEW u \in Task, ReadyAgain(u) PROVE FALSE
      BY <1>2, <2>2, <3>2 DEF ReadyAgain, Goto, TypeOK
    <3>3. ASSUME NEW u \in Task, SendNow(u) \/ ReceiveNow(u) PROVE FALSE
      BY <1>2, <2>2, <3>3 DEF SendNow, ReceiveNow, Return, Goto, TypeOK
    <3>4. ASSUME NEW u \in Task, Step(u) PROVE cur = t
      <4>1. cur = u /\ \E p : Goto(u, p)
        BY <3>4 DEF Step, At, BlockElsewhere, Call, GiveUpAtOnce, SetTimeOutState, SuspendAll, LockQueue, NotExpired,
             Expired, TestAgain, PlaceOnEventList, UnlockQueue, ResumeAll, Yield, Fail, Retry, Return
      <4> QED BY <2>2, <4>1 DEF Goto, TypeOK
    <3> QED BY <3>1, <3>2, <3>3, <3>4 DEF Next, Run, Event, Task
  <2> QED BY <2>1, <2>2
<1>4. ~BlockElsewhere(t) /\ ~Yield(t)
  BY <1>2 DEF BlockElsewhere, Yield, Goto, TypeOK
<1> QED BY <1>0, <1>3, <1>4, KeepsProcessor

(* How late it can be.  What is left of its time goes down with every tick that is counted,
   and while it sleeps its wake time says how much that is.  It notices that the time is over
   two ticks late at the most, so what has elapsed never comes round the tick count. *)
Ticked == IF ticked THEN 1 ELSE 0
Left(t) == ticksToWait[t] - Age(t)
Remaining(d, now) == (IF d.list = "overflow" THEN d.wake + TickMod ELSE d.wake) - now
InTimedSleep(t) == delayed[t].list \in {"current", "overflow"}
LateBy(t) ==
  /\ cur # t => Left(t) >= 1
  /\ pc[t] = "test" => Left(t) >= 0 - Ticked
  /\ pc[t] = "suspend" => Left(t) >= -1 - Ticked
  /\ pc[t] \in {"lock", "check"} => Left(t) >= -2
  /\ pc[t] \in {"blocked", "place", "unlock", "resume"} => Age(t) = 0 /\ ticksToWait[t] > 0
  /\ pc[t] = "yield" => Left(t) >= 1 - Ticked
Counts(t) ==
  /\ waited[t] <= asked[t] - Left(t) + Pended
  /\ LateBy(t)
  /\ InTimedSleep(t) => Remaining(delayed[t], tick) = Left(t)
Going(t) == pc[t] \in {"unlock", "resume"} /\ verdict[t] = "sleep"
Looks(t) == pc[t] = "test" /\ cur = t /\ messages > 0
OnTime(t) ==
  /\ ~entryTimeSet[t] => waited[t] = 0
  /\ verdict[t] = "expired" => pc[t] \in {"unlock", "resume", "last"} \/ Looks(t)
  /\ InTimedSleep(t) => entryTimeSet[t] /\ verdict[t] # "expired"
  /\ entryTimeSet[t] /\ (Going(t) \/ (pc[t] \in {"test", "yield"} /\ t \notin ready)) => InTimedSleep(t)
  /\ entryTimeSet[t] /\ verdict[t] # "expired" => Counts(t)

LEMMA LeftType ==
  ASSUME TypeOK, NEW t \in Task
  PROVE Left(t) \in Int /\ ticksToWait[t] \in Int /\ Age(t) \in Int /\ Ticked \in {0, 1} /\ Pended \in {0, 1}
<1>1. /\ tick \in Int /\ TickMod \in Int /\ timeOut[t].time \in Int /\ ticksToWait[t] \in Int
  BY TimeTypes DEF Forever
<1>2. Age(t) \in Int
  BY <1>1 DEF Age
<1> QED BY <1>1, <1>2 DEF Left, Ticked, Pended

\* Whatever happens elsewhere, if it costs the task neither its place nor its processor.
LEMMA SameOnTime ==
  ASSUME TypeOK, NEW t \in Task, Prompt(t), OnTime(t), SameCall(t), UNCHANGED <<tick, pendedTick>>,
         cur' = t \/ cur # t, ticked' = ticked \/ cur # t, messages' >= messages \/ cur # t,
         messages' \in Int,
         \/ delayed'[t] = delayed[t] /\ (t \notin ready' => t \notin ready)
         \/ delayed'[t] = Awake /\ t \in ready' /\ pc[t] \notin {"unlock", "resume"}
  PROVE OnTime(t)'
<1>1. /\ pc'[t] = pc[t] /\ ticksToWait'[t] = ticksToWait[t] /\ entryTimeSet'[t] = entryTimeSet[t]
      /\ verdict'[t] = verdict[t] /\ asked'[t] = asked[t] /\ waited'[t] = waited[t]
      /\ Age(t)' = Age(t) /\ Left(t)' = Left(t) /\ Pended' = Pended
  BY DEF SameCall, Same, Age, Left, Pended
<1>2. InTimedSleep(t)' => InTimedSleep(t) /\ delayed'[t] = delayed[t]
  BY DEF InTimedSleep, Awake
<1>3. Remaining(delayed'[t], tick') = Remaining(delayed'[t], tick)
  BY DEF Remaining
<1>4. ASSUME LateBy(t) PROVE LateBy(t)'
  <2>1. Left(t) \in Int /\ Ticked \in {0, 1} /\ Ticked' \in {0, 1}
    BY LeftType DEF Ticked
  <2>2. CASE cur # t
    <3>1. pc[t] \in {"out", "elsewhere", "test"} /\ Left(t) >= 1
      BY <1>4, <2>2 DEF Prompt, LateBy
    <3> QED BY <1>1, <2>1, <3>1 DEF LateBy
  <2>3. CASE cur = t
    <3>1. cur' = t /\ Ticked' = Ticked
      BY <2>3 DEF Ticked
    <3> QED BY <1>1, <1>4, <3>1 DEF LateBy
  <2> QED BY <2>2, <2>3
<1>5. Looks(t) => Looks(t)'
  <2>1. messages \in Int
    BY QueueAssumption DEF TypeOK
  <2> QED BY <1>1, <2>1 DEF Looks
<1>6. Going(t)' = Going(t)
  BY <1>1 DEF Going
<1>7. Counts(t) => Counts(t)'
  BY <1>1, <1>2, <1>3, <1>4 DEF Counts
<1>8. InTimedSleep(t) => InTimedSleep(t)' \/ t \in ready'
  BY DEF InTimedSleep
<1>9. Going(t) /\ InTimedSleep(t) => InTimedSleep(t)'
  BY DEF Going, InTimedSleep
<1> QED BY <1>1, <1>2, <1>5, <1>6, <1>7, <1>8, <1>9 DEF OnTime

LEMMA WokenOrSame ==
  ASSUME TypeOK, NEW t \in Task, NEW W, MakeReady(W)
  PROVE \/ delayed'[t] = delayed[t] /\ (t \notin ready' => t \notin ready)
        \/ delayed'[t] = Awake /\ t \in ready' /\ ~suspended
BY DEF MakeReady, TypeOK

LEMMA OtherRuns ==
  ASSUME TypeOK, TypeOK', LockDiscipline, NEW t \in Task, Prompt(t), OnTime(t),
         SameCall(t), UNCHANGED <<tick, pendedTick>>, cur # t, NEW W, MakeReady(W)
  PROVE OnTime(t)'
<1>1. pc[t] \notin {"unlock", "resume"}
  BY DEF Prompt
<1>2. messages' \in Int
  BY QueueAssumption DEF TypeOK
<1>3. \/ delayed'[t] = delayed[t] /\ (t \notin ready' => t \notin ready)
      \/ delayed'[t] = Awake /\ t \in ready' /\ pc[t] \notin {"unlock", "resume"}
  BY <1>1, WokenOrSame
<1> QED BY <1>2, <1>3, SameOnTime

LEMMA OtherStep ==
  ASSUME TypeOK, TypeOK', LockDiscipline, NEW t \in Task, Prompt(t), OnTime(t),
         NEW u \in Task, u # t, Step(u), ResumeAll(u) => ~pendedTick
  PROVE OnTime(t)'
<1>1. cur = u
  BY DEF Step, At, BlockElsewhere, Call, GiveUpAtOnce, SetTimeOutState, SuspendAll, LockQueue, NotExpired,
         Expired, TestAgain, PlaceOnEventList, UnlockQueue, ResumeAll, Yield, Fail, Retry
<1>2. pc[t] \notin {"unlock", "resume"} /\ messages' \in Int
  <2>1. pc[t] \notin {"unlock", "resume"}
    BY <1>1 DEF Prompt
  <2>2. messages' \in Int
    BY QueueAssumption DEF TypeOK
  <2> QED BY <2>1, <2>2
<1>3. CASE ResumeAll(u)
  <2>1. \E p : Goto(u, p)
    BY <1>3 DEF ResumeAll
  <2>2. ~pendedTick /\ ~pendedTick'
    BY <1>3 DEF ResumeAll
  <2>3. /\ UNCHANGED <<tick, timeOut, ticksToWait, entryTimeSet, verdict, asked, waited>>
        /\ delayed'[t] = (IF t \in pendingReady THEN Awake ELSE delayed[t])
        /\ ready' = ready \cup pendingReady
    BY <1>3, <2>2 DEF ResumeAll, history
  <2>4. pc'[t] = pc[t]
    BY <2>1 DEF Goto, TypeOK
  <2>5. SameCall(t)
    BY <2>3, <2>4 DEF SameCall, Same
  <2>6. pendedTick' = pendedTick
    BY <2>2 DEF TypeOK
  <2> QED BY <1>1, <1>2, <2>3, <2>5, <2>6, SameOnTime
<1>4. CASE UnlockQueue(u)
  <2>1. PICK W \in Heads(waitingToReceive, cTxLock) : MakeReady(W)
    BY <1>4 DEF UnlockQueue
  <2>2. SameCall(t) /\ UNCHANGED <<tick, pendedTick>>
    BY <1>4 DEF UnlockQueue, Goto, TypeOK, SameCall, Same, locals, history
  <2> QED BY <1>1, <2>1, <2>2, OtherRuns
<1>5. CASE PlaceOnEventList(u)
  <2>1. SameCall(t) /\ UNCHANGED <<tick, pendedTick>>
    BY <1>5 DEF PlaceOnEventList, Goto, TypeOK, SameCall, Same, locals, history
  <2>2. delayed'[t] = delayed[t] /\ ready' = ready \ {u}
    BY <1>5 DEF PlaceOnEventList, TypeOK
  <2> QED BY <1>1, <1>2, <2>1, <2>2, SameOnTime
<1>6. ASSUME NEW p, Goto(u, p), UNCHANGED clock, ready' \in {ready, ready \ {u}},
             \A v \in Task \ {u} : /\ ticksToWait'[v] = ticksToWait[v] /\ entryTimeSet'[v] = entryTimeSet[v]
                                   /\ verdict'[v] = verdict[v] /\ asked'[v] = asked[v]
                                   /\ timeOut'[v] = timeOut[v] /\ waited'[v] = waited[v]
      PROVE OnTime(t)'
  <2>1. SameCall(t) /\ UNCHANGED <<tick, pendedTick, delayed>>
    BY <1>6 DEF Goto, TypeOK, SameCall, Same, clock
  <2>2. t \notin ready' => t \notin ready
    BY <1>6
  <2> QED BY <1>1, <1>2, <2>1, <2>2, SameOnTime
<1>7. CASE BlockElsewhere(u)
  BY <1>6, <1>7 DEF BlockElsewhere, locals, history
<1>8. CASE GiveUpAtOnce(u) \/ Fail(u)
  BY <1>6, <1>8 DEF GiveUpAtOnce, Fail, Return, sched, TypeOK
<1>9. CASE Call(u) \/ NotExpired(u) \/ Expired(u)
  <2>1. CASE Call(u)
    BY <1>6, <2>1 DEF Call, sched, TypeOK
  <2>2. CASE NotExpired(u)
    BY <1>6, <2>2 DEF NotExpired, sched, history, TypeOK
  <2>3. CASE Expired(u)
    BY <1>6, <2>3 DEF Expired, sched, history, TypeOK
  <2> QED BY <1>9, <2>1, <2>2, <2>3
<1>10. CASE SetTimeOutState(u)
  BY <1>6, <1>10 DEF SetTimeOutState, sched, history, TypeOK
<1>11. CASE SuspendAll(u) \/ LockQueue(u) \/ Yield(u) \/ Retry(u)
  BY <1>6, <1>11 DEF SuspendAll, LockQueue, Yield, Retry, sched, locals, history
<1>12. CASE TestAgain(u)
  BY <1>6, <1>12 DEF TestAgain, sched, history, TypeOK
<1> QED BY <1>3, <1>4, <1>5, <1>7, <1>8, <1>9, <1>10, <1>11, <1>12 DEF Step

\* The calls of others that move an item.
LEMMA OtherCall ==
  ASSUME TypeOK, TypeOK', LockDiscipline, NEW t \in Task, Prompt(t), OnTime(t),
         NEW u \in Task, u # t, SendNow(u) \/ ReceiveNow(u)
  PROVE OnTime(t)'
<1>1. PICK W : MakeReady(W)
  BY DEF SendNow, ReceiveNow
<1>2. cur # t /\ Return(u) /\ UNCHANGED <<tick, pendedTick>>
  BY DEF SendNow, ReceiveNow, At
<1>3. SameCall(t)
  BY <1>2 DEF Return, Goto, TypeOK, SameCall, Same
<1> QED BY <1>1, <1>2, <1>3, OtherRuns

\* What comes from outside: a post of the handler, an event for another task.
LEMMA EventOnTime ==
  ASSUME TypeOK, TypeOK', LockDiscipline, Sched, Clocked, NEW t \in Task, Foremost(t), Prompt(t), OnTime(t),
         Event, UNCHANGED ticked
  PROVE OnTime(t)'
<1>1. messages \in Int /\ messages' \in Int
  BY QueueAssumption DEF TypeOK
<1>2. ~suspended => pc[t] \notin {"unlock", "resume"}
  BY DEF LockDiscipline, HoldsLock
<1>3. CASE SendFromISR
  <2>1. SameCall(t) /\ UNCHANGED <<tick, pendedTick, cur>> /\ messages' = messages + 1
    BY <1>3 DEF SendFromISR, CopyDataToQueue, SameCall, Same, locals, history
  <2>2. \/ delayed'[t] = delayed[t] /\ (t \notin ready' => t \notin ready)
        \/ delayed'[t] = Awake /\ t \in ready' /\ ~suspended
    <3>1. CASE cTxLock = Unlocked
      <4>1. \E W : MakeReady(W)
        BY <1>3, <3>1 DEF SendFromISR
      <4> QED BY <4>1, WokenOrSame
    <3>2. CASE cTxLock # Unlocked
      BY <1>3, <3>2 DEF SendFromISR
    <3> QED BY <3>1, <3>2
  <2>3. messages' >= messages
    BY <1>1, <2>1
  <2> QED BY <1>1, <1>2, <2>1, <2>2, <2>3, SameOnTime
<1>4. ASSUME NEW u \in Task, u # t, ReadyAgain(u) PROVE OnTime(t)'
  <2>1. SameCall(t) /\ UNCHANGED <<tick, pendedTick>> /\ messages' = messages /\ MakeReady({u})
    BY <1>4 DEF ReadyAgain, Goto, TypeOK, SameCall, Same, locals, history, ring
  <2>2. cur' = t \/ cur # t
    <3>1. CASE suspended
      BY <1>4, <3>1 DEF ReadyAgain
    <3>2. CASE ~suspended
      <4>1. GoOn(Outranks({u}), ready \cup {u}) /\ {u} \in SUBSET Task
        BY <1>4, <3>2 DEF ReadyAgain
      <4> QED BY <2>1, <3>2, <4>1, WakeOwed DEF Prompt
    <3> QED BY <3>1, <3>2
  <2>3. messages' >= messages
    BY <1>1, <2>1
  <2>4. \/ delayed'[t] = delayed[t] /\ (t \notin ready' => t \notin ready)
        \/ delayed'[t] = Awake /\ t \in ready' /\ ~suspended
    BY <2>1, WokenOrSame
  <2> QED BY <1>1, <1>2, <2>1, <2>2, <2>3, <2>4, SameOnTime
<1>5. CASE ReadyAgain(t)
  <2>1. ~InCall(t) /\ InTime(t) /\ Placed(t) /\ pc'[t] = "out"
        /\ UNCHANGED <<entryTimeSet, waited, verdict>> /\ MakeReady({t})
    BY <1>5 DEF ReadyAgain, Goto, TypeOK, InCall, Clocked, Sched, Apart, locals, history
  <2>2. ~entryTimeSet[t] /\ verdict[t] = "again" /\ delayed[t].list = "no"
    BY <2>1 DEF InTime, Placed
  <2>3. delayed'[t].list = "no"
    BY <2>1, <2>2, WokenOrSame DEF Awake
  <2> QED BY <2>1, <2>2, <2>3 DEF OnTime, InTimedSleep
<1> QED BY <1>3, <1>4, <1>5 DEF Event

\* What its own step finds: a call whose time is over ends.
LEMMA StillCounting ==
  ASSUME TypeOK, NEW t \in Task, OnTime(t), pc[t] \notin {"unlock", "resume", "last", "test"}
  PROVE verdict[t] # "expired" /\ (entryTimeSet[t] => Counts(t))
BY DEF OnTime, Looks

LEMMA CallOver ==
  ASSUME TypeOK, LockDiscipline, Sched, Clocked, NEW t \in Task, cur = t, pc[t] \in {"test", "last"}, Return(t),
         delayed'[t] = delayed[t] \/ delayed'[t] = Awake
  PROVE OnTime(t)'
<1>1. delayed[t].list = "no"
  BY RunsFreely
<1>2. delayed'[t].list = "no"
  BY <1>1 DEF Awake
<1>3. ~entryTimeSet'[t] /\ waited'[t] = 0 /\ verdict'[t] = "again"
  BY DEF Return, TypeOK
<1> QED BY <1>2, <1>3 DEF OnTime, InTimedSleep

\* Outside a call nothing is noted.
LEMMA OutOfCall ==
  ASSUME TypeOK, LockDiscipline, Sched, Clocked, NEW t \in Task, OnTime(t), cur = t, pc[t] = "out",
         NEW p, Goto(t, p), UNCHANGED <<delayed, entryTimeSet, waited, verdict>>
  PROVE OnTime(t)'
<1>1. delayed[t].list = "no"
  BY RunsFreely
<1>2. ~entryTimeSet[t] /\ verdict[t] = "again"
  BY DEF Clocked, InTime, InCall
<1> QED BY <1>1, <1>2 DEF OnTime, InTimedSleep

LEMMA NoteOnTime ==
  ASSUME TypeOK, LockDiscipline, Sched, Clocked, NEW t \in Task, OnTime(t), SetTimeOutState(t), ticked' = FALSE
  PROVE OnTime(t)'
<1>1. /\ UNCHANGED <<cur, ready, delayed, tick, pendedTick, ticksToWait, verdict, asked, waited>>
      /\ cur = t /\ pc[t] = "test" /\ pc'[t] = "suspend" /\ ticksToWait[t] > 0
      /\ entryTimeSet'[t] = Timed(t) /\ Blocked(t)
  BY DEF SetTimeOutState, At, Goto, TypeOK, sched, clock, history
<1>2. delayed[t].list = "no" /\ ~pendedTick
  BY <1>1, RunsFreely
<1>3. ~InTimedSleep(t) /\ ~InTimedSleep(t)'
  BY <1>1, <1>2 DEF InTimedSleep
<1>4. InTime(t)
  BY DEF Clocked
<1>5. verdict[t] # "expired"
  <2>1. SUFFICES ASSUME verdict[t] = "expired" PROVE FALSE
    OBVIOUS
  <2>2. messages > 0
    BY <1>1, <2>1 DEF OnTime, Looks
  <2>3. t \in Receiver /\ t \notin Sender
    BY <1>4, <2>1, QueueAssumption DEF InTime, Task
  <2> QED BY <1>1, <2>2, <2>3, QueueAssumption DEF Blocked, TypeOK
<1>6. entryTimeSet[t] => Timed(t)
  <2>1. ticksToWait[t] \in 0..Forever /\ asked[t] \in 0..Forever /\ Forever = TickMod - 1 /\ TickMod \in Nat
    BY TimeTypes
  <2> QED BY <1>4, <2>1 DEF InTime, Measured, Timed
<1>7. ~entryTimeSet'[t] => waited'[t] = 0
  BY <1>1, <1>6 DEF OnTime
<1>8. ASSUME Timed(t) PROVE Counts(t)'
  <2>1. /\ ticksToWait'[t] = ticksToWait[t] /\ asked'[t] = asked[t] /\ waited'[t] = waited[t]
        /\ cur' = t /\ pc'[t] = "suspend" /\ Pended' = Pended /\ Pended = 0
    BY <1>1, <1>2 DEF Pended
  <2>2. ticksToWait[t] \in Int /\ asked[t] \in Int /\ waited[t] \in Int /\ Age(t) \in Int /\ tick \in Int
    BY TimeTypes DEF Forever
  <2>3. CASE entryTimeSet[t]
    <3>1. timeOut' = timeOut
      BY <2>3 DEF SetTimeOutState
    <3>2. Left(t)' = Left(t) /\ Left(t) \in Int
      BY <1>1, <2>2, <3>1 DEF Left, Age
    <3>3. waited[t] <= asked[t] - Left(t) + Pended /\ Left(t) >= 0 - Ticked
      BY <1>1, <1>5, <2>3 DEF OnTime, Counts, LateBy
    <3>4. Ticked \in {0, 1} /\ Ticked' = 0
      BY DEF Ticked
    <3>5. Left(t)' >= -1 - Ticked'
      BY <3>2, <3>3, <3>4
    <3> QED BY <1>3, <2>1, <3>2, <3>3, <3>5 DEF Counts, LateBy
  <2>4. CASE ~entryTimeSet[t]
    <3>1. timeOut'[t] = [time |-> tick, overflowed |-> FALSE]
      BY <1>8, <2>4 DEF SetTimeOutState, TypeOK
    <3>2. Age(t)' = 0
      BY <1>1, <2>2, <3>1 DEF Age
    <3>3. Left(t)' = ticksToWait[t]
      BY <2>1, <2>2, <3>2 DEF Left
    <3>4. ticksToWait[t] = asked[t] /\ waited[t] = 0
      BY <1>4, <2>4 DEF InTime, OnTime
    <3>5. waited'[t] <= asked'[t] - Left(t)' + Pended'
      BY <2>1, <2>2, <3>3, <3>4
    <3>6. Left(t)' >= -1 - Ticked'
      BY <1>1, <2>2, <3>3 DEF Ticked
    <3> QED BY <1>3, <2>1, <3>5, <3>6 DEF Counts, LateBy
  <2> QED BY <2>3, <2>4
<1>9. verdict'[t] = verdict[t]
  BY <1>1
<1> QED BY <1>1, <1>3, <1>5, <1>7, <1>8, <1>9 DEF OnTime, Going

\* A step inside the call that leaves the time alone: what it must keep is how late it is.
LEMMA MoveOnTime ==
  ASSUME TypeOK, NEW t \in Task, OnTime(t), cur = t, cur' = t, NEW p, Goto(t, p),
         UNCHANGED <<tick, pendedTick, ticksToWait, entryTimeSet, timeOut, asked, waited>>,
         pc[t] \notin {"unlock", "resume", "last", "test"},
         verdict'[t] # "expired", delayed'[t] = delayed[t],
         entryTimeSet[t] => ~(p \in {"unlock", "resume"} /\ verdict'[t] = "sleep"),
         p \notin {"test", "yield"},
         entryTimeSet[t] /\ LateBy(t) => LateBy(t)'
  PROVE OnTime(t)'
<1>1. /\ pc'[t] = p /\ entryTimeSet'[t] = entryTimeSet[t] /\ waited'[t] = waited[t] /\ asked'[t] = asked[t]
      /\ Age(t)' = Age(t) /\ Left(t)' = Left(t) /\ Pended' = Pended
  BY DEF Goto, TypeOK, Age, Left, Pended
<1>2. InTimedSleep(t)' = InTimedSleep(t) /\ Remaining(delayed[t], tick)' = Remaining(delayed[t], tick)
  BY DEF InTimedSleep, Remaining
<1>3. verdict[t] # "expired" /\ (entryTimeSet[t] => Counts(t))
  BY StillCounting
<1>4. entryTimeSet[t] => Counts(t)'
  BY <1>1, <1>2, <1>3 DEF Counts
<1>5. ~(entryTimeSet'[t] /\ (Going(t)' \/ (pc'[t] \in {"test", "yield"} /\ t \notin ready')))
  BY <1>1 DEF Going
<1> QED BY <1>1, <1>2, <1>3, <1>4, <1>5 DEF OnTime

LEMMA SectionOnTime ==
  ASSUME TypeOK, TypeOK', NEW t \in Task, OnTime(t), SuspendAll(t) \/ LockQueue(t) \/ TestAgain(t), ticked' = FALSE
  PROVE OnTime(t)'
<1>1. PICK p : Goto(t, p)
  BY DEF SuspendAll, LockQueue, TestAgain
<1>2. /\ cur = t /\ cur' = t
      /\ UNCHANGED <<tick, pendedTick, ticksToWait, entryTimeSet, timeOut, asked, waited>> /\ delayed' = delayed
  BY DEF SuspendAll, LockQueue, TestAgain, At, sched, clock, locals, history
<1>3. pc'[t] = p /\ Age(t)' = Age(t) /\ Left(t)' = Left(t) /\ ticksToWait'[t] = ticksToWait[t]
  BY <1>1, <1>2 DEF Goto, TypeOK, Age, Left
<1>4. Left(t) \in Int /\ Ticked \in {0, 1}
  BY LeftType
<1>5. /\ \/ pc[t] = "suspend" /\ pc'[t] = "lock"
         \/ pc[t] = "lock" /\ pc'[t] = "check"
         \/ pc[t] = "blocked" /\ pc'[t] \in {"place", "unlock"}
      /\ pc[t] # "blocked" => verdict'[t] = verdict[t]
      /\ pc[t] = "blocked" => verdict'[t] \in {"sleep", "again"}
      /\ pc'[t] = "unlock" => verdict'[t] # "sleep"
  BY DEF SuspendAll, LockQueue, TestAgain, At, Goto, TypeOK, locals
<1>6. pc[t] \notin {"unlock", "resume", "last", "test"}
  BY <1>5
<1>7. verdict[t] # "expired"
  BY <1>6, StillCounting
<1>8. verdict'[t] # "expired"
  BY <1>5, <1>7
<1>9. LateBy(t) => LateBy(t)'
  BY <1>2, <1>3, <1>4, <1>5 DEF LateBy
<1>10. p \notin {"test", "yield"} /\ ~(p \in {"unlock", "resume"} /\ verdict'[t] = "sleep")
  BY <1>3, <1>5
<1> QED BY <1>1, <1>2, <1>6, <1>8, <1>9, <1>10, MoveOnTime

LEMMA NotExpiredOnTime ==
  ASSUME TypeOK, LockDiscipline, Sched, Clocked, NEW t \in Task, OnTime(t), NotExpired(t), ticked' = FALSE
  PROVE OnTime(t)'
<1>1. /\ UNCHANGED <<cur, ready, delayed, tick, pendedTick, entryTimeSet, verdict, asked, waited>>
      /\ cur = t /\ pc[t] = "check" /\ pc'[t] = "blocked"
  BY DEF NotExpired, At, Goto, TypeOK, sched, clock, history
<1>2. verdict[t] # "expired" /\ (entryTimeSet[t] => Counts(t))
  BY <1>1, StillCounting
<1>3. ASSUME entryTimeSet[t] PROVE Counts(t)'
  <2>1. Measured(t) /\ ticksToWait[t] <= asked[t]
    BY <1>3 DEF Clocked, InTime
  <2>2. /\ ticksToWait[t] \in 0..Forever /\ asked[t] \in 0..Forever /\ waited[t] \in Int /\ tick \in Int
        /\ Age(t) \in Int /\ Forever = TickMod - 1 /\ TickMod \in Nat
    BY TimeTypes
  <2>3. Timed(t)
    BY <2>1, <2>2 DEF Measured, Timed
  <2>4. /\ ~WrappedAround(t) /\ Elapsed(t) < ticksToWait[t]
        /\ ticksToWait'[t] = ticksToWait[t] - Elapsed(t)
        /\ timeOut'[t] = [time |-> tick, overflowed |-> FALSE]
    BY <2>3 DEF NotExpired, TypeOK
  <2>5. Elapsed(t) = Age(t)
    BY <2>1, <2>4, ElapsedIsAge
  <2>6. Age(t)' = 0
    BY <1>1, <2>2, <2>4 DEF Age
  <2>7. ticksToWait'[t] = Left(t) /\ Left(t) \in Int /\ Left(t) > 0
    BY <2>2, <2>4, <2>5 DEF Left
  <2>8. Left(t)' = Left(t)
    BY <2>6, <2>7 DEF Left
  <2>9. LateBy(t)'
    BY <1>1, <2>6, <2>7 DEF LateBy
  <2>10. /\ InTimedSleep(t)' = InTimedSleep(t) /\ Remaining(delayed[t], tick)' = Remaining(delayed[t], tick)
         /\ waited'[t] = waited[t] /\ asked'[t] = asked[t] /\ Pended' = Pended
    BY <1>1 DEF InTimedSleep, Remaining, Pended
  <2> QED BY <1>2, <1>3, <2>8, <2>9, <2>10 DEF Counts
<1> QED BY <1>1, <1>2, <1>3 DEF OnTime, InTimedSleep, Going

LEMMA ExpiredOnTime ==
  ASSUME TypeOK, LockDiscipline, Sched, NEW t \in Task, OnTime(t), Expired(t)
  PROVE OnTime(t)'
<1>1. /\ UNCHANGED <<delayed, entryTimeSet, waited>>
      /\ cur = t /\ pc[t] = "check" /\ pc'[t] = "unlock" /\ verdict'[t] = "expired"
  BY DEF Expired, At, Goto, TypeOK, clock, history
<1>2. delayed[t].list = "no"
  BY <1>1 DEF Sched, RunnerReady, GoingToSleep, Apart, Placed
<1> QED BY <1>1, <1>2 DEF OnTime, InTimedSleep, Going

\* The wake time is as far ahead as there is time left, on whichever list it goes.
LEMMA WakeAhead ==
  ASSUME NEW now \in 0..TickMod - 1, NEW w \in 1..TickMod - 1, NEW v, v = Wrap(now + w)
  PROVE Remaining([list |-> IF v < now THEN "overflow" ELSE "current", wake |-> v], now) = w
<1>1. TickMod \in Nat
  BY QueueAssumption
<1>2. CASE now + w >= TickMod
  <2>1. v = now + w - TickMod
    BY <1>1, <1>2 DEF Wrap
  <2>2. v < now
    BY <1>1, <2>1
  <2>3. Remaining([list |-> "overflow", wake |-> v], now) = v + TickMod - now
    BY <1>1, <2>1 DEF Remaining
  <2> QED BY <1>1, <2>1, <2>2, <2>3
<1>3. CASE now + w < TickMod
  <2>1. v = now + w
    BY <1>1, <1>3 DEF Wrap
  <2>2. ~(v < now)
    BY <1>1, <2>1
  <2>3. Remaining([list |-> "current", wake |-> v], now) = v - now
    BY <1>1, <2>1 DEF Remaining
  <2> QED BY <1>1, <2>1, <2>2, <2>3
<1> QED BY <1>1, <1>2, <1>3

LEMMA PlaceOnTime ==
  ASSUME TypeOK, Sched, Clocked, TimeLeft, NEW t \in Task, OnTime(t), PlaceOnEventList(t)
  PROVE OnTime(t)'
<1>1. /\ UNCHANGED <<cur, tick, pendedTick, ticksToWait, entryTimeSet, timeOut, verdict, asked, waited>>
      /\ cur = t /\ pc[t] = "place" /\ pc'[t] = "unlock"
  BY DEF PlaceOnEventList, At, Goto, TypeOK, locals, history
<1>2. verdict[t] = "sleep" /\ ticksToWait[t] > 0 /\ (Timed(t) => entryTimeSet[t])
  BY <1>1 DEF Sched, RunnerReady, TimeLeft, MaySleep, Clocked, InTime
<1>3. entryTimeSet[t] => Counts(t)
  BY <1>1, StillCounting
<1>4. /\ ticksToWait[t] \in 1..TickMod - 1 /\ tick \in 0..TickMod - 1 /\ asked[t] \in 0..TickMod - 1
      /\ TickMod \in Nat /\ Forever = TickMod - 1
  BY <1>2, TimeTypes
<1>5. entryTimeSet[t] => Timed(t)
  BY <1>4 DEF Clocked, InTime, Measured, Timed
<1>6. PICK v : v = Wrap(tick + ticksToWait[t])
  OBVIOUS
<1>7. delayed'[t] = IF Timed(t) THEN [list |-> IF v < tick THEN "overflow" ELSE "current", wake |-> v]
                    ELSE [list |-> "forever", wake |-> 0]
  BY <1>6 DEF PlaceOnEventList, TypeOK
<1>8. InTimedSleep(t)' <=> Timed(t)
  BY <1>7 DEF InTimedSleep
<1>9. ASSUME entryTimeSet[t] PROVE Counts(t)'
  <2>1. Age(t) = 0 /\ ticksToWait[t] > 0
    BY <1>1, <1>3, <1>9 DEF Counts, LateBy
  <2>2. Age(t)' = Age(t) /\ Left(t)' = Left(t) /\ Pended' = Pended
    BY <1>1 DEF Age, Left, Pended
  <2>3. Left(t) = ticksToWait[t]
    BY <1>4, <2>1 DEF Left
  <2>4. Remaining(delayed'[t], tick) = ticksToWait[t]
    BY <1>4, <1>5, <1>6, <1>7, <1>9, WakeAhead
  <2>5. Remaining(delayed[t], tick)' = Left(t)'
    BY <1>1, <2>2, <2>3, <2>4 DEF Remaining
  <2>6. LateBy(t)'
    BY <1>1, <2>1, <2>2 DEF LateBy
  <2>7. waited'[t] <= asked'[t] - Left(t)' + Pended'
    BY <1>1, <1>3, <1>9, <2>2 DEF Counts
  <2> QED BY <2>5, <2>6, <2>7 DEF Counts
<1>10. Timed(t) <=> entryTimeSet[t]
  BY <1>2, <1>5
<1> QED BY <1>1, <1>2, <1>8, <1>9, <1>10 DEF OnTime

LEMMA UnlockOnTime ==
  ASSUME TypeOK, LockDiscipline, NEW t \in Task, OnTime(t), UnlockQueue(t)
  PROVE OnTime(t)'
<1>1. /\ UNCHANGED <<cur, tick, pendedTick, ticksToWait, entryTimeSet, timeOut, verdict, asked, waited>>
      /\ cur = t /\ pc[t] = "unlock" /\ pc'[t] = "resume"
  BY DEF UnlockQueue, At, Goto, TypeOK, locals, history
<1>2. suspended
  BY <1>1 DEF LockDiscipline, HoldsLock
<1>3. delayed' = delayed
  BY <1>2 DEF UnlockQueue, MakeReady
<1>4. Age(t)' = Age(t) /\ Left(t)' = Left(t) /\ Pended' = Pended /\ InTimedSleep(t)' = InTimedSleep(t)
      /\ Remaining(delayed[t], tick)' = Remaining(delayed[t], tick)
      /\ waited'[t] = waited[t] /\ asked'[t] = asked[t]
  BY <1>1, <1>3 DEF Age, Left, Pended, InTimedSleep, Remaining
<1>5. LateBy(t) => LateBy(t)'
  BY <1>1, <1>4 DEF LateBy
<1>6. Counts(t) => Counts(t)'
  BY <1>4, <1>5 DEF Counts
<1>7. Going(t)' = Going(t)
  BY <1>1 DEF Going
<1> QED BY <1>1, <1>4, <1>6, <1>7 DEF OnTime

\* A sleeper has time left: a tick that ended it would have made it ready.
LEMMA AsleepHasTime ==
  ASSUME TypeOK, DelayedListsInOrder, NEW t \in Task, InTimedSleep(t)
  PROVE Remaining(delayed[t], tick) \in Int /\ Remaining(delayed[t], tick) >= 1
<1>1. tick \in 0..TickMod - 1 /\ delayed[t].wake \in 0..TickMod - 1 /\ TickMod \in Nat
  BY QueueAssumption DEF TypeOK
<1>2. CASE delayed[t].list = "overflow"
  BY <1>1, <1>2 DEF Remaining
<1>3. CASE delayed[t].list = "current"
  <2>1. delayed[t].wake > tick
    BY <1>3 DEF DelayedListsInOrder
  <2>2. Remaining(delayed[t], tick) = delayed[t].wake - tick
    BY <1>3 DEF Remaining
  <2> QED BY <1>1, <2>1, <2>2
<1> QED BY <1>2, <1>3 DEF InTimedSleep

LEMMA YieldOnTime ==
  ASSUME TypeOK, DelayedListsInOrder, NEW t \in Task, Foremost(t), OnTime(t), Yield(t), ticked' = FALSE
  PROVE OnTime(t)'
<1>1. /\ UNCHANGED <<ready, delayed, tick, pendedTick, ticksToWait, entryTimeSet, timeOut, verdict, asked, waited>>
      /\ cur = t /\ pc[t] = "yield" /\ pc'[t] = "test" /\ SwitchContext(ready)
  BY DEF Yield, At, Goto, TypeOK, clock, locals, history
<1>2. verdict[t] # "expired" /\ (entryTimeSet[t] => Counts(t))
  BY <1>1, StillCounting
<1>3. t \in ready => cur' = t
  <2>1. ready \in SUBSET (Task \cup {Idle})
    BY DEF TypeOK
  <2>2. t \in ready => Top(ready) = {t}
    BY <2>1, ForemostFirst
  <2> QED BY <1>1, <2>2 DEF SwitchContext
<1>4. Age(t)' = Age(t) /\ Left(t)' = Left(t) /\ Pended' = Pended /\ InTimedSleep(t)' = InTimedSleep(t)
      /\ Remaining(delayed[t], tick)' = Remaining(delayed[t], tick)
      /\ waited'[t] = waited[t] /\ asked'[t] = asked[t]
  BY <1>1 DEF Age, Left, Pended, InTimedSleep, Remaining
<1>5. ASSUME entryTimeSet[t] PROVE Counts(t)'
  <2>1. Left(t) \in Int /\ Ticked \in {0, 1} /\ Ticked' = 0 /\ Left(t) >= 1 - Ticked
    BY <1>1, <1>2, <1>5, LeftType DEF Counts, LateBy, Ticked
  <2>2. cur' # t => Left(t) >= 1
    <3>1. SUFFICES ASSUME cur' # t PROVE Left(t) >= 1
      OBVIOUS
    <3>2. InTimedSleep(t)
      BY <1>1, <1>3, <1>5, <3>1 DEF OnTime
    <3> QED BY <1>2, <1>5, <3>2, AsleepHasTime DEF Counts
  <2>3. LateBy(t)'
    BY <1>1, <1>4, <2>1, <2>2 DEF LateBy
  <2> QED BY <1>2, <1>4, <1>5, <2>3 DEF Counts
<1> QED BY <1>1, <1>2, <1>4, <1>5 DEF OnTime, Going

LEMMA RetryOnTime ==
  ASSUME TypeOK, LockDiscipline, Sched, Clocked, NEW t \in Task, OnTime(t), Retry(t)
  PROVE OnTime(t)'
<1>1. /\ UNCHANGED <<cur, messages, ready, delayed, entryTimeSet, verdict, waited>>
      /\ cur = t /\ pc[t] = "last" /\ pc'[t] = "test" /\ messages > 0
  BY DEF Retry, At, Goto, TypeOK, ring, sched, clock, locals, history
<1>2. verdict[t] = "expired"
  BY <1>1 DEF Clocked, InTime
<1>3. t \in ready
  BY <1>1, RunsFreely
<1> QED BY <1>1, <1>2, <1>3 DEF OnTime, InTimedSleep, Looks, Going

\* A counted tick ages what was noted by exactly one, while it has not come all the way round.
LEMMA TickAgesByOne ==
  ASSUME TypeOK, NEW d, NEW R, IncrementTick(d, R), NEW t \in Task, entryTimeSet[t], Age(t) < TickMod
  PROVE Age(t)' = Age(t) + 1
<1>1. tick' = NextTick /\ timeOut'[t] = [timeOut[t] EXCEPT !.overflowed = @ \/ (NextTick = 0 /\ entryTimeSet[t])]
  BY DEF IncrementTick
<1>2. /\ tick \in 0..TickMod - 1 /\ TickMod \in Nat /\ TickMod > 1
      /\ timeOut[t].time \in 0..TickMod - 1 /\ timeOut[t].overflowed \in BOOLEAN
  BY TimeTypes
<1>3. timeOut[t] \in [time : 0..TickMod - 1, overflowed : BOOLEAN]
  BY DEF TypeOK
<1>4. /\ timeOut'[t].time = timeOut[t].time
      /\ timeOut'[t].overflowed = (timeOut[t].overflowed \/ (NextTick = 0 /\ entryTimeSet[t]))
  BY <1>1, <1>3
<1>5. CASE tick = TickMod - 1
  <2>1. NextTick = 0
    BY <1>2, <1>5 DEF NextTick, Wrap
  <2>2. tick' = 0 /\ timeOut'[t].overflowed
    BY <1>1, <1>4, <2>1
  <2>3. Age(t)' = TickMod - timeOut[t].time
    BY <1>2, <1>4, <2>2 DEF Age
  <2>4. ~timeOut[t].overflowed
    BY <1>2, <1>5 DEF Age
  <2>5. Age(t) = tick - timeOut[t].time
    BY <1>2, <2>4 DEF Age
  <2> QED BY <1>2, <1>5, <2>3, <2>5
<1>6. CASE tick # TickMod - 1
  <2>1. NextTick = tick + 1 /\ NextTick # 0
    BY <1>2, <1>6 DEF NextTick, Wrap
  <2>2. timeOut'[t].overflowed = timeOut[t].overflowed
    BY <1>2, <1>4, <2>1, Zenon
  <2> QED BY <1>1, <1>2, <1>4, <2>1, <2>2 DEF Age
<1> QED BY <1>5, <1>6

\* A counted tick takes one from what remains of a sleep, and wakes the task when that was all.
LEMMA TickShortens ==
  ASSUME TypeOK, NEW d \in [Task -> [list : Lists, wake : 0..TickMod - 1]], NEW R, IncrementTick(d, R),
         NEW t \in Task, d[t].list \in {"current", "overflow"}, InOrder(d[t], tick)
  PROVE \/ t \in Due(d) /\ delayed'[t] = Awake /\ t \in ready'
        \/ /\ t \notin Due(d) /\ delayed'[t].list \in {"current", "overflow"}
           /\ Remaining(delayed'[t], tick') = Remaining(d[t], tick) - 1
           /\ Remaining(d[t], tick) - 1 \in Int /\ Remaining(d[t], tick) - 1 >= 1
<1>1. /\ tick' = NextTick /\ ready' = R \cup Due(d)
      /\ delayed'[t] = IF t \in Due(d) THEN Awake ELSE Switched(d)[t]
  BY DEF IncrementTick
<1>2. /\ tick \in 0..TickMod - 1 /\ d[t].wake \in 0..TickMod - 1 /\ TickMod \in Nat /\ TickMod > 1
  BY TimeTypes
<1>3. CASE t \in Due(d)
  BY <1>1, <1>3
<1>4. CASE t \notin Due(d)
  <2>1. ~(Switched(d)[t].list = "current" /\ d[t].wake <= NextTick)
    BY <1>4 DEF Due
  <2>2. CASE tick = TickMod - 1
    <3>1. NextTick = 0
      BY <1>2, <2>2 DEF NextTick, Wrap
    <3>2. d[t].list = "overflow"
      BY <1>2, <2>2 DEF InOrder
    <3>3. Switched(d)[t] = [d[t] EXCEPT !.list = "current"]
      BY <3>1, <3>2 DEF Switched
    <3>4. Switched(d)[t].list = "current" /\ Switched(d)[t].wake = d[t].wake
      BY <3>3
    <3>5. d[t].wake > 0
      BY <1>2, <2>1, <3>1, <3>4
    <3>6. Remaining(d[t], tick) = d[t].wake + 1
      BY <1>2, <2>2, <3>2 DEF Remaining
    <3>7. Remaining(delayed'[t], tick') = d[t].wake - 0
      BY <1>1, <1>4, <3>1, <3>4 DEF Remaining
    <3>8. delayed'[t].list \in {"current", "overflow"}
      BY <1>1, <1>4, <3>4
    <3> QED BY <1>2, <1>4, <3>5, <3>6, <3>7, <3>8
  <2>3. CASE tick # TickMod - 1
    <3>1. NextTick = tick + 1 /\ NextTick # 0
      BY <1>2, <2>3 DEF NextTick, Wrap
    <3>2. Switched(d)[t] = d[t]
      BY <3>1 DEF Switched
    <3>3. delayed'[t] = d[t]
      BY <1>1, <1>4, <3>2
    <3>4. CASE d[t].list = "overflow"
      <4>1. /\ Remaining(d[t], tick) = d[t].wake + TickMod - tick
            /\ Remaining(delayed'[t], tick') = d[t].wake + TickMod - (tick + 1)
        BY <1>1, <1>2, <3>1, <3>3, <3>4 DEF Remaining
      <4> QED BY <1>2, <1>4, <2>3, <3>3, <3>4, <4>1
    <3>5. CASE d[t].list = "current"
      <4>1. /\ Remaining(d[t], tick) = d[t].wake - tick
            /\ Remaining(delayed'[t], tick') = d[t].wake - (tick + 1)
        BY <1>1, <1>2, <3>1, <3>3, <3>5 DEF Remaining
      <4>2. d[t].wake > tick + 1
        BY <1>2, <2>1, <3>1, <3>2, <3>5
      <4> QED BY <1>2, <1>4, <3>3, <3>5, <4>1, <4>2
    <3> QED BY <3>4, <3>5
  <2> QED BY <2>2, <2>3
<1> QED BY <1>3, <1>4

\* Whoever was awake stays on no list.
LEMMA TickOfAwake ==
  ASSUME TypeOK, NEW d \in [Task -> [list : Lists, wake : 0..TickMod - 1]], NEW R, IncrementTick(d, R),
         NEW t \in Task, d[t].list \notin {"current", "overflow"}
  PROVE delayed'[t].list \notin {"current", "overflow"}
<1>1. t \notin Due(d)
  BY DueWaits
<1>2. delayed'[t] = Switched(d)[t] /\ Switched(d)[t] = d[t]
  BY <1>1 DEF IncrementTick, Switched
<1> QED BY <1>2

\* What a counted tick does to the time of a call that counts, whoever counts it.
Shorter(t) == Left(t)' = Left(t) - 1
Sleeps(t) ==
  /\ InTimedSleep(t)' => InTimedSleep(t) /\ (entryTimeSet[t] => Remaining(delayed[t], tick)' = Left(t)' /\ Left(t)' >= 1)
  /\ InTimedSleep(t) => InTimedSleep(t)' \/ t \in ready'

LEMMA CountedTick ==
  ASSUME TypeOK, DelayedListsInOrder, NEW t \in Task,
         NEW d \in [Task -> [list : Lists, wake : 0..TickMod - 1]], NEW R, IncrementTick(d, R),
         \/ d[t] = delayed[t]
         \/ d[t] = Awake /\ t \in R,
         Clocked, OnTime(t), ticksToWait'[t] = ticksToWait[t],
         entryTimeSet[t] /\ verdict[t] # "expired" => Left(t) >= -1
  PROVE /\ entryTimeSet[t] /\ verdict[t] # "expired" => Shorter(t)
        /\ Sleeps(t)
<1>1. /\ Left(t) \in Int /\ ticksToWait[t] \in Int /\ Age(t) \in Int /\ tick \in Int
  BY LeftType, TimeTypes
<1>2. ASSUME entryTimeSet[t], verdict[t] # "expired" PROVE Shorter(t)
  <2>1. /\ ticksToWait[t] <= asked[t] /\ asked[t] # Forever
    BY <1>2 DEF Clocked, InTime, Measured
  <2>2. /\ asked[t] \in 0..Forever /\ Forever = TickMod - 1 /\ TickMod \in Nat
    BY TimeTypes
  <2>3. Left(t) >= -1
    BY <1>2
  <2>4. Age(t) < TickMod
    BY <1>1, <2>1, <2>2, <2>3 DEF Left
  <2>5. Age(t)' = Age(t) + 1
    BY <1>2, <2>4, TickAgesByOne
  <2> QED BY <1>1, <2>5 DEF Left, Shorter
<1>3. CASE d[t].list \notin {"current", "overflow"}
  <2>1. ~InTimedSleep(t)'
    BY <1>3, TickOfAwake DEF InTimedSleep
  <2>2. InTimedSleep(t) => t \in ready'
    <3>1. ready' = R \cup Due(d)
      BY DEF IncrementTick
    <3> QED BY <1>3, <3>1 DEF InTimedSleep
  <2> QED BY <1>2, <2>1, <2>2 DEF Sleeps
<1>4. CASE d[t].list \in {"current", "overflow"}
  <2>1. d[t] = delayed[t] /\ InTimedSleep(t)
    BY <1>4 DEF Awake, InTimedSleep
  <2>2. InOrder(d[t], tick)
    BY <2>1, OrderIsInOrder
  <2>3. \/ t \in Due(d) /\ delayed'[t] = Awake /\ t \in ready'
        \/ /\ t \notin Due(d) /\ delayed'[t].list \in {"current", "overflow"}
           /\ Remaining(delayed'[t], tick') = Remaining(d[t], tick) - 1
           /\ Remaining(d[t], tick) - 1 \in Int /\ Remaining(d[t], tick) - 1 >= 1
    BY <1>4, <2>2, TickShortens
  <2>4. entryTimeSet[t] /\ verdict[t] # "expired" /\ Remaining(delayed[t], tick) = Left(t)
    BY <2>1 DEF OnTime, Counts
  <2>5. Left(t)' = Left(t) - 1
    BY <1>2, <2>4 DEF Shorter
  <2>6. Remaining(delayed[t], tick)' = Remaining(delayed'[t], tick')
    BY DEF Remaining
  <2>7. CASE t \in ready' /\ delayed'[t] = Awake
    BY <1>2, <2>1, <2>7 DEF Sleeps, InTimedSleep, Awake
  <2>8. CASE /\ delayed'[t].list \in {"current", "overflow"}
             /\ Remaining(delayed'[t], tick') = Remaining(d[t], tick) - 1
             /\ Remaining(d[t], tick) - 1 >= 1
    BY <1>2, <2>1, <2>4, <2>5, <2>6, <2>8 DEF Sleeps, InTimedSleep
  <2> QED BY <2>3, <2>7, <2>8
<1> QED BY <1>3, <1>4

\* A tick that is only pended: waited for, and counted when the scheduler resumes.
LEMMA PendedOnTime ==
  ASSUME TypeOK, TypeOK', NEW t \in Task, OnTime(t), TickInterrupt, suspended
  PROVE OnTime(t)'
<1>1. /\ ~pendedTick /\ pendedTick' /\ ~ticked
      /\ UNCHANGED <<cur, ready, messages, tick, delayed, timeOut, pc, ticksToWait, entryTimeSet, verdict, asked>>
      /\ waited'[t] = IF entryTimeSet[t] /\ waited[t] < TickMod THEN waited[t] + 1 ELSE waited[t]
  BY DEF TickInterrupt, sched, ring
<1>2. /\ Age(t)' = Age(t) /\ Left(t)' = Left(t) /\ InTimedSleep(t)' = InTimedSleep(t)
      /\ Remaining(delayed[t], tick)' = Remaining(delayed[t], tick)
  BY <1>1 DEF Age, Left, InTimedSleep, Remaining
<1>3. Pended = 0 /\ Pended' = 1 /\ Ticked = 0 /\ Ticked' \in {0, 1}
  BY <1>1 DEF Pended, Ticked
<1>4. waited[t] \in Int /\ asked[t] \in Int /\ Left(t) \in Int
  BY LeftType, TimeTypes DEF Forever
<1>5. LateBy(t) => LateBy(t)'
  BY <1>1, <1>2, <1>3, <1>4 DEF LateBy
<1>6. Counts(t) => Counts(t)'
  <2>1. waited[t] <= asked[t] - Left(t) + Pended => waited'[t] <= asked[t] - Left(t) + Pended'
    BY <1>1, <1>3, <1>4
  <2>2. asked'[t] = asked[t]
    BY <1>1
  <2> QED BY <1>2, <1>5, <2>1, <2>2 DEF Counts
<1>7. Going(t)' = Going(t) /\ Looks(t)' = Looks(t) /\ (~entryTimeSet[t] => waited'[t] = waited[t])
  BY <1>1 DEF Going, Looks
<1> QED BY <1>1, <1>2, <1>6, <1>7 DEF OnTime

\* What is kept when a tick is counted, whoever counts it and wherever the call is now.
LEMMA CountedOnTime ==
  ASSUME TypeOK, TypeOK', NEW t \in Task, OnTime(t), Owed(t)', ~yieldPending',
         entryTimeSet[t] /\ verdict[t] # "expired" => Shorter(t),
         Sleeps(t),
         UNCHANGED <<ticksToWait, entryTimeSet, verdict, asked>>,
         ~entryTimeSet[t] => waited'[t] = waited[t],
         entryTimeSet[t] => waited'[t] - Pended' <= (waited[t] - Pended) + 1,
         Pended' = 0,
         verdict[t] = "expired" => pc'[t] \in {"unlock", "resume", "last"} \/ Looks(t)',
         pc'[t] \notin {"unlock", "resume"},
         t \notin ready' /\ entryTimeSet[t] /\ pc'[t] \in {"test", "yield"} => InTimedSleep(t),
         entryTimeSet[t] /\ verdict[t] # "expired" => pc'[t] \in {"test", "suspend", "yield"},
         entryTimeSet[t] /\ verdict[t] # "expired" /\ cur' = t => LateBy(t)',
         entryTimeSet[t] /\ verdict[t] # "expired" /\ cur' # t => pc'[t] = "test"
  PROVE OnTime(t)'
<1>1. /\ entryTimeSet'[t] = entryTimeSet[t] /\ verdict'[t] = verdict[t] /\ asked'[t] = asked[t]
  OBVIOUS
<1>2. cur' # t => t \notin ready'
  BY DEF Owed
<1>3. t \notin ready' /\ entryTimeSet[t] /\ pc'[t] \in {"test", "yield"} => InTimedSleep(t)'
  BY DEF Sleeps
<1>4. ASSUME entryTimeSet[t], verdict[t] # "expired" PROVE Counts(t)'
  <2>1. /\ waited[t] \in Int /\ waited'[t] \in Int /\ asked[t] \in Int /\ Left(t) \in Int /\ Pended \in Int
        /\ Left(t)' = Left(t) - 1
    <3>1. waited'[t] \in 0..TickMod /\ TickMod \in Nat
      BY QueueAssumption DEF TypeOK
    <3> QED BY <1>4, <3>1, LeftType, TimeTypes DEF Forever, Shorter
  <2>2. waited[t] <= asked[t] - Left(t) + Pended
    BY <1>4 DEF OnTime, Counts
  <2>3. waited'[t] <= asked'[t] - Left(t)' + Pended'
    BY <1>1, <1>4, <2>1, <2>2
  <2>4. InTimedSleep(t)' => Remaining(delayed[t], tick)' = Left(t)' /\ Left(t)' >= 1
    BY <1>4 DEF Sleeps
  <2>5. CASE cur' = t
    BY <1>4, <2>3, <2>4, <2>5 DEF Counts
  <2>6. CASE cur' # t
    <3>1. pc'[t] = "test" /\ Left(t)' >= 1
      BY <1>2, <1>3, <1>4, <2>4, <2>6
    <3>2. LateBy(t)'
      BY <2>1, <3>1 DEF LateBy, Ticked
    <3> QED BY <2>3, <2>4, <3>2 DEF Counts
  <2> QED BY <2>5, <2>6
<1>5. InTimedSleep(t)' => entryTimeSet[t] /\ verdict[t] # "expired"
  BY DEF OnTime, Sleeps
<1>6. ~entryTimeSet[t] => waited'[t] = 0
  BY DEF OnTime
<1> QED BY <1>1, <1>3, <1>4, <1>5, <1>6 DEF OnTime, Going

LEMMA InterruptOnTime ==
  ASSUME TypeOK, TypeOK', LockDiscipline, DelayedListsInOrder, Sched, Clocked, NEW t \in Task, Foremost(t),
         Prompt(t), OnTime(t), TickInterrupt, ~suspended
  PROVE OnTime(t)'
<1>1. /\ IncrementTick(delayed, ready) /\ ~pendedTick /\ ~pendedTick' /\ ~ticked
      /\ UNCHANGED <<messages, pc, ticksToWait, entryTimeSet, verdict, asked>>
      /\ ticked' = (cur' # Idle)
      /\ waited'[t] = IF entryTimeSet[t] /\ waited[t] < TickMod THEN waited[t] + 1 ELSE waited[t]
  BY DEF TickInterrupt, LockDiscipline, ring
<1>2. Owed(t)' /\ (cur = t => cur' = t) /\ ~yieldPending'
  BY InterruptOwed DEF Prompt
<1>3. Pended = 0 /\ Pended' = 0 /\ Ticked = 0 /\ waited[t] \in Int /\ TickMod \in Int /\ Left(t) \in Int
  BY <1>1, LeftType, TimeTypes DEF Pended, Ticked
<1>4. pc[t] \notin {"lock", "check", "blocked", "place", "unlock", "resume"}
  BY DEF LockDiscipline, HoldsLock
<1>5. ASSUME entryTimeSet[t], verdict[t] # "expired"
      PROVE /\ pc[t] \in {"test", "suspend", "yield"} /\ LateBy(t) /\ Left(t) >= -1
            /\ (cur # t => pc[t] = "test")
  <2>1. InCall(t) /\ pc[t] # "last"
    BY <1>5 DEF Clocked, InTime
  <2>2. pc[t] \in {"test", "suspend", "yield"}
    BY <1>4, <2>1 DEF InCall, TypeOK, Points
  <2>3. LateBy(t)
    BY <1>5 DEF OnTime, Counts
  <2>4. Left(t) >= -1
    BY <1>3, <2>2, <2>3 DEF LateBy
  <2> QED BY <2>2, <2>3, <2>4 DEF Prompt
<1>6. delayed \in [Task -> [list : Lists, wake : 0..TickMod - 1]]
  BY DEF TypeOK
<1>7. /\ entryTimeSet[t] /\ verdict[t] # "expired" => Shorter(t)
      /\ Sleeps(t)
  BY <1>1, <1>5, <1>6, CountedTick
<1>8. ready \subseteq ready'
  BY <1>1 DEF IncrementTick
<1>9. ASSUME entryTimeSet[t], verdict[t] # "expired", cur' = t PROVE LateBy(t)'
  <2>1. cur' # Idle
    BY <1>9, QueueAssumption
  <2>2. Ticked' = 1
    BY <1>1, <2>1 DEF Ticked
  <2>3. Left(t)' = Left(t) - 1 /\ pc'[t] = pc[t] /\ pc[t] \in {"test", "suspend", "yield"}
    BY <1>1, <1>5, <1>7, <1>9 DEF Shorter
  <2>4. /\ pc[t] = "test" => Left(t) >= 0
        /\ pc[t] = "suspend" => Left(t) >= -1
        /\ pc[t] = "yield" => Left(t) >= 1
    BY <1>3, <1>5, <1>9 DEF LateBy
  <2> QED BY <1>3, <1>9, <2>2, <2>3, <2>4 DEF LateBy
<1>10. verdict[t] = "expired" => pc'[t] \in {"unlock", "resume", "last"} \/ Looks(t)'
  BY <1>1, <1>2 DEF OnTime, Looks
<1>11. t \notin ready' /\ entryTimeSet[t] /\ pc'[t] \in {"test", "yield"} => InTimedSleep(t)
  BY <1>1, <1>8 DEF OnTime
<1>12. entryTimeSet[t] => waited'[t] - Pended' <= (waited[t] - Pended) + 1
  BY <1>1, <1>3
<1> QED BY <1>1, <1>2, <1>3, <1>4, <1>5, <1>7, <1>9, <1>10, <1>11, <1>12, CountedOnTime

LEMMA ResumeCounts ==
  ASSUME TypeOK, TypeOK', LockDiscipline, DelayedListsInOrder, Sched, Clocked, NEW t \in Task, Foremost(t),
         Prompt(t), OnTime(t), NEW r \in Task, ResumeAll(r), pendedTick, ticked' = FALSE
  PROVE OnTime(t)'
<1> DEFINE R == ready \cup pendingReady
           d == [u \in Task |-> IF u \in pendingReady THEN Awake ELSE delayed[u]]
<1>1. /\ IncrementTick(d, R) /\ ~pendedTick' /\ cur = r /\ pc[r] = "resume"
      /\ UNCHANGED <<messages, ticksToWait, entryTimeSet, verdict, asked, waited>>
  BY DEF ResumeAll, At, ring, history
<1>2. Owed(t)' /\ (cur = t => cur' = t) /\ ~yieldPending'
  BY ResumeOwed DEF Prompt
<1>3. Pended = 1 /\ Pended' = 0 /\ Ticked' = 0 /\ waited[t] \in Int /\ Left(t) \in Int /\ ticksToWait[t] \in Int
  BY <1>1, LeftType, TimeTypes DEF Pended, Ticked
<1>4. PICK p : Goto(r, p)
  BY DEF ResumeAll
<1>5. \A u \in Task : pc'[u] = IF u = r THEN p ELSE pc[u]
  BY <1>4 DEF Goto, TypeOK
<1>6. /\ p \in {"test", "yield", "last"} /\ (p = "last" <=> verdict[r] = "expired")
      /\ p = "yield" => verdict[r] = "sleep" /\ ~(pendedTick /\ TickSwitches(d, R))
                        /\ ~ \E u \in pendingReady : Prio[u] >= Prio[cur]
  <2>1. r \in Task /\ p = pc'[r]
    BY <1>5
  <2> QED BY <2>1 DEF ResumeAll, Goto, TypeOK
<1>7. d \in [Task -> [list : Lists, wake : 0..TickMod - 1]]
  BY QueueAssumption DEF TypeOK, Awake, Lists
<1>8. d[t] = delayed[t] \/ (d[t] = Awake /\ t \in R)
  OBVIOUS
<1>9. ready \subseteq ready'
  BY <1>1 DEF IncrementTick
<1>a. TickSwitches(d, R) \/ t \notin Due(d)
  <2>1. R \in SUBSET (Task \cup {Idle}) /\ cur \in Task \cup {Idle}
    BY DEF TypeOK
  <2> QED BY <2>1, TickLeavesForemost
<1>b. ready' = R \cup Due(d)
  BY <1>1 DEF IncrementTick
<1> HIDE DEF d, R
<1>10. ASSUME entryTimeSet[t], verdict[t] # "expired" PROVE LateBy(t) /\ Left(t) >= 0 /\ (t # r => pc[t] = "test")
  <2>1. LateBy(t) /\ InCall(t)
    BY <1>10 DEF OnTime, Counts, Clocked, InTime
  <2>2. t = r => Left(t) >= 0
    BY <1>1, <1>3, <2>1 DEF LateBy, Left
  <2>3. t # r => Left(t) >= 1 /\ pc[t] = "test"
    BY <1>1, <2>1 DEF LateBy, Prompt, InCall
  <2> QED BY <1>3, <2>1, <2>2, <2>3
<1>11. /\ entryTimeSet[t] /\ verdict[t] # "expired" => Shorter(t)
       /\ Sleeps(t)
  <2>1. entryTimeSet[t] /\ verdict[t] # "expired" => Left(t) >= -1
    BY <1>3, <1>10
  <2>2. ticksToWait'[t] = ticksToWait[t]
    BY <1>1
  <2> QED BY <1>1, <1>7, <1>8, <2>1, <2>2, CountedTick
<1>13. ASSUME t \notin ready', entryTimeSet[t], pc'[t] \in {"test", "yield"} PROVE InTimedSleep(t)
  <2>1. t \notin ready
    BY <1>9, <1>13
  <2>2. CASE t = r
    <3>1. Going(t)
      BY <1>1, <2>1, <2>2 DEF Sched, RunnerReady, GoingToSleep, Going
    <3> QED BY <1>13, <3>1 DEF OnTime
  <2>3. CASE t # r
    BY <1>5, <1>13, <2>1, <2>3 DEF OnTime
  <2> QED BY <2>2, <2>3
<1>14. ASSUME entryTimeSet[t], verdict[t] # "expired", cur' = t PROVE LateBy(t)'
  <2>1. Left(t)' = Left(t) - 1 /\ Left(t) >= 0
    BY <1>10, <1>11, <1>14 DEF Shorter
  <2>2. CASE t # r
    <3>1. pc'[t] = "test" /\ Left(t) >= 1
      BY <1>1, <1>5, <1>10, <1>14, <2>2 DEF LateBy
    <3> QED BY <1>3, <1>14, <2>1, <3>1 DEF LateBy
  <2>3. CASE t = r
    <3>1. Left(t) >= 1
      BY <1>1, <1>3, <1>10, <1>14, <2>3 DEF LateBy, Left
    <3>2. pc'[t] \in {"test", "yield"}
      BY <1>5, <1>6, <1>14, <2>3
    <3>3. pc'[t] = "yield" => Left(t)' >= 1
      <4>1. SUFFICES ASSUME p = "yield" PROVE Left(t)' >= 1
        BY <1>5, <2>3
      <4>2. Going(t)
        BY <1>1, <1>6, <2>3, <4>1 DEF Going
      <4>3. InTimedSleep(t)
        BY <1>14, <4>2 DEF OnTime
      <4>4. t \notin pendingReady
        <5>1. Prio[t] >= Prio[cur]
          BY <1>1, <2>3, QueueAssumption
        <5> QED BY <1>6, <4>1, <5>1
      <4>5. t \notin ready
        BY <4>3 DEF InTimedSleep, Sched, Apart, Placed
      <4>6. t \notin ready'
        <5>1. t \notin Due(d)
          BY <1>6, <1>a, <4>1
        <5> QED BY <1>b, <4>4, <4>5, <5>1 DEF R
      <4>7. InTimedSleep(t)'
        BY <1>11, <4>3, <4>6 DEF Sleeps
      <4> QED BY <1>11, <1>14, <4>7 DEF Sleeps
    <3> QED BY <1>3, <1>14, <2>1, <3>1, <3>2, <3>3 DEF LateBy
  <2> QED BY <2>2, <2>3
<1>15. verdict[t] = "expired" => pc'[t] \in {"unlock", "resume", "last"} \/ Looks(t)'
  <2>1. CASE t = r
    BY <1>5, <1>6, <2>1
  <2>2. CASE t # r
    BY <1>1, <1>5, <2>2 DEF OnTime, Looks, Prompt
  <2> QED BY <2>1, <2>2
<1>16. pc'[t] \notin {"unlock", "resume"}
  BY <1>1, <1>5, <1>6 DEF Prompt
<1>17. entryTimeSet[t] => waited'[t] - Pended' <= (waited[t] - Pended) + 1
  BY <1>1, <1>3
<1>18. entryTimeSet[t] /\ verdict[t] # "expired" => /\ pc'[t] \in {"test", "suspend", "yield"}
                                                    /\ (cur' # t => pc'[t] = "test")
  BY <1>1, <1>2, <1>5, <1>6, <1>10
<1>19. waited'[t] = waited[t]
  BY <1>1
<1> QED BY <1>1, <1>2, <1>3, <1>11, <1>13, <1>14, <1>15, <1>16, <1>17, <1>18, <1>19, CountedOnTime

\* Its own resumption of the scheduler with no tick to count.
LEMMA ResumeQuiet ==
  ASSUME TypeOK, TypeOK', LockDiscipline, Sched, NEW t \in Task, Foremost(t),
         Prompt(t), OnTime(t), ResumeAll(t), ~pendedTick, ticked' = FALSE
  PROVE OnTime(t)'
<1>1. /\ cur = t /\ pc[t] = "resume" /\ ~pendedTick'
      /\ UNCHANGED <<messages, tick, timeOut, ticksToWait, entryTimeSet, verdict, asked, waited>>
      /\ ready' = ready \cup pendingReady
      /\ delayed'[t] = IF t \in pendingReady THEN Awake ELSE delayed[t]
  BY DEF ResumeAll, At, ring, history
<1>2. cur' = t
  BY <1>1, ResumeOwed DEF Prompt
<1>3. /\ pc'[t] \in {"test", "yield", "last"} /\ (pc'[t] = "last" <=> verdict[t] = "expired")
      /\ pc'[t] = "yield" => verdict[t] = "sleep" /\ ~ \E u \in pendingReady : Prio[u] >= Prio[cur]
  BY DEF ResumeAll, Goto, TypeOK
<1>4. /\ entryTimeSet'[t] = entryTimeSet[t] /\ verdict'[t] = verdict[t] /\ asked'[t] = asked[t]
      /\ waited'[t] = waited[t] /\ ticksToWait'[t] = ticksToWait[t]
      /\ Age(t)' = Age(t) /\ Left(t)' = Left(t) /\ Pended' = Pended
  BY <1>1 DEF Age, Left, Pended
<1>5. Left(t) \in Int /\ ticksToWait[t] \in Int /\ Ticked' = 0
  BY LeftType DEF Ticked
<1>6. \/ InTimedSleep(t)' /\ InTimedSleep(t) /\ Remaining(delayed[t], tick)' = Remaining(delayed[t], tick)
      \/ ~InTimedSleep(t)' /\ (InTimedSleep(t) => t \in pendingReady)
  BY <1>1 DEF InTimedSleep, Remaining, Awake
<1>7. ASSUME entryTimeSet[t], verdict[t] # "expired" PROVE Counts(t)'
  <2>1. Counts(t) /\ Age(t) = 0 /\ ticksToWait[t] > 0
    BY <1>1, <1>7 DEF OnTime, Counts, LateBy
  <2>2. Left(t) >= 1
    BY <1>5, <2>1 DEF Left
  <2>3. pc'[t] \in {"test", "yield"}
    BY <1>3, <1>7
  <2>4. LateBy(t)'
    BY <1>2, <1>4, <1>5, <2>2, <2>3 DEF LateBy
  <2> QED BY <1>4, <1>6, <2>1, <2>4 DEF Counts
<1>8. ASSUME entryTimeSet[t], pc'[t] \in {"test", "yield"}, pc'[t] = "yield" \/ t \notin ready'
      PROVE InTimedSleep(t)'
  <2>1. t \notin pendingReady
    <3>1. Prio[t] >= Prio[cur]
      BY <1>1, QueueAssumption
    <3> QED BY <1>1, <1>3, <1>8, <3>1
  <2>2. Going(t)
    <3>1. t \notin ready => GoingToSleep(t)
      BY <1>1 DEF Sched, RunnerReady
    <3> QED BY <1>1, <1>3, <1>8, <3>1 DEF GoingToSleep, Going
  <2>3. InTimedSleep(t)
    BY <1>8, <2>2 DEF OnTime
  <2> QED BY <1>6, <2>1, <2>3
<1>9. InTimedSleep(t)' => entryTimeSet[t] /\ verdict[t] # "expired"
  BY <1>6 DEF OnTime
<1>10. pc'[t] \notin {"unlock", "resume"}
  BY <1>3
<1>11. ~entryTimeSet[t] => waited[t] = 0
  BY DEF OnTime
<1> QED BY <1>3, <1>4, <1>7, <1>8, <1>9, <1>10, <1>11 DEF OnTime, Going

\* Every step of its own.
LEMMA OwnStep ==
  ASSUME TypeOK, TypeOK', LockDiscipline, DelayedListsInOrder, TimeLeft, Sched, Clocked, NEW t \in Task, Foremost(t),
         Prompt(t), OnTime(t), Step(t), ticked' = FALSE
  PROVE OnTime(t)'
<1>1. CASE BlockElsewhere(t) \/ Call(t)
  <2>1. \E p : Goto(t, p)
    BY <1>1 DEF BlockElsewhere, Call
  <2>2. cur = t /\ pc[t] = "out" /\ UNCHANGED <<delayed, entryTimeSet, waited, verdict>>
    BY <1>1 DEF BlockElsewhere, Call, At, clock, locals, history
  <2> QED BY <2>1, <2>2, OutOfCall
<1>2. CASE GiveUpAtOnce(t) \/ Fail(t)
  <2>1. cur = t /\ pc[t] \in {"test", "last"} /\ Return(t) /\ delayed' = delayed
    BY <1>2 DEF GiveUpAtOnce, Fail, At, clock
  <2> QED BY <2>1, CallOver
<1>3. CASE SetTimeOutState(t)
  BY <1>3, NoteOnTime
<1>4. CASE SuspendAll(t) \/ LockQueue(t) \/ TestAgain(t)
  BY <1>4, SectionOnTime
<1>5. CASE NotExpired(t)
  BY <1>5, NotExpiredOnTime
<1>6. CASE Expired(t)
  BY <1>6, ExpiredOnTime
<1>7. CASE PlaceOnEventList(t)
  BY <1>7, PlaceOnTime
<1>8. CASE UnlockQueue(t)
  BY <1>8, UnlockOnTime
<1>9. CASE ResumeAll(t)
  <2>1. CASE pendedTick
    BY <1>9, <2>1, ResumeCounts
  <2>2. CASE ~pendedTick
    BY <1>9, <2>2, ResumeQuiet
  <2> QED BY <2>1, <2>2
<1>10. CASE Yield(t)
  BY <1>10, YieldOnTime
<1>11. CASE Retry(t)
  BY <1>11, RetryOnTime
<1> QED BY <1>1, <1>2, <1>3, <1>4, <1>5, <1>6, <1>7, <1>8, <1>9, <1>10, <1>11 DEF Step

LEMMA OwnCall ==
  ASSUME TypeOK, LockDiscipline, Sched, Clocked, NEW t \in Task, SendNow(t) \/ ReceiveNow(t)
  PROVE OnTime(t)'
<1>1. PICK W : MakeReady(W)
  BY DEF SendNow, ReceiveNow
<1>2. cur = t /\ pc[t] = "test" /\ Return(t)
  BY DEF SendNow, ReceiveNow, At
<1>3. delayed'[t] = delayed[t] \/ delayed'[t] = Awake
  BY <1>1, WokenOrSame
<1> QED BY <1>2, <1>3, CallOver

LEMMA OnTimeNext ==
  ASSUME TypeOK, TypeOK', LockDiscipline, DelayedListsInOrder, TimeLeft, Sched, Clocked, NEW t \in Task, Foremost(t),
         Prompt(t), OnTime(t), [Next]_vars
  PROVE OnTime(t)'
<1>1. ASSUME NEW u \in Task, Step(u), ticked' = FALSE PROVE OnTime(t)'
  <2>1. CASE u = t
    BY <1>1, <2>1, OwnStep
  <2>2. CASE u # t /\ ResumeAll(u) /\ pendedTick
    BY <1>1, <2>2, ResumeCounts
  <2>3. CASE u # t /\ ~(ResumeAll(u) /\ pendedTick)
    BY <1>1, <2>3, OtherStep
  <2> QED BY <2>1, <2>2, <2>3
<1>2. ASSUME NEW u \in Task, SendNow(u) \/ ReceiveNow(u) PROVE OnTime(t)'
  BY <1>2, OwnCall, OtherCall
<1>3. CASE TickInterrupt
  BY <1>3, PendedOnTime, InterruptOnTime
<1>4. CASE Event /\ UNCHANGED ticked
  BY <1>4, EventOnTime
<1>5. CASE UNCHANGED vars
  <2>1. /\ UNCHANGED <<cur, ready, messages, tick, pendedTick, ticked, delayed, timeOut, pc, ticksToWait>>
        /\ UNCHANGED <<entryTimeSet, verdict, asked, waited>>
    BY <1>5 DEF vars, ring, sched, clock, locals, history
  <2>2. /\ Counts(t)' = Counts(t) /\ InTimedSleep(t)' = InTimedSleep(t) /\ Going(t)' = Going(t)
        /\ Looks(t)' = Looks(t)
    BY <2>1 DEF Counts, LateBy, InTimedSleep, Going, Looks, Remaining, Left, Age, Pended, Ticked
  <2> QED BY <2>1, <2>2 DEF OnTime
<1>6. \A u \in Sender \cup Receiver : u \in Task
  BY DEF Task
<1> QED BY <1>1, <1>2, <1>3, <1>4, <1>5, <1>6 DEF Next, Run

(* Throughout an execution the task that outranks the others is prompt and on time. *)
ForemostOnTime == \A t \in Task : Foremost(t) => Prompt(t) /\ OnTime(t)

THEOREM ForemostInvariance == Spec => []ForemostOnTime
<1>1. Init => ForemostOnTime
  <2> SUFFICES ASSUME Init, NEW t \in Task, Foremost(t) PROVE Prompt(t) /\ OnTime(t)
    BY DEF ForemostOnTime
  <2>1. /\ ready = Task \cup {Idle} /\ cur \in Top(ready) /\ yieldPending = FALSE /\ pc[t] = "out"
        /\ entryTimeSet[t] = FALSE /\ verdict[t] = "again" /\ waited[t] = 0 /\ delayed[t].list = "no"
    BY DEF Init, Awake
  <2>2. Top(ready) = {t}
    BY <2>1, ForemostFirst
  <2> QED BY <2>1, <2>2 DEF Prompt, Owed, OnTime, InTimedSleep
<1>2. IInv /\ IInv' /\ WInv /\ ForemostOnTime /\ [Next]_vars => ForemostOnTime'
  <2> SUFFICES ASSUME IInv, IInv', WInv, ForemostOnTime, [Next]_vars, NEW t \in Task, Foremost(t)
               PROVE Prompt(t)' /\ OnTime(t)'
    BY DEF ForemostOnTime, Foremost
  <2>1. Prompt(t) /\ OnTime(t)
    BY DEF ForemostOnTime
  <2>2. TypeOK /\ TypeOK' /\ LockDiscipline /\ DelayedListsInOrder /\ TimeLeft /\ Sched /\ Clocked
    BY DEF IInv, WInv
  <2> QED BY <2>1, <2>2, PromptNext, OnTimeNext
<1> QED BY <1>1, <1>2, Invariance, WakeInvariance, PTL DEF Spec

(* The task that outranks the others runs whenever it is ready, but for a switch to it that is
   owed at the next tick: the only cause is the flag that the handler does not return. *)
THEOREM ForemostRuns ==
  Spec => [](\A t \in Task : Foremost(t) /\ t \in ready => cur = t \/ yieldPending)
<1>1. ForemostOnTime => \A t \in Task : Foremost(t) /\ t \in ready => cur = t \/ yieldPending
  BY DEF ForemostOnTime, Prompt, Owed
<1> QED BY <1>1, ForemostInvariance, PTL

(* No call of it sleeps longer than it was given, whatever the tick count does meanwhile. *)
THEOREM ForemostWakesInTime == Spec => []SleepsNoLongerThanAsked
<1>1. IInv /\ ForemostOnTime => SleepsNoLongerThanAsked
  <2> SUFFICES ASSUME IInv, ForemostOnTime, NEW t \in Task, Foremost(t), InTimedSleep(t)
               PROVE waited[t] < asked[t] + (IF pendedTick THEN 1 ELSE 0)
    BY DEF SleepsNoLongerThanAsked, InTimedSleep
  <2>1. OnTime(t) /\ TypeOK /\ DelayedListsInOrder
    BY DEF ForemostOnTime, IInv
  <2>2. Counts(t)
    BY <2>1 DEF OnTime
  <2>3. Left(t) \in Int /\ Left(t) >= 1
    BY <2>1, <2>2, AsleepHasTime DEF Counts
  <2>4. waited[t] <= asked[t] - Left(t) + Pended
    BY <2>2 DEF Counts
  <2>5. waited[t] \in Int /\ asked[t] \in Int /\ Pended \in {0, 1}
    BY <2>1, TimeTypes DEF Forever
  <2>6. waited[t] < asked[t] + Pended
    BY <2>3, <2>4, <2>5
  <2> QED BY <2>6 DEF Pended
<1> QED BY <1>1, Invariance, ForemostInvariance, PTL

(* Nobody takes the processor from it: no wake-up, resumption or tick switches away from the
   task that outranks the others.  It gives the processor up itself, when it goes to sleep. *)
THEOREM ForemostKeepsRunning ==
  Spec => [][\A t \in Task : Foremost(t) /\ cur = t /\ cur' # t => BlockElsewhere(t) \/ Yield(t)]_vars
<1>1. IInv /\ WInv /\ ForemostOnTime /\ [Next]_vars =>
        [\A t \in Task : Foremost(t) /\ cur = t /\ cur' # t => BlockElsewhere(t) \/ Yield(t)]_vars
  <2> SUFFICES ASSUME IInv, WInv, ForemostOnTime, [Next]_vars, NEW t \in Task, Foremost(t), cur = t,
                      ~BlockElsewhere(t), ~Yield(t)
               PROVE cur' = t
    OBVIOUS
  <2>1. TypeOK /\ LockDiscipline /\ Sched /\ Owed(t)
    BY DEF IInv, WInv, ForemostOnTime, Prompt
  <2> QED BY <2>1, KeepsProcessor
<1> QED BY <1>1, Invariance, WakeInvariance, ForemostInvariance, PTL DEF Spec

(* A call of it notices that its time is over at most three ticks late: one at the test,
   one before it suspended the scheduler and one pended since. *)
THEOREM ForemostNoticesInTime ==
  Spec => [](\A t \in Task : Foremost(t) /\ entryTimeSet[t] /\ verdict[t] # "expired" => waited[t] <= asked[t] + 3)
<1>1. IInv /\ WInv /\ ForemostOnTime =>
        \A t \in Task : Foremost(t) /\ entryTimeSet[t] /\ verdict[t] # "expired" => waited[t] <= asked[t] + 3
  <2> SUFFICES ASSUME IInv, WInv, ForemostOnTime, NEW t \in Task, Foremost(t), entryTimeSet[t], verdict[t] # "expired"
               PROVE waited[t] <= asked[t] + 3
    OBVIOUS
  <2>1. TypeOK /\ OnTime(t) /\ InTime(t)
    BY DEF IInv, WInv, Clocked, ForemostOnTime
  <2>2. Counts(t) /\ InCall(t) /\ pc[t] # "last"
    BY <2>1 DEF OnTime, InTime
  <2>3. Left(t) \in Int /\ ticksToWait[t] \in Int /\ Ticked \in {0, 1} /\ Pended \in {0, 1}
    BY <2>1, LeftType
  <2>4. Left(t) >= -2
    <3>1. pc[t] \in {"test", "suspend", "lock", "check", "blocked", "place", "unlock", "resume", "yield"}
      BY <2>1, <2>2 DEF InCall, TypeOK, Points
    <3>2. LateBy(t)
      BY <2>2 DEF Counts
    <3>3. CASE pc[t] \in {"blocked", "place", "unlock", "resume"}
      <4>1. Left(t) = ticksToWait[t] - 0 /\ ticksToWait[t] > 0
        BY <3>2, <3>3 DEF LateBy, Left
      <4> QED BY <2>3, <4>1
    <3>4. CASE pc[t] \notin {"blocked", "place", "unlock", "resume"}
      BY <2>3, <3>1, <3>2, <3>4 DEF LateBy
    <3> QED BY <3>3, <3>4
  <2>5. waited[t] \in Int /\ asked[t] \in Int
    BY <2>1, TimeTypes DEF Forever
  <2> QED BY <2>2, <2>3, <2>4, <2>5 DEF Counts
<1> QED BY <1>1, Invariance, WakeInvariance, ForemostInvariance, PTL
=============================================================================

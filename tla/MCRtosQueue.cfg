CONSTANTS
  r1 = r1  r2 = r2  s = s
  Sender = {s}
  Receiver = {r1, r2}
  Isr = Isr
  Idle = Idle
  Prio <- MCPrio
  Waits <- MCWaits
  Busy = {s}
  QueueLength = 2
  TickMod = 4
  LockMax = 2
SPECIFICATION Spec
INVARIANTS TypeOK LockDiscipline EverySleeperCanWake NoSleeperForgotten SleepsNoLongerThanAsked DelayedListsInOrder
PROPERTIES NeverEarly ImplementsFifo TopReceiverServed

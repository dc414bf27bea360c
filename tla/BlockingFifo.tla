---------------------------- MODULE BlockingFifo ----------------------------
(***************************************************************************)
(* What a FreeRTOS queue promises to the tasks that use it: a bounded      *)
(* first-in first-out buffer, in which every call takes effect once,       *)
(* between its beginning and its end, or gives up and has no effect.       *)
(***************************************************************************)
EXTENDS Integers, Sequences

CONSTANTS Sender, Receiver,    \* the tasks, by what they do with this queue
          Isr,                 \* the interrupt handler that sends
          Capacity             \* how many items fit

VARIABLES items,               \* what the queue holds, oldest first
          inCall               \* the tasks inside a call

fifoVars == <<items, inCall>>

FifoInit == items = <<>> /\ inCall = {}

\* A task begins a call.
Enter(t) == t \notin inCall /\ inCall' = inCall \cup {t} /\ UNCHANGED items

\* A sender's call ends with its item at the back; items are named for their sender.
Put(t) == /\ t \in inCall /\ Len(items) < Capacity
          /\ items' = Append(items, t) /\ inCall' = inCall \ {t}

\* A receiver's call ends with the oldest item taken.
Take(t) == /\ t \in inCall /\ items # <<>>
           /\ items' = Tail(items) /\ inCall' = inCall \ {t}

\* A call ends without effect.
GiveUp(t) == t \in inCall /\ inCall' = inCall \ {t} /\ UNCHANGED items

\* The handler sends; it makes no call that lasts.
IsrPut == Len(items) < Capacity /\ items' = Append(items, Isr) /\ UNCHANGED inCall

FifoNext == \/ \E t \in Sender : Put(t)
            \/ \E t \in Receiver : Take(t)
            \/ \E t \in Sender \cup Receiver : Enter(t) \/ GiveUp(t)
            \/ IsrPut

FifoSpec == FifoInit /\ [][FifoNext]_fifoVars
=============================================================================

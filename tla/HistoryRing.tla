------------------------------ MODULE HistoryRing ------------------------------
(***************************************************************************)
(* The history of console_mod/microrl.c: lines in a ring of bytes, each    *)
(* behind a byte that holds its length; a zero length marks the end.  A    *)
(* blank of a line is the byte 0 too, as everywhere in microrl.            *)
(***************************************************************************)
EXTENDS Integers, Sequences, FiniteSetsExt

CONSTANTS RingLen      \* _RING_HISTORY_LEN

ASSUME RingAssumption == RingLen \in Nat /\ RingLen > 2

VARIABLES ring_buf, begin, end, cur   \* ring_history_t

ringVars == <<ring_buf, begin, end, cur>>

Cells == 0..(RingLen - 1)

RingTypeOK ==
  /\ ring_buf \in [Cells -> Nat]
  /\ begin \in Cells /\ end \in Cells
  /\ cur \in 0..RingLen

RingInit ==
  /\ ring_buf = [c \in Cells |-> 0]
  /\ begin = 0 /\ end = 0 /\ cur = 0

-------------------------------------------------------------------------------
\* An index is wound back once, as the code does; the walk from begin over n lines.
WrapOnce(n) == IF n >= RingLen THEN n - RingLen ELSE n

HeaderAt[n \in Nat] ==
  IF n = 0 THEN begin
  ELSE WrapOnce(HeaderAt[n - 1] + ring_buf[HeaderAt[n - 1]] + 1)

\* hist_is_space_for_new, when the oldest line is at b.
IsSpaceOffByOne(b, len) ==
  \/ ring_buf[b] = 0
  \/ end >= b /\ RingLen - end + b - 1 >= len
  \/ end < b /\ b - end - 1 >= len
IsSpaceNotWhenEmpty(b, len) ==
  \/ end > b /\ RingLen - end + b - 1 > len
  \/ end <= b /\ b - end - 1 > len
IsSpaceForNew(b, len) ==
  \/ ring_buf[b] = 0
  \/ end >= b /\ RingLen - end + b - 1 > len
  \/ end < b /\ b - end - 1 > len

\* The number of lines hist_erase_older removes, one at a time.
Erased(len) == CHOOSE k \in 0..RingLen :
                 /\ IsSpaceForNew(HeaderAt[k], len)
                 /\ \A j \in 0..(k - 1) : ~IsSpaceForNew(HeaderAt[j], len)

\* The bytes of a line, its length before it and the end mark behind it; the copy
\* is cut in two where the ring ends.
StoredWithoutEnd(line) ==
  LET n == Len(line)
      at(c) == (c - end + RingLen) % RingLen
  IN  [c \in Cells |-> IF at(c) = 0 THEN n
                       ELSE IF at(c) <= n THEN line[at(c)] ELSE ring_buf[c]]
Stored(line) ==
  LET n == Len(line)
      at(c) == (c - end + RingLen) % RingLen
  IN  [c \in Cells |-> IF at(c) = 0 THEN n
                       ELSE IF at(c) <= n THEN line[at(c)]
                       ELSE IF at(c) = n + 1 THEN 0 ELSE ring_buf[c]]

\* hist_save_line
HistSaveLine(line) ==
  \/ /\ Len(line) > RingLen - 2
     /\ UNCHANGED <<ring_buf, begin, end>>
  \/ /\ Len(line) <= RingLen - 2
     /\ begin' = HeaderAt[Erased(Len(line))]
     /\ ring_buf' = Stored(line)
     /\ end' = WrapOnce(end + Len(line) + 1)

\* hist_restore_line counts the lines, finds one and copies it.
Count == CHOOSE n \in 0..RingLen :
           ring_buf[HeaderAt[n]] = 0 /\ \A m \in 0..(n - 1) : ring_buf[HeaderAt[m]] # 0

LineAt(h) == [k \in 1..ring_buf[h] |-> ring_buf[(h + k) % RingLen]]

\* What hist_restore_line finds one step up, if there is one, and one step down.
HasOlder == cur < Count
OlderLine == LineAt(HeaderAt[Count - 1 - cur])

NewerLine == IF cur > 0 THEN LineAt(HeaderAt[Count - (cur - 1)]) ELSE <<>>

Up == HasOlder /\ cur' = cur + 1 /\ UNCHANGED <<ring_buf, begin, end>>

Down == /\ cur' = IF cur > 0 THEN cur - 1 ELSE 0
        /\ UNCHANGED <<ring_buf, begin, end>>
=============================================================================

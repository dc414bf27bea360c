------------------------------ MODULE HistoryLog ------------------------------
(***************************************************************************)
(* What the command history of the console promises: the latest lines that *)
(* fit the buffer, oldest first, and a place in them from which Up and     *)
(* Down show the neighbouring line.                                        *)
(***************************************************************************)
EXTENDS Integers, SequencesExt

CONSTANTS
  RingLen,       \* _RING_HISTORY_LEN: bytes for the lines, one more for each of
                 \* them, and one for the end
  Lines          \* lines that may be entered

VARIABLES lines, cur,  \* the lines, how many lines back the place is
          shown        \* the line last shown, <<>> for an empty one

histVars == <<lines, cur, shown>>

\* The bytes the lines ls take.
Bytes(ls) == Len(FlattenSeq(ls)) + Len(ls)

HistInit == lines = <<>> /\ cur = 0 /\ shown = <<>>

From(k) == SubSeq(lines, k, Len(lines))

\* A line is appended; as few of the oldest go as the space asks for.  A line
\* that could never fit is not kept.
Entered(line) ==
  /\ cur' = 0
  /\ IF Len(line) + 2 > RingLen THEN UNCHANGED lines
     ELSE \E k \in 1..(Len(lines) + 1) :
            /\ Bytes(From(k)) + Len(line) + 2 <= RingLen
            /\ \A j \in 1..(k - 1) : Bytes(From(j)) + Len(line) + 2 > RingLen
            /\ lines' = Append(From(k), line)

Older == /\ cur < Len(lines)
         /\ cur' = cur + 1
         /\ shown' = lines[Len(lines) - cur]
         /\ UNCHANGED lines

\* Newer than the newest is an empty line.
Newer == /\ cur' = IF cur > 0 THEN cur - 1 ELSE 0
         /\ shown' = IF cur > 1 THEN lines[Len(lines) - cur + 2] ELSE <<>>
         /\ UNCHANGED lines

HistNext == (\E line \in Lines : Entered(line) /\ UNCHANGED shown)
              \/ Older \/ Newer

HistSpec == HistInit /\ [][HistNext]_histVars
=============================================================================

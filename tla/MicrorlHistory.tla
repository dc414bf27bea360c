---------------------------- MODULE MicrorlHistory ----------------------------
(***************************************************************************)
(* The history on its own: lines are entered, Up and Down restore one.     *)
(***************************************************************************)
EXTENDS HistoryRing

CONSTANTS Lines        \* lines that may be entered

ASSUME LinesAssumption == Lines \subseteq Seq(Nat) /\ <<>> \notin Lines

VARIABLES shown        \* the line last restored

histVars == <<ringVars, shown>>

HistInit == RingInit /\ shown = <<>>

\* new_line_handler, as far as the history goes.
EnterLine(line) == /\ HistSaveLine(line)
                   /\ cur' = 0
                   /\ UNCHANGED shown

\* hist_search
Recall == \/ Up /\ shown' = OlderLine
          \/ Down /\ shown' = NewerLine

HistNext == (\E line \in Lines : EnterLine(line)) \/ Recall

HistSpec == HistInit /\ [][HistNext]_histVars

-------------------------------------------------------------------------------
\* hist_save_line's loop of erasing ends for every line that fits the ring at all.
SavingEnds ==
  \A len \in 1..(RingLen - 2) : \E k \in 0..RingLen : IsSpaceForNew(HeaderAt[k], len)

\* The lines found by walking the ring from begin end exactly at end, whatever was
\* saved and wrapped before.
WalkEndsAtEnd ==
  \E n \in 0..RingLen : /\ HeaderAt[n] = end
                         /\ \A m \in 0..n : ring_buf[HeaderAt[m]] = 0 <=> m = n

\* The ring keeps the latest lines that fit, and the searches show the right ones.
Log == INSTANCE HistoryLog WITH
         lines <- [k \in 1..Count |-> LineAt(HeaderAt[k - 1])]

HistoryAsSpecified == Log!HistSpec
=============================================================================

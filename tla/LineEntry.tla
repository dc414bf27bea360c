------------------------------ MODULE LineEntry ------------------------------
(***************************************************************************)
(* What the console's line editor promises: a line of text with a place in *)
(* it, edited by keys; Enter puts it into the history.  Words is what the  *)
(* command is then to be given.                                            *)
(***************************************************************************)
EXTENDS Integers, SequencesExt

CONSTANTS
  LineLen,       \* _COMMAND_LINE_LEN, one more than the longest line
  RingLen,       \* _RING_HISTORY_LEN
  Commands,      \* the commands that TAB completes
  Letter         \* codes of the characters that are not blank

Blank == 32

VARIABLES text, pos,     \* the line and the place: pos characters stand before it
          cut,           \* the line ends where ^K cut a word in two
          lines, cur     \* the history

lineVars == <<text, pos, cut, lines, cur>>

History == INSTANCE HistoryLog WITH shown <- text,
             Lines <- UNION {[1..n -> Letter \union {Blank}] : n \in 1..(LineLen - 1)}

\* The maximal runs of characters that are not blank.
WordAt(s, k) == SubSeq(s, k, CHOOSE l \in k..Len(s) :
                  /\ \A m \in k..l : s[m] # Blank
                  /\ l < Len(s) => s[l + 1] = Blank)
Words(s) ==
  LET starts == {k \in 1..Len(s) : s[k] # Blank /\ (k > 1 => s[k - 1] = Blank)}
      wth(w) == CHOOSE k \in starts : Cardinality({j \in starts : j < k}) = w - 1
  IN  [w \in 1..Cardinality(starts) |-> WordAt(s, wth(w))]

\* The word that begins before the place, <<>> behind a blank.
WordHere ==
  IF pos = 0 \/ text[pos] = Blank THEN <<>>
  ELSE WordAt(text, Max({k \in 1..pos : text[k] # Blank /\ (k > 1 => text[k - 1] = Blank)}))
WordIsLast == pos > 0 /\ \A k \in pos..Len(text) : text[k] # Blank

LineInit == text = <<>> /\ pos = 0 /\ cut = FALSE /\ lines = <<>> /\ cur = 0

Fits(s) == Len(text) + Len(s) < LineLen

Inserted(s) == /\ text' = SubSeq(text, 1, pos) \o s \o SubSeq(text, pos + 1, Len(text))
               /\ pos' = pos + Len(s)
               /\ UNCHANGED <<lines, cur>>

Insert(ch) == /\ Fits(<<ch>>)
              /\ ch = Blank => text # <<>>
              /\ Inserted(<<ch>>)
              /\ cut' = FALSE

Rubout == /\ pos > 0
          /\ text' = RemoveAt(text, pos)
          /\ pos' = pos - 1
          /\ UNCHANGED <<cut, lines, cur>>

RuboutAll == /\ text' = SubSeq(text, pos + 1, Len(text))
             /\ pos' = 0
             /\ UNCHANGED <<cut, lines, cur>>

CutTail == /\ text' = SubSeq(text, 1, pos)
           /\ cut' = IF pos < Len(text) THEN text[pos + 1] # Blank ELSE cut
           /\ UNCHANGED <<pos, lines, cur>>

\* One place to the left or right, or to an end; a key that has nowhere to go stays.
Move == /\ pos' \in {pos - 1, pos, pos + 1, 0, Len(text)} \intersect 0..Len(text)
        /\ UNCHANGED <<text, cut, lines, cur>>

\* TAB: what all the commands that begin with the word have in common comes in at the
\* place, and a blank behind it if there is one such command only.  What does not fit
\* is left out.  A word that was cut may be taken for a longer one.
Completion(word) ==
  LET candidates == {c \in Commands : IsPrefix(word, c)}
      common     == LongestCommonPrefix(candidates)
      rest       == SubSeq(common, Len(word) + 1, Len(common))
      got        == IF Fits(rest) THEN rest ELSE <<>>
  IN  IF word = <<>> \/ candidates = {} THEN <<>>
      ELSE IF Cardinality(candidates) = 1 /\ Fits(got \o <<Blank>>) THEN got \o <<Blank>>
      ELSE got

TakenFor(word) ==
  IF cut /\ WordIsLast THEN {w \in UNION {Prefixes(c) : c \in Commands} : IsPrefix(word, w)}
  ELSE {word}

Complete == /\ \E word \in TakenFor(WordHere) : Inserted(Completion(word))
            /\ cut' \in {cut, FALSE}

Enter == /\ text' = <<>> /\ pos' = 0 /\ cut' = FALSE
         /\ IF text = <<>> THEN UNCHANGED lines /\ cur' = 0
                           ELSE History!Entered(text)

Recall == /\ History!Older \/ History!Newer
          /\ pos' = Len(text') /\ cut' = FALSE

LineNext == \/ Move \/ Enter \/ Recall
            \/ \E ch \in Letter \union {Blank} : Insert(ch)
            \/ Rubout \/ RuboutAll \/ CutTail \/ Complete

LineSpec == LineInit /\ [][LineNext]_lineVars
=============================================================================

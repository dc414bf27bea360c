--------------------------- MODULE Microrl_proofs ---------------------------
(***************************************************************************)
(* Proofs about the editor of console_mod/microrl.c, for every line length *)
(* and all keys.  Lead says how much of a row of the terminal is right     *)
(* already, and each key is shown to print the rest from there (EditInv).  *)
(* Then what the line means: no place of it and no line of the ring ever   *)
(* holds the code of a blank (CharsInv), so what is stored with zeros      *)
(* reads back as it was, the words a command gets are those of the line,   *)
(* and each key is one action of LineEntry (EntryNext).                    *)
(***************************************************************************)
EXTENDS Microrl, MicrorlHistory_proofs

-------------------------------------------------------------------------------
\* The terminal.
Scr == [row : Seq(Nat), col : Nat]

LEMMA ScrFields ==
  ASSUME NEW scr \in Scr
  PROVE  scr.row \in Seq(Nat) /\ scr.col \in Nat /\ Len(scr.row) \in Nat
BY DEF Scr

LEMMA ScrIs ==
  ASSUME NEW r \in Seq(Nat), NEW c \in Nat
  PROVE  /\ [row |-> r, col |-> c] \in Scr
         /\ [row |-> r, col |-> c].row = r /\ [row |-> r, col |-> c].col = c
BY DEF Scr

LEMMA MovedOn ==
  ASSUME NEW scr \in Scr, NEW n \in Int, scr.col + n >= 0
  PROVE  Moved(scr, n) \in Scr /\ Moved(scr, n).row = scr.row /\ Moved(scr, n).col = scr.col + n
<1> DEFINE c == scr.col + n
<1>1. scr.row \in Seq(Nat) /\ c \in Nat
  BY ScrFields
<1> HIDE DEF c
<1>2. Max({c, 0}) = c
  BY <1>1, MaxTwo
<1>3. Moved(scr, n) = [scr EXCEPT !.col = c]
  BY <1>2 DEF Moved, c
<1>4. Moved(scr, n) = [row |-> scr.row, col |-> c]
  BY <1>3 DEF Scr
<1> QED BY <1>1, <1>4, ScrIs DEF c

LEMMA MovedHome ==
  ASSUME NEW scr \in Scr, NEW n \in Int, scr.col + n < 0
  PROVE  Moved(scr, n) \in Scr /\ Moved(scr, n).row = scr.row /\ Moved(scr, n).col = 0
<1> DEFINE c == scr.col + n
<1>1. scr.row \in Seq(Nat) /\ c \in Int /\ c < 0
  BY ScrFields
<1> HIDE DEF c
<1>2. Max({c, 0}) = 0
  BY <1>1, MaxTwo
<1>3. Moved(scr, n) = [scr EXCEPT !.col = 0]
  BY <1>2 DEF Moved, c
<1>4. Moved(scr, n) = [row |-> scr.row, col |-> 0]
  BY <1>3 DEF Scr
<1>5. 0 \in Nat
  OBVIOUS
<1> QED BY <1>1, <1>4, <1>5, ScrIs

LEMMA MovedType ==
  ASSUME NEW scr \in Scr, NEW n \in Int
  PROVE  Moved(scr, n) \in Scr
<1>1. scr.col + n \in Int
  BY ScrFields
<1>2. CASE scr.col + n >= 0
  BY <1>2, MovedOn
<1>3. CASE scr.col + n < 0
  BY <1>3, MovedHome
<1> QED BY <1>1, <1>2, <1>3

LEMMA ClearedType ==
  ASSUME NEW scr \in Scr
  PROVE  ClearedRight(scr) \in Scr /\ ClearedRight(scr).col = scr.col
<1> DEFINE r == scr.row
           c == scr.col
           l == Min({c, Len(r)})
<1>1. r \in Seq(Nat) /\ c \in Nat /\ Len(r) \in Nat
  BY ScrFields
<1>2. l \in Nat /\ l <= Len(r)
  <2> HIDE DEF r, c
  <2>1. l = IF c <= Len(r) THEN c ELSE Len(r)
    BY <1>1, MinTwo
  <2> HIDE DEF l
  <2> QED BY <1>1, <2>1
<1>3. ClearedRight(scr) = [scr EXCEPT !.row = SubSeq(r, 1, l)]
  BY DEF ClearedRight
<1> HIDE DEF l
<1>4. ClearedRight(scr) = [row |-> SubSeq(r, 1, l), col |-> c]
  BY <1>3 DEF Scr
<1>5. SubSeq(r, 1, l) \in Seq(Nat)
  <2> HIDE DEF r
  <2> QED BY <1>1, <1>2
<1> HIDE DEF r, c
<1>6. ClearedRight(scr) \in Scr /\ ClearedRight(scr).col = c
  <2> DEFINE q == SubSeq(r, 1, l)
  <2>1. q \in Seq(Nat) /\ ClearedRight(scr) = [row |-> q, col |-> c]
    BY <1>4, <1>5
  <2> HIDE DEF q
  <2> QED BY <1>1, <2>1, ScrIs
<1> QED BY <1>6 DEF c

LEMMA ClearedIs ==
  ASSUME NEW scr \in Scr, scr.col <= Len(scr.row)
  PROVE  /\ Len(ClearedRight(scr).row) = scr.col
         /\ \A k \in 1..scr.col : ClearedRight(scr).row[k] = scr.row[k]
<1> DEFINE r == scr.row
           c == scr.col
           q == SubSeq(r, 1, c)
<1>1. r \in Seq(Nat) /\ c \in Nat /\ Len(r) \in Nat
  BY ScrFields
<1>2. Min({c, Len(r)}) = c
  <2> c <= Len(r)
    OBVIOUS
  <2> HIDE DEF r, c
  <2> QED BY <1>1, MinTwo
<1>3. ClearedRight(scr) = [scr EXCEPT !.row = q]
  BY <1>2 DEF ClearedRight
<1>4. Len(q) = c /\ \A k \in 1..c : q[k] = r[k]
  <2> c <= Len(r)
    OBVIOUS
  <2> HIDE DEF r, c
  <2> QED BY <1>1
<1> HIDE DEF q
<1>5. ClearedRight(scr).row = q
  BY <1>3 DEF Scr
<1> QED BY <1>4, <1>5

LEMMA TypedIs ==
  ASSUME NEW scr \in Scr, NEW s \in Seq(Nat)
  PROVE  /\ Typed(scr, s) \in Scr /\ Typed(scr, s).col = scr.col + Len(s)
         /\ Len(Typed(scr, s).row) = Max({scr.col + Len(s), Len(scr.row)})
         /\ \A k \in 1..Max({scr.col + Len(s), Len(scr.row)}) :
              Typed(scr, s).row[k] = IF k \in (scr.col + 1)..(scr.col + Len(s)) THEN s[k - scr.col]
                                     ELSE IF k <= Len(scr.row) THEN scr.row[k] ELSE Blank
<1> DEFINE c == scr.col
           R == scr.row
           L == Len(R)
           e == Max({c + Len(s), L})
           r == [k \in 1..e |-> IF k \in (c + 1)..(c + Len(s)) THEN s[k - c]
                                ELSE IF k <= L THEN R[k] ELSE Blank]
<1>1. R \in Seq(Nat) /\ c \in Nat /\ L \in Nat /\ Len(s) \in Nat
  BY ScrFields
<1>2. e \in Nat
  <2> HIDE DEF R, c, L
  <2>1. c + Len(s) \in Nat
    BY <1>1
  <2>2. e = IF c + Len(s) >= L THEN c + Len(s) ELSE L
    BY <1>1, <2>1, MaxTwo
  <2> HIDE DEF e
  <2> QED BY <1>1, <2>1, <2>2
<1>3. Typed(scr, s) = [row |-> r, col |-> c + Len(s)]
  BY DEF Typed
<1>5. ASSUME NEW k \in 1..e
      PROVE  (IF k \in (c + 1)..(c + Len(s)) THEN s[k - c] ELSE IF k <= L THEN R[k] ELSE Blank) \in Nat
  <2> k \in Nat /\ k >= 1
    BY <1>2
  <2> HIDE DEF R, c, e
  <2>1. k \in (c + 1)..(c + Len(s)) => k - c \in 1..Len(s)
    BY <1>1
  <2>2. k \in (c + 1)..(c + Len(s)) => s[k - c] \in Nat
    BY <2>1
  <2>3. k <= L => R[k] \in Nat
    BY <1>1
  <2>4. Blank \in Nat
    BY DEF Blank
  <2> HIDE DEF L
  <2> QED BY <2>2, <2>3, <2>4
<1> HIDE DEF e
<1>6. r \in Seq(Nat) /\ Len(r) = e
  <2>1. r \in [1..e -> Nat]
    BY <1>5
  <2> HIDE DEF r
  <2> QED BY <1>2, <2>1
<1>7. c + Len(s) \in Nat
  <2> HIDE DEF c, L, R
  <2> QED BY <1>1
<1>9. \A k \in 1..e : r[k] = IF k \in (c + 1)..(c + Len(s)) THEN s[k - c]
                             ELSE IF k <= L THEN R[k] ELSE Blank
  OBVIOUS
<1> HIDE DEF r, R, c, L
<1>8. Typed(scr, s) \in Scr /\ Typed(scr, s).row = r /\ Typed(scr, s).col = c + Len(s)
  BY <1>3, <1>6, <1>7, ScrIs
<1>10. /\ Typed(scr, s) \in Scr /\ Typed(scr, s).col = c + Len(s)
       /\ Len(Typed(scr, s).row) = e
       /\ \A k \in 1..e :
            Typed(scr, s).row[k] = IF k \in (c + 1)..(c + Len(s)) THEN s[k - c]
                                   ELSE IF k <= L THEN R[k] ELSE Blank
  BY <1>6, <1>8, <1>9
<1> QED BY <1>10 DEF e, r, R, c, L

Prompt == PrintPrompt.row

LEMMA PromptIs == PrintPrompt \in Scr /\ PrintPrompt.col = 4 /\ Prompt \in Seq(Nat) /\ Len(Prompt) = 4
<1> DEFINE s == <<83, 32, 62, 32>>
<1>1. Fresh \in Scr /\ Fresh.col = 0 /\ Len(Fresh.row) = 0
  <2>1. <<>> \in Seq(Nat) /\ Len(<<>>) = 0
    OBVIOUS
  <2> QED BY <2>1, ScrIs DEF Fresh
<1>2. s \in Seq(Nat) /\ Len(s) = 4
  OBVIOUS
<1> HIDE DEF s
<1>3. Max({0 + 4, 0}) = 4
  BY MaxTwo
<1>4. Typed(Fresh, s) \in Scr /\ Typed(Fresh, s).col = 0 + 4 /\ Len(Typed(Fresh, s).row) = Max({0 + 4, 0})
  BY <1>1, <1>2, TypedIs
<1>5. PrintPrompt \in Scr /\ PrintPrompt.col = 4 /\ Len(PrintPrompt.row) = 4
  BY <1>3, <1>4 DEF PrintPrompt, s
<1> QED BY <1>5, ScrFields DEF Prompt

\* The row begins with the prompt and pos characters of the text, and the place is
\* behind them.
Lead(scr, text, pos) ==
  /\ scr \in Scr /\ scr.col = 4 + pos /\ Len(scr.row) >= 4 + pos
  /\ \A k \in 1..4 : scr.row[k] = Prompt[k]
  /\ \A k \in 1..pos : scr.row[4 + k] = text[k]

\* The row is the prompt and the text.
Shows(scr, text, at) == scr \in Scr /\ scr.row = Prompt \o text /\ scr.col = 4 + at

LEMMA PromptThen ==
  ASSUME NEW text \in Seq(Nat)
  PROVE  /\ Prompt \o text \in Seq(Nat) /\ Len(Prompt \o text) = 4 + Len(text)
         /\ \A k \in 1..4 : (Prompt \o text)[k] = Prompt[k]
         /\ \A k \in 1..Len(text) : (Prompt \o text)[4 + k] = text[k]
<1> DEFINE p == Prompt
<1>1. p \in Seq(Nat) /\ Len(p) = 4
  BY PromptIs
<1> HIDE DEF p
<1>2. /\ p \o text \in Seq(Nat) /\ Len(p \o text) = Len(p) + Len(text)
      /\ \A k \in 1..Len(p) : (p \o text)[k] = p[k]
      /\ \A k \in 1..Len(text) : (p \o text)[Len(p) + k] = text[k]
  BY <1>1, Concat
<1>3. /\ p \o text \in Seq(Nat) /\ Len(p \o text) = 4 + Len(text)
      /\ \A k \in 1..4 : (p \o text)[k] = p[k]
      /\ \A k \in 1..Len(text) : (p \o text)[4 + k] = text[k]
  BY <1>1, <1>2, Zenon
<1> QED BY <1>3 DEF p

LEMMA ShowsRow ==
  ASSUME NEW text \in Seq(Nat), NEW at, NEW scr, Shows(scr, text, at)
  PROVE  /\ Len(scr.row) = 4 + Len(text) /\ \A k \in 1..4 : scr.row[k] = Prompt[k]
         /\ \A k \in 1..Len(text) : scr.row[4 + k] = text[k]
<1> QED BY PromptThen DEF Shows

\* So a row that has the right characters is the prompt and the text.
LEMMA RowIs ==
  ASSUME NEW text \in Seq(Nat), NEW r \in Seq(Nat), Len(r) = 4 + Len(text),
         \A k \in 1..4 : r[k] = Prompt[k], \A k \in 1..Len(text) : r[4 + k] = text[k]
  PROVE  r = Prompt \o text
<1> DEFINE q == Prompt \o text
           N == Len(text)
<1>1. N \in Nat
  OBVIOUS
<1>2. /\ q \in Seq(Nat) /\ N \in Nat /\ Len(q) = 4 + N /\ \A k \in 1..4 : q[k] = Prompt[k]
      /\ \A k \in 1..N : q[4 + k] = text[k]
  BY <1>1, PromptThen
<1>3. Len(r) = 4 + N /\ \A k \in 1..N : r[4 + k] = text[k]
  OBVIOUS
<1> HIDE DEF q, N
<1>4. ASSUME NEW k \in 1..(4 + N) PROVE r[k] = q[k]
  <2>1. CASE k <= 4
    <3>1. k \in 1..4
      BY <1>2, <2>1
    <3> QED BY <1>2, <3>1
  <2>2. CASE ~(k <= 4)
    <3>1. k - 4 \in 1..N /\ k = 4 + (k - 4)
      BY <1>2, <2>2
    <3>2. r[4 + (k - 4)] = q[4 + (k - 4)]
      BY <1>2, <1>3, <3>1
    <3> QED BY <3>1, <3>2
  <2> QED BY <2>1, <2>2
<1>5. r = q
  BY <1>2, <1>3, <1>4, SameSeq
<1> QED BY <1>5 DEF q

LEMMA ShowsLeads ==
  ASSUME NEW text \in Seq(Nat), NEW at \in 0..Len(text), NEW scr, Shows(scr, text, at)
  PROVE  Lead(scr, text, at)
<1>1. scr \in Scr /\ scr.col = 4 + at
  BY DEF Shows
<1>2. /\ Len(scr.row) = 4 + Len(text) /\ \A k \in 1..4 : scr.row[k] = Prompt[k]
      /\ \A k \in 1..Len(text) : scr.row[4 + k] = text[k]
  BY ShowsRow
<1> DEFINE N == Len(text)  L == Len(scr.row)
<1>3. N \in Nat /\ at \in Nat /\ at <= N /\ L = 4 + N
  BY <1>2
<1>4. \A k \in 1..N : scr.row[4 + k] = text[k]
  BY <1>2
<1> HIDE DEF N, L
<1>5. L >= 4 + at /\ \A k \in 1..at : scr.row[4 + k] = text[k]
  BY <1>3, <1>4
<1> QED BY <1>1, <1>2, <1>5 DEF Lead, L

LEMMA ResetType ==
  ASSUME NEW scr \in Scr PROVE ResetCursor(scr) \in Scr
<1> DEFINE n == -(LineLen + PROMPT_LEN + 2)
           a == Moved(scr, n)
<1>1. n \in Int /\ PROMPT_LEN \in Int
  BY MicrorlAssumption DEF PROMPT_LEN
<1> HIDE DEF n
<1>2. a \in Scr
  BY <1>1, MovedType
<1> HIDE DEF a
<1>3. Moved(a, PROMPT_LEN) \in Scr
  BY <1>1, <1>2, MovedType
<1> QED BY <1>3 DEF ResetCursor, a, n

LEMMA ResetIs ==
  ASSUME NEW scr \in Scr, scr.col < LineLen + 6
  PROVE  ResetCursor(scr) \in Scr /\ ResetCursor(scr).row = scr.row /\ ResetCursor(scr).col = 4
<1> DEFINE n == -(LineLen + PROMPT_LEN + 2)
           a == Moved(scr, n)
<1>1. n \in Int /\ PROMPT_LEN = 4 /\ scr.col + n < 0
  BY MicrorlAssumption, ScrFields DEF PROMPT_LEN
<1> HIDE DEF n
<1>2. a \in Scr /\ a.row = scr.row /\ a.col = 0
  BY <1>1, MovedHome
<1> HIDE DEF a
<1>3. Moved(a, 4) \in Scr /\ Moved(a, 4).row = a.row /\ Moved(a, 4).col = 0 + 4
  BY <1>2, MovedOn
<1>4. ResetCursor(scr) = Moved(a, 4)
  BY <1>1 DEF ResetCursor, a, n
<1> QED BY <1>2, <1>3, <1>4

\* After terminal_reset_cursor nothing of the line is taken to be shown.
LEMMA ResetLeads ==
  ASSUME NEW text \in Seq(Nat), Len(text) < LineLen, NEW at \in 0..Len(text), NEW scr, Shows(scr, text, at),
         NEW other
  PROVE  Lead(ResetCursor(scr), other, 0)
<1>1. scr \in Scr /\ scr.col = 4 + at
  BY DEF Shows
<1>2. Len(scr.row) = 4 + Len(text) /\ \A k \in 1..4 : scr.row[k] = Prompt[k]
  BY ShowsRow
<1>3. Len(text) \in Nat /\ at \in Nat /\ at <= Len(text) /\ LineLen \in Nat
  BY MicrorlAssumption
<1>4. scr.col < LineLen + 6
  BY <1>1, <1>3
<1>5. ResetCursor(scr) \in Scr /\ ResetCursor(scr).row = scr.row /\ ResetCursor(scr).col = 4
  BY <1>1, <1>4, ResetIs
<1>6. Len(ResetCursor(scr).row) >= 4 + 0 /\ 4 = 4 + 0
  BY <1>2, <1>3, <1>5
<1> QED BY <1>2, <1>5, <1>6 DEF Lead

\* terminal_print_line puts right what is behind a place that is shown right.
LEMMA PrintLineShows ==
  ASSUME NEW text \in Seq(Nat), Len(text) < LineLen,
         NEW pos \in 0..Len(text), NEW at \in 0..Len(text), NEW scr, Lead(scr, text, pos)
  PROVE  Shows(PrintLine(scr, text, pos, at), text, at)
<1> DEFINE N == Len(text)
           a == ClearedRight(scr)
           s == SubSeq(text, pos + 1, N)
           b == Typed(a, s)
           c == ResetCursor(b)
<1>1. /\ scr \in Scr /\ scr.col = 4 + pos /\ Len(scr.row) >= 4 + pos
      /\ \A k \in 1..4 : scr.row[k] = Prompt[k]
      /\ \A k \in 1..pos : scr.row[4 + k] = text[k]
  BY DEF Lead
<1>2. N \in Nat /\ pos \in Nat /\ pos <= N /\ at \in Nat /\ at <= N /\ N < LineLen /\ LineLen \in Nat
  BY MicrorlAssumption
<1>4. a \in Scr /\ a.col = 4 + pos /\ Len(a.row) = 4 + pos /\ \A k \in 1..(4 + pos) : a.row[k] = scr.row[k]
  <2>1. Len(scr.row) \in Nat /\ scr.col <= Len(scr.row)
    BY <1>1, <1>2, ScrFields
  <2>2. a \in Scr /\ a.col = scr.col
    BY <1>1, ClearedType
  <2>3. Len(a.row) = scr.col /\ \A k \in 1..scr.col : a.row[k] = scr.row[k]
    BY <1>1, <2>1, ClearedIs
  <2> HIDE DEF a
  <2> QED BY <1>1, <2>2, <2>3
<1>5. s \in Seq(Nat) /\ Len(s) = N - pos /\ \A k \in 1..(N - pos) : s[k] = text[pos + k]
  <2> DEFINE A == Nat
  <2>1. text \in Seq(A) /\ pos \in 0..Len(text)
    OBVIOUS
  <2> HIDE DEF A
  <2>2. s \in Seq(A) /\ Len(s) = N - pos /\ \A k \in 1..(N - pos) : s[k] = text[pos + k]
    BY <2>1, SubSeqFrom
  <2> QED BY <2>2 DEF A
<1> HIDE DEF a, s
<1>6. /\ b \in Scr /\ b.col = 4 + N /\ Len(b.row) = 4 + N
      /\ \A k \in 1..(4 + N) : b.row[k] = IF k \in (4 + pos + 1)..(4 + N) THEN s[k - (4 + pos)] ELSE a.row[k]
  <2> DEFINE m == Max({a.col + Len(s), Len(a.row)})
  <2>1. /\ b \in Scr /\ b.col = a.col + Len(s) /\ Len(b.row) = m
        /\ \A k \in 1..m : b.row[k] = IF k \in (a.col + 1)..(a.col + Len(s)) THEN s[k - a.col]
                                      ELSE IF k <= Len(a.row) THEN a.row[k] ELSE Blank
    BY <1>4, <1>5, TypedIs
  <2>2. a.col + Len(s) = 4 + N /\ 4 + N \in Int /\ 4 + pos \in Int /\ 4 + N >= 4 + pos
    <3> HIDE DEF N
    <3> QED BY <1>2, <1>4, <1>5
  <2>3. m = 4 + N
    <3>1. m = Max({4 + N, 4 + pos})
      BY <1>4, <2>2
    <3> HIDE DEF N, m
    <3> QED BY <2>2, <3>1, MaxTwo
  <2> HIDE DEF b, N, m
  <2>5. b.col = 4 + N /\ Len(b.row) = 4 + N
    BY <2>1, <2>2, <2>3
  <2>4. ASSUME NEW k \in 1..(4 + N)
        PROVE  b.row[k] = IF k \in (4 + pos + 1)..(4 + N) THEN s[k - (4 + pos)] ELSE a.row[k]
    <3>1. b.row[k] = IF k \in ((4 + pos) + 1)..(4 + N) THEN s[k - (4 + pos)]
                     ELSE IF k <= 4 + pos THEN a.row[k] ELSE Blank
      BY <1>4, <2>1, <2>2, <2>3
    <3>2. ~(k \in ((4 + pos) + 1)..(4 + N)) => k <= 4 + pos
      BY <1>2
    <3> QED BY <3>1, <3>2
  <2> QED BY <2>1, <2>4, <2>5
<1> HIDE DEF b
<1>7. b.row = Prompt \o text
  <2>1. b.row \in Seq(Nat) /\ Len(b.row) = 4 + Len(text)
    BY <1>6, ScrFields
  <2> HIDE DEF N
  <2>2. ASSUME NEW k \in 1..4 PROVE b.row[k] = Prompt[k]
    <3>1. k \in 1..(4 + N) /\ k \in 1..(4 + pos) /\ ~(k \in (4 + pos + 1)..(4 + N))
      BY <1>2
    <3> QED BY <1>1, <1>4, <1>6, <3>1
  <2>3. ASSUME NEW k \in 1..N PROVE b.row[4 + k] = text[k]
    <3>1. CASE k <= pos
      <4>1. 4 + k \in 1..(4 + N) /\ 4 + k \in 1..(4 + pos) /\ ~(4 + k \in (4 + pos + 1)..(4 + N)) /\ k \in 1..pos
        BY <1>2, <3>1
      <4>2. b.row[4 + k] = a.row[4 + k]
        BY <1>6, <4>1
      <4>3. a.row[4 + k] = scr.row[4 + k]
        BY <1>4, <4>1
      <4> QED BY <1>1, <4>1, <4>2, <4>3
    <3>2. CASE ~(k <= pos)
      <4>1. /\ 4 + k \in 1..(4 + N) /\ 4 + k \in (4 + pos + 1)..(4 + N)
            /\ (4 + k) - (4 + pos) = k - pos /\ k - pos \in 1..(N - pos) /\ pos + (k - pos) = k
        BY <1>2, <3>2
      <4>2. b.row[4 + k] = s[k - pos]
        BY <1>6, <4>1
      <4>3. s[k - pos] = text[pos + (k - pos)]
        BY <1>5, <4>1
      <4> QED BY <4>1, <4>2, <4>3
    <3> QED BY <3>1, <3>2
  <2> QED BY <2>1, <2>2, <2>3, RowIs DEF N
<1>8. b.col < LineLen + 6
  <2> HIDE DEF N
  <2> QED BY <1>2, <1>6
<1>9. c \in Scr /\ c.row = Prompt \o text /\ c.col = 4
  BY <1>6, <1>7, <1>8, ResetIs
<1> HIDE DEF c
<1>10. Moved(c, at) \in Scr /\ Moved(c, at).row = Prompt \o text /\ Moved(c, at).col = 4 + at
  <2>1. at \in Int /\ c.col + at >= 0
    BY <1>2, <1>9
  <2>2. Moved(c, at) \in Scr /\ Moved(c, at).row = c.row /\ Moved(c, at).col = c.col + at
    BY <1>9, <2>1, MovedOn
  <2> QED BY <1>9, <2>2
<1>11. PrintLine(scr, text, pos, at) = Moved(c, at)
  BY DEF PrintLine, a, b, s, c
<1> QED BY <1>10, <1>11 DEF Shows

LEMMA PrintLineType ==
  ASSUME NEW text \in Seq(Nat), NEW pos \in 0..Len(text), NEW at \in Nat, NEW scr \in Scr
  PROVE  PrintLine(scr, text, pos, at) \in Scr
<1> DEFINE s == SubSeq(text, pos + 1, Len(text))
           a == ClearedRight(scr)
           b == Typed(a, s)
           c == ResetCursor(b)
<1>1. s \in Seq(Nat) /\ at \in Int
  <2> DEFINE N == Len(text)
  <2>1. N \in Nat /\ pos \in 0..N /\ N = Len(text)
    OBVIOUS
  <2> HIDE DEF N
  <2>2. SubSeq(text, pos + 1, N) \in Seq(Nat)
    BY <2>1
  <2> QED BY <2>1, <2>2
<1> HIDE DEF s
<1>2. a \in Scr
  BY ClearedType
<1> HIDE DEF a
<1>3. b \in Scr
  BY <1>1, <1>2, TypedIs
<1> HIDE DEF b
<1>4. c \in Scr
  BY <1>3, ResetType
<1> HIDE DEF c
<1>5. Moved(c, at) \in Scr
  BY <1>1, <1>4, MovedType
<1>6. PrintLine(scr, text, pos, at) = Moved(c, at)
  BY DEF PrintLine, a, b, s, c
<1> QED BY <1>5, <1>6

LEMMA BackspaceType == ASSUME NEW scr \in Scr PROVE TerminalBackspace(scr) \in Scr
<1> DEFINE a == Moved(scr, -1)
           b == Typed(a, <<Blank>>)
<1>1. <<Blank>> \in Seq(Nat) /\ -1 \in Int
  BY DEF Blank
<1>2. a \in Scr
  BY <1>1, MovedType
<1> HIDE DEF a
<1>3. b \in Scr
  BY <1>1, <1>2, TypedIs
<1> HIDE DEF b
<1>4. Moved(b, -1) \in Scr
  BY <1>1, <1>3, MovedType
<1> QED BY <1>4 DEF TerminalBackspace, a, b

\* terminal_backspace shows one character less.
LEMMA BackspaceLeads ==
  ASSUME NEW scr, NEW text, NEW pos \in Nat, Lead(scr, text, pos + 1)
  PROVE  Lead(TerminalBackspace(scr), text, pos)
<1> DEFINE a == Moved(scr, -1)
           s == <<Blank>>
           b == Typed(a, s)
           c == Moved(b, -1)
<1>1. /\ scr \in Scr /\ scr.col = 4 + (pos + 1) /\ Len(scr.row) >= 4 + (pos + 1)
      /\ \A k \in 1..4 : scr.row[k] = Prompt[k]
      /\ \A k \in 1..(pos + 1) : scr.row[4 + k] = text[k]
  BY DEF Lead
<1>2. s \in Seq(Nat) /\ Len(s) = 1 /\ -1 \in Int
  BY DEF Blank
<1>3. a \in Scr /\ a.row = scr.row /\ a.col = 4 + pos
  <2>1. scr.col + (-1) = 4 + pos /\ 4 + pos >= 0
    BY <1>1
  <2> QED BY <1>1, <1>2, <2>1, MovedOn
<1>4. Len(a.row) \in Nat /\ Len(a.row) >= 4 + (pos + 1)
  BY <1>1, <1>3, ScrFields
<1> HIDE DEF a, s
<1> DEFINE m == Max({a.col + Len(s), Len(a.row)})
<1>5. m = Len(a.row)
  <2>1. a.col + Len(s) = 4 + (pos + 1) /\ 4 + (pos + 1) \in Int
    BY <1>2, <1>3
  <2> DEFINE x == a.col + Len(s)
             y == Len(a.row)
  <2>2. x \in Int /\ y \in Int /\ y >= x
    BY <1>4, <2>1
  <2> HIDE DEF x, y
  <2>3. Max({x, y}) = y
    BY <2>2, MaxTwo
  <2> QED BY <2>3 DEF x, y
<1>6. /\ b \in Scr /\ b.col = a.col + Len(s) /\ Len(b.row) = m
      /\ \A k \in 1..m : b.row[k] = IF k \in (a.col + 1)..(a.col + Len(s)) THEN s[k - a.col]
                                    ELSE IF k <= Len(a.row) THEN a.row[k] ELSE Blank
  BY <1>2, <1>3, TypedIs
<1> HIDE DEF b, m
<1>7. b.col = 4 + (pos + 1) /\ Len(b.row) >= 4 + pos
  BY <1>2, <1>3, <1>4, <1>5, <1>6
<1>8. ASSUME NEW k \in 1..(4 + pos) PROVE b.row[k] = scr.row[k]
  <2>1. k \in 1..m /\ k <= Len(a.row) /\ ~(k \in (a.col + 1)..(a.col + Len(s)))
    BY <1>2, <1>3, <1>4, <1>5
  <2>2. b.row[k] = a.row[k]
    BY <1>6, <2>1
  <2> QED BY <1>3, <2>2
<1>9. c \in Scr /\ c.row = b.row /\ c.col = 4 + pos
  <2>1. b.col + (-1) = 4 + pos /\ 4 + pos >= 0
    BY <1>7
  <2> QED BY <1>2, <1>6, <2>1, MovedOn
<1> HIDE DEF c
<1>10. \A k \in 1..4 : c.row[k] = Prompt[k]
  <2>1. \A k \in 1..4 : k \in 1..(4 + pos)
    OBVIOUS
  <2> QED BY <1>1, <1>8, <1>9, <2>1
<1>11. ASSUME NEW k \in 1..pos PROVE c.row[4 + k] = text[k]
  <2>1. 4 + k \in 1..(4 + pos) /\ k \in 1..(pos + 1)
    OBVIOUS
  <2> QED BY <1>1, <1>8, <1>9, <2>1
<1>12. Lead(c, text, pos)
  BY <1>7, <1>9, <1>10, <1>11 DEF Lead
<1> QED BY <1>12 DEF TerminalBackspace, a, b, c, s

\* So n of them show n less.
LEMMA ErasedFollows ==
  ASSUME screen \in Scr
  PROVE  /\ TerminalErased[0] = screen
         /\ \A n \in Nat : TerminalErased[n + 1] = TerminalBackspace(TerminalErased[n])
<1> DEFINE G == [d \in Nat \X Scr |-> TerminalBackspace(d[2])]
           Is(f) == f = [n \in Nat |-> IF n = 0 THEN screen ELSE TerminalBackspace(f[n - 1])]
<1>1. G \in [Nat \X Scr -> Scr]
  BY BackspaceType
<1>2. \A n \in Nat : \A y \in Scr : G[<<n, y>>] = TerminalBackspace(y)
  OBVIOUS
<1> HIDE DEF G
<1>3. PICK f \in [Nat -> Scr] : StepsFrom(f, screen, G)
  BY <1>1, Recursion
<1>4. ASSUME NEW n \in Nat PROVE f[n] = IF n = 0 THEN screen ELSE TerminalBackspace(f[n - 1])
  <2>1. CASE n = 0
    BY <1>3, <2>1 DEF StepsFrom
  <2>2. CASE n # 0
    <3>1. n - 1 \in Nat /\ (n - 1) + 1 = n /\ f[n - 1] \in Scr
      BY <1>3, <2>2
    <3>2. f[(n - 1) + 1] = G[<<n - 1, f[n - 1]>>]
      BY <1>3, <3>1 DEF StepsFrom
    <3> QED BY <1>2, <2>2, <3>1, <3>2
  <2> QED BY <2>1, <2>2
<1>5. Is(f)
  BY <1>4
<1>6. TerminalErased = CHOOSE h : Is(h)
  BY DEF TerminalErased
<1> DEFINE h == TerminalErased
<1>7. Is(h)
  <2> HIDE DEF Is
  <2> QED BY <1>5, <1>6
<1> HIDE DEF h
<1>8. h[0] = screen /\ \A n \in Nat : h[n + 1] = TerminalBackspace(h[n])
  <2>1. ASSUME NEW n \in Nat PROVE h[n] = IF n = 0 THEN screen ELSE TerminalBackspace(h[n - 1])
    BY <1>7
  <2>2. h[0] = screen
    BY <2>1
  <2>3. ASSUME NEW n \in Nat PROVE h[n + 1] = TerminalBackspace(h[n])
    <3>1. n + 1 \in Nat /\ n + 1 # 0 /\ (n + 1) - 1 = n
      OBVIOUS
    <3> QED BY <2>1, <3>1
  <2> QED BY <2>2, <2>3
<1> QED BY <1>8 DEF h

LEMMA ErasedType ==
  ASSUME screen \in Scr, NEW m \in Nat PROVE TerminalErased[m] \in Scr
<1> DEFINE S == {n \in Nat : TerminalErased[n] \in Scr}
<1>1. 0 \in S
  BY ErasedFollows
<1>2. ASSUME NEW n \in Nat, n \in S PROVE n + 1 \in S
  BY <1>2, ErasedFollows, BackspaceType
<1> HIDE DEF S
<1>3. m \in S
  BY <1>1, <1>2, NatSetInduction
<1> QED BY <1>3 DEF S

LEMMA ErasedLeads ==
  ASSUME NEW text, NEW pos \in Nat, Lead(screen, text, pos)
  PROVE  Lead(TerminalErased[pos], text, 0)
<1> DEFINE S == {n \in Nat : n <= pos => Lead(TerminalErased[n], text, pos - n)}
<1>0. screen \in Scr
  BY DEF Lead
<1>1. 0 \in S
  <2>1. pos - 0 = pos /\ TerminalErased[0] = screen
    BY <1>0, ErasedFollows
  <2> QED BY <2>1
<1>2. ASSUME NEW n \in Nat, n \in S PROVE n + 1 \in S
  <2> SUFFICES ASSUME n + 1 <= pos PROVE Lead(TerminalErased[n + 1], text, pos - (n + 1))
    OBVIOUS
  <2> DEFINE p == pos - (n + 1)
  <2>1. p \in Nat /\ p + 1 = pos - n /\ n <= pos
    OBVIOUS
  <2>2. Lead(TerminalErased[n], text, p + 1)
    BY <1>2, <2>1
  <2> HIDE DEF p
  <2>3. Lead(TerminalBackspace(TerminalErased[n]), text, p)
    BY <2>1, <2>2, BackspaceLeads
  <2>4. TerminalErased[n + 1] = TerminalBackspace(TerminalErased[n])
    BY <1>0, ErasedFollows
  <2>5. Lead(TerminalErased[n + 1], text, p)
    BY <2>3, <2>4
  <2> QED BY <2>5 DEF p
<1> HIDE DEF S
<1>3. pos \in S
  BY <1>1, <1>2, NatSetInduction
<1>4. pos - pos = 0 /\ pos <= pos
  OBVIOUS
<1> QED BY <1>3, <1>4 DEF S

-------------------------------------------------------------------------------
\* The line.
TextOf(chars, len) == [k \in 1..len |-> CharOf(chars[k - 1])]

LineOK(l) == /\ l.chars \in [Places -> Nat] /\ l.len \in Places /\ l.at \in 0..l.len

LEMMA TextIsOf == Text = TextOf(cmdline, cmdlen) /\ Text' = TextOf(cmdline', cmdlen')
BY DEF Text, TextOf

LEMMA LengthsAre == LineLen \in Nat /\ LineLen >= 1 /\ RingLen \in Nat /\ RingLen <= LineLen + 2
BY MicrorlAssumption, RingAssumption

LEMMA TextType ==
  ASSUME NEW chars \in [Places -> Nat], NEW len \in Places
  PROVE  /\ TextOf(chars, len) \in Seq(Nat) /\ Len(TextOf(chars, len)) = len /\ len \in Nat /\ len < LineLen
         /\ \A k \in 1..len : TextOf(chars, len)[k] = CharOf(chars[k - 1])
<1>1. len \in Nat /\ len < LineLen /\ LineLen \in Nat
  BY LengthsAre DEF Places
<1>2. ASSUME NEW k \in 1..len PROVE CharOf(chars[k - 1]) \in Nat
  <2>1. k - 1 \in Places
    BY <1>1 DEF Places
  <2> QED BY <2>1 DEF CharOf, Blank
<1> DEFINE t == TextOf(chars, len)
<1>3. t \in [1..len -> Nat] /\ \A k \in 1..len : t[k] = CharOf(chars[k - 1])
  BY <1>2 DEF TextOf
<1> HIDE DEF t
<1>4. t \in Seq(Nat) /\ Len(t) = len
  BY <1>1, <1>3
<1> QED BY <1>1, <1>3, <1>4 DEF t

\* Texts whose lines agree before a place are led to by the same rows.
LEMMA LeadSame ==
  ASSUME NEW s, NEW t, NEW pos, \A k \in 1..pos : s[k] = t[k], NEW scr, Lead(scr, s, pos)
  PROVE  Lead(scr, t, pos)
BY DEF Lead

LEMMA InsertedType ==
  ASSUME NEW l, LineOK(l), NEW s \in Seq(Nat)
  PROVE  /\ LineOK(Inserted(l, s))
         /\ l.len + Len(s) < LineLen =>
              /\ Inserted(l, s).at = l.at + Len(s) /\ Inserted(l, s).len = l.len + Len(s)
              /\ \A k \in Places : k < l.at => Inserted(l, s).chars[k] = l.chars[k]
<1> DEFINE n == Len(s)
           c == [k \in Places |->
                   IF k \in l.at..(l.at + n - 1)
                     THEN (IF s[k - l.at + 1] = Blank THEN 0 ELSE s[k - l.at + 1])
                   ELSE IF k \in (l.at + n)..(l.len + n - 1) THEN l.chars[k - n]
                   ELSE IF k = l.len + n THEN 0 ELSE l.chars[k]]
<1>1. /\ l.chars \in [Places -> Nat] /\ l.len \in Nat /\ l.len < LineLen /\ l.at \in Nat /\ l.at <= l.len
      /\ n \in Nat /\ LineLen \in Nat
  BY LengthsAre DEF LineOK, Places
<1>2. CASE l.len + n >= LineLen
  BY <1>1, <1>2 DEF Inserted
<1>3. CASE l.len + n < LineLen
  <2>1. Inserted(l, s) = [chars |-> c, len |-> l.len + n, at |-> l.at + n]
    BY <1>1, <1>3 DEF Inserted
  <2>2. ASSUME NEW k \in Places
        PROVE  (IF k \in l.at..(l.at + n - 1)
                  THEN (IF s[k - l.at + 1] = Blank THEN 0 ELSE s[k - l.at + 1])
                ELSE IF k \in (l.at + n)..(l.len + n - 1) THEN l.chars[k - n]
                ELSE IF k = l.len + n THEN 0 ELSE l.chars[k]) \in Nat
    <3>1. k \in Nat /\ k < LineLen
      BY <1>1 DEF Places
    <3>2. k \in l.at..(l.at + n - 1) => s[k - l.at + 1] \in Nat
      <4> SUFFICES ASSUME k \in l.at..(l.at + n - 1) PROVE s[k - l.at + 1] \in Nat
        OBVIOUS
      <4> DEFINE i == k - l.at + 1
      <4>1. i \in 1..Len(s)
        BY <1>1, <3>1
      <4> HIDE DEF i
      <4>2. s[i] \in Nat
        BY <4>1
      <4> QED BY <4>2 DEF i
    <3>3. k \in (l.at + n)..(l.len + n - 1) => l.chars[k - n] \in Nat
      <4>1. k \in (l.at + n)..(l.len + n - 1) => k - n \in Places
        BY <1>1, <3>1 DEF Places
      <4> QED BY <1>1, <4>1
    <3>4. l.chars[k] \in Nat /\ 0 \in Nat
      BY <1>1
    <3> HIDE DEF n
    <3> QED BY <3>2, <3>3, <3>4, Zenon
  <2>3. c \in [Places -> Nat]
    BY <2>2
  <2>4. ASSUME NEW k \in Places, k < l.at PROVE c[k] = l.chars[k]
    <3>1. k \in Nat
      BY <1>1 DEF Places
    <3>2. ~(k \in l.at..(l.at + n - 1)) /\ ~(k \in (l.at + n)..(l.len + n - 1)) /\ k # l.len + n
      <4> HIDE DEF n, c
      <4> QED BY <1>1, <2>4, <3>1
    <3>3. c[k] = (IF k \in l.at..(l.at + n - 1)
                  THEN (IF s[k - l.at + 1] = Blank THEN 0 ELSE s[k - l.at + 1])
                ELSE IF k \in (l.at + n)..(l.len + n - 1) THEN l.chars[k - n]
                ELSE IF k = l.len + n THEN 0 ELSE l.chars[k])
      OBVIOUS
    <3> HIDE DEF n, c
    <3> QED BY <3>2, <3>3
  <2> HIDE DEF c
  <2>5. l.len + n \in Places /\ l.at + n \in 0..(l.len + n)
    <3> HIDE DEF n
    <3> QED BY <1>1, <1>3 DEF Places
  <2> HIDE DEF n
  <2>6. /\ Inserted(l, s).chars = c /\ Inserted(l, s).len = l.len + n /\ Inserted(l, s).at = l.at + n
    BY <2>1
  <2>7. LineOK(Inserted(l, s))
    BY <2>3, <2>5, <2>6 DEF LineOK
  <2> QED BY <2>4, <2>6, <2>7 DEF n
<1> QED BY <1>1, <1>2, <1>3

\* What hist_search puts into the line.
LEMMA RestoredType ==
  ASSUME NEW line \in Seq(Nat), Len(line) <= LineLen - 1, NEW rest \in [Places -> Nat],
         Restored(line, rest)
  PROVE  cmdline' \in [Places -> Nat] /\ cmdlen' \in Places /\ cursor' = cmdlen'
<1> DEFINE n == Len(line)
<1>1. n \in Nat /\ n <= LineLen - 1 /\ LineLen \in Nat
  BY LengthsAre
<1>2. ASSUME NEW k \in Places
      PROVE  (IF k < n THEN line[k + 1] ELSE IF k = n THEN 0 ELSE rest[k]) \in Nat
  <2>1. k \in Nat
    BY <1>1 DEF Places
  <2>2. k < n => line[k + 1] \in Nat
    <3> DEFINE i == k + 1
    <3>1. k < n => i \in 1..Len(line)
      BY <1>1, <2>1
    <3> HIDE DEF i, n
    <3>2. k < n => line[i] \in Nat
      BY <3>1
    <3> QED BY <3>2 DEF i
  <2>3. rest[k] \in Nat /\ 0 \in Nat
    OBVIOUS
  <2> HIDE DEF n
  <2> QED BY <2>2, <2>3, Zenon
<1>3. /\ cmdline' = [k \in Places |-> IF k < n THEN line[k + 1] ELSE IF k = n THEN 0 ELSE rest[k]]
      /\ cmdlen' = n /\ cursor' = n
  BY DEF Restored
<1>4. n \in Places
  BY <1>1 DEF Places
<1> HIDE DEF n
<1> QED BY <1>2, <1>3, <1>4

\* microrl_backspace keeps what stands before.
LEMMA BackspaceIs ==
  ASSUME cmdline \in [Places -> Nat], cmdlen \in Places, cursor \in 0..cmdlen,
         NEW n \in 0..cursor, Backspace(n)
  PROVE  /\ cmdline' \in [Places -> Nat] /\ cmdlen' \in Places
         /\ cursor' = cursor - n /\ cmdlen' = cmdlen - n /\ cursor - n \in 0..cmdlen'
         /\ \A k \in Places : k < cursor - n => cmdline'[k] = cmdline[k]
<1>1. /\ LineLen \in Nat /\ cmdlen \in Nat /\ cmdlen < LineLen /\ cursor \in Nat /\ cursor <= cmdlen
      /\ n \in Nat /\ n <= cursor
  BY LengthsAre DEF Places
<1>2. ASSUME NEW k \in Places
      PROVE  (IF k < cursor - n \/ k > cmdlen THEN cmdline[k]
              ELSE IF k <= cmdlen - n THEN cmdline[k + n] ELSE 0) \in Nat
  <2>1. k <= cmdlen - n => k + n \in Places
    BY <1>1 DEF Places
  <2>2. cmdline[k] \in Nat /\ (k <= cmdlen - n => cmdline[k + n] \in Nat) /\ 0 \in Nat
    BY <2>1
  <2> QED BY <2>2, Zenon
<1>3. /\ cmdline' = [k \in Places |->
           IF k < cursor - n \/ k > cmdlen THEN cmdline[k]
           ELSE IF k <= cmdlen - n THEN cmdline[k + n] ELSE 0]
      /\ cmdlen' = cmdlen - n /\ cursor' = cursor - n
  BY DEF Backspace
<1>4. cmdline' \in [Places -> Nat] /\ \A k \in Places : k < cursor - n => cmdline'[k] = cmdline[k]
  BY <1>2, <1>3
<1>5. cmdlen - n \in Places /\ cursor - n \in 0..(cmdlen - n)
  BY <1>1 DEF Places
<1> QED BY <1>3, <1>4, <1>5

\* A C string that starts in the line, to the zero behind it or the end of cmdline.
LEMMA CStringType ==
  ASSUME cmdline \in [Places -> Nat], NEW k \in Places
  PROVE  CString(k) \in Seq(Nat)
<1> DEFINE T == {m \in k..(LineLen - 1) : cmdline[m] = 0} \union {LineLen}
           z == Min(T)
<1>1. LineLen \in Nat /\ k \in Nat /\ k < LineLen
  BY LengthsAre DEF Places
<1>2. T \in SUBSET Nat /\ T # {} /\ \A m \in T : m >= k /\ m <= LineLen
  BY <1>1
<1>0. CString(k) = [m \in 1..(z - k) |-> cmdline[k + m - 1]]
  BY DEF CString
<1> HIDE DEF T
<1>3. z \in Nat /\ z >= k /\ z <= LineLen
  BY <1>2, MinExists
<1> HIDE DEF z
<1>4. ASSUME NEW m \in 1..(z - k) PROVE cmdline[k + m - 1] \in Nat
  <2>1. k + m - 1 \in Places
    BY <1>1, <1>3 DEF Places
  <2> QED BY <2>1
<1> DEFINE f == [m \in 1..(z - k) |-> cmdline[k + m - 1]]
<1>5. f \in [1..(z - k) -> Nat] /\ z - k \in Nat
  BY <1>1, <1>3, <1>4
<1>6. CString(k) = f
  BY <1>0
<1> HIDE DEF f
<1>7. f \in Seq(Nat)
  BY <1>5
<1> QED BY <1>6, <1>7

LEMMA BitType ==
  ASSUME cmdline \in [Places -> Nat], cmdlen \in Places PROVE Bit \in Seq(Nat)
<1>1. CASE WordsBefore = {} \/ BehindBlank \/ TooManyBefore
  BY <1>1 DEF Bit
<1>2. CASE ~(WordsBefore = {} \/ BehindBlank \/ TooManyBefore)
  <2>1. LineLen \in Nat /\ cmdlen \in Nat /\ cmdlen < LineLen
    BY LengthsAre DEF Places
  <2>2. WordsBefore \subseteq 0..LineLen /\ WordsBefore \subseteq Places
    BY <2>1 DEF WordsBefore, TokenStarts, Places
  <2>3. Max(WordsBefore) \in WordsBefore
    BY <1>2, <2>1, <2>2, MaxExists
  <2>4. Bit = CString(Max(WordsBefore))
    BY <1>2 DEF Bit
  <2> QED BY <2>2, <2>3, <2>4, CStringType
<1> QED BY <1>1, <1>2

\* common_len finds what the candidates have in common, if there are any.
LEMMA CommonType ==
  ASSUME ComplWorld # {}
  PROVE  /\ Common \in Seq(Nat) /\ Common \in CommonPrefixes(ComplWorld)
         /\ \A o \in CommonPrefixes(ComplWorld) : Len(o) <= Len(Common)
<1> DEFINE W == ComplWorld
           C == CommonPrefixes(W)
<1>1. \A c \in W : c \in Seq(1..255)
  BY MicrorlAssumption DEF ComplWorld
<1>2. C = {p \in UNION {Prefixes(s) : s \in W} : \A t \in W : IsPrefix(p, t)}
  BY DEF CommonPrefixes
<1>3. PICK c \in W : TRUE
  OBVIOUS
<1> HIDE DEF W, C
<1>4. ASSUME NEW p \in C PROVE p \in Seq(Nat) /\ Len(p) \in 0..Len(c)
  <2>1. PICK s \in W : p \in Prefixes(s)
    BY <1>2
  <2>2. PICK l \in 0..Len(s) : p = SubSeq(s, 1, l)
    BY <2>1 DEF Prefixes
  <2>3. s \in Seq(Nat)
    BY <1>1, SeqOfNat
  <2>4. p \in Seq(Nat)
    <3>1. Len(s) \in Nat /\ l \in Nat /\ l <= Len(s)
      BY <2>3
    <3> QED BY <2>2, <2>3, <3>1
  <2>5. Len(p) <= Len(c)
    BY <1>2, <1>3 DEF IsPrefix
  <2>6. c \in Seq(1..255)
    BY <1>1, <1>3
  <2>7. Len(c) \in Nat /\ Len(p) \in Nat
    BY <2>4, <2>6
  <2> QED BY <2>4, <2>5, <2>7
<1>5. <<>> \in C
  <2>1. c \in Seq(1..255) /\ Len(c) \in Nat
    BY <1>1, <1>3
  <2>2. <<>> \in Prefixes(c)
    <3>1. SubSeq(c, 1, 0) = <<>> /\ 0 \in 0..Len(c)
      BY <2>1
    <3> QED BY <3>1 DEF Prefixes
  <2>3. ASSUME NEW t \in W PROVE IsPrefix(<<>>, t)
    <3>1. t \in Seq(1..255) /\ Len(t) \in Nat
      BY <1>1
    <3>2. SubSeq(t, 1, 0) = <<>> /\ SubSeq(<<>>, 1, 0) = <<>> /\ Len(<<>>) = 0
      BY <3>1
    <3> QED BY <3>1, <3>2 DEF IsPrefix
  <2> QED BY <1>2, <1>3, <2>2, <2>3
<1> DEFINE L == {Len(p) : p \in C}
<1>6. L \in SUBSET (0..Len(c)) /\ L # {} /\ Len(c) \in Nat
  <2>1. Len(c) \in Nat
    BY <1>1, <1>3
  <2> QED BY <1>4, <1>5, <2>1
<1> HIDE DEF L
<1>7. Max(L) \in L /\ \A y \in L : Max(L) >= y
  BY <1>6, MaxExists
<1>8. PICK p \in C : Len(p) = Max(L)
  BY <1>7 DEF L
<1>9. \A o \in C : Len(o) <= Len(p)
  <2> SUFFICES ASSUME NEW o \in C PROVE Len(o) <= Len(p)
    OBVIOUS
  <2>1. Len(o) \in L /\ Len(p) \in L
    BY DEF L
  <2>2. Max(L) >= Len(o) /\ Len(o) \in Nat /\ Len(p) \in Nat
    BY <1>6, <1>7, <2>1
  <2> QED BY <1>8, <2>2
<1>10. LongestCommonPrefix(W) = CHOOSE q \in C : \A o \in C : Len(o) <= Len(q)
  BY DEF LongestCommonPrefix, C
<1>11. LongestCommonPrefix(W) \in C /\ \A o \in C : Len(o) <= Len(LongestCommonPrefix(W))
  BY <1>8, <1>9, <1>10
<1>12. LongestCommonPrefix(W) \in Seq(Nat)
  BY <1>4, <1>11
<1> QED BY <1>11, <1>12 DEF Common, W, C

LEMMA CompletedOK ==
  ASSUME LineOK(Line), ComplWorld # {}
  PROVE  LineOK(CompletedLine)
<1>1. cmdline \in [Places -> Nat] /\ cmdlen \in Places
  BY DEF LineOK, Line
<1>2. CASE Common = <<>>
  BY <1>2 DEF CompletedLine
<1>3. CASE Common # <<>>
  <2> DEFINE s == SubSeq(Common, Len(Bit) + 1, Len(Common))
             l == Inserted(Line, s)
  <2>1. s \in Seq(Nat)
    <3>1. Bit \in Seq(Nat) /\ Common \in Seq(Nat)
      BY <1>1, BitType, CommonType
    <3> DEFINE m == Len(Bit) + 1
    <3>2. m \in Nat /\ m > 0
      BY <3>1
    <3> HIDE DEF m
    <3>3. SubSeq(Common, m, Len(Common)) \in Seq(Nat)
      BY <3>1, <3>2, SubSeqType
    <3> QED BY <3>3 DEF m
  <2> HIDE DEF s
  <2>2. LineOK(l)
    BY <2>1, InsertedType
  <2>3. CompletedLine = IF Cardinality(ComplWorld) = 1 THEN Inserted(l, <<Blank>>) ELSE l
    BY <1>3 DEF CompletedLine, s
  <2> HIDE DEF l
  <2>4. <<Blank>> \in Seq(Nat)
    BY DEF Blank
  <2>5. LineOK(Inserted(l, <<Blank>>))
    BY <2>2, <2>4, InsertedType
  <2> QED BY <2>2, <2>3, <2>5
<1> QED BY <1>2, <1>3

-------------------------------------------------------------------------------
\* The keys.
ScreenOK == screen \in Scr /\ (prompted => Shows(screen, Text, cursor))

EditInv == RingInv(LineLen - 1) /\ LineOK(Line) /\ ScreenOK

LEMMA EditFacts ==
  ASSUME EditInv
  PROVE  /\ cmdline \in [Places -> Nat] /\ cmdlen \in Places /\ cursor \in 0..cmdlen
         /\ cmdlen \in Nat /\ cmdlen < LineLen /\ cursor \in Nat /\ cursor <= cmdlen /\ LineLen \in Nat
         /\ Text \in Seq(Nat) /\ Len(Text) = cmdlen
         /\ \A k \in 1..cmdlen : Text[k] = CharOf(cmdline[k - 1])
         /\ screen \in Scr
         /\ prompted => Shows(screen, Text, cursor) /\ Lead(screen, Text, cursor)
<1>1. cmdline \in [Places -> Nat] /\ cmdlen \in Places /\ cursor \in 0..cmdlen
  BY DEF EditInv, LineOK, Line
<1>2. cmdlen \in Nat /\ cmdlen < LineLen /\ cursor \in Nat /\ cursor <= cmdlen /\ LineLen \in Nat
  BY <1>1, LengthsAre DEF Places
<1>3. /\ Text \in Seq(Nat) /\ Len(Text) = cmdlen
      /\ \A k \in 1..cmdlen : Text[k] = CharOf(cmdline[k - 1])
  BY <1>1, TextType, TextIsOf
<1>4. screen \in Scr /\ (prompted => Shows(screen, Text, cursor))
  BY DEF EditInv, ScreenOK
<1>5. prompted => Lead(screen, Text, cursor)
  BY <1>1, <1>3, <1>4, ShowsLeads
<1> QED BY <1>1, <1>2, <1>3, <1>4, <1>5

LEMMA TextNext ==
  ASSUME cmdline' \in [Places -> Nat], cmdlen' \in Places
  PROVE  /\ Text' \in Seq(Nat) /\ Len(Text') = cmdlen' /\ cmdlen' \in Nat /\ cmdlen' < LineLen
         /\ \A k \in 1..cmdlen' : Text'[k] = CharOf(cmdline'[k - 1])
<1>1. PICK c, n : c = cmdline' /\ n = cmdlen'
  OBVIOUS
<1>2. /\ TextOf(c, n) \in Seq(Nat) /\ Len(TextOf(c, n)) = n /\ n \in Nat /\ n < LineLen
      /\ \A k \in 1..n : TextOf(c, n)[k] = CharOf(c[k - 1])
  BY <1>1, TextType
<1>3. Text' = TextOf(c, n)
  BY <1>1, TextIsOf
<1> QED BY <1>1, <1>2, <1>3, Zenon

LEMMA Printed ==
  ASSUME cmdline' \in [Places -> Nat], cmdlen' \in Places, cursor' \in 0..cmdlen',
         NEW scr \in Scr, NEW pos \in Nat, pos <= cmdlen', prompted' => Lead(scr, Text', pos),
         screen' = PrintLine(scr, Text', pos, cursor')
  PROVE  ScreenOK'
<1>1. PICK t, at : t = Text' /\ at = cursor'
  OBVIOUS
<1>2. t \in Seq(Nat) /\ Len(t) = cmdlen' /\ cmdlen' \in Nat /\ cmdlen' < LineLen
  BY <1>1, TextNext
<1>3. at \in 0..Len(t) /\ pos \in 0..Len(t) /\ at \in Nat /\ Len(t) < LineLen
  BY <1>1, <1>2
<1>4. screen' = PrintLine(scr, t, pos, at)
  BY <1>1
<1>5. screen' \in Scr
  BY <1>2, <1>3, <1>4, PrintLineType
<1>6. prompted' => Shows(screen', t, at)
  <2>1. prompted' => Lead(scr, t, pos)
    BY <1>1
  <2>2. Lead(scr, t, pos) => Shows(PrintLine(scr, t, pos, at), t, at)
    BY <1>2, <1>3, PrintLineShows
  <2> QED BY <1>4, <2>1, <2>2
<1>7. prompted' => Shows(screen', Text', cursor')
  BY <1>1, <1>6
<1> QED BY <1>5, <1>7 DEF ScreenOK

LEMMA LineNext == (cmdline' \in [Places -> Nat] /\ cmdlen' \in Places /\ cursor' \in 0..cmdlen') => LineOK(Line)'
BY DEF LineOK, Line

LEMMA RingSame == ASSUME NEW M, RingInv(M), UNCHANGED ringVars PROVE RingInv(M)'
<1>1. UNCHANGED <<ring_buf, begin, end, cur>>
  BY DEF ringVars
<1> QED BY <1>1 DEF RingInv, RingTypeOK

LEMMA NothingChanges ==
  ASSUME EditInv, UNCHANGED <<ringVars, editVars, screen, prompted>> PROVE EditInv'
<1>1. RingInv(LineLen - 1)'
  <2>1. RingInv(LineLen - 1) /\ UNCHANGED ringVars
    BY DEF EditInv
  <2> DEFINE M == LineLen - 1
  <2>2. RingInv(M)
    BY <2>1
  <2> HIDE DEF M
  <2>3. RingInv(M)'
    BY <2>1, <2>2, RingSame
  <2> QED BY <2>3 DEF M
<1>2. cmdline' = cmdline /\ cmdlen' = cmdlen /\ cursor' = cursor /\ Text' = Text
  BY DEF editVars, Text
<1>3. LineOK(Line)' /\ ScreenOK'
  BY <1>2 DEF EditInv, LineOK, Line, ScreenOK
<1> QED BY <1>1, <1>3 DEF EditInv

LEMMA RingKept == ASSUME EditInv, UNCHANGED ringVars PROVE RingInv(LineLen - 1)'
<1> DEFINE M == LineLen - 1
<1>1. RingInv(M)
  BY DEF EditInv
<1> HIDE DEF M
<1>2. RingInv(M)'
  BY <1>1, RingSame
<1> QED BY <1>2 DEF M

LEMMA CursorToKeeps ==
  ASSUME EditInv, NEW n \in Int, CursorTo(n), prompted' = prompted PROVE EditInv'
<1>1. UNCHANGED <<cmdline, cmdlen, ringVars>> /\ Text' = Text
  BY DEF CursorTo, Text
<1>2. RingInv(LineLen - 1)'
  BY <1>1, RingKept
<1>3. CASE n \in 0..cmdlen
  <2>1. cursor' = n /\ screen' = Moved(screen, n - cursor)
    BY <1>3 DEF CursorTo
  <2>2. LineOK(Line)'
    <3>1. cmdline' \in [Places -> Nat] /\ cmdlen' \in Places /\ cursor' \in 0..cmdlen'
      BY <1>1, <1>3, <2>1, EditFacts
    <3> QED BY <3>1, LineNext
  <2>3. screen' \in Scr
    <3>1. n - cursor \in Int /\ screen \in Scr
      BY EditFacts
    <3> QED BY <2>1, <3>1, MovedType
  <2>4. prompted => Shows(screen', Text, n)
    <3> SUFFICES ASSUME prompted PROVE Shows(screen', Text, n)
      OBVIOUS
    <3>1. screen \in Scr /\ screen.row = Prompt \o Text /\ screen.col = 4 + cursor /\ cursor \in Nat
      BY EditFacts DEF Shows
    <3>2. n - cursor \in Int /\ screen.col + (n - cursor) = 4 + n /\ 4 + n >= 0
      BY <1>3, <3>1
    <3>3. Moved(screen, n - cursor).row = screen.row /\ Moved(screen, n - cursor).col = 4 + n
      BY <3>1, <3>2, MovedOn
    <3> QED BY <2>1, <2>3, <3>1, <3>3 DEF Shows
  <2>5. ScreenOK'
    BY <1>1, <2>1, <2>3, <2>4 DEF ScreenOK
  <2> QED BY <1>2, <2>2, <2>5 DEF EditInv
<1>4. CASE ~(n \in 0..cmdlen)
  <2>1. UNCHANGED <<ringVars, editVars, screen, prompted>>
    BY <1>1, <1>4 DEF CursorTo, editVars
  <2> QED BY <2>1, NothingChanges
<1> QED BY <1>3, <1>4

LEMMA ResetOfScreen ==
  ASSUME EditInv, NEW other
  PROVE  ResetCursor(screen) \in Scr /\ (prompted => Lead(ResetCursor(screen), other, 0))
<1>1. ResetCursor(screen) \in Scr
  BY EditFacts, ResetType
<1>2. Len(Text) < LineLen /\ cursor \in 0..Len(Text) /\ Text \in Seq(Nat)
  BY EditFacts
<1>3. prompted => Lead(ResetCursor(screen), other, 0)
  BY <1>2, EditFacts, ResetLeads
<1> QED BY <1>1, <1>3

LEMMA CursorHomeKeeps ==
  ASSUME EditInv, CursorHome, prompted' = prompted PROVE EditInv'
<1>1. UNCHANGED <<cmdline, cmdlen, ringVars>> /\ Text' = Text /\ cursor' = 0 /\ screen' = ResetCursor(screen)
  BY DEF CursorHome, Text
<1>2. RingInv(LineLen - 1)'
  BY <1>1, RingKept
<1>3. LineOK(Line)'
  <2>1. cmdline' \in [Places -> Nat] /\ cmdlen' \in Places /\ cursor' \in 0..cmdlen'
    BY <1>1, EditFacts
  <2> QED BY <2>1, LineNext
<1>4. prompted => Shows(screen', Text, 0)
  <2> SUFFICES ASSUME prompted PROVE Shows(screen', Text, 0)
    OBVIOUS
  <2>1. screen \in Scr /\ screen.row = Prompt \o Text /\ screen.col = 4 + cursor /\ cursor < LineLen
        /\ cursor \in Nat /\ LineLen \in Nat
    <3>1. Shows(screen, Text, cursor) /\ cursor < LineLen /\ cursor \in Nat /\ LineLen \in Nat
      BY EditFacts
    <3> QED BY <3>1 DEF Shows
  <2>2. screen.col < LineLen + 6
    BY <2>1
  <2>3. ResetCursor(screen) \in Scr /\ ResetCursor(screen).row = screen.row /\ ResetCursor(screen).col = 4
    BY <2>1, <2>2, ResetIs
  <2>4. 4 = 4 + 0
    OBVIOUS
  <2> QED BY <1>1, <2>1, <2>3, <2>4 DEF Shows
<1>5. ScreenOK'
  BY <1>1, <1>4, ResetOfScreen DEF ScreenOK
<1> QED BY <1>2, <1>3, <1>5 DEF EditInv

LEMMA SearchOf ==
  ASSUME EditInv
  PROVE  /\ HasOlder => OlderLine \in Seq(Nat) /\ Len(OlderLine) <= LineLen - 1
         /\ NewerLine \in Seq(Nat) /\ Len(NewerLine) <= LineLen - 1
<1> DEFINE M == LineLen - 1
           N == Len(Lns)
<1>1. RingInv(M) /\ M >= 0
  BY LengthsAre DEF EditInv
<1> HIDE DEF M
<1>2. /\ Lns \in Seq(Seq(Nat)) /\ cur \in 0..N
      /\ \A k \in 1..N : Len(Lns[k]) <= M
      /\ HasOlder <=> cur < N
      /\ HasOlder => OlderLine = Lns[N - cur]
      /\ cur > 1 => NewerLine = Lns[N - cur + 2]
      /\ ~(cur > 1) => NewerLine = <<>>
  BY <1>1, SearchFinds
<1>3. N \in Nat /\ \A k \in 1..N : Lns[k] \in Seq(Nat)
  BY <1>2
<1> HIDE DEF N
<1>4. HasOlder => OlderLine \in Seq(Nat) /\ Len(OlderLine) <= M
  <2>1. HasOlder => N - cur \in 1..N
    BY <1>2, <1>3
  <2> QED BY <1>2, <1>3, <2>1
<1>5. NewerLine \in Seq(Nat) /\ Len(NewerLine) <= M
  <2>1. CASE cur > 1
    <3>1. N - cur + 2 \in 1..N
      BY <1>2, <1>3, <2>1
    <3> QED BY <1>2, <1>3, <2>1, <3>1
  <2>2. CASE ~(cur > 1)
    <3>1. NewerLine = <<>>
      BY <1>2, <2>2
    <3>2. <<>> \in Seq(Nat) /\ Len(<<>>) = 0
      OBVIOUS
    <3> QED BY <1>1, <3>1, <3>2
  <2> QED BY <2>1, <2>2
<1> QED BY <1>4, <1>5 DEF M

\* What hist_search does to line and terminal.
LEMMA SearchKeeps ==
  ASSUME EditInv, NEW line \in Seq(Nat), Len(line) <= LineLen - 1, NEW rest \in [Places -> Nat],
         Restored(line, rest), SearchShows, prompted' = prompted
  PROVE  LineOK(Line)' /\ ScreenOK'
<1>1. cmdline' \in [Places -> Nat] /\ cmdlen' \in Places /\ cursor' = cmdlen'
  BY RestoredType
<1>2. cmdlen' \in Nat /\ cursor' \in 0..cmdlen'
  BY <1>1, LengthsAre DEF Places
<1>3. PICK t : t = Text'
  OBVIOUS
<1>4. ResetCursor(screen) \in Scr /\ (prompted' => Lead(ResetCursor(screen), Text', 0))
  BY <1>3, ResetOfScreen
<1>5. screen' = PrintLine(ResetCursor(screen), Text', 0, cursor') /\ 0 \in Nat /\ 0 <= cmdlen'
  BY <1>2 DEF SearchShows
<1>6. ScreenOK'
  BY <1>1, <1>2, <1>4, <1>5, Printed
<1> QED BY <1>1, <1>2, <1>6, LineNext

LEMMA RingSearches == ASSUME EditInv, Up \/ Down PROVE RingInv(LineLen - 1)'
<1> DEFINE M == LineLen - 1
<1>1. RingInv(M)
  BY DEF EditInv
<1> HIDE DEF M
<1>2. RingInv(M)'
  BY <1>1, RingKeepsSearching
<1> QED BY <1>2 DEF M

LEMMA HistUpKeeps == ASSUME EditInv, HistUp, prompted' = prompted PROVE EditInv'
<1>1. CASE HasOlder /\ Up /\ Restored(OlderLine, [k \in Places |-> 0]) /\ SearchShows
  <2>1. OlderLine \in Seq(Nat) /\ Len(OlderLine) <= LineLen - 1
    BY <1>1, SearchOf
  <2>2. [k \in Places |-> 0] \in [Places -> Nat]
    OBVIOUS
  <2> DEFINE zeroes == [k \in Places |-> 0]
             older == OlderLine
  <2>3. older \in Seq(Nat) /\ Len(older) <= LineLen - 1 /\ zeroes \in [Places -> Nat] /\ Restored(older, zeroes)
    BY <1>1, <2>1, <2>2
  <2> HIDE DEF zeroes, older
  <2>4. LineOK(Line)' /\ ScreenOK'
    BY <1>1, <2>3, SearchKeeps
  <2> QED BY <1>1, <2>4, RingSearches DEF EditInv
<1>2. CASE ~HasOlder /\ UNCHANGED <<ringVars, editVars, screen>>
  BY <1>2, NothingChanges
<1> QED BY <1>1, <1>2 DEF HistUp

LEMMA HistDownKeeps == ASSUME EditInv, HistDown, prompted' = prompted PROVE EditInv'
<1>1. Down /\ Restored(NewerLine, cmdline) /\ SearchShows
  BY DEF HistDown
<1> DEFINE newer == NewerLine
<1>2. newer \in Seq(Nat) /\ Len(newer) <= LineLen - 1 /\ Restored(newer, cmdline) /\ cmdline \in [Places -> Nat]
  BY <1>1, SearchOf, EditFacts
<1> HIDE DEF newer
<1>3. LineOK(Line)' /\ ScreenOK'
  BY <1>1, <1>2, SearchKeeps
<1> QED BY <1>1, <1>3, RingSearches DEF EditInv

\* ^U
LEMMA RuboutAllKeeps ==
  ASSUME EditInv, Backspace(cursor), screen' = PrintLine(TerminalErased[cursor], Text', 0, cursor'),
         UNCHANGED ringVars, prompted' = prompted
  PROVE  EditInv'
<1>1. cursor \in 0..cursor /\ cursor \in Nat /\ cursor - cursor = 0
  BY EditFacts
<1>2. /\ cmdline' \in [Places -> Nat] /\ cmdlen' \in Places /\ cursor' = 0 /\ 0 \in 0..cmdlen'
  BY <1>1, EditFacts, BackspaceIs
<1>3. PICK t, scr : t = Text' /\ scr = TerminalErased[cursor]
  OBVIOUS
<1>4. scr \in Scr
  BY <1>1, <1>3, EditFacts, ErasedType
<1>5. prompted' => Lead(scr, Text', 0)
  <2> SUFFICES ASSUME prompted PROVE Lead(scr, t, 0)
    BY <1>3
  <2>1. Lead(screen, Text, cursor)
    BY EditFacts
  <2>2. Lead(scr, Text, 0)
    BY <1>1, <1>3, <2>1, ErasedLeads
  <2>3. \A k \in 1..0 : Text[k] = t[k]
    OBVIOUS
  <2> QED BY <2>2, <2>3, LeadSame
<1>6. 0 \in Nat /\ 0 <= cmdlen'
  BY <1>2
<1>7. cursor' \in 0..cmdlen' /\ screen' = PrintLine(scr, Text', 0, cursor')
  BY <1>2, <1>3
<1>8. ScreenOK'
  BY <1>2, <1>4, <1>5, <1>6, <1>7, Printed
<1> QED BY <1>2, <1>7, <1>8, LineNext, RingKept DEF EditInv

\* ^K
LEMMA CutKeeps ==
  ASSUME EditInv, cmdlen' = cursor, UNCHANGED <<cmdline, cursor, ringVars>>,
         screen' = ClearedRight(screen), prompted' = prompted
  PROVE  EditInv'
<1>0. /\ cmdline \in [Places -> Nat] /\ cmdlen \in Nat /\ cursor \in Nat /\ cursor <= cmdlen
      /\ cmdlen < LineLen /\ LineLen \in Nat /\ screen \in Scr
  BY EditFacts
<1>1. cmdline' \in [Places -> Nat] /\ cmdlen' \in Places /\ cursor' \in 0..cmdlen'
  BY <1>0 DEF Places
<1>2. screen' \in Scr
  BY <1>0, ClearedType
<1>3. prompted' => Shows(screen', Text', cursor')
  <2> SUFFICES ASSUME prompted PROVE Shows(screen', Text', cursor')
    OBVIOUS
  <2>1. PICK t : t = Text'
    OBVIOUS
  <2>2. t \in Seq(Nat) /\ Len(t) = cursor /\ \A k \in 1..cursor : t[k] = CharOf(cmdline[k - 1])
    BY <1>1, <2>1, TextNext
  <2>3. Lead(screen, Text, cursor)
    BY EditFacts
  <2>4. /\ screen.col = 4 + cursor /\ Len(screen.row) >= 4 + cursor
        /\ \A k \in 1..4 : screen.row[k] = Prompt[k]
        /\ \A k \in 1..cursor : screen.row[4 + k] = Text[k]
    BY <2>3 DEF Lead
  <2>5. screen.col <= Len(screen.row)
    <3>1. Len(screen.row) \in Nat
      BY <1>0, ScrFields
    <3> QED BY <1>0, <2>4, <3>1
  <2>6. Len(screen'.row) = 4 + cursor /\ \A k \in 1..(4 + cursor) : screen'.row[k] = screen.row[k]
    BY <1>0, <2>4, <2>5, ClearedIs
  <2>7. screen'.col = 4 + cursor
    BY <1>0, <2>4, ClearedType
  <2>8. PICK r : r = screen'.row
    OBVIOUS
  <2>9. r \in Seq(Nat) /\ Len(r) = 4 + Len(t)
    <3>1. PICK s : s = screen'
      OBVIOUS
    <3>2. s.row \in Seq(Nat)
      BY <1>2, <3>1, ScrFields
    <3> QED BY <2>2, <2>6, <2>8, <3>1, <3>2
  <2>10. ASSUME NEW k \in 1..4 PROVE r[k] = Prompt[k]
    <3>1. k \in 1..(4 + cursor)
      BY <1>0
    <3> QED BY <2>4, <2>6, <2>8, <3>1
  <2>11. ASSUME NEW k \in 1..Len(t) PROVE r[4 + k] = t[k]
    <3>1. k \in 1..cursor /\ k \in 1..cmdlen /\ 4 + k \in 1..(4 + cursor)
      BY <1>0, <2>2
    <3>2. r[4 + k] = screen.row[4 + k]
      BY <2>6, <2>8, <3>1
    <3>3. Text[k] = CharOf(cmdline[k - 1]) /\ t[k] = CharOf(cmdline[k - 1])
      BY <2>2, <3>1, EditFacts
    <3> QED BY <2>4, <3>1, <3>2, <3>3
  <2>12. r = Prompt \o t
    BY <2>2, <2>9, <2>10, <2>11, RowIs
  <2> QED BY <1>2, <2>1, <2>7, <2>8, <2>12 DEF Shows
<1>4. ScreenOK'
  BY <1>2, <1>3 DEF ScreenOK
<1> QED BY <1>1, <1>4, LineNext, RingKept DEF EditInv

\* A key that leaves what stands before pos leaves it shown.
LEMMA StillLeads ==
  ASSUME EditInv, cmdline' \in [Places -> Nat], cmdlen' \in Places, NEW pos \in Nat,
         pos <= cmdlen, pos <= cmdlen', \A k \in Places : k < pos => cmdline'[k] = cmdline[k],
         NEW scr, Lead(scr, Text, pos)
  PROVE  Lead(scr, Text', pos)
<1>1. PICK t : t = Text'
  OBVIOUS
<1>2. ASSUME NEW k \in 1..pos PROVE Text[k] = t[k]
  <2>1. cmdlen \in Nat /\ cmdlen' \in Nat /\ cmdlen < LineLen /\ LineLen \in Nat
    BY EditFacts, TextNext
  <2>2. k \in 1..cmdlen /\ k \in 1..cmdlen' /\ k - 1 \in Places /\ k - 1 < pos
    BY <2>1 DEF Places
  <2>3. Text[k] = CharOf(cmdline[k - 1]) /\ t[k] = CharOf(cmdline'[k - 1])
    BY <1>1, <2>2, EditFacts, TextNext
  <2>4. cmdline'[k - 1] = cmdline[k - 1]
    BY <2>2
  <2> QED BY <2>3, <2>4
<1>3. Lead(scr, t, pos)
  BY <1>2, LeadSame
<1> QED BY <1>1, <1>3

\* Backspace and Delete
LEMMA RuboutKeeps ==
  ASSUME EditInv, cursor > 0, Backspace(1),
         screen' = PrintLine(TerminalBackspace(screen), Text', cursor', cursor'),
         UNCHANGED ringVars, prompted' = prompted
  PROVE  EditInv'
<1> DEFINE pos == cursor - 1
<1>0. /\ cmdline \in [Places -> Nat] /\ cmdlen \in Nat /\ cursor \in Nat /\ cursor <= cmdlen
      /\ cmdlen < LineLen /\ LineLen \in Nat /\ screen \in Scr
  BY EditFacts
<1>1. 1 \in 0..cursor /\ pos \in Nat /\ pos + 1 = cursor
  BY <1>0
<1>2. /\ cmdline' \in [Places -> Nat] /\ cmdlen' \in Places /\ cursor' = pos /\ pos \in 0..cmdlen'
      /\ \A k \in Places : k < pos => cmdline'[k] = cmdline[k]
  BY <1>1, EditFacts, BackspaceIs
<1> HIDE DEF pos
<1>3. PICK scr : scr = TerminalBackspace(screen)
  OBVIOUS
<1>4. scr \in Scr
  BY <1>0, <1>3, BackspaceType
<1>5. pos <= cmdlen' /\ pos <= cmdlen
  BY <1>0, <1>1, <1>2
<1>6. prompted' => Lead(scr, Text', pos)
  <2> SUFFICES ASSUME prompted PROVE Lead(scr, Text', pos)
    OBVIOUS
  <2>1. Lead(screen, Text, pos + 1)
    BY <1>1, EditFacts
  <2>2. Lead(scr, Text, pos)
    BY <1>1, <1>3, <2>1, BackspaceLeads
  <2> QED BY <1>1, <1>2, <1>5, <2>2, StillLeads
<1>7. cursor' \in 0..cmdlen' /\ screen' = PrintLine(scr, Text', pos, cursor')
  BY <1>2, <1>3
<1>8. ScreenOK'
  BY <1>1, <1>2, <1>4, <1>5, <1>6, <1>7, Printed
<1> QED BY <1>2, <1>7, <1>8, LineNext, RingKept DEF EditInv

LEMMA RuboutNothingKeeps ==
  ASSUME EditInv, screen' = PrintLine(screen, Text, cursor, cursor),
         UNCHANGED <<editVars, ringVars>>, prompted' = prompted
  PROVE  EditInv'
<1>0. /\ cmdline \in [Places -> Nat] /\ cmdlen \in Places /\ cursor \in 0..cmdlen /\ cursor \in Nat
      /\ cursor <= cmdlen /\ screen \in Scr
  BY EditFacts
<1>1. cmdline' = cmdline /\ cmdlen' = cmdlen /\ cursor' = cursor /\ Text' = Text
  BY DEF editVars, Text
<1>2. cmdline' \in [Places -> Nat] /\ cmdlen' \in Places /\ cursor' \in 0..cmdlen' /\ cursor <= cmdlen'
  BY <1>0, <1>1
<1>3. prompted' => Lead(screen, Text', cursor)
  BY <1>1, EditFacts
<1>4. screen' = PrintLine(screen, Text', cursor, cursor')
  BY <1>1
<1>5. ScreenOK'
  BY <1>0, <1>2, <1>3, <1>4, Printed
<1> QED BY <1>2, <1>5, LineNext, RingKept DEF EditInv

\* A character
LEMMA InsertKeeps ==
  ASSUME EditInv, NEW ch \in Nat, ~(cmdlen + 1 >= LineLen), Becomes(Inserted(Line, <<ch>>)),
         screen' = PrintLine(screen, Text', cursor' - 1, cursor'),
         UNCHANGED ringVars, prompted' = prompted
  PROVE  EditInv'
<1>0. /\ cmdline \in [Places -> Nat] /\ cmdlen \in Nat /\ cursor \in Nat /\ cursor <= cmdlen
      /\ cmdlen < LineLen /\ LineLen \in Nat /\ screen \in Scr
  BY EditFacts
<1> DEFINE s == <<ch>>
           l == Inserted(Line, s)
<1>1. s \in Seq(Nat) /\ Len(s) = 1
  OBVIOUS
<1>2. Line.len = cmdlen /\ Line.at = cursor /\ Line.chars = cmdline /\ LineOK(Line)
  BY DEF Line, EditInv
<1> HIDE DEF s
<1>3. Line.len + Len(s) < LineLen
  BY <1>0, <1>1, <1>2
<1>4. /\ LineOK(l) /\ l.at = cursor + 1 /\ l.len = cmdlen + 1
      /\ \A k \in Places : k < cursor => l.chars[k] = cmdline[k]
  BY <1>1, <1>2, <1>3, InsertedType
<1>5. cmdline' = l.chars /\ cmdlen' = l.len /\ cursor' = l.at
  BY DEF Becomes, s
<1> HIDE DEF l
<1>6. /\ cmdline' \in [Places -> Nat] /\ cmdlen' \in Places /\ cursor' \in 0..cmdlen'
      /\ cmdlen' = cmdlen + 1 /\ cursor' = cursor + 1
      /\ \A k \in Places : k < cursor => cmdline'[k] = cmdline[k]
  BY <1>4, <1>5 DEF LineOK
<1>7. cursor' - 1 = cursor /\ cursor <= cmdlen'
  BY <1>0, <1>6
<1>8. prompted' => Lead(screen, Text', cursor)
  <2> SUFFICES ASSUME prompted PROVE Lead(screen, Text', cursor)
    OBVIOUS
  <2>1. Lead(screen, Text, cursor)
    BY EditFacts
  <2> QED BY <1>0, <1>6, <1>7, <2>1, StillLeads
<1>9. screen' = PrintLine(screen, Text', cursor, cursor')
  BY <1>7
<1>10. ScreenOK'
  BY <1>0, <1>6, <1>7, <1>8, <1>9, Printed
<1> QED BY <1>6, <1>10, LineNext, RingKept DEF EditInv

\* The prompt on a row of its own
LEMMA PromptLeads ==
  ASSUME NEW other PROVE ResetCursor(PrintPrompt) \in Scr /\ Lead(ResetCursor(PrintPrompt), other, 0)
<1>1. PrintPrompt \in Scr /\ PrintPrompt.col = 4 /\ Len(Prompt) = 4
  BY PromptIs
<1>2. PrintPrompt.col < LineLen + 6
  BY <1>1, LengthsAre
<1>3. ResetCursor(PrintPrompt) \in Scr /\ ResetCursor(PrintPrompt).row = Prompt /\ ResetCursor(PrintPrompt).col = 4
  BY <1>1, <1>2, ResetIs DEF Prompt
<1> DEFINE scr == ResetCursor(PrintPrompt)
<1>7. scr \in Scr /\ scr.row = Prompt /\ scr.col = 4
  BY <1>3
<1> HIDE DEF scr
<1>8. 4 = 4 + 0 /\ 4 >= 4 + 0
  OBVIOUS
<1>4. /\ scr \in Scr /\ scr.col = 4 + 0 /\ Len(scr.row) >= 4 + 0
      /\ \A k \in 1..4 : scr.row[k] = Prompt[k]
  BY <1>1, <1>7, <1>8, Zenon
<1>5. \A k \in 1..0 : scr.row[4 + k] = other[k]
  OBVIOUS
<1>6. scr \in Scr /\ Lead(scr, other, 0)
  BY <1>4, <1>5 DEF Lead
<1> QED BY <1>6 DEF scr

\* ^R
LEMMA ReprintKeeps ==
  ASSUME EditInv, screen' = PrintLine(ResetCursor(PrintPrompt), Text, 0, cursor),
         UNCHANGED <<editVars, ringVars>>
  PROVE  EditInv'
<1>0. /\ cmdline \in [Places -> Nat] /\ cmdlen \in Places /\ cursor \in 0..cmdlen /\ cmdlen \in Nat
  BY EditFacts
<1>1. cmdline' = cmdline /\ cmdlen' = cmdlen /\ cursor' = cursor /\ Text' = Text
  BY DEF editVars, Text
<1>2. cmdline' \in [Places -> Nat] /\ cmdlen' \in Places /\ cursor' \in 0..cmdlen' /\ 0 <= cmdlen' /\ 0 \in Nat
  BY <1>0, <1>1
<1>3. ResetCursor(PrintPrompt) \in Scr /\ (prompted' => Lead(ResetCursor(PrintPrompt), Text', 0))
  BY <1>1, PromptLeads
<1>4. screen' = PrintLine(ResetCursor(PrintPrompt), Text', 0, cursor')
  BY <1>1
<1>5. ScreenOK'
  BY <1>2, <1>3, <1>4, Printed
<1> QED BY <1>2, <1>5, LineNext, RingKept DEF EditInv

\* TAB
LEMMA CompleteKeeps == ASSUME EditInv, Complete, UNCHANGED ringVars PROVE EditInv'
<1>1. CASE UNCHANGED <<editVars, screen, prompted>>
  BY <1>1, NothingChanges
<1>2. CASE ~(UNCHANGED <<editVars, screen, prompted>>)
  <2> DEFINE l == CompletedLine
             one == Cardinality(ComplWorld) = 1
             base == IF one THEN screen ELSE PrintPrompt
             scr == ResetCursor(base)
  <2>1. /\ ComplWorld # {} /\ Becomes(l)
        /\ screen' = PrintLine(scr, Text', 0, cursor')
        /\ prompted' = (prompted \/ ~one)
    BY <1>2 DEF Complete
  <2>2. LineOK(l)
    BY <2>1, CompletedOK DEF EditInv
  <2>3. cmdline' = l.chars /\ cmdlen' = l.len /\ cursor' = l.at
    BY <2>1 DEF Becomes
  <2> HIDE DEF l
  <2>4. cmdline' \in [Places -> Nat] /\ cmdlen' \in Places /\ cursor' \in 0..cmdlen'
    BY <2>2, <2>3 DEF LineOK
  <2>5. PICK t : t = Text'
    OBVIOUS
  <2>6. scr \in Scr /\ (prompted' => Lead(scr, Text', 0))
    <3>1. CASE one
      <4>1. scr = ResetCursor(screen)
        BY <3>1
      <4>2. prompted' => prompted
        BY <2>1, <3>1, Zenon
      <4> QED BY <2>5, <4>1, <4>2, ResetOfScreen
    <3>2. CASE ~one
      <4>1. scr = ResetCursor(PrintPrompt)
        BY <3>2
      <4> QED BY <2>5, <4>1, PromptLeads
    <3> QED BY <3>1, <3>2
  <2> HIDE DEF scr
  <2>7. 0 \in Nat /\ 0 <= cmdlen'
    BY <2>4, TextNext
  <2>8. ScreenOK'
    BY <2>1, <2>4, <2>6, <2>7, Printed
  <2> QED BY <2>4, <2>8, LineNext, RingKept DEF EditInv
<1> QED BY <1>1, <1>2

\* Enter
LEMMA NewLineKeeps == ASSUME EditInv, NewLine PROVE EditInv'
<1>0. /\ cmdline \in [Places -> Nat] /\ cmdlen \in Nat /\ cmdlen < LineLen /\ LineLen \in Nat /\ LineLen >= 1
  BY EditFacts, LengthsAre
<1>1. cmdline' \in [Places -> Nat] /\ cmdlen' \in Places /\ cursor' \in 0..cmdlen'
  BY <1>0 DEF NewLine, Places
<1>2. ScreenOK'
  <2>1. Text' = <<>> /\ cursor' = 0 /\ screen' = PrintPrompt
    <3>1. cmdlen' = 0 /\ cursor' = 0 /\ screen' = PrintPrompt
      BY DEF NewLine
    <3>2. PICK t : t = Text'
      OBVIOUS
    <3>3. t \in Seq(Nat) /\ Len(t) = 0
      BY <1>1, <3>1, <3>2, TextNext
    <3>4. t = <<>>
      BY <3>3
    <3> QED BY <3>1, <3>2, <3>4
  <2>2. PrintPrompt \in Scr /\ PrintPrompt.col = 4 /\ Prompt \in Seq(Nat)
    BY PromptIs
  <2>3. Prompt \o <<>> = Prompt /\ 4 = 4 + 0
    BY <2>2
  <2>4. Shows(PrintPrompt, <<>>, 0)
    BY <2>2, <2>3 DEF Shows, Prompt
  <2> QED BY <2>1, <2>2, <2>4 DEF ScreenOK
<1>3. RingInv(LineLen - 1)'
  <2> DEFINE M == LineLen - 1
  <2>1. RingInv(M) /\ M \in Int /\ M >= cmdlen
    BY <1>0 DEF EditInv
  <2> HIDE DEF M
  <2>2. RingInv(M)'
    <3>1. CASE cmdlen > 0
      <4> DEFINE line == [k \in 1..cmdlen |-> cmdline[k - 1]]
      <4>1. HistSaveLine(line) /\ cur' = 0
        BY <3>1 DEF NewLine
      <4>2. line \in [1..cmdlen -> Nat]
        <5>1. \A k \in 1..cmdlen : cmdline[k - 1] \in Nat
          BY <1>0 DEF Places
        <5> QED BY <5>1
      <4> HIDE DEF line
      <4>3. line \in Seq(Nat) /\ Len(line) = cmdlen
        BY <1>0, <4>2
      <4>4. line # <<>> /\ Len(line) <= M
        BY <2>1, <3>1, <4>3
      <4> QED BY <2>1, <4>1, <4>3, <4>4, RingKeepsEntering
    <3>2. CASE ~(cmdlen > 0)
      <4>1. UNCHANGED <<ring_buf, begin, end>> /\ cur' = 0
        BY <3>2 DEF NewLine
      <4>2. PICK n, P : Holds(ring_buf, begin, end, cur, n, P, M)
        BY <2>1 DEF RingInv
      <4>3. n \in Nat
        BY <4>2 DEF Holds, Chain
      <4>4. Holds(ring_buf', begin', end', cur', n, P, M)
        BY <4>1, <4>2, <4>3 DEF Holds
      <4>5. RingTypeOK'
        BY <2>1, <4>1, LengthsAre DEF RingInv, RingTypeOK
      <4> QED BY <4>4, <4>5 DEF RingInv
    <3> QED BY <3>1, <3>2
  <2> QED BY <2>2 DEF M
<1> QED BY <1>1, <1>2, <1>3, LineNext DEF EditInv

LEMMA EditKeyKeeps ==
  ASSUME EditInv, NEW ch \in PlainKeys, EditKey(ch), prompted' = prompted PROVE EditInv'
<1>1. CASE ch \in {KEY_LF, KEY_ESC} /\ UNCHANGED <<ringVars, editVars, screen>>
  BY <1>1, NothingChanges
<1>2. CASE /\ ch = KEY_NAK
           /\ Backspace(cursor)
           /\ screen' = PrintLine(TerminalErased[cursor], Text', 0, cursor')
           /\ UNCHANGED ringVars
  BY <1>2, RuboutAllKeeps
<1>3. CASE /\ ch = KEY_VT
           /\ cmdlen' = cursor /\ UNCHANGED <<cmdline, cursor, ringVars>>
           /\ screen' = ClearedRight(screen)
  BY <1>3, CutKeeps
<1>4. CASE (ch = KEY_ENQ /\ CursorTo(cmdlen)) \/ (ch = KEY_ACK /\ CursorTo(cursor + 1))
           \/ (ch = KEY_STX /\ CursorTo(cursor - 1))
  <2>1. cmdlen \in Int /\ cursor + 1 \in Int /\ cursor - 1 \in Int
    BY EditFacts
  <2> QED BY <1>4, <2>1, CursorToKeeps
<1>5. CASE ch = KEY_SOH /\ CursorHome
  BY <1>5, CursorHomeKeeps
<1>6. CASE ch = KEY_DLE /\ HistUp
  BY <1>6, HistUpKeeps
<1>7. CASE ch = KEY_SO /\ HistDown
  BY <1>7, HistDownKeeps
<1>8. CASE /\ ch \in {KEY_DEL, KEY_BS}
           /\ IF cursor > 0
              THEN /\ Backspace(1)
                   /\ screen' = PrintLine(TerminalBackspace(screen), Text', cursor', cursor')
              ELSE /\ screen' = PrintLine(screen, Text, cursor, cursor)
                   /\ UNCHANGED editVars
           /\ UNCHANGED ringVars
  <2>1. CASE cursor > 0
    BY <1>8, <2>1, RuboutKeeps
  <2>2. CASE ~(cursor > 0)
    BY <1>8, <2>2, RuboutNothingKeeps
  <2> QED BY <2>1, <2>2
<1>9. CASE /\ ch \in Letter \union {Blank}
           /\ IF (ch = Blank /\ cmdlen = 0) \/ cmdlen + 1 >= LineLen
              THEN UNCHANGED <<editVars, screen>>
              ELSE /\ Becomes(Inserted(Line, <<ch>>))
                   /\ screen' = PrintLine(screen, Text', cursor' - 1, cursor')
           /\ UNCHANGED ringVars
  <2>1. CASE (ch = Blank /\ cmdlen = 0) \/ cmdlen + 1 >= LineLen
    BY <1>9, <2>1, NothingChanges
  <2>2. CASE ~((ch = Blank /\ cmdlen = 0) \/ cmdlen + 1 >= LineLen)
    <3>1. ch \in Nat
      <4>1. ch \in 0..255
        BY MicrorlAssumption
      <4> QED BY <4>1
    <3> QED BY <1>9, <2>2, <3>1, InsertKeeps
  <2> QED BY <2>1, <2>2
<1> QED BY <1>1, <1>2, <1>3, <1>4, <1>5, <1>6, <1>7, <1>8, <1>9 DEF EditKey

LEMMA PlainKeyKeeps ==
  ASSUME EditInv, NEW ch \in PlainKeys, PlainKey(ch) PROVE EditInv'
<1>1. CASE NewLine
  BY <1>1, NewLineKeeps
<1>2. CASE Complete /\ UNCHANGED ringVars
  BY <1>2, CompleteKeeps
<1>3. CASE /\ screen' = PrintLine(ResetCursor(PrintPrompt), Text, 0, cursor)
           /\ UNCHANGED <<ringVars, editVars>>
  BY <1>3, ReprintKeeps
<1>4. CASE EditKey(ch) /\ UNCHANGED prompted
  BY <1>4, EditKeyKeeps
<1> QED BY <1>1, <1>2, <1>3, <1>4 DEF PlainKey

LEMMA EscapeKeyKeeps ==
  ASSUME EditInv, NEW ch, EscapeKey(ch) PROVE EditInv'
<1>0. prompted' = prompted
  BY DEF EscapeKey
<1>1. CASE UNCHANGED <<ringVars, editVars, screen>>
  BY <1>0, <1>1, NothingChanges
<1>2. CASE HistUp
  BY <1>0, <1>2, HistUpKeeps
<1>3. CASE HistDown
  BY <1>0, <1>3, HistDownKeeps
<1>4. CASE CursorTo(cmdlen) \/ CursorTo(cursor + 1) \/ CursorTo(cursor - 1)
  <2>1. cmdlen \in Int /\ cursor + 1 \in Int /\ cursor - 1 \in Int
    BY EditFacts
  <2> QED BY <1>0, <1>4, <2>1, CursorToKeeps
<1>5. CASE CursorHome
  BY <1>0, <1>5, CursorHomeKeeps
<1> QED BY <1>1, <1>2, <1>3, <1>4, <1>5 DEF EscapeKey

LEMMA EditStarts == Init => EditInv
<1> SUFFICES ASSUME Init PROVE EditInv
  OBVIOUS
<1>1. LineOK(Line)
  <2>1. cmdline = [k \in Places |-> 0] /\ cmdlen = 0 /\ cursor = 0 /\ 0 \in Places
    BY LengthsAre DEF Init, Places
  <2> QED BY <2>1 DEF LineOK, Line
<1>2. ScreenOK
  <2>1. <<>> \in Seq(Nat) /\ 0 \in Nat
    OBVIOUS
  <2>2. Fresh \in Scr
    BY <2>1, ScrIs DEF Fresh
  <2> QED BY <2>2 DEF ScreenOK, Init
<1>3. RingInv(LineLen - 1)
  BY RingStarts DEF Init
<1> QED BY <1>1, <1>2, <1>3 DEF EditInv

LEMMA EditNext == ASSUME EditInv, [Next]_vars PROVE EditInv'
<1>1. ASSUME NEW ch \in PlainKeys, PlainKey(ch) PROVE EditInv'
  BY <1>1, PlainKeyKeeps
<1>2. ASSUME NEW ch \in SequenceKeys, EscapeKey(ch) PROVE EditInv'
  BY <1>2, EscapeKeyKeeps
<1>3. CASE UNCHANGED vars
  BY <1>3, NothingChanges DEF vars
<1> QED BY <1>1, <1>2, <1>3 DEF Next

LEMMA EditHolds == Spec => []EditInv
<1> QED BY EditStarts, EditNext, PTL DEF Spec

\* Whatever is typed, the row of the terminal is the prompt and the line, and its
\* cursor stands at the line's.
THEOREM TerminalIsRight == Spec => []TerminalShowsLine
<1>1. EditInv => TerminalShowsLine
  <2> SUFFICES ASSUME EditInv, prompted
               PROVE  screen.row = PrintPrompt.row \o Text /\ screen.col = Len(PrintPrompt.row) + cursor
    BY DEF TerminalShowsLine
  <2>1. Shows(screen, Text, cursor)
    BY EditFacts
  <2>2. Len(PrintPrompt.row) = 4
    BY PromptIs DEF Prompt
  <2> QED BY <2>1, <2>2 DEF Shows, Prompt
<1> QED BY <1>1, EditHolds, PTL

-------------------------------------------------------------------------------
LEMMA TokensType ==
  ASSUME LineOK(Line) PROVE Tokens \in Seq(Seq(Nat))
<1> DEFINE S == TokenStarts
           n == Cardinality(S)
<1>1. cmdline \in [Places -> Nat] /\ cmdlen \in Nat /\ cmdlen < LineLen /\ LineLen \in Nat
  BY LengthsAre DEF LineOK, Line, Places
<1>2. S \in SUBSET (0..LineLen) /\ S \subseteq Places
  BY <1>1 DEF TokenStarts, Places
<1>3. ASSUME NEW w \in 1..n PROVE CString(TokenStart(w)) \in Seq(Nat)
  <2>1. \E k \in S : Cardinality({j \in S : j < k}) = w - 1
    BY <1>1, <1>2, WthExists
  <2>2. TokenStart(w) = CHOOSE k \in S : Cardinality({j \in S : j < k}) = w - 1
    BY DEF TokenStart
  <2> HIDE DEF S
  <2>3. TokenStart(w) \in S
    BY <2>1, <2>2
  <2> QED BY <1>1, <1>2, <2>3, CStringType
<1>4. n \in Nat
  BY <1>1, <1>2, BelowCounts
<1>5. Tokens = [w \in 1..n |-> CString(TokenStart(w))]
  BY DEF Tokens
<1> HIDE DEF n
<1>6. Tokens \in [1..n -> Seq(Nat)]
  BY <1>3, <1>5
<1> QED BY <1>4, <1>6

-------------------------------------------------------------------------------
\* What EditInv leaves of the type invariant.
Rest == /\ escape \in BOOLEAN /\ escape_seq \in {"none", "bracket", "home", "end"}
        /\ argv \in Seq(Seq(Nat)) /\ prompted \in BOOLEAN

LEMMA RestKept == ASSUME EditInv, Rest, [Next]_vars PROVE Rest'
<1>0. LineOK(Line) /\ <<>> \in Seq(Seq(Nat))
  BY DEF EditInv
<1>1. ASSUME NEW ch \in PlainKeys, PlainKey(ch) PROVE Rest'
  <2>1. escape' \in BOOLEAN /\ escape_seq' = escape_seq
    BY <1>1 DEF PlainKey
  <2>2. argv' \in Seq(Seq(Nat))
    <3>1. argv' = <<>> \/ argv' = Tokens
      BY <1>1 DEF PlainKey, NewLine
    <3> QED BY <1>0, <3>1, TokensType
  <2>3. prompted' \in BOOLEAN
    BY <1>1 DEF PlainKey, NewLine, Complete, Rest
  <2> QED BY <2>1, <2>2, <2>3 DEF Rest
<1>2. ASSUME NEW ch \in SequenceKeys, EscapeKey(ch) PROVE Rest'
  <2>1. escape' \in BOOLEAN
    BY <1>2 DEF EscapeKey, Rest
  <2>2. escape_seq' \in {"none", "bracket", "home", "end"}
    BY <1>2 DEF EscapeKey, Rest
  <2>3. argv' = <<>> /\ prompted' = prompted
    BY <1>2 DEF EscapeKey
  <2> QED BY <1>0, <2>1, <2>2, <2>3 DEF Rest
<1>3. CASE UNCHANGED vars
  BY <1>3 DEF vars, escVars, Rest
<1> QED BY <1>1, <1>2, <1>3 DEF Next

\* Ring, line, terminal and arguments keep to their types: no key moves the cursor out
\* of the line, none makes the line longer than cmdline or takes the ring's indices
\* out of the ring.
THEOREM TypeCorrect == Spec => []TypeOK
<1>1. Init => EditInv /\ Rest
  <2>1. <<>> \in Seq(Seq(Nat))
    OBVIOUS
  <2>2. Init => Rest
    BY <2>1 DEF Init, Rest
  <2> QED BY <2>2, EditStarts
<1>2. (EditInv /\ Rest) /\ [Next]_vars => (EditInv /\ Rest)'
  BY EditNext, RestKept
<1>3. EditInv /\ Rest => TypeOK
  <2> SUFFICES ASSUME EditInv, Rest PROVE TypeOK
    OBVIOUS
  <2>1. RingTypeOK
    BY DEF EditInv, RingInv
  <2>2. cmdline \in [Places -> Nat] /\ cmdlen \in Places /\ cursor \in 0..cmdlen /\ screen \in Scr
    BY EditFacts
  <2>3. screen.row \in Seq(Nat) /\ screen.col \in Nat
    BY <2>2, ScrFields
  <2> QED BY <2>1, <2>2, <2>3 DEF TypeOK, Rest
<1> QED BY <1>1, <1>2, <1>3, PTL DEF Spec

-------------------------------------------------------------------------------
\* What a key does to line and history, whatever it prints.
Stays == UNCHANGED <<ringVars, editVars>>
MovesCursor == /\ cursor' \in {cursor - 1, cursor + 1, 0, cmdlen} \cap 0..cmdlen
               /\ UNCHANGED <<cmdline, cmdlen, ringVars>>
CutsTail == cmdlen' = cursor /\ UNCHANGED <<cmdline, cursor, ringVars>>
RubsOut == cursor > 0 /\ Backspace(1) /\ UNCHANGED ringVars
RubsOutAll == Backspace(cursor) /\ UNCHANGED ringVars
Inserts(ch) == /\ ch = Blank => cmdlen # 0
               /\ ~(cmdlen + 1 >= LineLen)
               /\ Becomes(Inserted(Line, <<ch>>)) /\ UNCHANGED ringVars
Completes == /\ ~(TooManyBefore /\ BehindBlank) /\ ComplWorld # {}
             /\ Becomes(CompletedLine) /\ UNCHANGED ringVars
RecallsOlder == HasOlder /\ Up /\ Restored(OlderLine, [k \in Places |-> 0])
RecallsNewer == Down /\ Restored(NewerLine, cmdline)

KeyEdits == \/ Stays \/ MovesCursor \/ CutsTail \/ RubsOut \/ RubsOutAll
            \/ \E ch \in Letter \cup {Blank} : Inserts(ch)
            \/ Completes \/ RecallsOlder \/ RecallsNewer

LEMMA EditKeyEdits ==
  ASSUME EditInv, NEW ch, EditKey(ch) PROVE KeyEdits
<1>0. cmdlen \in Nat /\ cursor \in 0..cmdlen
  BY EditFacts
<1>1. ASSUME NEW n \in {cursor - 1, cursor + 1, 0, cmdlen}, CursorTo(n) PROVE Stays \/ MovesCursor
  BY <1>0, <1>1 DEF CursorTo, Stays, MovesCursor, editVars
<1>2. CursorHome => MovesCursor
  BY <1>0 DEF CursorHome, MovesCursor
<1>3. HistUp => RecallsOlder \/ Stays
  BY DEF HistUp, RecallsOlder, Stays
<1>4. HistDown => RecallsNewer
  BY DEF HistDown, RecallsNewer
<1>5. ch \in Letter \union {Blank} /\ ~((ch = Blank /\ cmdlen = 0) \/ cmdlen + 1 >= LineLen)
        /\ Becomes(Inserted(Line, <<ch>>)) /\ UNCHANGED ringVars => Inserts(ch)
  BY DEF Inserts
<1> QED BY <1>1, <1>2, <1>3, <1>4, <1>5 DEF EditKey, KeyEdits, Stays, RubsOut, RubsOutAll, CutsTail

LEMMA StepEdits ==
  ASSUME EditInv, [Next]_vars PROVE KeyEdits \/ NewLine
<1>0. cmdlen \in Nat /\ cursor \in 0..cmdlen
  BY EditFacts
<1>1. ASSUME NEW ch \in PlainKeys, PlainKey(ch) PROVE KeyEdits \/ NewLine
  <2>1. Complete /\ UNCHANGED ringVars => Completes \/ Stays
    BY DEF Complete, Completes, Stays
  <2>2. CASE Complete /\ UNCHANGED ringVars
    BY <2>1, <2>2 DEF KeyEdits
  <2>3. CASE UNCHANGED <<ringVars, editVars>>
    BY <2>3 DEF KeyEdits, Stays
  <2>4. CASE EditKey(ch)
    BY <2>4, EditKeyEdits
  <2>5. CASE NewLine
    BY <2>5
  <2> QED BY <1>1, <2>2, <2>3, <2>4, <2>5 DEF PlainKey
<1>2. ASSUME NEW ch \in SequenceKeys, EscapeKey(ch) PROVE KeyEdits
  <2>1. ASSUME NEW n \in {cursor - 1, cursor + 1, 0, cmdlen}, CursorTo(n) PROVE KeyEdits
    BY <1>0, <2>1 DEF CursorTo, Stays, MovesCursor, editVars, KeyEdits
  <2>2. CursorHome => KeyEdits
    BY <1>0 DEF CursorHome, MovesCursor, KeyEdits
  <2>3. HistUp => KeyEdits
    BY DEF HistUp, RecallsOlder, Stays, KeyEdits
  <2>4. HistDown => KeyEdits
    BY DEF HistDown, RecallsNewer, KeyEdits
  <2>5. UNCHANGED <<ringVars, editVars, screen>> => KeyEdits
    BY DEF Stays, KeyEdits
  <2> QED BY <1>2, <2>1, <2>2, <2>3, <2>4, <2>5 DEF EscapeKey
<1>3. CASE UNCHANGED vars
  BY <1>3 DEF vars, Stays, KeyEdits
<1> QED BY <1>1, <1>2, <1>3 DEF Next

-------------------------------------------------------------------------------
\* No byte of a line is the code of a blank, neither in cmdline, to its end, nor in the
\* lines of the history.
BlankFree(s) == \A k \in DOMAIN s : s[k] # Blank
CharsInv == BlankFree(cmdline) /\ \A k \in 1..Len(Lns) : BlankFree(Lns[k])

LEMMA InsertedBlankFree ==
  ASSUME NEW l, LineOK(l), BlankFree(l.chars), NEW s \in Seq(Nat)
  PROVE  BlankFree(Inserted(l, s).chars)
<1> DEFINE n == Len(s)
<1>1. /\ l.chars \in [Places -> Nat] /\ l.len \in Nat /\ l.len < LineLen /\ l.at \in Nat /\ l.at <= l.len
      /\ n \in Nat /\ LineLen \in Nat
  BY LengthsAre DEF LineOK, Places
<1>2. CASE l.len + n >= LineLen
  BY <1>1, <1>2 DEF Inserted
<1>3. CASE l.len + n < LineLen
  <2>1. Inserted(l, s).chars = [k \in Places |->
                   IF k \in l.at..(l.at + n - 1)
                     THEN (IF s[k - l.at + 1] = Blank THEN 0 ELSE s[k - l.at + 1])
                   ELSE IF k \in (l.at + n)..(l.len + n - 1) THEN l.chars[k - n]
                   ELSE IF k = l.len + n THEN 0 ELSE l.chars[k]]
    BY <1>1, <1>3 DEF Inserted
  <2>2. ASSUME NEW k \in Places PROVE Inserted(l, s).chars[k] # Blank
    <3>1. k \in Nat /\ k < LineLen
      BY <1>1 DEF Places
    <3>2. \A j \in Places : l.chars[j] # Blank
      BY <1>1 DEF BlankFree
    <3>3. 0 # Blank
      BY DEF Blank
    <3>4. k \in (l.at + n)..(l.len + n - 1) => k - n \in Places
      BY <1>1, <3>1 DEF Places
    <3>5. Inserted(l, s).chars[k] = 
             (IF k \in l.at..(l.at + n - 1)
                     THEN (IF s[k - l.at + 1] = Blank THEN 0 ELSE s[k - l.at + 1])
                   ELSE IF k \in (l.at + n)..(l.len + n - 1) THEN l.chars[k - n]
                   ELSE IF k = l.len + n THEN 0 ELSE l.chars[k])
      BY <2>1
    <3> HIDE DEF n
    <3> QED BY <3>2, <3>3, <3>4, <3>5, Zenon
  <2>3. DOMAIN Inserted(l, s).chars = Places
    BY <2>1
  <2> QED BY <2>2, <2>3 DEF BlankFree
<1> QED BY <1>1, <1>2, <1>3

LEMMA RestoredBlankFree ==
  ASSUME NEW line \in Seq(Nat), BlankFree(line), NEW rest \in [Places -> Nat], BlankFree(rest),
         Restored(line, rest)
  PROVE  BlankFree(cmdline')
<1> DEFINE n == Len(line)
<1>1. n \in Nat /\ LineLen \in Nat
  BY LengthsAre
<1>2. cmdline' = [k \in Places |-> IF k < n THEN line[k + 1] ELSE IF k = n THEN 0 ELSE rest[k]]
  BY DEF Restored
<1>3. ASSUME NEW k \in Places PROVE cmdline'[k] # Blank
  <2>1. k \in Nat
    BY <1>1 DEF Places
  <2>2. k < n => line[k + 1] # Blank
    <3> DEFINE i == k + 1
    <3>1. k < n => i \in DOMAIN line
      BY <1>1, <2>1
    <3> HIDE DEF i, n
    <3>2. k < n => line[i] # Blank
      BY <3>1 DEF BlankFree
    <3> QED BY <3>2 DEF i
  <2>3. rest[k] # Blank /\ 0 # Blank
    BY DEF BlankFree, Blank
  <2> HIDE DEF n
  <2> QED BY <1>2, <2>2, <2>3
<1> QED BY <1>2, <1>3 DEF BlankFree

LEMMA BackspaceBlankFree ==
  ASSUME cmdline \in [Places -> Nat], cmdlen \in Places, cursor \in 0..cmdlen, BlankFree(cmdline),
         NEW n \in 0..cursor, Backspace(n)
  PROVE  BlankFree(cmdline')
<1>1. /\ cmdlen \in Nat /\ cmdlen < LineLen /\ cursor \in Nat /\ cursor <= cmdlen /\ n \in Nat /\ n <= cursor
      /\ LineLen \in Nat
  BY LengthsAre DEF Places
<1>2. cmdline' = [k \in Places |->
       IF k < cursor - n \/ k > cmdlen THEN cmdline[k]
       ELSE IF k <= cmdlen - n THEN cmdline[k + n] ELSE 0]
  BY DEF Backspace
<1>3. ASSUME NEW k \in Places PROVE cmdline'[k] # Blank
  <2>1. k \in Nat /\ k < LineLen
    BY <1>1 DEF Places
  <2>2. k <= cmdlen - n => k + n \in Places
    BY <1>1, <2>1 DEF Places
  <2>3. \A j \in Places : cmdline[j] # Blank
    BY DEF BlankFree
  <2>4. 0 # Blank
    BY DEF Blank
  <2> QED BY <1>2, <2>2, <2>3, <2>4
<1> QED BY <1>2, <1>3 DEF BlankFree

LEMMA CompletedBlankFree ==
  ASSUME LineOK(Line), BlankFree(cmdline), ComplWorld # {}
  PROVE  BlankFree(CompletedLine.chars)
<1>1. cmdline \in [Places -> Nat] /\ cmdlen \in Places /\ BlankFree(Line.chars)
  BY DEF LineOK, Line
<1>2. CASE Common = <<>>
  BY <1>1, <1>2 DEF CompletedLine
<1>3. CASE Common # <<>>
  <2> DEFINE s == SubSeq(Common, Len(Bit) + 1, Len(Common))
             l == Inserted(Line, s)
  <2>1. s \in Seq(Nat) /\ <<Blank>> \in Seq(Nat)
    <3>1. Common \in Seq(Nat) /\ Bit \in Seq(Nat)
      BY <1>1, CommonType, BitType
    <3>2. Len(Bit) + 1 \in Nat /\ Len(Bit) + 1 > 0
      BY <3>1
    <3>3. <<Blank>> \in Seq(Nat)
      BY DEF Blank
    <3> QED BY <3>1, <3>2, <3>3, SubSeqType
  <2> HIDE DEF s
  <2>2. LineOK(l) /\ BlankFree(l.chars)
    BY <1>1, <2>1, InsertedType, InsertedBlankFree
  <2>3. CompletedLine = IF Cardinality(ComplWorld) = 1 THEN Inserted(l, <<Blank>>) ELSE l
    BY <1>3 DEF CompletedLine, s
  <2> HIDE DEF l
  <2> QED BY <2>1, <2>2, <2>3, InsertedBlankFree
<1> QED BY <1>2, <1>3

\* What the searches find, in the lines of the history; what Enter makes of them.
LEMMA LinesKept ==
  ASSUME EditInv
  PROVE  /\ Lns \in Seq(Seq(Nat)) /\ Len(Lns) \in Nat /\ cur \in 0..Len(Lns)
         /\ HasOlder <=> cur < Len(Lns)
         /\ HasOlder => Len(Lns) - cur \in 1..Len(Lns) /\ OlderLine = Lns[Len(Lns) - cur]
         /\ cur > 1 => Len(Lns) - cur + 2 \in 1..Len(Lns) /\ NewerLine = Lns[Len(Lns) - cur + 2]
         /\ ~(cur > 1) => NewerLine = <<>>
<1> DEFINE M == LineLen - 1
           N == Len(Lns)
<1>1. RingInv(M)
  BY DEF EditInv
<1> HIDE DEF M
<1>2. /\ Lns \in Seq(Seq(Nat)) /\ cur \in 0..N
      /\ HasOlder <=> cur < N
      /\ HasOlder => OlderLine = Lns[N - cur]
      /\ cur > 1 => NewerLine = Lns[N - cur + 2]
      /\ ~(cur > 1) => NewerLine = <<>>
  BY <1>1, SearchFinds
<1>3. N \in Nat
  BY <1>2
<1> HIDE DEF N
<1>4. HasOlder => N - cur \in 1..N
  BY <1>2, <1>3
<1>5. cur > 1 => N - cur + 2 \in 1..N
  BY <1>2, <1>3
<1> QED BY <1>2, <1>3, <1>4, <1>5 DEF N

LEMMA SearchBlankFree ==
  ASSUME EditInv, CharsInv
  PROVE  (HasOlder => BlankFree(OlderLine)) /\ BlankFree(NewerLine)
<1>1. \A k \in 1..Len(Lns) : BlankFree(Lns[k])
  BY DEF CharsInv
<1>2. BlankFree(<<>>)
  BY DEF BlankFree
<1> QED BY <1>1, <1>2, LinesKept

\* The line as Enter stores it.
Typein == [k \in 1..cmdlen |-> cmdline[k - 1]]

LEMMA NewLineSaves ==
  ASSUME EditInv, NewLine, cmdlen > 0
  PROVE  /\ Typein \in Seq(Nat) /\ Len(Typein) = cmdlen /\ Typein # <<>> /\ Len(Typein) <= LineLen - 1
         /\ HistSaveLine(Typein) /\ cur' = 0
<1>0. /\ cmdline \in [Places -> Nat] /\ cmdlen \in Nat /\ cmdlen < LineLen /\ LineLen \in Nat
  BY EditFacts
<1>1. HistSaveLine(Typein) /\ cur' = 0
  BY DEF NewLine, Typein
<1>2. Typein \in [1..cmdlen -> Nat]
  <2>1. \A k \in 1..cmdlen : cmdline[k - 1] \in Nat
    BY <1>0 DEF Places
  <2> QED BY <2>1 DEF Typein
<1>3. Typein \in Seq(Nat) /\ Len(Typein) = cmdlen
  BY <1>0, <1>2
<1> QED BY <1>0, <1>1, <1>3

LEMMA LnsNext ==
  ASSUME EditInv, NewLine, cmdlen > 0
  PROVE  \/ Len(Typein) > RingLen - 2 /\ Lns' = Lns
         \/ /\ Len(Typein) <= RingLen - 2
            /\ \E k \in 0..Len(Lns) :
                 /\ Lns' = Append(SubSeq(Lns, k + 1, Len(Lns)), Typein)
                 /\ \A j \in 0..k :
                      LET ls == SubSeq(Lns, j + 1, Len(Lns))
                      IN  /\ Len(FlattenSeq(ls)) + Len(ls) \in Nat
                          /\ Len(FlattenSeq(ls)) + Len(ls) + Len(Typein) + 2 <= RingLen <=> j = k
<1> DEFINE M == LineLen - 1
           line == Typein
<1>1. RingInv(M)
  BY DEF EditInv
<1>2. line \in Seq(Nat) /\ line # <<>> /\ Len(line) <= M /\ HistSaveLine(line) /\ cur' = 0
  BY NewLineSaves
<1>3. Len(line) \in Nat /\ RingLen \in Nat
  BY <1>2, LengthsAre
<1> HIDE DEF M, line
<1>4. CASE Len(line) > RingLen - 2
  <2>1. UNCHANGED <<ring_buf, begin>>
    BY <1>2, <1>3, <1>4 DEF HistSaveLine
  <2>2. Lns' = Lns
    BY <2>1, LnsSame
  <2> QED BY <1>4, <2>2 DEF line
<1>5. CASE Len(line) <= RingLen - 2
  <2>1. \E k \in 0..Len(Lns) :
          /\ Lns \in Seq(Seq(Nat))
          /\ Lns' = Append(SubSeq(Lns, k + 1, Len(Lns)), line)
          /\ \A j \in 0..k :
               LET ls == SubSeq(Lns, j + 1, Len(Lns))
               IN  /\ Len(FlattenSeq(ls)) + Len(ls) \in Nat
                   /\ Len(FlattenSeq(ls)) + Len(ls) + Len(line) + 2 <= RingLen <=> j = k
    BY <1>1, <1>2, <1>5, EnterKeepsLatest
  <2> QED BY <1>5, <2>1, Zenon DEF line
<1>6. Len(line) > RingLen - 2 \/ Len(line) <= RingLen - 2
  BY <1>3
<1> QED BY <1>4, <1>5, <1>6

LEMMA CharsNext == ASSUME EditInv, CharsInv, [Next]_vars PROVE CharsInv'
<1>0. /\ cmdline \in [Places -> Nat] /\ cmdlen \in Places /\ cursor \in 0..cmdlen /\ cursor \in Nat
      /\ LineOK(Line) /\ BlankFree(cmdline) /\ BlankFree(Line.chars)
      /\ \A k \in 1..Len(Lns) : BlankFree(Lns[k])
  BY EditFacts DEF EditInv, CharsInv, Line
<1>1. ASSUME UNCHANGED <<ring_buf, begin>>, BlankFree(cmdline') PROVE CharsInv'
  <2>1. Lns' = Lns
    BY <1>1, LnsSame
  <2>2. BlankFree(cmdline)'
    BY <1>1
  <2> QED BY <1>0, <1>1, <2>1 DEF CharsInv, BlankFree
<1>2. CASE Stays \/ MovesCursor \/ CutsTail
  BY <1>0, <1>1, <1>2 DEF Stays, MovesCursor, CutsTail, ringVars, editVars
<1>3. CASE RubsOut \/ RubsOutAll
  <2>1. (RubsOut => 1 \in 0..cursor) /\ cursor \in 0..cursor
    BY <1>0 DEF RubsOut
  <2>2. BlankFree(cmdline')
    BY <1>0, <1>3, <2>1, BackspaceBlankFree DEF RubsOut, RubsOutAll
  <2> QED BY <1>1, <1>3, <2>2 DEF RubsOut, RubsOutAll, ringVars
<1>4. ASSUME NEW ch \in Letter \cup {Blank}, Inserts(ch) PROVE CharsInv'
  <2>1. <<ch>> \in Seq(Nat)
    <3>1. ch \in 0..255
      BY MicrorlAssumption DEF Letter, Blank
    <3> QED BY <3>1
  <2>2. BlankFree(Inserted(Line, <<ch>>).chars)
    BY <1>0, <2>1, InsertedBlankFree
  <2> QED BY <1>1, <1>4, <2>2 DEF Inserts, Becomes, ringVars
<1>5. CASE Completes
  <2>1. BlankFree(CompletedLine.chars)
    BY <1>0, <1>5, CompletedBlankFree DEF Completes
  <2> QED BY <1>1, <1>5, <2>1 DEF Completes, Becomes, ringVars
<1>6. CASE RecallsOlder \/ RecallsNewer
  <2>1. PICK line, rest : /\ line \in Seq(Nat) /\ BlankFree(line) /\ Restored(line, rest)
                          /\ rest \in [Places -> Nat] /\ BlankFree(rest)
    <3>1. [k \in Places |-> 0] \in [Places -> Nat] /\ BlankFree([k \in Places |-> 0])
      BY DEF BlankFree, Blank
    <3>2. CASE RecallsOlder
      BY <3>1, <3>2, SearchOf, SearchBlankFree DEF RecallsOlder
    <3>3. CASE RecallsNewer
      BY <1>0, <3>3, SearchOf, SearchBlankFree DEF RecallsNewer
    <3> QED BY <1>6, <3>2, <3>3
  <2>2. BlankFree(cmdline')
    BY <2>1, RestoredBlankFree
  <2> QED BY <1>1, <1>6, <2>2 DEF RecallsOlder, RecallsNewer, Up, Down
<1>7. CASE NewLine
  <2>1. BlankFree(cmdline')
    BY <1>7 DEF NewLine, BlankFree, Blank
  <2>2. CASE ~(cmdlen > 0)
    BY <1>1, <1>7, <2>1, <2>2 DEF NewLine
  <2>3. CASE cmdlen > 0
    <3>1. /\ Typein \in Seq(Nat) /\ Len(Typein) = cmdlen
      BY <1>7, <2>3, NewLineSaves
    <3>2. BlankFree(Typein)
      <4>1. \A k \in 1..cmdlen : k - 1 \in Places
        BY <1>0, LengthsAre DEF Places
      <4> QED BY <1>0, <4>1 DEF Typein, BlankFree
    <3>3. \A k \in 1..Len(Lns') : BlankFree(Lns'[k])
      <4>1. CASE Lns' = Lns
        BY <1>0, <4>1
      <4>2. ASSUME NEW k \in 0..Len(Lns), Lns' = Append(SubSeq(Lns, k + 1, Len(Lns)), Typein)
            PROVE  \A j \in 1..Len(Lns') : BlankFree(Lns'[j])
        <5> DEFINE A == Seq(Nat)
                   kept == SubSeq(Lns, k + 1, Len(Lns))
                   n == Len(Lns) - k
        <5>1. Lns \in Seq(A) /\ Typein \in A /\ Len(Lns) \in Nat /\ n \in Nat
          BY <3>1, LinesKept
        <5> HIDE DEF A
        <5>2. kept \in Seq(A) /\ Len(kept) = n /\ \A j \in 1..n : kept[j] = Lns[k + j]
          BY <5>1, SubSeqFrom
        <5> HIDE DEF kept, n
        <5>3. Len(Append(kept, Typein)) = n + 1
              /\ \A j \in 1..(n + 1) : Append(kept, Typein)[j] = IF j = n + 1 THEN Typein ELSE kept[j]
          BY <5>1, <5>2
        <5>4. ASSUME NEW j \in 1..(n + 1) PROVE BlankFree(Append(kept, Typein)[j])
          <6>1. CASE j = n + 1
            BY <3>2, <5>3, <6>1
          <6>2. CASE j # n + 1
            <7>1. j \in 1..n /\ k + j \in 1..Len(Lns)
              BY <5>1, <6>2 DEF n
            <7> QED BY <1>0, <5>2, <5>3, <6>2, <7>1
          <6> QED BY <6>1, <6>2
        <5> QED BY <4>2, <5>3, <5>4 DEF kept
      <4> QED BY <1>7, <2>3, <4>1, <4>2, LnsNext
    <3>4. BlankFree(cmdline)'
      BY <2>1 DEF BlankFree
    <3> QED BY <3>3, <3>4 DEF CharsInv, BlankFree
  <2> QED BY <2>2, <2>3
<1> QED BY <1>2, <1>3, <1>4, <1>5, <1>6, <1>7, StepEdits DEF KeyEdits

LEMMA LinesStart == ASSUME RingInit PROVE Lns = <<>>
<1>1. RingInv(RingLen)
  BY RingStarts
<1>2. HeaderAt[0] = begin
  BY HeaderAtIsWalk, WalkFollows
<1>3. ring_buf[HeaderAt[0]] = 0
  BY <1>2, RingAssumption DEF RingInit, Cells
<1>4. PICK n, P : Holds(ring_buf, begin, end, cur, n, P, RingLen)
  BY <1>1 DEF RingInv
<1>5. Chain(ring_buf, begin, end, n, P) /\ begin \in Cells /\ ring_buf \in [Cells -> Nat] /\ n \in Nat
  BY <1>1, <1>4 DEF RingInv, Holds, RingTypeOK, Chain
<1>6. \A k \in 0..n : ring_buf[HeaderAt[k]] = 0 <=> k = n
  BY <1>5, ChainIsWalked, HeaderAtIsWalk
<1>7. 0 = n
  BY <1>3, <1>5, <1>6
<1>8. Count = 0
  BY <1>5, <1>7, CountIs, CountIsOf
<1> QED BY <1>8 DEF Lns

LEMMA CharsHold == Spec => [](EditInv /\ CharsInv)
<1>1. Init => CharsInv
  <2> SUFFICES ASSUME Init PROVE CharsInv
    OBVIOUS
  <2>1. BlankFree(cmdline)
    BY DEF Init, BlankFree, Blank
  <2>2. EditInv
    BY EditStarts
  <2>3. Len(Lns) = 0
    <3>1. Lns = <<>>
      BY LinesStart DEF Init
    <3> QED BY <3>1
  <2> QED BY <2>1, <2>3 DEF CharsInv
<1> QED BY <1>1, EditStarts, EditNext, CharsNext, PTL DEF Spec

-------------------------------------------------------------------------------
\* Where the C string at a place ends.
WordEnd(k) == Min({m \in k..(LineLen - 1) : cmdline[m] = 0} \union {LineLen})

LEMMA WordEndIs ==
  ASSUME cmdline \in [Places -> Nat], NEW k \in Places
  PROVE  /\ WordEnd(k) \in Nat /\ k <= WordEnd(k) /\ WordEnd(k) <= LineLen
         /\ \A m \in Places : k <= m /\ m < WordEnd(k) => cmdline[m] # 0
         /\ WordEnd(k) < LineLen => cmdline[WordEnd(k)] = 0
         /\ CString(k) \in Seq(Nat) /\ Len(CString(k)) = WordEnd(k) - k
         /\ \A m \in 1..(WordEnd(k) - k) : CString(k)[m] = cmdline[k + m - 1]
<1> DEFINE T == {m \in k..(LineLen - 1) : cmdline[m] = 0} \union {LineLen}
           z == WordEnd(k)
<1>1. LineLen \in Nat /\ k \in Nat /\ k < LineLen
  BY LengthsAre DEF Places
<1>2. T \in SUBSET Nat /\ T # {} /\ \A m \in T : m >= k /\ m <= LineLen
  BY <1>1
<1>3. z = Min(T)
  BY DEF WordEnd
<1>4. CString(k) = [m \in 1..(z - k) |-> cmdline[k + m - 1]]
  BY DEF CString, WordEnd
<1>5. \A m \in T : m = LineLen \/ cmdline[m] = 0
  OBVIOUS
<1>6. \A m \in Places : k <= m /\ cmdline[m] = 0 => m \in T
  BY <1>1 DEF Places
<1> HIDE DEF T, z
<1>7. z \in T /\ z \in Nat /\ z >= k /\ z <= LineLen /\ \A m \in T : z <= m
  BY <1>2, <1>3, MinExists
<1>8. \A m \in Places : k <= m /\ m < z => cmdline[m] # 0
  <2> SUFFICES ASSUME NEW m \in Places, k <= m, m < z, cmdline[m] = 0 PROVE FALSE
    OBVIOUS
  <2>1. z <= m /\ m \in Nat
    BY <1>1, <1>6, <1>7 DEF Places
  <2> QED BY <1>7, <2>1
<1>9. z < LineLen => cmdline[z] = 0
  BY <1>1, <1>5, <1>7
<1>10. CString(k) \in Seq(Nat)
  BY CStringType
<1>11. Len(CString(k)) = z - k
  <2>1. z - k \in Nat
    BY <1>1, <1>7
  <2> QED BY <1>4, <2>1
<1>12. \A m \in 1..(z - k) : CString(k)[m] = cmdline[k + m - 1]
  BY <1>4
<1> QED BY <1>7, <1>8, <1>9, <1>10, <1>11, <1>12 DEF z

\* Where words begin, in a text.
Begins(s) == {k \in 1..Len(s) : s[k] # Blank /\ (k > 1 => s[k - 1] = Blank)}

LEMMA TextBlanks ==
  ASSUME EditInv, CharsInv, NEW k \in Nat, k < cmdlen
  PROVE  /\ k \in Places /\ k + 1 \in 1..Len(Text) /\ cmdline[k] \in Nat
         /\ Text[k + 1] = Blank <=> cmdline[k] = 0
         /\ cmdline[k] # 0 => Text[k + 1] = cmdline[k]
<1>1. /\ cmdline \in [Places -> Nat] /\ cmdlen \in Nat /\ cmdlen < LineLen /\ LineLen \in Nat
      /\ Len(Text) = cmdlen /\ \A m \in 1..cmdlen : Text[m] = CharOf(cmdline[m - 1])
  BY EditFacts
<1>2. k \in Places /\ k + 1 \in 1..cmdlen /\ (k + 1) - 1 = k
  BY <1>1 DEF Places
<1>3. cmdline[k] # Blank
  BY <1>1, <1>2 DEF CharsInv, BlankFree
<1>4. Text[k + 1] = CharOf(cmdline[k])
  BY <1>1, <1>2
<1> QED BY <1>1, <1>2, <1>3, <1>4 DEF CharOf, Blank

LEMMA StartsAgree ==
  ASSUME EditInv, CharsInv
  PROVE  /\ TokenStarts \in SUBSET (0..LineLen) /\ Begins(Text) \in SUBSET (0..LineLen)
         /\ \A x \in Nat : x \in Begins(Text) <=> x > 0 /\ x - 1 \in TokenStarts
         /\ \A x \in TokenStarts : x \in Places /\ x \in Nat /\ x < cmdlen /\ cmdline[x] # 0
<1>1. cmdlen \in Nat /\ cmdlen < LineLen /\ LineLen \in Nat /\ Len(Text) = cmdlen
  BY EditFacts
<1>2. TokenStarts \in SUBSET (0..LineLen) /\ Begins(Text) \in SUBSET (0..LineLen)
  BY <1>1 DEF TokenStarts, Begins
<1>3. \A x \in TokenStarts : x \in Places /\ x \in Nat /\ x < cmdlen /\ cmdline[x] # 0
  BY <1>1 DEF TokenStarts, Places
<1>4. ASSUME NEW x \in Nat PROVE x \in Begins(Text) <=> x > 0 /\ x - 1 \in TokenStarts
  <2>1. CASE ~(x > 0 /\ x <= cmdlen)
    BY <1>1, <2>1 DEF Begins, TokenStarts
  <2>2. CASE x > 0 /\ x <= cmdlen
    <3> DEFINE k == x - 1
    <3>1. k \in Nat /\ k < cmdlen /\ k + 1 = x /\ x \in 1..cmdlen /\ k \in 0..(cmdlen - 1)
      BY <1>1, <2>2
    <3>2. Text[x] = Blank <=> cmdline[k] = 0
      BY <3>1, TextBlanks
    <3>3. x > 1 => (Text[x - 1] = Blank <=> cmdline[k - 1] = 0)
      <4> SUFFICES ASSUME x > 1 PROVE Text[x - 1] = Blank <=> cmdline[k - 1] = 0
        OBVIOUS
      <4> DEFINE i == k - 1
      <4>1. i \in Nat /\ i < cmdlen /\ i + 1 = x - 1
        <5>1. x \in Nat /\ x > 1 /\ cmdlen \in Nat /\ x <= cmdlen
          BY <1>1, <2>2
        <5>2. i = x - 2
          BY <5>1
        <5> HIDE DEF i, k
        <5> QED BY <5>1, <5>2
      <4> HIDE DEF i
      <4>2. Text[i + 1] = Blank <=> cmdline[i] = 0
        BY <4>1, TextBlanks
      <4> QED BY <4>1, <4>2 DEF i
    <3>4. x > 1 <=> k > 0
      BY <3>1
    <3> HIDE DEF k
    <3>5. x \in Begins(Text) <=> k \in TokenStarts
      BY <1>1, <3>1, <3>2, <3>3, <3>4 DEF Begins, TokenStarts
    <3> QED BY <2>2, <3>5 DEF k
  <2> QED BY <2>1, <2>2
<1> QED BY <1>2, <1>3, <1>4

\* The words that split finds are those of the text, each at its place.
LEMMA WordsAre ==
  ASSUME EditInv, CharsInv
  PROVE  /\ Cardinality(TokenStarts) \in Nat
         /\ Entry!Words(Text) = [w \in 1..Cardinality(TokenStarts) |-> Entry!WordAt(Text, TokenStart(w) + 1)]
         /\ \A w \in 1..Cardinality(TokenStarts) :
              TokenStart(w) \in TokenStarts /\ Cardinality({j \in TokenStarts : j < TokenStart(w)}) = w - 1
<1> DEFINE S == TokenStarts
           T == Begins(Text)
           n == Cardinality(S)
<1>1. /\ S \in SUBSET (0..LineLen) /\ T \in SUBSET (0..LineLen) /\ LineLen \in Nat
      /\ \A x \in Nat : x \in T <=> x > 0 /\ x - 1 \in S
  BY StartsAgree, LengthsAre
<1>2. n \in Nat
  BY <1>1, BelowCounts
<1>3. Cardinality(T) = n
  <2>1. T \in SUBSET Nat
    BY <1>1
  <2> HIDE DEF S, T
  <2> QED BY <1>1, <2>1, ShiftCounts
<1>4. ASSUME NEW w \in 1..n
      PROVE  TokenStart(w) \in S /\ Cardinality({j \in S : j < TokenStart(w)}) = w - 1
  <2>1. \E k \in S : Cardinality({j \in S : j < k}) = w - 1
    BY <1>1, WthExists
  <2>2. TokenStart(w) = CHOOSE k \in S : Cardinality({j \in S : j < k}) = w - 1
    BY DEF TokenStart
  <2> HIDE DEF S
  <2> QED BY <2>1, <2>2
<1> DEFINE wth(w) == CHOOSE k \in T : Cardinality({j \in T : j < k}) = w - 1
<1>5. ASSUME NEW w \in 1..n PROVE wth(w) = TokenStart(w) + 1
  <2> DEFINE k == TokenStart(w)
  <2>1. k \in S /\ Cardinality({j \in S : j < k}) = w - 1
    BY <1>4
  <2> HIDE DEF S, T, k
  <2>2. k \in Nat /\ k + 1 \in Nat /\ k + 1 > 0 /\ (k + 1) - 1 = k
    BY <1>1, <2>1
  <2>3. k + 1 \in T
    BY <1>1, <2>1, <2>2
  <2>4. Cardinality({j \in T : j < k + 1}) = Cardinality({j \in S : j < k})
    <3> DEFINE S1 == {j \in S : j < k}
               T1 == {j \in T : j < k + 1}
    <3>1. S1 \in SUBSET (0..LineLen) /\ T1 \in SUBSET Nat
      <4>1. \A x \in T : x \in Nat
        BY <1>1
      <4>2. S1 \in SUBSET S /\ S \in SUBSET (0..LineLen)
        BY <1>1, Zenon
      <4>3. T1 \in SUBSET Nat
        BY <4>1, Zenon
      <4> HIDE DEF S1, T1
      <4> QED BY <4>2, <4>3
    <3>2. ASSUME NEW x \in Nat PROVE x \in T1 <=> x > 0 /\ x - 1 \in S1
      <4>1. x \in T <=> x > 0 /\ x - 1 \in S
        BY <1>1
      <4>2. x < k + 1 <=> x - 1 < k
        BY <2>2
      <4> QED BY <4>1, <4>2
    <3> HIDE DEF S1, T1
    <3>3. Cardinality(T1) = Cardinality(S1)
      BY <1>1, <3>1, <3>2, ShiftCounts
    <3> QED BY <3>3 DEF S1, T1
  <2>5. Cardinality({j \in T : j < k + 1}) = w - 1
    BY <2>1, <2>4
  <2>6. k + 1 = CHOOSE i \in T : Cardinality({j \in T : j < i}) = w - 1
    BY <1>1, <2>3, <2>5, WthIs
  <2> QED BY <2>6 DEF k
<1>6. Entry!Words(Text) = [w \in 1..Cardinality(T) |-> Entry!WordAt(Text, wth(w))]
  BY DEF Entry!Words, Begins, Entry!Blank, Blank, Entry!Cardinality, Cardinality
<1> HIDE DEF S, T, n, wth
<1>7. Entry!Words(Text) = [w \in 1..n |-> Entry!WordAt(Text, TokenStart(w) + 1)]
  BY <1>3, <1>5, <1>6
<1> QED BY <1>2, <1>4, <1>7 DEF S, n

\* The word of the text where split found one ends with its C string, or with the line.
LEMMA WordIs ==
  ASSUME EditInv, CharsInv, NEW k \in TokenStarts
  PROVE  LET e == IF WordEnd(k) <= cmdlen THEN WordEnd(k) ELSE cmdlen
         IN  /\ Entry!WordAt(Text, k + 1) = SubSeq(Text, k + 1, e)
             /\ e \in Nat /\ k < e /\ e <= cmdlen
             /\ \A m \in (k + 1)..e : Text[m] # Blank /\ Text[m] = cmdline[m - 1]
             /\ e < cmdlen => Text[e + 1] = Blank
<1> DEFINE z == WordEnd(k)
           e == IF z <= cmdlen THEN z ELSE cmdlen
<1>1. /\ cmdline \in [Places -> Nat] /\ cmdlen \in Nat /\ cmdlen < LineLen /\ LineLen \in Nat /\ Len(Text) = cmdlen
  BY EditFacts
<1>2. k \in Places /\ k \in Nat /\ k < cmdlen /\ cmdline[k] # 0
  BY StartsAgree
<1>3. /\ z \in Nat /\ k <= z /\ z <= LineLen
      /\ \A m \in Places : k <= m /\ m < z => cmdline[m] # 0
      /\ z < LineLen => cmdline[z] = 0
  BY <1>1, <1>2, WordEndIs
<1> HIDE DEF z
<1>4. k < z
  <2>1. k = z => cmdline[k] = 0
    BY <1>1, <1>2, <1>3
  <2> QED BY <1>2, <1>3, <2>1
<1>5. e \in Nat /\ k < e /\ e <= cmdlen /\ e <= z /\ (e < cmdlen => e = z)
  BY <1>1, <1>2, <1>3, <1>4
<1> HIDE DEF e
<1>6. ASSUME NEW m \in (k + 1)..e PROVE Text[m] # Blank /\ Text[m] = cmdline[m - 1]
  <2> DEFINE i == m - 1
  <2>1. i \in Nat /\ i < cmdlen /\ k <= i /\ i < z /\ i + 1 = m
    BY <1>2, <1>3, <1>5, <1>1
  <2> HIDE DEF i
  <2>2. i \in Places /\ (Text[i + 1] = Blank <=> cmdline[i] = 0) /\ (cmdline[i] # 0 => Text[i + 1] = cmdline[i])
    BY <2>1, TextBlanks
  <2>3. cmdline[i] # 0
    BY <1>3, <2>1, <2>2
  <2>4. Text[m] # Blank /\ Text[m] = cmdline[i]
    BY <2>1, <2>2, <2>3
  <2> QED BY <2>4 DEF i
<1>7. e < cmdlen => Text[e + 1] = Blank
  <2> SUFFICES ASSUME e < cmdlen PROVE Text[e + 1] = Blank
    OBVIOUS
  <2>1. e < LineLen /\ cmdline[e] = 0
    BY <1>1, <1>3, <1>5
  <2>2. Text[e + 1] = Blank <=> cmdline[e] = 0
    BY <1>5, TextBlanks
  <2> QED BY <2>1, <2>2
<1> DEFINE K == k + 1
           Ends(l) == (\A m \in K..l : Text[m] # Blank) /\ (l < Len(Text) => Text[l + 1] = Blank)
<1>8. e \in K..Len(Text) /\ Ends(e)
  <2>1. e \in K..Len(Text)
    BY <1>1, <1>2, <1>5
  <2> QED BY <1>1, <1>6, <1>7, <2>1
<1>9. ASSUME NEW l \in K..Len(Text), Ends(l) PROVE l = e
  <2>1. l \in Nat /\ K \in Nat /\ K <= l /\ l <= cmdlen
    BY <1>1, <1>2
  <2>2. CASE l < e
    <3> DEFINE m == l + 1
    <3>1. m \in K..e /\ l < cmdlen
      BY <1>1, <1>5, <2>1, <2>2
    <3>2. Text[m] = Blank
      BY <1>1, <1>9, <3>1
    <3> HIDE DEF m
    <3> QED BY <1>6, <3>1, <3>2
  <2>3. CASE e < l
    <3> DEFINE m == e + 1
    <3>1. m \in K..l /\ e < cmdlen
      BY <1>1, <1>5, <1>2, <2>1, <2>3
    <3>2. Text[m] = Blank
      BY <1>7, <3>1
    <3> HIDE DEF m
    <3> QED BY <1>9, <3>1, <3>2
  <2> QED BY <1>5, <2>1, <2>2, <2>3
<1> DEFINE l == CHOOSE i \in K..Len(Text) : Ends(i)
<1>10. Entry!WordAt(Text, K) = SubSeq(Text, K, l)
  BY DEF Entry!WordAt, Entry!Blank, Blank
<1> HIDE DEF Ends
<1>11. l \in K..Len(Text) /\ Ends(l)
  BY <1>8
<1> HIDE DEF l
<1>12. l = e
  BY <1>9, <1>11
<1>13. Entry!WordAt(Text, k + 1) = SubSeq(Text, k + 1, e)
  BY <1>10, <1>12
<1> QED BY <1>5, <1>6, <1>7, <1>13 DEF e, z

\* What a command is given for a word: the word, and what follows the line where it is cut.
LEMMA WordGiven ==
  ASSUME EditInv, CharsInv, NEW k \in TokenStarts
  PROVE  /\ IsPrefix(Entry!WordAt(Text, k + 1), CString(k))
         /\ WordEnd(k) <= cmdlen => CString(k) = Entry!WordAt(Text, k + 1)
<1> DEFINE z == WordEnd(k)
           e == IF z <= cmdlen THEN z ELSE cmdlen
           W == Entry!WordAt(Text, k + 1)
           C == CString(k)
<1>1. /\ W = SubSeq(Text, k + 1, e) /\ e \in Nat /\ k < e /\ e <= cmdlen
      /\ \A m \in (k + 1)..e : Text[m] = cmdline[m - 1]
  BY WordIs
<1>2. /\ cmdline \in [Places -> Nat] /\ cmdlen \in Nat /\ cmdlen < LineLen /\ LineLen \in Nat
      /\ Text \in Seq(Nat) /\ Len(Text) = cmdlen
  BY EditFacts
<1>3. k \in Places /\ k \in Nat /\ k < cmdlen
  BY StartsAgree
<1>4. /\ z \in Nat /\ k <= z /\ z <= LineLen /\ C \in Seq(Nat) /\ Len(C) = z - k
      /\ \A m \in 1..(z - k) : C[m] = cmdline[k + m - 1]
  BY <1>2, <1>3, WordEndIs
<1>5. e <= z /\ (z <= cmdlen => e = z)
  BY <1>2, <1>4
<1> HIDE DEF z, e, C
<1>6. W \in Seq(Nat) /\ Len(W) = e - k /\ \A m \in 1..(e - k) : W[m] = Text[k + m]
  <2> DEFINE t == Text
             K == k + 1
  <2>1. t \in Seq(Nat) /\ Len(t) = cmdlen /\ W = SubSeq(t, K, e)
    BY <1>1, <1>2
  <2> HIDE DEF t, W
  <2>2. K \in Nat /\ K >= 1 /\ e \in Nat /\ e <= cmdlen /\ cmdlen \in Nat /\ K = k + 1 /\ K <= e
    BY <1>1, <1>2, <1>3
  <2>3. (e - K) + 1 = e - k /\ e - k \in Nat
    BY <1>1, <1>3
  <2> HIDE DEF K
  <2>4. K \in Nat /\ e \in Nat /\ K <= e + 1 /\ 1 <= K /\ e <= Len(t) /\ t \in Seq(Nat)
    BY <2>1, <2>2
  <2>5. W \in Seq(Nat) /\ Len(W) = (e - K) + 1 /\ \A m \in 1..((e - K) + 1) : W[m] = t[(K + m) - 1]
    <3>1. /\ SubSeq(t, K, e) \in Seq(Nat) /\ Len(SubSeq(t, K, e)) = (e - K) + 1
          /\ \A m \in 1..((e - K) + 1) : SubSeq(t, K, e)[m] = t[(K + m) - 1]
      BY <2>4, SubSeqOf
    <3> QED BY <2>1, <3>1, Zenon
  <2>6. \A m \in 1..(e - k) : (K + m) - 1 = k + m
    BY <2>2, <1>3
  <2> QED BY <2>3, <2>5, <2>6 DEF t
<1> HIDE DEF W
<1>7. ASSUME NEW m \in 1..(e - k) PROVE W[m] = C[m]
  <2> DEFINE i == k + m
  <2>1. i \in (k + 1)..e /\ m \in 1..(z - k) /\ i - 1 = k + m - 1
    BY <1>1, <1>3, <1>4, <1>5
  <2>2. Text[i] = cmdline[i - 1]
    BY <1>1, <2>1
  <2>3. C[m] = cmdline[i - 1]
    BY <1>4, <2>1
  <2> QED BY <1>6, <2>2, <2>3
<1>8. e - k \in Nat /\ z - k \in Nat /\ e - k <= z - k
  BY <1>1, <1>3, <1>4, <1>5
<1>9. IsPrefix(W, C)
  <2>1. Len(W) <= Len(C)
    BY <1>4, <1>6, <1>8
  <2>2. SubSeq(W, 1, Len(W)) = W
    BY <1>6
  <2> DEFINE D == SubSeq(C, 1, Len(W))
  <2>3. D \in Seq(Nat) /\ Len(D) = Len(W) /\ \A m \in 1..Len(W) : D[m] = C[m]
    BY <1>4, <1>6, <1>8, <2>1
  <2>4. W = D
    <3> HIDE DEF D
    <3> QED BY <1>6, <1>7, <2>3
  <2> QED BY <2>1, <2>2, <2>4 DEF IsPrefix
<1>10. z <= cmdlen => C = W
  <2> SUFFICES ASSUME z <= cmdlen PROVE C = W
    OBVIOUS
  <2>1. Len(C) = e - k /\ Len(W) = e - k
    BY <1>4, <1>5, <1>6
  <2>2. C \in Seq(Nat) /\ W \in Seq(Nat) /\ \A m \in 1..(e - k) : W[m] = C[m]
    BY <1>4, <1>6, <1>7
  <2> QED BY <2>1, <2>2
<1> QED BY <1>9, <1>10 DEF W, C, z

\* Every word but the last, and the last one too where the line is not cut, ends in it.
LEMMA WordsEnd ==
  ASSUME EditInv, CharsInv, NEW w \in 1..Cardinality(TokenStarts),
         w < Cardinality(TokenStarts) \/ cmdline[cmdlen] = 0
  PROVE  WordEnd(TokenStart(w)) <= cmdlen
<1> DEFINE k == TokenStart(w)
           z == WordEnd(k)
           n == Cardinality(TokenStarts)
<1>1. /\ cmdline \in [Places -> Nat] /\ cmdlen \in Places /\ cmdlen \in Nat /\ cmdlen < LineLen /\ LineLen \in Nat
  BY EditFacts
<1>2. n \in Nat /\ k \in TokenStarts /\ Cardinality({j \in TokenStarts : j < k}) = w - 1
  BY WordsAre
<1>3. k \in Places /\ k \in Nat /\ k < cmdlen /\ cmdline[k] # 0
  BY <1>2, StartsAgree
<1>4. z \in Nat /\ k <= z /\ \A m \in Places : k <= m /\ m < z => cmdline[m] # 0
  BY <1>1, <1>3, WordEndIs
<1> HIDE DEF z
<1>5. CASE cmdline[cmdlen] = 0
  BY <1>1, <1>3, <1>4, <1>5 DEF z
<1>6. CASE w < n
  <2> DEFINE v == w + 1
             l == TokenStart(v)
  <2>1. v \in 1..n /\ v - 1 = w /\ w - 1 < w /\ w \in Nat
    BY <1>2, <1>6
  <2> HIDE DEF v
  <2>2. l \in TokenStarts /\ Cardinality({j \in TokenStarts : j < l}) = w
    BY <2>1, WordsAre
  <2>3. l \in Nat /\ l < cmdlen
    BY <2>2, StartsAgree
  <2> HIDE DEF k, l, n
  <2>4. k # l
    BY <1>2, <2>1, <2>2
  <2>5. ~(l < k)
    <3> SUFFICES ASSUME l < k PROVE FALSE
      OBVIOUS
    <3> DEFINE S == TokenStarts
    <3>1. S \in SUBSET (0..LineLen)
      BY StartsAgree
    <3>2. k \in S /\ l \in S
      BY <1>2, <2>2
    <3> HIDE DEF S
    <3>3. Cardinality({j \in S : j < l}) < Cardinality({j \in S : j < k})
      BY <1>1, <3>1, <3>2, WthUnique
    <3>4. w < w - 1
      BY <1>2, <2>2, <3>3 DEF S
    <3> QED BY <2>1, <3>4
  <2>6. k < l
    BY <1>3, <2>3, <2>4, <2>5
  <2> DEFINE m == l - 1
  <2>7. m \in Nat /\ m < cmdlen /\ k <= m /\ m \in Places
    BY <1>1, <1>3, <2>3, <2>6 DEF Places
  <2>8. cmdline[m] = 0
    BY <1>3, <2>2, <2>6 DEF TokenStarts
  <2>9. ~(m < z)
    BY <1>4, <2>7, <2>8
  <2> QED BY <1>1, <1>4, <2>7, <2>9 DEF k, z
<1> QED BY <1>5, <1>6

LEMMA CommandIsGiven ==
  ASSUME EditInv, CharsInv, Next, argv' # <<>>
  PROVE  LET words == Entry!Words(Text)
         IN  /\ Len(argv') = Len(words) /\ Len(words) <= TokenNmb
             /\ \A w \in DOMAIN words : IsPrefix(words[w], argv'[w])
             /\ \A w \in DOMAIN words :
                  w < Len(words) \/ cmdline[cmdlen] = 0 => argv'[w] = words[w]
<1> DEFINE n == Cardinality(TokenStarts)
           words == Entry!Words(Text)
<1>1. NewLine
  <2>1. ASSUME NEW ch \in PlainKeys, PlainKey(ch) PROVE NewLine
    BY <2>1 DEF PlainKey
  <2>2. ASSUME NEW ch \in SequenceKeys, EscapeKey(ch) PROVE FALSE
    BY <2>2 DEF EscapeKey
  <2> QED BY <2>1, <2>2 DEF Next
<1>2. argv' = IF n < TokenNmb THEN Tokens ELSE <<>>
  BY <1>1 DEF NewLine
<1>3. n < TokenNmb /\ argv' = [w \in 1..n |-> CString(TokenStart(w))]
  BY <1>2 DEF Tokens
<1>4. /\ n \in Nat /\ words = [w \in 1..n |-> Entry!WordAt(Text, TokenStart(w) + 1)]
      /\ \A w \in 1..n : TokenStart(w) \in TokenStarts
  BY WordsAre
<1> HIDE DEF words
<1>5. Len(argv') = n /\ Len(words) = n /\ DOMAIN words = 1..n
  BY <1>3, <1>4
<1>6. ASSUME NEW w \in 1..n
      PROVE  /\ IsPrefix(words[w], argv'[w])
             /\ w < n \/ cmdline[cmdlen] = 0 => argv'[w] = words[w]
  <2> DEFINE k == TokenStart(w)
  <2>1. k \in TokenStarts /\ argv'[w] = CString(k) /\ words[w] = Entry!WordAt(Text, k + 1)
    BY <1>3, <1>4
  <2>2. w < n \/ cmdline[cmdlen] = 0 => WordEnd(k) <= cmdlen
    BY WordsEnd
  <2> HIDE DEF k
  <2> QED BY <2>1, <2>2, WordGiven
<1>7. n <= TokenNmb
  BY <1>3, <1>4, MicrorlAssumption
<1> HIDE DEF n
<1> QED BY <1>5, <1>6, <1>7 DEF words

LEMMA CommandIsCalled ==
  ASSUME EditInv, CharsInv, PlainKey(KEY_CR), Len(Entry!Words(Text)) \in 1..(TokenNmb - 1)
  PROVE  argv' # <<>>
<1> DEFINE n == Cardinality(TokenStarts)
<1>1. argv' = IF n < TokenNmb THEN Tokens ELSE <<>>
  BY DEF PlainKey, NewLine
<1>2. n \in Nat /\ Len(Entry!Words(Text)) = n
  BY WordsAre
<1>3. Tokens = [w \in 1..n |-> CString(TokenStart(w))]
  BY DEF Tokens
<1> HIDE DEF n
<1>4. n \in 1..(TokenNmb - 1) /\ n < TokenNmb
  BY <1>2, MicrorlAssumption
<1>5. Len(Tokens) = n
  BY <1>2, <1>3
<1> QED BY <1>1, <1>4, <1>5

\* A line of fewer than TokenNmb words is executed when it is entered; a command is called
\* with the words of the line, none left out and none joined, the last one longer only
\* where the line was cut in it.
THEOREM CommandGetsItsWords == Spec => EnteredLineIsExecuted
<1>1. EditInv /\ CharsInv /\ [Next]_vars =>
        [ LET words == Entry!Words(Text)
          IN  /\ PlainKey(KEY_CR) /\ Len(words) \in 1..(TokenNmb - 1) => argv' # <<>>
              /\ argv' # <<>> =>
                   /\ Len(argv') = Len(words) /\ Len(words) <= TokenNmb
                   /\ \A w \in DOMAIN words : IsPrefix(words[w], argv'[w])
                   /\ \A w \in DOMAIN words :
                        w < Len(words) \/ cmdline[cmdlen] = 0 => argv'[w] = words[w] ]_vars
  BY CommandIsGiven, CommandIsCalled
<1> QED BY <1>1, CharsHold, PTL DEF Spec, EnteredLineIsExecuted

-------------------------------------------------------------------------------
\* LineEntry says of every key what it replaces in the line, as Splice of NatLemmas does.

LEMMA InsertedText ==
  ASSUME NEW l, LineOK(l), NEW s \in Seq(Nat), \A k \in 1..Len(s) : s[k] # 0, l.len + Len(s) < LineLen
  PROVE  LET r == Inserted(l, s)
         IN  /\ TextOf(r.chars, r.len) = Splice(TextOf(l.chars, l.len), l.at, s, l.at)
             /\ r.len = l.len + Len(s) /\ r.at = l.at + Len(s) /\ r.chars[r.len] = 0
<1> DEFINE n == Len(s)
           r == Inserted(l, s)
           L == l.len
           p == l.at
           ch(k) == IF k \in p..(p + n - 1) THEN (IF s[k - p + 1] = Blank THEN 0 ELSE s[k - p + 1])
                    ELSE IF k \in (p + n)..(L + n - 1) THEN l.chars[k - n]
                    ELSE IF k = L + n THEN 0 ELSE l.chars[k]
<1>1. /\ l.chars \in [Places -> Nat] /\ L \in Nat /\ L < LineLen /\ p \in Nat /\ p <= L
      /\ n \in Nat /\ LineLen \in Nat /\ L + n < LineLen /\ L \in Places
  BY LengthsAre DEF LineOK, Places
<1>2. ~(L + n >= LineLen)
  BY <1>1
<1>3. r.chars = [k \in Places |-> ch(k)] /\ r.len = L + n /\ r.at = p + n
  BY <1>2 DEF Inserted
<1>4. LineOK(r)
  BY InsertedType
<1>5. r.chars \in [Places -> Nat] /\ L + n \in Places
  BY <1>1, <1>3, <1>4 DEF LineOK, Places
<1> DEFINE v == TextOf(r.chars, L + n)
           t == TextOf(l.chars, L)
           M == L + n
<1>6. M \in Places /\ M \in Nat /\ r.chars \in [Places -> Nat]
  BY <1>5, <1>1
<1>7. v \in Seq(Nat) /\ Len(v) = M /\ \A k \in 1..M : v[k] = CharOf(r.chars[k - 1])
  BY <1>5, TextType
<1>8. t \in Seq(Nat) /\ Len(t) = L /\ \A k \in 1..L : t[k] = CharOf(l.chars[k - 1])
  BY <1>1, TextType
<1>9. ASSUME NEW k \in Nat, k < M PROVE k \in Places /\ k + 1 \in 1..M /\ v[k + 1] = CharOf(ch(k))
  <2>1. k \in Places /\ k + 1 \in 1..M /\ (k + 1) - 1 = k
    BY <1>1, <1>9 DEF Places
  <2>2. r.chars[k] = ch(k)
    BY <1>3, <2>1
  <2> HIDE DEF ch, v, r, M
  <2> QED BY <1>7, <2>1, <2>2
<1> HIDE DEF v, t, r
<1>10. ASSUME NEW k \in 1..p PROVE v[k] = t[k]
  <2> DEFINE i == k - 1
  <2>1. i \in Nat /\ i < M /\ i + 1 = k /\ k \in 1..L /\ ~(i \in p..(p + n - 1)) /\ ~(i \in (p + n)..(L + n - 1))
        /\ i # L + n
    BY <1>1
  <2>2. ch(i) = l.chars[i]
    BY <2>1
  <2> HIDE DEF ch, M
  <2>3. v[i + 1] = CharOf(ch(i))
    BY <1>9, <2>1
  <2>4. t[k] = CharOf(l.chars[i])
    BY <1>8, <2>1
  <2> HIDE DEF i
  <2> QED BY <2>1, <2>2, <2>3, <2>4
<1>11. ASSUME NEW k \in 1..n PROVE v[p + k] = s[k]
  <2> DEFINE i == (p + k) - 1
  <2>1. i \in Nat /\ i < M /\ i + 1 = p + k /\ i \in p..(p + n - 1) /\ i - p + 1 = k
    <3>1. p \in Nat /\ n \in Nat /\ L \in Nat /\ p <= L
      BY <1>1
    <3> HIDE DEF p, n, L
    <3>2. k \in Nat /\ 1 <= k /\ k <= n
      BY <3>1
    <3>3. i = (p + k) - 1 /\ M = L + n
      OBVIOUS
    <3> HIDE DEF i, M
    <3>4. i \in Nat /\ i < M /\ i + 1 = p + k
      BY <3>1, <3>2, <3>3
    <3>5. i \in p..(p + n - 1) /\ i - p + 1 = k
      BY <3>1, <3>2, <3>3
    <3> QED BY <3>4, <3>5
  <2>2. ch(i) = IF s[k] = Blank THEN 0 ELSE s[k]
    BY <2>1
  <2> HIDE DEF ch, M
  <2>3. v[i + 1] = CharOf(ch(i))
    BY <1>9, <2>1
  <2>4. s[k] # 0
    OBVIOUS
  <2> HIDE DEF i
  <2>5. CharOf(ch(i)) = s[k]
    BY <2>2, <2>4 DEF CharOf, Blank
  <2> QED BY <2>1, <2>3, <2>5
<1>12. ASSUME NEW k \in 1..(L - p) PROVE v[(p + n) + k] = t[p + k]
  <2> DEFINE i == ((p + n) + k) - 1
             j == (p + k) - 1
  <2>1. i \in Nat /\ i < M /\ i + 1 = (p + n) + k /\ ~(i \in p..(p + n - 1)) /\ i \in (p + n)..(L + n - 1)
        /\ i - n = j /\ p + k \in 1..L
    <3>1. p \in Nat /\ n \in Nat /\ L \in Nat /\ p <= L
      BY <1>1
    <3> HIDE DEF p, n, L
    <3>2. k \in Nat /\ 1 <= k /\ p + k <= L
      BY <3>1
    <3>3. i = ((p + n) + k) - 1 /\ j = (p + k) - 1 /\ M = L + n
      OBVIOUS
    <3> HIDE DEF i, j, M
    <3>4. i \in Nat /\ i < M /\ i + 1 = (p + n) + k
      BY <3>1, <3>2, <3>3
    <3>5. ~(i \in p..(p + n - 1)) /\ i \in (p + n)..(L + n - 1)
      BY <3>1, <3>2, <3>3
    <3>6. i - n = j /\ p + k \in 1..L
      BY <3>1, <3>2, <3>3
    <3> QED BY <3>4, <3>5, <3>6
  <2>2. ch(i) = l.chars[j]
    BY <2>1
  <2> HIDE DEF ch, M
  <2>3. v[i + 1] = CharOf(ch(i))
    BY <1>9, <2>1
  <2>4. t[p + k] = CharOf(l.chars[j])
    BY <1>8, <2>1
  <2> HIDE DEF i, j
  <2> QED BY <2>1, <2>2, <2>3, <2>4
<1>13. v = Splice(t, p, s, p)
  <2>1. Len(v) = p + Len(s) + (Len(t) - p) /\ p <= p /\ p <= Len(t)
    BY <1>1, <1>7, <1>8
  <2>2. p \in Nat /\ t \in Seq(Nat) /\ v \in Seq(Nat)
    BY <1>1, <1>7, <1>8
  <2>3. \A k \in 1..p : v[k] = t[k]
    BY <1>10
  <2>4. \A k \in 1..Len(s) : v[p + k] = s[k]
    BY <1>11
  <2>5. \A k \in 1..(Len(t) - p) : v[(p + Len(s)) + k] = t[p + k]
    BY <1>8, <1>12
  <2>6. Spliced(v, t, p, s, p)
    BY <2>1, <2>3, <2>4, <2>5 DEF Spliced
  <2> HIDE DEF p, L
  <2> QED BY <2>1, <2>2, <2>6, SpliceOnly
<1>14. r.chars[L + n] = 0
  <2>1. ~(L + n \in p..(p + n - 1)) /\ ~(L + n \in (p + n)..(L + n - 1))
    BY <1>1
  <2>2. ch(L + n) = 0
    BY <2>1
  <2> HIDE DEF ch
  <2> QED BY <1>3, <1>5, <2>2
<1> QED BY <1>3, <1>13, <1>14 DEF v, t, r

-------------------------------------------------------------------------------
\* What is taken out of the line, and what Up and Down put into it.

LEMMA BackspaceText ==
  ASSUME EditInv, NEW n \in 0..cursor, Backspace(n)
  PROVE  /\ Text' = Splice(Text, cursor - n, <<>>, cursor)
         /\ cursor' = cursor - n /\ cmdline'[cmdlen'] = cmdline[cmdlen]
<1>1. /\ cmdline \in [Places -> Nat] /\ cmdlen \in Nat /\ cmdlen < LineLen /\ cursor \in Nat /\ cursor <= cmdlen
      /\ LineLen \in Nat /\ n \in Nat /\ n <= cursor /\ cmdlen \in Places /\ cursor \in 0..cmdlen
      /\ Text \in Seq(Nat) /\ Len(Text) = cmdlen /\ \A k \in 1..cmdlen : Text[k] = CharOf(cmdline[k - 1])
  BY EditFacts
<1>2. /\ cmdline' = [k \in Places |->
           IF k < cursor - n \/ k > cmdlen THEN cmdline[k]
           ELSE IF k <= cmdlen - n THEN cmdline[k + n] ELSE 0]
      /\ cmdlen' = cmdlen - n /\ cursor' = cursor - n
  BY DEF Backspace
<1>3. cmdline' \in [Places -> Nat] /\ cmdlen' \in Places
  BY <1>1, BackspaceIs
<1>4. PICK v, c, L : v = Text' /\ c = cmdline' /\ L = cmdlen'
  OBVIOUS
<1>5. v \in Seq(Nat) /\ Len(v) = L /\ L = cmdlen - n /\ \A k \in 1..L : v[k] = CharOf(c[k - 1])
  BY <1>2, <1>3, <1>4, TextNext
<1> DEFINE p == cursor - n
           t == Text
<1>6. p \in Nat /\ p <= cursor /\ cursor <= Len(t) /\ L = p + (cmdlen - cursor)
  BY <1>1, <1>5
<1>7. ASSUME NEW k \in 1..p PROVE v[k] = t[k]
  <2> DEFINE i == k - 1
  <2>1. i \in Places /\ i < cursor - n /\ k \in 1..L /\ k \in 1..cmdlen
    BY <1>1, <1>6 DEF Places
  <2> HIDE DEF i
  <2>2. c[i] = cmdline[i]
    BY <1>2, <1>4, <2>1
  <2> QED BY <1>1, <1>5, <2>1, <2>2 DEF i
<1>8. ASSUME NEW k \in 1..(cmdlen - cursor) PROVE v[p + k] = t[cursor + k]
  <2> DEFINE i == (p + k) - 1
             j == (cursor + k) - 1
  <2>1. i \in Places /\ ~(i < cursor - n \/ i > cmdlen) /\ i <= cmdlen - n /\ i + n = j
    BY <1>1, <1>6 DEF Places
  <2>2. p + k \in 1..L /\ cursor + k \in 1..cmdlen
    BY <1>1, <1>6
  <2> HIDE DEF i, j
  <2>3. c[i] = cmdline[j]
    BY <1>2, <1>4, <2>1
  <2>4. v[p + k] = CharOf(c[i])
    BY <1>5, <2>2 DEF i
  <2>5. t[cursor + k] = CharOf(cmdline[j])
    BY <1>1, <2>2 DEF j
  <2> QED BY <2>3, <2>4, <2>5
<1>9. Text' = Splice(t, p, <<>>, cursor)
  <2> DEFINE e == <<>>
  <2>1. e \in Seq(Nat) /\ Len(e) = 0
    OBVIOUS
  <2> HIDE DEF e
  <2>2. Len(v) = p + Len(e) + (Len(t) - cursor) /\ \A k \in 1..Len(e) : v[p + k] = e[k]
    BY <1>1, <1>5, <1>6, <2>1
  <2>3. \A k \in 1..p : v[k] = t[k]
    BY <1>7
  <2>4. \A k \in 1..(Len(t) - cursor) : v[(p + Len(e)) + k] = t[cursor + k]
    <3>1. p + Len(e) = p /\ Len(t) = cmdlen
      BY <1>1, <1>6, <2>1
    <3> QED BY <1>8, <3>1
  <2>5. Spliced(v, t, p, e, cursor)
    BY <2>2, <2>3, <2>4 DEF Spliced
  <2>6. p \in Nat /\ t \in Seq(Nat) /\ cursor \in Nat /\ p <= cursor /\ cursor <= Len(t)
    BY <1>1, <1>6
  <2> HIDE DEF p, t
  <2>7. v = Splice(t, p, e, cursor)
    BY <1>5, <2>1, <2>5, <2>6, SpliceOnly
  <2> QED BY <1>4, <2>7 DEF e
<1>10. c[L] = cmdline[cmdlen]
  <2>1. L \in Places /\ ~(L < cursor - n \/ L > cmdlen) /\ L <= cmdlen - n /\ L + n = cmdlen
    BY <1>1, <1>5 DEF Places
  <2> QED BY <1>2, <1>4, <2>1
<1> QED BY <1>2, <1>4, <1>9, <1>10

\* ^K, as the line is read.
LEMMA CutText ==
  ASSUME EditInv, cmdlen' = cursor, cmdline' = cmdline
  PROVE  Text' = SubSeq(Text, 1, cursor)
<1>1. /\ cmdline \in [Places -> Nat] /\ cmdlen \in Nat /\ cmdlen < LineLen /\ cursor \in Nat /\ cursor <= cmdlen
      /\ LineLen \in Nat /\ cursor \in Places
      /\ Text \in Seq(Nat) /\ Len(Text) = cmdlen /\ \A k \in 1..cmdlen : Text[k] = CharOf(cmdline[k - 1])
  BY EditFacts DEF Places
<1>2. PICK v : v = Text'
  OBVIOUS
<1>3. v \in Seq(Nat) /\ Len(v) = cursor /\ \A k \in 1..cursor : v[k] = CharOf(cmdline[k - 1])
  BY <1>1, <1>2, TextNext
<1> DEFINE u == SubSeq(Text, 1, cursor)
<1>4. u \in Seq(Nat) /\ Len(u) = cursor /\ \A k \in 1..cursor : u[k] = Text[k]
  <2> DEFINE t == Text
  <2>1. t \in Seq(Nat) /\ 1 \in Nat /\ 1 <= cursor + 1 /\ cursor <= Len(t) /\ (cursor - 1) + 1 = cursor
        /\ \A k \in 1..cursor : (1 + k) - 1 = k
    BY <1>1
  <2> HIDE DEF t
  <2>2. /\ SubSeq(t, 1, cursor) \in Seq(Nat) /\ Len(SubSeq(t, 1, cursor)) = (cursor - 1) + 1
        /\ \A k \in 1..((cursor - 1) + 1) : SubSeq(t, 1, cursor)[k] = t[(1 + k) - 1]
    BY <1>1, <2>1, SubSeqOf
  <2>3. u = SubSeq(t, 1, cursor)
    BY DEF t
  <2> HIDE DEF u
  <2> QED BY <2>1, <2>2, <2>3 DEF t
<1> HIDE DEF u
<1>5. \A k \in 1..cursor : v[k] = u[k]
  <2>1. \A k \in 1..cursor : k \in 1..cmdlen
    BY <1>1
  <2> QED BY <1>1, <1>3, <1>4, <2>1
<1>6. v = u
  BY <1>3, <1>4, <1>5, SameSeq
<1> QED BY <1>2, <1>6 DEF u

\* A line of the history as it is read.
Read(line) == [m \in 1..Len(line) |-> CharOf(line[m])]

LEMMA ReadType ==
  ASSUME NEW line \in Seq(Nat) PROVE Read(line) \in Seq(Nat) /\ Len(Read(line)) = Len(line)
<1> DEFINE n == Len(line)
<1>1. n \in Nat /\ \A k \in 1..n : CharOf(line[k]) \in Nat
  BY DEF CharOf, Blank
<1>2. Read(line) = [m \in 1..n |-> CharOf(line[m])]
  BY DEF Read
<1> HIDE DEF n
<1>3. Read(line) \in [1..n -> Nat]
  BY <1>1, <1>2
<1>4. Read(line) \in Seq(Nat) /\ Len(Read(line)) = n
  BY <1>1, <1>2, <1>3
<1> QED BY <1>4 DEF n

\* hist_search, as the line is read.
LEMMA RestoredText ==
  ASSUME NEW line \in Seq(Nat), Len(line) <= LineLen - 1, NEW rest \in [Places -> Nat], Restored(line, rest)
  PROVE  Text' = Read(line) /\ cursor' = Len(line) /\ cmdlen' = Len(line) /\ cmdline'[cmdlen'] = 0
<1> DEFINE n == Len(line)
<1>1. n \in Nat /\ LineLen \in Nat /\ n \in Places
  BY LengthsAre DEF Places
<1>2. cmdline' = [k \in Places |-> IF k < n THEN line[k + 1] ELSE IF k = n THEN 0 ELSE rest[k]]
      /\ cmdlen' = n /\ cursor' = n
  BY DEF Restored
<1>3. cmdline' \in [Places -> Nat] /\ cmdlen' \in Places
  BY RestoredType
<1>4. PICK v, c : v = Text' /\ c = cmdline'
  OBVIOUS
<1>5. v \in Seq(Nat) /\ Len(v) = n /\ \A k \in 1..n : v[k] = CharOf(c[k - 1])
  BY <1>2, <1>3, <1>4, TextNext
<1>6. ASSUME NEW k \in 1..n PROVE c[k - 1] = line[k]
  <2> DEFINE i == k - 1
  <2>1. i \in Places /\ i < n /\ i + 1 = k
    BY <1>1 DEF Places
  <2> HIDE DEF i, n
  <2>2. c[i] = line[k]
    BY <1>2, <1>4, <2>1
  <2> QED BY <2>2 DEF i
<1>7. Read(line) \in Seq(Nat) /\ Len(Read(line)) = n /\ \A k \in 1..n : Read(line)[k] = CharOf(line[k])
  BY ReadType DEF Read
<1> DEFINE u == Read(line)
<1>8. u \in Seq(Nat) /\ Len(u) = n /\ \A k \in 1..n : v[k] = u[k]
  BY <1>5, <1>6, <1>7
<1> HIDE DEF u, n
<1>9. v = u
  BY <1>5, <1>8, SameSeq
<1>10. c[n] = 0
  BY <1>1, <1>2, <1>4
<1> QED BY <1>2, <1>4, <1>9, <1>10 DEF u, n

-------------------------------------------------------------------------------
\* The keys of the editor, each as LineEntry has it.

\* The lines of the history as LineEntry knows them.
ReadAll(ls) == [k \in DOMAIN ls |-> Read(ls[k])]
Reads == [k \in 1..Count |-> LET line == LineAt(HeaderAt[k - 1])
                             IN  [m \in 1..Len(line) |-> CharOf(line[m])]]

LEMMA ReadsAre == Reads = ReadAll(Lns) /\ Reads' = ReadAll(Lns')
BY DEF Reads, ReadAll, Lns, Read

LEMMA ReadsSame ==
  ASSUME UNCHANGED <<ring_buf, begin>> PROVE Reads' = Reads
<1>1. Lns' = Lns
  BY LnsSame
<1>2. Reads = ReadAll(Lns) /\ Reads' = ReadAll(Lns')
  BY ReadsAre
<1> QED BY <1>1, <1>2

LEMMA StaysRefines == ASSUME Stays PROVE UNCHANGED Entry!lineVars
<1>1. UNCHANGED <<cmdline, cmdlen, cursor, cur>> /\ Reads' = Reads /\ Text' = Text
  BY ReadsSame DEF Stays, editVars, ringVars, Text
<1> QED BY <1>1 DEF Entry!lineVars, Reads

LEMMA MoveRefines == ASSUME EditInv, MovesCursor PROVE Entry!Move
<1>1. UNCHANGED <<cmdline, cmdlen, cur>> /\ Reads' = Reads /\ Text' = Text
  BY ReadsSame DEF MovesCursor, ringVars, Text
<1>2. Len(Text) = cmdlen /\ cursor' \in {cursor - 1, cursor + 1, 0, cmdlen} \cap 0..cmdlen
  BY EditFacts DEF MovesCursor
<1>3. cursor' \in {cursor - 1, cursor, cursor + 1, 0, Len(Text)} \cap 0..Len(Text)
  BY <1>2
<1> QED BY <1>1, <1>3 DEF Entry!Move, Reads

LEMMA CutRefines == ASSUME EditInv, CharsInv, CutsTail PROVE Entry!CutTail
<1>1. cmdlen' = cursor /\ UNCHANGED <<cmdline, cursor, cur>> /\ Reads' = Reads
  BY ReadsSame DEF CutsTail, ringVars
<1>2. Text' = SubSeq(Text, 1, cursor)
  BY <1>1, CutText
<1>3. Len(Text) = cmdlen /\ cursor \in Nat /\ cursor <= cmdlen /\ cmdlen \in Nat
  BY EditFacts
<1>4. (cmdline'[cmdlen'] # 0) = IF cursor < Len(Text) THEN Text[cursor + 1] # Blank ELSE cmdline[cmdlen] # 0
  <2>1. CASE cursor < cmdlen
    <3>1. Text[cursor + 1] = Blank <=> cmdline[cursor] = 0
      BY <1>3, <2>1, TextBlanks
    <3> QED BY <1>1, <1>3, <2>1, <3>1, Zenon
  <2>2. CASE ~(cursor < cmdlen)
    <3>1. cursor = cmdlen
      BY <1>3, <2>2
    <3> QED BY <1>1, <1>3, <2>2, <3>1, Zenon
  <2> QED BY <2>1, <2>2
<1> QED BY <1>1, <1>2, <1>4, Zenon DEF Entry!CutTail, Reads, Entry!Blank, Blank

LEMMA RuboutRefines == ASSUME EditInv, RubsOut PROVE Entry!Rubout
<1>1. cursor > 0 /\ Backspace(1) /\ UNCHANGED cur /\ Reads' = Reads
  BY ReadsSame DEF RubsOut, ringVars
<1>2. cursor \in Nat /\ cursor <= cmdlen /\ cmdlen \in Nat /\ Text \in Seq(Nat) /\ Len(Text) = cmdlen
  BY EditFacts
<1>3. 1 \in 0..cursor
  BY <1>1, <1>2
<1> DEFINE one == 1
<1>4. one \in 0..cursor /\ Backspace(one) /\ cursor - one \in Nat /\ cursor - one <= cursor /\ cursor <= Len(Text)
  BY <1>1, <1>2, <1>3
<1> HIDE DEF one
<1>5. Text' = Splice(Text, cursor - one, <<>>, cursor) /\ cursor' = cursor - one /\ cmdline'[cmdlen'] = cmdline[cmdlen]
  BY <1>4, BackspaceText
<1>6. Text' = SubSeq(Text, 1, cursor - one) \o SubSeq(Text, cursor + 1, Len(Text))
  <2> DEFINE t == Text
             p == cursor - one
  <2>1. t \in Seq(Nat) /\ p \in Nat /\ cursor \in Nat /\ p <= cursor /\ cursor <= Len(t)
    BY <1>2, <1>4
  <2> HIDE DEF t, p
  <2>2. Splice(t, p, <<>>, cursor) = SubSeq(t, 1, p) \o SubSeq(t, cursor + 1, Len(t))
    BY <2>1, SpliceNothing
  <2> QED BY <1>5, <2>2 DEF t, p
<1>7. Text' = Entry!RemoveAt(Text, cursor)
  BY <1>6 DEF Entry!RemoveAt, one
<1> QED BY <1>1, <1>5, <1>7 DEF Entry!Rubout, Reads, one

LEMMA RuboutAllRefines == ASSUME EditInv, RubsOutAll PROVE Entry!RuboutAll
<1>1. Backspace(cursor) /\ UNCHANGED cur /\ Reads' = Reads
  BY ReadsSame DEF RubsOutAll, ringVars
<1>2. cursor \in Nat /\ cursor <= cmdlen /\ cmdlen \in Nat /\ Text \in Seq(Nat) /\ Len(Text) = cmdlen
  BY EditFacts
<1>3. cursor \in 0..cursor /\ cursor - cursor = 0
  BY <1>2
<1>4. Text' = Splice(Text, cursor - cursor, <<>>, cursor) /\ cursor' = cursor - cursor
      /\ cmdline'[cmdlen'] = cmdline[cmdlen]
  BY <1>1, <1>3, BackspaceText
<1>5. Text' = SubSeq(Text, cursor + 1, Len(Text))
  <2> DEFINE t == Text
             p == cursor - cursor
  <2>1. t \in Seq(Nat) /\ p \in Nat /\ p = 0 /\ cursor \in Nat /\ p <= cursor /\ cursor <= Len(t)
    BY <1>2, <1>3
  <2> HIDE DEF t, p
  <2>2. Splice(t, p, <<>>, cursor) = SubSeq(t, cursor + 1, Len(t))
    BY <2>1, SpliceNothing
  <2> QED BY <1>4, <2>2 DEF t, p
<1> QED BY <1>1, <1>3, <1>4, <1>5 DEF Entry!RuboutAll, Reads

\* A line that microrl_insert_text has changed.
LEMMA InsertRefines ==
  ASSUME EditInv, NEW ch \in Letter \cup {Blank}, Inserts(ch) PROVE Entry!Insert(ch)
<1>1. /\ (ch = Blank => cmdlen # 0) /\ ~(cmdlen + 1 >= LineLen) /\ Becomes(Inserted(Line, <<ch>>))
      /\ UNCHANGED cur /\ Reads' = Reads
  BY ReadsSame DEF Inserts, ringVars
<1>2. /\ cursor \in Nat /\ cursor <= cmdlen /\ cmdlen \in Nat /\ LineLen \in Nat /\ Len(Text) = cmdlen
      /\ LineOK(Line) /\ Line.len = cmdlen /\ Line.at = cursor /\ Line.chars = cmdline
  BY EditFacts DEF EditInv, Line
<1> DEFINE s == <<ch>>
           r == Inserted(Line, s)
<1>3. s \in Seq(Nat) /\ Len(s) = 1 /\ \A k \in 1..Len(s) : s[k] # 0
  <2>1. CASE ch = Blank
    BY <2>1 DEF Blank
  <2>2. CASE ch \in Letter
    <3>1. ch \in 0..255 /\ ch > 32
      BY <2>2, MicrorlAssumption DEF Letter, Blank
    <3> QED BY <3>1
  <2> QED BY <2>1, <2>2
<1> HIDE DEF s
<1>4. Line.len + Len(s) < LineLen
  BY <1>1, <1>2, <1>3
<1>5. /\ TextOf(r.chars, r.len) = Splice(TextOf(Line.chars, Line.len), Line.at, s, Line.at)
      /\ r.len = Line.len + Len(s) /\ r.at = Line.at + Len(s) /\ r.chars[r.len] = 0
  <2> DEFINE l == Line
  <2>1. LineOK(l) /\ l.len + Len(s) < LineLen
    BY <1>2, <1>4
  <2> HIDE DEF l, r
  <2>2. /\ TextOf(Inserted(l, s).chars, Inserted(l, s).len) = Splice(TextOf(l.chars, l.len), l.at, s, l.at)
        /\ Inserted(l, s).len = l.len + Len(s) /\ Inserted(l, s).at = l.at + Len(s)
        /\ Inserted(l, s).chars[Inserted(l, s).len] = 0
    BY <1>3, <2>1, InsertedText
  <2> QED BY <2>2 DEF l, r
<1>6. cmdline' = r.chars /\ cmdlen' = r.len /\ cursor' = r.at
  BY <1>1 DEF Becomes, s
<1> HIDE DEF r
<1>7. Text' = Splice(Text, cursor, s, cursor) /\ cursor' = cursor + Len(s) /\ cmdline'[cmdlen'] = 0
  BY <1>2, <1>5, <1>6, TextIsOf
<1>8. ch = Blank => Text # <<>>
  BY <1>1, <1>2
<1>9. Len(Text) + Len(s) < LineLen
  BY <1>2, <1>4
<1> QED BY <1>1, <1>7, <1>8, <1>9 DEF Entry!Insert, Entry!Inserted, Entry!Fits, Reads, Splice, s, Entry!Blank, Blank

LEMMA RecallRefinesEntry ==
  ASSUME EditInv, RecallsOlder \/ RecallsNewer PROVE Entry!Recall
<1>0. UNCHANGED <<ring_buf, begin, end>> /\ Reads' = Reads
  BY ReadsSame DEF RecallsOlder, RecallsNewer, Up, Down
<1>1. Reads = ReadAll(Lns) /\ Lns \in Seq(Seq(Nat)) /\ Len(Lns) \in Nat /\ cur \in 0..Len(Lns)
  BY ReadsAre, LinesKept
<1>2. DOMAIN Lns = 1..Len(Lns)
  BY <1>1
<1>3. Len(Reads) = Len(Lns) /\ \A k \in 1..Len(Lns) : Reads[k] = Read(Lns[k])
  BY <1>1, <1>2 DEF ReadAll
<1>4. PICK line, rest : /\ line \in Seq(Nat) /\ Len(line) <= LineLen - 1 /\ rest \in [Places -> Nat]
                        /\ Restored(line, rest)
                        /\ \/ RecallsOlder /\ line = OlderLine
                           \/ RecallsNewer /\ line = NewerLine
  <2>1. [k \in Places |-> 0] \in [Places -> Nat]
    OBVIOUS
  <2>2. CASE RecallsOlder
    BY <2>1, <2>2, SearchOf DEF RecallsOlder
  <2>3. CASE RecallsNewer
    BY <2>3, SearchOf, EditFacts DEF RecallsNewer
  <2> QED BY <2>2, <2>3
<1>5. Text' = Read(line) /\ cursor' = Len(line) /\ cmdline'[cmdlen'] = 0
  BY <1>4, RestoredText
<1>6. cursor' = Len(Text')
  BY <1>4, <1>5, ReadType
<1>7. CASE RecallsOlder /\ line = OlderLine
  <2>1. cur < Len(Lns) /\ Len(Lns) - cur \in 1..Len(Lns) /\ OlderLine = Lns[Len(Lns) - cur] /\ cur' = cur + 1
    BY <1>7, LinesKept DEF RecallsOlder, Up
  <2>2. Text' = Reads[Len(Reads) - cur]
    BY <1>3, <1>5, <1>7, <2>1
  <2>3. cur < Len(Reads)
    BY <1>3, <2>1
  <2>4. Entry!History!Older
    BY <1>0, <2>1, <2>2, <2>3 DEF Entry!History!Older, Reads
  <2> QED BY <1>5, <1>6, <2>4 DEF Entry!Recall
<1>8. CASE RecallsNewer /\ line = NewerLine
  <2>1. cur' = IF cur > 0 THEN cur - 1 ELSE 0
    BY <1>8 DEF RecallsNewer, Down
  <2>2. Text' = IF cur > 1 THEN Reads[Len(Reads) - cur + 2] ELSE <<>>
    <3>1. CASE cur > 1
      <4>1. Len(Lns) - cur + 2 \in 1..Len(Lns) /\ NewerLine = Lns[Len(Lns) - cur + 2]
        BY <3>1, LinesKept
      <4> QED BY <1>3, <1>5, <1>8, <3>1, <4>1
    <3>2. CASE ~(cur > 1)
      <4>1. NewerLine = <<>>
        BY <3>2, LinesKept
      <4>2. Read(<<>>) = <<>>
        BY DEF Read
      <4> QED BY <1>5, <1>8, <3>2, <4>1, <4>2
    <3> QED BY <3>1, <3>2
  <2>3. Entry!History!Newer
    BY <1>0, <2>1, <2>2 DEF Entry!History!Newer, Reads
  <2> QED BY <1>5, <1>6, <2>3 DEF Entry!Recall
<1> QED BY <1>4, <1>7, <1>8

-------------------------------------------------------------------------------
\* Enter: which lines are kept depends on their lengths only, and reading them back
\* changes none (ReadAll).

LEMMA ReadAllIs ==
  ASSUME NEW ls \in Seq(Seq(Nat))
  PROVE  /\ ReadAll(ls) \in Seq(Seq(Nat)) /\ Len(ReadAll(ls)) = Len(ls)
         /\ \A k \in 1..Len(ls) : ReadAll(ls)[k] = Read(ls[k]) /\ Len(ReadAll(ls)[k]) = Len(ls[k])
<1> DEFINE n == Len(ls)
           A == Seq(Nat)
<1>1. n \in Nat /\ DOMAIN ls = 1..n /\ \A k \in 1..n : ls[k] \in Seq(Nat)
  OBVIOUS
<1>2. \A k \in 1..n : Read(ls[k]) \in A /\ Len(Read(ls[k])) = Len(ls[k])
  BY <1>1, ReadType
<1> DEFINE u == ReadAll(ls)
<1> HIDE DEF n, A
<1>3. u = [k \in 1..n |-> Read(ls[k])]
  BY <1>1 DEF ReadAll
<1> HIDE DEF u
<1>4. u \in [1..n -> A]
  BY <1>2, <1>3
<1>5. u \in Seq(A) /\ Len(u) = n
  BY <1>1, <1>4
<1>6. \A k \in 1..n : u[k] = Read(ls[k]) /\ Len(u[k]) = Len(ls[k])
  BY <1>2, <1>3
<1> QED BY <1>5, <1>6 DEF u, n, A

LEMMA ReadAllBytes ==
  ASSUME NEW ls \in Seq(Seq(Nat))
  PROVE  Len(FlattenSeq(ReadAll(ls))) = Len(FlattenSeq(ls)) /\ Len(FlattenSeq(ls)) \in Nat
<1> DEFINE u == ReadAll(ls)
<1>1. u \in Seq(Seq(Nat)) /\ Len(ls) = Len(u) /\ \A k \in 1..Len(ls) : Len(ls[k]) = Len(u[k])
  BY ReadAllIs
<1> HIDE DEF u
<1>2. Len(FlattenSeq(ls)) = Len(FlattenSeq(u)) /\ Len(FlattenSeq(ls)) \in Nat
  BY <1>1, FlattenLength
<1> QED BY <1>2 DEF u

LEMMA ReadAllTail ==
  ASSUME NEW ls \in Seq(Seq(Nat)), NEW k \in 0..Len(ls)
  PROVE  /\ SubSeq(ls, k + 1, Len(ls)) \in Seq(Seq(Nat))
         /\ SubSeq(ReadAll(ls), k + 1, Len(ReadAll(ls))) = ReadAll(SubSeq(ls, k + 1, Len(ls)))
<1> DEFINE A == Seq(Nat)
           u == ReadAll(ls)
           n == Len(ls)
           t == SubSeq(ls, k + 1, n)
           v == SubSeq(u, k + 1, n)
           w == ReadAll(t)
<1>1. n \in Nat /\ k \in Nat /\ k <= n /\ ls \in Seq(A) /\ n - k \in Nat
  OBVIOUS
<1>2. u \in Seq(A) /\ Len(u) = n /\ \A j \in 1..n : u[j] = Read(ls[j])
  BY ReadAllIs
<1> HIDE DEF A, u
<1>3. t \in Seq(A) /\ Len(t) = n - k /\ \A j \in 1..(n - k) : t[j] = ls[k + j]
  BY <1>1, SubSeqFrom
<1>4. v \in Seq(A) /\ Len(v) = n - k /\ \A j \in 1..(n - k) : v[j] = u[k + j]
  <2>1. k \in 0..Len(u)
    BY <1>2
  <2>2. /\ SubSeq(u, k + 1, Len(u)) \in Seq(A) /\ Len(SubSeq(u, k + 1, Len(u))) = Len(u) - k
        /\ \A j \in 1..(Len(u) - k) : SubSeq(u, k + 1, Len(u))[j] = u[k + j]
    BY <1>2, <2>1, SubSeqFrom
  <2> QED BY <1>2, <2>2
<1> HIDE DEF t, v, n
<1>5. w \in Seq(A) /\ Len(w) = n - k /\ \A j \in 1..(n - k) : w[j] = Read(t[j])
  <2>1. t \in Seq(Seq(Nat))
    BY <1>3 DEF A
  <2> QED BY <1>3, <2>1, ReadAllIs DEF A
<1> HIDE DEF w
<1>6. \A j \in 1..(n - k) : v[j] = w[j]
  <2> SUFFICES ASSUME NEW j \in 1..(n - k) PROVE v[j] = w[j]
    OBVIOUS
  <2>1. k + j \in 1..n
    BY <1>1
  <2> QED BY <1>2, <1>3, <1>4, <1>5, <2>1
<1>7. v = w
  BY <1>4, <1>5, <1>6, SameSeqs
<1> QED BY <1>2, <1>3, <1>7 DEF A, u, n, t, v, w

LEMMA ReadAllAppend ==
  ASSUME NEW ls \in Seq(Seq(Nat)), NEW line \in Seq(Nat)
  PROVE  ReadAll(Append(ls, line)) = Append(ReadAll(ls), Read(line))
<1> DEFINE A == Seq(Nat)
           n == Len(ls)
           x == Append(ls, line)
           u == ReadAll(x)
           r == ReadAll(ls)
           v == Append(r, Read(line))
<1>1. n \in Nat
  OBVIOUS
<1>2. x \in Seq(Seq(Nat)) /\ Len(x) = n + 1 /\ \A k \in 1..(n + 1) : x[k] = IF k = n + 1 THEN line ELSE ls[k]
  OBVIOUS
<1>3. r \in Seq(A) /\ Len(r) = n /\ \A k \in 1..n : r[k] = Read(ls[k])
  BY ReadAllIs
<1>4. Read(line) \in A
  BY ReadType
<1> HIDE DEF A, r, x, n
<1>5. v \in Seq(A) /\ Len(v) = n + 1 /\ \A k \in 1..(n + 1) : v[k] = IF k = n + 1 THEN Read(line) ELSE r[k]
  BY <1>1, <1>3, <1>4
<1>6. u \in Seq(A) /\ Len(u) = n + 1 /\ \A k \in 1..(n + 1) : u[k] = Read(x[k])
  BY <1>2, ReadAllIs DEF A
<1> HIDE DEF u, v
<1>7. \A k \in 1..(n + 1) : u[k] = v[k]
  <2> SUFFICES ASSUME NEW k \in 1..(n + 1) PROVE u[k] = v[k]
    OBVIOUS
  <2>1. CASE k = n + 1
    BY <1>2, <1>5, <1>6, <2>1
  <2>2. CASE k # n + 1
    <3>1. k \in 1..n
      BY <1>1, <2>2
    <3> QED BY <1>2, <1>3, <1>5, <1>6, <2>2, <3>1
  <2> QED BY <2>1, <2>2
<1>8. u = v
  BY <1>5, <1>6, <1>7, SameSeqs
<1> QED BY <1>8 DEF u, v, x, r

-------------------------------------------------------------------------------
\* The line that Enter stores.

\* The line is what Enter stores, as it is read.
LEMMA TextOfTypein == ASSUME EditInv PROVE Text = Read(Typein) /\ Len(Typein) = cmdlen /\ Typein \in Seq(Nat)
<1>1. /\ cmdline \in [Places -> Nat] /\ cmdlen \in Nat /\ cmdlen < LineLen /\ LineLen \in Nat
  BY EditFacts
<1>2. Typein \in [1..cmdlen -> Nat]
  <2>1. \A k \in 1..cmdlen : cmdline[k - 1] \in Nat
    BY <1>1 DEF Places
  <2> QED BY <2>1 DEF Typein
<1>3. Typein \in Seq(Nat) /\ Len(Typein) = cmdlen
  BY <1>1, <1>2
<1>4. \A k \in 1..cmdlen : Typein[k] = cmdline[k - 1]
  BY DEF Typein
<1>5. Read(Typein) = [k \in 1..cmdlen |-> CharOf(Typein[k])]
  BY <1>3 DEF Read
<1> QED BY <1>3, <1>4, <1>5 DEF Text

LEMMA EnterKeeps ==
  ASSUME EditInv, NewLine, cmdlen > 0 PROVE Entry!History!Entered(Text)
<1>1. Text = Read(Typein) /\ Len(Typein) = cmdlen /\ Typein \in Seq(Nat) /\ cmdlen \in Nat /\ Len(Text) = cmdlen
  BY TextOfTypein, EditFacts
<1>2. RingLen \in Nat /\ cur' = 0
  BY LengthsAre DEF NewLine
<1>3. Lns \in Seq(Seq(Nat)) /\ Len(Lns) \in Nat
  BY LinesKept
<1>4. Reads = ReadAll(Lns) /\ Reads' = ReadAll(Lns')
  BY ReadsAre
<1>5. Len(Reads) = Len(Lns)
  BY <1>3, <1>4, ReadAllIs
<1>6. CASE Len(Typein) > RingLen - 2 /\ Lns' = Lns
  <2>1. Len(Text) + 2 > RingLen
    BY <1>1, <1>2, <1>6
  <2>2. Reads' = Reads
    BY <1>4, <1>6
  <2> QED BY <1>2, <2>1, <2>2 DEF Entry!History!Entered, Reads
<1>7. ASSUME Len(Typein) <= RingLen - 2, NEW k \in 0..Len(Lns),
             Lns' = Append(SubSeq(Lns, k + 1, Len(Lns)), Typein),
             \A j \in 0..k :
                LET ls == SubSeq(Lns, j + 1, Len(Lns))
                IN  /\ Len(FlattenSeq(ls)) + Len(ls) \in Nat
                    /\ Len(FlattenSeq(ls)) + Len(ls) + Len(Typein) + 2 <= RingLen <=> j = k
      PROVE  Entry!History!Entered(Text)
  <2> DEFINE From(i) == SubSeq(Reads, i, Len(Reads))
             Bytes(ls) == Len(FlattenSeq(ls)) + Len(ls)
  <2>1. ASSUME NEW j \in 0..k
        PROVE  /\ Bytes(From(j + 1)) \in Nat
               /\ Bytes(From(j + 1)) + Len(Text) + 2 <= RingLen <=> j = k
    <3> DEFINE ls == SubSeq(Lns, j + 1, Len(Lns))
    <3>1. j \in 0..Len(Lns)
      BY <1>3
    <3>2. ls \in Seq(Seq(Nat)) /\ From(j + 1) = ReadAll(ls)
      BY <1>3, <1>4, <3>1, ReadAllTail
    <3>3. /\ Len(FlattenSeq(ls)) + Len(ls) \in Nat
          /\ Len(FlattenSeq(ls)) + Len(ls) + Len(Typein) + 2 <= RingLen <=> j = k
      BY <1>7
    <3> HIDE DEF ls, From
    <3>4. Len(FlattenSeq(ReadAll(ls))) = Len(FlattenSeq(ls)) /\ Len(ReadAll(ls)) = Len(ls)
      BY <3>2, ReadAllBytes, ReadAllIs
    <3>5. Bytes(From(j + 1)) = Len(FlattenSeq(ls)) + Len(ls)
      BY <3>2, <3>4
    <3> HIDE DEF Bytes
    <3> QED BY <1>1, <3>3, <3>5
  <2>2. Reads' = Append(From(k + 1), Text)
    <3> DEFINE ls == SubSeq(Lns, k + 1, Len(Lns))
    <3>1. ls \in Seq(Seq(Nat)) /\ From(k + 1) = ReadAll(ls)
      BY <1>3, <1>4, ReadAllTail
    <3>2. Reads' = ReadAll(Append(ls, Typein))
      BY <1>4, <1>7
    <3> HIDE DEF ls, From
    <3>3. ReadAll(Append(ls, Typein)) = Append(ReadAll(ls), Read(Typein))
      BY <1>1, <3>1, ReadAllAppend
    <3> QED BY <1>1, <3>1, <3>2, <3>3
  <2>3. /\ Entry!History!From(k + 1) = From(k + 1)
        /\ \A i : Entry!History!From(i) = From(i)
    BY DEF Entry!History!From, Reads
  <2>4. \A ls : Entry!History!Bytes(ls) = Bytes(ls)
    BY DEF Entry!History!Bytes, Entry!History!FlattenSeq, FlattenSeq
  <2> HIDE DEF From, Bytes
  <2> DEFINE K == k + 1
  <2>5. K \in 1..(Len(Reads) + 1) /\ k \in 0..k /\ k \in Nat
    BY <1>3, <1>5
  <2>6. Bytes(From(K)) + Len(Text) + 2 <= RingLen
    BY <2>1, <2>5
  <2>7. ASSUME NEW i \in 1..(K - 1) PROVE Bytes(From(i)) + Len(Text) + 2 > RingLen
    <3> DEFINE j == i - 1
    <3>1. j \in 0..k /\ j # k /\ j + 1 = i
      BY <2>5
    <3> HIDE DEF j
    <3>2. Bytes(From(i)) \in Nat /\ ~(Bytes(From(i)) + Len(Text) + 2 <= RingLen)
      BY <2>1, <3>1
    <3> DEFINE b == Bytes(From(i))
    <3> HIDE DEF b
    <3>3. b \in Nat /\ ~(b + cmdlen + 2 <= RingLen)
      BY <1>1, <3>2 DEF b
    <3>4. b + cmdlen + 2 > RingLen
      BY <1>1, <1>2, <3>3
    <3> QED BY <1>1, <3>4 DEF b
  <2>8. ~(Len(Text) + 2 > RingLen)
    BY <1>1, <1>2, <1>7
  <2> HIDE DEF K
  <2>9. \E i \in 1..(Len(Reads) + 1) :
            /\ Bytes(From(i)) + Len(Text) + 2 <= RingLen
            /\ \A j \in 1..(i - 1) : Bytes(From(j)) + Len(Text) + 2 > RingLen
            /\ Reads' = Append(From(i), Text)
    <3>1. Reads' = Append(From(K), Text)
      BY <2>2 DEF K
    <3> QED BY <2>5, <2>6, <2>7, <3>1
  <2>10. \E i \in 1..(Len(Reads) + 1) :
            /\ Entry!History!Bytes(Entry!History!From(i)) + Len(Text) + 2 <= RingLen
            /\ \A j \in 1..(i - 1) : Entry!History!Bytes(Entry!History!From(j)) + Len(Text) + 2 > RingLen
            /\ Reads' = Append(Entry!History!From(i), Text)
    BY <2>3, <2>4, <2>9
  <2> QED BY <1>2, <2>8, <2>10 DEF Entry!History!Entered, Reads
<1> QED BY <1>6, <1>7, LnsNext

LEMMA EnterRefinesEntry == ASSUME EditInv, NewLine PROVE Entry!Enter
<1>1. cmdlen \in Nat /\ Len(Text) = cmdlen /\ Text \in Seq(Nat)
  BY EditFacts
<1>2. cmdline' = [k \in Places |-> 0] /\ cmdlen' = 0 /\ cursor' = 0 /\ cur' = 0 /\ 0 \in Places
  BY LengthsAre DEF NewLine, Places
<1>3. cmdline'[cmdlen'] = 0
  BY <1>2
<1>4. Text' = <<>>
  <2>1. Text' = TextOf(cmdline', cmdlen')
    BY TextIsOf
  <2> QED BY <1>2, <2>1 DEF TextOf
<1>5. CASE cmdlen > 0
  <2>1. Text # <<>>
    BY <1>1, <1>5
  <2>2. Entry!History!Entered(Text)
    BY <1>5, EnterKeeps
  <2> QED BY <1>2, <1>3, <1>4, <2>1, <2>2 DEF Entry!Enter
<1>6. CASE ~(cmdlen > 0)
  <2>1. Text = <<>>
    BY <1>1, <1>6
  <2>2. Reads' = Reads
    BY <1>6, ReadsSame DEF NewLine
  <2> QED BY <1>2, <1>3, <1>4, <2>1, <2>2 DEF Entry!Enter, Reads
<1> QED BY <1>1, <1>5, <1>6

-------------------------------------------------------------------------------
\* Tab: the word under the cursor, the commands it may begin, what they have in common.

LEMMA PrefixIs ==
  ASSUME NEW p \in Seq(Nat), NEW c \in Seq(Nat), IsPrefix(p, c)
  PROVE  /\ Len(p) \in Nat /\ Len(p) <= Len(c) /\ \A i \in 1..Len(p) : p[i] = c[i]
         /\ p \in Prefixes(c)
<1> DEFINE n == Len(p)
           d == SubSeq(c, 1, n)
<1>1. n \in Nat /\ n <= Len(c) /\ SubSeq(p, 1, n) = d
  BY DEF IsPrefix
<1>2. SubSeq(p, 1, n) = p
  OBVIOUS
<1>3. d = p
  BY <1>1, <1>2
<1>4. \A i \in 1..n : d[i] = c[i]
  <2>1. 1 \in Nat /\ 1 <= n + 1 /\ (n - 1) + 1 = n /\ \A i \in 1..n : (1 + i) - 1 = i
    BY <1>1
  <2>2. \A i \in 1..((n - 1) + 1) : d[i] = c[(1 + i) - 1]
    BY <1>1, <2>1, SubSeqOf
  <2> HIDE DEF d, n
  <2> QED BY <2>1, <2>2
<1>5. n \in 0..Len(c)
  BY <1>1
<1>6. p \in Prefixes(c)
  <2> HIDE DEF n
  <2> QED BY <1>3, <1>5 DEF Prefixes
<1> QED BY <1>1, <1>3, <1>4, <1>6

LEMMA EmptyPrefix ==
  ASSUME NEW c \in Seq(Nat) PROVE IsPrefix(<<>>, c)
<1>1. SubSeq(c, 1, 0) = <<>> /\ SubSeq(<<>>, 1, 0) = <<>> /\ Len(<<>>) = 0 /\ Len(c) \in Nat
  OBVIOUS
<1> QED BY <1>1 DEF IsPrefix

\* What the candidates have in common.
LEMMA CommonIs ==
  ASSUME ComplWorld # {}
  PROVE  /\ Common \in Seq(Nat) /\ Len(Common) \in Nat /\ \A i \in 1..Len(Common) : Common[i] # 0
         /\ \A c \in ComplWorld : c \in Seq(Nat) /\ Len(Common) <= Len(c) /\ \A i \in 1..Len(Common) : Common[i] = c[i]
         /\ \A o \in CommonPrefixes(ComplWorld) : Len(o) <= Len(Common)
<1> DEFINE W == ComplWorld
<1>1. /\ Common \in Seq(Nat) /\ Common \in CommonPrefixes(W)
      /\ \A o \in CommonPrefixes(W) : Len(o) <= Len(Common)
  BY CommonType
<1>2. \A t \in W : IsPrefix(Common, t)
  BY <1>1 DEF CommonPrefixes
<1>3. \A c \in W : c \in Seq(1..255)
  BY MicrorlAssumption DEF ComplWorld
<1> HIDE DEF W
<1>4. ASSUME NEW c \in W
      PROVE  c \in Seq(Nat) /\ Len(Common) <= Len(c) /\ \A i \in 1..Len(Common) : Common[i] = c[i]
  <2>1. c \in Seq(1..255)
    BY <1>3
  <2>2. c \in Seq(Nat)
    BY <2>1, SeqOfNat
  <2> QED BY <1>1, <1>2, <2>2, PrefixIs
<1>5. PICK c \in W : TRUE
  BY DEF W
<1>6. ASSUME NEW i \in 1..Len(Common) PROVE Common[i] # 0
  <2> DEFINE B == 1..255
  <2>1. c \in Seq(B)
    BY <1>3, <1>5
  <2>2. Len(Common) \in Nat /\ Len(c) \in Nat /\ Len(Common) <= Len(c) /\ Common[i] = c[i]
    BY <1>1, <1>4, <1>5
  <2>3. i \in 1..Len(c)
    BY <2>2
  <2> HIDE DEF B
  <2>4. c[i] \in B
    BY <2>1, <2>3
  <2>5. \A b \in B : b # 0
    BY DEF B
  <2> QED BY <2>2, <2>4, <2>5
<1>7. Len(Common) \in Nat
  BY <1>1
<1> QED BY <1>1, <1>4, <1>6, <1>7 DEF W

\* Nothing is common to all the commands.
LEMMA NothingCommon ==
  ASSUME ComplWorld # {}, Bit = <<>> PROVE Common = <<>>
<1>1. PICK c, d \in Commands : c[1] # d[1]
  BY MicrorlAssumption
<1>2. c \in Seq(Nat) /\ d \in Seq(Nat)
  BY MicrorlAssumption, SeqOfNat
<1>3. c \in ComplWorld /\ d \in ComplWorld
  BY <1>2, EmptyPrefix DEF ComplWorld
<1>4. /\ Common \in Seq(Nat) /\ Len(Common) \in Nat
      /\ \A i \in 1..Len(Common) : Common[i] = c[i] /\ Common[i] = d[i]
  BY <1>3, CommonIs
<1>5. ~(1 \in 1..Len(Common))
  BY <1>1, <1>4
<1> QED BY <1>4, <1>5

\* The word that is completed.
LEMMA HereIs ==
  ASSUME EditInv, CharsInv, Bit # <<>>
  PROVE  \E k \in TokenStarts :
           /\ k < cursor /\ Bit = CString(k) /\ Entry!WordHere = Entry!WordAt(Text, k + 1)
           /\ \A j \in cursor..Len(Text) : j \in Nat /\ j > k
<1>0. ~(WordsBefore = {} \/ BehindBlank \/ TooManyBefore)
  BY DEF Bit
<1>1. /\ cmdline \in [Places -> Nat] /\ cmdlen \in Nat /\ cmdlen < LineLen /\ LineLen \in Nat /\ Len(Text) = cmdlen
      /\ cursor \in Nat /\ cursor <= cmdlen
  BY EditFacts
<1>2. \A x \in TokenStarts : x \in Places /\ x \in Nat /\ x < cmdlen /\ cmdline[x] # 0
  BY StartsAgree
<1> DEFINE W == WordsBefore
           k == Max(W)
           H == {x \in 1..cursor : Text[x] # Blank /\ (x > 1 => Text[x - 1] = Blank)}
<1>3. W \in SUBSET (0..LineLen) /\ W # {} /\ W \in SUBSET TokenStarts
  BY <1>0, StartsAgree DEF WordsBefore
<1>4. \A x \in Nat : x \in W <=> x \in TokenStarts /\ x < cursor
  BY DEF WordsBefore
<1>5. Bit = CString(k)
  BY <1>0 DEF Bit
<1>6. \A x \in Nat : x \in H <=> x > 0 /\ x - 1 \in W
  <2> SUFFICES ASSUME NEW x \in Nat PROVE x \in H <=> x > 0 /\ x - 1 \in W
    OBVIOUS
  <2>1. x \in Begins(Text) <=> x > 0 /\ x - 1 \in TokenStarts
    BY StartsAgree
  <2>2. x \in H <=> x \in Begins(Text) /\ x <= cursor
    BY <1>1 DEF Begins
  <2>3. x > 0 => (x - 1 \in Nat /\ (x - 1 < cursor <=> x <= cursor))
    BY <1>1
  <2> HIDE DEF H, W
  <2> QED BY <1>4, <2>1, <2>2, <2>3
<1> HIDE DEF W, k
<1>7. k \in W /\ \A y \in W : k >= y
  BY <1>1, <1>3, MaxExists DEF k
<1>8. k \in TokenStarts /\ k < cursor /\ k \in Nat
  BY <1>2, <1>3, <1>4, <1>7
<1>9. H \in SUBSET (0..LineLen) /\ H \in SUBSET Nat
  BY <1>1
<1> HIDE DEF H
<1>10. k + 1 \in H /\ \A y \in H : k + 1 >= y
  <2>1. k + 1 \in Nat /\ k + 1 > 0 /\ (k + 1) - 1 = k
    BY <1>8
  <2>2. k + 1 \in H
    BY <1>6, <1>7, <2>1
  <2>3. ASSUME NEW y \in H PROVE k + 1 >= y
    <3>1. y \in Nat /\ y > 0 /\ y - 1 \in W
      BY <1>6, <1>9
    <3>2. k >= y - 1
      BY <1>7, <3>1
    <3> QED BY <1>8, <3>1, <3>2
  <2> QED BY <2>2, <2>3
<1>11. Max(H) = k + 1
  <2> DEFINE m == Max(H)
  <2>1. m \in H /\ \A y \in H : m >= y
    BY <1>1, <1>9, <1>10, MaxExists
  <2> HIDE DEF m
  <2>2. m >= k + 1 /\ k + 1 >= m /\ m \in Nat /\ k + 1 \in Nat
    BY <1>9, <1>10, <2>1
  <2> QED BY <2>2 DEF m
<1>12. cursor # 0 /\ Text[cursor] # Blank
  <2> DEFINE i == cursor - 1
  <2>1. i \in Nat /\ i < cmdlen /\ i + 1 = cursor /\ cursor > 0
    BY <1>1, <1>8
  <2>2. cmdline[i] # 0
    BY <1>0, <2>1 DEF BehindBlank
  <2> HIDE DEF i
  <2>3. Text[i + 1] = Blank <=> cmdline[i] = 0
    BY <2>1, TextBlanks
  <2> QED BY <2>1, <2>2, <2>3
<1>13. Entry!WordHere = Entry!WordAt(Text, Max(H))
  BY <1>12 DEF Entry!WordHere, Entry!Blank, Blank, H, Entry!Max, Max
<1>14. \A j \in cursor..Len(Text) : j \in Nat /\ j > k
  BY <1>1, <1>8
<1> QED BY <1>5, <1>8, <1>11, <1>13, <1>14

\* What complet is asked for is the word before the place, or runs on where it is cut.
LEMMA BitIsTakenFor ==
  ASSUME EditInv, CharsInv, Bit # <<>>, ComplWorld # {} PROVE Bit \in Entry!TakenFor(Entry!WordHere)
<1>1. PICK k \in TokenStarts :
           /\ k < cursor /\ Bit = CString(k) /\ Entry!WordHere = Entry!WordAt(Text, k + 1)
           /\ \A j \in cursor..Len(Text) : j \in Nat /\ j > k
  BY HereIs
<1> DEFINE W == Entry!WordHere
           z == WordEnd(k)
<1>2. IsPrefix(W, Bit) /\ (z <= cmdlen => Bit = W)
  BY <1>1, WordGiven
<1>3. /\ cmdline \in [Places -> Nat] /\ cmdlen \in Nat /\ cmdlen < LineLen /\ LineLen \in Nat /\ Len(Text) = cmdlen
      /\ cursor \in Nat /\ cursor <= cmdlen /\ cmdlen \in Places
  BY EditFacts
<1>4. k \in Places /\ k \in Nat /\ k < cmdlen
  BY StartsAgree
<1>5. z \in Nat /\ \A m \in Places : k <= m /\ m < z => cmdline[m] # 0
  BY <1>3, <1>4, WordEndIs
<1> HIDE DEF W, z
<1>6. CASE cmdline[cmdlen] # 0 /\ Entry!WordIsLast
  <2>1. PICK c \in Commands : IsPrefix(Bit, c)
    BY DEF ComplWorld
  <2>2. c \in Seq(Nat)
    BY MicrorlAssumption, SeqOfNat
  <2>3. Bit \in Seq(Nat)
    BY EditFacts, BitType
  <2>4. Bit \in Prefixes(c)
    BY <2>1, <2>2, <2>3, PrefixIs
  <2>5. Bit \in {w \in UNION {Prefixes(d) : d \in Commands} : IsPrefix(W, w)}
    BY <1>2, <2>4
  <2>6. Entry!TakenFor(W) = {w \in UNION {Prefixes(d) : d \in Commands} : IsPrefix(W, w)}
    BY <1>6 DEF Entry!TakenFor, Entry!Prefixes, Prefixes, Entry!IsPrefix, IsPrefix
  <2> QED BY <2>5, <2>6 DEF W
<1>7. CASE cmdline[cmdlen] = 0
  <2>1. z <= cmdlen
    BY <1>3, <1>4, <1>5, <1>7
  <2>2. Entry!TakenFor(W) = {W}
    BY <1>7 DEF Entry!TakenFor
  <2> QED BY <1>2, <2>1, <2>2 DEF W
<1>8. CASE ~Entry!WordIsLast
  <2>1. cursor > 0
    BY <1>1, <1>3, <1>4
  <2>2. PICK j \in cursor..Len(Text) : Text[j] = Blank
    BY <1>8, <2>1 DEF Entry!WordIsLast, Entry!Blank, Blank
  <2> DEFINE i == j - 1
  <2>3. i \in Nat /\ i < cmdlen /\ i + 1 = j /\ k <= i
    BY <1>1, <1>3, <1>4
  <2> HIDE DEF i
  <2>4. i \in Places /\ cmdline[i] = 0
    BY <2>2, <2>3, TextBlanks
  <2>5. z <= cmdlen
    BY <1>3, <1>4, <1>5, <2>3, <2>4
  <2>6. Entry!TakenFor(W) = {W}
    BY <1>8 DEF Entry!TakenFor
  <2> QED BY <1>2, <2>5, <2>6 DEF W
<1> QED BY <1>6, <1>7, <1>8

-------------------------------------------------------------------------------
\* Tab inserts the rest of the word and then a space, each whole or not at all.

\* One call of microrl_insert_text: all of the text, or none.
LEMMA OneInsertion ==
  ASSUME NEW l, LineOK(l), NEW s \in Seq(Nat), \A k \in 1..Len(s) : s[k] # 0
  PROVE  LET r == Inserted(l, s)
             g == IF l.len + Len(s) < LineLen THEN s ELSE <<>>
         IN  /\ LineOK(r) /\ g \in Seq(Nat)
             /\ TextOf(r.chars, r.len) = Splice(TextOf(l.chars, l.len), l.at, g, l.at)
             /\ r.len = l.len + Len(g) /\ r.at = l.at + Len(g)
             /\ r.chars[r.len] \in {l.chars[l.len], 0}
<1> DEFINE r == Inserted(l, s)
           t == TextOf(l.chars, l.len)
<1>1. /\ l.chars \in [Places -> Nat] /\ l.len \in Nat /\ l.len \in Places /\ l.at \in Nat /\ l.at <= l.len
      /\ LineLen \in Nat /\ Len(s) \in Nat
  BY LengthsAre DEF LineOK, Places
<1>2. t \in Seq(Nat) /\ Len(t) = l.len
  BY <1>1, TextType
<1>3. LineOK(r)
  BY InsertedType
<1>4. CASE l.len + Len(s) < LineLen
  <2>1. /\ TextOf(r.chars, r.len) = Splice(t, l.at, s, l.at)
        /\ r.len = l.len + Len(s) /\ r.at = l.at + Len(s) /\ r.chars[r.len] = 0
    BY <1>4, InsertedText
  <2> QED BY <1>3, <1>4, <2>1
<1>5. CASE ~(l.len + Len(s) < LineLen)
  <2>1. r = l
    BY <1>1, <1>5 DEF Inserted
  <2> DEFINE p == l.at
  <2>2. p \in Nat /\ p <= Len(t)
    BY <1>1, <1>2
  <2> HIDE DEF t, p
  <2>3. t = Splice(t, p, <<>>, p)
    BY <1>2, <2>2, SpliceSame
  <2>4. l.len = l.len + Len(<<>>) /\ l.at = l.at + Len(<<>>)
    BY <1>1
  <2>5. <<>> \in Seq(Nat)
    OBVIOUS
  <2> QED BY <1>3, <1>5, <2>1, <2>3, <2>4, <2>5 DEF t, p
<1> QED BY <1>4, <1>5

\* What the calls of microrl_get_complite insert, together.
LEMMA CompletionInserts ==
  ASSUME EditInv, CharsInv, ComplWorld # {}, Bit # <<>>
  PROVE  LET w == Entry!Completion(Bit)
         IN  /\ TextOf(CompletedLine.chars, CompletedLine.len) = Splice(Text, cursor, w, cursor)
             /\ CompletedLine.at = cursor + Len(w)
             /\ CompletedLine.chars[CompletedLine.len] \in {cmdline[cmdlen], 0}
<1> DEFINE one == Cardinality(ComplWorld) = 1
           s == SubSeq(Common, Len(Bit) + 1, Len(Common))
           b == <<Blank>>
           l0 == Line
           g == IF l0.len + Len(s) < LineLen THEN s ELSE <<>>
           l1 == Inserted(l0, s)
           h == IF l1.len + Len(b) < LineLen THEN b ELSE <<>>
           l2 == Inserted(l1, b)
           w == Entry!Completion(Bit)
<1>1. /\ cmdline \in [Places -> Nat] /\ cmdlen \in Places /\ cmdlen \in Nat /\ cmdlen < LineLen /\ LineLen \in Nat
      /\ Text \in Seq(Nat) /\ Len(Text) = cmdlen /\ cursor \in Nat /\ cursor <= cmdlen
      /\ LineOK(l0) /\ l0.chars = cmdline /\ l0.len = cmdlen /\ l0.at = cursor
  BY EditFacts DEF EditInv, Line
<1>2. Bit \in Seq(Nat) /\ Len(Bit) \in Nat /\ Len(Bit) > 0
  <2>1. Bit \in Seq(Nat)
    BY <1>1, BitType
  <2> QED BY <2>1
<1>3. /\ Common \in Seq(Nat) /\ Len(Common) \in Nat /\ (\A i \in 1..Len(Common) : Common[i] # 0)
      /\ \A o \in CommonPrefixes(ComplWorld) : Len(o) <= Len(Common)
  BY CommonIs
<1>4. Common # <<>> /\ Len(Bit) <= Len(Common)
  <2>1. \A c \in ComplWorld : c \in Seq(Nat) /\ IsPrefix(Bit, c)
    BY CommonIs DEF ComplWorld
  <2>2. PICK c \in ComplWorld : TRUE
    OBVIOUS
  <2>3. Bit \in Prefixes(c)
    BY <1>2, <2>1, <2>2, PrefixIs
  <2>4. Bit \in CommonPrefixes(ComplWorld)
    BY <2>1, <2>2, <2>3 DEF CommonPrefixes
  <2>5. Len(Bit) <= Len(Common)
    BY <1>3, <2>4
  <2> QED BY <1>2, <1>3, <2>5
<1>5. s \in Seq(Nat) /\ \A k \in 1..Len(s) : s[k] # 0
  <2> DEFINE n == Len(Bit)
             c == Common
  <2>1. n \in 0..Len(c) /\ c \in Seq(Nat)
    BY <1>2, <1>3, <1>4
  <2> HIDE DEF n, c
  <2>2. /\ SubSeq(c, n + 1, Len(c)) \in Seq(Nat) /\ Len(SubSeq(c, n + 1, Len(c))) = Len(c) - n
        /\ \A j \in 1..(Len(c) - n) : SubSeq(c, n + 1, Len(c))[j] = c[n + j]
    BY <2>1, SubSeqFrom
  <2>3. \A j \in 1..(Len(c) - n) : n + j \in 1..Len(c)
    BY <2>1
  <2>4. s = SubSeq(c, n + 1, Len(c))
    BY DEF c, n
  <2> HIDE DEF s
  <2> QED BY <1>3, <2>2, <2>3, <2>4 DEF c
<1>6. b \in Seq(Nat) /\ Len(b) = 1 /\ \A k \in 1..Len(b) : b[k] # 0
  BY DEF Blank
<1> HIDE DEF s, b, l0
<1>7. /\ LineOK(l1) /\ g \in Seq(Nat)
      /\ TextOf(l1.chars, l1.len) = Splice(TextOf(l0.chars, l0.len), l0.at, g, l0.at)
      /\ l1.len = l0.len + Len(g) /\ l1.at = l0.at + Len(g)
      /\ l1.chars[l1.len] \in {l0.chars[l0.len], 0}
  BY <1>1, <1>5, OneInsertion
<1> HIDE DEF l1
<1>8. /\ LineOK(l2) /\ h \in Seq(Nat)
      /\ TextOf(l2.chars, l2.len) = Splice(TextOf(l1.chars, l1.len), l1.at, h, l1.at)
      /\ l2.len = l1.len + Len(h) /\ l2.at = l1.at + Len(h)
      /\ l2.chars[l2.len] \in {l1.chars[l1.len], 0}
  BY <1>6, <1>7, OneInsertion
<1> HIDE DEF l2
<1>9. Text = TextOf(l0.chars, l0.len)
  BY <1>1, TextIsOf
<1>10. CompletedLine = IF one THEN l2 ELSE l1
  BY <1>4 DEF CompletedLine, l0, l1, l2, s, b
\* Completion, in the same words.
<1>11. w = IF one /\ Len(Text) + Len(g \o b) < LineLen THEN g \o b ELSE g
  <2> DEFINE candidates == {c \in Commands : IsPrefix(Bit, c)}
  <2>1. candidates = ComplWorld /\ candidates # {}
    BY DEF ComplWorld
  <2>2. LongestCommonPrefix(candidates) = Common
    BY <2>1 DEF Common
  <2>3. Len(Text) + Len(s) < LineLen <=> l0.len + Len(s) < LineLen
    BY <1>1
  <2>4. w = LET common == LongestCommonPrefix(candidates)
                rest == SubSeq(common, Len(Bit) + 1, Len(common))
                got == IF Len(Text) + Len(rest) < LineLen THEN rest ELSE <<>>
            IN  IF Bit = <<>> \/ candidates = {} THEN <<>>
                ELSE IF Cardinality(candidates) = 1 /\ Len(Text) + Len(got \o <<Blank>>) < LineLen
                     THEN got \o <<Blank>> ELSE got
    BY DEF Entry!Completion, Entry!Fits, Entry!IsPrefix, IsPrefix, Entry!LongestCommonPrefix, LongestCommonPrefix,
           Entry!CommonPrefixes, CommonPrefixes, Entry!Prefixes, Prefixes, Entry!Cardinality, Cardinality,
           Entry!Blank, Blank
  <2> HIDE DEF candidates, w
  <2>5. w = IF one /\ Len(Text) + Len(g \o <<Blank>>) < LineLen THEN g \o <<Blank>> ELSE g
    BY <2>1, <2>2, <2>3, <2>4 DEF s
  <2> QED BY <2>5 DEF b
<1> HIDE DEF w, g, one
<1>12. l1.len = cmdlen + Len(g) /\ l1.at = cursor + Len(g) /\ Len(g) \in Nat
  BY <1>1, <1>7
<1>13. TextOf(l1.chars, l1.len) = Splice(Text, cursor, g, cursor)
  BY <1>1, <1>7, <1>9
<1>14. l1.chars[l1.len] \in {cmdline[cmdlen], 0}
  BY <1>1, <1>7
<1>15. Len(g \o b) = Len(g) + 1 /\ g \o b \in Seq(Nat)
  <2>1. g \in Seq(Nat) /\ b \in Seq(Nat)
    BY <1>6, <1>7
  <2>2. g \o b \in Seq(Nat) /\ Len(g \o b) = Len(g) + Len(b)
    BY ONLY <2>1, Concat
  <2> QED BY <1>6, <2>2
<1>16. CASE ~one
  <2>1. CompletedLine = l1 /\ w = g
    BY <1>10, <1>11, <1>16
  <2> QED BY <1>12, <1>13, <1>14, <2>1 DEF w
<1>17. CASE one
  <2>0. CompletedLine = l2
    BY <1>10, <1>17
  <2>1. l2.chars[l2.len] \in {cmdline[cmdlen], 0}
    BY <1>8, <1>14
  <2>2. TextOf(l2.chars, l2.len) = Splice(Splice(Text, cursor, g, cursor), cursor + Len(g), h, cursor + Len(g))
    BY <1>8, <1>12, <1>13
  <2>3. Splice(Splice(Text, cursor, g, cursor), cursor + Len(g), h, cursor + Len(g)) = Splice(Text, cursor, g \o h, cursor)
    <3> DEFINE t == Text
    <3>1. t \in Seq(Nat) /\ cursor \in Nat /\ cursor <= Len(t)
      BY <1>1
    <3> HIDE DEF t, h
    <3>2. Splice(Splice(t, cursor, g, cursor), cursor + Len(g), h, cursor + Len(g)) = Splice(t, cursor, g \o h, cursor)
      BY <1>7, <1>8, <3>1, SpliceTwice
    <3> QED BY <3>2 DEF t
  <2>4. w = g \o h
    <3>1. CASE l1.len + Len(b) < LineLen
      <4>1. h = b
        BY <3>1
      <4>2. Len(Text) + Len(g \o b) < LineLen
        BY <1>1, <1>6, <1>12, <1>15, <3>1
      <4> QED BY <1>11, <1>17, <4>1, <4>2
    <3>2. CASE ~(l1.len + Len(b) < LineLen)
      <4>1. h = <<>>
        BY <3>2
      <4>2. ~(Len(Text) + Len(g \o b) < LineLen)
        BY <1>1, <1>6, <1>12, <1>15, <3>2
      <4>3. g \o <<>> = g
        BY <1>7
      <4> QED BY <1>11, <1>17, <4>1, <4>2, <4>3
    <3> QED BY <3>1, <3>2
  <2>5. l2.at = cursor + Len(w)
    <3>1. Len(g \o h) = Len(g) + Len(h) /\ Len(h) \in Nat
      BY <1>7, <1>8, Concat
    <3> HIDE DEF h
    <3> QED BY <1>1, <1>8, <1>12, <2>4, <3>1
  <2> HIDE DEF h
  <2> QED BY <2>0, <2>1, <2>2, <2>3, <2>4, <2>5 DEF w
<1> QED BY <1>16, <1>17

LEMMA CompleteRefines ==
  ASSUME EditInv, CharsInv, Completes PROVE Entry!Complete \/ UNCHANGED Entry!lineVars
<1>1. ComplWorld # {} /\ Becomes(CompletedLine) /\ UNCHANGED cur /\ Reads' = Reads
  BY ReadsSame DEF Completes, ringVars
<1>2. cmdline' = CompletedLine.chars /\ cmdlen' = CompletedLine.len /\ cursor' = CompletedLine.at
  BY <1>1 DEF Becomes
<1>3. CASE Bit = <<>>
  <2>1. CompletedLine = Line
    BY <1>1, <1>3, NothingCommon DEF CompletedLine
  <2>2. UNCHANGED <<cmdline, cmdlen, cursor>>
    BY <1>2, <2>1 DEF Line
  <2>3. Text' = Text
    BY <2>2 DEF Text
  <2> QED BY <1>1, <2>2, <2>3 DEF Entry!lineVars, Reads
<1>4. CASE Bit # <<>>
  <2> DEFINE w == Entry!Completion(Bit)
  <2>1. /\ TextOf(CompletedLine.chars, CompletedLine.len) = Splice(Text, cursor, w, cursor)
        /\ CompletedLine.at = cursor + Len(w)
        /\ CompletedLine.chars[CompletedLine.len] \in {cmdline[cmdlen], 0}
    BY <1>1, <1>4, CompletionInserts
  <2> HIDE DEF w
  <2>2. Text' = Splice(Text, cursor, w, cursor) /\ cursor' = cursor + Len(w) /\ cmdline'[cmdlen'] \in {cmdline[cmdlen], 0}
    BY <1>2, <2>1, TextIsOf
  <2>3. Entry!Inserted(w)
    BY <1>1, <2>2 DEF Entry!Inserted, Splice, Reads
  <2>4. Bit \in Entry!TakenFor(Entry!WordHere)
    BY <1>1, <1>4, BitIsTakenFor
  <2>5. \E word \in Entry!TakenFor(Entry!WordHere) : Entry!Inserted(Entry!Completion(word))
    BY <2>3, <2>4 DEF w
  <2>6. (cmdline'[cmdlen'] # 0) \in {cmdline[cmdlen] # 0, FALSE}
    <3>1. CASE cmdline'[cmdlen'] = 0
      BY <3>1
    <3>2. CASE cmdline'[cmdlen'] = cmdline[cmdlen]
      BY <3>2
    <3> QED BY <2>2, <3>1, <3>2
  <2>7. Entry!Complete
    BY <2>5, <2>6, Zenon DEF Entry!Complete
  <2> QED BY <2>7
<1> QED BY <1>3, <1>4

LEMMA EntryNext ==
  ASSUME EditInv, CharsInv, [Next]_vars PROVE [Entry!LineNext]_Entry!lineVars
<1>1. CASE Stays
  BY <1>1, StaysRefines
<1>2. CASE MovesCursor
  BY <1>2, MoveRefines DEF Entry!LineNext
<1>3. CASE CutsTail
  BY <1>3, CutRefines DEF Entry!LineNext
<1>4. CASE RubsOut
  BY <1>4, RuboutRefines DEF Entry!LineNext
<1>5. CASE RubsOutAll
  BY <1>5, RuboutAllRefines DEF Entry!LineNext
<1>6. ASSUME NEW ch \in Letter \cup {Blank}, Inserts(ch) PROVE Entry!LineNext
  BY <1>6, InsertRefines DEF Entry!LineNext, Entry!Blank, Blank
<1>7. CASE Completes
  BY <1>7, CompleteRefines DEF Entry!LineNext
<1>8. CASE RecallsOlder \/ RecallsNewer
  BY <1>8, RecallRefinesEntry DEF Entry!LineNext
<1>9. CASE NewLine
  BY <1>9, EnterRefinesEntry DEF Entry!LineNext
<1> QED BY <1>1, <1>2, <1>3, <1>4, <1>5, <1>6, <1>7, <1>8, <1>9, StepEdits DEF KeyEdits

LEMMA EntryStarts == ASSUME Init PROVE Entry!LineInit
<1>1. cmdlen = 0 /\ cursor = 0 /\ cmdline = [k \in Places |-> 0] /\ RingInit /\ 0 \in Places
  BY LengthsAre DEF Init, Places
<1>2. Text = <<>>
  BY <1>1 DEF Text
<1>3. cmdline[cmdlen] = 0
  BY <1>1
<1>4. Reads = <<>>
  <2>1. Lns = <<>> /\ Reads = ReadAll(Lns)
    BY <1>1, LinesStart, ReadsAre
  <2> QED BY <2>1 DEF ReadAll
<1>5. cur = 0
  BY <1>1 DEF RingInit
<1> QED BY <1>1, <1>2, <1>3, <1>4, <1>5 DEF Entry!LineInit, Reads

\* Every key does to cmdline, cursor and ring what LineEntry says of line, place and
\* history: the bytes are moved, zeroed, copied and wrapped so that nothing else is seen.
THEOREM EditorIsLineEntry == Spec => EditsAsSpecified
<1>1. EditInv /\ CharsInv /\ [Next]_vars => [Entry!LineNext]_Entry!lineVars
  BY EntryNext
<1>2. Init => Entry!LineInit
  BY EntryStarts
<1> QED BY <1>1, <1>2, CharsHold, PTL DEF Spec, EditsAsSpecified, Entry!LineSpec
=============================================================================

-------------------------------- MODULE Microrl --------------------------------
(***************************************************************************)
(* The line editor of console_mod/microrl.c, one action per key, with its  *)
(* history (HistoryRing), its completion and the terminal it writes to.    *)
(* A blank is kept as the byte 0, so that every word of cmdline is a C     *)
(* string already when the line is entered.  The terminal is a row as long *)
(* as need be, and a place in it.                                          *)
(***************************************************************************)
EXTENDS HistoryRing, SequencesExt

CONSTANTS
  LineLen,       \* _COMMAND_LINE_LEN
  TokenNmb,      \* _COMMAND_TOKEN_NMB
  Commands,      \* the names in masCMD
  PlainKeys,     \* the keys that are pressed outside an escape sequence
  SequenceKeys   \* and the bytes that follow ESC

KEY_SOH == 1
KEY_STX == 2
KEY_ENQ == 5
KEY_ACK == 6
KEY_BS  == 8
KEY_HT  == 9
KEY_LF  == 10
KEY_VT  == 11
KEY_CR  == 13
KEY_SO  == 14
KEY_DLE == 16
KEY_DC2 == 18
KEY_NAK == 21
KEY_ESC == 27
KEY_DEL == 127

Blank == 32
Bracket == 91        \* '['
ArrowUp == 65        \* 'A' to 'D' behind it
ArrowDown == 66
ArrowRight == 67
ArrowLeft == 68
Home == 55           \* '7' and '8' behind it, and '~' behind them
End == 56
Tilde == 126

\* Every key that IS_CONTROL_CHAR and the switch leave to be inserted.
Letter == {ch \in PlainKeys : ch > Blank /\ ch # KEY_DEL}

ASSUME MicrorlAssumption ==
  /\ LineLen \in Nat /\ TokenNmb \in Nat \ {0}
  /\ RingLen <= LineLen + 2        \* a line of the history fits cmdline
  /\ PlainKeys \cup SequenceKeys \subseteq 0..255
  /\ \A c \in Commands : c \in Seq(1..255) /\ c # <<>>   \* C strings
  /\ \E c, d \in Commands : c[1] # d[1]   \* no beginning is common to all of them

VARIABLES
  cmdline, cmdlen, cursor,
  escape, escape_seq,
  argv,              \* what execute was just called with, <<>> if it was not
  screen,            \* the terminal: its row, and the column of its cursor
  prompted           \* print_prompt was called before

editVars == <<cmdline, cmdlen, cursor>>
escVars == <<escape, escape_seq>>
vars == <<ringVars, editVars, escVars, argv, screen, prompted>>

Places == 0..(LineLen - 1)

TypeOK ==
  /\ RingTypeOK
  /\ cmdline \in [Places -> Nat]
  /\ cmdlen \in Places /\ cursor \in 0..cmdlen
  /\ escape \in BOOLEAN /\ escape_seq \in {"none", "bracket", "home", "end"}
  /\ argv \in Seq(Seq(Nat))
  /\ screen.row \in Seq(Nat) /\ screen.col \in Nat /\ prompted \in BOOLEAN

-------------------------------------------------------------------------------
\* The terminal: text printed at the place, ESC [ K, and moves, which stop at the
\* left margin.
Fresh == [row |-> <<>>, col |-> 0]

Typed(scr, s) ==
  [row |-> [k \in 1..Max({scr.col + Len(s), Len(scr.row)}) |->
              IF k \in (scr.col + 1)..(scr.col + Len(s)) THEN s[k - scr.col]
              ELSE IF k <= Len(scr.row) THEN scr.row[k] ELSE Blank],
   col |-> scr.col + Len(s)]
ClearedRight(scr) == [scr EXCEPT !.row = SubSeq(@, 1, Min({scr.col, Len(@)}))]
Moved(scr, n) == [scr EXCEPT !.col = Max({@ + n, 0})]

\* prompt_default without its colours, "S > ", on the row that terminal_newline or
\* the output of a command has begun; _PROMPT_LEN is told apart from it.
PROMPT_LEN == 4
PrintPrompt == Typed(Fresh, <<83, 32, 62, 32>>)

TerminalBackspace(scr) == Moved(Typed(Moved(scr, -1), <<Blank>>), -1)
ResetCursor(scr) == Moved(Moved(scr, -(LineLen + PROMPT_LEN + 2)), PROMPT_LEN)

\* terminal_print_line of the text, from the place pos on; at is the cursor.
PrintLineUncleared(scr, text, pos, at) ==
  Moved(ResetCursor(Typed(scr, SubSeq(text, pos + 1, Len(text)))), at)
PrintLine(scr, text, pos, at) ==
  Moved(ResetCursor(Typed(ClearedRight(scr), SubSeq(text, pos + 1, Len(text)))), at)

\* A line as it is read: its first cmdlen characters, blanks for zeroes.
CharOf(c) == IF c = 0 THEN Blank ELSE c
Text == [k \in 1..cmdlen |-> CharOf(cmdline[k - 1])]

-------------------------------------------------------------------------------
\* microrl_init, of a microrl_t that is 0 before; it prints no prompt.
Init ==
  /\ RingInit
  /\ cmdline = [k \in Places |-> 0] /\ cmdlen = 0 /\ cursor = 0
  /\ escape = FALSE /\ escape_seq = "none"
  /\ argv = <<>>
  /\ screen = Fresh /\ prompted = FALSE

\* microrl_insert_text: all of the text, or none.
Line == [chars |-> cmdline, len |-> cmdlen, at |-> cursor]

InsertedOver(l, s) ==
  IF l.len + Len(s) >= LineLen THEN l
  ELSE [chars |-> [k \in Places |->
          IF k \in l.at..(l.at + Len(s) - 1)
            THEN (IF s[k - l.at + 1] = Blank THEN 0 ELSE s[k - l.at + 1])
          ELSE IF k = l.len + Len(s) THEN 0 ELSE l.chars[k]],
        len |-> l.len + Len(s), at |-> l.at + Len(s)]
Inserted(l, s) ==
  IF l.len + Len(s) >= LineLen THEN l
  ELSE [chars |-> [k \in Places |->
          IF k \in l.at..(l.at + Len(s) - 1)
            THEN (IF s[k - l.at + 1] = Blank THEN 0 ELSE s[k - l.at + 1])
          ELSE IF k \in (l.at + Len(s))..(l.len + Len(s) - 1) THEN l.chars[k - Len(s)]
          ELSE IF k = l.len + Len(s) THEN 0 ELSE l.chars[k]],
        len |-> l.len + Len(s), at |-> l.at + Len(s)]

Becomes(l) == cmdline' = l.chars /\ cmdlen' = l.len /\ cursor' = l.at

\* microrl_backspace, n times.
Backspace(n) ==
  /\ cmdline' = [k \in Places |->
       IF k < cursor - n \/ k > cmdlen THEN cmdline[k]
       ELSE IF k <= cmdlen - n THEN cmdline[k + n] ELSE 0]
  /\ cmdlen' = cmdlen - n /\ cursor' = cursor - n

\* hist_search: the restored line replaces cmdline, whose rest only Up clears.
Restored(line, rest) ==
  /\ cmdline' = [k \in Places |-> IF k < Len(line) THEN line[k + 1]
                                  ELSE IF k = Len(line) THEN 0 ELSE rest[k]]
  /\ cmdlen' = Len(line) /\ cursor' = Len(line)

\* The terminal after n calls of terminal_backspace
TerminalErased[n \in Nat] == IF n = 0 THEN screen ELSE TerminalBackspace(TerminalErased[n - 1])

\* hist_search prints the line it found.
SearchShows == screen' = PrintLine(ResetCursor(screen), Text', 0, cursor')

HistUp == \/ HasOlder /\ Up /\ Restored(OlderLine, [k \in Places |-> 0]) /\ SearchShows
          \/ ~HasOlder /\ UNCHANGED <<ringVars, editVars, screen>>
HistDown == Down /\ Restored(NewerLine, cmdline) /\ SearchShows

\* Cursor movements, and ^A or Home.
CursorToAnywhere(n) == cursor' = n /\ UNCHANGED <<cmdline, cmdlen, ringVars, screen>>
CursorTo(n) == /\ IF n \in 0..cmdlen
                  THEN cursor' = n /\ screen' = Moved(screen, n - cursor)
                  ELSE UNCHANGED <<cursor, screen>>
               /\ UNCHANGED <<cmdline, cmdlen, ringVars>>
CursorHome == /\ cursor' = 0 /\ screen' = ResetCursor(screen)
              /\ UNCHANGED <<cmdline, cmdlen, ringVars>>

\* split: where the words begin, within the line; the C string at a place, which the
\* line does not limit; and where the wth word begins.
TokenStartsAnywhere == {k \in 0..(cmdlen - 1) : cmdline[k] # 0}
TokenStarts == {k \in 0..(cmdlen - 1) : cmdline[k] # 0 /\ (k > 0 => cmdline[k - 1] = 0)}

CString(k) ==
  LET z == Min({m \in k..(LineLen - 1) : cmdline[m] = 0} \union {LineLen})
  IN  [m \in 1..(z - k) |-> cmdline[k + m - 1]]

TokenStart(w) == CHOOSE k \in TokenStarts : Cardinality({j \in TokenStarts : j < k}) = w - 1

Tokens == [w \in 1..Cardinality(TokenStarts) |-> CString(TokenStart(w))]

-------------------------------------------------------------------------------
\* microrl_get_complite.  What complet is asked for is the word that begins before
\* the cursor, to its end, wherever that is; nothing behind a blank, at the
\* beginning of the line (where cmdline[-1] makes no difference) or behind too
\* many words.
WordsBefore == {k \in TokenStarts : k < cursor}
BehindBlank == cursor > 0 /\ cmdline[cursor - 1] = 0
TooManyBefore == Cardinality(WordsBefore) >= TokenNmb
Bit == IF WordsBefore = {} \/ BehindBlank \/ TooManyBefore THEN <<>>
       ELSE CString(Max(WordsBefore))

\* complet and common_len
ComplWorld == {c \in Commands : IsPrefix(Bit, c)}
Common == LongestCommonPrefix(ComplWorld)

\* A blank is put behind the only candidate.  With nothing in common nothing is inserted.
CompletedLine ==
  IF Common = <<>> THEN Line
  ELSE LET l == Inserted(Line, SubSeq(Common, Len(Bit) + 1, Len(Common)))
       IN  IF Cardinality(ComplWorld) = 1 THEN Inserted(l, <<Blank>>) ELSE l

\* Behind a blank and too many words the code writes tkn_arr[-1]: what follows is not
\* defined, and the key is not pressed then.
Complete ==
  /\ ~(TooManyBefore /\ BehindBlank)
  /\ \/ ComplWorld = {} /\ UNCHANGED <<editVars, screen, prompted>>
     \/ /\ ComplWorld # {}
        /\ Becomes(CompletedLine)
        /\ LET one == Cardinality(ComplWorld) = 1
           IN  /\ screen' = PrintLine(ResetCursor(IF one THEN screen ELSE PrintPrompt),
                                      Text', 0, cursor')
               /\ prompted' = (prompted \/ ~one)

\* new_line_handler; what it and every command print ends at the beginning of a row.
NewLine ==
  /\ IF cmdlen > 0 THEN HistSaveLine([k \in 1..cmdlen |-> cmdline[k - 1]])
                   ELSE UNCHANGED <<ring_buf, begin, end>>
  /\ cur' = 0
  /\ argv' = IF Cardinality(TokenStarts) < TokenNmb THEN Tokens ELSE <<>>
  /\ cmdline' = [k \in Places |-> 0] /\ cmdlen' = 0 /\ cursor' = 0
  /\ screen' = PrintPrompt /\ prompted' = TRUE

-------------------------------------------------------------------------------
\* microrl_insert_char outside an escape sequence.
EditKey(ch) ==
  \/ ch \in {KEY_LF, KEY_ESC} /\ UNCHANGED <<ringVars, editVars, screen>>
  \/ /\ ch = KEY_NAK
     /\ Backspace(cursor)
     /\ screen' = PrintLine(TerminalErased[cursor], Text', 0, cursor')
     /\ UNCHANGED ringVars
  \/ /\ ch = KEY_VT
     /\ cmdlen' = cursor /\ UNCHANGED <<cmdline, cursor, ringVars>>
     /\ screen' = ClearedRight(screen)
  \/ ch = KEY_ENQ /\ CursorTo(cmdlen)
  \/ ch = KEY_SOH /\ CursorHome
  \/ ch = KEY_ACK /\ CursorTo(cursor + 1)
  \/ ch = KEY_STX /\ CursorTo(cursor - 1)
  \/ ch = KEY_DLE /\ HistUp
  \/ ch = KEY_SO /\ HistDown
  \/ /\ ch \in {KEY_DEL, KEY_BS}
     /\ IF cursor > 0
        THEN /\ Backspace(1)
             /\ screen' = PrintLine(TerminalBackspace(screen), Text', cursor', cursor')
        ELSE /\ screen' = PrintLine(screen, Text, cursor, cursor)
             /\ UNCHANGED editVars
     /\ UNCHANGED ringVars
  \/ /\ ch \in Letter \union {Blank}
     /\ IF (ch = Blank /\ cmdlen = 0) \/ cmdlen + 1 >= LineLen
        THEN UNCHANGED <<editVars, screen>>
        ELSE /\ Becomes(Inserted(Line, <<ch>>))
             /\ screen' = PrintLine(screen, Text', cursor' - 1, cursor')
     /\ UNCHANGED ringVars

PlainKey(ch) ==
  /\ ~escape
  /\ escape' = (ch = KEY_ESC) /\ UNCHANGED escape_seq
  /\ \/ ch = KEY_CR /\ NewLine
     \/ /\ ch # KEY_CR
        /\ argv' = <<>>
        /\ \/ ch = KEY_HT /\ Complete /\ UNCHANGED ringVars
           \/ /\ ch = KEY_DC2
              /\ screen' = PrintLine(ResetCursor(PrintPrompt), Text, 0, cursor)
              /\ prompted' = TRUE
              /\ UNCHANGED <<ringVars, editVars>>
           \/ EditKey(ch) /\ UNCHANGED prompted

\* escape_process: ESC [ and a letter, or 7~ or 8~.
EscapeKey(ch) ==
  /\ escape
  /\ argv' = <<>> /\ UNCHANGED prompted
  /\ \/ /\ ch = Bracket
        /\ escape_seq' = "bracket" /\ UNCHANGED <<escape, ringVars, editVars, screen>>
     \/ /\ escape_seq = "bracket" /\ ch \in {Home, End}
        /\ escape_seq' = IF ch = Home THEN "home" ELSE "end"
        /\ UNCHANGED <<escape, ringVars, editVars, screen>>
     \/ /\ ch # Bracket /\ ~(escape_seq = "bracket" /\ ch \in {Home, End})
        /\ escape' = FALSE /\ UNCHANGED escape_seq
        /\ \/ escape_seq = "bracket" /\ ch = ArrowUp /\ HistUp
           \/ escape_seq = "bracket" /\ ch = ArrowDown /\ HistDown
           \/ escape_seq = "bracket" /\ ch = ArrowRight /\ CursorTo(cursor + 1)
           \/ escape_seq = "bracket" /\ ch = ArrowLeft /\ CursorTo(cursor - 1)
           \/ escape_seq = "home" /\ ch = Tilde /\ CursorHome
           \/ escape_seq = "end" /\ ch = Tilde /\ CursorTo(cmdlen)
           \/ /\ escape_seq = "bracket" => ch \notin {ArrowUp, ArrowDown, ArrowRight, ArrowLeft}
              /\ escape_seq \in {"home", "end"} => ch # Tilde
              /\ UNCHANGED <<ringVars, editVars, screen>>

Next == \/ \E ch \in PlainKeys : PlainKey(ch)
        \/ \E ch \in SequenceKeys : EscapeKey(ch)

Spec == Init /\ [][Next]_vars

-------------------------------------------------------------------------------
\* The editor in the words of LineEntry, the lines of the history likewise.
Entry == INSTANCE LineEntry WITH
           text  <- Text,
           pos   <- cursor,
           cut   <- cmdline[cmdlen] # 0,
           lines <- [k \in 1..Count |-> LET line == LineAt(HeaderAt[k - 1])
                                          IN  [m \in 1..Len(line) |-> CharOf(line[m])]]

\* Every key does to cmdline, cursor and history what it does to the line, however
\* the line came to be: shifted, shortened, cut, completed, restored from the ring.
EditsAsSpecified == Entry!LineSpec

\* From the first prompt on the terminal shows the prompt and the line, nothing else,
\* and its cursor stands where the next character goes: after every key, though a key
\* prints no more than what it changed, from where the cursor happens to be.
TerminalShowsLine ==
  prompted => /\ screen.row = PrintPrompt.row \o Text
              /\ screen.col = Len(PrintPrompt.row) + cursor

\* config.h: "Token is word separate by white space", and a line of more than TokenNmb of
\* them is not executed.  A line of fewer words is executed when it is entered.  A
\* command is called with as many words as the line has, each the word of the line,
\* but that the last one runs on when it ends where ^K has cut the line.  What becomes
\* of a line of just TokenNmb words is left to the next property.
EnteredLineIsExecuted ==
  [][ LET words == Entry!Words(Text)
      IN  /\ PlainKey(KEY_CR) /\ Len(words) \in 1..(TokenNmb - 1) => argv' # <<>>
          /\ argv' # <<>> =>
               /\ Len(argv') = Len(words) /\ Len(words) <= TokenNmb
               /\ \A w \in DOMAIN words : IsPrefix(words[w], argv'[w])
               /\ \A w \in DOMAIN words :
                    w < Len(words) \/ cmdline[cmdlen] = 0 => argv'[w] = words[w] ]_vars

\* config.h: "if number of token typed in command line exceed this value, then prints
\* message about it and command line not to be parced and 'execute' callback will not
\* calls".  A line of TokenNmb words does not exceed it: it is executed.
AllowedLineIsExecuted ==
  [][ PlainKey(KEY_CR) /\ Len(Entry!Words(Text)) \in 1..TokenNmb => argv' # <<>> ]_vars
=============================================================================

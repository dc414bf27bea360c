------------------------------ MODULE SlipBytes ------------------------------
(***************************************************************************)
(* The bytes of a SLIP line (lwip/netif/slipif.c): the four values with a  *)
(* meaning of their own, unescaping, and the framing of slipif_output.     *)
(***************************************************************************)
EXTENDS Naturals, Sequences, SequencesExt

CONSTANTS
  Plain,      \* byte values that SLIP sends as they are
  Origin      \* ghost tags of bytes: which frame a byte was sent in

SLIP_END     == "END"
SLIP_ESC     == "ESC"
SLIP_ESC_END == "ESC_END"
SLIP_ESC_ESC == "ESC_ESC"

Char == {SLIP_END, SLIP_ESC, SLIP_ESC_END, SLIP_ESC_ESC} \union Plain
Byte == [ch : Char, of : Origin]

\* The data byte meant by the byte b that follows an ESC: other bytes than the
\* two codes are left alone ("although that would be a protocol error").
Unescape(b) == CASE b.ch = SLIP_ESC_END -> [b EXCEPT !.ch = SLIP_END]
                 [] b.ch = SLIP_ESC_ESC -> [b EXCEPT !.ch = SLIP_ESC]
                 [] OTHER -> b

\* What slipif_output sends for one data byte, and for a packet.
EscapeByte(c) == CASE c = SLIP_END -> <<SLIP_ESC, SLIP_ESC_END>>
                   [] c = SLIP_ESC -> <<SLIP_ESC, SLIP_ESC_ESC>>
                   [] OTHER -> <<c>>

EncodeNoOpening(chars) ==
  FlattenSeq([k \in DOMAIN chars |-> EscapeByte(chars[k])]) \o <<SLIP_END>>
EncodeNoClosing(chars) ==
  <<SLIP_END>> \o FlattenSeq([k \in DOMAIN chars |-> EscapeByte(chars[k])])
Encode(chars) ==
  <<SLIP_END>> \o FlattenSeq([k \in DOMAIN chars |-> EscapeByte(chars[k])])
               \o <<SLIP_END>>
=============================================================================

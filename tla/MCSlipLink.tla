----------------------------- MODULE MCSlipLink -----------------------------
(* Values for checking SlipLink: payloads that are one escape, and that     *)
(* have data before one, one byte more than MaxSize; pbuf shapes.           *)
EXTENDS SlipLink

PayloadChoices == {<<SLIP_END>>, <<"x", "x", "x", SLIP_ESC>>}

\* A long and a short pbuf: with PBUF_POOL_BUFSIZE 1664 and MEM_ALIGNMENT 4 the
\* code asks for 1650 bytes, of which 1648 fit the first pbuf.
LongShort == <<[off |-> 0, len |-> 2], [off |-> 2, len |-> 1]>>
=============================================================================

----------------------------- MODULE SlipFraming -----------------------------
(***************************************************************************)
(* What the receive side of a SLIP interface promises, with no buffers:    *)
(* unescaped bytes are collected into the packet under way, and an END     *)
(* hands a non-empty packet over.  lwip/netif/slipif.c keeps the packet in *)
(* a chain of pbufs instead; module SlipIf shows that the chain always     *)
(* spells the bytes collected here.                                        *)
(***************************************************************************)
EXTENDS SlipBytes

CONSTANT MaxSize   \* SLIP_MAX_SIZE

VARIABLES
  escaped,    \* the previous byte was an ESC
  packet,     \* the data bytes collected so far
  memory,     \* a data byte arriving now would find a buffer
  out         \* the packet handed over last

vars == <<escaped, packet, out>>

Init == escaped = FALSE /\ packet = <<>> /\ out = <<>>

Escape == /\ ~escaped
          /\ escaped' = TRUE
          /\ UNCHANGED <<packet, out>>

\* The network layer takes the packet, or refuses it.
Deliver == /\ ~escaped /\ packet # <<>>
           /\ out' \in {packet, out}
           /\ packet' = <<>>
           /\ UNCHANGED escaped

\* The file gives MaxSize as the largest packet and its test of the limit keeps one
\* byte more: what becomes of the first byte beyond the limit is left open, and no
\* further one is kept.
Collect == /\ memory /\ Len(packet) <= MaxSize
           /\ \E b \in Byte :
                /\ ~escaped => b.ch \notin {SLIP_END, SLIP_ESC}
                /\ packet' = Append(packet, IF escaped THEN Unescape(b) ELSE b)
           /\ escaped' = FALSE
           /\ UNCHANGED out

\* A data byte is lost for want of memory or for the size of its packet only.
Drop == /\ ~memory \/ Len(packet) >= MaxSize
        /\ escaped' = FALSE
        /\ UNCHANGED <<packet, out>>

Next == Escape \/ Deliver \/ Collect \/ Drop

Spec == Init /\ [][Next]_vars
=============================================================================

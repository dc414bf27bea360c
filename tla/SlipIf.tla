-------------------------------- MODULE SlipIf --------------------------------
(***************************************************************************)
(* The receive side of lwip/netif/slipif.c: slipif_rxbyte assembles a      *)
(* packet in a chain of pbufs, slipif_rxbyte_input hands it to tcpip_input *)
(* which posts it to the mailbox of the tcpip thread or refuses it.  The   *)
(* pbufs come from one pool that the packets in the mailbox and the upper  *)
(* layers also draw on.                                                    *)
(*                                                                         *)
(* A chain is its geometry, q, and its contents, mem: the payloads of its  *)
(* pbufs laid end to end.  off says where in mem the payload of a pbuf     *)
(* begins; the code has no such field, it reaches a byte as (p, i).        *)
(***************************************************************************)
EXTENDS SlipBytes, Integers

CONSTANTS
  MaxSize,       \* SLIP_MAX_SIZE
  Alloc,         \* the chain one pbuf_alloc(PBUF_LINK, .., PBUF_POOL) returns
  PoolSize,      \* pbufs in the pool
  MboxSize       \* TCPIP_MBOX_SIZE

Pbuf == [off : Nat, len : Nat \ {0}]

\* The pbufs of a chain follow one another without a gap.  (The last conjunct
\* follows from the others by induction, which the proofs do without.)
Contiguous(chain) ==
  /\ chain # <<>> => chain[1].off = 0
  /\ \A k \in 1..(Len(chain) - 1) : chain[k + 1].off = chain[k].off + chain[k].len
  /\ \A j, k \in 1..Len(chain) : j < k => chain[j].off + chain[j].len <= chain[k].off

\* Bytes that fit a chain.
Room(chain) == IF chain = <<>> THEN 0
               ELSE chain[Len(chain)].off + chain[Len(chain)].len

ASSUME ConstantsAssumption ==
  /\ MaxSize \in Nat /\ PoolSize \in Nat /\ MboxSize \in Nat
  /\ Alloc \in Seq(Pbuf) /\ Alloc # <<>> /\ Contiguous(Alloc)

NORMAL == "SLIP_RECV_NORMAL"
ESCAPE == "SLIP_RECV_ESCAPE"

\* What a byte of a pbuf holds before it is written.
Junk == [ch |-> "junk", of |-> "nobody"]
ASSUME JunkAssumption == "junk" \notin Plain

Cell == Byte \union {Junk}

VARIABLES
  state,     \* priv->state
  q,         \* priv->q, the pbuf chain of the packet; <<>> when NULL
  mem,       \* its contents
  p,         \* priv->p, the index in q of the current pbuf; 0 when NULL
  i,         \* priv->i
  recved,    \* priv->recved
  pool,      \* pbufs free in the pool
  mbox,      \* tcpip_mbox: how many pbufs each message holds (API messages: 0)
  held,      \* pbufs the network stack and the applications hold
  out        \* the payload of the packet posted last

rxVars == <<state, q, mem, p, i, recved>>
vars == <<state, q, mem, p, i, recved, pool, mbox, held, out>>

TypeOK ==
  /\ state \in {NORMAL, ESCAPE}
  /\ q \in Seq(Pbuf)
  /\ mem \in Seq(Cell)
  /\ p \in 0..Len(q)
  /\ i \in Nat /\ recved \in Nat /\ pool \in Nat /\ held \in Nat
  /\ mbox \in Seq(Nat)
  /\ out \in Seq(Cell)

\* slipif_init
Init == /\ state = NORMAL /\ q = <<>> /\ mem = <<>> /\ p = 0 /\ i = 0 /\ recved = 0
        /\ pool = PoolSize /\ mbox = <<>> /\ held = 0
        /\ out = <<>>

-------------------------------------------------------------------------------
\* pbuf_alloc and pbuf_cat: one more allocation behind the chain, not yet written.
Extended(chain) ==
  chain \o [k \in 1..Len(Alloc) |-> [Alloc[k] EXCEPT !.off = @ + Room(chain)]]

Unwritten == [k \in 1..Room(Alloc) |-> Junk]

\* pbuf_realloc: of a chain trimmed to n bytes the pbufs up to the one that holds
\* the n-th stay, the others are freed.
Kept(chain, n) == CHOOSE k \in 1..Len(chain) :
                    chain[k].off < n /\ n <= chain[k].off + chain[k].len

\* tcpip_inpkt posts without waiting; a refused packet, of n pbufs, is freed by
\* slipif_rxbyte_input.  freed pbufs went back to the pool on the way.  (A packet for
\* which there is no message is refused in the same way; the pool of the messages is
\* not modelled.)
InputLeaks(n, bytes, freed) ==
  /\ pool' = pool + freed
  /\ IF Len(mbox) < MboxSize THEN mbox' = Append(mbox, n) /\ out' = bytes
                             ELSE UNCHANGED <<mbox, out>>
Input(n, bytes, freed) ==
  \/ /\ Len(mbox) < MboxSize
     /\ mbox' = Append(mbox, n)
     /\ pool' = pool + freed
     /\ out' = bytes
  \/ /\ Len(mbox) >= MboxSize
     /\ pool' = pool + freed + n
     /\ UNCHANGED <<mbox, out>>

\* SLIP_END in the normal state; nothing came since the last one, or a packet did.
RxIdleEnd(b) ==
  /\ state = NORMAL /\ b.ch = SLIP_END
  /\ recved = 0
  /\ UNCHANGED vars

RxEnd(b) ==
  /\ state = NORMAL /\ b.ch = SLIP_END
  /\ recved > 0
  /\ Input(Kept(q, recved), SubSeq(mem, 1, recved), Len(q) - Kept(q, recved))
  /\ q' = <<>> /\ mem' = <<>> /\ p' = 0 /\ i' = 0 /\ recved' = 0
  /\ UNCHANGED <<state, held>>

RxEsc(b) ==
  /\ state = NORMAL /\ b.ch = SLIP_ESC
  /\ state' = ESCAPE
  /\ UNCHANGED <<q, mem, p, i, recved, pool, mbox, held, out>>

\* Where the cursor (cur, i) goes when it moves: to the next byte, to the next
\* pbuf of the chain, or to no pbuf.
NextCursorNoReset(chain, cur) ==
  IF i + 1 < chain[cur].len THEN <<cur, i + 1>>
  ELSE IF cur < Len(chain) THEN <<cur + 1, i + 1>> ELSE <<0, i + 1>>
NextCursorRunsOn(chain, cur) ==
  IF i + 1 < chain[cur].len THEN <<cur, i + 1>> ELSE <<cur + 1, 0>>
NextCursor(chain, cur) ==
  IF i + 1 < chain[cur].len THEN <<cur, i + 1>>
  ELSE IF cur < Len(chain) THEN <<cur + 1, 0>> ELSE <<0, 0>>

\* Write c at index i of pbuf cur of a chain with contents m, unless the packet
\* is too large already.
PutUnlimited(chain, m, cur, c) ==
  /\ q' = chain
  /\ mem' = [m EXCEPT ![chain[cur].off + i + 1] = c]
  /\ recved' = recved + 1
  /\ p' = NextCursor(chain, cur)[1]
  /\ i' = NextCursor(chain, cur)[2]
Put(chain, m, cur, c) ==
  /\ q' = chain
  /\ IF recved <= MaxSize
     THEN /\ mem' = [m EXCEPT ![chain[cur].off + i + 1] = c]
          /\ recved' = recved + 1
          /\ p' = NextCursor(chain, cur)[1]
          /\ i' = NextCursor(chain, cur)[2]
     ELSE /\ mem' = m /\ p' = cur
          /\ UNCHANGED <<i, recved>>

\* A data byte: no current pbuf means another allocation, and when that fails the
\* byte is lost but the packet under way goes on.
RxData(b) ==
  /\ state = NORMAL => b.ch \notin {SLIP_END, SLIP_ESC}
  /\ state' = NORMAL
  /\ LET c == IF state = ESCAPE THEN Unescape(b) ELSE b
     IN  \/ /\ p # 0
            /\ Put(q, mem, p, c)
            /\ UNCHANGED pool
         \/ /\ p = 0 /\ pool >= Len(Alloc)
            /\ Put(Extended(q), mem \o Unwritten, Len(q) + 1, c)
            /\ pool' = pool - Len(Alloc)
         \/ /\ p = 0 /\ pool < Len(Alloc)
            /\ UNCHANGED <<q, mem, p, i, recved, pool>>
  /\ UNCHANGED <<mbox, held, out>>

\* slipif_rxbyte_input on one byte of the line.
RxByte(b) == RxIdleEnd(b) \/ RxEnd(b) \/ RxEsc(b) \/ RxData(b)

-------------------------------------------------------------------------------
\* tcpip_thread takes the next message; a packet goes up the stack.
TcpipFetch == /\ mbox # <<>>
              /\ mbox' = Tail(mbox)
              /\ held' = held + Head(mbox)
              /\ UNCHANGED <<rxVars, pool, out>>

\* Somebody above frees a pbuf.
PbufFree == /\ held > 0
            /\ held' = held - 1
            /\ pool' = pool + 1
            /\ UNCHANGED <<rxVars, mbox, out>>

\* Another task posts an API message; sys_mbox_post waits while the box is full.
ApiPost == /\ Len(mbox) < MboxSize
           /\ mbox' = Append(mbox, 0)
           /\ UNCHANGED <<rxVars, pool, held, out>>

Next == \/ \E b \in Byte : RxByte(b)
        \/ TcpipFetch
        \/ PbufFree
        \/ ApiPost

Spec == Init /\ [][Next]_vars

-------------------------------------------------------------------------------
\* The chain is contiguous and its contents as long as it is, the cursor (p, i)
\* lies inside its pbuf, and it stands where byte number recved belongs: no byte
\* of a packet is skipped, overwritten or stored outside the pbufs.
CursorAtRecved ==
  /\ Contiguous(q) /\ Len(mem) = Room(q)
  /\ recved <= MaxSize + 1
  /\ IF p = 0 THEN i = 0 /\ recved = Len(mem)
              ELSE i < q[p].len /\ recved = q[p].off + i

\* Whatever mixture of failed allocations, oversized packets and refused packets
\* occurs, no pbuf of the pool is lost or freed twice.
PbufsConserved == pool + Len(q) + FoldLeft(+, 0, mbox) + held = PoolSize

\* A line that never sends an END pins a bounded number of pbufs: as many
\* allocations as MaxSize + 1 bytes need, and one more for a byte that is then
\* dropped for its size.
PinnedPbufsBounded ==
  Len(q) <= Len(Alloc) * (((MaxSize + 1) \div Room(Alloc)) + 1)

\* slipif_rxbyte implements SlipFraming: what the chain holds is what an
\* unlimited buffer would, bytes are lost for the reasons given there only, and a
\* packet goes up exactly as it was collected.
Framing == INSTANCE SlipFraming WITH
             escaped <- state = ESCAPE,
             packet  <- SubSeq(mem, 1, recved),
             memory  <- p # 0 \/ pool >= Len(Alloc)

FramesAsSpecified == Framing!Spec
=============================================================================

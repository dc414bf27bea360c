--------------------------- MODULE SlipLink_proofs ---------------------------
(***************************************************************************)
(* Proofs about SlipIf and SlipLink.                                       *)
(*                                                                         *)
(* First SlipIf, for every pbuf shape, pool, mailbox and packet size: the  *)
(* cursor of slipif_rxbyte never leaves the chain, the pbuf chain          *)
(* implements the unlimited buffer of SlipFraming, no pbuf is lost, and a  *)
(* packet under way pins a bounded number of them.                         *)
(*                                                                         *)
(* Then SlipLink, for every number of frames, all payloads, every queue    *)
(* and any number of lost bytes: packets go up in order and once, and      *)
(* damage to a frame does not spread.  The bytes the peer sends are a      *)
(* fixed sequence S, and the invariant says where in S the program stands: *)
(* the slip thread has processed the byte at position d last, the          *)
(* interrupt handler has seen those up to c, and v holds the positions of  *)
(* the bytes in the queue.  What lies between d and c but not in v was     *)
(* lost.                                                                   *)
(***************************************************************************)
EXTENDS SlipLink, NatLemmas, TLAPS

IInv == TypeOK /\ CursorAtRecved

-------------------------------------------------------------------------------
\* Lemmas on chains.

LEMMA ChainFields ==
  ASSUME NEW chain \in Seq(Pbuf)
  PROVE  /\ \A k \in 1..Len(chain) : /\ chain[k] \in Pbuf
                                     /\ chain[k].off \in Nat
                                     /\ chain[k].len \in Nat \ {0}
         /\ Room(chain) \in Nat
<1>1. \A k \in 1..Len(chain) : chain[k] \in Pbuf
  OBVIOUS
<1>2. \A k \in 1..Len(chain) : chain[k].off \in Nat /\ chain[k].len \in Nat \ {0}
  BY <1>1 DEF Pbuf
<1>3. chain # <<>> => Len(chain) \in 1..Len(chain)
  OBVIOUS
<1> QED BY <1>1, <1>2, <1>3 DEF Room

\* Every pbuf ends within the room of its chain.
LEMMA PbufWithinRoom ==
  ASSUME NEW chain \in Seq(Pbuf), Contiguous(chain), NEW k \in 1..Len(chain)
  PROVE  /\ chain[k].off + chain[k].len <= Room(chain)
         /\ k = Len(chain) => chain[k].off + chain[k].len = Room(chain)
<1>1. Len(chain) \in 1..Len(chain) /\ chain # <<>> /\ Len(chain) \in Nat
  OBVIOUS
<1>2. chain[k].off \in Nat /\ chain[k].len \in Nat
      /\ chain[Len(chain)].off \in Nat /\ chain[Len(chain)].len \in Nat
  BY <1>1, ChainFields
<1>3. k < Len(chain) => chain[k].off + chain[k].len <= chain[Len(chain)].off
  BY <1>1 DEF Contiguous
<1> QED BY <1>1, <1>2, <1>3 DEF Room

\* A further allocation behind a contiguous chain leaves it contiguous.
LEMMA ExtendedContiguous ==
  ASSUME NEW chain \in Seq(Pbuf), Contiguous(chain)
  PROVE  /\ Extended(chain) \in Seq(Pbuf)
         /\ Len(Extended(chain)) = Len(chain) + Len(Alloc)
         /\ \A k \in 1..Len(chain) : Extended(chain)[k] = chain[k]
         /\ Extended(chain)[Len(chain) + 1].off = Room(chain)
         /\ Room(Extended(chain)) = Room(chain) + Room(Alloc)
         /\ Contiguous(Extended(chain))
<1> DEFINE tail == [k \in 1..Len(Alloc) |-> [Alloc[k] EXCEPT !.off = @ + Room(chain)]]
           ext == Extended(chain)
<1>a. Alloc \in Seq(Pbuf) /\ Alloc # <<>> /\ Contiguous(Alloc) /\ Len(Alloc) \in Nat
  BY ConstantsAssumption
<1>b. Room(chain) \in Nat /\ Len(chain) \in Nat
  BY ChainFields
<1>c. 1 \in 1..Len(Alloc) /\ Len(Alloc) \in 1..Len(Alloc)
  BY <1>a
<1>d. \A k \in 1..Len(Alloc) : Alloc[k] \in Pbuf /\ Alloc[k].off \in Nat
                               /\ Alloc[k].len \in Nat \ {0}
  BY <1>a, ChainFields
<1>e. \A k \in 1..Len(Alloc) : /\ tail[k].off = Alloc[k].off + Room(chain)
                               /\ tail[k].len = Alloc[k].len
                               /\ tail[k] \in Pbuf
  BY <1>b, <1>d DEF Pbuf
<1>1. tail \in Seq(Pbuf) /\ Len(tail) = Len(Alloc)
  BY <1>a, <1>e
<1>2. ext \in Seq(Pbuf) /\ Len(ext) = Len(chain) + Len(Alloc)
  BY <1>1 DEF Extended
<1>3. \A k \in 1..Len(chain) : ext[k] = chain[k]
  BY <1>1 DEF Extended
<1>4. \A k \in 1..Len(Alloc) : ext[Len(chain) + k] = tail[k]
  BY <1>1 DEF Extended
<1> HIDE DEF tail, ext
<1>5. ext[Len(chain) + 1].off = Room(chain)
  BY <1>a, <1>b, <1>c, <1>d, <1>e, <1>4 DEF Contiguous
<1>6. Room(ext) = Room(chain) + Room(Alloc)
  <2>1. ext # <<>> /\ ext[Len(ext)] = tail[Len(Alloc)]
    BY <1>a, <1>b, <1>c, <1>2, <1>4
  <2> QED BY <2>1, <1>a, <1>b, <1>c, <1>d, <1>e DEF Room
<1>7. Contiguous(ext)
  <2>1. ext # <<>> => ext[1].off = 0
    <3>1. CASE chain = <<>>
      BY <3>1, <1>5 DEF Room
    <3>2. CASE chain # <<>>
      BY <3>2, <1>3 DEF Contiguous
    <3> QED BY <3>1, <3>2
  <2>2. ASSUME NEW j \in 1..Len(ext), NEW k \in 1..Len(ext), j < k
        PROVE  /\ ext[j].off + ext[j].len <= ext[k].off
               /\ k = j + 1 => ext[k].off = ext[j].off + ext[j].len
    <3>1. CASE k <= Len(chain)
      <4>1. j \in 1..Len(chain) /\ k \in 1..Len(chain) /\ ext[j] = chain[j] /\ ext[k] = chain[k]
        BY <3>1, <2>2, <1>b, <1>2, <1>3
      <4> QED BY <4>1, <2>2 DEF Contiguous
    <3>2. CASE j <= Len(chain) /\ k > Len(chain)
      <4>1. j \in 1..Len(chain) /\ ext[j] = chain[j]
        BY <3>2, <2>2, <1>b, <1>2, <1>3
      <4>2. PICK l \in 1..Len(Alloc) : k = Len(chain) + l
        <5>1. k - Len(chain) \in 1..Len(Alloc) /\ k = Len(chain) + (k - Len(chain))
          BY <3>2, <1>2, <1>a, <1>b
        <5> QED BY <5>1
      <4>3. ext[k].off = Alloc[l].off + Room(chain)
        BY <4>2, <1>4, <1>e
      <4>4. chain[j].off \in Nat /\ chain[j].len \in Nat
        BY <4>1, ChainFields
      <4>5. chain[j].off + chain[j].len <= Room(chain)
            /\ (j = Len(chain) => chain[j].off + chain[j].len = Room(chain))
        BY <4>1, PbufWithinRoom
      <4>6. k = j + 1 => l = 1 /\ j = Len(chain)
        BY <4>2, <3>2, <1>b, <4>1
      <4>7. Alloc[1].off = 0 /\ Alloc[l].off \in Nat
        BY <1>a, <1>d DEF Contiguous
      <4> QED BY <4>1, <4>3, <4>4, <4>5, <4>6, <4>7, <1>b
    <3>3. CASE j > Len(chain)
      <4>1. PICK l \in 1..Len(Alloc) : j = Len(chain) + l
        <5>1. j - Len(chain) \in 1..Len(Alloc) /\ j = Len(chain) + (j - Len(chain))
          BY <3>3, <1>2, <1>a, <1>b
        <5> QED BY <5>1
      <4>2. PICK n \in 1..Len(Alloc) : k = Len(chain) + n
        <5>1. k - Len(chain) \in 1..Len(Alloc) /\ k = Len(chain) + (k - Len(chain))
          BY <3>3, <2>2, <1>2, <1>a, <1>b
        <5> QED BY <5>1
      <4>3. /\ ext[j].off = Alloc[l].off + Room(chain) /\ ext[j].len = Alloc[l].len
            /\ ext[k].off = Alloc[n].off + Room(chain)
        BY <4>1, <4>2, <1>4, <1>e
      <4>4. l < n /\ (k = j + 1 => n = l + 1 /\ l \in 1..(Len(Alloc) - 1))
        BY <4>1, <4>2, <2>2, <1>a, <1>b
      <4>5. Alloc[l].off + Alloc[l].len <= Alloc[n].off
        BY <4>4, <1>a DEF Contiguous
      <4>6. Alloc[l].off \in Nat /\ Alloc[l].len \in Nat /\ Alloc[n].off \in Nat
        BY <1>d
      <4>7. ext[j].off + ext[j].len <= ext[k].off
        <5>1. ext[j].off + ext[j].len = (Alloc[l].off + Alloc[l].len) + Room(chain)
          BY <4>3, <4>6, <1>b
        <5>2. \A a, b, c \in Nat : a <= b => a + c <= b + c
          OBVIOUS
        <5>3. Alloc[l].off + Alloc[l].len \in Nat
          BY <4>6
        <5>4. (Alloc[l].off + Alloc[l].len) + Room(chain) <= Alloc[n].off + Room(chain)
          BY <5>2, <5>3, <4>5, <4>6, <1>b
        <5> QED BY <5>1, <5>4, <4>3
      <4>8. ASSUME k = j + 1 PROVE ext[k].off = ext[j].off + ext[j].len
        <5>1. Alloc[n].off = Alloc[l].off + Alloc[l].len
          BY <4>8, <4>4, <1>a DEF Contiguous
        <5> QED BY <5>1, <4>3, <4>6, <1>b
      <4> QED BY <4>7, <4>8
    <3> QED BY <3>1, <3>2, <3>3, <1>b, <1>2, <2>2
  <2>3. \A k \in 1..(Len(ext) - 1) : k \in 1..Len(ext) /\ k + 1 \in 1..Len(ext) /\ k < k + 1
    BY <1>2
  <2> QED BY <2>1, <2>2, <2>3 DEF Contiguous
<1> QED BY <1>2, <1>3, <1>5, <1>6, <1>7 DEF ext

-------------------------------------------------------------------------------
\* Lemmas on the invariant.

\* An END after a byte was stored finds the pbuf that holds the last one.
LEMMA KeptExists ==
  ASSUME IInv, recved > 0
  PROVE  Kept(q, recved) \in 1..Len(q)
<1> DEFINE Holds(k) == q[k].off < recved /\ recved <= q[k].off + q[k].len
<1>a. /\ q \in Seq(Pbuf) /\ p \in 0..Len(q) /\ i \in Nat /\ recved \in Nat
      /\ Contiguous(q) /\ Len(mem) = Room(q)
  BY DEF IInv, TypeOK, CursorAtRecved
<1>b. \A k \in 1..Len(q) : q[k].off \in Nat /\ q[k].len \in Nat \ {0}
  BY <1>a, ChainFields
<1>1. \E k \in 1..Len(q) : Holds(k)
  <2>1. CASE p = 0
    <3>1. q # <<>> /\ recved = q[Len(q)].off + q[Len(q)].len
      BY <2>1, <1>a DEF IInv, CursorAtRecved, Room
    <3>2. Len(q) \in 1..Len(q)
      BY <3>1, <1>a
    <3> QED BY <3>1, <3>2, <1>a, <1>b
  <2>2. CASE p # 0
    <3>1. p \in 1..Len(q) /\ recved = q[p].off + i /\ i < q[p].len
      BY <2>2, <1>a DEF IInv, CursorAtRecved
    <3>2. CASE i > 0
      <4>1. Holds(p)
        BY <3>1, <3>2, <1>a, <1>b
      <4> QED BY <4>1, <3>1
    <3>3. CASE i = 0
      <4>1. recved = q[p].off /\ p # 1
        BY <3>1, <3>3, <1>a, <1>b DEF Contiguous
      <4>2. p - 1 \in 1..(Len(q) - 1) /\ p - 1 \in 1..Len(q) /\ (p - 1) + 1 = p
        BY <3>1, <4>1, <1>a
      <4>3. q[p].off = q[p - 1].off + q[p - 1].len
        BY <4>2, <1>a DEF Contiguous
      <4>4. Holds(p - 1)
        BY <4>1, <4>2, <4>3, <1>a, <1>b
      <4> QED BY <4>4, <4>2
    <3> QED BY <3>2, <3>3, <1>a
  <2> QED BY <2>1, <2>2
<1> QED BY <1>1 DEF Kept

\* The bytes of a packet: one more is stored behind those there are.
LEMMA StoreOne ==
  ASSUME NEW m \in Seq(Cell), NEW c \in Cell, NEW n \in Nat, n < Len(m)
  PROVE  LET w == [m EXCEPT ![n + 1] = c]
         IN  /\ w \in Seq(Cell) /\ Len(w) = Len(m)
             /\ SubSeq(w, 1, n + 1) = Append(SubSeq(m, 1, n), c)
<1> DEFINE w == [m EXCEPT ![n + 1] = c]
<1>1. w \in Seq(Cell) /\ Len(w) = Len(m)
  OBVIOUS
<1>2. SubSeq(w, 1, n + 1) \in Seq(Cell) /\ Len(SubSeq(w, 1, n + 1)) = n + 1
  BY <1>1
<1>3. SubSeq(m, 1, n) \in Seq(Cell) /\ Len(SubSeq(m, 1, n)) = n
  OBVIOUS
<1>4. Append(SubSeq(m, 1, n), c) \in Seq(Cell) /\ Len(Append(SubSeq(m, 1, n), c)) = n + 1
  BY <1>3
<1>5. ASSUME NEW k \in 1..(n + 1)
      PROVE  SubSeq(w, 1, n + 1)[k] = Append(SubSeq(m, 1, n), c)[k]
  <2>1. SubSeq(w, 1, n + 1)[k] = w[k]
    BY <1>1
  <2>2. CASE k = n + 1
    BY <2>1, <2>2, <1>3
  <2>3. CASE k # n + 1
    <3>1. k \in 1..n /\ w[k] = m[k] /\ SubSeq(m, 1, n)[k] = m[k]
      BY <2>3
    <3> QED BY <3>1, <2>1, <1>3
  <2> QED BY <2>2, <2>3
<1> HIDE DEF w
<1>6. SubSeq(w, 1, n + 1) = Append(SubSeq(m, 1, n), c)
  BY <1>2, <1>4, <1>5
<1> QED BY <1>1, <1>6 DEF w
-------------------------------------------------------------------------------
\* The inductive invariant.

\* A byte c stored at cursor (cur, i) of a chain whose cursor stands at recved.
\* The last byte of a pbuf has been written.
LEMMA LastByte ==
  ASSUME NEW chain, NEW cur, chain[cur].off \in Nat, chain[cur].len \in Nat,
         i \in Nat, i < chain[cur].len, i + 1 >= chain[cur].len,
         recved = chain[cur].off + i, recved' = recved + 1
  PROVE  recved' = chain[cur].off + chain[cur].len
OBVIOUS

LEMMA PutInv ==
  ASSUME NEW chain \in Seq(Pbuf), Contiguous(chain),
         NEW m \in Seq(Cell), Len(m) = Room(chain),
         NEW cur \in 1..Len(chain), NEW c \in Byte,
         i \in Nat, recved \in Nat, recved <= MaxSize + 1,
         i < chain[cur].len, recved = chain[cur].off + i,
         Put(chain, m, cur, c)
  PROVE  /\ q' \in Seq(Pbuf) /\ mem' \in Seq(Cell) /\ p' \in 0..Len(q')
         /\ i' \in Nat /\ recved' \in Nat
         /\ CursorAtRecved'
         /\ recved < Len(m)
<1>a. chain[cur].off \in Nat /\ chain[cur].len \in Nat /\ MaxSize \in Nat
      /\ Len(chain) \in Nat /\ Room(chain) \in Nat
  BY ChainFields, ConstantsAssumption
<1>b. chain[cur].off + chain[cur].len <= Room(chain)
      /\ (cur = Len(chain) => chain[cur].off + chain[cur].len = Room(chain))
  BY PbufWithinRoom
<1>c. recved < Len(m) /\ c \in Cell
  BY <1>a, <1>b DEF Cell
<1>1. CASE recved <= MaxSize
  <2>1. /\ q' = chain /\ mem' = [m EXCEPT ![recved + 1] = c] /\ recved' = recved + 1
        /\ IF i + 1 >= chain[cur].len
             THEN i' = 0 /\ p' = IF cur < Len(chain) THEN cur + 1 ELSE 0
             ELSE i' = i + 1 /\ p' = cur
    BY <1>1, <1>a DEF Put, NextCursor
  <2>r. recved' = recved + 1
    BY <2>1
  <2>2. mem' \in Seq(Cell) /\ Len(mem') = Len(m)
    BY <2>1, <1>c, StoreOne
  <2>3. recved' <= MaxSize + 1 /\ recved' \in Nat /\ i' \in Nat
    <3>1. recved' <= MaxSize + 1 /\ recved' \in Nat
      BY <2>r, <1>1, <1>a
    <3>2. i' = 0 \/ i' = i + 1
      BY <2>1
    <3> QED BY <3>1, <3>2
  <2>4. CASE i + 1 < chain[cur].len
    <3>1. p' = cur /\ i' = i + 1 /\ q' = chain
      BY <2>1, <2>4, <1>a
    <3>2. i' < q'[p'].len /\ p' # 0
      BY <3>1, <2>4
    <3>3. recved' = q'[p'].off + i'
      <4>1. recved' = (chain[cur].off + i) + 1
        BY <2>r
      <4>2. q'[p'].off + i' = chain[cur].off + (i + 1)
        BY <3>1
      <4> QED BY <4>1, <4>2, <1>a
    <3> QED BY <3>1, <3>2, <3>3, <2>1, <2>2, <2>3, <1>c DEF CursorAtRecved
  <2>5. CASE i + 1 >= chain[cur].len /\ cur < Len(chain)
    <3>1. p' = cur + 1 /\ i' = 0 /\ q' = chain /\ cur + 1 \in 1..Len(chain)
      BY <2>1, <2>5, <1>a
    <3>2. chain[cur + 1].off = chain[cur].off + chain[cur].len
      BY <2>5, <1>a DEF Contiguous
    <3>3. chain[cur + 1].len \in Nat \ {0}
      BY <3>1, ChainFields
    <3>4. i' < q'[p'].len /\ p' # 0
      BY <3>1, <3>3
    <3>5. i + 1 >= chain[cur].len /\ chain[cur].off \in Nat /\ chain[cur].len \in Nat
      BY <2>5, <1>a
    <3>6. recved' = chain[cur].off + chain[cur].len
      BY <2>r, <3>5, LastByte, Zenon
    <3>7. recved' = q'[p'].off + i'
      BY <3>1, <3>2, <3>6, <1>a
    <3> QED BY <3>1, <3>4, <3>7, <2>1, <2>2, <2>3, <1>c DEF CursorAtRecved
  <2>6. CASE i + 1 >= chain[cur].len /\ cur = Len(chain)
    <3>1. p' = 0 /\ i' = 0 /\ q' = chain
      BY <2>1, <2>6, <1>a
    <3>2. recved' = Len(mem')
      <4>1. i + 1 >= chain[cur].len /\ chain[cur].off \in Nat /\ chain[cur].len \in Nat
        BY <2>6, <1>a
      <4>2. recved' = chain[cur].off + chain[cur].len
        BY <2>r, <4>1, LastByte, Zenon
      <4>3. Len(mem') = chain[cur].off + chain[cur].len
        BY <2>2, <2>6, <1>b
      <4> QED BY <4>2, <4>3
    <3> QED BY <3>1, <3>2, <2>1, <2>2, <2>3, <1>c DEF CursorAtRecved
  <2> QED BY <2>4, <2>5, <2>6, <1>a
<1>2. CASE recved > MaxSize
  <2>1. q' = chain /\ mem' = m /\ p' = cur /\ i' = i /\ recved' = recved
    BY <1>2, <1>a DEF Put
  <2> QED BY <2>1, <1>c DEF CursorAtRecved
<1> QED BY <1>1, <1>2, <1>a

LEMMA UnescapeByte ==
  ASSUME NEW b \in Byte PROVE Unescape(b) \in Byte
BY DEF Unescape, Byte, Char, SLIP_END, SLIP_ESC, SLIP_ESC_END, SLIP_ESC_ESC

\* What RxData stores, and where.
LEMMA RxDataInv ==
  ASSUME IInv, NEW b \in Byte, RxData(b)
  PROVE  IInv'
<1> DEFINE c == IF state = ESCAPE THEN Unescape(b) ELSE b
<1>a. c \in Byte
  BY UnescapeByte
<1>b. /\ q \in Seq(Pbuf) /\ mem \in Seq(Cell) /\ p \in 0..Len(q) /\ i \in Nat
      /\ recved \in Nat /\ pool \in Nat /\ Contiguous(q) /\ Len(mem) = Room(q)
      /\ recved <= MaxSize + 1
  BY DEF IInv, TypeOK, CursorAtRecved
<1>c. state' \in {NORMAL, ESCAPE} /\ mbox' \in Seq(Nat) /\ held' \in Nat /\ out' \in Seq(Cell)
  BY DEF IInv, TypeOK, RxData
<1> HIDE DEF c
<1>1. CASE p # 0 /\ Put(q, mem, p, c) /\ pool' = pool
  <2>1. p \in 1..Len(q) /\ i < q[p].len /\ recved = q[p].off + i
    BY <1>1, <1>b DEF IInv, CursorAtRecved
  <2>2. /\ q' \in Seq(Pbuf) /\ mem' \in Seq(Cell) /\ p' \in 0..Len(q')
        /\ i' \in Nat /\ recved' \in Nat /\ CursorAtRecved'
    BY <1>1, <2>1, <1>a, <1>b, PutInv
  <2> QED BY <2>2, <1>1, <1>b, <1>c DEF IInv, TypeOK
<1>2. CASE /\ p = 0 /\ pool >= Len(Alloc)
           /\ Put(Extended(q), mem \o Unwritten, Len(q) + 1, c)
           /\ pool' = pool - Len(Alloc)
  <2> DEFINE ext == Extended(q)
             m == mem \o Unwritten
  <2>1. Alloc \in Seq(Pbuf) /\ Len(Alloc) \in Nat /\ Len(Alloc) # 0 /\ Room(Alloc) \in Nat
    BY ConstantsAssumption, ChainFields
  <2>2. /\ ext \in Seq(Pbuf) /\ Contiguous(ext) /\ Len(ext) = Len(q) + Len(Alloc)
        /\ ext[Len(q) + 1].off = Room(q) /\ Room(ext) = Room(q) + Room(Alloc)
    BY <1>b, ExtendedContiguous
  <2>3. Unwritten \in Seq(Cell) /\ Len(Unwritten) = Room(Alloc)
    BY <2>1 DEF Unwritten, Cell
  <2>4. m \in Seq(Cell) /\ Len(m) = Room(ext)
    <3>1. m \in Seq(Cell) /\ Len(m) = Len(mem) + Len(Unwritten)
      BY <2>3, <1>b
    <3> QED BY <3>1, <2>2, <2>3, <1>b
  <2>5. Len(q) + 1 \in 1..Len(ext)
    BY <2>1, <2>2, <1>b
  <2>6. recved = Room(q) /\ i = 0
    BY <1>2, <1>b DEF IInv, CursorAtRecved
  <2> HIDE DEF ext, m
  <2>7. i < ext[Len(q) + 1].len /\ recved = ext[Len(q) + 1].off + i
    <3>1. ext[Len(q) + 1].len \in Nat \ {0}
      BY <2>2, <2>5, ChainFields
    <3> QED BY <3>1, <2>2, <2>6, <1>b
  <2>8. Put(ext, m, Len(q) + 1, c)
    BY <1>2 DEF ext, m
  <2>9. /\ q' \in Seq(Pbuf) /\ mem' \in Seq(Cell) /\ p' \in 0..Len(q')
        /\ i' \in Nat /\ recved' \in Nat /\ CursorAtRecved'
    BY <2>2, <2>4, <2>5, <2>7, <2>8, <1>a, <1>b, PutInv
  <2>10. pool' \in Nat
    BY <1>2, <2>1, <1>b
  <2> QED BY <2>9, <2>10, <1>c DEF IInv, TypeOK
<1>3. CASE p = 0 /\ UNCHANGED <<q, mem, p, i, recved, pool>>
  BY <1>3, <1>c DEF IInv, TypeOK, CursorAtRecved
<1> QED BY <1>1, <1>2, <1>3 DEF RxData, c

LEMMA RxEndInv ==
  ASSUME IInv, NEW b \in Byte, RxEnd(b)
  PROVE  IInv'
<1>a. /\ q \in Seq(Pbuf) /\ mem \in Seq(Cell) /\ pool \in Nat /\ recved \in Nat
      /\ mbox \in Seq(Nat) /\ out \in Seq(Cell) /\ Len(mem) = Room(q) /\ MaxSize \in Nat
  BY ConstantsAssumption DEF IInv, TypeOK, CursorAtRecved
<1>b. Kept(q, recved) \in 1..Len(q)
  BY KeptExists DEF RxEnd
<1>c. recved <= Len(mem)
  <2>1. CASE p = 0
    BY <2>1 DEF IInv, CursorAtRecved
  <2>2. CASE p # 0
    <3>1. p \in 1..Len(q) /\ recved = q[p].off + i /\ i < q[p].len /\ i \in Nat
      BY <2>2 DEF IInv, TypeOK, CursorAtRecved
    <3>2. q[p].off + q[p].len <= Room(q)
      BY <3>1, <1>a, PbufWithinRoom DEF IInv, CursorAtRecved
    <3> QED BY <3>1, <3>2, <1>a, ChainFields
  <2> QED BY <2>1, <2>2
<1>d. SubSeq(mem, 1, recved) \in Seq(Cell)
  BY <1>a, <1>c
<1>1. pool' \in Nat /\ mbox' \in Seq(Nat) /\ out' \in Seq(Cell)
  <2> DEFINE k == Kept(q, recved)
  <2>1. Input(k, SubSeq(mem, 1, recved), Len(q) - k)
    BY DEF RxEnd
  <2>2. k \in Nat /\ Len(q) - k \in Nat
    BY <1>a, <1>b
  <2> HIDE DEF k
  <2>3. pool' \in Nat
    BY <2>1, <2>2, <1>a DEF Input
  <2>4. mbox' \in Seq(Nat)
    <3>1. mbox' = Append(mbox, k) \/ mbox' = mbox
      BY <2>1 DEF Input
    <3>2. mbox \in Seq(Nat) /\ k \in Nat
      BY <2>2, <1>a
    <3> QED BY <3>1, <3>2
  <2>5. out' \in Seq(Cell)
    BY <2>1, <1>a, <1>d DEF Input
  <2> QED BY <2>3, <2>4, <2>5
<1>2. /\ q' = <<>> /\ mem' = <<>> /\ p' = 0 /\ i' = 0 /\ recved' = 0
      /\ state' \in {NORMAL, ESCAPE} /\ held' \in Nat
  BY DEF RxEnd, IInv, TypeOK
<1>3. CursorAtRecved'
  BY <1>2, <1>a DEF CursorAtRecved, Contiguous, Room
<1> QED BY <1>1, <1>2, <1>3 DEF IInv, TypeOK

THEOREM InitInv == Init => IInv
BY ConstantsAssumption DEF Init, IInv, TypeOK, CursorAtRecved, Contiguous, Room

THEOREM NextInv == IInv /\ [Next]_vars => IInv'
<1> SUFFICES ASSUME IInv, [Next]_vars PROVE IInv'
  OBVIOUS
<1>1. ASSUME NEW b \in Byte, RxByte(b) PROVE IInv'
  <2>1. CASE RxIdleEnd(b)
    BY <2>1 DEF RxIdleEnd, vars, IInv, TypeOK, CursorAtRecved
  <2>2. CASE RxEnd(b)
    BY <2>2, RxEndInv
  <2>3. CASE RxEsc(b)
    BY <2>3 DEF RxEsc, IInv, TypeOK, CursorAtRecved
  <2>4. CASE RxData(b)
    BY <2>4, RxDataInv
  <2> QED BY <1>1, <2>1, <2>2, <2>3, <2>4 DEF RxByte
<1>2. CASE TcpipFetch
  <2>1. mbox' \in Seq(Nat) /\ held' \in Nat
    BY <1>2 DEF TcpipFetch, IInv, TypeOK
  <2> QED BY <2>1, <1>2 DEF TcpipFetch, rxVars, IInv, TypeOK, CursorAtRecved
<1>3. CASE PbufFree
  BY <1>3 DEF PbufFree, rxVars, IInv, TypeOK, CursorAtRecved
<1>4. CASE ApiPost
  <2>1. mbox' \in Seq(Nat)
    BY <1>4 DEF ApiPost, IInv, TypeOK
  <2> QED BY <2>1, <1>4 DEF ApiPost, rxVars, IInv, TypeOK, CursorAtRecved
<1>5. CASE UNCHANGED vars
  BY <1>5 DEF vars, IInv, TypeOK, CursorAtRecved
<1> QED BY <1>1, <1>2, <1>3, <1>4, <1>5 DEF Next

THEOREM Invariance == Spec => []IInv
BY InitInv, NextInv, PTL DEF Spec

\* No sequence of bytes, failed allocations and refused packets takes a variable
\* of the receiver out of its range.
THEOREM TypeCorrect == Spec => []TypeOK
BY Invariance, PTL DEF IInv

\* The write cursor of slipif_rxbyte is always inside the pbuf chain, exactly
\* behind the bytes received, whatever the shape of the pbufs.
THEOREM CursorCorrect == Spec => []CursorAtRecved
BY Invariance, PTL DEF IInv

-------------------------------------------------------------------------------
\* The chain implements the unlimited buffer.

THEOREM InitRefines == Init => Framing!Init
<1> SUFFICES ASSUME Init PROVE Framing!Init
  OBVIOUS
<1>1. SubSeq(mem, 1, recved) = <<>>
  BY DEF Init
<1> QED BY <1>1 DEF Init, Framing!Init, NORMAL, ESCAPE

\* While a byte can be stored it lands behind the packet, and nowhere else.
LEMMA PutRefines ==
  ASSUME NEW m \in Seq(Cell), NEW chain, NEW cur, NEW c \in Byte,
         i \in Nat, recved \in Nat, recved < Len(m), chain[cur].off + i = recved,
         SubSeq(m, 1, recved) = SubSeq(mem, 1, recved),
         Put(chain, m, cur, c)
  PROVE  IF recved <= MaxSize
           THEN SubSeq(mem, 1, recved)' = Append(SubSeq(mem, 1, recved), c)
           ELSE SubSeq(mem, 1, recved)' = SubSeq(mem, 1, recved)
<1>1. CASE recved <= MaxSize
  <2>1. mem' = [m EXCEPT ![recved + 1] = c] /\ recved' = recved + 1
    BY <1>1 DEF Put
  <2>2. c \in Cell
    BY DEF Cell
  <2>3. SubSeq(mem', 1, recved + 1) = Append(SubSeq(m, 1, recved), c)
    BY <2>1, <2>2, StoreOne
  <2> QED BY <1>1, <2>1, <2>3
<1>2. CASE ~(recved <= MaxSize)
  BY <1>2 DEF Put
<1> QED BY <1>1, <1>2

LEMMA CursorFacts ==
  ASSUME IInv
  PROVE  /\ recved \in Nat /\ i \in Nat /\ recved <= Len(mem) /\ mem \in Seq(Cell)
         /\ Len(SubSeq(mem, 1, recved)) = recved
         /\ p # 0 => recved < Len(mem) /\ q[p].off + i = recved
         /\ p = 0 => recved = Len(mem) /\ i = 0
<1>a. /\ q \in Seq(Pbuf) /\ mem \in Seq(Cell) /\ recved \in Nat /\ i \in Nat
      /\ Contiguous(q) /\ Len(mem) = Room(q)
  BY DEF IInv, TypeOK, CursorAtRecved
<1>1. p = 0 => recved = Len(mem) /\ i = 0
  BY DEF IInv, CursorAtRecved
<1>2. ASSUME p # 0 PROVE recved < Len(mem) /\ q[p].off + i = recved
  <2>1. p \in 1..Len(q) /\ recved = q[p].off + i /\ i < q[p].len
    BY <1>2 DEF IInv, TypeOK, CursorAtRecved
  <2>2. q[p].off + q[p].len <= Room(q)
    BY <2>1, <1>a, PbufWithinRoom
  <2>3. q[p].off \in Nat /\ q[p].len \in Nat /\ Room(q) \in Nat
    BY <2>1, <1>a, ChainFields
  <2> QED BY <2>1, <2>2, <2>3, <1>a
<1>3. recved <= Len(mem)
  BY <1>1, <1>2, <1>a
<1>4. Len(SubSeq(mem, 1, recved)) = recved
  BY <1>a, <1>3
<1> QED BY <1>a, <1>1, <1>2, <1>3, <1>4

\* Framing!vars is unchanged when its variables are.
LEMMA FramingStutters ==
  ASSUME UNCHANGED <<state, mem, recved, out>>
  PROVE  UNCHANGED Framing!vars
BY DEF Framing!vars

\* The instance speaks of the same bytes.
LEMMA SameBytes ==
  /\ Framing!SLIP_END = SLIP_END /\ Framing!SLIP_ESC = SLIP_ESC
  /\ Framing!Byte = Byte
  /\ \A b : Framing!Unescape(b) = Unescape(b)
BY DEF Framing!SLIP_END, Framing!SLIP_ESC, Framing!SLIP_ESC_END, Framing!SLIP_ESC_ESC,
       Framing!Char, Framing!Byte, Framing!Unescape,
       SLIP_END, SLIP_ESC, SLIP_ESC_END, SLIP_ESC_ESC, Char, Byte, Unescape

\* A data byte becomes the last of the packet, or is lost for want of memory or for the
\* size of the packet.
LEMMA RxDataStores ==
  ASSUME IInv, NEW b \in Byte, RxData(b)
  PROVE  LET c == IF state = ESCAPE THEN Unescape(b) ELSE b
             packet == SubSeq(mem, 1, recved)
             memory == p # 0 \/ pool >= Len(Alloc)
         IN  \/ memory /\ recved <= MaxSize /\ packet' = Append(packet, c) /\ recved' > recved
             \/ (~memory \/ recved > MaxSize) /\ packet' = packet /\ recved' = recved
<1> DEFINE c == IF state = ESCAPE THEN Unescape(b) ELSE b
           packet == SubSeq(mem, 1, recved)
           memory == p # 0 \/ pool >= Len(Alloc)
<1> SUFFICES \/ memory /\ recved <= MaxSize /\ packet' = Append(packet, c) /\ recved' > recved
             \/ (~memory \/ recved > MaxSize) /\ packet' = packet /\ recved' = recved
  OBVIOUS
<1>a. /\ recved \in Nat /\ i \in Nat /\ recved <= Len(mem) /\ mem \in Seq(Cell)
      /\ Len(packet) = recved
      /\ p # 0 => recved < Len(mem) /\ q[p].off + i = recved
      /\ p = 0 => recved = Len(mem) /\ i = 0
  BY CursorFacts
<1>b. c \in Byte /\ MaxSize \in Nat
  BY UnescapeByte, ConstantsAssumption
<1>1. ASSUME memory,
             recved <= MaxSize => packet' = Append(packet, c) /\ recved' = recved + 1,
             recved > MaxSize => packet' = packet /\ recved' = recved
      PROVE  \/ memory /\ recved <= MaxSize /\ packet' = Append(packet, c) /\ recved' > recved
             \/ (~memory \/ recved > MaxSize) /\ packet' = packet /\ recved' = recved
  <2>1. CASE recved <= MaxSize
    <3>1. packet' = Append(packet, c) /\ recved' = recved + 1 /\ recved + 1 > recved
      BY <1>1, <2>1, <1>a
    <3> HIDE DEF memory, packet, c
    <3> QED BY <1>1, <2>1, <3>1
  <2>2. CASE recved > MaxSize
    <3> HIDE DEF memory, packet, c
    <3> QED BY <1>1, <2>2
  <2>3. recved <= MaxSize \/ recved > MaxSize
    BY <1>a, <1>b
  <2> QED BY <2>1, <2>2, <2>3, Zenon
<1>2. CASE p # 0 /\ Put(q, mem, p, c)
  <2>1. IF recved <= MaxSize THEN packet' = Append(packet, c) ELSE packet' = packet
    BY <1>2, <1>a, <1>b, PutRefines
  <2>a. recved' = IF recved <= MaxSize THEN recved + 1 ELSE recved
    BY <1>2 DEF Put
  <2>2. memory
    BY <1>2
  <2>3. recved <= MaxSize \/ recved > MaxSize
    BY <1>a, <1>b
  <2> HIDE DEF memory, packet, c
  <2> QED BY <2>1, <2>a, <2>2, <2>3, <1>1, <1>a, <1>b
<1>3. CASE /\ p = 0 /\ pool >= Len(Alloc)
           /\ Put(Extended(q), mem \o Unwritten, Len(q) + 1, c)
  <2> DEFINE ext == Extended(q)
             m == mem \o Unwritten
  <2>1. Alloc \in Seq(Pbuf) /\ Alloc # <<>> /\ Contiguous(Alloc)
    BY ConstantsAssumption
  <2>2. Len(Alloc) \in 1..Len(Alloc) /\ Room(Alloc) \in Nat \ {0}
    <3>1. Len(Alloc) \in 1..Len(Alloc)
      BY <2>1
    <3> QED BY <3>1, <2>1, ChainFields DEF Room
  <2>3. Unwritten \in Seq(Cell) /\ Len(Unwritten) = Room(Alloc)
    BY <2>2 DEF Unwritten, Cell
  <2>4. m \in Seq(Cell) /\ Len(m) = Len(mem) + Room(Alloc)
        /\ \A k \in 1..Len(mem) : m[k] = mem[k]
    BY <2>3, <1>a
  <2> HIDE DEF m
  <2>5. recved < Len(m)
    BY <2>2, <2>4, <1>3, <1>a
  <2>6. SubSeq(m, 1, recved) = SubSeq(mem, 1, recved)
    BY <2>4, <1>3, <1>a
  <2>7. ext[Len(q) + 1].off + i = recved
    <3>1. ext[Len(q) + 1].off = Room(q) /\ Room(q) = Len(mem)
      BY ExtendedContiguous DEF IInv, TypeOK, CursorAtRecved
    <3> QED BY <3>1, <1>3, <1>a
  <2>8. Put(ext, m, Len(q) + 1, c)
    BY <1>3 DEF m
  <2> HIDE DEF ext
  <2>9. IF recved <= MaxSize THEN packet' = Append(packet, c) ELSE packet' = packet
    BY <2>4, <2>5, <2>6, <2>7, <2>8, <1>a, <1>b, PutRefines
  <2>a. recved' = IF recved <= MaxSize THEN recved + 1 ELSE recved
    BY <2>8 DEF Put
  <2>10. memory
    BY <1>3
  <2> HIDE DEF memory, packet, c
  <2> QED BY <2>9, <2>a, <2>10, <1>1, <1>a, <1>b
<1>4. CASE p = 0 /\ pool < Len(Alloc) /\ UNCHANGED <<q, mem, p, i, recved, pool>>
  <2>1. ~memory
    BY <1>4, ConstantsAssumption DEF IInv, TypeOK
  <2>2. packet' = packet /\ recved' = recved
    BY <1>4
  <2> HIDE DEF memory, packet, c
  <2> QED BY <2>1, <2>2
<1> QED BY <1>2, <1>3, <1>4 DEF RxData

LEMMA RxDataRefines ==
  ASSUME IInv, NEW b \in Byte, RxData(b)
  PROVE  Framing!Collect \/ Framing!Drop
<1> DEFINE c == IF state = ESCAPE THEN Unescape(b) ELSE b
           packet == SubSeq(mem, 1, recved)
           memory == p # 0 \/ pool >= Len(Alloc)
<1>1. Len(packet) = recved
  BY CursorFacts
<1>2. ~(state' = ESCAPE) /\ (state # ESCAPE => b.ch \notin {SLIP_END, SLIP_ESC}) /\ out' = out
  BY DEF RxData, IInv, TypeOK, NORMAL, ESCAPE
<1>3. CASE memory /\ recved <= MaxSize /\ packet' = Append(packet, c)
  <2>1. Len(packet) <= MaxSize /\ packet' = Append(packet, c)
    BY <1>1, <1>3
  <2>2. (state = ESCAPE)' = FALSE /\ UNCHANGED out
    BY <1>2
  <2>3. ~(state = ESCAPE) => b.ch \notin {Framing!SLIP_END, Framing!SLIP_ESC}
    BY <1>2, SameBytes
  <2>4. b \in Framing!Byte /\ c = IF state = ESCAPE THEN Framing!Unescape(b) ELSE b
    BY SameBytes
  <2> QED BY <1>3, <2>1, <2>2, <2>3, <2>4 DEF Framing!Collect
<1>4. CASE (~memory \/ recved > MaxSize) /\ packet' = packet
  <2>1. ~memory \/ Len(packet) >= MaxSize
    BY <1>1, <1>4, ConstantsAssumption DEF IInv, TypeOK
  <2> QED BY <1>2, <1>4, <2>1 DEF Framing!Drop
<1>5. \/ memory /\ recved <= MaxSize /\ packet' = Append(packet, c)
      \/ (~memory \/ recved > MaxSize) /\ packet' = packet
  BY RxDataStores
<1> QED BY <1>3, <1>4, <1>5

THEOREM StepRefines == IInv /\ [Next]_vars => [Framing!Next]_Framing!vars
<1> SUFFICES ASSUME IInv, [Next]_vars PROVE [Framing!Next]_Framing!vars
  OBVIOUS
<1>1. ASSUME NEW b \in Byte, RxByte(b) PROVE [Framing!Next]_Framing!vars
  <2>1. CASE RxIdleEnd(b)
    BY <2>1, FramingStutters DEF RxIdleEnd, vars
  <2>2. CASE RxEnd(b)
    <3>1. recved > 0 /\ Len(SubSeq(mem, 1, recved)) = recved /\ recved \in Nat
      BY <2>2, CursorFacts DEF RxEnd
    <3>2. SubSeq(mem, 1, recved) # <<>>
      <4>1. \A s : s = <<>> => Len(s) = 0
        OBVIOUS
      <4>2. Len(SubSeq(mem, 1, recved)) # 0
        BY <3>1
      <4> QED BY <4>1, <4>2, Zenon
    <3>3. SubSeq(mem, 1, recved)' = <<>>
      BY <2>2 DEF RxEnd
    <3>4. out' \in {SubSeq(mem, 1, recved), out}
      BY <2>2 DEF RxEnd, Input
    <3>5. ~(state = ESCAPE) /\ state' = state
      BY <2>2 DEF RxEnd, NORMAL, ESCAPE
    <3> QED BY <3>2, <3>3, <3>4, <3>5 DEF Framing!Next, Framing!Deliver
  <2>3. CASE RxEsc(b)
    BY <2>3 DEF RxEsc, Framing!Next, Framing!Escape, NORMAL, ESCAPE
  <2>4. CASE RxData(b)
    BY <2>4, RxDataRefines DEF Framing!Next
  <2> QED BY <1>1, <2>1, <2>2, <2>3, <2>4 DEF RxByte
<1>2. CASE TcpipFetch \/ PbufFree \/ ApiPost
  BY <1>2, FramingStutters DEF TcpipFetch, PbufFree, ApiPost, rxVars
<1>3. CASE UNCHANGED vars
  BY <1>3, FramingStutters DEF vars
<1> QED BY <1>1, <1>2, <1>3 DEF Next

\* slipif_rxbyte on its chain of pbufs implements the unlimited buffer: a packet
\* goes up as the very bytes collected since the last END, and a byte is lost
\* only to an exhausted pool or the size limit.
THEOREM Refinement == Spec => FramesAsSpecified
<1>1. Init => Framing!Init
  BY InitRefines
<1>2. IInv /\ [Next]_vars => [Framing!Next]_Framing!vars
  BY StepRefines
<1> QED BY <1>1, <1>2, Invariance, PTL DEF Spec, FramesAsSpecified, Framing!Spec
-------------------------------------------------------------------------------
\* The pool.

\* A packet that ends: its pbufs are in the mailbox, or all of the chain is free.
LEMMA RxEndConserves ==
  ASSUME IInv, NEW b \in Byte, RxEnd(b)
  PROVE  pool' + Len(q') + Total(mbox') = pool + Len(q) + Total(mbox)
<1> DEFINE k == Kept(q, recved)
<1>1. pool \in Nat /\ mbox \in Seq(Nat) /\ Len(q) \in Nat
  BY DEF IInv, TypeOK
<1>2. k \in 1..Len(q)
  BY KeptExists DEF RxEnd
<1>3. Input(k, SubSeq(mem, 1, recved), Len(q) - k) /\ Len(q') = 0
  BY DEF RxEnd
<1> HIDE DEF k
<1>4. CASE mbox' = Append(mbox, k) /\ pool' = pool + (Len(q) - k)
  <2>1. k \in Nat
    BY <1>1, <1>2
  <2>2. Total(mbox) \in Nat
        /\ Total(Append(mbox, k)) = Total(mbox) + k
    BY <2>1, <1>1, SumAppend
  <2> QED BY <1>1, <1>3, <1>4, <2>1, <2>2
<1>5. CASE mbox' = mbox /\ pool' = pool + (Len(q) - k) + k
  <2>1. Total(mbox) \in Nat
    BY <1>1, SumAppend
  <2>2. pool' = pool + Len(q)
    BY <1>1, <1>2, <1>5
  <2> QED BY <1>1, <1>3, <1>5, <2>1, <2>2
<1> QED BY <1>3, <1>4, <1>5 DEF Input

\* A byte takes an allocation from the pool to the chain, or none.
LEMMA RxDataConserves ==
  ASSUME IInv, NEW b \in Byte, RxData(b)
  PROVE  pool' + Len(q') = pool + Len(q)
<1>1. pool \in Nat /\ Len(q) \in Nat /\ q \in Seq(Pbuf) /\ Contiguous(q) /\ Len(Alloc) \in Nat
  BY ConstantsAssumption DEF IInv, TypeOK, CursorAtRecved
<1>2. Len(Extended(q)) = Len(q) + Len(Alloc)
  BY <1>1, ExtendedContiguous
<1>3. \/ q' = q /\ pool' = pool
      \/ q' = Extended(q) /\ pool' = pool - Len(Alloc)
  BY DEF RxData, Put
<1> QED BY <1>1, <1>2, <1>3

\* PbufsConserved, with the sum of NatLemmas.
Conserved == pool + Len(q) + Total(mbox) + held = PoolSize

LEMMA ConservedNext ==
  ASSUME IInv, Conserved, [Next]_vars
  PROVE  Conserved'
<1>1. /\ pool \in Nat /\ mbox \in Seq(Nat) /\ Len(q) \in Nat /\ held \in Nat
      /\ Total(mbox) \in Nat
  <2>1. mbox \in Seq(Nat)
    BY DEF IInv, TypeOK
  <2> QED BY <2>1, SumAppend DEF IInv, TypeOK
<1>2. pool' \in Nat /\ Len(q') \in Nat /\ Total(mbox') \in Nat
  <2>1. IInv'
    BY NextInv
  <2>2. mbox' \in Seq(Nat)
    BY <2>1 DEF IInv, TypeOK
  <2> QED BY <2>1, <2>2, SumAppend DEF IInv, TypeOK
<1>3. ASSUME NEW b \in Byte, RxByte(b) PROVE Conserved'
  <2>1. CASE RxIdleEnd(b)
    BY <2>1 DEF RxIdleEnd, vars, Conserved
  <2>2. CASE RxEnd(b)
    <3>1. held' = held
      BY <2>2 DEF RxEnd
    <3> QED BY <1>1, <1>2, <2>2, <3>1, RxEndConserves DEF Conserved
  <2>3. CASE RxEsc(b)
    BY <2>3 DEF RxEsc, Conserved
  <2>4. CASE RxData(b)
    <3>1. mbox' = mbox /\ held' = held
      BY <2>4 DEF RxData
    <3> QED BY <1>1, <1>2, <2>4, <3>1, RxDataConserves DEF Conserved
  <2> QED BY <1>3, <2>1, <2>2, <2>3, <2>4 DEF RxByte
<1>4. CASE TcpipFetch
  <2>1. mbox' = Tail(mbox) /\ mbox # <<>> /\ held' = held + Head(mbox) /\ pool' = pool /\ q' = q
    BY <1>4 DEF TcpipFetch, rxVars
  <2>2. Total(mbox) = Head(mbox) + Total(mbox')
    BY <1>1, <2>1, SumTail
  <2>3. Head(mbox) \in Nat
    BY <1>1, <2>1
  <2> QED BY <1>1, <1>2, <2>1, <2>2, <2>3 DEF Conserved
<1>5. CASE PbufFree
  BY <1>1, <1>5 DEF PbufFree, rxVars, Conserved
<1>6. CASE ApiPost
  <2>1. mbox' = Append(mbox, 0) /\ held' = held /\ pool' = pool /\ q' = q
    BY <1>6 DEF ApiPost, rxVars
  <2>2. Total(Append(mbox, 0)) = Total(mbox) + 0
    BY <1>1, SumAppend
  <2> QED BY <1>1, <2>1, <2>2 DEF Conserved
<1>7. CASE UNCHANGED vars
  BY <1>7 DEF vars, Conserved
<1> QED BY <1>3, <1>4, <1>5, <1>6, <1>7 DEF Next

\* The pbufs of the chain under way, of the packets in the mailbox and of those the
\* stack holds, with the free ones, are the whole pool: slipif and tcpip_input lose
\* none and free none twice, for every pool, mailbox and pbuf shape.
THEOREM PoolConserved == Spec => []PbufsConserved
<1>1. Init => Conserved
  BY SumEmpty, ConstantsAssumption DEF Init, Conserved
<1>2. Conserved => PbufsConserved
  BY DEF Conserved, Total, PbufsConserved
<1> QED BY <1>1, <1>2, Invariance, ConservedNext, PTL DEF Spec

\* The chain is some number of allocations, not more than the largest packet needs
\* and one.
Allocations(k) == Len(q) = k * Len(Alloc) /\ Room(q) = k * Room(Alloc)
MostAllocations == ((MaxSize + 1) \div Room(Alloc)) + 1
ChainIsAllocations == \E k \in 0..MostAllocations : Allocations(k)

LEMMA AllocRoom == Room(Alloc) \in Nat \ {0} /\ Len(Alloc) \in Nat \ {0}
<1>1. Alloc \in Seq(Pbuf) /\ Alloc # <<>> /\ Len(Alloc) \in 1..Len(Alloc)
  BY ConstantsAssumption
<1>2. Alloc[Len(Alloc)].off \in Nat /\ Alloc[Len(Alloc)].len \in Nat \ {0}
  BY <1>1, ChainFields
<1> QED BY <1>1, <1>2 DEF Room

\* As many allocations of r bytes as have filled up within m.
LEMMA FullAllocations ==
  ASSUME NEW r \in Nat \ {0}, NEW m \in Nat, NEW k \in Nat, k * r <= m
  PROVE  m \div r \in Nat /\ k <= m \div r
<1> DEFINE d == m \div r
           e == m % r
<1>1. d \in Int /\ e \in 0..(r - 1) /\ m = r * d + e
  OBVIOUS
<1> HIDE DEF d, e
<1>2. ASSUME d < k PROVE FALSE
  <2>1. d + 1 <= k /\ k * r >= (d + 1) * r
    BY <1>1, <1>2
  <2>2. (d + 1) * r = r * d + r
    BY <1>1
  <2> QED BY <1>1, <2>1, <2>2
<1> QED BY <1>1, <1>2 DEF d

LEMMA ExtendedAllocations ==
  ASSUME IInv, NEW k \in 0..MostAllocations, Allocations(k), p = 0
  PROVE  \E n \in 0..MostAllocations : /\ Len(Extended(q)) = n * Len(Alloc)
                                       /\ Room(Extended(q)) = n * Room(Alloc)
<1> DEFINE a == Len(Alloc)
           r == Room(Alloc)
<1>1. /\ q \in Seq(Pbuf) /\ Contiguous(q) /\ recved <= MaxSize + 1 /\ recved = Room(q)
      /\ MaxSize \in Nat /\ recved \in Nat
  BY ConstantsAssumption DEF IInv, TypeOK, CursorAtRecved
<1>2. Len(Extended(q)) = Len(q) + a /\ Room(Extended(q)) = Room(q) + r
  BY <1>1, ExtendedContiguous
<1>3. a \in Nat \ {0} /\ r \in Nat \ {0}
  BY AllocRoom
<1>4. Len(q) = k * a /\ Room(q) = k * r
  BY DEF Allocations
<1>5. MostAllocations = ((MaxSize + 1) \div r) + 1
  BY DEF MostAllocations
<1> HIDE DEF a, r
<1>6. k \in Nat /\ (MaxSize + 1) \div r \in Nat /\ k <= (MaxSize + 1) \div r
  <2>1. k \in Nat /\ k * r <= MaxSize + 1 /\ MaxSize + 1 \in Nat
    BY <1>1, <1>4
  <2> QED BY <2>1, <1>3, FullAllocations
<1>7. k + 1 \in 0..MostAllocations
  BY <1>5, <1>6
<1>8. Len(Extended(q)) = (k + 1) * a /\ Room(Extended(q)) = (k + 1) * r
  BY <1>2, <1>3, <1>4, <1>6
<1> QED BY <1>7, <1>8 DEF a, r

LEMMA AllocationsNext ==
  ASSUME IInv, ChainIsAllocations, [Next]_vars
  PROVE  ChainIsAllocations'
<1>0. 0 \in 0..MostAllocations
  <2>1. MaxSize + 1 \in Nat /\ 0 * Room(Alloc) <= MaxSize + 1
    BY ConstantsAssumption, AllocRoom
  <2>2. (MaxSize + 1) \div Room(Alloc) \in Nat
    BY <2>1, AllocRoom, FullAllocations
  <2> QED BY <2>2 DEF MostAllocations
<1>1. CASE q' = q
  BY <1>1 DEF ChainIsAllocations, Allocations, Room
<1>2. CASE q' = <<>>
  <2>1. Len(q') = 0 * Len(Alloc) /\ Room(q') = 0 * Room(Alloc)
    BY <1>2, AllocRoom DEF Room
  <2> QED BY <2>1, <1>0 DEF ChainIsAllocations, Allocations
<1>3. CASE q' = Extended(q) /\ p = 0
  <2>1. PICK k \in 0..MostAllocations : Allocations(k)
    BY DEF ChainIsAllocations
  <2>2. PICK n \in 0..MostAllocations : /\ Len(Extended(q)) = n * Len(Alloc)
                                       /\ Room(Extended(q)) = n * Room(Alloc)
    BY <2>1, <1>3, ExtendedAllocations
  <2>3. Len(q') = n * Len(Alloc) /\ Room(q') = n * Room(Alloc)
    BY <2>2, <1>3
  <2> QED BY <2>3 DEF ChainIsAllocations, Allocations
<1>4. q' = q \/ q' = <<>> \/ (q' = Extended(q) /\ p = 0)
  BY DEF Next, RxByte, RxIdleEnd, RxEnd, RxEsc, RxData, Put, TcpipFetch, PbufFree, ApiPost, rxVars, vars
<1> QED BY <1>1, <1>2, <1>3, <1>4

\* However long a line sends data without an END, the packet under way pins at most
\* as many pbufs as SLIP_MAX_SIZE + 1 bytes need and one allocation more.
THEOREM PinnedBounded == Spec => []PinnedPbufsBounded
<1>1. Init => ChainIsAllocations
  <2> SUFFICES ASSUME Init PROVE ChainIsAllocations
    OBVIOUS
  <2>1. MaxSize + 1 \in Nat /\ 0 * Room(Alloc) <= MaxSize + 1
    BY ConstantsAssumption, AllocRoom
  <2>2. (MaxSize + 1) \div Room(Alloc) \in Nat
    BY <2>1, AllocRoom, FullAllocations
  <2>3. 0 \in 0..MostAllocations /\ Allocations(0)
    BY <2>2, AllocRoom DEF Init, Room, MostAllocations, Allocations
  <2> QED BY <2>3 DEF ChainIsAllocations
<1>2. ChainIsAllocations => PinnedPbufsBounded
  <2> SUFFICES ASSUME NEW k \in 0..MostAllocations, Allocations(k) PROVE PinnedPbufsBounded
    BY DEF ChainIsAllocations
  <2> DEFINE a == Len(Alloc)
             m == MostAllocations
  <2>1. a \in Nat /\ Len(q) = k * a
    BY AllocRoom DEF Allocations
  <2>2. m \in Int
    <3>1. MaxSize + 1 \in Nat /\ 0 * Room(Alloc) <= MaxSize + 1
      BY ConstantsAssumption, AllocRoom
    <3>2. (MaxSize + 1) \div Room(Alloc) \in Nat
      BY <3>1, AllocRoom, FullAllocations
    <3> QED BY <3>2 DEF MostAllocations
  <2>3. PinnedPbufsBounded <=> Len(q) <= a * m
    BY DEF PinnedPbufsBounded, MostAllocations
  <2>4. k \in Int /\ k >= 0 /\ k <= m
    BY <2>2
  <2> HIDE DEF a, m
  <2>5. k * a <= a * m
    BY <2>1, <2>2, <2>4
  <2> QED BY <2>1, <2>3, <2>5
<1> QED BY <1>1, <1>2, Invariance, AllocationsNext, PTL DEF Spec

-------------------------------------------------------------------------------
\* The bytes of the peer, the interrupt handler and the slip thread.

Special(ch) == ch \in {SLIP_END, SLIP_ESC}

\* slipif_rxbyte's packet under way.
Packet == SubSeq(mem, 1, recved)

\* How frame f is spelled in S: it has the positions after A[f - 1] up to A[f], the two
\* ENDs come first and last, and its first n payload bytes end at position C[f][n].
Spelled(S, A, C, f) ==
  LET pay == payload[f] N == Len(pay) IN
  /\ C[f] \in [0..N -> Nat]
  /\ C[f][0] = A[f - 1] + 1 /\ A[f] = C[f][N] + 1
  /\ S[A[f - 1] + 1].ch = SLIP_END /\ S[A[f]].ch = SLIP_END
  /\ \A n \in 1..N :
       IF Special(pay[n])
         THEN /\ C[f][n] = C[f][n - 1] + 2
              /\ S[C[f][n - 1] + 1].ch = SLIP_ESC
              /\ S[C[f][n]].ch = IF pay[n] = SLIP_END THEN SLIP_ESC_END ELSE SLIP_ESC_ESC
         ELSE C[f][n] = C[f][n - 1] + 1 /\ S[C[f][n]].ch = pay[n]
  /\ \A m, n \in 0..N : m <= n => C[f][m] <= C[f][n]
  /\ \A x \in Nat : A[f - 1] + 1 < x /\ x < A[f] =>
                      \E n \in 1..N : C[f][n - 1] < x /\ x <= C[f][n]

Shape(S, A, C) ==
  /\ S \in Seq(Byte)
  /\ A \in [0..NFrames -> Nat] /\ A[0] = 0 /\ A[NFrames] = Len(S)
  /\ \A f, g \in 0..NFrames : f <= g => A[f] <= A[g]
  /\ \A x \in 1..Len(S) : \E f \in Frame : A[f - 1] < x /\ x <= A[f]
  /\ \A f \in Frame, x \in Nat : A[f - 1] < x /\ x <= A[f] => S[x].of = f
  /\ \A f \in Frame : Spelled(S, A, C, f)

-------------------------------------------------------------------------------
\* The bytes of the line, as the peer frames them.

LEMMA Chars ==
  /\ SLIP_END \in Char /\ SLIP_ESC \in Char /\ SLIP_ESC_END \in Char /\ SLIP_ESC_ESC \in Char
  /\ SLIP_END # SLIP_ESC /\ SLIP_ESC_END \notin {SLIP_END, SLIP_ESC}
  /\ SLIP_ESC_ESC \notin {SLIP_END, SLIP_ESC, SLIP_ESC_END}
  /\ NORMAL # ESCAPE
BY DEF Char, SLIP_END, SLIP_ESC, SLIP_ESC_END, SLIP_ESC_ESC, NORMAL, ESCAPE

Pieces(chars) == [k \in DOMAIN chars |-> EscapeByte(chars[k])]

LEMMA EscapedByte ==
  ASSUME NEW ch \in Char
  PROVE  /\ EscapeByte(ch) \in Seq(Char)
         /\ Special(ch) => /\ Len(EscapeByte(ch)) = 2
                           /\ EscapeByte(ch)[1] = SLIP_ESC
                           /\ EscapeByte(ch)[2] = IF ch = SLIP_END THEN SLIP_ESC_END ELSE SLIP_ESC_ESC
         /\ ~Special(ch) => Len(EscapeByte(ch)) = 1 /\ EscapeByte(ch)[1] = ch
<1>1. CASE ch = SLIP_END
  <2>1. EscapeByte(ch) = <<SLIP_ESC, SLIP_ESC_END>>
    BY <1>1, Chars DEF EscapeByte
  <2> QED BY <1>1, <2>1, Chars DEF Special
<1>2. CASE ch = SLIP_ESC
  <2>1. EscapeByte(ch) = <<SLIP_ESC, SLIP_ESC_ESC>>
    BY <1>2, Chars DEF EscapeByte
  <2> QED BY <1>2, <2>1, Chars DEF Special
<1>3. CASE ~Special(ch)
  <2>1. EscapeByte(ch) = <<ch>>
    BY <1>3 DEF EscapeByte, Special
  <2> QED BY <1>3, <2>1
<1> QED BY <1>1, <1>2, <1>3 DEF Special

\* F is the escaped payload, and its first n bytes are those up to B[n].
Escaped(pay, F, B) ==
  LET N == Len(pay) IN
  /\ B \in [0..N -> Nat] /\ B[0] = 0 /\ Len(F) = B[N]
  /\ \A n \in 1..N :
       IF Special(pay[n])
         THEN /\ B[n] = B[n - 1] + 2
              /\ F[B[n - 1] + 1] = SLIP_ESC
              /\ F[B[n]] = IF pay[n] = SLIP_END THEN SLIP_ESC_END ELSE SLIP_ESC_ESC
         ELSE B[n] = B[n - 1] + 1 /\ F[B[n]] = pay[n]
  /\ \A m, n \in 0..N : m <= n => B[m] <= B[n]
  /\ \A x \in 1..Len(F) : \E n \in 1..N : B[n - 1] < x /\ x <= B[n]

LEMMA PiecesShape ==
  ASSUME NEW pay \in Seq(Char)
  PROVE  /\ FlattenSeq(Pieces(pay)) \in Seq(Char)
         /\ \E B : Escaped(pay, FlattenSeq(Pieces(pay)), B)
<1> DEFINE N == Len(pay)
           s == Pieces(pay)
           F == FlattenSeq(s)
<1>1. N \in Nat /\ DOMAIN pay = 1..N /\ \A n \in 1..N : pay[n] \in Char
  OBVIOUS
<1>2. s \in Seq(Seq(Char)) /\ Len(s) = N /\ \A n \in 1..N : s[n] = EscapeByte(pay[n])
  <2>1. \A n \in 1..N : EscapeByte(pay[n]) \in Seq(Char)
    BY <1>1, EscapedByte
  <2> QED BY <1>1, <2>1 DEF Pieces
<1>3. F \in Seq(Char) /\ \E B : Layout(s, N, B, F)
  BY <1>2, Flattened
<1> HIDE DEF s, F
<1>4. PICK B : Layout(s, N, B, F)
  BY <1>3
<1>5. /\ B \in [0..N -> Nat] /\ B[0] = 0 /\ Len(F) = B[N]
      /\ \A k \in 1..N : B[k] = B[k - 1] + Len(s[k])
      /\ \A k \in 1..N : \A m \in 1..Len(s[k]) : F[B[k - 1] + m] = s[k][m]
      /\ \A x \in 1..Len(F) : \E k \in 1..N : \E m \in 1..Len(s[k]) : x = B[k - 1] + m
      /\ \A j, k \in 0..N : j <= k => B[j] <= B[k]
  BY <1>4 DEF Layout
<1>6. ASSUME NEW n \in 1..N
      PROVE  IF Special(pay[n])
               THEN /\ B[n] = B[n - 1] + 2
                    /\ F[B[n - 1] + 1] = SLIP_ESC
                    /\ F[B[n]] = IF pay[n] = SLIP_END THEN SLIP_ESC_END ELSE SLIP_ESC_ESC
               ELSE B[n] = B[n - 1] + 1 /\ F[B[n]] = pay[n]
  <2>1. pay[n] \in Char /\ s[n] = EscapeByte(pay[n])
    BY <1>1, <1>2
  <2>2. CASE Special(pay[n])
    <3>1. /\ Len(s[n]) = 2 /\ s[n][1] = SLIP_ESC
          /\ s[n][2] = IF pay[n] = SLIP_END THEN SLIP_ESC_END ELSE SLIP_ESC_ESC
      BY <2>1, <2>2, EscapedByte
    <3>2. 1 \in 1..Len(s[n]) /\ 2 \in 1..Len(s[n])
      BY <3>1
    <3>3. B[n] = B[n - 1] + 2 /\ F[B[n - 1] + 1] = s[n][1] /\ F[B[n - 1] + 2] = s[n][2]
      BY <1>5, <3>1, <3>2
    <3> QED BY <2>2, <3>1, <3>3
  <2>3. CASE ~Special(pay[n])
    <3>1. Len(s[n]) = 1 /\ s[n][1] = pay[n]
      BY <2>1, <2>3, EscapedByte
    <3>2. 1 \in 1..Len(s[n])
      BY <3>1
    <3>3. B[n] = B[n - 1] + 1 /\ F[B[n - 1] + 1] = s[n][1]
      BY <1>5, <3>1, <3>2
    <3> QED BY <2>3, <3>1, <3>3
  <2> QED BY <2>2, <2>3
<1>7. ASSUME NEW x \in 1..Len(F) PROVE \E n \in 1..N : B[n - 1] < x /\ x <= B[n]
  <2>1. PICK n \in 1..N : \E m \in 1..Len(s[n]) : x = B[n - 1] + m
    BY <1>5
  <2>2. PICK m \in 1..Len(s[n]) : x = B[n - 1] + m
    BY <2>1
  <2>3. s[n] \in Seq(Char) /\ n - 1 \in 0..N
    BY <1>2
  <2>a. Len(s[n]) \in Nat
    BY <2>3
  <2>b. B[n - 1] \in Nat
    BY <1>5, <2>3
  <2>c. B[n] = B[n - 1] + Len(s[n])
    BY <1>5
  <2>4. Len(s[n]) \in Nat /\ B[n - 1] \in Nat /\ B[n] = B[n - 1] + Len(s[n])
    BY <2>a, <2>b, <2>c
  <2>5. B[n - 1] < x /\ x <= B[n]
    BY <2>2, <2>4
  <2> QED BY <2>5
<1>8. Escaped(pay, F, B)
  BY <1>5, <1>6, <1>7 DEF Escaped
<1> QED BY <1>3, <1>8 DEF F, s

\* One frame on the line.
LEMMA FrameShape ==
  ASSUME NEW pay \in Seq(Char), NEW f \in Frame
  PROVE  LET T == Tagged(Encode(pay), f) F == FlattenSeq(Pieces(pay)) IN
         /\ T \in Seq(Byte) /\ F \in Seq(Char) /\ Len(T) = Len(F) + 2
         /\ T[1].ch = SLIP_END /\ T[Len(F) + 2].ch = SLIP_END
         /\ \A x \in 1..Len(F) : T[x + 1].ch = F[x]
         /\ \A x \in 1..Len(T) : T[x].of = f
<1> DEFINE F == FlattenSeq(Pieces(pay))
           E == Encode(pay)
           T == Tagged(E, f)
<1>1. F \in Seq(Char) /\ Len(F) \in Nat
  <2>1. F \in Seq(Char)
    BY PiecesShape
  <2> QED BY <2>1
<1>2. E = <<SLIP_END>> \o F \o <<SLIP_END>>
  BY DEF Encode, Pieces
<1> HIDE DEF E, F
<1>3. /\ E \in Seq(Char) /\ Len(E) = Len(F) + 2
      /\ E[1] = SLIP_END /\ E[Len(F) + 2] = SLIP_END
      /\ \A x \in 1..Len(F) : E[x + 1] = F[x]
  <2> DEFINE G == <<SLIP_END>> \o F
  <2>1. /\ G \in Seq(Char) /\ Len(G) = Len(F) + 1 /\ G[1] = SLIP_END
        /\ \A x \in 1..Len(F) : G[x + 1] = F[x]
    BY <1>1, Chars
  <2>2. E = G \o <<SLIP_END>>
    BY <1>2
  <2> HIDE DEF G
  <2>3. E \in Seq(Char) /\ Len(E) = Len(G) + 1
    BY <2>1, <2>2, Chars
  <2>4. E[Len(G) + 1] = SLIP_END /\ \A x \in 1..Len(G) : E[x] = G[x]
    BY <2>1, <2>2
  <2>5. 1 \in 1..Len(G) /\ \A x \in 1..Len(F) : x + 1 \in 1..Len(G)
    BY <1>1, <2>1
  <2>6. Len(G) + 1 = Len(F) + 2
    BY <1>1, <2>1
  <2> QED BY <2>1, <2>3, <2>4, <2>5, <2>6
<1>4. f \in Origin /\ DOMAIN E = 1..Len(E) /\ Len(E) \in Nat /\ \A x \in 1..Len(E) : E[x] \in Char
  BY <1>3, LinkAssumption
<1>5. /\ T \in Seq(Byte) /\ Len(T) = Len(E)
      /\ \A x \in 1..Len(E) : T[x].ch = E[x] /\ T[x].of = f
  <2>1. \A x \in 1..Len(E) : [ch |-> E[x], of |-> f] \in Byte
    BY <1>4 DEF Byte
  <2>2. T = [x \in 1..Len(E) |-> [ch |-> E[x], of |-> f]]
    BY <1>4 DEF Tagged
  <2> HIDE DEF T
  <2> QED BY <1>4, <2>1, <2>2
<1>6. 1 \in 1..Len(E) /\ Len(F) + 2 \in 1..Len(E) /\ \A x \in 1..Len(F) : x + 1 \in 1..Len(E)
  BY <1>1, <1>3
<1> HIDE DEF T
<1>7. T \in Seq(Byte) /\ F \in Seq(Char) /\ Len(T) = Len(F) + 2
  BY <1>1, <1>3, <1>5
<1>8. T[1].ch = SLIP_END /\ T[Len(F) + 2].ch = SLIP_END
  BY <1>3, <1>5, <1>6
<1>9. \A x \in 1..Len(F) : T[x + 1].ch = F[x]
  BY <1>3, <1>5, <1>6
<1>10. \A x \in 1..Len(T) : T[x].of = f
  BY <1>5
<1> QED BY <1>7, <1>8, <1>9, <1>10 DEF T, E, F

\* One frame within the stream, which starts at A[f - 1].
Laid(S, A, C, f, B) ==
  LET T == Tagged(Encode(payload[f]), f) IN
  /\ payload[f] \in Seq(Char)
  /\ A[f - 1] \in Nat /\ A[f] = A[f - 1] + Len(T)
  /\ \A m \in 1..Len(T) : S[A[f - 1] + m] = T[m]
  /\ C[f] = [n \in 0..Len(payload[f]) |-> A[f - 1] + 1 + B[n]]
  /\ Escaped(payload[f], FlattenSeq(Pieces(payload[f])), B)

LEMMA SpelledFrame ==
  ASSUME NEW S \in Seq(Byte), NEW A, NEW C, NEW f \in Frame, NEW B, Laid(S, A, C, f, B)
  PROVE  Spelled(S, A, C, f)
<1> DEFINE pay == payload[f]
           N == Len(pay)
           F == FlattenSeq(Pieces(pay))
           T == Tagged(Encode(pay), f)
           a == A[f - 1]
<1>1. N \in Nat /\ a \in Nat /\ pay \in Seq(Char)
  BY DEF Laid
<1>2. /\ T \in Seq(Byte) /\ F \in Seq(Char) /\ Len(T) = Len(F) + 2
      /\ T[1].ch = SLIP_END /\ T[Len(F) + 2].ch = SLIP_END
      /\ \A x \in 1..Len(F) : T[x + 1].ch = F[x]
  BY <1>1, FrameShape
<1>3. Len(F) \in Nat
  BY <1>2
<1>4. /\ B \in [0..N -> Nat] /\ B[0] = 0 /\ Len(F) = B[N]
      /\ \A n \in 1..N :
           IF Special(pay[n])
             THEN /\ B[n] = B[n - 1] + 2
                  /\ F[B[n - 1] + 1] = SLIP_ESC
                  /\ F[B[n]] = IF pay[n] = SLIP_END THEN SLIP_ESC_END ELSE SLIP_ESC_ESC
             ELSE B[n] = B[n - 1] + 1 /\ F[B[n]] = pay[n]
      /\ \A m, n \in 0..N : m <= n => B[m] <= B[n]
      /\ \A x \in 1..Len(F) : \E n \in 1..N : B[n - 1] < x /\ x <= B[n]
  BY DEF Laid, Escaped
<1>5. /\ A[f] = a + Len(T) /\ (\A m \in 1..Len(T) : S[a + m] = T[m])
      /\ C[f] = [n \in 0..N |-> a + 1 + B[n]]
  BY DEF Laid
<1> HIDE DEF T, F, N, pay, a
<1>6. \A n \in 0..N : B[n] \in Nat /\ C[f][n] = a + 1 + B[n]
  <2>1. \A n \in 0..N : B[n] \in Nat
    BY <1>4
  <2> QED BY <1>5, <2>1
<1>7. C[f] \in [0..N -> Nat]
  <2>1. \A n \in 0..N : a + 1 + B[n] \in Nat
    BY <1>1, <1>6
  <2> QED BY <1>5, <2>1
<1>8. C[f][0] = a + 1 /\ A[f] = C[f][N] + 1
  <2>1. 0 \in 0..N /\ N \in 0..N
    BY <1>1
  <2>2. C[f][0] = a + 1
    BY <1>1, <1>4, <1>6, <2>1
  <2>3. C[f][N] = a + 1 + Len(F) /\ A[f] = a + (Len(F) + 2)
    BY <1>2, <1>4, <1>5, <1>6, <2>1
  <2>4. (a + 1 + Len(F)) + 1 = a + (Len(F) + 2)
    BY <1>1, <1>3
  <2> QED BY <2>2, <2>3, <2>4
<1>9. \A x \in 1..Len(F) : S[a + 1 + x].ch = F[x]
  <2> SUFFICES ASSUME NEW x \in 1..Len(F) PROVE S[a + 1 + x].ch = F[x]
    OBVIOUS
  <2>1. x + 1 \in 1..Len(T) /\ a + (x + 1) = a + 1 + x
    BY <1>1, <1>2, <1>3
  <2> QED BY <1>2, <1>5, <2>1
<1>10. S[a + 1].ch = SLIP_END /\ S[A[f]].ch = SLIP_END
  <2>1. 1 \in 1..Len(T) /\ Len(F) + 2 \in 1..Len(T) /\ Len(T) = Len(F) + 2
    BY <1>2, <1>3
  <2> QED BY <1>2, <1>5, <2>1
<1>11. ASSUME NEW n \in 1..N
       PROVE  /\ n \in 0..N /\ n - 1 \in 0..N
              /\ B[n] > B[n - 1] => B[n] \in 1..Len(F) /\ B[n - 1] + 1 \in 1..Len(F)
  <2>1. n \in 0..N /\ n - 1 \in 0..N /\ N \in 0..N /\ n <= N
    BY <1>1
  <2>2. B[n] <= B[N] /\ B[n] \in Nat /\ B[n - 1] \in Nat /\ B[N] = Len(F)
    BY <1>4, <1>6, <2>1
  <2> QED BY <1>3, <2>1, <2>2
<1>12. ASSUME NEW n \in 1..N
       PROVE  IF Special(pay[n])
                THEN /\ C[f][n] = C[f][n - 1] + 2
                     /\ S[C[f][n - 1] + 1].ch = SLIP_ESC
                     /\ S[C[f][n]].ch = IF pay[n] = SLIP_END THEN SLIP_ESC_END ELSE SLIP_ESC_ESC
                ELSE C[f][n] = C[f][n - 1] + 1 /\ S[C[f][n]].ch = pay[n]
  <2>1. /\ C[f][n] = a + 1 + B[n] /\ C[f][n - 1] = a + 1 + B[n - 1]
        /\ B[n] \in Nat /\ B[n - 1] \in Nat
    BY <1>6, <1>11
  <2>2. CASE Special(pay[n])
    <3>1. B[n] = B[n - 1] + 2 /\ F[B[n - 1] + 1] = SLIP_ESC
          /\ F[B[n]] = IF pay[n] = SLIP_END THEN SLIP_ESC_END ELSE SLIP_ESC_ESC
      BY <1>4, <2>2
    <3>2. B[n] \in 1..Len(F) /\ B[n - 1] + 1 \in 1..Len(F)
      BY <1>11, <2>1, <3>1
    <3>3. S[a + 1 + B[n]].ch = F[B[n]] /\ S[a + 1 + (B[n - 1] + 1)].ch = F[B[n - 1] + 1]
      BY <1>9, <3>2
    <3>4. C[f][n] = C[f][n - 1] + 2 /\ a + 1 + (B[n - 1] + 1) = C[f][n - 1] + 1
      <4>1. \A b \in Nat : a + 1 + (b + 2) = (a + 1 + b) + 2 /\ a + 1 + (b + 1) = (a + 1 + b) + 1
        BY <1>1
      <4>2. C[f][n] = a + 1 + (B[n - 1] + 2)
        BY <2>1, <3>1
      <4> QED BY <2>1, <4>1, <4>2
    <3> QED BY <2>1, <2>2, <3>1, <3>3, <3>4
  <2>3. CASE ~Special(pay[n])
    <3>1. B[n] = B[n - 1] + 1 /\ F[B[n]] = pay[n]
      BY <1>4, <2>3
    <3>2. B[n] \in 1..Len(F)
      BY <1>11, <2>1, <3>1
    <3>3. S[a + 1 + B[n]].ch = F[B[n]]
      BY <1>9, <3>2
    <3>4. C[f][n] = C[f][n - 1] + 1
      BY <1>1, <2>1, <3>1
    <3> QED BY <2>1, <2>3, <3>1, <3>3, <3>4
  <2> QED BY <2>2, <2>3
<1>13. \A m, n \in 0..N : m <= n => C[f][m] <= C[f][n]
  <2> SUFFICES ASSUME NEW m \in 0..N, NEW n \in 0..N, m <= n PROVE C[f][m] <= C[f][n]
    OBVIOUS
  <2>1. B[m] <= B[n]
    BY <1>4
  <2> QED BY <1>1, <1>6, <2>1
<1>14. ASSUME NEW x \in Nat, a + 1 < x, x < A[f]
       PROVE  \E n \in 1..N : C[f][n - 1] < x /\ x <= C[f][n]
  <2>1. x - (a + 1) \in 1..Len(F)
    BY <1>1, <1>2, <1>3, <1>5, <1>14
  <2>2. PICK n \in 1..N : B[n - 1] < x - (a + 1) /\ x - (a + 1) <= B[n]
    BY <1>4, <2>1
  <2>3. /\ C[f][n] = a + 1 + B[n] /\ C[f][n - 1] = a + 1 + B[n - 1]
        /\ B[n] \in Nat /\ B[n - 1] \in Nat
    BY <1>6, <1>11
  <2>4. C[f][n - 1] < x /\ x <= C[f][n]
    BY <1>1, <2>2, <2>3
  <2> QED BY <2>4
<1> QED BY <1>7, <1>8, <1>10, <1>12, <1>13, <1>14 DEF Spelled, N, pay, a

LEMMA StreamShape ==
  ASSUME payload \in [Frame -> Payloads]
  PROVE  \E A, C : Shape(Stream(payload), A, C)
<1> DEFINE T == [f \in Frame |-> Tagged(Encode(payload[f]), f)]
           S == Stream(payload)
<1>1. NFrames \in Nat /\ Frame = 1..NFrames /\ \A f \in Frame : payload[f] \in Seq(Char)
  BY LinkAssumption DEF Frame
<1>2. ASSUME NEW f \in Frame
      PROVE  /\ T[f] \in Seq(Byte) /\ T[f] = Tagged(Encode(payload[f]), f)
             /\ Len(T[f]) \in Nat /\ Len(T[f]) >= 2
             /\ \A x \in 1..Len(T[f]) : T[f][x].of = f
  <2> DEFINE pay == payload[f]
             F == FlattenSeq(Pieces(pay))
             U == Tagged(Encode(pay), f)
  <2>1. T[f] = U
    OBVIOUS
  <2>2. pay \in Seq(Char)
    BY <1>1
  <2>3. /\ U \in Seq(Byte) /\ F \in Seq(Char) /\ Len(U) = Len(F) + 2
        /\ \A x \in 1..Len(U) : U[x].of = f
    <3> HIDE DEF pay
    <3> QED BY <2>2, FrameShape
  <2>4. Len(F) \in Nat
    BY <2>3
  <2> HIDE DEF T, U, F
  <2> QED BY <2>1, <2>3, <2>4 DEF U
<1>3. T \in Seq(Seq(Byte)) /\ Len(T) = NFrames
  <2>1. T \in [1..NFrames -> Seq(Byte)]
    <3>1. \A f \in Frame : Tagged(Encode(payload[f]), f) \in Seq(Byte)
      BY <1>2
    <3> QED BY <1>1, <3>1
  <2> HIDE DEF T
  <2> QED BY <1>1, <2>1
<1>4. S = FlattenSeq(T)
  BY DEF Stream
<1> HIDE DEF T, S
<1>5. S \in Seq(Byte) /\ \E A : Layout(T, NFrames, A, S)
  BY <1>3, <1>4, Flattened
<1>6. PICK A : Layout(T, NFrames, A, S)
  BY <1>5
<1>7. /\ A \in [0..NFrames -> Nat] /\ A[0] = 0 /\ Len(S) = A[NFrames]
      /\ \A k \in 1..NFrames : A[k] = A[k - 1] + Len(T[k])
      /\ \A k \in 1..NFrames : \A m \in 1..Len(T[k]) : S[A[k - 1] + m] = T[k][m]
      /\ \A x \in 1..Len(S) : \E k \in 1..NFrames : \E m \in 1..Len(T[k]) : x = A[k - 1] + m
      /\ \A j, k \in 0..NFrames : j <= k => A[j] <= A[k]
  BY <1>6 DEF Layout
<1>8. \A f \in Frame : A[f - 1] \in Nat /\ A[f] \in Nat
  <2>1. \A f \in Frame : f - 1 \in 0..NFrames /\ f \in 0..NFrames
    BY <1>1
  <2> QED BY <1>7, <2>1
<1>9. \A f \in Frame : \E B : Escaped(payload[f], FlattenSeq(Pieces(payload[f])), B)
  BY <1>1, PiecesShape
<1> DEFINE B == [f \in Frame |-> CHOOSE b : Escaped(payload[f], FlattenSeq(Pieces(payload[f])), b)]
           C == [f \in Frame |-> [n \in 0..Len(payload[f]) |-> A[f - 1] + 1 + B[f][n]]]
<1>10. \A f \in Frame : Escaped(payload[f], FlattenSeq(Pieces(payload[f])), B[f])
  BY <1>9
<1> HIDE DEF B
<1>11. \A f \in Frame : C[f] = [n \in 0..Len(payload[f]) |-> A[f - 1] + 1 + B[f][n]]
  OBVIOUS
<1> HIDE DEF C
<1>12. ASSUME NEW f \in Frame PROVE Spelled(S, A, C, f)
  <2>1. A[f - 1] \in Nat /\ payload[f] \in Seq(Char)
    BY <1>1, <1>8
  <2>2. T[f] = Tagged(Encode(payload[f]), f)
    BY <1>2
  <2>3. A[f] = A[f - 1] + Len(T[f]) /\ \A m \in 1..Len(T[f]) : S[A[f - 1] + m] = T[f][m]
    BY <1>1, <1>7
  <2>4. Laid(S, A, C, f, B[f])
    BY <1>10, <1>11, <2>1, <2>2, <2>3 DEF Laid
  <2> QED BY <1>5, <2>4, SpelledFrame
<1>13. ASSUME NEW x \in 1..Len(S) PROVE \E f \in Frame : A[f - 1] < x /\ x <= A[f]
  <2>1. PICK f \in 1..NFrames : \E m \in 1..Len(T[f]) : x = A[f - 1] + m
    BY <1>7
  <2>2. f \in Frame /\ A[f] = A[f - 1] + Len(T[f]) /\ A[f - 1] \in Nat /\ Len(T[f]) \in Nat
    BY <1>1, <1>2, <1>7, <1>8
  <2>3. A[f - 1] < x /\ x <= A[f]
    BY <2>1, <2>2
  <2> QED BY <2>2, <2>3
<1>14. ASSUME NEW f \in Frame, NEW x \in Nat, A[f - 1] < x, x <= A[f] PROVE S[x].of = f
  <2>1. A[f] = A[f - 1] + Len(T[f]) /\ A[f - 1] \in Nat /\ Len(T[f]) \in Nat
    BY <1>1, <1>2, <1>7, <1>8
  <2>2. x - A[f - 1] \in 1..Len(T[f]) /\ x = A[f - 1] + (x - A[f - 1])
    BY <1>14, <2>1
  <2>3. S[A[f - 1] + (x - A[f - 1])] = T[f][x - A[f - 1]]
    BY <1>1, <1>7, <2>2
  <2> QED BY <1>2, <2>2, <2>3
<1>15. Shape(S, A, C)
  BY <1>5, <1>7, <1>12, <1>13, <1>14 DEF Shape
<1> QED BY <1>15 DEF S
-------------------------------------------------------------------------------
\* Positions and frames.

LEMMA Position ==
  ASSUME NEW S, NEW A, NEW C, Shape(S, A, C), NEW x \in 1..Len(S)
  PROVE  LET f == S[x].of IN
         /\ f \in Frame /\ f \in Nat /\ f - 1 \in 0..NFrames /\ f \in 0..NFrames
         /\ A[f - 1] \in Nat /\ A[f] \in Nat /\ A[f - 1] < x /\ x <= A[f] /\ A[f] <= Len(S)
<1>1. PICK f \in Frame : A[f - 1] < x /\ x <= A[f]
  BY DEF Shape
<1>2. NFrames \in Nat /\ f \in Nat /\ f - 1 \in 0..NFrames /\ f \in 0..NFrames /\ NFrames \in 0..NFrames
      /\ f <= NFrames
  BY LinkAssumption DEF Frame
<1>3. S[x].of = f
  BY <1>1 DEF Shape
<1>4. A[f - 1] \in Nat /\ A[f] \in Nat
  BY <1>2 DEF Shape
<1>5. A[f] <= Len(S)
  BY <1>2 DEF Shape
<1> QED BY <1>1, <1>2, <1>3, <1>4, <1>5

\* The frames follow one another.
LEMMA TagsAscend ==
  ASSUME NEW S, NEW A, NEW C, Shape(S, A, C), NEW x \in 1..Len(S), NEW y \in 1..Len(S), x <= y
  PROVE  S[x].of <= S[y].of
<1> DEFINE f == S[x].of
           g == S[y].of
<1>1. /\ f \in Nat /\ f - 1 \in 0..NFrames /\ A[f - 1] \in Nat /\ A[f - 1] < x
  BY Position
<1>2. /\ g \in Nat /\ g \in 0..NFrames /\ A[g] \in Nat /\ y <= A[g]
  BY Position
<1> HIDE DEF f, g
<1>3. CASE g < f
  <2>1. g <= f - 1
    BY <1>1, <1>2, <1>3
  <2>2. A[g] <= A[f - 1]
    BY <1>1, <1>2, <2>1 DEF Shape
  <2> QED BY <1>1, <1>2, <2>2
<1>4. CASE f <= g
  BY <1>4 DEF f, g
<1> QED BY <1>1, <1>2, <1>3, <1>4

\* The facts of Spelled, with their types.
LEMMA SpelledFacts ==
  ASSUME NEW S, NEW A, NEW C, Shape(S, A, C), NEW f \in Frame, payload \in [Frame -> Payloads]
  PROVE  LET pay == payload[f] N == Len(pay) IN
         /\ pay \in Seq(Char) /\ N \in Nat \ {0}
         /\ f \in Nat /\ A[f - 1] \in Nat /\ A[f] \in Nat /\ A[f] <= Len(S)
         /\ \A n \in 0..N : C[f][n] \in Nat /\ A[f - 1] < C[f][n] /\ C[f][n] < A[f]
         /\ \A n \in 1..N : n - 1 \in 0..N /\ n \in 0..N /\ pay[n] \in Char
         /\ C[f][0] = A[f - 1] + 1 /\ A[f] = C[f][N] + 1
         /\ S[A[f - 1] + 1].ch = SLIP_END /\ S[A[f]].ch = SLIP_END
         /\ \A n \in 1..N :
              IF Special(pay[n])
                THEN /\ C[f][n] = C[f][n - 1] + 2
                     /\ S[C[f][n - 1] + 1].ch = SLIP_ESC
                     /\ S[C[f][n]].ch = IF pay[n] = SLIP_END THEN SLIP_ESC_END ELSE SLIP_ESC_ESC
                ELSE C[f][n] = C[f][n - 1] + 1 /\ S[C[f][n]].ch = pay[n]
<1> DEFINE pay == payload[f]
           N == Len(pay)
<1>1. pay \in Seq(Char) /\ pay # <<>>
  BY LinkAssumption
<1>2. N \in Nat \ {0}
  BY <1>1
<1>3. f \in Nat /\ f - 1 \in 0..NFrames /\ f \in 0..NFrames /\ NFrames \in 0..NFrames /\ f <= NFrames
  BY LinkAssumption DEF Frame
<1>4. A[f - 1] \in Nat /\ A[f] \in Nat
  BY <1>3 DEF Shape
<1>5. A[f] <= Len(S)
  BY <1>3 DEF Shape
<1>6. /\ C[f] \in [0..N -> Nat]
      /\ C[f][0] = A[f - 1] + 1 /\ A[f] = C[f][N] + 1
      /\ S[A[f - 1] + 1].ch = SLIP_END /\ S[A[f]].ch = SLIP_END
      /\ \A n \in 1..N :
           IF Special(pay[n])
             THEN /\ C[f][n] = C[f][n - 1] + 2
                  /\ S[C[f][n - 1] + 1].ch = SLIP_ESC
                  /\ S[C[f][n]].ch = IF pay[n] = SLIP_END THEN SLIP_ESC_END ELSE SLIP_ESC_ESC
             ELSE C[f][n] = C[f][n - 1] + 1 /\ S[C[f][n]].ch = pay[n]
      /\ \A m, n \in 0..N : m <= n => C[f][m] <= C[f][n]
  BY DEF Shape, Spelled
<1>7. \A n \in 1..N : n - 1 \in 0..N /\ n \in 0..N /\ pay[n] \in Char
  BY <1>1, <1>2
<1> HIDE DEF N, pay
<1>8. ASSUME NEW n \in 0..N PROVE C[f][n] \in Nat /\ A[f - 1] < C[f][n] /\ C[f][n] < A[f]
  <2>1. 0 \in 0..N /\ N \in 0..N /\ 0 <= n /\ n <= N
    BY <1>2
  <2>2. C[f][0] <= C[f][n] /\ C[f][n] <= C[f][N]
    BY <1>6, <2>1
  <2>3. C[f][0] \in Nat /\ C[f][n] \in Nat /\ C[f][N] \in Nat
    BY <1>6, <2>1
  <2> QED BY <1>4, <1>6, <2>2, <2>3
<1> QED BY <1>1, <1>2, <1>3, <1>4, <1>5, <1>6, <1>7, <1>8 DEF N, pay

\* Inside a frame an ESC is followed by two more bytes of it, and there is no END.
LEMMA Inside ==
  ASSUME NEW S, NEW A, NEW C, Shape(S, A, C), payload \in [Frame -> Payloads],
         NEW f \in Frame, NEW x \in Nat, A[f - 1] + 1 < x, x < A[f]
  PROVE  S[x].ch # SLIP_END /\ (S[x].ch = SLIP_ESC => x + 2 <= A[f])
<1> DEFINE pay == payload[f]
           N == Len(pay)
<1>1. PICK n \in 1..N : C[f][n - 1] < x /\ x <= C[f][n]
  BY DEF Shape, Spelled
<1>2. /\ \A m \in 0..N : C[f][m] \in Nat /\ A[f - 1] < C[f][m] /\ C[f][m] < A[f]
      /\ n - 1 \in 0..N /\ n \in 0..N /\ A[f] \in Nat
      /\ IF Special(pay[n])
           THEN /\ C[f][n] = C[f][n - 1] + 2
                /\ S[C[f][n - 1] + 1].ch = SLIP_ESC
                /\ S[C[f][n]].ch = IF pay[n] = SLIP_END THEN SLIP_ESC_END ELSE SLIP_ESC_ESC
           ELSE C[f][n] = C[f][n - 1] + 1 /\ S[C[f][n]].ch = pay[n]
  BY SpelledFacts
<1> HIDE DEF N, pay
<1>3. C[f][n - 1] \in Nat /\ C[f][n] \in Nat /\ C[f][n] < A[f]
  BY <1>2
<1>4. CASE Special(pay[n])
  <2>1. x = C[f][n - 1] + 1 \/ x = C[f][n]
    BY <1>1, <1>2, <1>3, <1>4
  <2>2. CASE x = C[f][n - 1] + 1
    BY <1>2, <1>3, <1>4, <2>2, Chars
  <2>3. CASE x = C[f][n]
    BY <1>2, <1>4, <2>3, Chars
  <2> QED BY <2>1, <2>2, <2>3
<1>5. CASE ~Special(pay[n])
  <2>1. x = C[f][n]
    BY <1>1, <1>2, <1>3, <1>5
  <2> QED BY <1>2, <1>5, <2>1 DEF Special
<1> QED BY <1>4, <1>5

LEMMA Edges ==
  ASSUME NEW S, NEW A, NEW C, Shape(S, A, C), payload \in [Frame -> Payloads],
         NEW x \in 1..Len(S)
  PROVE  LET f == S[x].of IN
         /\ S[x].ch = SLIP_END => x = A[f - 1] + 1 \/ x = A[f]
         /\ S[x].ch = SLIP_ESC => x + 2 <= A[f]
<1> DEFINE f == S[x].of
<1>1. f \in Frame /\ A[f - 1] \in Nat /\ A[f] \in Nat /\ A[f - 1] < x /\ x <= A[f] /\ x \in Nat
  BY Position
<1>2. S[A[f - 1] + 1].ch = SLIP_END /\ S[A[f]].ch = SLIP_END
  BY <1>1, SpelledFacts
<1> HIDE DEF f
<1>3. CASE x = A[f - 1] + 1
  BY <1>2, <1>3, Chars DEF f
<1>4. CASE x = A[f]
  BY <1>2, <1>4, Chars DEF f
<1>5. CASE x # A[f - 1] + 1 /\ x # A[f]
  <2>1. A[f - 1] + 1 < x /\ x < A[f]
    BY <1>1, <1>5
  <2> QED BY <1>1, <2>1, Inside DEF f
<1> QED BY <1>3, <1>4, <1>5

-------------------------------------------------------------------------------
\* What the slip thread does with one byte.

Outcome(b) ==
  \/ /\ b.ch = SLIP_END /\ state = NORMAL /\ Packet = <<>>
     /\ state' = NORMAL /\ Packet' = <<>> /\ log' = log /\ hurt' = hurt
  \/ /\ b.ch = SLIP_END /\ state = NORMAL /\ Packet # <<>>
     /\ state' = NORMAL /\ Packet' = <<>>
     /\ \/ log' = Append(log, Packet) /\ hurt' = hurt
        \/ log' = log /\ hurt' = hurt \union {c.of : c \in ToSet(Packet)}
  \/ /\ b.ch = SLIP_ESC /\ state = NORMAL
     /\ state' = ESCAPE /\ Packet' = Packet /\ log' = log /\ hurt' = hurt
  \/ /\ state = ESCAPE \/ b.ch \notin {SLIP_END, SLIP_ESC}
     /\ state' = NORMAL /\ log' = log
     /\ \/ Packet' = Append(Packet, IF state = ESCAPE THEN Unescape(b) ELSE b) /\ hurt' = hurt
        \/ Packet' = Packet /\ hurt' = hurt \union {b.of}

LEMMA EmptyPacket ==
  ASSUME IInv PROVE (recved = 0 <=> Packet = <<>>) /\ Packet \in Seq(Cell)
<1>1. recved \in Nat /\ Len(Packet) = recved /\ mem \in Seq(Cell) /\ recved <= Len(mem)
  BY CursorFacts DEF Packet
<1>2. Packet \in Seq(Cell)
  BY <1>1 DEF Packet
<1>3. recved = 0 => Packet = <<>>
  BY <1>1 DEF Packet
<1>4. Packet = <<>> => Len(Packet) = 0
  <2>1. Len(<<>>) = 0
    OBVIOUS
  <2> QED BY <2>1
<1> QED BY <1>1, <1>2, <1>3, <1>4

LEMMA SlipOutcome ==
  ASSUME IInv, SlipThread, Head(queueUART) \in Byte
  PROVE  Outcome(Head(queueUART))
<1> DEFINE b == Head(queueUART)
<1>1. CASE /\ RxEnd(b)
           /\ log' = IF mbox' # mbox THEN Append(log, out') ELSE log
           /\ hurt' = IF mbox' # mbox THEN hurt ELSE hurt \union {c.of : c \in ToSet(Packet)}
  <2>1. /\ b.ch = SLIP_END /\ state = NORMAL /\ state' = NORMAL /\ recved > 0
        /\ mem' = <<>> /\ recved' = 0
    BY <1>1 DEF RxEnd
  <2>2. Packet # <<>>
    BY <2>1, EmptyPacket
  <2>3. Packet' = <<>>
    BY <2>1 DEF Packet
  <2>4. mbox' # mbox => out' = Packet
    BY <1>1 DEF RxEnd, Input, Packet
  <2> QED BY <1>1, <2>1, <2>2, <2>3, <2>4 DEF Outcome
<1>2. CASE RxIdleEnd(b) /\ UNCHANGED <<log, hurt>>
  <2>1. /\ b.ch = SLIP_END /\ state = NORMAL /\ state' = NORMAL /\ recved = 0
        /\ mem' = mem /\ recved' = recved
    BY <1>2 DEF RxIdleEnd, vars
  <2>2. Packet = <<>>
    BY <2>1, EmptyPacket
  <2>3. Packet' = Packet
    BY <2>1 DEF Packet
  <2> QED BY <1>2, <2>1, <2>2, <2>3 DEF Outcome
<1>3. CASE RxEsc(b) /\ UNCHANGED <<log, hurt>>
  <2>1. b.ch = SLIP_ESC /\ state = NORMAL /\ state' = ESCAPE /\ Packet' = Packet
    BY <1>3 DEF RxEsc, Packet
  <2> QED BY <1>3, <2>1 DEF Outcome
<1>4. CASE /\ RxData(b)
           /\ hurt' = IF recved' > recved THEN hurt ELSE hurt \union {b.of}
           /\ UNCHANGED log
  <2>1. (state = ESCAPE \/ b.ch \notin {SLIP_END, SLIP_ESC}) /\ state' = NORMAL
    BY <1>4 DEF RxData, IInv, TypeOK
  <2>2. \/ Packet' = Append(Packet, IF state = ESCAPE THEN Unescape(b) ELSE b) /\ recved' > recved
        \/ Packet' = Packet /\ recved' = recved
    BY <1>4, RxDataStores DEF Packet
  <2>3. recved' = recved => ~(recved' > recved)
    BY DEF IInv, TypeOK
  <2> QED BY <1>4, <2>1, <2>2, <2>3 DEF Outcome
<1> QED BY <1>1, <1>2, <1>3, <1>4 DEF SlipThread, Packet
-------------------------------------------------------------------------------
\* Where the program stands in S.

LinkType == /\ payload \in [Frame -> Payloads]
            /\ lost \in [Frame -> Nat]
            /\ hurt \subseteq Frame

Placed(S, v, d, c) ==
  /\ v \in Seq(Nat) /\ d \in Nat /\ c \in Nat /\ d <= c /\ c <= Len(S)
  /\ Len(v) = Len(queueUART) /\ queueUART \in Seq(Byte) /\ line \in Seq(Byte)
  /\ \A k \in 1..Len(v) : queueUART[k] = S[v[k]] /\ d < v[k] /\ v[k] <= c
  /\ \A j, k \in 1..Len(v) : j < k => v[j] < v[k]
  /\ Len(line) = Len(S) - c
  /\ \A k \in 1..Len(line) : line[k] = S[c + k]

\* The byte at x was lost before the slip thread came to it.
Gone(v, d, c, x) == x \in Nat /\ d < x /\ x <= c /\ \A k \in 1..Len(v) : v[k] # x

\* The ghosts know of it, and of two of one frame.
Counted(S, v, d, c) ==
  /\ \A x \in Nat : Gone(v, d, c, x) => S[x].of \in hurt /\ lost[S[x].of] >= 1
  /\ \A x, y \in Nat : Gone(v, d, c, x) /\ Gone(v, d, c, y) /\ x < y /\ S[x].of = S[y].of
                         => lost[S[x].of] >= 2

\* The slip thread waits for the second byte of an escape after an ESC only.
EscapeOpen(S, d) == state = ESCAPE => d >= 1 /\ S[d].ch = SLIP_ESC

Sorted(s) == \A m, n \in 1..Len(s) : m <= n => s[m].of <= s[n].of
Earlier(s, t) == \A m \in 1..Len(s), n \in 1..Len(t) : s[m].of < t[n].of

\* The packet under way and the packets delivered, against what is still to come.
Ordered(S, d) ==
  /\ Packet \in Seq(Byte) /\ Sorted(Packet)
  /\ \A k \in 1..Len(Packet) : d >= 1 /\ Packet[k].of <= S[d].of
  /\ log \in Seq(Seq(Byte))
  /\ \A j \in 1..Len(log) : log[j] # <<>> /\ Sorted(log[j]) /\ Earlier(log[j], Packet)
  /\ \A j, l \in 1..Len(log) : j < l => Earlier(log[j], log[l])
  /\ \A j \in 1..Len(log) : \A m \in 1..Len(log[j]) :
       \A x \in 1..Len(S) : d < x => log[j][m].of < S[x].of

LEMMA FrontByte ==
  ASSUME NEW S, NEW v, NEW d, NEW c, Placed(S, v, d, c), queueUART # <<>>
  PROVE  /\ v # <<>> /\ Len(v) >= 1 /\ v[1] \in Nat /\ d < v[1] /\ v[1] <= c /\ v[1] \in 1..Len(S)
         /\ Head(queueUART) = S[v[1]] /\ Head(queueUART) \in Byte
<1>1. v \in Seq(Nat) /\ Len(v) = Len(queueUART) /\ queueUART \in Seq(Byte) /\ d \in Nat /\ c \in Nat
      /\ c <= Len(S)
  BY DEF Placed
<1>2. Len(queueUART) \in Nat /\ Len(queueUART) >= 1
  BY <1>1
<1>3. 1 \in 1..Len(v) /\ v # <<>> /\ Len(v) >= 1
  BY <1>1, <1>2
<1>4. queueUART[1] = S[v[1]] /\ d < v[1] /\ v[1] <= c
  BY <1>3 DEF Placed
<1>5. v[1] \in Nat
  BY <1>1, <1>3
<1>6. Head(queueUART) = queueUART[1] /\ Head(queueUART) \in Byte
  BY <1>1, <1>2
<1>7. v[1] \in 1..Len(S)
  BY <1>1, <1>4, <1>5
<1> QED BY <1>3, <1>4, <1>5, <1>6, <1>7

LEMMA SlipPlaced ==
  ASSUME NEW S, NEW v, NEW d, NEW c, Placed(S, v, d, c), queueUART # <<>>,
         queueUART' = Tail(queueUART), line' = line
  PROVE  Placed(S, Tail(v), v[1], c)'
<1>1. /\ v # <<>> /\ Len(v) >= 1 /\ v[1] \in Nat /\ d < v[1] /\ v[1] <= c
  BY FrontByte
<1>2. /\ v \in Seq(Nat) /\ d \in Nat /\ c \in Nat /\ d <= c /\ c <= Len(S)
      /\ Len(v) = Len(queueUART) /\ queueUART \in Seq(Byte) /\ line \in Seq(Byte)
      /\ \A k \in 1..Len(v) : queueUART[k] = S[v[k]] /\ d < v[k] /\ v[k] <= c
      /\ \A j, k \in 1..Len(v) : j < k => v[j] < v[k]
      /\ Len(line) = Len(S) - c
      /\ \A k \in 1..Len(line) : line[k] = S[c + k]
  BY DEF Placed
<1> DEFINE w == Tail(v)
           r == Tail(queueUART)
<1>3. /\ w \in Seq(Nat) /\ Len(w) = Len(v) - 1 /\ \A k \in 1..Len(w) : w[k] = v[k + 1]
      /\ r \in Seq(Byte) /\ Len(r) = Len(w) /\ \A k \in 1..Len(w) : r[k] = queueUART[k + 1]
  BY <1>1, <1>2
<1> HIDE DEF w, r
<1>4. \A k \in 1..Len(w) : k + 1 \in 1..Len(v) /\ 1 < k + 1 /\ 1 \in 1..Len(v)
  BY <1>1, <1>2, <1>3
<1>5. \A k \in 1..Len(w) : r[k] = S[w[k]] /\ v[1] < w[k] /\ w[k] <= c
  BY <1>2, <1>3, <1>4
<1>6. \A j, k \in 1..Len(w) : j < k => w[j] < w[k]
  <2> SUFFICES ASSUME NEW j \in 1..Len(w), NEW k \in 1..Len(w), j < k PROVE w[j] < w[k]
    OBVIOUS
  <2>1. j + 1 < k + 1
    OBVIOUS
  <2> QED BY <1>2, <1>3, <1>4, <2>1
<1>7. queueUART' = r
  BY DEF r
<1> QED BY <1>1, <1>2, <1>3, <1>5, <1>6, <1>7 DEF Placed, w

\* The line gives up its first byte.
LEMMA LinePlaced ==
  ASSUME NEW S \in Seq(Byte), NEW v, NEW d, NEW c, Placed(S, v, d, c), line # <<>>, line' = Tail(line)
  PROVE  /\ c + 1 \in 1..Len(S) /\ Head(line) = S[c + 1]
         /\ queueUART' = queueUART => Placed(S, v, d, c + 1)'
         /\ queueUART' = Append(queueUART, Head(line)) => Placed(S, Append(v, c + 1), d, c + 1)'
<1>1. /\ v \in Seq(Nat) /\ d \in Nat /\ c \in Nat /\ d <= c /\ c <= Len(S) /\ Len(S) \in Nat
      /\ Len(v) = Len(queueUART) /\ queueUART \in Seq(Byte) /\ line \in Seq(Byte)
      /\ \A k \in 1..Len(v) : queueUART[k] = S[v[k]] /\ d < v[k] /\ v[k] <= c
      /\ \A j, k \in 1..Len(v) : j < k => v[j] < v[k]
      /\ Len(line) = Len(S) - c
      /\ \A k \in 1..Len(line) : line[k] = S[c + k]
  BY DEF Placed
<1>2. Len(line) >= 1 /\ 1 \in 1..Len(line) /\ Head(line) = line[1]
  BY <1>1
<1>3. c + 1 \in 1..Len(S) /\ Head(line) = S[c + 1]
  BY <1>1, <1>2
<1> DEFINE l == Tail(line)
<1>4. l \in Seq(Byte) /\ Len(l) = Len(line) - 1 /\ \A k \in 1..Len(l) : l[k] = line[k + 1]
  BY <1>1, <1>2
<1> HIDE DEF l
<1>5. l \in Seq(Byte) /\ Len(l) = Len(S) - (c + 1)
  BY <1>1, <1>4
<1>6. \A k \in 1..Len(l) : l[k] = S[(c + 1) + k]
  <2> SUFFICES ASSUME NEW k \in 1..Len(l) PROVE l[k] = S[(c + 1) + k]
    OBVIOUS
  <2>1. k + 1 \in 1..Len(line) /\ c + (k + 1) = (c + 1) + k
    BY <1>1, <1>4
  <2> QED BY <1>1, <1>4, <2>1
<1>7. d <= c + 1 /\ c + 1 <= Len(S) /\ c + 1 \in Nat /\ line' = l
  BY <1>1, <1>3 DEF l
<1>8. ASSUME queueUART' = queueUART PROVE Placed(S, v, d, c + 1)'
  <2>1. \A k \in 1..Len(v) : v[k] \in Nat
    BY <1>1
  <2>2. \A k \in 1..Len(v) : queueUART[k] = S[v[k]] /\ d < v[k] /\ v[k] <= c + 1
    BY <1>1, <2>1
  <2> QED BY <1>1, <1>5, <1>6, <1>7, <1>8, <2>2 DEF Placed
<1>9. ASSUME queueUART' = Append(queueUART, Head(line))
      PROVE  Placed(S, Append(v, c + 1), d, c + 1)'
  <2> DEFINE w == Append(v, c + 1)
             r == Append(queueUART, S[c + 1])
             n == Len(v)
  <2>1. S[c + 1] \in Byte /\ n \in Nat
    BY <1>1, <1>3
  <2>2. /\ w \in Seq(Nat) /\ Len(w) = n + 1 /\ w[n + 1] = c + 1 /\ \A k \in 1..n : w[k] = v[k] /\ v[k] \in Nat
        /\ r \in Seq(Byte) /\ Len(r) = n + 1 /\ r[n + 1] = S[c + 1] /\ \A k \in 1..n : r[k] = queueUART[k]
    BY <1>1, <1>7, <2>1
  <2> HIDE DEF w, r
  <2>3. queueUART' = r
    BY <1>3, <1>9 DEF r
  <2>4. ASSUME NEW k \in 1..(n + 1) PROVE r[k] = S[w[k]] /\ d < w[k] /\ w[k] <= c + 1
    <3>1. CASE k = n + 1
      BY <1>1, <2>2, <3>1
    <3>2. CASE k # n + 1
      <4>1. k \in 1..n
        BY <2>1, <3>2
      <4>2. w[k] = v[k] /\ v[k] \in Nat /\ r[k] = queueUART[k]
        BY <2>2, <4>1
      <4>3. queueUART[k] = S[v[k]] /\ d < v[k] /\ v[k] <= c
        BY <1>1, <4>1
      <4>4. v[k] <= c + 1
        BY <1>1, <4>2, <4>3
      <4> QED BY <4>2, <4>3, <4>4
    <3> QED BY <3>1, <3>2
  <2>5. ASSUME NEW j \in 1..(n + 1), NEW k \in 1..(n + 1), j < k PROVE w[j] < w[k]
    <3>1. j \in 1..n
      BY <2>1, <2>5
    <3>2. CASE k = n + 1
      <4>1. w[j] = v[j] /\ v[j] \in Nat /\ v[j] <= c /\ w[k] = c + 1
        BY <1>1, <2>2, <3>1, <3>2
      <4> QED BY <1>1, <4>1
    <3>3. CASE k # n + 1
      <4>1. k \in 1..n
        BY <2>1, <3>3
      <4> QED BY <1>1, <2>2, <2>5, <3>1, <4>1
    <3> QED BY <3>2, <3>3
  <2> HIDE DEF n
  <2>6. Len(w) = Len(r) /\ 1..Len(w) = 1..(n + 1)
    BY <2>2
  <2> QED BY <1>1, <1>5, <1>6, <1>7, <2>2, <2>3, <2>4, <2>5, <2>6 DEF Placed, w
<1> QED BY <1>3, <1>8, <1>9

-------------------------------------------------------------------------------
\* What was lost.

LEMMA CountedKept ==
  ASSUME NEW S, NEW v, NEW d, NEW c, NEW w, NEW e, NEW z, Counted(S, v, d, c),
         \A x \in Nat : Gone(w, e, z, x) => Gone(v, d, c, x),
         lost' = lost, hurt \subseteq hurt'
  PROVE  Counted(S, w, e, z)'
BY DEF Counted

LEMMA SlipCounted ==
  ASSUME NEW S, NEW v, NEW d, NEW c, Placed(S, v, d, c), Counted(S, v, d, c),
         queueUART # <<>>, lost' = lost, hurt \subseteq hurt'
  PROVE  Counted(S, Tail(v), v[1], c)'
<1>1. v # <<>> /\ Len(v) >= 1 /\ v[1] \in Nat /\ d < v[1] /\ v[1] <= c
  BY FrontByte
<1>2. v \in Seq(Nat) /\ d \in Nat /\ c \in Nat
  BY DEF Placed
<1>3. ASSUME NEW x \in Nat, Gone(Tail(v), v[1], c, x) PROVE Gone(v, d, c, x)
  <2>1. v[1] < x /\ x <= c /\ \A k \in 1..Len(Tail(v)) : Tail(v)[k] # x
    BY <1>3 DEF Gone
  <2>2. ASSUME NEW k \in 1..Len(v) PROVE v[k] # x
    <3>1. CASE k = 1
      BY <1>1, <2>1, <3>1
    <3>2. CASE k # 1
      <4>1. k - 1 \in 1..Len(Tail(v)) /\ Tail(v)[k - 1] = v[(k - 1) + 1] /\ (k - 1) + 1 = k
        BY <1>1, <1>2, <3>2
      <4> QED BY <2>1, <4>1
    <3> QED BY <3>1, <3>2
  <2> QED BY <1>1, <1>2, <2>1, <2>2 DEF Gone
<1> QED BY <1>3, CountedKept

LEMMA IsrCounted ==
  ASSUME NEW S, NEW v, NEW d, NEW c, Placed(S, v, d, c), Counted(S, v, d, c),
         lost' = lost, hurt' = hurt
  PROVE  Counted(S, Append(v, c + 1), d, c + 1)'
<1>1. v \in Seq(Nat) /\ c \in Nat /\ Len(v) \in Nat
  BY DEF Placed
<1>2. ASSUME NEW x \in Nat, Gone(Append(v, c + 1), d, c + 1, x) PROVE Gone(v, d, c, x)
  <2> DEFINE w == Append(v, c + 1)
  <2>1. Len(w) = Len(v) + 1 /\ w[Len(v) + 1] = c + 1 /\ \A k \in 1..Len(v) : w[k] = v[k]
    BY <1>1
  <2>2. d < x /\ x <= c + 1 /\ \A k \in 1..Len(w) : w[k] # x
    BY <1>2 DEF Gone
  <2> HIDE DEF w
  <2>3. Len(v) + 1 \in 1..Len(w) /\ \A k \in 1..Len(v) : k \in 1..Len(w)
    BY <1>1, <2>1
  <2>4. x # c + 1 /\ \A k \in 1..Len(v) : v[k] # x
    BY <2>1, <2>2, <2>3
  <2>5. x <= c
    BY <1>1, <2>2, <2>4
  <2> QED BY <2>2, <2>4, <2>5 DEF Gone
<1> QED BY <1>2, CountedKept

LEMMA DropCounted ==
  ASSUME NEW S, NEW v, NEW d, NEW c, LinkType, Placed(S, v, d, c), Counted(S, v, d, c),
         S[c + 1].of \in Frame,
         lost' = [lost EXCEPT ![S[c + 1].of] = @ + 1], hurt' = hurt \union {S[c + 1].of}
  PROVE  Counted(S, v, d, c + 1)'
<1> DEFINE f == S[c + 1].of
<1>1. c \in Nat /\ f \in Frame
  BY DEF Placed
<1>2. /\ lost \in [Frame -> Nat] /\ lost'[f] = lost[f] + 1 /\ lost[f] \in Nat
      /\ \A g : g # f => lost'[g] = lost[g]
  BY <1>1 DEF LinkType
<1>3. \A x \in Nat : Gone(v, d, c + 1, x) => Gone(v, d, c, x) \/ x = c + 1
  BY <1>1 DEF Gone
<1> HIDE DEF f
<1>4. hurt' = hurt \union {f} /\ f = S[c + 1].of
  BY DEF f
<1>5. ASSUME NEW x \in Nat, Gone(v, d, c, x)
      PROVE  S[x].of \in hurt /\ lost[S[x].of] >= 1
  BY <1>5 DEF Counted
<1>6. ASSUME NEW x \in Nat, Gone(v, d, c + 1, x)
      PROVE  S[x].of \in hurt' /\ lost'[S[x].of] >= 1
  <2>1. CASE x = c + 1
    BY <1>2, <1>4, <2>1
  <2>2. CASE x # c + 1
    <3>1. S[x].of \in hurt /\ lost[S[x].of] >= 1
      BY <1>3, <1>5, <1>6, <2>2
    <3>2. CASE S[x].of = f
      BY <1>2, <1>4, <3>1, <3>2
    <3>3. CASE S[x].of # f
      BY <1>2, <1>4, <3>1, <3>3
    <3> QED BY <3>2, <3>3
  <2> QED BY <2>1, <2>2
<1>7. ASSUME NEW x \in Nat, NEW y \in Nat, Gone(v, d, c + 1, x), Gone(v, d, c + 1, y), x < y,
             S[x].of = S[y].of
      PROVE  lost'[S[x].of] >= 2
  <2>1. Gone(v, d, c, x)
    <3>1. x <= c + 1 /\ y <= c + 1
      BY <1>7 DEF Gone
    <3>2. x # c + 1
      BY <1>1, <1>7, <3>1
    <3> QED BY <1>3, <1>7, <3>2
  <2>2. CASE y = c + 1
    <3>1. S[x].of = f /\ lost[f] >= 1
      BY <1>4, <1>5, <1>7, <2>1, <2>2
    <3> QED BY <1>2, <3>1
  <2>3. CASE y # c + 1
    <3>1. Gone(v, d, c, y)
      BY <1>3, <1>7, <2>3
    <3>2. lost[S[x].of] >= 2
      BY <1>7, <2>1, <3>1 DEF Counted
    <3>3. CASE S[x].of = f
      BY <1>2, <3>2, <3>3
    <3>4. CASE S[x].of # f
      BY <1>2, <3>2, <3>4
    <3> QED BY <3>3, <3>4
  <2> QED BY <2>2, <2>3
<1> QED BY <1>6, <1>7 DEF Counted

-------------------------------------------------------------------------------
\* The order of the packets.

LEMMA ByteTag == ASSUME NEW b \in Byte PROVE b.of \in Nat /\ Unescape(b).of = b.of /\ Unescape(b) \in Byte
<1>1. b.of \in Nat
  BY LinkAssumption DEF Byte, Frame
<1>2. Unescape(b).of = b.of
  BY Chars DEF Unescape, Byte
<1> QED BY <1>1, <1>2, UnescapeByte

\* Where an END stands a frame begins or ends.
LEMMA EndSeparates ==
  ASSUME NEW S, NEW A, NEW C, Shape(S, A, C), payload \in [Frame -> Payloads],
         NEW d \in 1..Len(S), NEW e \in 1..Len(S), NEW x \in 1..Len(S), d < e, e < x,
         S[e].ch = SLIP_END
  PROVE  S[d].of < S[x].of
<1> DEFINE f == S[d].of
           g == S[e].of
           h == S[x].of
<1>1. f <= g /\ g <= h
  BY TagsAscend
<1>2. /\ f \in Nat /\ f - 1 \in 0..NFrames /\ A[f - 1] \in Nat /\ A[f - 1] < d
      /\ g \in Nat /\ g - 1 \in 0..NFrames /\ g \in 0..NFrames /\ A[g - 1] \in Nat /\ A[g] \in Nat
      /\ h \in Nat /\ h \in 0..NFrames /\ A[h] \in Nat /\ x <= A[h]
  BY Position
<1>3. e = A[g - 1] + 1 \/ e = A[g]
  BY Edges
<1> HIDE DEF f, g, h
<1>4. CASE e = A[g]
  <2>1. g # h
    BY <1>2, <1>4
  <2> QED BY <1>1, <1>2, <2>1 DEF f, h
<1>5. CASE e = A[g - 1] + 1
  <2>1. f # g
    BY <1>2, <1>5
  <2> QED BY <1>1, <1>2, <2>1 DEF f, h
<1> QED BY <1>3, <1>4, <1>5

LEMMA OrderedSame ==
  ASSUME NEW S, NEW d, Ordered(S, d), Packet' = Packet, log' = log
  PROVE  Ordered(S, d)'
BY DEF Ordered

\* Going on to a later byte without using it.
LEMMA OrderedLater ==
  ASSUME NEW S, NEW A, NEW C, Shape(S, A, C), NEW d \in Nat, NEW e \in 1..Len(S), d < e,
         Ordered(S, d)
  PROVE  Ordered(S, e)
<1>1. /\ Packet \in Seq(Byte) /\ Sorted(Packet)
      /\ \A k \in 1..Len(Packet) : d >= 1 /\ Packet[k].of <= S[d].of
      /\ log \in Seq(Seq(Byte))
      /\ \A j \in 1..Len(log) : log[j] # <<>> /\ Sorted(log[j]) /\ Earlier(log[j], Packet)
      /\ \A j, l \in 1..Len(log) : j < l => Earlier(log[j], log[l])
      /\ \A j \in 1..Len(log) : \A m \in 1..Len(log[j]) :
           \A x \in 1..Len(S) : d < x => log[j][m].of < S[x].of
  BY DEF Ordered
<1>2. ASSUME NEW k \in 1..Len(Packet) PROVE e >= 1 /\ Packet[k].of <= S[e].of
  <2>1. d >= 1 /\ Packet[k].of <= S[d].of /\ d \in 1..Len(S)
    BY <1>1
  <2>2. S[d].of <= S[e].of
    BY <2>1, TagsAscend
  <2>3. Packet[k].of \in Nat
    <3>1. Packet[k] \in Byte
      BY <1>1
    <3> QED BY <3>1, ByteTag
  <2>4. S[d].of \in Nat /\ S[e].of \in Nat
    BY <2>1, Position
  <2> QED BY <2>1, <2>2, <2>3, <2>4
<1>3. \A j \in 1..Len(log) : \A m \in 1..Len(log[j]) :
        \A x \in 1..Len(S) : e < x => log[j][m].of < S[x].of
  BY <1>1
<1> QED BY <1>1, <1>2, <1>3 DEF Ordered

\* A packet that ends, whether it is delivered or not.
LEMMA OrderedEnd ==
  ASSUME NEW S, NEW A, NEW C, Shape(S, A, C), payload \in [Frame -> Payloads],
         NEW d \in Nat, NEW e \in 1..Len(S), d < e,
         Ordered(S, d), S[e].ch = SLIP_END, Packet' = <<>>,
         log' = log \/ (Packet # <<>> /\ log' = Append(log, Packet))
  PROVE  Ordered(S, e)'
<1>1. /\ Packet \in Seq(Byte) /\ Sorted(Packet)
      /\ \A k \in 1..Len(Packet) : d >= 1 /\ Packet[k].of <= S[d].of
      /\ log \in Seq(Seq(Byte)) /\ Len(log) \in Nat
      /\ \A j \in 1..Len(log) : log[j] # <<>> /\ Sorted(log[j]) /\ Earlier(log[j], Packet)
      /\ \A j, l \in 1..Len(log) : j < l => Earlier(log[j], log[l])
      /\ \A j \in 1..Len(log) : \A m \in 1..Len(log[j]) :
           \A x \in 1..Len(S) : d < x => log[j][m].of < S[x].of
  BY DEF Ordered
<1>2. /\ Packet' \in Seq(Byte) /\ Sorted(Packet') /\ Len(Packet') = 0
      /\ \A s : Earlier(s, Packet')
      /\ \A k \in 1..Len(Packet') : e >= 1 /\ Packet'[k].of <= S[e].of
  BY DEF Sorted, Earlier
<1>3. \A j \in 1..Len(log) : \A m \in 1..Len(log[j]) :
        \A x \in 1..Len(S) : e < x => log[j][m].of < S[x].of
  BY <1>1
<1>4. CASE log' = log
  BY <1>1, <1>2, <1>3, <1>4 DEF Ordered
<1>5. CASE Packet # <<>> /\ log' = Append(log, Packet)
  <2> DEFINE n == Len(log)
  <2>1. /\ log' \in Seq(Seq(Byte)) /\ Len(log') = n + 1 /\ log'[n + 1] = Packet
        /\ \A j \in 1..n : log'[j] = log[j]
    BY <1>1, <1>5
  <2>2. \A j \in 1..(n + 1) : j \in 1..n \/ j = n + 1
    BY <1>1
  <2>3. ASSUME NEW j \in 1..(n + 1) PROVE log'[j] # <<>> /\ Sorted(log'[j])
    <3>1. CASE j = n + 1
      BY <1>1, <1>5, <2>1, <3>1
    <3>2. CASE j \in 1..n
      BY <1>1, <2>1, <3>2
    <3> QED BY <2>2, <3>1, <3>2
  <2>4. ASSUME NEW j \in 1..(n + 1), NEW l \in 1..(n + 1), j < l PROVE Earlier(log'[j], log'[l])
    <3>1. j \in 1..n
      BY <1>1, <2>4
    <3>2. CASE l = n + 1
      BY <1>1, <2>1, <3>1, <3>2
    <3>3. CASE l \in 1..n
      BY <1>1, <2>1, <2>4, <3>1, <3>3
    <3> QED BY <2>2, <3>2, <3>3
  <2>5. ASSUME NEW j \in 1..(n + 1), NEW m \in 1..Len(log'[j]), NEW x \in 1..Len(S), e < x
        PROVE  log'[j][m].of < S[x].of
    <3>1. CASE j = n + 1
      <4>1. m \in 1..Len(Packet) /\ log'[j] = Packet
        BY <2>1, <3>1
      <4>2. d >= 1 /\ Packet[m].of <= S[d].of /\ d \in 1..Len(S)
        BY <1>1, <4>1
      <4>3. S[d].of < S[x].of
        BY <2>5, <4>2, EndSeparates
      <4>4. Packet[m].of \in Nat
        <5>1. Packet[m] \in Byte
          BY <1>1, <4>1
        <5> QED BY <5>1, ByteTag
      <4>5. S[d].of \in Nat /\ S[x].of \in Nat
        BY <4>2, Position
      <4> QED BY <4>1, <4>2, <4>3, <4>4, <4>5
    <3>2. CASE j \in 1..n
      BY <1>3, <2>1, <2>5, <3>2
    <3> QED BY <2>2, <3>1, <3>2
  <2> HIDE DEF n
  <2>6. 1..Len(log') = 1..(n + 1)
    BY <2>1
  <2> QED BY <1>2, <2>1, <2>3, <2>4, <2>5, <2>6 DEF Ordered
<1> QED BY <1>4, <1>5

\* A byte that is stored.
LEMMA OrderedData ==
  ASSUME NEW S, NEW A, NEW C, Shape(S, A, C),
         NEW d \in Nat, NEW e \in 1..Len(S), d < e,
         Ordered(S, d), NEW b \in Byte, b.of = S[e].of, Packet' = Append(Packet, b), log' = log
  PROVE  Ordered(S, e)'
<1>1. /\ Packet \in Seq(Byte) /\ Sorted(Packet)
      /\ \A k \in 1..Len(Packet) : e >= 1 /\ Packet[k].of <= S[e].of
      /\ log \in Seq(Seq(Byte))
      /\ \A j \in 1..Len(log) : log[j] # <<>> /\ Sorted(log[j]) /\ Earlier(log[j], Packet)
      /\ \A j, l \in 1..Len(log) : j < l => Earlier(log[j], log[l])
      /\ \A j \in 1..Len(log) : \A m \in 1..Len(log[j]) :
           \A x \in 1..Len(S) : e < x => log[j][m].of < S[x].of
  BY OrderedLater DEF Ordered
<1>2. \A j \in 1..Len(log) : \A m \in 1..Len(log[j]) : log[j][m].of < S[e].of
  BY DEF Ordered
<1> DEFINE n == Len(Packet)
           P == Append(Packet, b)
<1>3. /\ P \in Seq(Byte) /\ Len(P) = n + 1 /\ P[n + 1] = b /\ n \in Nat
      /\ \A k \in 1..n : P[k] = Packet[k]
  BY <1>1
<1>4. \A k \in 1..(n + 1) : k \in 1..n \/ k = n + 1
  BY <1>3
<1>5. b.of \in Nat /\ \A k \in 1..n : Packet[k].of \in Nat
  <2>1. \A k \in 1..n : Packet[k] \in Byte
    BY <1>1
  <2> QED BY <2>1, ByteTag
<1> HIDE DEF P, n
<1>6. \A k \in 1..(n + 1) : e >= 1 /\ P[k].of <= S[e].of
  <2> SUFFICES ASSUME NEW k \in 1..(n + 1) PROVE P[k].of <= S[e].of
    OBVIOUS
  <2>1. CASE k = n + 1
    BY <1>3, <1>5, <2>1
  <2>2. CASE k \in 1..n
    BY <1>1, <1>3, <2>2 DEF n
  <2> QED BY <1>4, <2>1, <2>2
<1>7. Sorted(P)
  <2> SUFFICES ASSUME NEW j \in 1..(n + 1), NEW k \in 1..(n + 1), j <= k PROVE P[j].of <= P[k].of
    BY <1>3 DEF Sorted
  <2>1. CASE k = n + 1
    BY <1>3, <1>6, <2>1
  <2>2. CASE k \in 1..n
    <3>1. j \in 1..n
      BY <1>3, <2>2
    <3> QED BY <1>1, <1>3, <2>2, <3>1 DEF Sorted, n
  <2> QED BY <1>4, <2>1, <2>2
<1>8. ASSUME NEW j \in 1..Len(log) PROVE Earlier(log[j], P)
  <2> SUFFICES ASSUME NEW m \in 1..Len(log[j]), NEW k \in 1..(n + 1) PROVE log[j][m].of < P[k].of
    BY <1>3 DEF Earlier
  <2>1. CASE k = n + 1
    BY <1>2, <1>3, <2>1
  <2>2. CASE k \in 1..n
    <3>1. Earlier(log[j], Packet)
      BY <1>1
    <3> QED BY <1>3, <2>2, <3>1 DEF Earlier, n
  <2> QED BY <1>4, <2>1, <2>2
<1>9. Packet' = P /\ 1..Len(P) = 1..(n + 1)
  BY <1>3 DEF P
<1> QED BY <1>1, <1>3, <1>6, <1>7, <1>8, <1>9 DEF Ordered

LEMMA SlipOrdered ==
  ASSUME NEW S, NEW A, NEW C, Shape(S, A, C), payload \in [Frame -> Payloads],
         NEW d \in Nat, NEW e \in 1..Len(S), d < e, Ordered(S, d), Outcome(S[e])
  PROVE  Ordered(S, e)'
<1>1. S[e] \in Byte
  BY DEF Shape
<1>2. CASE Packet' = Packet /\ log' = log
  BY <1>2, OrderedLater, OrderedSame
<1>3. CASE /\ S[e].ch = SLIP_END /\ Packet' = <<>>
           /\ log' = log \/ (Packet # <<>> /\ log' = Append(log, Packet))
  BY <1>3, OrderedEnd
<1>4. CASE Packet' = Append(Packet, IF state = ESCAPE THEN Unescape(S[e]) ELSE S[e]) /\ log' = log
  <2> DEFINE b == IF state = ESCAPE THEN Unescape(S[e]) ELSE S[e]
  <2>1. b \in Byte /\ b.of = S[e].of
    BY <1>1, ByteTag
  <2>2. Packet' = Append(Packet, b)
    BY <1>4
  <2> HIDE DEF b
  <2> QED BY <1>4, <2>1, <2>2, OrderedData
<1> QED BY <1>2, <1>3, <1>4 DEF Outcome
-------------------------------------------------------------------------------
\* A frame no byte of which is lost.

\* Neither was a byte of the frame before, or no frame loses more than one.
Clean(f) == f \notin hurt /\ (f - 1 \notin hurt \/ \A g \in Frame : lost[g] <= 1)

Reached(A, C, d, f) ==
  LET pay == payload[f] N == Len(pay) IN
  /\ \A n \in 0..N : d = C[f][n] =>
       state = NORMAL /\ Packet = Tagged(SubSeq(pay, 1, n), f)
  /\ \A n \in 1..N : Special(pay[n]) /\ d = C[f][n - 1] + 1 =>
       state = ESCAPE /\ Packet = Tagged(SubSeq(pay, 1, n - 1), f)
  /\ d >= A[f] => Intact(f)

\* The slip thread does not pass over a byte of it.
LEMMA NotSkipped ==
  ASSUME NEW S, NEW A, NEW C, Shape(S, A, C), NEW v, NEW d, NEW c,
         Placed(S, v, d, c), Counted(S, v, d, c), queueUART # <<>>,
         NEW x \in 1..Len(S), S[x].of \notin hurt, d < x
  PROVE  v[1] <= x
<1>1. /\ v # <<>> /\ Len(v) >= 1 /\ v[1] \in Nat /\ v[1] <= c
  BY FrontByte
<1>2. v \in Seq(Nat) /\ c \in Nat /\ x \in Nat /\ \A j, k \in 1..Len(v) : j < k => v[j] < v[k]
  BY DEF Placed
<1>3. CASE x > c
  BY <1>1, <1>2, <1>3
<1>4. CASE x <= c
  <2>1. ~Gone(v, d, c, x)
    BY <1>2 DEF Counted
  <2>2. PICK k \in 1..Len(v) : v[k] = x
    BY <1>2, <1>4, <2>1 DEF Gone
  <2>3. 1 \in 1..Len(v) /\ (k = 1 \/ 1 < k)
    BY <1>1, <1>2, <2>2
  <2> QED BY <1>1, <1>2, <2>2, <2>3
<1> QED BY <1>1, <1>2, <1>3, <1>4

\* When the END that opens a clean frame comes up, no escape is open: its two bytes would
\* have been lost with the rest of a frame before.
LEMMA OpeningNormal ==
  ASSUME NEW S, NEW A, NEW C, Shape(S, A, C), LinkType, NEW v, NEW d, NEW c,
         Placed(S, v, d, c), Counted(S, v, d, c), EscapeOpen(S, d), queueUART # <<>>,
         NEW f \in Frame, Clean(f), v[1] = A[f - 1] + 1
  PROVE  state # ESCAPE
<1> SUFFICES ASSUME state = ESCAPE PROVE FALSE
  OBVIOUS
<1>1. /\ v # <<>> /\ Len(v) >= 1 /\ v[1] \in Nat /\ d < v[1] /\ v[1] <= c
      /\ v[1] \in 1..Len(S)
  BY FrontByte
<1>2. /\ v \in Seq(Nat) /\ d \in Nat /\ c \in Nat /\ d <= c /\ c <= Len(S) /\ Len(S) \in Nat
      /\ payload \in [Frame -> Payloads]
  BY DEF Placed, LinkType, Shape
<1>3. d \in 1..Len(S) /\ S[d].ch = SLIP_ESC
  BY <1>2 DEF EscapeOpen
<1> DEFINE g == S[d].of
<1>4. /\ g \in Frame /\ g \in Nat /\ g - 1 \in 0..NFrames /\ g \in 0..NFrames
      /\ A[g - 1] \in Nat /\ A[g] \in Nat /\ A[g - 1] < d /\ d <= A[g] /\ A[g] <= Len(S)
  BY <1>3, Position
<1>5. d + 2 <= A[g]
  BY <1>2, <1>3, Edges
<1>6. /\ f \in Nat /\ A[f - 1] \in Nat /\ A[f] \in Nat /\ A[f - 1] < A[f] /\ A[f] <= Len(S)
      /\ f - 1 \in 0..NFrames /\ f - 1 \in Nat
  <2>1. /\ f \in Nat /\ A[f - 1] \in Nat /\ A[f] \in Nat /\ A[f] <= Len(S)
    BY <1>2, SpelledFacts
  <2>2. LET N == Len(payload[f]) IN N \in Nat \ {0} /\ \A n \in 0..N : C[f][n] \in Nat /\ A[f - 1] < C[f][n] /\ C[f][n] < A[f]
    BY <1>2, SpelledFacts
  <2>3. A[f - 1] < A[f]
    BY <2>1, <2>2
  <2>4. f - 1 \in 0..NFrames /\ f - 1 \in Nat
    BY LinkAssumption DEF Frame
  <2> QED BY <2>1, <2>3, <2>4
<1> HIDE DEF g
<1>7. d + 1 <= A[g] /\ d + 1 \in Nat /\ d + 2 \in Nat /\ A[g - 1] < d + 1 /\ A[g - 1] < d + 2
  BY <1>2, <1>4, <1>5
<1>8. d + 1 \in 1..Len(S) /\ d + 2 \in 1..Len(S) /\ S[d + 1].of = g /\ S[d + 2].of = g
  <2>1. S[d + 1].of = g /\ S[d + 2].of = g
    BY <1>4, <1>5, <1>7 DEF Shape
  <2> QED BY <1>2, <1>4, <1>5, <1>7, <2>1
<1>9. g < f /\ A[g] <= A[f - 1]
  <2>1. CASE f <= g
    <3>1. f - 1 <= g - 1
      BY <1>4, <1>6, <2>1
    <3>2. A[f - 1] <= A[g - 1]
      BY <1>4, <1>6, <3>1 DEF Shape
    <3> QED BY <1>1, <1>2, <1>4, <1>6, <3>2
  <2>2. CASE g < f
    <3>1. g <= f - 1
      BY <1>4, <1>6, <2>2
    <3>2. A[g] <= A[f - 1]
      BY <1>4, <1>6, <3>1 DEF Shape
    <3> QED BY <2>2, <3>2
  <2> QED BY <1>4, <1>6, <2>1, <2>2
<1>10. d + 2 < v[1] /\ d + 1 < v[1]
  BY <1>2, <1>4, <1>5, <1>6, <1>9
<1>11. CASE f - 1 \notin hurt
  <2>1. f - 1 \in Frame /\ A[f - 1] \in 1..Len(S)
    <3>1. g >= 1 /\ f \in 1..NFrames /\ NFrames \in Nat
      BY <1>4, LinkAssumption DEF Frame
    <3>2. f - 1 \in Frame
      BY <1>4, <1>6, <1>9, <3>1 DEF Frame
    <3>3. A[f - 1] >= 1
      BY <1>3, <1>4, <1>6, <1>9
    <3> QED BY <1>2, <1>6, <3>2, <3>3
  <2>2. A[(f - 1) - 1] < A[f - 1]
    <3>1. LET N == Len(payload[f - 1]) IN
          N \in Nat \ {0} /\ \A n \in 0..N : C[f - 1][n] \in Nat /\ A[(f - 1) - 1] < C[f - 1][n] /\ C[f - 1][n] < A[f - 1]
      BY <1>2, <2>1, SpelledFacts
    <3>2. A[(f - 1) - 1] \in Nat
      BY <1>2, <2>1, SpelledFacts
    <3> QED BY <1>6, <3>1, <3>2
  <2>3. S[A[f - 1]].of = f - 1
    BY <1>6, <2>1, <2>2 DEF Shape
  <2>4. d < A[f - 1]
    BY <1>2, <1>4, <1>5, <1>6, <1>9
  <2>5. v[1] <= A[f - 1]
    BY <1>11, <2>1, <2>3, <2>4, NotSkipped
  <2> QED BY <1>6, <2>5
<1>12. CASE \A k \in Frame : lost[k] <= 1
  <2>1. ASSUME NEW x \in Nat, d < x, x < v[1] PROVE Gone(v, d, c, x)
    <3>1. \A k \in 1..Len(v) : v[k] # x
      <4> SUFFICES ASSUME NEW k \in 1..Len(v) PROVE v[k] # x
        OBVIOUS
      <4>1. 1 \in 1..Len(v) /\ (k = 1 \/ 1 < k) /\ v[k] \in Nat
        BY <1>1, <1>2
      <4>2. v[1] <= v[k]
        BY <1>1, <4>1 DEF Placed
      <4> QED BY <1>1, <2>1, <4>1, <4>2
    <3>2. x <= c
      BY <1>1, <1>2, <2>1
    <3> QED BY <2>1, <3>1, <3>2 DEF Gone
  <2>2. Gone(v, d, c, d + 1) /\ Gone(v, d, c, d + 2) /\ d + 1 < d + 2
    BY <1>2, <1>7, <1>10, <2>1
  <2>3. lost[g] >= 2
    BY <1>7, <1>8, <2>2 DEF Counted
  <2>4. lost[g] <= 1 /\ lost[g] \in Nat
    BY <1>4, <1>12 DEF LinkType
  <2> QED BY <2>3, <2>4
<1> QED BY <1>11, <1>12 DEF Clean

\* One more byte of the payload is in the packet.
LEMMA TaggedNext ==
  ASSUME NEW pay \in Seq(Char), NEW n \in 1..Len(pay), NEW f
  PROVE  /\ Tagged(SubSeq(pay, 1, n), f) =
              Append(Tagged(SubSeq(pay, 1, n - 1), f), [ch |-> pay[n], of |-> f])
         /\ Tagged(SubSeq(pay, 1, 0), f) = <<>>
         /\ Tagged(SubSeq(pay, 1, Len(pay)), f) = Tagged(pay, f)
<1> DEFINE s == SubSeq(pay, 1, n)
           r == SubSeq(pay, 1, n - 1)
<1>1. n \in Nat /\ n - 1 \in Nat /\ Len(pay) \in Nat /\ n <= Len(pay)
  OBVIOUS
<1>2. /\ s \in Seq(Char) /\ Len(s) = n /\ \A k \in 1..n : s[k] = pay[k]
      /\ r \in Seq(Char) /\ Len(r) = n - 1 /\ \A k \in 1..(n - 1) : r[k] = pay[k]
  BY <1>1
<1>3. SubSeq(pay, 1, Len(pay)) = pay
  BY <1>1
<1>4. SubSeq(pay, 1, 0) = <<>>
  BY <1>1
<1>5. Tagged(<<>>, f) = <<>>
  BY DEF Tagged
<1> HIDE DEF s, r
<1>6. Tagged(s, f) = [k \in 1..n |-> [ch |-> s[k], of |-> f]]
      /\ Tagged(r, f) = [k \in 1..(n - 1) |-> [ch |-> r[k], of |-> f]]
  <2>1. DOMAIN s = 1..n /\ DOMAIN r = 1..(n - 1)
    BY <1>2
  <2> QED BY <2>1 DEF Tagged
<1> DEFINE U == Tagged(r, f)
           V == Tagged(s, f)
           b == [ch |-> pay[n], of |-> f]
<1>7. /\ U = [k \in 1..(n - 1) |-> [ch |-> pay[k], of |-> f]]
      /\ V = [k \in 1..n |-> [ch |-> pay[k], of |-> f]]
  BY <1>2, <1>6
<1> DEFINE B == {[ch |-> pay[k], of |-> f] : k \in 1..n}
<1>8. U \in Seq(B) /\ V \in Seq(B) /\ b \in B /\ Len(U) = n - 1 /\ Len(V) = n
  <2> HIDE DEF U, V
  <2>1. \A k \in 1..n : [ch |-> pay[k], of |-> f] \in B
    OBVIOUS
  <2>2. n \in 1..n /\ \A k \in 1..(n - 1) : k \in 1..n
    BY <1>1
  <2> HIDE DEF B
  <2>3. U \in [1..(n - 1) -> B] /\ V \in [1..n -> B]
    BY <1>7, <2>1, <2>2
  <2> QED BY <1>1, <2>1, <2>2, <2>3
<1> HIDE DEF U, V, B, b
<1>9. V = Append(U, b)
  <2> DEFINE W == Append(U, b)
  <2>1. W \in Seq(B) /\ Len(W) = n /\ W[n] = b /\ \A k \in 1..(n - 1) : W[k] = U[k]
    BY <1>1, <1>8
  <2> HIDE DEF W
  <2>2. \A k \in 1..n : V[k] = W[k]
    <3> SUFFICES ASSUME NEW k \in 1..n PROVE V[k] = W[k]
      OBVIOUS
    <3>1. CASE k = n
      BY <1>7, <2>1, <3>1 DEF b
    <3>2. CASE k # n
      <4>1. k \in 1..(n - 1)
        BY <1>1, <3>2
      <4> QED BY <1>7, <2>1, <4>1
    <3> QED BY <3>1, <3>2
  <2>3. V = W
    BY <1>8, <2>1, <2>2, SeqEqual
  <2> QED BY <2>3 DEF W
<1> QED BY <1>3, <1>4, <1>5, <1>9 DEF U, V, s, r, b
\* One byte of a clean frame is processed.
LEMMA SlipReached ==
  ASSUME NEW S, NEW A, NEW C, Shape(S, A, C), LinkType, NEW v, NEW d, NEW c,
         Placed(S, v, d, c), Counted(S, v, d, c), EscapeOpen(S, d), Ordered(S, d),
         queueUART # <<>>, Outcome(S[v[1]]), payload' = payload, hurt \subseteq hurt', lost' = lost,
         NEW f \in Frame, Clean(f) => Reached(A, C, d, f), Clean(f)'
  PROVE  Reached(A, C, v[1], f)'
<1> DEFINE e == v[1]
           pay == payload[f]
           N == Len(pay)
           T(n) == Tagged(SubSeq(pay, 1, n), f)
<1>1. e \in Nat /\ d < e /\ d \in Nat /\ e \in 1..Len(S) /\ payload \in [Frame -> Payloads] /\ Len(S) \in Nat
  BY FrontByte DEF Placed, LinkType, Shape
<1>2. /\ pay \in Seq(Char) /\ N \in Nat \ {0}
      /\ f \in Nat /\ A[f - 1] \in Nat /\ A[f] \in Nat /\ A[f] <= Len(S)
      /\ \A n \in 0..N : C[f][n] \in Nat /\ A[f - 1] < C[f][n] /\ C[f][n] < A[f]
      /\ \A n \in 1..N : n - 1 \in 0..N /\ n \in 0..N /\ pay[n] \in Char
      /\ C[f][0] = A[f - 1] + 1 /\ A[f] = C[f][N] + 1
      /\ S[A[f - 1] + 1].ch = SLIP_END /\ S[A[f]].ch = SLIP_END
      /\ \A n \in 1..N :
           IF Special(pay[n])
             THEN /\ C[f][n] = C[f][n - 1] + 2
                  /\ S[C[f][n - 1] + 1].ch = SLIP_ESC
                  /\ S[C[f][n]].ch = IF pay[n] = SLIP_END THEN SLIP_ESC_END ELSE SLIP_ESC_ESC
             ELSE C[f][n] = C[f][n - 1] + 1 /\ S[C[f][n]].ch = pay[n]
  BY <1>1, SpelledFacts
<1>3. Clean(f) /\ f \notin hurt /\ f \notin hurt'
  BY DEF Clean
<1>4. \A n \in 1..N : /\ T(n) = Append(T(n - 1), [ch |-> pay[n], of |-> f])
                      /\ T(0) = <<>> /\ T(N) = Tagged(pay, f)
  BY <1>2, TaggedNext
<1>5. /\ \A n \in 0..N : d = C[f][n] => state = NORMAL /\ Packet = T(n)
      /\ \A n \in 1..N : Special(pay[n]) /\ d = C[f][n - 1] + 1 => state = ESCAPE /\ Packet = T(n - 1)
      /\ d >= A[f] => Intact(f)
  BY <1>3 DEF Reached
<1> HIDE DEF T, N, pay, e
<1>6. 1 \in 1..N /\ N \in 1..N /\ N \in 0..N
  BY <1>2
<1>7. ASSUME NEW x \in Nat, A[f - 1] < x, x <= A[f]
      PROVE  x \in 1..Len(S) /\ S[x].of = f /\ (d < x => e <= x)
  <2>1. x \in 1..Len(S)
    BY <1>1, <1>2, <1>7
  <2>2. S[x].of = f
    BY <1>7 DEF Shape
  <2>3. d < x => v[1] <= x
    BY <1>3, <2>1, <2>2, NotSkipped
  <2> QED BY <2>1, <2>2, <2>3 DEF e
<1>8. Outcome(S[e])
  BY DEF e
<1>9. S[e] \in Byte
  BY <1>1 DEF Shape
\* The opening END.
<1>10. ASSUME e = C[f][0] PROVE state' = NORMAL /\ Packet' = T(0)
  <2>1. state # ESCAPE
    <3>1. v[1] = A[f - 1] + 1
      BY <1>2, <1>10 DEF e
    <3> QED BY <1>3, <3>1, OpeningNormal
  <2>2. S[e].ch = SLIP_END
    BY <1>2, <1>10
  <2>3. state' = NORMAL /\ Packet' = <<>>
    BY <1>8, <2>1, <2>2, Chars DEF Outcome
  <2> QED BY <1>4, <1>6, <2>3
\* A byte of the payload that needs no escape, or the second byte of an escape.
<1>11. ASSUME NEW n \in 1..N, e = C[f][n] PROVE state' = NORMAL /\ Packet' = T(n)
  <2> DEFINE b == [ch |-> pay[n], of |-> f]
  <2>1. /\ n - 1 \in 0..N /\ n \in 0..N /\ C[f][n] \in Nat /\ C[f][n - 1] \in Nat /\ pay[n] \in Char
        /\ A[f - 1] < C[f][n] /\ C[f][n] < A[f] /\ A[f - 1] < C[f][n - 1] /\ C[f][n - 1] < A[f]
    BY <1>2
  <2>2. S[e].of = f
    <3>1. C[f][n] <= A[f]
      <4>1. A[f] \in Nat
        BY <1>2
      <4> QED BY <2>1, <4>1
    <3>2. S[C[f][n]].of = f
      BY <1>7, <2>1, <3>1
    <3> QED BY <1>11, <3>2
  <2>3. CASE ~Special(pay[n])
    <3>1. C[f][n] = C[f][n - 1] + 1 /\ S[e].ch = pay[n]
      BY <1>2, <1>11, <2>3
    <3>2. d = C[f][n - 1]
      <4>1. C[f][n - 1] <= A[f]
        <5>1. A[f] \in Nat
          BY <1>2
        <5> QED BY <2>1, <5>1
      <4>2. d < C[f][n - 1] => e <= C[f][n - 1]
        BY <1>7, <2>1, <4>1
      <4>3. ~(d < C[f][n - 1])
        BY <1>11, <2>1, <3>1, <4>2
      <4> QED BY <1>1, <1>11, <2>1, <3>1, <4>3
    <3>3. state = NORMAL /\ Packet = T(n - 1)
      BY <1>5, <2>1, <3>2
    <3>4. S[e] = b
      BY <1>9, <2>2, <3>1 DEF Byte
    <3>5. S[e].ch \notin {SLIP_END, SLIP_ESC}
      BY <2>3, <3>1 DEF Special
    <3>6. S[e].of \in hurt \union {S[e].of} /\ S[e].of \notin hurt'
      BY <1>3, <2>2
    <3>7. state' = NORMAL /\ Packet' = Append(Packet, S[e])
      BY <1>8, <3>3, <3>5, <3>6, Chars DEF Outcome
    <3> QED BY <1>4, <3>3, <3>4, <3>7
  <2>4. CASE Special(pay[n])
    <3>1. /\ C[f][n] = C[f][n - 1] + 2
          /\ S[e].ch = IF pay[n] = SLIP_END THEN SLIP_ESC_END ELSE SLIP_ESC_ESC
      BY <1>2, <1>11, <2>4
    <3>2. d = C[f][n - 1] + 1
      <4>1. ~(d < C[f][n - 1] + 1)
        <5>1. A[f - 1] \in Nat /\ A[f] \in Nat
          BY <1>2
        <5>2. C[f][n - 1] + 1 \in Nat /\ A[f - 1] < C[f][n - 1] + 1
          BY <2>1, <5>1
        <5>3. C[f][n - 1] + 1 <= A[f]
          BY <2>1, <5>1
        <5>4. d < C[f][n - 1] + 1 => e <= C[f][n - 1] + 1
          BY <1>7, <5>2, <5>3
        <5> QED BY <1>11, <2>1, <3>1, <5>4
      <4> QED BY <1>1, <1>11, <2>1, <3>1, <4>1
    <3>3. state = ESCAPE /\ Packet = T(n - 1)
      BY <1>5, <2>4, <3>2
    <3>4. Unescape(S[e]) = b
      <4>1. Unescape(S[e]) \in Byte /\ Unescape(S[e]).of = f
        BY <1>9, <2>2, ByteTag
      <4>2. Unescape(S[e]).ch = pay[n]
        BY <1>9, <2>4, <3>1, Chars DEF Unescape, Special, Byte
      <4> QED BY <4>1, <4>2 DEF Byte
    <3>5. S[e].of \in hurt \union {S[e].of} /\ S[e].of \notin hurt'
      BY <1>3, <2>2
    <3>6. state' = NORMAL /\ Packet' = Append(Packet, Unescape(S[e]))
      BY <1>8, <3>3, <3>5, Chars DEF Outcome
    <3> QED BY <1>4, <3>3, <3>4, <3>6
  <2> QED BY <2>3, <2>4
\* The first byte of an escape.
<1>12. ASSUME NEW n \in 1..N, Special(pay[n]), e = C[f][n - 1] + 1
       PROVE  state' = ESCAPE /\ Packet' = T(n - 1)
  <2>1. n - 1 \in 0..N /\ C[f][n - 1] \in Nat /\ A[f - 1] < C[f][n - 1] /\ C[f][n - 1] < A[f]
    BY <1>2
  <2>2. S[e].ch = SLIP_ESC
    BY <1>2, <1>12
  <2>3. d = C[f][n - 1]
    <3>1. C[f][n - 1] <= A[f]
      BY <1>2, <2>1
    <3>2. d < C[f][n - 1] => e <= C[f][n - 1]
      BY <1>7, <2>1, <3>1
    <3>3. ~(d < C[f][n - 1])
      BY <1>12, <2>1, <3>2
    <3> QED BY <1>1, <1>12, <2>1, <3>3
  <2>4. state = NORMAL /\ Packet = T(n - 1)
    BY <1>5, <2>1, <2>3
  <2> QED BY <1>8, <2>2, <2>4, Chars DEF Outcome
\* The closing END, and what comes after it.
<1>13. log \in Seq(Seq(Byte))
  BY DEF Ordered
<1>14. ASSUME Intact(f) PROVE Intact(f)'
  <2>1. log' = log \/ log' = Append(log, Packet)
    BY <1>8 DEF Outcome
  <2>2. PICK j \in 1..Len(log) : log[j] = Tagged(pay, f)
    <3>1. \E j \in DOMAIN log : log[j] = Tagged(pay, f)
      BY <1>14, Zenon DEF Intact, ToSet, pay
    <3>2. DOMAIN log = 1..Len(log)
      BY <1>13
    <3> QED BY <3>1, <3>2
  <2>3. j \in DOMAIN log' /\ log'[j] = Tagged(pay, f)
    <3>1. CASE log' = log
      BY <1>13, <2>2, <3>1
    <3>2. CASE log' = Append(log, Packet)
      BY <1>13, <2>2, <3>2
    <3> QED BY <2>1, <3>1, <3>2
  <2> QED BY <2>3 DEF Intact, ToSet, pay
<1>15. ASSUME e >= A[f] PROVE Intact(f)'
  <2>1. CASE d >= A[f]
    BY <1>5, <1>14, <2>1
  <2>2. CASE ~(d >= A[f])
    <3>1. C[f][N] \in Nat /\ A[f - 1] < C[f][N] /\ A[f] = C[f][N] + 1
      BY <1>2, <1>6
    <3>2. e = A[f]
      <4>1. A[f - 1] \in Nat /\ A[f] \in Nat
        BY <1>2
      <4>2. A[f - 1] < A[f] /\ A[f] <= A[f] /\ d < A[f]
        BY <1>1, <2>2, <3>1, <4>1
      <4>3. d < A[f] => e <= A[f]
        BY <1>7, <4>1, <4>2
      <4> QED BY <1>1, <1>15, <4>1, <4>2, <4>3
    <3>3. d = C[f][N]
      <4>1. A[f] \in Nat /\ C[f][N] <= A[f]
        BY <1>2, <3>1
      <4>2. d < C[f][N] => e <= C[f][N]
        BY <1>7, <3>1, <4>1
      <4>3. ~(d < C[f][N])
        BY <3>1, <3>2, <4>2
      <4> QED BY <1>1, <2>2, <3>1, <4>1, <4>3
    <3>4. state = NORMAL /\ Packet = T(N)
      BY <1>5, <1>6, <3>3
    <3>5. S[e].ch = SLIP_END
      BY <1>2, <3>2
    <3>6. Packet # <<>> /\ Len(Packet) >= 1 /\ Packet[1].of = f
      <4>1. Packet = Tagged(pay, f)
        BY <1>4, <1>6, <3>4
      <4>2. DOMAIN pay = 1..N
        BY <1>2 DEF N
      <4>3. Packet = [k \in 1..N |-> [ch |-> pay[k], of |-> f]]
        BY <4>1, <4>2 DEF Tagged
      <4>4. Packet[1].of = f /\ 1 \in DOMAIN Packet
        BY <1>6, <4>3
      <4>5. Packet \in Seq(Byte)
        BY DEF Ordered
      <4> QED BY <4>4, <4>5
    <3>7. f \in {b.of : b \in ToSet(Packet)}
      <4>1. 1 \in DOMAIN Packet
        <5>1. Packet \in Seq(Byte)
          BY DEF Ordered
        <5> QED BY <3>6, <5>1
      <4> QED BY <3>6, <4>1 DEF ToSet
    <3>8. hurt' # hurt \union {b.of : b \in ToSet(Packet)}
      BY <1>3, <3>7
    <3>9. log' = Append(log, Packet)
      BY <1>8, <3>4, <3>5, <3>6, <3>8, Chars DEF Outcome
    <3>10. Packet = Tagged(pay, f)
      BY <1>4, <1>6, <3>4
    <3>11. Packet \in Seq(Byte)
      BY DEF Ordered
    <3>12. Len(log) + 1 \in DOMAIN log' /\ log'[Len(log) + 1] = Packet
      BY <1>13, <3>9, <3>11
    <3> QED BY <3>10, <3>12 DEF Intact, ToSet, pay
  <2> QED BY <2>1, <2>2
<1>16. \A n \in 0..N : e = C[f][n] => state' = NORMAL /\ Packet' = T(n)
  <2>1. \A n \in 0..N : n = 0 \/ n \in 1..N
    BY <1>2
  <2> QED BY <1>10, <1>11, <2>1
<1> QED BY <1>12, <1>15, <1>16 DEF Reached, e, N, pay, T

LEMMA CleanBefore ==
  ASSUME NEW f \in Frame, LinkType, Clean(f)', hurt \subseteq hurt',
         \A g \in Frame : lost'[g] <= 1 => lost[g] <= 1
  PROVE  Clean(f)
BY DEF Clean

LEMMA ReachedSame ==
  ASSUME NEW A, NEW C, NEW d, NEW f \in Frame, Reached(A, C, d, f),
         payload' = payload, state' = state, Packet' = Packet, log' = log
  PROVE  Reached(A, C, d, f)'
BY DEF Reached, Intact

-------------------------------------------------------------------------------
\* The invariant of the line.

Stands(S, A, C, v, d, c) ==
  /\ Shape(S, A, C)
  /\ Placed(S, v, d, c)
  /\ Counted(S, v, d, c)
  /\ EscapeOpen(S, d)
  /\ Ordered(S, d)
  /\ \A f \in Frame : Clean(f) => Reached(A, C, d, f)

LInv == /\ IInv
        /\ LinkType
        /\ \E S, A, C, v, d, c : Stands(S, A, C, v, d, c)

LEMMA InitStands == LinkInit => LInv
<1> SUFFICES ASSUME LinkInit PROVE LInv
  OBVIOUS
<1>1. IInv
  BY InitInv DEF LinkInit
<1>2. LinkType
  BY DEF LinkInit, LinkType
<1> DEFINE S == Stream(payload)
<1>3. PICK A, C : Shape(S, A, C)
  BY <1>2, StreamShape DEF LinkType
<1>4. S \in Seq(Byte) /\ Len(S) \in Nat /\ line = S /\ queueUART = <<>>
  <2>1. S \in Seq(Byte) /\ line = S /\ queueUART = <<>>
    BY <1>3 DEF Shape, LinkInit
  <2> HIDE DEF S
  <2> QED BY <2>1
<1> HIDE DEF S
<1>5. Placed(S, <<>>, 0, 0)
  BY <1>4 DEF Placed
<1>6. Counted(S, <<>>, 0, 0)
  BY DEF Counted, Gone
<1>7. state = NORMAL /\ Packet = <<>> /\ log = <<>>
  BY DEF LinkInit, Init, Packet
<1>8. EscapeOpen(S, 0)
  BY <1>7, Chars DEF EscapeOpen
<1>9. Ordered(S, 0)
  BY <1>7 DEF Ordered, Sorted
<1>10. ASSUME NEW f \in Frame PROVE Reached(A, C, 0, f)
  <2> DEFINE pay == payload[f]
             N == Len(pay)
  <2>1. /\ N \in Nat \ {0} /\ A[f - 1] \in Nat /\ A[f] \in Nat
        /\ \A n \in 0..N : C[f][n] \in Nat /\ A[f - 1] < C[f][n] /\ C[f][n] < A[f]
        /\ \A n \in 1..N : n - 1 \in 0..N
    BY <1>2, <1>3, SpelledFacts DEF LinkType
  <2> HIDE DEF N
  <2>2. \A n \in 0..N : C[f][n] > 0
    BY <2>1
  <2>3. \A n \in 1..N : C[f][n - 1] + 1 > 0
    BY <2>1, <2>2
  <2>4. A[f] > 0
    <3>1. 0 \in 0..N
      BY <2>1
    <3> QED BY <2>1, <2>2, <3>1
  <2> QED BY <2>1, <2>2, <2>3, <2>4 DEF Reached, N
<1> QED BY <1>1, <1>2, <1>3, <1>5, <1>6, <1>8, <1>9, <1>10 DEF LInv, Stands

LEMMA ShapeSame ==
  ASSUME NEW S, NEW A, NEW C, Shape(S, A, C), payload' = payload
  PROVE  Shape(S, A, C)'
<1>1. ASSUME NEW f \in Frame PROVE Spelled(S, A, C, f)'
  <2>1. Spelled(S, A, C, f)
    BY DEF Shape
  <2> QED BY <2>1 DEF Spelled
<1> QED BY <1>1 DEF Shape

\* The interrupt handler, on a byte it queues.
LEMMA IsrStands ==
  ASSUME LInv, Isr PROVE \E S, A, C, v, d, c : Stands(S, A, C, v, d, c)'
<1>1. PICK S, A, C, v, d, c : Stands(S, A, C, v, d, c)
  BY DEF LInv
<1>2. /\ Shape(S, A, C) /\ Placed(S, v, d, c) /\ Counted(S, v, d, c) /\ EscapeOpen(S, d)
      /\ Ordered(S, d) /\ \A f \in Frame : Clean(f) => Reached(A, C, d, f)
  BY <1>1 DEF Stands
<1>3. /\ line # <<>> /\ line' = Tail(line) /\ queueUART' = Append(queueUART, Head(line))
      /\ UNCHANGED <<vars, payload, lost, hurt, log>>
  BY DEF Isr
<1>4. state' = state /\ Packet' = Packet /\ payload' = payload /\ lost' = lost /\ hurt' = hurt /\ log' = log
  BY <1>3 DEF vars, Packet
<1>5. S \in Seq(Byte)
  BY <1>2 DEF Shape
<1>6. Placed(S, Append(v, c + 1), d, c + 1)'
  BY <1>2, <1>3, <1>5, LinePlaced
<1>7. Counted(S, Append(v, c + 1), d, c + 1)'
  BY <1>2, <1>4, IsrCounted
<1>8. EscapeOpen(S, d)'
  BY <1>2, <1>4 DEF EscapeOpen
<1>9. Ordered(S, d)'
  BY <1>2, <1>4, OrderedSame
<1>10. ASSUME NEW f \in Frame, Clean(f)' PROVE Reached(A, C, d, f)'
  <2>1. Clean(f)
    BY <1>4, <1>10 DEF Clean
  <2> QED BY <1>2, <1>4, <2>1, ReachedSame
<1>11. Shape(S, A, C)'
  BY <1>2, <1>4, ShapeSame
<1>12. Stands(S, A, C, Append(v, c + 1), d, c + 1)'
  BY <1>6, <1>7, <1>8, <1>9, <1>10, <1>11 DEF Stands
<1> QED BY <1>12

\* The interrupt handler, on a byte it loses.
LEMMA DropStands ==
  ASSUME LInv, IsrDrop PROVE LinkType' /\ \E S, A, C, v, d, c : Stands(S, A, C, v, d, c)'
<1>1. PICK S, A, C, v, d, c : Stands(S, A, C, v, d, c)
  BY DEF LInv
<1>2. /\ Shape(S, A, C) /\ Placed(S, v, d, c) /\ Counted(S, v, d, c) /\ EscapeOpen(S, d)
      /\ Ordered(S, d) /\ (\A f \in Frame : Clean(f) => Reached(A, C, d, f))
      /\ LinkType
  BY <1>1 DEF Stands, LInv
<1>3. /\ line # <<>> /\ line' = Tail(line) /\ queueUART' = queueUART
      /\ lost' = [lost EXCEPT ![Head(line).of] = @ + 1]
      /\ hurt' = hurt \union {Head(line).of}
      /\ UNCHANGED <<vars, payload, queueUART, log>>
  BY DEF IsrDrop
<1>4. state' = state /\ Packet' = Packet /\ payload' = payload /\ log' = log
  BY <1>3 DEF vars, Packet
<1>5. S \in Seq(Byte)
  BY <1>2 DEF Shape
<1>6. /\ Placed(S, v, d, c + 1)' /\ c + 1 \in 1..Len(S) /\ Head(line) = S[c + 1]
  BY <1>2, <1>3, <1>5, LinePlaced
<1>7. S[c + 1].of \in Frame
  BY <1>2, <1>6, Position
<1>8. Counted(S, v, d, c + 1)'
  BY <1>2, <1>3, <1>6, <1>7, DropCounted
<1>9. EscapeOpen(S, d)'
  BY <1>2, <1>4 DEF EscapeOpen
<1>10. Ordered(S, d)'
  BY <1>2, <1>4, OrderedSame
<1>11. LinkType'
  BY <1>2, <1>3, <1>4, <1>6, <1>7 DEF LinkType
<1>12. \A g \in Frame : lost'[g] <= 1 => lost[g] <= 1
  <2> SUFFICES ASSUME NEW g \in Frame, lost'[g] <= 1 PROVE lost[g] <= 1
    OBVIOUS
  <2>1. lost[g] \in Nat /\ (lost'[g] = lost[g] \/ lost'[g] = lost[g] + 1)
    BY <1>2, <1>3 DEF LinkType
  <2> QED BY <2>1
<1>13. ASSUME NEW f \in Frame, Clean(f)' PROVE Reached(A, C, d, f)'
  <2>1. Clean(f)
    BY <1>2, <1>3, <1>12, <1>13, CleanBefore
  <2> QED BY <1>2, <1>4, <2>1, ReachedSame
<1>14. Shape(S, A, C)'
  BY <1>2, <1>4, ShapeSame
<1>15. Stands(S, A, C, v, d, c + 1)'
  BY <1>6, <1>8, <1>9, <1>10, <1>13, <1>14 DEF Stands
<1> QED BY <1>11, <1>15

\* The slip thread.
LEMMA SlipStands ==
  ASSUME LInv, SlipThread
  PROVE  LinkType' /\ IInv' /\ \E S, A, C, v, d, c : Stands(S, A, C, v, d, c)'
<1>1. PICK S, A, C, v, d, c : Stands(S, A, C, v, d, c)
  BY DEF LInv
<1>2. /\ Shape(S, A, C) /\ Placed(S, v, d, c) /\ Counted(S, v, d, c) /\ EscapeOpen(S, d)
      /\ Ordered(S, d) /\ (\A f \in Frame : Clean(f) => Reached(A, C, d, f))
      /\ LinkType /\ IInv
  BY <1>1 DEF Stands, LInv
<1>3. /\ queueUART # <<>> /\ queueUART' = Tail(queueUART) /\ line' = line /\ payload' = payload
      /\ lost' = lost
  BY DEF SlipThread, Readable
<1> DEFINE e == v[1]
<1>4. /\ e \in Nat /\ d < e /\ e \in 1..Len(S) /\ Head(queueUART) = S[e]
      /\ Head(queueUART) \in Byte /\ d \in Nat
  BY <1>2, <1>3, FrontByte DEF Placed
<1>5. Outcome(S[e])
  BY <1>2, <1>4, SlipOutcome
<1>6. S[e].of \in Frame
  BY <1>2, <1>4, Position
<1>7. hurt \subseteq hurt' /\ hurt' \subseteq Frame
  <2>1. \A b \in ToSet(Packet) : b.of \in Frame
    <3>1. Packet \in Seq(Byte)
      BY <1>2 DEF Ordered
    <3>2. \A k \in DOMAIN Packet : Packet[k] \in Byte
      BY <3>1
    <3> QED BY <3>2, LinkAssumption DEF ToSet, Byte
  <2>2. hurt \subseteq Frame
    BY <1>2 DEF LinkType
  <2> QED BY <1>5, <1>6, <2>1, <2>2 DEF Outcome
<1>8. LinkType'
  BY <1>2, <1>3, <1>7 DEF LinkType
<1>9. IInv'
  <2>1. \E b \in Byte : RxByte(b)
    BY <1>4 DEF SlipThread, RxByte
  <2>2. [Next]_vars
    BY <2>1 DEF Next
  <2> QED BY <1>2, <2>2, NextInv
<1>10. Placed(S, Tail(v), e, c)'
  BY <1>2, <1>3, SlipPlaced
<1>11. Counted(S, Tail(v), e, c)'
  BY <1>2, <1>3, <1>7, SlipCounted
<1>12. EscapeOpen(S, e)'
  BY <1>4, <1>5, Chars DEF Outcome, EscapeOpen
<1>13. Ordered(S, e)'
  BY <1>2, <1>4, <1>5, SlipOrdered DEF LinkType
<1>14. ASSUME NEW f \in Frame, Clean(f)' PROVE Reached(A, C, e, f)'
  BY <1>2, <1>3, <1>5, <1>7, <1>14, SlipReached
<1>15. Shape(S, A, C)'
  BY <1>2, <1>3, ShapeSame
<1>16. Stands(S, A, C, Tail(v), e, c)'
  BY <1>10, <1>11, <1>12, <1>13, <1>14, <1>15 DEF Stands
<1> QED BY <1>8, <1>9, <1>16

\* The stack above, which sees neither the line nor the packet under way.
LEMMA UpperStands ==
  ASSUME LInv, UNCHANGED <<rxVars, payload, line, queueUART, lost, hurt, log>>
  PROVE  LinkType' /\ \E S, A, C, v, d, c : Stands(S, A, C, v, d, c)'
<1>1. PICK S, A, C, v, d, c : Stands(S, A, C, v, d, c)
  BY DEF LInv
<1>2. /\ Shape(S, A, C) /\ Placed(S, v, d, c) /\ Counted(S, v, d, c) /\ EscapeOpen(S, d)
      /\ Ordered(S, d) /\ (\A f \in Frame : Clean(f) => Reached(A, C, d, f))
      /\ LinkType
  BY <1>1 DEF Stands, LInv
<1>3. /\ state' = state /\ Packet' = Packet /\ payload' = payload /\ log' = log
      /\ lost' = lost /\ hurt' = hurt /\ line' = line /\ queueUART' = queueUART
  BY DEF rxVars, Packet
<1>4. LinkType' /\ Placed(S, v, d, c)' /\ Counted(S, v, d, c)' /\ EscapeOpen(S, d)'
  BY <1>2, <1>3 DEF LinkType, Placed, Counted, EscapeOpen
<1>5. Ordered(S, d)' /\ Shape(S, A, C)'
  BY <1>2, <1>3, OrderedSame, ShapeSame
<1>6. ASSUME NEW f \in Frame, Clean(f)' PROVE Reached(A, C, d, f)'
  <2>1. Clean(f)
    BY <1>3, <1>6 DEF Clean
  <2> QED BY <1>2, <1>3, <2>1, ReachedSame
<1>7. Stands(S, A, C, v, d, c)'
  BY <1>4, <1>5, <1>6 DEF Stands
<1> QED BY <1>4, <1>7

LEMMA LinkNextInv == LInv /\ [LinkNext]_linkVars => LInv'
<1> SUFFICES ASSUME LInv, [LinkNext]_linkVars PROVE LInv'
  OBVIOUS
<1>1. IInv /\ LinkType
  BY DEF LInv
<1>2. CASE Isr
  <2>1. UNCHANGED vars /\ LinkType'
    BY <1>1, <1>2 DEF Isr, LinkType
  <2>2. IInv'
    BY <1>1, <2>1, NextInv
  <2> QED BY <1>2, <2>1, <2>2, IsrStands DEF LInv
<1>3. CASE IsrDrop
  <2>1. UNCHANGED vars
    BY <1>3 DEF IsrDrop
  <2>2. IInv'
    BY <1>1, <2>1, NextInv
  <2> QED BY <1>3, <2>2, DropStands DEF LInv
<1>4. CASE SlipThread
  BY <1>4, SlipStands DEF LInv
<1>5. CASE Upper
  <2>1. TcpipFetch \/ PbufFree \/ ApiPost
    BY <1>5 DEF Upper
  <2>2. IInv'
    BY <1>1, <2>1, NextInv DEF Next
  <2>3. UNCHANGED <<rxVars, payload, line, queueUART, lost, hurt, log>>
    BY <1>5 DEF Upper, TcpipFetch, PbufFree, ApiPost
  <2> QED BY <2>2, <2>3, UpperStands DEF LInv
<1>6. CASE Done \/ UNCHANGED linkVars
  <2>1. UNCHANGED vars /\ UNCHANGED <<rxVars, payload, line, queueUART, lost, hurt, log>>
    BY <1>6 DEF Done, linkVars, vars, rxVars
  <2>2. IInv'
    BY <1>1, <2>1, NextInv
  <2> QED BY <2>1, <2>2, UpperStands DEF LInv
<1> QED BY <1>2, <1>3, <1>4, <1>5, <1>6 DEF LinkNext

THEOREM LinkInvariance == LinkSpec => []LInv
<1>1. LinkInit => LInv
  BY InitStands
<1>2. LInv /\ [LinkNext]_linkVars => LInv'
  BY LinkNextInv
<1> QED BY <1>1, <1>2, PTL DEF LinkSpec

-------------------------------------------------------------------------------
\* What follows for the frames.

\* Of a clean frame that is past, the slip thread has processed every byte.
LEMMA PastIsIntact ==
  ASSUME LInv, NEW f \in Frame, Past(f), Clean(f) PROVE Intact(f)
<1>1. PICK S, A, C, v, d, c : Stands(S, A, C, v, d, c)
  BY DEF LInv
<1>2. /\ Shape(S, A, C) /\ Placed(S, v, d, c) /\ Counted(S, v, d, c)
      /\ Reached(A, C, d, f) /\ payload \in [Frame -> Payloads]
  BY <1>1 DEF Stands, LInv, LinkType
<1>3. /\ v \in Seq(Nat) /\ d \in Nat /\ c \in Nat /\ c <= Len(S) /\ Len(S) \in Nat
      /\ Len(v) = Len(queueUART) /\ queueUART \in Seq(Byte) /\ line \in Seq(Byte)
      /\ \A k \in 1..Len(v) : queueUART[k] = S[v[k]]
      /\ Len(line) = Len(S) - c
      /\ \A k \in 1..Len(line) : line[k] = S[c + k]
  BY <1>2 DEF Placed, Shape
<1>4. f \in Nat /\ A[f - 1] \in Nat /\ A[f] \in Nat /\ A[f - 1] < A[f] /\ A[f] <= Len(S)
  <2>1. /\ f \in Nat /\ A[f - 1] \in Nat /\ A[f] \in Nat /\ A[f] <= Len(S)
    BY <1>2, SpelledFacts
  <2>2. LET N == Len(payload[f]) IN N \in Nat \ {0} /\ \A n \in 0..N : C[f][n] \in Nat /\ A[f - 1] < C[f][n] /\ C[f][n] < A[f]
    BY <1>2, SpelledFacts
  <2> QED BY <2>1, <2>2
<1>5. S[A[f]].of = f
  BY <1>2, <1>4 DEF Shape
<1>6. ASSUME d < A[f] PROVE FALSE
  <2>1. CASE A[f] > c
    <3> DEFINE k == A[f] - c
    <3>1. k \in 1..Len(line) /\ c + k = A[f]
      <4>1. c \in Nat /\ A[f] \in Nat /\ Len(S) \in Nat /\ A[f] <= Len(S) /\ Len(line) = Len(S) - c
        BY <1>3, <1>4
      <4> QED BY <2>1, <4>1
    <3> HIDE DEF k
    <3>2. line[k] = S[A[f]]
      BY <1>3, <3>1
    <3>3. line[k].of = f
      BY <1>5, <3>2
    <3>4. DOMAIN line = 1..Len(line)
      BY <1>3
    <3>5. line[k] \in ToSet(line)
      BY <3>1, <3>4, Zenon DEF ToSet
    <3>6. line[k].of > f
      BY <3>5 DEF Past
    <3> QED BY <1>4, <3>3, <3>6
  <2>2. CASE A[f] <= c
    <3>1. ~Gone(v, d, c, A[f])
      BY <1>2, <1>4, <1>5 DEF Counted, Clean
    <3>2. PICK k \in 1..Len(v) : v[k] = A[f]
      BY <1>4, <1>6, <2>2, <3>1 DEF Gone
    <3>3. queueUART[k] = S[A[f]]
      BY <1>3, <3>2
    <3>4. queueUART[k].of = f
      BY <1>5, <3>3
    <3>5. DOMAIN queueUART = 1..Len(v)
      BY <1>3
    <3>6. queueUART[k] \in ToSet(queueUART)
      BY <3>5, Zenon DEF ToSet
    <3>7. queueUART[k].of > f
      BY <3>6 DEF Past
    <3> QED BY <1>4, <3>4, <3>7
  <2> QED BY <1>3, <1>4, <2>1, <2>2
<1>7. d >= A[f]
  BY <1>3, <1>4, <1>6
<1> QED BY <1>2, <1>7 DEF Reached

\* While no frame loses more than one byte of the line, whatever the interrupt handler,
\* the pool and the mailbox do to a frame, the frames that lost nothing are delivered
\* byte for byte.
THEOREM DamageIsContained == LinkSpec => []DamageStaysInFrame
<1>1. LInv => DamageStaysInFrame
  BY PastIsIntact DEF DamageStaysInFrame, Clean
<1> QED BY <1>1, LinkInvariance, PTL

\* However many bytes are lost of a frame, the one after the next is delivered unless it
\* lost something itself, or the next one did.
THEOREM DamageEnds == LinkSpec => []DamageEndsWithNextFrame
<1>1. LInv => DamageEndsWithNextFrame
  BY PastIsIntact DEF DamageEndsWithNextFrame, Clean
<1> QED BY <1>1, LinkInvariance, PTL

LEMMA OrderedOnce == LInv => InOrderOnce
<1> SUFFICES ASSUME LInv PROVE InOrderOnce
  OBVIOUS
<1>1. PICK S, A, C, v, d, c : Stands(S, A, C, v, d, c)
  BY DEF LInv
<1>2. /\ log \in Seq(Seq(Byte))
      /\ \A j \in 1..Len(log) : log[j] # <<>> /\ Sorted(log[j])
      /\ \A j, l \in 1..Len(log) : j < l => Earlier(log[j], log[l])
  BY <1>1 DEF Stands, Ordered
<1>3. Len(log) \in Nat /\ DOMAIN log = 1..Len(log)
      /\ \A j \in 1..Len(log) : log[j] \in Seq(Byte) /\ Len(log[j]) \in Nat
  BY <1>2
<1>4. \A j \in 1..Len(log) : \A m \in 1..Len(log[j]) : log[j][m].of \in Nat
  <2>1. \A j \in 1..Len(log) : \A m \in 1..Len(log[j]) : log[j][m] \in Byte
    BY <1>3
  <2> QED BY <2>1, ByteTag
<1>5. ASSUME NEW j \in DOMAIN log, NEW k \in DOMAIN log, j < k PROVE log[j] # log[k]
  <2>1. j \in 1..Len(log) /\ k \in 1..Len(log)
    BY <1>3
  <2>2. 1 \in 1..Len(log[j])
    BY <1>2, <1>3, <2>1
  <2>3. log[j] = log[k] => log[j][1].of < log[j][1].of
    BY <1>2, <1>5, <2>1, <2>2 DEF Earlier
  <2> QED BY <1>4, <2>1, <2>2, <2>3
<1> DEFINE all == FlattenSeq(log)
<1>6. all \in Seq(Byte) /\ \E off : Layout(log, Len(log), off, all)
  BY <1>2, Flattened
<1> HIDE DEF all
<1>7. PICK off : Layout(log, Len(log), off, all)
  BY <1>6
<1>8. /\ off \in [0..Len(log) -> Nat]
      /\ \A k \in 1..Len(log) : off[k] = off[k - 1] + Len(log[k])
      /\ \A k \in 1..Len(log) : \A m \in 1..Len(log[k]) : all[off[k - 1] + m] = log[k][m]
      /\ \A x \in 1..Len(all) : \E k \in 1..Len(log) : \E m \in 1..Len(log[k]) : x = off[k - 1] + m
      /\ \A j, k \in 0..Len(log) : j <= k => off[j] <= off[k]
  BY <1>7 DEF Layout
<1>9. ASSUME NEW x \in DOMAIN all, NEW y \in DOMAIN all, x < y PROVE all[x].of <= all[y].of
  <2>1. x \in 1..Len(all) /\ y \in 1..Len(all)
    BY <1>6
  <2>2. PICK j \in 1..Len(log) : \E m \in 1..Len(log[j]) : x = off[j - 1] + m
    BY <1>8, <2>1
  <2>3. PICK m \in 1..Len(log[j]) : x = off[j - 1] + m
    BY <2>2
  <2>4. PICK k \in 1..Len(log) : \E n \in 1..Len(log[k]) : y = off[k - 1] + n
    BY <1>8, <2>1
  <2>5. PICK n \in 1..Len(log[k]) : y = off[k - 1] + n
    BY <2>4
  <2>6. all[x] = log[j][m] /\ all[y] = log[k][n]
    BY <1>8, <2>3, <2>5
  <2>7. /\ Len(log[j]) \in Nat /\ Len(log[k]) \in Nat
        /\ j - 1 \in 0..Len(log) /\ k - 1 \in 0..Len(log) /\ k \in 0..Len(log)
    BY <1>3
  <2>8. /\ off[j - 1] \in Nat /\ off[k - 1] \in Nat /\ off[k] \in Nat
        /\ off[k] = off[k - 1] + Len(log[k])
    BY <1>8, <2>7
  <2>9. all[x].of \in Nat /\ all[y].of \in Nat
    BY <1>4, <2>6
  <2>10. CASE j < k
    BY <1>2, <2>6, <2>9, <2>10 DEF Earlier
  <2>11. CASE j = k
    <3>1. m <= n
      BY <1>9, <2>3, <2>5, <2>8, <2>11
    <3> QED BY <1>2, <2>6, <2>11, <3>1 DEF Sorted
  <2>12. CASE k < j
    <3>1. k <= j - 1
      BY <2>12
    <3>2. off[k] <= off[j - 1]
      BY <1>8, <2>7, <3>1
    <3>3. y <= off[k] /\ off[j - 1] < x
      <4>1. m \in Nat /\ m >= 1 /\ n \in Nat /\ n <= Len(log[k])
        BY <2>7
      <4>2. y <= off[k]
        BY <2>5, <2>7, <2>8, <4>1
      <4>3. off[j - 1] < x
        BY <2>3, <2>8, <4>1
      <4> QED BY <4>2, <4>3
    <3> QED BY <1>9, <2>1, <2>8, <3>2, <3>3
  <2> QED BY <2>10, <2>11, <2>12
<1> QED BY <1>5, <1>9 DEF InOrderOnce, all

\* Packets go up in the order in which their frames were sent, none of them twice,
\* whatever is lost on the way.
THEOREM OrderKept == LinkSpec => []InOrderOnce
BY OrderedOnce, LinkInvariance, PTL

-------------------------------------------------------------------------------
\* The link drives the receiver by its own steps only, so what holds of slipif_rxbyte
\* for every sequence of bytes holds of it behind the queue and the handler.
LEMMA LinkStepIsReceivers ==
  ASSUME LInv, [LinkNext]_linkVars PROVE [Next]_vars
<1>1. CASE SlipThread
  <2>1. queueUART \in Seq(Byte) /\ queueUART # <<>>
    BY <1>1 DEF LInv, Stands, Placed, SlipThread, Readable
  <2>2. PICK b \in Byte : b = Head(queueUART)
    BY <2>1
  <2>3. RxByte(b)
    BY <1>1, <2>2 DEF SlipThread, RxByte
  <2> QED BY <2>3 DEF Next
<1>2. CASE Upper
  BY <1>2 DEF Upper, Next
<1>3. CASE Isr \/ IsrDrop \/ Done \/ UNCHANGED linkVars
  BY <1>3 DEF Isr, IsrDrop, Done, linkVars
<1> QED BY <1>1, <1>2, <1>3 DEF LinkNext

\* The composed system implements the receiver alone, so that every theorem about Spec
\* above is one about the link.
THEOREM LinkIsReceiver == LinkSpec => Spec
<1>1. LinkInit => Init
  BY DEF LinkInit
<1>2. LInv /\ [LinkNext]_linkVars => [Next]_vars
  BY LinkStepIsReceivers
<1> QED BY <1>1, <1>2, LinkInvariance, PTL DEF LinkSpec, Spec

\* With frames damaged on the line and bytes lost in the queue, no pbuf is lost or freed
\* twice, a line without END pins a bounded part of the pool, and a packet still goes up as
\* the bytes that were collected for it.
THEOREM LinkKeepsReceiver ==
  LinkSpec => [](PbufsConserved /\ PinnedPbufsBounded /\ CursorAtRecved) /\ FramesAsSpecified
BY LinkIsReceiver, PoolConserved, PinnedBounded, CursorCorrect, Refinement, PTL
==============================================================================

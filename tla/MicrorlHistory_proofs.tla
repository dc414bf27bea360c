------------------------ MODULE MicrorlHistory_proofs ------------------------
(***************************************************************************)
(* Proofs about the history of console_mod/microrl.c, for every ring and   *)
(* every line.  Its inductive invariant names what the bytes of the ring   *)
(* alone do not: the places P of the headers, which begin at begin, follow *)
(* each other by the length each holds, and end at end (Chain).  That      *)
(* erasing shortens the chain from the front, that a stored line lengthens *)
(* it, and that the walks of the code meet its places are the lemmas; the  *)
(* theorems follow from them.                                              *)
(***************************************************************************)
EXTENDS MicrorlHistory, NatLemmas

-------------------------------------------------------------------------------
\* The walk over the ring, whatever its bytes are.
Onward(buf, h) == WrapOnce(h + buf[h] + 1)

Walk(buf, b) == CHOOSE f : f = [n \in Nat |-> IF n = 0 THEN b ELSE WrapOnce(f[n - 1] + buf[f[n - 1]] + 1)]

LEMMA HeaderAtIsWalk == HeaderAt = Walk(ring_buf, begin)
BY DEF HeaderAt, Walk

LEMMA WalkFollows ==
  ASSUME NEW buf, NEW b
  PROVE  Walk(buf, b)[0] = b /\ \A n \in Nat : Walk(buf, b)[n + 1] = Onward(buf, Walk(buf, b)[n])
<1> DEFINE Start(n, h) == h = [k \in 0..n |-> IF k = 0 THEN b ELSE Onward(buf, h[k - 1])]
           H(n) == CHOOSE h : Start(n, h)
<1>1. \A n \in Nat : \E h : Start(n, h)
  <2> DEFINE S == {n \in Nat : \E h : Start(n, h)}
  <2>1. 0 \in S
    <3>1. Start(0, [k \in 0..0 |-> b])
      OBVIOUS
    <3> QED BY <3>1
  <2>2. ASSUME NEW n \in Nat, n \in S PROVE n + 1 \in S
    <3>1. PICK h : Start(n, h)
      BY <2>2
    <3> DEFINE g == [k \in 0..(n + 1) |-> IF k = n + 1 THEN Onward(buf, h[n]) ELSE h[k]]
    <3>2. h = [k \in 0..n |-> IF k = 0 THEN b ELSE Onward(buf, h[k - 1])]
      BY <3>1
    <3>3. ASSUME NEW k \in 0..(n + 1)
          PROVE  g[k] = IF k = 0 THEN b ELSE Onward(buf, g[k - 1])
      <4>1. CASE k = n + 1
        BY <4>1, n \in 0..(n + 1), n # n + 1
      <4>2. CASE k # n + 1 /\ k # 0
        <5>1. k \in 0..n /\ k - 1 \in 0..(n + 1) /\ k - 1 # n + 1
          BY <4>2
        <5>2. g[k] = h[k] /\ g[k - 1] = h[k - 1]
          BY <4>2, <5>1
        <5>3. h[k] = Onward(buf, h[k - 1])
          BY <3>2, <4>2, <5>1
        <5> QED BY <4>2, <5>2, <5>3
      <4>3. CASE k = 0
        BY <3>2, <4>3
      <4> QED BY <4>1, <4>2, <4>3
    <3>4. g = [k \in 0..(n + 1) |-> IF k = 0 THEN b ELSE Onward(buf, g[k - 1])]
      <4>1. g = [k \in 0..(n + 1) |-> g[k]]
        OBVIOUS
      <4> HIDE DEF g
      <4> QED BY <3>3, <4>1
    <3> HIDE DEF g
    <3>5. Start(n + 1, g)
      BY <3>4
    <3> QED BY <3>5
  <2> HIDE DEF S
  <2>3. Nat \subseteq S
    BY <2>1, <2>2, NatSetInduction
  <2> QED BY <2>3 DEF S
<1>2. \A n \in Nat : Start(n, H(n))
  BY <1>1
<1> HIDE DEF H
<1>3. \A n \in Nat : /\ H(n)[0] = b
                     /\ \A k \in 1..n : H(n)[k] = Onward(buf, H(n)[k - 1])
  <2> TAKE n \in Nat
  <2>1. H(n) = [k \in 0..n |-> IF k = 0 THEN b ELSE Onward(buf, H(n)[k - 1])]
    BY <1>2
  <2>2. H(n)[0] = b
    BY <2>1
  <2>3. ASSUME NEW k \in 1..n PROVE H(n)[k] = Onward(buf, H(n)[k - 1])
    BY <2>1
  <2> QED BY <2>2, <2>3
<1>4. \A k \in Nat : \A m, n \in Nat : k <= m /\ k <= n => H(m)[k] = H(n)[k]
  <2> DEFINE T == {k \in Nat : \A m, n \in Nat : k <= m /\ k <= n => H(m)[k] = H(n)[k]}
  <2>1. 0 \in T
    BY <1>3
  <2>2. ASSUME NEW k \in Nat, k \in T PROVE k + 1 \in T
    <3>1. ASSUME NEW m \in Nat, NEW n \in Nat, k + 1 <= m, k + 1 <= n
          PROVE  H(m)[k + 1] = H(n)[k + 1]
      <4>1. H(m)[k] = H(n)[k]
        BY <2>2, <3>1
      <4>2. k + 1 \in 1..m /\ k + 1 \in 1..n /\ (k + 1) - 1 = k
        BY <3>1
      <4>3. H(m)[k + 1] = Onward(buf, H(m)[k]) /\ H(n)[k + 1] = Onward(buf, H(n)[k])
        BY <1>3, <4>2
      <4> QED BY <4>1, <4>3
    <3> QED BY <3>1
  <2> HIDE DEF T
  <2>3. Nat \subseteq T
    BY <2>1, <2>2, NatSetInduction
  <2> QED BY <2>3 DEF T
<1> DEFINE f == [n \in Nat |-> H(n)[n]]
<1>5. f[0] = b
  BY <1>3
<1>6. ASSUME NEW n \in Nat PROVE f[n + 1] = Onward(buf, f[n])
  <2>1. H(n + 1)[n + 1] = Onward(buf, H(n + 1)[n])
    <3>1. n + 1 \in Nat /\ n + 1 \in 1..(n + 1) /\ (n + 1) - 1 = n
      OBVIOUS
    <3> QED BY <1>3, <3>1
  <2>2. H(n + 1)[n] = H(n)[n]
    BY <1>4, n + 1 \in Nat, n <= n, n <= n + 1
  <2> QED BY <2>1, <2>2
<1>7. f = [n \in Nat |-> IF n = 0 THEN b ELSE Onward(buf, f[n - 1])]
  <2>1. f = [n \in Nat |-> f[n]]
    OBVIOUS
  <2> HIDE DEF f
  <2>2. ASSUME NEW n \in Nat PROVE f[n] = IF n = 0 THEN b ELSE Onward(buf, f[n - 1])
    <3>1. CASE n = 0
      BY <1>5, <3>1
    <3>2. CASE n # 0
      <4>1. n - 1 \in Nat /\ (n - 1) + 1 = n
        BY <3>2
      <4> QED BY <1>6, <3>2, <4>1
    <3> QED BY <3>1, <3>2
  <2> QED BY <2>1, <2>2
<1> HIDE DEF f
<1> DEFINE w == Walk(buf, b)
<1>8. w = [n \in Nat |-> IF n = 0 THEN b ELSE Onward(buf, w[n - 1])]
  <2>1. \E g : g = [n \in Nat |-> IF n = 0 THEN b ELSE WrapOnce(g[n - 1] + buf[g[n - 1]] + 1)]
    BY <1>7 DEF Onward
  <2>2. w = [n \in Nat |-> IF n = 0 THEN b ELSE WrapOnce(w[n - 1] + buf[w[n - 1]] + 1)]
    BY <2>1 DEF Walk
  <2> QED BY <2>2 DEF Onward
<1> HIDE DEF w
<1>9. w[0] = b
  BY <1>8
<1>10. ASSUME NEW n \in Nat PROVE w[n + 1] = Onward(buf, w[n])
  <2>1. n + 1 \in Nat /\ n + 1 # 0 /\ (n + 1) - 1 = n
    OBVIOUS
  <2> QED BY <1>8, <2>1
<1> QED BY <1>9, <1>10 DEF w

-------------------------------------------------------------------------------
\* A ring that holds n lines: P[k] bytes lie between the header of the oldest and that
\* of the line k places behind it, and the end mark is where the header of a next one
\* will be.
Chain(buf, b, e, n, P) ==
  /\ n \in Nat /\ P \in [0..n -> Nat] /\ P[0] = 0 /\ P[n] < RingLen
  /\ \A k \in 1..n : /\ P[k - 1] + 2 <= P[k]
                     /\ buf[WrapOnce(b + P[k - 1])] = P[k] - P[k - 1] - 1
  /\ e = WrapOnce(b + P[n]) /\ buf[e] = 0

LEMMA Wrapped ==
  ASSUME NEW x \in Int
  PROVE  RingLen \in Nat /\ (x >= RingLen => WrapOnce(x) = x - RingLen) /\ (x < RingLen => WrapOnce(x) = x)
BY RingAssumption DEF WrapOnce

LEMMA WrapInCells ==
  ASSUME NEW b \in Cells, NEW x \in 0..(RingLen - 1) PROVE WrapOnce(b + x) \in Cells
BY RingAssumption DEF WrapOnce, Cells

LEMMA ChainGrows ==
  ASSUME NEW buf, NEW b \in Cells, NEW e, NEW n, NEW P, Chain(buf, b, e, n, P)
  PROVE  /\ \A j, k \in 0..n : j <= k => P[j] + (k - j) <= P[k]
         /\ \A k \in 0..n : P[k] \in 0..(RingLen - 1) /\ WrapOnce(b + P[k]) \in Cells
         /\ n < RingLen
<1>1. n \in Nat /\ P \in [0..n -> Nat] /\ P[0] = 0 /\ P[n] \in Nat /\ P[n] < RingLen /\ RingLen \in Nat
  BY RingAssumption DEF Chain
<1>2. \A j, k \in 0..n : j <= k => P[j] + (k - j) <= P[k]
  <2> DEFINE S == {k \in Nat : k <= n => \A j \in 0..n : j <= k => P[j] + (k - j) <= P[k]}
  <2>1. 0 \in S
    BY <1>1
  <2>2. ASSUME NEW k \in Nat, k \in S PROVE k + 1 \in S
    <3> SUFFICES ASSUME k + 1 <= n, NEW j \in 0..n, j <= k + 1 PROVE P[j] + ((k + 1) - j) <= P[k + 1]
      OBVIOUS
    <3>1. k + 1 \in 1..n /\ (k + 1) - 1 = k
      BY <1>1
    <3>2. P[k] + 2 <= P[k + 1]
      BY <3>1 DEF Chain
    <3>3. P[k] \in Nat /\ P[k + 1] \in Nat /\ P[j] \in Nat
      BY <1>1, <3>1
    <3>4. CASE j <= k
      BY <2>2, <1>1, <3>2, <3>3, <3>4
    <3>5. CASE j = k + 1
      BY <3>3, <3>5
    <3> QED BY <3>4, <3>5
  <2> HIDE DEF S
  <2>3. Nat \subseteq S
    BY <2>1, <2>2, NatSetInduction
  <2>4. ASSUME NEW j \in 0..n, NEW k \in 0..n, j <= k PROVE P[j] + (k - j) <= P[k]
    <3>1. k \in S
      BY <1>1, <2>3
    <3> QED BY <2>4, <3>1 DEF S
  <2> QED BY <2>4
<1>3. ASSUME NEW k \in 0..n PROVE P[k] \in 0..(RingLen - 1) /\ WrapOnce(b + P[k]) \in Cells
  <2>1. P[k] \in Nat /\ n \in 0..n /\ k <= n
    BY <1>1
  <2>2. P[k] \in 0..(RingLen - 1)
    <3>1. P[k] + (n - k) <= P[n]
      BY <1>2, <2>1
    <3> QED BY <1>1, <2>1, <3>1
  <2> QED BY <2>2, WrapInCells
<1>4. n < RingLen
  <2>1. 0 \in 0..n /\ n \in 0..n
    BY <1>1
  <2>2. P[0] + (n - 0) <= P[n]
    BY <1>1, <1>2, <2>1
  <2> QED BY <1>1, <2>2
<1> QED BY <1>2, <1>3, <1>4

\* The walk meets the headers one after another, and the end mark behind the last.
LEMMA ChainIsWalked ==
  ASSUME NEW buf, NEW b \in Cells, NEW e, NEW n, NEW P, Chain(buf, b, e, n, P)
  PROVE  /\ \A k \in 0..n : Walk(buf, b)[k] = WrapOnce(b + P[k])
         /\ \A k \in 0..n : buf[Walk(buf, b)[k]] = 0 <=> k = n
         /\ Walk(buf, b)[n] = e
<1>1. n \in Nat /\ P \in [0..n -> Nat] /\ P[0] = 0 /\ RingLen \in Nat /\ b \in 0..(RingLen - 1)
  BY RingAssumption DEF Chain, Cells
<1>2. \A k \in 0..n : P[k] \in 0..(RingLen - 1)
  BY ChainGrows
<1>3. ASSUME NEW k \in 1..n
      PROVE  WrapOnce(WrapOnce(b + P[k - 1]) + buf[WrapOnce(b + P[k - 1])] + 1) = WrapOnce(b + P[k])
  <2> DEFINE x == b + P[k - 1]
             y == b + P[k]
  <2>1. buf[WrapOnce(x)] = P[k] - P[k - 1] - 1 /\ P[k - 1] + 2 <= P[k]
    BY DEF Chain
  <2>2. P[k - 1] \in 0..(RingLen - 1) /\ P[k] \in 0..(RingLen - 1)
    BY <1>1, <1>2
  <2>3. x \in Nat /\ y \in Nat /\ x < y /\ y < x + RingLen /\ y < RingLen + RingLen
        /\ P[k] - P[k - 1] - 1 = y - x - 1
    <3> DEFINE p == P[k - 1]
               q == P[k]
    <3>1. /\ p \in 0..(RingLen - 1) /\ q \in 0..(RingLen - 1) /\ p + 2 <= q
          /\ b \in 0..(RingLen - 1) /\ RingLen \in Nat
      BY <1>1, <2>1, <2>2
    <3> HIDE DEF p, q
    <3>2. b + p \in Nat /\ b + q \in Nat /\ b + p < b + q /\ b + q < (b + p) + RingLen /\ b + q < RingLen + RingLen
      BY <3>1
    <3>3. q - p - 1 = (b + q) - (b + p) - 1
      BY <3>1
    <3> QED BY <3>2, <3>3 DEF p, q
  <2>4. buf[WrapOnce(x)] = y - x - 1
    BY <2>1, <2>3
  <2> HIDE DEF x, y
  <2>5. WrapOnce(WrapOnce(x) + (y - x - 1) + 1) = WrapOnce(y)
    BY <1>1, <2>3 DEF WrapOnce
  <2> QED BY <2>4, <2>5 DEF x, y
<1>4. \A k \in 0..n : Walk(buf, b)[k] = WrapOnce(b + P[k])
  <2> DEFINE S == {k \in Nat : k <= n => Walk(buf, b)[k] = WrapOnce(b + P[k])}
  <2>1. 0 \in S
    <3>1. Walk(buf, b)[0] = b
      BY WalkFollows
    <3>2. WrapOnce(b + P[0]) = b
      BY <1>1, Wrapped
    <3> QED BY <3>1, <3>2
  <2>2. ASSUME NEW k \in Nat, k \in S PROVE k + 1 \in S
    <3> SUFFICES ASSUME k + 1 <= n PROVE Walk(buf, b)[k + 1] = WrapOnce(b + P[k + 1])
      OBVIOUS
    <3>1. k + 1 \in 1..n /\ (k + 1) - 1 = k
      BY <1>1
    <3>2. Walk(buf, b)[k] = WrapOnce(b + P[k])
      BY <2>2, <1>1
    <3>3. Walk(buf, b)[k + 1] = WrapOnce(Walk(buf, b)[k] + buf[Walk(buf, b)[k]] + 1)
      BY WalkFollows DEF Onward
    <3> QED BY <1>3, <3>1, <3>2, <3>3
  <2> HIDE DEF S
  <2>3. Nat \subseteq S
    BY <2>1, <2>2, NatSetInduction
  <2>4. ASSUME NEW k \in 0..n PROVE Walk(buf, b)[k] = WrapOnce(b + P[k])
    <3>1. k \in S
      BY <1>1, <2>3
    <3> QED BY <3>1, <1>1 DEF S
  <2> QED BY <2>4
<1>5. Walk(buf, b)[n] = e /\ buf[e] = 0
  BY <1>1, <1>4 DEF Chain
<1>6. ASSUME NEW k \in 0..n, k # n PROVE buf[Walk(buf, b)[k]] # 0
  <2>1. k + 1 \in 1..n /\ (k + 1) - 1 = k
    BY <1>1, <1>6
  <2>2. buf[WrapOnce(b + P[k])] = P[k + 1] - P[k] - 1 /\ P[k] + 2 <= P[k + 1]
    BY <2>1 DEF Chain
  <2>3. P[k] \in Nat /\ P[k + 1] \in Nat
    BY <1>1, <2>1
  <2>4. P[k + 1] - P[k] - 1 # 0
    BY <2>2, <2>3
  <2> QED BY <1>4, <2>2, <2>4
<1> QED BY <1>4, <1>5, <1>6

-------------------------------------------------------------------------------
\* The lines that the walk finds.
CountOf(buf, b) ==
  CHOOSE n \in 0..RingLen :
    buf[Walk(buf, b)[n]] = 0 /\ \A m \in 0..(n - 1) : buf[Walk(buf, b)[m]] # 0

LineOf(buf, h) == [k \in 1..buf[h] |-> buf[(h + k) % RingLen]]

LinesOf(buf, b) == [k \in 1..CountOf(buf, b) |-> LineOf(buf, Walk(buf, b)[k - 1])]

\* The bytes of the kth, by their places in the chain.
Kept(buf, b, P, k) ==
  [m \in 1..(P[k] - P[k - 1] - 1) |-> buf[WrapOnce(b + (P[k - 1] + m))]]

LEMMA CountIsOf == Count = CountOf(ring_buf, begin)
BY HeaderAtIsWalk DEF Count, CountOf

LEMMA LineAtIsOf == ASSUME NEW h PROVE LineAt(h) = LineOf(ring_buf, h)
BY DEF LineAt, LineOf

LEMMA CountIs ==
  ASSUME NEW buf, NEW b \in Cells, NEW e, NEW n, NEW P, Chain(buf, b, e, n, P)
  PROVE  CountOf(buf, b) = n
<1> DEFINE Good(c) == buf[Walk(buf, b)[c]] = 0 /\ \A m \in 0..(c - 1) : buf[Walk(buf, b)[m]] # 0
<1>1. n \in Nat /\ n < RingLen /\ RingLen \in Nat /\ n \in 0..RingLen
  <2>1. n \in Nat /\ RingLen \in Nat
    BY RingAssumption DEF Chain
  <2>2. n < RingLen
    BY ChainGrows
  <2> QED BY <2>1, <2>2
<1>2. \A k \in 0..n : buf[Walk(buf, b)[k]] = 0 <=> k = n
  BY ChainIsWalked
<1>3. Good(n)
  BY <1>1, <1>2
<1>4. ASSUME NEW c \in 0..RingLen, Good(c) PROVE c = n
  <2>1. CASE c < n
    BY <1>1, <1>2, <1>4, <2>1
  <2>2. CASE c > n
    BY <1>1, <1>2, <1>4, <2>2
  <2> QED BY <1>1, <2>1, <2>2
<1>5. CountOf(buf, b) = CHOOSE c \in 0..RingLen : Good(c)
  BY DEF CountOf
<1> HIDE DEF Good
<1> QED BY <1>1, <1>3, <1>4, <1>5

\* An index within the ring and a length less than the ring's are wound back as by %.
LEMMA WrapIsMod ==
  ASSUME NEW h \in Cells, NEW m \in 0..(RingLen - 1)
  PROVE  (h + m) % RingLen = WrapOnce(h + m)
<1>1. RingLen \in Nat \ {0} /\ h \in Int /\ m \in Int /\ h + m \in Int
      /\ h + m >= 0 /\ h + m < RingLen + RingLen
  BY RingAssumption DEF Cells
<1>2. CASE h + m < RingLen
  <2>1. h + m = RingLen * 0 + (h + m) /\ h + m \in 0..(RingLen - 1) /\ WrapOnce(h + m) = h + m
    BY <1>1, <1>2, Wrapped
  <2>2. 0 \in Int
    OBVIOUS
  <2> QED BY <1>1, <2>1, <2>2, ModUnique
<1>3. CASE ~(h + m < RingLen)
  <2> DEFINE x == h + m - RingLen
  <2>1. h + m = RingLen * 1 + x /\ x \in 0..(RingLen - 1) /\ WrapOnce(h + m) = x
    BY <1>1, <1>3, Wrapped
  <2>2. 1 \in Int
    OBVIOUS
  <2> HIDE DEF x
  <2> QED BY <1>1, <2>1, <2>2, ModUnique
<1> QED BY <1>2, <1>3

LEMMA WrapTwice ==
  ASSUME NEW y \in Nat, NEW x \in Nat, y + x < RingLen + RingLen
  PROVE  WrapOnce(WrapOnce(y) + x) = WrapOnce(y + x)
BY RingAssumption DEF WrapOnce

LEMMA LinesAre ==
  ASSUME NEW buf, NEW b \in Cells, NEW e, NEW n, NEW P, Chain(buf, b, e, n, P)
  PROVE  LinesOf(buf, b) = [k \in 1..n |-> Kept(buf, b, P, k)]
<1>1. CountOf(buf, b) = n
  BY CountIs
<1>2. n \in Nat /\ P \in [0..n -> Nat] /\ RingLen \in Nat /\ b \in 0..(RingLen - 1)
      /\ \A k \in 0..n : P[k] \in 0..(RingLen - 1) /\ Walk(buf, b)[k] = WrapOnce(b + P[k])
                         /\ WrapOnce(b + P[k]) \in Cells
  <2>1. n \in Nat /\ P \in [0..n -> Nat] /\ RingLen \in Nat /\ b \in 0..(RingLen - 1)
    BY RingAssumption DEF Chain, Cells
  <2>2. \A k \in 0..n : P[k] \in 0..(RingLen - 1) /\ WrapOnce(b + P[k]) \in Cells
    BY ChainGrows
  <2>3. \A k \in 0..n : Walk(buf, b)[k] = WrapOnce(b + P[k])
    BY ChainIsWalked
  <2> QED BY <2>1, <2>2, <2>3
<1>3. ASSUME NEW k \in 1..n PROVE LineOf(buf, Walk(buf, b)[k - 1]) = Kept(buf, b, P, k)
  <2> DEFINE h == WrapOnce(b + P[k - 1])
             l == P[k] - P[k - 1] - 1
  <2>1. k - 1 \in 0..n /\ k \in 0..n
    BY <1>2
  <2>2. Walk(buf, b)[k - 1] = h /\ h \in Cells /\ buf[h] = l
    BY <1>2, <2>1 DEF Chain
  <2>3. P[k - 1] \in 0..(RingLen - 1) /\ P[k] \in 0..(RingLen - 1)
    BY <1>2, <2>1
  <2>4. ASSUME NEW m \in 1..l
        PROVE  (h + m) % RingLen = WrapOnce(b + (P[k - 1] + m))
    <3>1. m \in 0..(RingLen - 1) /\ m \in Nat /\ b + P[k - 1] \in Nat
          /\ (b + P[k - 1]) + m < RingLen + RingLen
          /\ (b + P[k - 1]) + m = b + (P[k - 1] + m)
      <4> DEFINE p == P[k - 1]
                 q == P[k]
      <4>1. /\ p \in 0..(RingLen - 1) /\ q \in 0..(RingLen - 1) /\ b \in 0..(RingLen - 1) /\ RingLen \in Nat
            /\ m \in 1..(q - p - 1)
        BY <1>2, <2>3
      <4> HIDE DEF p, q, l
      <4>2. m \in 0..(RingLen - 1) /\ m \in Nat /\ b + p \in Nat
        BY <4>1
      <4>3. (b + p) + m < RingLen + RingLen /\ (b + p) + m = b + (p + m)
        BY <4>1
      <4> QED BY <4>2, <4>3 DEF p
    <3>2. (h + m) % RingLen = WrapOnce(h + m)
      BY <2>2, <3>1, WrapIsMod
    <3>3. WrapOnce(h + m) = WrapOnce((b + P[k - 1]) + m)
      BY <3>1, WrapTwice
    <3> QED BY <3>1, <3>2, <3>3
  <2>5. LineOf(buf, h) = [m \in 1..l |-> buf[(h + m) % RingLen]]
    BY <2>2 DEF LineOf
  <2>6. Kept(buf, b, P, k) = [m \in 1..l |-> buf[WrapOnce(b + (P[k - 1] + m))]]
    BY DEF Kept
  <2> HIDE DEF h, l
  <2> QED BY <2>2, <2>4, <2>5, <2>6
<1> QED BY <1>1, <1>3 DEF LinesOf

LEMMA KeptType ==
  ASSUME NEW buf \in [Cells -> Nat], NEW b \in Cells, NEW e, NEW n, NEW P, Chain(buf, b, e, n, P),
         NEW k \in 1..n
  PROVE  /\ Kept(buf, b, P, k) \in Seq(Nat) /\ Kept(buf, b, P, k) # <<>>
         /\ Len(Kept(buf, b, P, k)) = P[k] - P[k - 1] - 1
         /\ P[k - 1] \in Nat /\ P[k] \in Nat /\ P[k - 1] + 2 <= P[k] /\ P[k] < RingLen
<1> DEFINE l == P[k] - P[k - 1] - 1
           s == Kept(buf, b, P, k)
<1>1. n \in Nat /\ k - 1 \in 0..n /\ k \in 0..n /\ RingLen \in Nat
  BY RingAssumption DEF Chain
<1>2. P[k - 1] \in 0..(RingLen - 1) /\ P[k] \in 0..(RingLen - 1)
  BY <1>1, ChainGrows
<1>3. P[k - 1] + 2 <= P[k]
  BY DEF Chain
<1>4. l \in Nat /\ l >= 1
  BY <1>2, <1>3
<1>5. ASSUME NEW m \in 1..l PROVE buf[WrapOnce(b + (P[k - 1] + m))] \in Nat
  <2>1. P[k - 1] + m \in 0..(RingLen - 1)
    BY <1>1, <1>2
  <2> QED BY <2>1, WrapInCells
<1>6. s = [m \in 1..l |-> buf[WrapOnce(b + (P[k - 1] + m))]]
  BY DEF Kept
<1> HIDE DEF l, s
<1>7. s \in [1..l -> Nat]
  BY <1>5, <1>6
<1>8. s \in Seq(Nat) /\ Len(s) = l
  BY <1>4, <1>7
<1>9. s # <<>>
  BY <1>4, <1>8
<1> QED BY <1>1, <1>2, <1>3, <1>8, <1>9 DEF l, s

-------------------------------------------------------------------------------
\* What hist_save_line does to such a ring.

\* There is space behind the newest line when the oldest is the one behind P[k] bytes.
Fits(n, P, k, len) == (P[n] - P[k]) + len + 2 <= RingLen

LEMMA SpaceIs ==
  ASSUME begin \in Cells, NEW n, NEW P, Chain(ring_buf, begin, end, n, P),
         NEW len \in Nat, len + 2 <= RingLen, NEW k \in 0..n
  PROVE  IsSpaceForNew(HeaderAt[k], len) <=> Fits(n, P, k, len)
<1> DEFINE x == begin + P[k]
           y == begin + P[n]
           h == HeaderAt[k]
<1>1. n \in Nat /\ n \in 0..n /\ RingLen \in Nat /\ begin \in 0..(RingLen - 1) /\ end = WrapOnce(y)
  BY RingAssumption DEF Chain, Cells
<1>2. P[k] \in 0..(RingLen - 1) /\ P[n] \in 0..(RingLen - 1) /\ P[k] + (n - k) <= P[n]
  <2>1. k <= n
    BY <1>1
  <2>2. P[k] + (n - k) <= P[n]
    BY <1>1, <2>1, ChainGrows
  <2>3. P[k] \in 0..(RingLen - 1) /\ P[n] \in 0..(RingLen - 1)
    BY <1>1, ChainGrows
  <2> QED BY <2>2, <2>3
<1>3. h = WrapOnce(x) /\ (ring_buf[h] = 0 <=> k = n)
  BY ChainIsWalked, HeaderAtIsWalk
<1>4. k = n => P[k] = P[n]
  OBVIOUS
<1>5. k # n => P[k] < P[n]
  BY <1>1, <1>2
<1>6. /\ x \in Nat /\ y \in Nat /\ x <= y /\ y < x + RingLen /\ y < RingLen + RingLen
      /\ P[n] - P[k] = y - x /\ (k = n <=> x = y)
  BY <1>1, <1>2, <1>4, <1>5
<1> HIDE DEF x, y, h
<1>7. /\ h = IF x >= RingLen THEN x - RingLen ELSE x
      /\ end = IF y >= RingLen THEN y - RingLen ELSE y
  BY <1>1, <1>3 DEF WrapOnce
<1>8. IsSpaceForNew(h, len) <=> (y - x) + len + 2 <= RingLen
  <2>1. IsSpaceForNew(h, len) <=> \/ x = y
                                  \/ end >= h /\ RingLen - end + h - 1 > len
                                  \/ end < h /\ h - end - 1 > len
    BY <1>3, <1>6 DEF IsSpaceForNew
  <2> QED BY <1>1, <1>6, <1>7, <2>1
<1> QED BY <1>6, <1>8 DEF Fits, h

LEMMA ErasedIs ==
  ASSUME begin \in Cells, NEW n, NEW P, Chain(ring_buf, begin, end, n, P),
         NEW len \in Nat, len + 2 <= RingLen
  PROVE  /\ Erased(len) \in 0..n /\ Fits(n, P, Erased(len), len)
         /\ \A j \in 0..(Erased(len) - 1) : ~Fits(n, P, j, len)
<1> DEFINE Good(k) == /\ IsSpaceForNew(HeaderAt[k], len)
                      /\ \A j \in 0..(k - 1) : ~IsSpaceForNew(HeaderAt[j], len)
           T == {k \in 0..n : Fits(n, P, k, len)}
           e == Erased(len)
<1>1. n \in Nat /\ n \in 0..n /\ RingLen \in Nat /\ P[n] \in Nat
  BY RingAssumption DEF Chain
<1>2. n < RingLen
  BY ChainGrows
<1>3. \A k \in 0..n : IsSpaceForNew(HeaderAt[k], len) <=> Fits(n, P, k, len)
  BY SpaceIs
<1>4. n \in T
  BY <1>1 DEF Fits
<1>5. PICK x \in T : \A y \in Nat : y < x => y \notin T
  <2>1. T \in SUBSET Nat /\ T # {}
    BY <1>1, <1>4
  <2> HIDE DEF T
  <2> QED BY <2>1, LeastExists
<1>6. Good(x) /\ x \in 0..RingLen
  <2>1. x \in 0..n /\ IsSpaceForNew(HeaderAt[x], len)
    BY <1>3
  <2>2. ASSUME NEW j \in 0..(x - 1) PROVE ~IsSpaceForNew(HeaderAt[j], len)
    BY <1>1, <1>3, <1>5, <2>1
  <2> QED BY <1>1, <1>2, <2>1, <2>2
<1>7. e = CHOOSE k \in 0..RingLen : Good(k)
  BY DEF Erased
<1>8. Good(e) /\ e \in 0..RingLen
  BY <1>6, <1>7
<1>9. e <= n
  BY <1>1, <1>3, <1>4, <1>8
<1>10. Fits(n, P, e, len)
  BY <1>1, <1>3, <1>8, <1>9
<1>11. ASSUME NEW j \in 0..(e - 1) PROVE ~Fits(n, P, j, len)
  BY <1>1, <1>3, <1>8, <1>9
<1> QED BY <1>1, <1>8, <1>9, <1>10, <1>11

LEMMA ModOfMore ==
  ASSUME NEW n \in Nat \ {0}, NEW r \in 0..(n - 1)
  PROVE  r % n = r /\ (r + n) % n = r /\ (r + n + n) % n = r
<1>1. r \in Int /\ n \in Int /\ r = n * 0 + r /\ r + n = n * 1 + r
  OBVIOUS
<1>2. r + n + n = n * 2 + r
  OBVIOUS
<1>3. r % n = r
  BY <1>1, ModUnique
<1>4. (r + n) % n = r
  BY <1>1, ModUnique
<1>5. (r + n + n) % n = r
  <2> DEFINE d == r + n + n  q == 2
  <2>1. d \in Int /\ q \in Int /\ d = n * q + r
    BY <1>2
  <2> HIDE DEF d, q
  <2>2. d % n = r
    BY <2>1, ModUnique
  <2> QED BY <2>2 DEF d
<1> QED BY <1>3, <1>4, <1>5

\* The bytes after a line was stored, seen from a cell U bytes before the end.
LEMMA StoredAt ==
  ASSUME NEW a \in Cells, NEW U \in Nat, end = WrapOnce(a + U), NEW line \in Seq(Nat),
         U + Len(line) + 2 <= RingLen, NEW x \in 0..(RingLen - 1)
  PROVE  Stored(line)[WrapOnce(a + x)] =
           IF x < U THEN ring_buf[WrapOnce(a + x)]
           ELSE IF x = U THEN Len(line)
           ELSE IF x <= U + Len(line) THEN line[x - U]
           ELSE IF x = U + Len(line) + 1 THEN 0
           ELSE ring_buf[WrapOnce(a + x)]
<1> DEFINE N == Len(line)
           c == WrapOnce(a + x)
           r == IF x >= U THEN x - U ELSE x - U + RingLen
           d == c - end + RingLen
           at == d % RingLen
<1>1. /\ RingLen \in Nat \ {0} /\ N \in Nat /\ a \in Int /\ 0 <= a /\ a < RingLen
      /\ x \in Int /\ 0 <= x /\ x < RingLen /\ U + N + 2 <= RingLen
  BY RingAssumption DEF Cells
<1>2. c \in Cells
  BY WrapInCells
<1>3. r \in 0..(RingLen - 1)
  BY <1>1
<1>4. d = r \/ d = r + RingLen \/ d = r + RingLen + RingLen
  BY <1>1 DEF WrapOnce
<1> HIDE DEF c, d
<1>5. at = r
  <2>1. d \in Int /\ r \in Int
    BY <1>1, <1>3, <1>4
  <2> HIDE DEF r
  <2> QED BY <1>1, <1>3, <1>4, <2>1, ModOfMore
<1>6. Stored(line)[c] = IF at = 0 THEN N ELSE IF at <= N THEN line[at]
                        ELSE IF at = N + 1 THEN 0 ELSE ring_buf[c]
  BY <1>2 DEF Stored, d
<1> HIDE DEF at
<1>7. CASE x < U
  <2>1. r > N + 1 /\ r # 0 /\ ~(r <= N) /\ r # N + 1
    BY <1>1, <1>7
  <2> QED BY <1>5, <1>6, <1>7, <2>1 DEF c
<1>8. CASE x >= U
  <2>1. r = x - U /\ (r = 0 <=> x = U) /\ (r <= N <=> x <= U + N) /\ (r = N + 1 <=> x = U + N + 1)
        /\ ~(x < U)
    BY <1>1, <1>8
  <2> QED BY <1>5, <1>6, <2>1 DEF c
<1> QED BY <1>1, <1>7, <1>8

\* The k oldest lines are gone and one of len bytes has come.
Shifted(P, n, k, len) ==
  [j \in 0..(n - k + 1) |-> IF j = n - k + 1 THEN (P[n] - P[k]) + len + 1 ELSE P[k + j] - P[k]]

\* A line is saved behind what is left when k lines are erased, into buf, from a to e.
SavedAs(n, P, line, k, buf, a, e, Q) ==
  /\ Fits(n, P, k, Len(line))
  /\ a = WrapOnce(begin + P[k]) /\ buf = Stored(line) /\ e = WrapOnce(end + Len(line) + 1)
  /\ Q = Shifted(P, n, k, Len(line))

LEMMA SavedChain ==
  ASSUME ring_buf \in [Cells -> Nat], begin \in Cells,
         NEW n, NEW P, Chain(ring_buf, begin, end, n, P),
         NEW line \in Seq(Nat), line # <<>>, NEW k \in 0..n,
         NEW buf, NEW a, NEW e, NEW Q, SavedAs(n, P, line, k, buf, a, e, Q)
  PROVE  /\ buf \in [Cells -> Nat] /\ a \in Cells
         /\ Chain(buf, a, e, n - k + 1, Q)
         /\ \A j \in 1..(n - k) : Kept(buf, a, Q, j) = Kept(ring_buf, begin, P, k + j)
         /\ Kept(buf, a, Q, n - k + 1) = line
<1> DEFINE N == Len(line)
           U == P[n] - P[k]
           m == n - k + 1
<1>15. /\ Fits(n, P, k, Len(line)) /\ a = WrapOnce(begin + P[k]) /\ buf = Stored(line)
       /\ e = WrapOnce(end + Len(line) + 1) /\ Q = Shifted(P, n, k, Len(line))
  BY DEF SavedAs
<1> USE <1>15
<1>1. /\ n \in Nat /\ P \in [0..n -> Nat] /\ P[0] = 0 /\ RingLen \in Nat \ {0} /\ begin \in 0..(RingLen - 1)
      /\ k \in Nat /\ k <= n /\ n \in 0..n /\ N \in Nat /\ N >= 1 /\ m \in Nat /\ m >= 1
      /\ line \in [1..N -> Nat]
  <2>1. n \in Nat /\ P \in [0..n -> Nat] /\ P[0] = 0
    BY DEF Chain
  <2>2. RingLen \in Nat \ {0} /\ begin \in 0..(RingLen - 1)
    BY RingAssumption DEF Cells
  <2>3. N \in Nat /\ N >= 1 /\ line \in [1..N -> Nat]
    OBVIOUS
  <2> QED BY <2>1, <2>2, <2>3
<1>2. /\ \A j \in 0..n : P[j] \in 0..(RingLen - 1) /\ WrapOnce(begin + P[j]) \in Cells
      /\ \A i, j \in 0..n : i <= j => P[i] + (j - i) <= P[j]
  BY ChainGrows
<1>3. a \in Cells
  BY <1>2
<1>4. /\ U \in Nat /\ U + N + 2 <= RingLen /\ P[k] \in Nat /\ P[n] \in Nat
      /\ P[k] <= P[n] /\ P[n] < RingLen /\ U = P[n] - P[k]
  <2>1. P[k] \in 0..(RingLen - 1) /\ P[n] \in 0..(RingLen - 1) /\ P[k] + (n - k) <= P[n]
    BY <1>1, <1>2
  <2>2. n - k \in Nat /\ RingLen \in Nat
    BY <1>1
  <2>3. P[k] <= P[n] /\ P[n] < RingLen /\ U \in Nat
    BY <2>1, <2>2
  <2>4. U + N + 2 <= RingLen
    BY DEF Fits
  <2> QED BY <2>1, <2>3, <2>4
<1>0. /\ U \in Nat /\ N \in Nat /\ N >= 1 /\ RingLen \in Nat /\ U + N + 2 <= RingLen
      /\ n \in Nat /\ k \in Nat /\ k <= n /\ m \in Nat /\ m = n - k + 1
  BY <1>1, <1>4
<1> HIDE DEF N, m
\* Places seen from the new beginning.
<1>5. ASSUME NEW y \in Nat, P[k] <= y, y < RingLen PROVE WrapOnce(a + (y - P[k])) = WrapOnce(begin + y)
  <2> DEFINE p == begin + P[k]
             q == y - P[k]
  <2>1. begin \in Nat /\ begin < RingLen /\ RingLen \in Nat
    BY <1>1
  <2>2. q \in Nat
    BY <1>4, <1>5
  <2>3. p \in Nat /\ p + q = begin + y /\ p + q < RingLen + RingLen
    <3>1. P[k] \in Nat
      BY <1>4
    <3> QED BY <1>5, <2>1, <3>1
  <2>4. a = WrapOnce(p)
    OBVIOUS
  <2> HIDE DEF p, q
  <2>5. WrapOnce(WrapOnce(p) + q) = WrapOnce(p + q)
    BY <2>2, <2>3, WrapTwice
  <2>6. WrapOnce(a + q) = WrapOnce(begin + y)
    BY <2>3, <2>4, <2>5
  <2> QED BY <2>6 DEF q
<1>6. end = WrapOnce(a + U)
  <2>1. end = WrapOnce(begin + P[n])
    BY DEF Chain
  <2>2. WrapOnce(a + (P[n] - P[k])) = WrapOnce(begin + P[n])
    BY <1>4, <1>5
  <2> QED BY <2>1, <2>2
<1> HIDE DEF U
<1>7. ASSUME NEW x \in 0..(RingLen - 1)
      PROVE  buf[WrapOnce(a + x)] = IF x < U THEN ring_buf[WrapOnce(a + x)]
                                    ELSE IF x = U THEN N
                                    ELSE IF x <= U + N THEN line[x - U]
                                    ELSE IF x = U + N + 1 THEN 0
                                    ELSE ring_buf[WrapOnce(a + x)]
  <2>1. U + Len(line) + 2 <= RingLen
    BY <1>0 DEF N
  <2>2. Stored(line)[WrapOnce(a + x)] =
          IF x < U THEN ring_buf[WrapOnce(a + x)]
          ELSE IF x = U THEN Len(line)
          ELSE IF x <= U + Len(line) THEN line[x - U]
          ELSE IF x = U + Len(line) + 1 THEN 0
          ELSE ring_buf[WrapOnce(a + x)]
    BY <1>0, <1>3, <1>6, <2>1, StoredAt
  <2> QED BY <2>2 DEF N
<1>8. buf \in [Cells -> Nat]
  <2> DEFINE at(c) == (c - end + RingLen) % RingLen
  <2>1. ASSUME NEW c \in Cells PROVE buf[c] \in Nat
    <3>1. end \in 0..(RingLen - 1)
      <4>1. end \in Cells
        BY <1>1, <1>2 DEF Chain
      <4> QED BY <4>1 DEF Cells
    <3>2. at(c) \in Nat
      BY <1>1, <3>1 DEF Cells
    <3>3. buf[c] = IF at(c) = 0 THEN N ELSE IF at(c) <= N THEN line[at(c)]
                   ELSE IF at(c) = N + 1 THEN 0 ELSE ring_buf[c]
      BY DEF Stored, N
    <3> HIDE DEF at
    <3>4. at(c) # 0 /\ at(c) <= N => line[at(c)] \in Nat
      BY <1>1, <3>2
    <3> QED BY <1>1, <3>3, <3>4
  <2>2. buf = [c \in Cells |-> buf[c]]
    BY DEF Stored
  <2> QED BY <2>1, <2>2
<1>9. /\ Q \in [0..m -> Nat] /\ Q[m] = U + N + 1
      /\ \A j \in 0..(m - 1) : Q[j] = P[k + j] - P[k] /\ k + j \in 0..n
  <2>1. Q = [j \in 0..m |-> IF j = m THEN U + N + 1 ELSE P[k + j] - P[k]]
    BY DEF Shifted, m, U, N
  <2>2. ASSUME NEW j \in 0..(m - 1)
        PROVE  k + j \in 0..n /\ P[k + j] \in Nat /\ P[k] <= P[k + j] /\ j # m /\ j \in 0..m
    <3>1. k + j \in 0..n /\ k <= k + j /\ j # m /\ j \in 0..m
      BY <1>1 DEF m
    <3>2. P[k] + ((k + j) - k) <= P[k + j]
      BY <1>1, <1>2, <3>1
    <3>3. P[k + j] \in Nat
      BY <1>1, <3>1
    <3>4. P[k] <= P[k + j]
      <4>1. P[k] \in Nat /\ j \in Nat /\ (k + j) - k = j
        BY <1>0, <1>4
      <4>2. P[k] + j <= P[k + j]
        BY <3>2, <4>1
      <4> QED BY <3>3, <4>1, <4>2
    <3> QED BY <3>1, <3>3, <3>4
  <2>3. ASSUME NEW j \in 0..(m - 1) PROVE Q[j] = P[k + j] - P[k] /\ Q[j] \in Nat
    BY <1>4, <2>1, <2>2
  <2>4. Q[m] = U + N + 1 /\ Q[m] \in Nat
    <3>1. m \in 0..m /\ U + N + 1 \in Nat
      BY <1>0
    <3> QED BY <2>1, <3>1
  <2>5. ASSUME NEW j \in 0..m PROVE Q[j] \in Nat
    BY <1>1, <2>3, <2>4
  <2> QED BY <2>1, <2>2, <2>3, <2>4, <2>5
\* A line that stays.
<1>10. ASSUME NEW j \in 1..(m - 1)
       PROVE  /\ Q[j - 1] + 2 <= Q[j]
              /\ buf[WrapOnce(a + Q[j - 1])] = Q[j] - Q[j - 1] - 1
              /\ Kept(buf, a, Q, j) = Kept(ring_buf, begin, P, k + j)
  <2> DEFINE y == P[(k + j) - 1]
             z == P[k + j]
  <2>1. /\ j - 1 \in 0..(m - 1) /\ j \in 0..(m - 1) /\ k + (j - 1) = (k + j) - 1 /\ k + j \in 1..n
        /\ (k + j) - 1 \in 0..n /\ k + j \in 0..n /\ k <= (k + j) - 1 /\ k + j <= n
    BY <1>1 DEF m
  <2>2. Q[j - 1] = y - P[k] /\ Q[j] = z - P[k]
    BY <1>9, <2>1
  <2>3. y + 2 <= z /\ ring_buf[WrapOnce(begin + y)] = z - y - 1
    BY <2>1 DEF Chain
  <2>4. y \in Nat /\ z \in Nat /\ P[k] <= y /\ z <= P[n] /\ P[n] < RingLen
    <3>1. y \in 0..(RingLen - 1) /\ z \in 0..(RingLen - 1) /\ P[n] \in 0..(RingLen - 1)
      BY <1>1, <1>2, <2>1
    <3>2. P[k] + (((k + j) - 1) - k) <= y /\ z + (n - (k + j)) <= P[n]
      BY <1>2, <1>1, <2>1
    <3>3. ((k + j) - 1) - k \in Nat /\ n - (k + j) \in Nat
      BY <1>1, <2>1
    <3> HIDE DEF y, z
    <3>4. P[k] \in Nat /\ P[n] \in Nat /\ P[n] < RingLen
      BY <1>4
    <3> QED BY <3>1, <3>2, <3>3, <3>4
  <2>5. U = P[n] - P[k]
    BY <1>4
  <2> HIDE DEF y, z
  <2>6. ASSUME NEW w \in Nat, y <= w, w < z
        PROVE  buf[WrapOnce(a + (w - P[k]))] = ring_buf[WrapOnce(begin + w)]
    <3> DEFINE x == w - P[k]
    <3>1. x \in 0..(RingLen - 1) /\ x < U /\ P[k] <= w /\ w < RingLen
      <4>1. P[k] \in Nat /\ P[n] \in Nat
        BY <1>4
      <4>2. RingLen \in Nat
        BY <1>0
      <4> DEFINE lo == P[k]
                 hi == P[n]
      <4>3. lo \in Nat /\ hi \in Nat /\ y \in Nat /\ z \in Nat /\ w \in Nat /\ RingLen \in Nat
            /\ lo <= y /\ z <= hi /\ hi < RingLen /\ y <= w /\ w < z
        BY <2>4, <2>6, <4>1, <4>2
      <4>4. x = w - lo /\ U = hi - lo
        BY <2>5
      <4> HIDE DEF lo, hi, x, U
      <4>5. lo <= w /\ w < RingLen /\ w - lo \in 0..(RingLen - 1) /\ w - lo < hi - lo
        BY <4>3
      <4> QED BY <4>4, <4>5 DEF lo
    <3>2. WrapOnce(a + x) = WrapOnce(begin + w)
      BY <1>5, <3>1
    <3> HIDE DEF x
    <3>3. buf[WrapOnce(a + x)] = ring_buf[WrapOnce(a + x)]
      BY <1>7, <3>1
    <3> QED BY <3>2, <3>3 DEF x
  <2>7. Q[j - 1] + 2 <= Q[j] /\ Q[j] - Q[j - 1] - 1 = z - y - 1
    BY <1>4, <2>2, <2>3, <2>4
  <2>8. buf[WrapOnce(a + Q[j - 1])] = z - y - 1
    <3>1. y <= y /\ y < z
      BY <2>3, <2>4
    <3>2. buf[WrapOnce(a + (y - P[k]))] = ring_buf[WrapOnce(begin + y)]
      BY <2>4, <2>6, <3>1
    <3> QED BY <2>2, <2>3, <3>2
  <2>9. ASSUME NEW i \in 1..(z - y - 1)
        PROVE  buf[WrapOnce(a + (Q[j - 1] + i))] = ring_buf[WrapOnce(begin + (y + i))]
    <3> DEFINE w == y + i
    <3>1. w \in Nat /\ y <= w /\ w < z /\ w - P[k] = (y - P[k]) + i
      BY <1>4, <2>4
    <3>2. buf[WrapOnce(a + (w - P[k]))] = ring_buf[WrapOnce(begin + w)]
      BY <2>6, <3>1
    <3> QED BY <2>2, <3>1, <3>2
  <2>10. Kept(buf, a, Q, j) = [i \in 1..(z - y - 1) |-> buf[WrapOnce(a + (Q[j - 1] + i))]]
    BY <2>7 DEF Kept
  <2>11. Kept(ring_buf, begin, P, k + j) = [i \in 1..(z - y - 1) |-> ring_buf[WrapOnce(begin + (y + i))]]
    BY DEF Kept, y, z
  <2>12. Kept(buf, a, Q, j) = Kept(ring_buf, begin, P, k + j)
    BY <2>9, <2>10, <2>11
  <2> QED BY <2>7, <2>8, <2>12
\* The line that came.
<1>11. /\ Q[m - 1] = U /\ Q[m - 1] + 2 <= Q[m]
       /\ buf[WrapOnce(a + Q[m - 1])] = Q[m] - Q[m - 1] - 1
       /\ Q[m] - Q[m - 1] - 1 = N
  <2>1. m - 1 \in 0..(m - 1) /\ k + (m - 1) = n
    BY <1>1 DEF m
  <2>2. Q[m - 1] = U
    BY <1>9, <2>1 DEF U
  <2>3. U \in 0..(RingLen - 1) /\ ~(U < U)
    BY <1>0
  <2>4. buf[WrapOnce(a + U)] = N
    BY <1>7, <2>3
  <2>5. Q[m - 1] + 2 <= Q[m] /\ Q[m] - Q[m - 1] - 1 = N
    <3>1. Q[m] = U + N + 1
      BY <1>9
    <3> QED BY <1>0, <2>2, <3>1
  <2> QED BY <2>2, <2>4, <2>5
<1>12. Kept(buf, a, Q, m) = line
  <2>1. Kept(buf, a, Q, m) = [i \in 1..N |-> buf[WrapOnce(a + (U + i))]]
    BY <1>11 DEF Kept
  <2>2. ASSUME NEW i \in 1..N PROVE buf[WrapOnce(a + (U + i))] = line[i]
    <3> DEFINE x == U + i
    <3>1. x \in 0..(RingLen - 1) /\ ~(x < U) /\ x # U /\ x <= U + N /\ x - U = i
      BY <1>0
    <3> HIDE DEF x
    <3>2. buf[WrapOnce(a + x)] = line[x - U]
      BY <1>7, <3>1
    <3> QED BY <3>1, <3>2 DEF x
  <2>3. line = [i \in 1..N |-> line[i]]
    BY <1>1
  <2> QED BY <2>1, <2>2, <2>3
<1>13. e = WrapOnce(a + Q[m]) /\ buf[e] = 0
  <2> DEFINE p == a + U
             q == N + 1
             x == U + N + 1
  <2>1. p \in Nat /\ q \in Nat /\ p + q < RingLen + RingLen /\ p + q = a + x /\ (end + N) + 1 = end + q
        /\ x \in 0..(RingLen - 1) /\ ~(x < U) /\ x # U /\ ~(x <= U + N) /\ Q[m] = x
    <3>1. a \in 0..(RingLen - 1)
      BY <1>3 DEF Cells
    <3>2. end \in 0..(RingLen - 1)
      <4>1. end = WrapOnce(begin + P[n])
        BY DEF Chain
      <4> QED BY <1>1, <1>2, <4>1 DEF Cells
    <3>3. Q[m] = x
      BY <1>9
    <3>4. a \in Nat /\ end \in Nat /\ a < RingLen
      BY <1>0, <3>1, <3>2
    <3>5. U \in Nat /\ N \in Nat /\ RingLen \in Nat /\ U + N + 1 < RingLen
      BY <1>0
    <3> HIDE DEF U, N
    <3>6. p \in Nat /\ q \in Nat /\ p + q < RingLen + RingLen
      BY <3>4, <3>5
    <3>7. p + q = a + x /\ (end + N) + 1 = end + q
      BY <3>4, <3>5
    <3>8. x \in 0..(RingLen - 1) /\ ~(x < U) /\ x # U /\ ~(x <= U + N)
      BY <3>5
    <3> QED BY <3>3, <3>6, <3>7, <3>8
  <2>2. WrapOnce(WrapOnce(p) + q) = WrapOnce(p + q)
    BY <2>1, WrapTwice
  <2>3. e = WrapOnce(end + q)
    BY <2>1 DEF N
  <2>4. e = WrapOnce(a + x)
    BY <1>6, <2>1, <2>2, <2>3
  <2> HIDE DEF x
  <2>5. buf[WrapOnce(a + x)] = 0
    BY <1>7, <2>1 DEF x
  <2> QED BY <2>1, <2>4, <2>5
<1>14. Chain(buf, a, e, m, Q)
  <2>1. ASSUME NEW j \in 1..m
        PROVE  Q[j - 1] + 2 <= Q[j] /\ buf[WrapOnce(a + Q[j - 1])] = Q[j] - Q[j - 1] - 1
    <3>1. CASE j = m
      BY <1>11, <3>1
    <3>2. CASE j # m
      <4>1. j \in 1..(m - 1)
        BY <1>1, <3>2
      <4> QED BY <1>10, <4>1
    <3> QED BY <3>1, <3>2
  <2>2. Q[0] = 0
    <3>1. 0 \in 0..(m - 1) /\ k + 0 = k
      BY <1>1
    <3>2. Q[0] = P[k] - P[k]
      BY <1>9, <3>1
    <3> QED BY <1>4, <3>2
  <2>3. Q[m] < RingLen
    <3>1. Q[m] = U + N + 1
      BY <1>9
    <3> QED BY <1>0, <3>1
  <2> QED BY <1>1, <1>9, <1>13, <2>1, <2>2, <2>3 DEF Chain
<1> QED
  <2>1. m - 1 = n - k
    BY <1>1 DEF m
  <2> QED BY <1>3, <1>8, <1>10, <1>12, <1>14, <2>1 DEF m

-------------------------------------------------------------------------------
\* The history ring, with lines of at most M bytes.
Holds(buf, b, e, at, n, P, M) ==
  /\ Chain(buf, b, e, n, P)
  /\ at \in 0..n
  /\ \A k \in 1..n : Len(Kept(buf, b, P, k)) <= M

RingInv(M) ==
  /\ RingTypeOK
  /\ \E n, P : Holds(ring_buf, begin, end, cur, n, P, M)

LEMMA RingStarts == ASSUME NEW M, RingInit PROVE RingInv(M)
<1> DEFINE P == [k \in 0..0 |-> 0]
<1>1. ring_buf = [c \in Cells |-> 0] /\ begin = 0 /\ end = 0 /\ cur = 0 /\ 0 \in Cells
      /\ RingLen \in Nat /\ RingLen > 2
  BY RingAssumption DEF RingInit, Cells
<1>2. Chain(ring_buf, begin, end, 0, P)
  <2>1. WrapOnce(begin + P[0]) = 0 /\ ring_buf[end] = 0
    BY <1>1, Wrapped
  <2> QED BY <1>1, <2>1 DEF Chain
<1> HIDE DEF P
<1>3. Holds(ring_buf, begin, end, cur, 0, P, M)
  BY <1>1, <1>2 DEF Holds
<1> QED BY <1>1, <1>3 DEF RingInv, RingTypeOK

\* Enter, of a line that fits the ring: the new chain, and the lines in it.
LEMMA RingEnters ==
  ASSUME RingTypeOK, NEW n, NEW P, NEW M, Holds(ring_buf, begin, end, cur, n, P, M),
         NEW line \in Seq(Nat), line # <<>>, Len(line) <= M, Len(line) <= RingLen - 2,
         HistSaveLine(line), cur' = 0
  PROVE  \E k, Q :
           /\ k \in 0..n /\ RingTypeOK'
           /\ Holds(ring_buf', begin', end', cur', n - k + 1, Q, M)
           /\ Fits(n, P, k, Len(line)) /\ \A j \in 0..(k - 1) : ~Fits(n, P, j, Len(line))
           /\ \A j \in 1..(n - k) : Kept(ring_buf', begin', Q, j) = Kept(ring_buf, begin, P, k + j)
           /\ Kept(ring_buf', begin', Q, n - k + 1) = line
<1> DEFINE len == Len(line)
           k == Erased(len)
           Q == Shifted(P, n, k, len)
<1>1. /\ ring_buf \in [Cells -> Nat] /\ begin \in Cells /\ Chain(ring_buf, begin, end, n, P)
      /\ \A j \in 1..n : Len(Kept(ring_buf, begin, P, j)) <= M
      /\ len \in Nat /\ len + 2 <= RingLen /\ n \in Nat
  <2>1. Chain(ring_buf, begin, end, n, P) /\ \A j \in 1..n : Len(Kept(ring_buf, begin, P, j)) <= M
    BY DEF Holds
  <2>2. len \in Nat /\ len + 2 <= RingLen
    BY RingAssumption
  <2>3. n \in Nat
    BY <2>1 DEF Chain
  <2> QED BY <2>1, <2>2, <2>3 DEF RingTypeOK
<1>2. begin' = HeaderAt[k] /\ ring_buf' = Stored(line) /\ end' = WrapOnce(end + len + 1)
  BY RingAssumption DEF HistSaveLine
<1> HIDE DEF len
<1>3. k \in 0..n /\ Fits(n, P, k, len) /\ \A j \in 0..(k - 1) : ~Fits(n, P, j, len)
  BY <1>1, ErasedIs
<1> HIDE DEF k
<1>4. begin' = WrapOnce(begin + P[k])
  <2>1. \A j \in 0..n : Walk(ring_buf, begin)[j] = WrapOnce(begin + P[j])
    BY <1>1, ChainIsWalked
  <2> QED BY <1>2, <1>3, <2>1, HeaderAtIsWalk
<1>5. Q = Shifted(P, n, k, len)
  OBVIOUS
<1> HIDE DEF Q
<1>6. /\ ring_buf' \in [Cells -> Nat] /\ begin' \in Cells
      /\ Chain(ring_buf', begin', end', n - k + 1, Q)
      /\ \A j \in 1..(n - k) : Kept(ring_buf', begin', Q, j) = Kept(ring_buf, begin, P, k + j)
      /\ Kept(ring_buf', begin', Q, n - k + 1) = line
  <2>1. Fits(n, P, k, Len(line)) /\ end' = WrapOnce(end + Len(line) + 1) /\ Q = Shifted(P, n, k, Len(line))
    BY <1>2, <1>3, <1>5 DEF len
  <2>2. PICK a, buf, e, q : a = begin' /\ buf = ring_buf' /\ e = end' /\ q = Q
    OBVIOUS
  <2>3. /\ a = WrapOnce(begin + P[k]) /\ buf = Stored(line) /\ e = WrapOnce(end + Len(line) + 1)
        /\ q = Shifted(P, n, k, Len(line))
    BY <1>2, <1>4, <2>1, <2>2
  <2>4. /\ buf \in [Cells -> Nat] /\ a \in Cells
        /\ Chain(buf, a, e, n - k + 1, q)
        /\ \A j \in 1..(n - k) : Kept(buf, a, q, j) = Kept(ring_buf, begin, P, k + j)
        /\ Kept(buf, a, q, n - k + 1) = line
    <3>1. ring_buf \in [Cells -> Nat] /\ begin \in Cells /\ Chain(ring_buf, begin, end, n, P)
      BY <1>1
    <3>2. k \in 0..n /\ Fits(n, P, k, Len(line))
      BY <1>3, <2>1
    <3>3. SavedAs(n, P, line, k, buf, a, e, q)
      BY <2>3, <3>2 DEF SavedAs
    <3> QED BY <3>1, <3>2, <3>3, SavedChain
  <2> QED BY <2>2, <2>4, Zenon
<1>7. ASSUME NEW j \in 1..(n - k + 1) PROVE Len(Kept(ring_buf', begin', Q, j)) <= M
  <2>1. CASE j = n - k + 1
    BY <1>6, <2>1
  <2>2. CASE j # n - k + 1
    <3>1. j \in 1..(n - k) /\ k + j \in 1..n
      BY <1>1, <1>3, <2>2
    <3> QED BY <1>1, <1>6, <3>1
  <2> QED BY <2>1, <2>2
<1>8. n - k + 1 \in Nat /\ 0 \in 0..(n - k + 1)
  BY <1>1, <1>3
<1>9. end' \in Cells
  <2>1. end' = WrapOnce(begin' + Q[n - k + 1])
    BY <1>6 DEF Chain
  <2>2. \A j \in 0..(n - k + 1) : WrapOnce(begin' + Q[j]) \in Cells
    BY <1>6, ChainGrows
  <2>3. n - k + 1 \in 0..(n - k + 1)
    BY <1>8
  <2> QED BY <2>1, <2>2, <2>3
<1>10. RingTypeOK'
  BY <1>6, <1>9, RingAssumption DEF RingTypeOK
<1>11. Holds(ring_buf', begin', end', cur', n - k + 1, Q, M)
  BY <1>6, <1>7, <1>8 DEF Holds
<1> QED BY <1>3, <1>6, <1>10, <1>11 DEF len

LEMMA RingKeepsEntering ==
  ASSUME NEW M, RingInv(M), NEW line \in Seq(Nat), line # <<>>, Len(line) <= M,
         HistSaveLine(line), cur' = 0
  PROVE  RingInv(M)'
<1>1. PICK n, P : Holds(ring_buf, begin, end, cur, n, P, M)
  BY DEF RingInv
<1>2. CASE Len(line) <= RingLen - 2
  <2>1. PICK k, Q : k \in 0..n /\ RingTypeOK' /\ Holds(ring_buf', begin', end', cur', n - k + 1, Q, M)
    BY <1>1, <1>2, RingEnters DEF RingInv
  <2> QED BY <2>1 DEF RingInv
<1>3. CASE ~(Len(line) <= RingLen - 2)
  <2>1. UNCHANGED <<ring_buf, begin, end>>
    BY <1>3 DEF HistSaveLine
  <2>2. RingTypeOK'
    BY <2>1, RingAssumption DEF RingInv, RingTypeOK
  <2>3. Holds(ring_buf', begin', end', cur', n, P, M)
    <3>1. n \in Nat
      BY <1>1 DEF Holds, Chain
    <3> QED BY <1>1, <2>1, <3>1 DEF Holds
  <2> QED BY <2>2, <2>3 DEF RingInv
<1> QED BY <1>2, <1>3

\* The searches stay within the lines.
LEMMA RingKeepsSearching ==
  ASSUME NEW M, RingInv(M), Up \/ Down PROVE RingInv(M)'
<1>1. PICK n, P : Holds(ring_buf, begin, end, cur, n, P, M)
  BY DEF RingInv
<1>2. /\ RingTypeOK /\ Chain(ring_buf, begin, end, n, P) /\ cur \in 0..n /\ begin \in Cells
      /\ UNCHANGED <<ring_buf, begin, end>>
  BY <1>1 DEF RingInv, Holds, Up, Down, RingTypeOK
<1>3. n \in Nat /\ n < RingLen /\ RingLen \in Nat
  <2>1. n \in Nat /\ RingLen \in Nat
    BY <1>2, RingAssumption DEF Chain
  <2> QED BY <1>2, <2>1, ChainGrows
<1>4. Count = n
  BY <1>2, CountIs, CountIsOf
<1>5. cur' \in 0..n
  <2>1. CASE Up
    BY <1>2, <1>3, <1>4, <2>1 DEF Up, HasOlder
  <2>2. CASE Down
    BY <1>2, <1>3, <2>2 DEF Down
  <2> QED BY <2>1, <2>2
<1>6. RingTypeOK'
  BY <1>2, <1>3, <1>5 DEF RingTypeOK
<1>7. Holds(ring_buf', begin', end', cur', n, P, M)
  BY <1>1, <1>2, <1>5 DEF Holds
<1> QED BY <1>6, <1>7 DEF RingInv

-------------------------------------------------------------------------------
\* The history on its own.

\* A line that is longer than the ring is not kept, so that any bound will do.
LEMMA HistoryNext ==
  ASSUME RingInv(RingLen), HistNext PROVE RingInv(RingLen)'
<1>1. ASSUME NEW line \in Lines, EnterLine(line) PROVE RingInv(RingLen)'
  <2>1. line \in Seq(Nat) /\ line # <<>> /\ Len(line) \in Nat /\ RingLen \in Nat
    BY LinesAssumption, RingAssumption
  <2>2. CASE Len(line) <= RingLen
    BY <1>1, <2>1, <2>2, RingKeepsEntering DEF EnterLine
  <2>3. CASE ~(Len(line) <= RingLen)
    <3>1. UNCHANGED <<ring_buf, begin, end>> /\ cur' = 0
      BY <1>1, <2>1, <2>3 DEF EnterLine, HistSaveLine
    <3>2. PICK n, P : Holds(ring_buf, begin, end, cur, n, P, RingLen)
      BY DEF RingInv
    <3>3. n \in Nat
      BY <3>2 DEF Holds, Chain
    <3>4. Holds(ring_buf', begin', end', cur', n, P, RingLen)
      BY <3>1, <3>2, <3>3 DEF Holds
    <3>5. RingTypeOK'
      BY <2>1, <3>1 DEF RingInv, RingTypeOK
    <3> QED BY <3>4, <3>5 DEF RingInv
  <2> QED BY <2>2, <2>3
<1>2. CASE Recall
  BY <1>2, RingKeepsSearching DEF Recall
<1> QED BY <1>1, <1>2 DEF HistNext

LEMMA HistoryHolds == HistSpec => []RingInv(RingLen)
<1>1. HistInit => RingInv(RingLen)
  BY RingStarts DEF HistInit
<1>2. RingInv(RingLen) /\ UNCHANGED histVars => RingInv(RingLen)'
  <2> SUFFICES ASSUME RingInv(RingLen), UNCHANGED histVars PROVE RingInv(RingLen)'
    OBVIOUS
  <2>1. UNCHANGED <<ring_buf, begin, end, cur>>
    BY DEF histVars, ringVars
  <2> QED BY <2>1 DEF RingInv, RingTypeOK
<1>3. RingInv(RingLen) /\ [HistNext]_histVars => RingInv(RingLen)'
  BY <1>2, HistoryNext
<1> QED BY <1>1, <1>3, PTL DEF HistSpec

\* hist_save_line's loop ends before it has gone round the ring.
THEOREM SavingComesToAnEnd == HistSpec => []SavingEnds
<1>1. RingInv(RingLen) => SavingEnds
  <2> SUFFICES ASSUME RingInv(RingLen), NEW len \in 1..(RingLen - 2)
               PROVE  \E k \in 0..RingLen : IsSpaceForNew(HeaderAt[k], len)
    BY DEF SavingEnds
  <2>1. PICK n, P : Holds(ring_buf, begin, end, cur, n, P, RingLen)
    BY DEF RingInv
  <2>2. Chain(ring_buf, begin, end, n, P) /\ begin \in Cells
    BY <2>1 DEF Holds, RingInv, RingTypeOK
  <2>3. n \in Nat /\ P[n] \in Nat /\ n \in 0..n /\ RingLen \in Nat
    BY <2>2, RingAssumption DEF Chain
  <2>4. n \in 0..RingLen
    <3>1. n < RingLen
      BY <2>2, ChainGrows
    <3> QED BY <2>3, <3>1
  <2>5. len \in Nat /\ len + 2 <= RingLen
    BY <2>3
  <2>6. Fits(n, P, n, len)
    BY <2>3, <2>5 DEF Fits
  <2>7. IsSpaceForNew(HeaderAt[n], len)
    BY <2>2, <2>3, <2>5, <2>6, SpaceIs
  <2> QED BY <2>4, <2>7
<1> QED BY <1>1, HistoryHolds, PTL

\* The walk over the lines from begin meets the end mark, and nothing that looks like
\* one before it.
THEOREM WalkIsWhole == HistSpec => []WalkEndsAtEnd
<1>1. RingInv(RingLen) => WalkEndsAtEnd
  <2> SUFFICES ASSUME RingInv(RingLen) PROVE WalkEndsAtEnd
    OBVIOUS
  <2>1. PICK n, P : Holds(ring_buf, begin, end, cur, n, P, RingLen)
    BY DEF RingInv
  <2>2. Chain(ring_buf, begin, end, n, P) /\ begin \in Cells
    BY <2>1 DEF Holds, RingInv, RingTypeOK
  <2>3. n \in Nat /\ RingLen \in Nat
    BY <2>2, RingAssumption DEF Chain
  <2>4. n \in 0..RingLen
    <3>1. n < RingLen
      BY <2>2, ChainGrows
    <3> QED BY <2>3, <3>1
  <2>5. HeaderAt[n] = end /\ \A k \in 0..n : ring_buf[HeaderAt[k]] = 0 <=> k = n
    BY <2>2, ChainIsWalked, HeaderAtIsWalk
  <2> QED BY <2>4, <2>5 DEF WalkEndsAtEnd
<1> QED BY <1>1, HistoryHolds, PTL

-------------------------------------------------------------------------------
\* The lines in the ring, as HistoryLog has them.
Lns == [k \in 1..Count |-> LineAt(HeaderAt[k - 1])]

LEMMA LnsAre == Lns = LinesOf(ring_buf, begin) /\ Lns' = LinesOf(ring_buf', begin')
<1>1. Lns = LinesOf(ring_buf, begin)
  BY CountIsOf, LineAtIsOf, HeaderAtIsWalk DEF Lns, LinesOf
<1>2. Lns' = LinesOf(ring_buf', begin')
  BY DEF Lns, LinesOf, Count, CountOf, LineAt, LineOf, HeaderAt, Walk
<1> QED BY <1>1, <1>2

LEMMA LinesType ==
  ASSUME NEW buf \in [Cells -> Nat], NEW b \in Cells, NEW e, NEW n, NEW P, Chain(buf, b, e, n, P)
  PROVE  /\ n \in Nat /\ LinesOf(buf, b) \in Seq(Seq(Nat)) /\ Len(LinesOf(buf, b)) = n
         /\ \A k \in 1..n : LinesOf(buf, b)[k] = Kept(buf, b, P, k)
<1>1. LinesOf(buf, b) = [k \in 1..n |-> Kept(buf, b, P, k)]
  BY LinesAre
<1>2. \A k \in 1..n : Kept(buf, b, P, k) \in Seq(Nat)
  BY KeptType
<1>3. n \in Nat
  BY DEF Chain
<1>4. LinesOf(buf, b) \in [1..n -> Seq(Nat)]
  BY <1>1, <1>2
<1> QED BY <1>1, <1>3, <1>4

\* The bytes that the lines from the kth on take.
BytesOf(ls) == Len(FlattenSeq(ls)) + Len(ls)

LEMMA BytesAre ==
  ASSUME NEW buf \in [Cells -> Nat], NEW b \in Cells, NEW e, NEW n, NEW P, Chain(buf, b, e, n, P),
         NEW k \in 0..n
  PROVE  BytesOf(SubSeq(LinesOf(buf, b), k + 1, n)) = P[n] - P[k]
<1> DEFINE all == LinesOf(buf, b)
           ls == SubSeq(all, k + 1, n)
           m == n - k
<1>1. n \in Nat /\ all \in Seq(Seq(Nat)) /\ Len(all) = n /\ \A j \in 1..n : all[j] = Kept(buf, b, P, j)
  BY LinesType
<1>2. k \in Nat /\ k <= n /\ m \in Nat
  BY <1>1
<1>3. ls \in Seq(Seq(Nat)) /\ Len(ls) = m /\ \A j \in 1..m : ls[j] = all[k + j]
  <2> DEFINE A == Seq(Nat)
  <2>1. all \in Seq(A) /\ k \in 0..Len(all)
    BY <1>1
  <2> HIDE DEF A, all
  <2>2. /\ SubSeq(all, k + 1, Len(all)) \in Seq(A) /\ Len(SubSeq(all, k + 1, Len(all))) = Len(all) - k
        /\ \A j \in 1..(Len(all) - k) : SubSeq(all, k + 1, Len(all))[j] = all[k + j]
    BY <2>1, SubSeqFrom
  <2>3. Len(all) = n
    BY <1>1
  <2>4. ls \in Seq(A) /\ Len(ls) = m /\ \A j \in 1..m : ls[j] = all[k + j]
    BY <2>2, <2>3, Zenon DEF ls, m
  <2> QED BY <2>4 DEF A
<1> HIDE DEF ls
<1>4. PICK off : Layout(ls, m, off, FlattenSeq(ls))
  <2> DEFINE A == Seq(Nat)
  <2>1. ls \in Seq(Seq(Nat)) => FlattenSeq(ls) \in Seq(Nat) /\ \E off : Layout(ls, Len(ls), off, FlattenSeq(ls))
    BY Flattened
  <2> QED BY <1>3, <2>1
<1>5. /\ off \in [0..m -> Nat] /\ off[0] = 0 /\ Len(FlattenSeq(ls)) = off[m]
      /\ \A j \in 1..m : off[j] = off[j - 1] + Len(ls[j])
  BY <1>4 DEF Layout
<1>6. ASSUME NEW j \in 1..m
      PROVE  /\ P[k + j] \in Nat /\ P[k + (j - 1)] \in Nat
             /\ Len(ls[j]) = P[k + j] - P[k + (j - 1)] - 1
  <2>1. k + j \in 1..n /\ (k + j) - 1 = k + (j - 1)
    BY <1>1, <1>2
  <2>2. ls[j] = Kept(buf, b, P, k + j)
    BY <1>1, <1>3, <2>1
  <2>3. /\ Len(Kept(buf, b, P, k + j)) = P[k + j] - P[(k + j) - 1] - 1
        /\ P[(k + j) - 1] \in Nat /\ P[k + j] \in Nat
    BY <2>1, KeptType
  <2> QED BY <2>1, <2>2, <2>3
<1> HIDE DEF m, all
<1>7. P[k] \in Nat
  BY <1>2 DEF Chain
<1> DEFINE S == {j \in Nat : j <= m => off[j] + j = P[k + j] - P[k]}
<1>8. 0 \in S
  <2>1. k + 0 = k /\ off[0] + 0 = 0
    BY <1>2, <1>5
  <2>2. off[0] + 0 = P[k + 0] - P[k]
    BY <1>7, <2>1
  <2> QED BY <2>2
<1>9. ASSUME NEW j \in Nat, j \in S PROVE j + 1 \in S
  <2> SUFFICES ASSUME j + 1 <= m PROVE off[j + 1] + (j + 1) = P[k + (j + 1)] - P[k]
    OBVIOUS
  <2>1. j + 1 \in 1..m /\ (j + 1) - 1 = j /\ j \in 0..m /\ j <= m
    BY <1>2
  <2>2. off[j] + j = P[k + j] - P[k] /\ off[j] \in Nat
    BY <1>5, <1>9, <2>1
  <2>3. off[j + 1] = off[j] + Len(ls[j + 1])
    BY <1>5, <2>1
  <2>4. /\ P[k + (j + 1)] \in Nat /\ P[k + j] \in Nat
        /\ Len(ls[j + 1]) = P[k + (j + 1)] - P[k + j] - 1
    BY <1>6, <2>1
  <2> DEFINE o == off[j]  p == P[k]  q == P[k + j]  r == P[k + (j + 1)]
  <2>5. o \in Nat /\ p \in Nat /\ q \in Nat /\ r \in Nat /\ o + j = q - p /\ off[j + 1] = o + (r - q - 1)
    BY <1>7, <2>2, <2>3, <2>4
  <2> HIDE DEF o, p, q, r
  <2>6. off[j + 1] + (j + 1) = r - p
    BY <2>5
  <2> QED BY <2>6 DEF r, p
<1> HIDE DEF S
<1>10. Nat \subseteq S
  BY <1>8, <1>9, NatSetInduction
<1>11. off[m] + m = P[n] - P[k]
  <2>1. m \in S /\ m <= m /\ k + m = n
    BY <1>1, <1>2, <1>10 DEF m
  <2> QED BY <2>1 DEF S
<1> QED BY <1>3, <1>5, <1>11 DEF BytesOf, ls, all

\* Enter keeps the latest lines that fit.
LEMMA EnterKeepsLatest ==
  ASSUME NEW M, RingInv(M), NEW line \in Seq(Nat), line # <<>>, Len(line) <= RingLen - 2, Len(line) <= M,
         HistSaveLine(line), cur' = 0
  PROVE  \E k \in 0..Len(Lns) :
           /\ Lns \in Seq(Seq(Nat))
           /\ Lns' = Append(SubSeq(Lns, k + 1, Len(Lns)), line)
           /\ \A j \in 0..k :
                LET ls == SubSeq(Lns, j + 1, Len(Lns))
                IN  /\ Len(FlattenSeq(ls)) + Len(ls) \in Nat
                    /\ Len(FlattenSeq(ls)) + Len(ls) + Len(line) + 2 <= RingLen <=> j = k
<1> DEFINE len == Len(line)
<1>1. PICK n, P : Holds(ring_buf, begin, end, cur, n, P, M)
  BY DEF RingInv
<1>2. /\ RingTypeOK /\ Chain(ring_buf, begin, end, n, P) /\ ring_buf \in [Cells -> Nat] /\ begin \in Cells
  BY <1>1 DEF RingInv, Holds, RingTypeOK
<1>3. len \in Nat /\ RingLen \in Nat /\ len <= M
  BY RingAssumption
<1>4. PICK k, Q :
        /\ k \in 0..n /\ RingTypeOK'
        /\ Holds(ring_buf', begin', end', cur', n - k + 1, Q, M)
        /\ Fits(n, P, k, len) /\ \A j \in 0..(k - 1) : ~Fits(n, P, j, len)
        /\ \A j \in 1..(n - k) : Kept(ring_buf', begin', Q, j) = Kept(ring_buf, begin, P, k + j)
        /\ Kept(ring_buf', begin', Q, n - k + 1) = line
  BY <1>1, <1>2, <1>3, RingEnters
<1>5. /\ n \in Nat /\ Lns \in Seq(Seq(Nat)) /\ Len(Lns) = n
      /\ \A j \in 1..n : Lns[j] = Kept(ring_buf, begin, P, j)
  BY <1>2, LinesType, LnsAre
<1> DEFINE m == n - k + 1
<1>6. /\ Lns' \in Seq(Seq(Nat)) /\ Len(Lns') = m
      /\ \A j \in 1..m : Lns'[j] = Kept(ring_buf', begin', Q, j)
  <2>1. PICK buf, a, e : buf = ring_buf' /\ a = begin' /\ e = end'
    OBVIOUS
  <2>2. buf \in [Cells -> Nat] /\ a \in Cells /\ Chain(buf, a, e, m, Q)
    BY <1>4, <2>1 DEF RingTypeOK, Holds
  <2>3. /\ LinesOf(buf, a) \in Seq(Seq(Nat)) /\ Len(LinesOf(buf, a)) = m
        /\ \A j \in 1..m : LinesOf(buf, a)[j] = Kept(buf, a, Q, j)
    BY <2>2, LinesType
  <2>4. Lns' = LinesOf(buf, a)
    BY <2>1, LnsAre
  <2> QED BY <2>1, <2>3, <2>4
<1>7. k \in Nat /\ k <= n /\ m \in Nat /\ n - k \in Nat /\ m = (n - k) + 1
  <2>1. n \in Nat
    BY <1>5
  <2>2. k \in 0..n
    BY <1>4
  <2> QED BY <2>1, <2>2
<1> DEFINE kept == SubSeq(Lns, k + 1, n)
<1>8. kept \in Seq(Seq(Nat)) /\ Len(kept) = n - k /\ \A j \in 1..(n - k) : kept[j] = Lns[k + j]
  <2> DEFINE A == Seq(Nat)
             L == Lns
  <2>1. L \in Seq(A) /\ Len(L) = n
    BY <1>5
  <2>2. k \in 0..Len(L)
    BY <1>4, <2>1
  <2> HIDE DEF A, L
  <2>3. /\ SubSeq(L, k + 1, Len(L)) \in Seq(A) /\ Len(SubSeq(L, k + 1, Len(L))) = Len(L) - k
        /\ \A j \in 1..(Len(L) - k) : SubSeq(L, k + 1, Len(L))[j] = L[k + j]
    BY <2>1, <2>2, SubSeqFrom
  <2> QED BY <2>1, <2>3 DEF A, L
<1>9. Lns' = Append(kept, line)
  <2> DEFINE new == Append(kept, line)
  <2>1. new \in Seq(Seq(Nat)) /\ Len(new) = m
        /\ \A j \in 1..m : new[j] = IF j = m THEN line ELSE kept[j]
    BY <1>7, <1>8
  <2>2. ASSUME NEW j \in 1..m PROVE Lns'[j] = new[j]
    <3>1. CASE j = m
      BY <1>4, <1>6, <2>1, <3>1
    <3>2. CASE j # m
      <4>1. j \in 1..(n - k) /\ k + j \in 1..n
        BY <1>5, <1>7, <3>2
      <4>2. new[j] = Lns[k + j]
        BY <1>8, <2>1, <3>2, <4>1
      <4>3. Lns[k + j] = Kept(ring_buf, begin, P, k + j)
        BY <1>5, <4>1
      <4>4. Lns'[j] = Kept(ring_buf, begin, P, k + j)
        BY <1>4, <1>6, <4>1
      <4> QED BY <4>2, <4>3, <4>4
    <3> QED BY <3>1, <3>2
  <2> HIDE DEF new, m
  <2> DEFINE old == Lns'
  <2>3. old \in Seq(Seq(Nat)) /\ Len(old) = m /\ \A j \in 1..m : old[j] = new[j]
    BY <1>6, <2>2
  <2> HIDE DEF old
  <2>4. old = new
    BY <2>1, <2>3
  <2> QED BY <2>4 DEF old, new
<1>10. ASSUME NEW j \in 0..k
       PROVE  LET ls == SubSeq(Lns, j + 1, Len(Lns))
              IN  /\ Len(FlattenSeq(ls)) + Len(ls) \in Nat
                  /\ Len(FlattenSeq(ls)) + Len(ls) + Len(line) + 2 <= RingLen <=> j = k
  <2> DEFINE ls == SubSeq(Lns, j + 1, Len(Lns))
             bytes == Len(FlattenSeq(ls)) + Len(ls)
  <2>1. j \in 0..n
    BY <1>5, <1>7
  <2>2. ls = SubSeq(LinesOf(ring_buf, begin), j + 1, n)
    BY <1>5, LnsAre
  <2>3. bytes = P[n] - P[j]
    <3> HIDE DEF ls
    <3>1. BytesOf(SubSeq(LinesOf(ring_buf, begin), j + 1, n)) = P[n] - P[j]
      BY <1>2, <2>1, BytesAre
    <3> QED BY <2>2, <3>1 DEF BytesOf
  <2> HIDE DEF ls, bytes
  <2>4. P[n] \in Nat /\ P[j] \in Nat /\ P[j] <= P[n]
    <3>1. n \in 0..n /\ j <= n /\ n - j \in Nat
      BY <1>5, <2>1
    <3>2. P[j] + (n - j) <= P[n] /\ P[n] \in 0..(RingLen - 1) /\ P[j] \in 0..(RingLen - 1)
      BY <1>2, <2>1, <3>1, ChainGrows
    <3> QED BY <3>1, <3>2
  <2>5. bytes \in Nat
    BY <2>3, <2>4
  <2>6. bytes + len + 2 <= RingLen <=> Fits(n, P, j, len)
    BY <2>3 DEF Fits
  <2>7. Fits(n, P, j, len) <=> j = k
    <3>1. j # k => j \in 0..(k - 1)
      <4>1. k \in Nat /\ j \in 0..k
        BY <1>7
      <4> QED BY <4>1
    <3> QED BY <1>4, <3>1
  <2>8. bytes \in Nat /\ (bytes + len + 2 <= RingLen <=> j = k)
    BY <2>5, <2>6, <2>7
  <2> QED BY <2>8 DEF bytes, ls
<1>11. k \in 0..Len(Lns)
  BY <1>4, <1>5
<1> QED BY <1>5, <1>9, <1>10, <1>11

\* What the searches find.
LEMMA SearchFinds ==
  ASSUME NEW M, RingInv(M)
  PROVE  /\ Lns \in Seq(Seq(Nat)) /\ cur \in 0..Len(Lns)
         /\ \A k \in 1..Len(Lns) : Len(Lns[k]) <= M
         /\ HasOlder <=> cur < Len(Lns)
         /\ HasOlder => OlderLine = Lns[Len(Lns) - cur]
         /\ cur > 1 => NewerLine = Lns[Len(Lns) - cur + 2]
         /\ ~(cur > 1) => NewerLine = <<>>
<1>1. PICK n, P : Holds(ring_buf, begin, end, cur, n, P, M)
  BY DEF RingInv
<1>2. Chain(ring_buf, begin, end, n, P) /\ cur \in 0..n /\ ring_buf \in [Cells -> Nat] /\ begin \in Cells
  BY <1>1 DEF RingInv, Holds, RingTypeOK
<1>3. n \in Nat /\ Lns \in Seq(Seq(Nat)) /\ Len(Lns) = n
  BY <1>2, LinesType, LnsAre
<1>10. \A k \in 1..n : Len(Lns[k]) <= M
  <2>1. \A k \in 1..n : Lns[k] = Kept(ring_buf, begin, P, k)
    BY <1>2, LinesType, LnsAre
  <2>2. \A k \in 1..n : Len(Kept(ring_buf, begin, P, k)) <= M
    BY <1>1 DEF Holds
  <2> QED BY <2>1, <2>2
<1>4. Count = n
  BY <1>2, CountIs, CountIsOf
<1>5. ASSUME NEW k \in 1..n PROVE Lns[k] = LineAt(HeaderAt[k - 1])
  BY <1>4 DEF Lns
<1>6. HasOlder <=> cur < n
  BY <1>4 DEF HasOlder
<1>7. ASSUME HasOlder PROVE OlderLine = Lns[n - cur]
  <2>1. n - cur \in 1..n /\ (n - cur) - 1 = n - 1 - cur
    BY <1>2, <1>3, <1>6, <1>7
  <2> QED BY <1>4, <1>5, <2>1 DEF OlderLine
<1>8. ASSUME cur > 1 PROVE NewerLine = Lns[n - cur + 2]
  <2>1. n - cur + 2 \in 1..n /\ (n - cur + 2) - 1 = n - (cur - 1) /\ cur > 0
    BY <1>2, <1>3, <1>8
  <2>2. Lns[n - cur + 2] = LineAt(HeaderAt[n - (cur - 1)])
    BY <1>5, <2>1
  <2> QED BY <1>4, <2>1, <2>2 DEF NewerLine
<1>9. ASSUME ~(cur > 1) PROVE NewerLine = <<>>
  <2>1. CASE cur = 0
    BY <2>1 DEF NewerLine
  <2>2. CASE cur # 0
    <3>1. cur = 1 /\ n - (cur - 1) = n /\ n \in 0..n
      BY <1>2, <1>3, <1>9, <2>2
    <3>2. NewerLine = LineAt(HeaderAt[n])
      BY <1>4, <3>1 DEF NewerLine
    <3>3. ring_buf[HeaderAt[n]] = 0
      BY <1>2, <3>1, ChainIsWalked, HeaderAtIsWalk
    <3>4. LineAt(HeaderAt[n]) = <<>>
      BY <3>3 DEF LineAt
    <3> QED BY <3>2, <3>4
  <2> QED BY <2>1, <2>2
<1> QED BY <1>2, <1>3, <1>6, <1>7, <1>8, <1>9, <1>10

LEMMA LnsSame ==
  ASSUME UNCHANGED <<ring_buf, begin>> PROVE Lns' = Lns
BY LnsAre

LEMMA LogBytes ==
  ASSUME NEW ls PROVE Log!Bytes(ls) = Len(FlattenSeq(ls)) + Len(ls)
BY DEF Log!Bytes, Log!FlattenSeq, FlattenSeq

LEMMA EnterRefines ==
  ASSUME RingInv(RingLen), NEW line \in Lines, EnterLine(line) PROVE Log!HistNext
<1>1. /\ line \in Seq(Nat) /\ line # <<>> /\ Len(line) \in Nat /\ RingLen \in Nat
      /\ HistSaveLine(line) /\ cur' = 0 /\ shown' = shown
  BY LinesAssumption, RingAssumption DEF EnterLine
<1>2. CASE Len(line) + 2 > RingLen
  <2>1. UNCHANGED <<ring_buf, begin>>
    BY <1>1, <1>2 DEF HistSaveLine
  <2>2. Lns' = Lns
    BY <2>1, LnsSame
  <2>3. Log!Entered(line)
    BY <1>1, <1>2, <2>2 DEF Log!Entered, Lns
  <2> QED BY <1>1, <2>3 DEF Log!HistNext
<1>3. CASE ~(Len(line) + 2 > RingLen)
  <2>1. Len(line) <= RingLen - 2
    BY <1>1, <1>3
  <2>2. PICK k \in 0..Len(Lns) :
          /\ Lns \in Seq(Seq(Nat))
          /\ Lns' = Append(SubSeq(Lns, k + 1, Len(Lns)), line)
          /\ \A j \in 0..k :
               LET ls == SubSeq(Lns, j + 1, Len(Lns))
               IN  /\ Len(FlattenSeq(ls)) + Len(ls) \in Nat
                   /\ Len(FlattenSeq(ls)) + Len(ls) + Len(line) + 2 <= RingLen <=> j = k
    <3>1. Len(line) <= RingLen
      BY <1>1, <2>1
    <3> QED BY <1>1, <2>1, <3>1, EnterKeepsLatest
  <2>3. k \in Nat /\ k + 1 \in 1..(Len(Lns) + 1) /\ k \in 0..k
    BY <2>2
  <2>4. Log!From(k + 1) = SubSeq(Lns, k + 1, Len(Lns))
    BY DEF Log!From, Lns
  <2>5. Log!Bytes(Log!From(k + 1)) + Len(line) + 2 <= RingLen
    BY <2>2, <2>3, <2>4, LogBytes
  <2>6. ASSUME NEW i \in 1..k PROVE Log!Bytes(Log!From(i)) + Len(line) + 2 > RingLen
    <3> DEFINE j == i - 1
               ls == SubSeq(Lns, j + 1, Len(Lns))
               bytes == Len(FlattenSeq(ls)) + Len(ls)
    <3>1. j \in 0..k /\ j # k /\ j + 1 = i
      BY <2>3
    <3>2. bytes \in Nat /\ ~(bytes + Len(line) + 2 <= RingLen)
      BY <2>2, <3>1
    <3>3. Log!Bytes(Log!From(i)) = bytes
      <4>1. Log!From(i) = SubSeq(Lns, i, Len(Lns))
        BY DEF Log!From, Lns
      <4> QED BY <3>1, <4>1, LogBytes
    <3> HIDE DEF bytes
    <3> QED BY <1>1, <3>2, <3>3
  <2>7. Lns' = Append(Log!From(k + 1), line)
    BY <2>2, <2>4
  <2>8. (k + 1) - 1 = k
    BY <2>3
  <2>9. Log!Entered(line)
    BY <1>1, <1>3, <2>3, <2>5, <2>6, <2>7, <2>8 DEF Log!Entered, Lns
  <2> QED BY <1>1, <2>9 DEF Log!HistNext
<1> QED BY <1>2, <1>3

LEMMA RecallRefines ==
  ASSUME RingInv(RingLen), Recall PROVE Log!HistNext
<1>1. UNCHANGED <<ring_buf, begin, end>>
  BY DEF Recall, Up, Down
<1>2. Lns' = Lns
  BY <1>1, LnsSame
<1>3. CASE Up /\ shown' = OlderLine
  <2>1. Log!Older
    BY <1>2, <1>3, SearchFinds DEF Log!Older, Up, Lns
  <2> QED BY <2>1 DEF Log!HistNext
<1>4. CASE Down /\ shown' = NewerLine
  <2>1. Log!Newer
    BY <1>2, <1>4, SearchFinds DEF Log!Newer, Down, Lns
  <2> QED BY <2>1 DEF Log!HistNext
<1> QED BY <1>3, <1>4 DEF Recall

\* The ring, its headers and the walk implement a history that keeps the latest lines
\* that fit and shows the neighbours of a place in them.
THEOREM HistoryIsLog == HistSpec => HistoryAsSpecified
<1>1. HistInit => Log!HistInit
  <2> SUFFICES ASSUME HistInit PROVE Log!HistInit
    OBVIOUS
  <2>1. RingInv(RingLen) /\ cur = 0 /\ shown = <<>>
    BY RingStarts DEF HistInit, RingInit
  <2>2. HeaderAt[0] = begin
    BY HeaderAtIsWalk, WalkFollows
  <2>3. ring_buf[HeaderAt[0]] = 0
    BY <2>2, RingAssumption DEF HistInit, RingInit, Cells
  <2>4. Count = 0
    <3>1. PICK n, P : Holds(ring_buf, begin, end, cur, n, P, RingLen)
      BY <2>1 DEF RingInv
    <3>2. Chain(ring_buf, begin, end, n, P) /\ begin \in Cells /\ n \in Nat
      BY <2>1, <3>1 DEF RingInv, Holds, RingTypeOK, Chain
    <3>3. \A k \in 0..n : ring_buf[HeaderAt[k]] = 0 <=> k = n
      BY <3>2, ChainIsWalked, HeaderAtIsWalk
    <3>4. 0 = n
      BY <2>3, <3>2, <3>3
    <3> QED BY <3>2, <3>4, CountIs, CountIsOf
  <2>5. Lns = <<>>
    BY <2>4 DEF Lns
  <2> QED BY <2>1, <2>5 DEF Log!HistInit, Lns
<1>2. RingInv(RingLen) /\ [HistNext]_histVars => [Log!HistNext]_Log!histVars
  <2> SUFFICES ASSUME RingInv(RingLen), [HistNext]_histVars PROVE [Log!HistNext]_Log!histVars
    OBVIOUS
  <2>1. CASE HistNext
    BY <2>1, EnterRefines, RecallRefines DEF HistNext
  <2>2. CASE UNCHANGED histVars
    <3>1. UNCHANGED <<ring_buf, begin, cur, shown>>
      BY <2>2 DEF histVars, ringVars
    <3> QED BY <3>1, LnsSame DEF Log!histVars, Lns
  <2> QED BY <2>1, <2>2
<1> QED BY <1>1, <1>2, HistoryHolds, PTL DEF HistSpec, HistoryAsSpecified, Log!HistSpec
==============================================================================

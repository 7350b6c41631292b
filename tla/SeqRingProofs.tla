---------------------------- MODULE SeqRingProofs ----------------------------
(***************************************************************************)
(* Facts about u32 sequence numbers and their rings, for every Window and  *)
(* SeqSpace: what the comparisons, subtractions and masks of the code      *)
(* compute.  A packet is placed by its age, its distance from the newest   *)
(* number, since the numbers themselves wrap.                              *)
(***************************************************************************)
EXTENDS SeqRing, TLAPS

\* A window fits twice into the sequence numbers: 32 and 2^32.
LEMMA RingFacts ==
  /\ Window \in Nat \ {0}
  /\ SeqSpace \in Nat
  /\ 2 * Window <= SeqSpace
<1>1. PICK laps \in 2 .. SeqSpace : SeqSpace = laps * Window
  BY RingAssumption
<1>2. laps * Window >= 2 * Window
  BY RingAssumption
<1> QED
  BY <1>1, <1>2, RingAssumption

\* A number is its quotient by Window times Window, plus its remainder.
LEMMA DivMod ==
  ASSUME NEW a \in Nat
  PROVE  /\ a \div Window \in Nat
         /\ a % Window \in Bit
         /\ a = (a \div Window) * Window + (a % Window)
BY RingFacts DEF Bit

\* Whatever writes a as a multiple of Window plus a bit index names a % Window,
\* so a & 31 can be computed lap by lap.
LEMMA ModUnique ==
  ASSUME NEW a \in Nat, NEW q \in Int, NEW r \in Bit, a = q * Window + r
  PROVE  a % Window = r
<1> DEFINE p == a \div Window
<1>1. /\ p \in Nat
      /\ a % Window \in Bit
      /\ a = p * Window + (a % Window)
  BY DivMod
<1> HIDE DEF p
<1>2. (p - q) * Window = r - (a % Window)
  <2>1. (p - q) * Window = p * Window - q * Window
    BY <1>1, RingFacts
  <2>2. /\ p * Window \in Int
        /\ q * Window \in Int
    BY <1>1, RingFacts
  <2> QED BY <1>1, <2>1, <2>2 DEF Bit
<1>3. CASE p - q >= 1
  <2>1. (p - q) * Window >= Window
    BY <1>1, <1>3, RingFacts
  <2> QED BY <1>1, <1>2, <2>1, RingFacts DEF Bit
<1>4. CASE q - p >= 1
  <2>1. (q - p) * Window >= Window
    BY <1>1, <1>4, RingFacts
  <2>2. (q - p) * Window = -((p - q) * Window)
    BY <1>1, RingFacts
  <2> QED BY <1>1, <1>2, <2>1, <2>2, RingFacts DEF Bit
<1>5. CASE p = q
  BY <1>1, <1>5, RingFacts DEF Bit
<1> QED BY <1>1, <1>3, <1>4, <1>5

\* seq & 31 is a bit index.
LEMMA IndexBit ==
  ASSUME NEW a \in SeqNum
  PROVE  SeqIndex(a) \in Bit
BY DivMod DEF SeqNum, SeqIndex

\* The bit of a packet is found by walking back from the bit of a newer one by
\* their distance, over the wrap of u32 too: Window divides SeqSpace.
LEMMA IndexBefore ==
  ASSUME NEW a \in SeqNum, NEW b \in SeqNum, SeqSub(a, b) < Window
  PROVE  SeqIndex(b) = BitBefore(SeqIndex(a), SeqSub(a, b))
<1> DEFINE d == SeqSub(a, b)
           q == a \div Window
           r == a % Window
<1>1. /\ q \in Nat
      /\ r \in Bit
      /\ a = q * Window + r
  BY DivMod DEF SeqNum
<1>2. PICK laps \in 2 .. SeqSpace : SeqSpace = laps * Window
  BY RingAssumption
<1>3. d \in 0 .. (Window - 1)
  BY RingFacts DEF SeqSub, SeqNum
<1>4. PICK lap \in Int : b = (q + lap) * Window + r - d
  <2>1. CASE a >= b
    <3>1. b = (q + 0) * Window + r - d
      BY <1>1, <1>3, <2>1, RingFacts DEF SeqSub, SeqNum
    <3> QED BY <3>1
  <2>2. CASE a < b
    <3>1. b = a - d + SeqSpace
      BY <1>3, <2>2, RingFacts DEF SeqSub, SeqNum
    <3>2. (q + laps) * Window = q * Window + laps * Window
      BY <1>1, <1>2, RingFacts
    <3>3. b = (q + laps) * Window + r - d
      BY <1>1, <1>2, <1>3, <3>1, <3>2, RingFacts DEF SeqNum, Bit
    <3> QED BY <3>3, <1>2
  <2> QED BY <2>1, <2>2 DEF SeqNum
<1> HIDE DEF d, q, r
<1>5. CASE r >= d
  <2>1. r - d \in Bit
    BY <1>1, <1>3, <1>5, RingFacts DEF Bit
  <2>2. b = (q + lap) * Window + (r - d)
    BY <1>1, <1>3, <1>4, RingFacts DEF Bit
  <2>3. b % Window = r - d
    BY <1>1, <1>4, <2>1, <2>2, ModUnique DEF SeqNum
  <2> QED BY <1>5, <2>3 DEF BitBefore, SeqIndex, d, r
<1>6. CASE r < d
  <2>1. r - d + Window \in Bit
    BY <1>1, <1>3, <1>6, RingFacts DEF Bit
  <2>2. (q + lap - 1) * Window = (q + lap) * Window - Window
    BY <1>1, <1>4, RingFacts
  <2>3. b = (q + lap - 1) * Window + (r - d + Window)
    BY <1>1, <1>3, <1>4, <2>2, RingFacts DEF Bit
  <2>4. b % Window = r - d + Window
    BY <1>1, <1>4, <2>1, <2>3, ModUnique DEF SeqNum
  <2> QED BY <1>1, <1>3, <1>6, <2>4 DEF BitBefore, SeqIndex, d, r, Bit
<1> QED BY <1>1, <1>3, <1>5, <1>6 DEF Bit

\* u32 subtraction gives a u32, and 0 only for equal numbers.
LEMMA SubType ==
  ASSUME NEW a \in SeqNum, NEW b \in SeqNum
  PROVE  /\ SeqSub(a, b) \in SeqNum
         /\ SeqSub(a, b) = 0 <=> a = b
BY RingFacts DEF SeqSub, SeqNum

\* u32 subtraction gives a natural number.
LEMMA SubNat ==
  ASSUME NEW a \in SeqNum, NEW b \in SeqNum
  PROVE  SeqSub(a, b) \in Nat
BY SubType, RingFacts DEF SeqNum

\* Two packets of the same age are the same packet.
LEMMA SubInjective ==
  ASSUME NEW a \in SeqNum, NEW b \in SeqNum, NEW c \in SeqNum,
         SeqSub(a, b) = SeqSub(a, c)
  PROVE  b = c
BY RingFacts DEF SeqSub, SeqNum

\* UINT_MAX / 2 is half of the sequence space, rounded down.
LEMMA HalfFacts ==
  /\ Half \in Nat
  /\ 2 * Half <= SeqSpace - 1
  /\ SeqSpace - 2 <= 2 * Half
BY RingFacts DEF Half, UINT_MAX

\* The next packet is one further from an older one.
LEMMA IncSub ==
  ASSUME NEW a \in SeqNum, NEW b \in SeqNum, SeqSub(a, b) < UINT_MAX
  PROVE  SeqSub(SeqInc(a), b) = SeqSub(a, b) + 1
BY RingFacts DEF SeqSub, SeqNum, SeqInc, UINT_MAX

\* packet_seq += 1 stays a u32.
LEMMA IncType ==
  ASSUME NEW a \in SeqNum
  PROVE  SeqInc(a) \in SeqNum
BY RingFacts DEF SeqNum, SeqInc, UINT_MAX

\* For two packets at most Half older than a third, IsSeqGreaterThan compares
\* their ages, and for the older of them subtraction and abs give the distance,
\* whatever wrapped in between.
LEMMA Closer ==
  ASSUME NEW last \in SeqNum, NEW a \in SeqNum, NEW b \in SeqNum,
         SeqSub(last, a) <= Half, SeqSub(last, b) <= Half
  PROVE  /\ IsSeqGreaterThan(a, b) <=> SeqSub(last, a) < SeqSub(last, b)
         /\ SeqSub(last, a) < SeqSub(last, b) =>
              /\ SeqSub(a, b) = SeqSub(last, b) - SeqSub(last, a)
              /\ SeqDistance(a, b) = SeqSub(last, b) - SeqSub(last, a)
BY RingFacts, HalfFacts DEF SeqSub, SeqNum, IsSeqGreaterThan, SeqDistance

\* A number at most Half behind last passes the Assert on acknowledgements
\* (udp_server.cpp 897-900).
LEMMA InPast ==
  ASSUME NEW last \in SeqNum, NEW a \in SeqNum, SeqSub(last, a) <= Half
  PROVE  last = a \/ IsSeqGreaterThan(last, a)
BY RingFacts, HalfFacts DEF SeqSub, SeqNum, IsSeqGreaterThan

\* Walking back in the ring gives a bit of the ring.
LEMMA BeforeType ==
  ASSUME NEW i \in Bit, NEW j \in Bit
  PROVE  BitBefore(i, j) \in Bit
BY RingFacts DEF BitBefore, Bit

\* Walking back by 0 stays.
LEMMA BeforeZero ==
  ASSUME NEW i \in Bit
  PROVE  BitBefore(i, 0) = i
BY RingFacts DEF BitBefore, Bit

\* Different steps back from a bit reach different bits.
LEMMA BeforeInjective ==
  ASSUME NEW i \in Bit, NEW j \in Bit, NEW k \in Bit,
         BitBefore(i, j) = BitBefore(i, k)
  PROVE  j = k
BY RingFacts DEF BitBefore, Bit

\* Every bit is some number of steps back from a given one.
LEMMA BeforeOnto ==
  ASSUME NEW i \in Bit, NEW b \in Bit
  PROVE  \E k \in Bit : b = BitBefore(i, k)
<1>1. CASE b <= i
  <2>1. i - b \in Bit /\ b = BitBefore(i, i - b)
    BY <1>1, RingFacts DEF BitBefore, Bit
  <2> QED BY <2>1
<1>2. CASE b > i
  <2>1. (i - b) + Window \in Bit /\ b = BitBefore(i, (i - b) + Window)
    BY <1>2, RingFacts DEF BitBefore, Bit
  <2> QED BY <2>1
<1> QED BY <1>1, <1>2 DEF Bit

\* Steps back add up.
LEMMA BeforeBefore ==
  ASSUME NEW i \in Bit, NEW d \in Nat, NEW j \in Nat, d + j < Window
  PROVE  BitBefore(BitBefore(i, d), j) = BitBefore(i, d + j)
BY RingFacts DEF BitBefore, Bit

\* Seen from the next packet, every bit is one step older.
LEMMA IncBefore ==
  ASSUME NEW a \in SeqNum, NEW j \in 1 .. (Window - 1)
  PROVE  BitBefore(SeqIndex(SeqInc(a)), j) = BitBefore(SeqIndex(a), j - 1)
<1>1. SeqInc(a) \in SeqNum
  BY IncType
<1>2. SeqSub(SeqInc(a), a) = 1
  BY RingFacts DEF SeqSub, SeqNum, SeqInc, UINT_MAX
<1>3. SeqIndex(a) = BitBefore(SeqIndex(SeqInc(a)), 1)
  BY <1>1, <1>2, IndexBefore, RingFacts
<1>4. BitBefore(BitBefore(SeqIndex(SeqInc(a)), 1), j - 1)
        = BitBefore(SeqIndex(SeqInc(a)), 1 + (j - 1))
  BY <1>1, IndexBit, BeforeBefore, RingFacts
<1> QED BY <1>3, <1>4, RingFacts

\* What the shifts, the complement and the flip of the code compute: the bits
\* from the older index back to just after the newer one, cyclically
\* (udp_client.cpp 650-669).
LEMMA MaskBits ==
  ASSUME NEW newer \in Bit, NEW older \in Bit, NEW b \in Bit
  PROVE  b \in RingMask(newer, older) <=>
           IF newer >= older THEN b <= older \/ b > newer
                             ELSE newer < b /\ b <= older
<1> DEFINE lo   == IF newer <= older THEN newer ELSE older
           hi   == IF newer <= older THEN older ELSE newer
           top  == (Window - 1) - hi
           span == ShiftRight(ShiftLeft(Bit, lo + top), top)
           kept == IF newer >= older THEN Bit \ span ELSE span
<1>1. lo \in Bit /\ hi \in Bit /\ lo <= hi /\ top \in Bit
  BY RingFacts DEF Bit
<1>2. \A c \in Bit : c \in span <=> lo <= c /\ c <= hi
  BY <1>1, RingFacts DEF ShiftRight, ShiftLeft, Bit
<1>3. span \subseteq Bit
  BY DEF ShiftRight
<1>4. RingMask(newer, older) = FlipBit(kept, lo)
  BY DEF RingMask
<1> HIDE DEF span
<1>5. CASE newer >= older
  BY <1>1, <1>2, <1>3, <1>4, <1>5 DEF FlipBit, Bit
<1>6. CASE newer < older
  BY <1>1, <1>2, <1>3, <1>4, <1>6 DEF FlipBit, Bit
<1> QED BY <1>5, <1>6, RingFacts DEF Bit

\* Counted back from the newer packet, the mask keeps the bits of age d and
\* more, where d is the age of the older one.
LEMMA MaskBefore ==
  ASSUME NEW i \in Bit, NEW d \in Bit, NEW k \in Bit
  PROVE  BitBefore(i, k) \in RingMask(i, BitBefore(i, d)) <=> k >= d
<1>1. BitBefore(i, d) \in Bit /\ BitBefore(i, k) \in Bit
  BY BeforeType
<1>2. BitBefore(i, k) \in RingMask(i, BitBefore(i, d)) <=>
        IF i >= BitBefore(i, d)
        THEN BitBefore(i, k) <= BitBefore(i, d) \/ BitBefore(i, k) > i
        ELSE i < BitBefore(i, k) /\ BitBefore(i, k) <= BitBefore(i, d)
  BY <1>1, MaskBits
<1> QED BY <1>1, <1>2, RingFacts DEF BitBefore, Bit

\* The receiver's ring after packet recv: the packet itself and, of the others,
\* those that it had at the age of remote and more (udp_client.cpp 645-672).
LEMMA RemoteBits ==
  ASSUME NEW recv \in SeqNum, NEW remote \in SeqNum, NEW bits \in SUBSET Bit,
         SeqSub(recv, remote) < Window,
         SeqDistance(recv, remote) = SeqSub(recv, remote),
         NEW k \in Bit
  PROVE  BitBefore(SeqIndex(recv), k) \in RemoteBitAfter(bits, remote, recv) <=>
           \/ k = 0
           \/ /\ k >= SeqSub(recv, remote)
              /\ BitBefore(SeqIndex(recv), k) \in bits
<1> DEFINE i == SeqIndex(recv)
           d == SeqSub(recv, remote)
<1>1. i \in Bit /\ d \in Bit
  <2>1. d \in SeqNum
    BY SubType
  <2> QED BY <2>1, IndexBit, RingFacts DEF Bit, SeqNum
<1>2. SeqIndex(remote) = BitBefore(i, d)
  BY IndexBefore
<1>3. RemoteBitAfter(bits, remote, recv)
        = (bits \intersect RingMask(i, BitBefore(i, d))) \union {i}
  BY <1>2 DEF RemoteBitAfter
<1>4. BitBefore(i, k) \in RingMask(i, BitBefore(i, d)) <=> k >= d
  BY <1>1, MaskBefore
<1>5. BitBefore(i, k) = i <=> k = 0
  BY <1>1, RingFacts DEF BitBefore, Bit
<1> QED BY <1>3, <1>4, <1>5

\* The sender's ring after an acknowledgement: the bits of the acknowledged
\* packets not newer than ack, nothing if ack is a window old (udp_client.cpp
\* 678-708).
LEMMA ConfirmedBits ==
  ASSUME NEW last \in SeqNum, NEW ack \in SeqNum, NEW ackBit \in SUBSET Bit,
         NEW k \in Bit
  PROVE  BitBefore(SeqIndex(last), k) \in SeqBitAfter(last, ack, ackBit) <=>
           /\ k >= SeqSub(last, ack)
           /\ BitBefore(SeqIndex(last), k) \in ackBit
<1> DEFINE i == SeqIndex(last)
           d == SeqSub(last, ack)
<1>1. CASE d < Window
  <2>1. i \in Bit /\ d \in Bit
    <3>1. d \in SeqNum
      BY SubType
    <3> QED BY <3>1, <1>1, IndexBit, RingFacts DEF Bit, SeqNum
  <2>2. SeqIndex(ack) = BitBefore(i, d)
    BY <1>1, IndexBefore
  <2>3. BitBefore(i, k) \in RingMask(i, BitBefore(i, d)) <=> k >= d
    BY <2>1, MaskBefore
  <2> QED BY <1>1, <2>2, <2>3 DEF SeqBitAfter
<1>2. CASE ~ (d < Window)
  <2>1. ~ (k >= d)
    BY <1>2, SubType, RingFacts DEF Bit, SeqNum
  <2> QED BY <1>2, <2>1 DEF SeqBitAfter
<1> QED BY <1>1, <1>2
=============================================================================

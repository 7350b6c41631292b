------------------------------- MODULE SeqRing -------------------------------
(***************************************************************************)
(* Sequence numbers and the bit rings that remember the last Window of     *)
(* them, as udp_client.cpp and udp_server.cpp compute them.                *)
(*                                                                         *)
(* A u32 sequence number is a member of SeqNum; it wraps at SeqSpace.  The *)
(* bit array of a u32 is the set of the indices whose bit is 1, so ~0 is   *)
(* Bit, 0 is {} and  bits & (1 << i)  asks whether i is a member.          *)
(***************************************************************************)
EXTENDS Integers

CONSTANTS
  SeqSpace,   \* how many sequence numbers there are: 2^32 in the code
  Window      \* how many of them a bit array remembers: 32 in the code

ASSUME RingAssumption ==
  /\ Window \in Nat \ {0}
  /\ SeqSpace \in Nat
  /\ \E laps \in 2 .. SeqSpace : SeqSpace = laps * Window

SeqNum == 0 .. (SeqSpace - 1)
Bit == 0 .. (Window - 1)

UINT_MAX == SeqSpace - 1
Half == UINT_MAX \div 2

-----------------------------------------------------------------------------
(***************************************************************************)
(* u32 arithmetic                                                          *)
(***************************************************************************)

\* a - b
SeqSub(a, b) == IF a >= b THEN a - b ELSE (a - b) + SeqSpace

\* a += 1
SeqInc(a) == IF a = UINT_MAX THEN 0 ELSE a + 1

\* Mutant of SeqIndex: the number is not masked.
SeqIndexUnmasked(a) == a

\* a & 31
SeqIndex(a) == a % Window

\* Mutant of IsSeqGreaterThan: the order of the integers, without the wrap.
IsSeqGreaterNoWrap(a, b) == a > b

IsSeqGreaterThan(a, b) ==
  \/ a > b /\ a - b <= Half
  \/ a < b /\ b - a > Half

\* abs((i32)(a - b)); the smallest i32 has no opposite and stays negative
SeqDistance(a, b) ==
  LET d == SeqSub(a, b)
  IN  IF d <= Half THEN d ELSE IF 2 * d = SeqSpace THEN -d ELSE SeqSpace - d

-----------------------------------------------------------------------------
(***************************************************************************)
(* Bit masks                                                               *)
(***************************************************************************)

ShiftLeft(bits, n) == {b \in Bit : b - n \in bits}
ShiftRight(bits, n) == {b \in Bit : b + n \in bits}
FlipBit(bits, b) == IF b \in bits THEN bits \ {b} ELSE bits \union {b}

\* Mutant of RingMask: the bit of the older packet is not flipped back.
RingMaskNoFlip(newer, older) ==
  IF newer >= older THEN Bit \ (older .. newer) ELSE newer .. older

(***************************************************************************)
(* The mask both programs build whenever a ring moves from the index of an *)
(* older packet to the index of a newer one: it clears the bits that the   *)
(* move hands to new sequence numbers and keeps the others.                *)
(***************************************************************************)
RingMask(newer, older) ==
  LET lo   == IF newer <= older THEN newer ELSE older
      hi   == IF newer <= older THEN older ELSE newer
      top  == (Window - 1) - hi
      span == ShiftRight(ShiftLeft(Bit, lo + top), top)
      kept == IF newer >= older THEN Bit \ span ELSE span
  IN  FlipBit(kept, lo)

\* Mutant of RemoteBitAfter: the ring is not masked.
RemoteBitUnmasked(remoteBit, remoteSeq, recv) == remoteBit \union {SeqIndex(recv)}

(***************************************************************************)
(* The receiver's ring after packet recv, given the ring of the last       *)
(* packet it accepted (remoteSeq, remoteBit).                              *)
(***************************************************************************)
RemoteBitAfter(remoteBit, remoteSeq, recv) ==
  LET mask == IF SeqDistance(recv, remoteSeq) < Window
              THEN RingMask(SeqIndex(recv), SeqIndex(remoteSeq))
              ELSE {}
  IN  (remoteBit \intersect mask) \union {SeqIndex(recv)}

\* Mutants of SeqBitAfter: the ring of the peer is taken as it is; one that is
\* Window - 1 packets old is not read.
SeqBitAfterUnmasked(seq, ack, ackBit) ==
  IF SeqSub(seq, ack) < Window THEN ackBit ELSE {}
SeqBitAfterShort(seq, ack, ackBit) ==
  IF SeqSub(seq, ack) < Window - 1
  THEN ackBit \intersect RingMask(SeqIndex(seq), SeqIndex(ack))
  ELSE {}

(***************************************************************************)
(* The sender's ring of confirmed packets after an acknowledgement         *)
(* (ack, ackBit), given the number seq of the last packet it sent.         *)
(***************************************************************************)
SeqBitAfter(seq, ack, ackBit) ==
  IF SeqSub(seq, ack) < Window
  THEN ackBit \intersect RingMask(SeqIndex(seq), SeqIndex(ack))
  ELSE {}

\* The bit of the packet sent n packets before the packet whose bit is i.
BitBefore(i, n) == IF i >= n THEN i - n ELSE (i - n) + Window
=============================================================================

------------------------------ MODULE LinkProofs ------------------------------
(***************************************************************************)
(* LinkInv is an inductive invariant of Link.  It says nothing of what the *)
(* network does to a packet, so AckSound, RingExact and AckNeverAhead hold *)
(* for every loss, reordering and duplication, and for every Window,       *)
(* SeqSpace and MaxLag that the assumptions allow.                         *)
(***************************************************************************)
EXTENDS Link, SeqRingProofs

\* There are two endpoints, each the other's peer.
LEMMA PeerFacts ==
  \A e \in End :
    /\ Peer(e) \in End
    /\ Peer(e) # e
    /\ Peer(Peer(e)) = e
    /\ \A x \in End : x = e \/ x = Peer(e)
BY DEF End, Peer

\* MaxLag is at least 1 and at most half of the sequence space.
LEMMA LagBounds ==
  /\ MaxLag \in Nat
  /\ MaxLag <= Half
  /\ Half < UINT_MAX
  /\ MaxLag >= 1
BY LinkAssumption, HalfFacts, RingFacts DEF UINT_MAX

\* The initial values of the two programs satisfy the invariant: the rings are
\* full and nothing was sent.
LEMMA InitInv == Init => LinkInv
<1> SUFFICES ASSUME Init PROVE LinkInv
  OBVIOUS
<1>1. UINT_MAX \in SeqNum
  BY RingFacts DEF UINT_MAX, SeqNum
<1>2. SeqSub(UINT_MAX, UINT_MAX) = 0
  BY <1>1, SubType
<1>3. TypeOK
  BY <1>1 DEF Init, TypeOK
<1>4. Horizon
  BY <1>2, PeerFacts, LagBounds DEF Init, Horizon, Lag
<1>5. \A e \in End : Lag(e) = 0
  BY <1>2, PeerFacts DEF Init, Lag
<1>6. \A e \in End, j \in Bit : AgeBit(e, j) \in Bit
  BY <1>1, IndexBit, BeforeType DEF Init, AgeBit
<1>7. RingsAgree
  BY <1>6, PeerFacts DEF Init, RingsAgree
<1>8. NoneNewer
  BY <1>5 DEF NoneNewer, Bit
<1>9. AcksTrue /\ InFlightNewer
  BY PeerFacts DEF Init, AcksTrue, InFlightNewer
<1>10. AckSound /\ AckNeverAhead /\ NeverHalts
  BY DEF Init, AckSound, AckNeverAhead, NeverHalts, Running
<1> QED BY <1>3, <1>4, <1>7, <1>8, <1>9, <1>10 DEF LinkInv

\* Sending (udp_client.cpp 753-763, udp_server.cpp 976-987) keeps the
\* invariant: the new packet takes the bit of the oldest one and makes all ages
\* one greater.
LEMMA SendStep ==
  ASSUME LinkInv, NEW e \in End, Send(e)
  PROVE  LinkInv'
<1> DEFINE f == Peer(e)
           n == SeqInc(seq[e])
           i == SeqIndex(n)
           q == [seq |-> n, ack |-> remoteSeq[e], ackBit |-> remoteBit[e]]
<1> USE DEF LinkInv
<1>1. /\ f \in End /\ f # e /\ Peer(f) = e
      /\ \A x \in End : x = e \/ x = f
  BY PeerFacts
<1>2. /\ n \in SeqNum
      /\ i \in Bit
      /\ q \in Packet
  BY IncType, IndexBit DEF TypeOK, Packet
<1>3. /\ seq' = [seq EXCEPT ![e] = n]
      /\ seqBit' = [seqBit EXCEPT ![e] = @ \ {i}]
      /\ accepted' = [accepted EXCEPT ![e] = @ \ {i}]
      /\ net' = [net EXCEPT ![f] = @ \union {q}]
      /\ UNCHANGED <<remoteSeq, remoteBit, open, halted>>
      /\ InHorizon(e)
  BY DEF Send
<1> HIDE DEF f, n, i, q
<1>4. TypeOK'
  <2>1. seq' \in [End -> SeqNum] /\ net' \in [End -> SUBSET Packet]
    BY <1>1, <1>2, <1>3 DEF TypeOK
  <2>2. seqBit' \in [End -> SUBSET Bit] /\ accepted' \in [End -> SUBSET Bit]
    BY <1>1, <1>2, <1>3 DEF TypeOK
  <2> QED BY <1>3, <2>1, <2>2 DEF TypeOK
<1>5. /\ seq'[e] = n /\ seq'[f] = seq[f]
      /\ accepted'[e] = accepted[e] \ {i} /\ accepted'[f] = accepted[f]
      /\ seqBit'[e] = seqBit[e] \ {i} /\ seqBit'[f] = seqBit[f]
      /\ net'[e] = net[e] /\ net'[f] = net[f] \union {q}
      /\ remoteSeq' = remoteSeq /\ remoteBit' = remoteBit
  BY <1>1, <1>3 DEF TypeOK
<1>7. /\ seq[e] \in SeqNum /\ seq[f] \in SeqNum
      /\ remoteSeq[e] \in SeqNum /\ remoteSeq[f] \in SeqNum
      /\ \A p \in net[f] : p.seq \in SeqNum
      /\ \A p \in net[e] : p.ack \in SeqNum
  BY <1>1 DEF TypeOK, Packet
<1>6. \A a \in SeqNum : SeqSub(seq[e], a) <= MaxLag =>
        SeqSub(n, a) = SeqSub(seq[e], a) + 1
  <2> SUFFICES ASSUME NEW a \in SeqNum, SeqSub(seq[e], a) <= MaxLag
               PROVE  SeqSub(n, a) = SeqSub(seq[e], a) + 1
    OBVIOUS
  <2>1. SeqSub(seq[e], a) < UINT_MAX
    BY <1>7, SubNat, LagBounds, HalfFacts, RingFacts DEF UINT_MAX
  <2> QED BY <1>7, <2>1, IncSub DEF n
<1>8. Lag(e)' = Lag(e) + 1 /\ Lag(f)' = Lag(f)
  <2>1. Lag(e) <= MaxLag
    BY DEF Horizon
  <2> QED BY <1>1, <1>5, <1>6, <1>7, <2>1 DEF Lag, f
<1>9. AgeBit(e, 0)' = i
  BY <1>2, <1>5, BeforeZero DEF AgeBit, i
<1>10. \A j \in 1 .. (Window - 1) :
         /\ AgeBit(e, j)' = AgeBit(e, j - 1)
         /\ AgeBit(e, j)' # i
  <2> SUFFICES ASSUME NEW j \in 1 .. (Window - 1)
               PROVE  AgeBit(e, j)' = AgeBit(e, j - 1) /\ AgeBit(e, j)' # i
    OBVIOUS
  <2>1. AgeBit(e, j)' = AgeBit(e, j - 1)
    BY <1>5, IncBefore DEF AgeBit, TypeOK, n
  <2>2. BitBefore(i, j) # i
    BY <1>2, RingFacts DEF BitBefore, Bit
  <2> QED BY <1>5, <2>1, <2>2 DEF AgeBit, i
<1>11. \A j \in Bit : AgeBit(f, j)' = AgeBit(f, j)
  BY <1>5 DEF AgeBit
<1>12. Horizon'
  <2>1. Lag(e)' <= MaxLag /\ Lag(f)' <= MaxLag
    BY <1>1, <1>3, <1>7, <1>8, LagBounds, SubNat DEF InHorizon, Lag, Horizon, f
  <2>2. \A p \in net[f] : SeqSub(n, p.seq) <= MaxLag
    BY <1>3, <1>6, <1>7, LagBounds, SubNat DEF InHorizon, f
  <2>3. SeqSub(n, q.seq) <= MaxLag
    BY <1>2, SubType, LagBounds DEF q
  <2>4. \A p \in net[e] : SeqSub(n, p.ack) <= MaxLag
    BY <1>3, <1>6, <1>7, LagBounds, SubNat DEF InHorizon, f
  <2>5. \A p \in net[e] : SeqSub(seq[f], p.seq) <= MaxLag
    BY <1>1 DEF Horizon
  <2>6. \A p \in net[f] \union {q} : SeqSub(seq[f], p.ack) <= MaxLag
    BY <1>1 DEF Horizon, Lag, q
  <2>7. /\ \A p \in net'[f] : SeqSub(seq'[e], p.seq) <= MaxLag
        /\ \A p \in net'[e] : SeqSub(seq'[e], p.ack) <= MaxLag
        /\ \A p \in net'[e] : SeqSub(seq'[f], p.seq) <= MaxLag
        /\ \A p \in net'[f] : SeqSub(seq'[f], p.ack) <= MaxLag
    BY <1>5, <2>2, <2>3, <2>4, <2>5, <2>6
  <2> QED BY <1>1, <2>1, <2>7 DEF Horizon, f
<1>13. AckSound'
  BY <1>1, <1>5 DEF AckSound
<1>14. Lag(e) \in Nat
  BY <1>7, SubNat DEF Lag, f
<1>15. RingsAgree'
  <2>1. ASSUME NEW j \in Bit, j >= Lag(e)'
        PROVE  AgeBit(e, j)' \in remoteBit'[f] <=> AgeBit(e, j)' \in accepted'[e]
    <3>1. j \in 1 .. (Window - 1) /\ j - 1 \in Bit /\ j - 1 >= Lag(e)
      BY <1>8, <1>14, <2>1, RingFacts DEF Bit
    <3> QED BY <1>1, <1>5, <1>10, <3>1 DEF RingsAgree, f
  <2>2. ASSUME NEW j \in Bit, j >= Lag(f)'
        PROVE  AgeBit(f, j)' \in remoteBit'[e] <=> AgeBit(f, j)' \in accepted'[f]
    BY <1>1, <1>5, <1>8, <1>11, <2>2 DEF RingsAgree
  <2> QED BY <1>1, <2>1, <2>2 DEF RingsAgree, f
<1>16. NoneNewer'
  <2>1. ASSUME NEW j \in Bit, j < Lag(e)'
        PROVE  AgeBit(e, j)' \notin accepted'[e]
    <3>1. CASE j = 0
      BY <1>5, <1>9, <3>1
    <3>2. CASE j # 0
      <4>1. j \in 1 .. (Window - 1) /\ j - 1 \in Bit /\ j - 1 < Lag(e)
        BY <1>8, <1>14, <2>1, <3>2, RingFacts DEF Bit
      <4> QED BY <1>5, <1>10, <4>1 DEF NoneNewer
    <3> QED BY <3>1, <3>2
  <2>2. ASSUME NEW j \in Bit, j < Lag(f)'
        PROVE  AgeBit(f, j)' \notin accepted'[f]
    BY <1>1, <1>5, <1>8, <1>11, <2>2 DEF NoneNewer
  <2> QED BY <1>1, <2>1, <2>2 DEF NoneNewer
<1>17. AcksTrue'
  <2>1. ASSUME NEW p \in net[e], NEW j \in Bit, j >= SeqSub(n, p.ack),
               AgeBit(e, j)' \in p.ackBit
        PROVE  AgeBit(e, j)' \in accepted'[e]
    <3>1. SeqSub(n, p.ack) = SeqSub(seq[e], p.ack) + 1
      BY <1>6, <1>7 DEF Horizon
    <3>2. SeqSub(seq[e], p.ack) \in Nat
      BY <1>7, SubNat
    <3>3. /\ j \in 1 .. (Window - 1)
          /\ j - 1 \in Bit
          /\ j - 1 >= SeqSub(seq[e], p.ack)
      BY <2>1, <3>1, <3>2, RingFacts DEF Bit
    <3> QED BY <1>5, <1>10, <2>1, <3>3 DEF AcksTrue
  <2>2. ASSUME NEW p \in net[f], NEW j \in Bit, j >= SeqSub(seq[f], p.ack),
               AgeBit(f, j) \in p.ackBit
        PROVE  AgeBit(f, j) \in accepted[f]
    BY <1>1, <2>2 DEF AcksTrue
  <2>3. ASSUME NEW j \in Bit, j >= SeqSub(seq[f], q.ack),
               AgeBit(f, j) \in q.ackBit
        PROVE  AgeBit(f, j) \in accepted[f]
    BY <1>1, <2>3 DEF RingsAgree, Lag, q
  <2> QED BY <1>1, <1>5, <1>11, <2>1, <2>2, <2>3 DEF AcksTrue
<1>18. InFlightNewer'
  <2>1. ASSUME Ordered(f), NEW p \in net[f]
        PROVE  /\ SeqSub(n, p.seq) < Lag(e)'
               /\ p.seq # q.seq
               /\ \A r \in net[f] : p.seq = r.seq => p = r
    <3>1. SeqSub(n, p.seq) = SeqSub(seq[e], p.seq) + 1
      BY <1>1, <1>6, <1>7, <2>1 DEF Horizon, f
    <3>2. SeqSub(seq[e], p.seq) \in Nat
      BY <1>7, SubNat
    <3>3. p.seq # q.seq
      BY <1>2, <1>7, <3>1, <3>2, SubType DEF q
    <3> QED BY <1>1, <1>8, <1>14, <2>1, <3>1, <3>2, <3>3 DEF InFlightNewer, f
  <2>2. SeqSub(n, q.seq) < Lag(e)'
    BY <1>2, <1>8, <1>14, SubType DEF q
  <2>3. Ordered(e) => \A p \in net[e] :
          /\ SeqSub(seq[f], p.seq) < Lag(f)
          /\ \A r \in net[e] : p.seq = r.seq => p = r
    BY <1>1 DEF InFlightNewer
  <2>4. Ordered(f) => \A p \in net'[f] :
          /\ SeqSub(seq'[e], p.seq) < Lag(e)'
          /\ \A r \in net'[f] : p.seq = r.seq => p = r
    BY <1>5, <2>1, <2>2
  <2>5. Ordered(e) => \A p \in net'[e] :
          /\ SeqSub(seq'[f], p.seq) < Lag(f)'
          /\ \A r \in net'[e] : p.seq = r.seq => p = r
    BY <1>5, <1>8, <2>3
  <2> QED BY <1>1, <2>4, <2>5 DEF InFlightNewer, f
<1>19. AckNeverAhead' /\ NeverHalts'
  BY <1>3 DEF AckNeverAhead, NeverHalts, Running
<1> QED BY <1>4, <1>12, <1>13, <1>15, <1>16, <1>17, <1>18, <1>19

\* A step that only takes packets off the network keeps the parts of the
\* invariant that speak of packets in flight.
LEMMA NetShrinks ==
  ASSUME LinkInv, UNCHANGED <<seq, remoteSeq, remoteBit, accepted>>,
         \A x \in End : net'[x] \subseteq net[x]
  PROVE  /\ Horizon' /\ RingsAgree' /\ NoneNewer'
         /\ AcksTrue' /\ InFlightNewer'
<1> USE PeerFacts DEF LinkInv
<1>1. /\ \A x \in End : Lag(x)' = Lag(x)
      /\ \A x \in End, j \in Bit : AgeBit(x, j)' = AgeBit(x, j)
  BY DEF Lag, AgeBit
<1>2. Horizon'
  BY <1>1 DEF Horizon
<1>3. RingsAgree' /\ NoneNewer'
  BY <1>1 DEF RingsAgree, NoneNewer
<1>4. AcksTrue'
  BY <1>1 DEF AcksTrue
<1>5. InFlightNewer'
  BY <1>1 DEF InFlightNewer
<1> QED BY <1>2, <1>3, <1>4, <1>5

\* What recvfrom does to the network.
LEMMA TakeFacts ==
  ASSUME TypeOK, NEW e \in End, NEW p \in net[e], Take(e, p)
  PROVE  /\ net' \in [End -> SUBSET Packet]
         /\ net'[e] \subseteq net[e]
         /\ net'[Peer(e)] = net[Peer(e)]
         /\ Ordered(e) => net'[e] = net[e] \ {p}
BY PeerFacts DEF Take, TypeOK, Ordered

\* Reading an acknowledgement, however old, confirms only packets that the peer
\* accepted.
LEMMA AckIsTrue ==
  ASSUME LinkInv, NEW e \in End, NEW p \in net[e]
  PROVE  SeqBitAfter(seq[e], p.ack, p.ackBit) \subseteq accepted[e]
<1>1. seq[e] \in SeqNum /\ p.ack \in SeqNum /\ p.ackBit \in SUBSET Bit
  BY DEF LinkInv, TypeOK, Packet
<1> SUFFICES ASSUME NEW b \in SeqBitAfter(seq[e], p.ack, p.ackBit)
             PROVE  b \in accepted[e]
  OBVIOUS
<1>2. b \in Bit
  BY <1>1 DEF SeqBitAfter
<1>3. PICK k \in Bit : b = BitBefore(SeqIndex(seq[e]), k)
  BY <1>1, <1>2, IndexBit, BeforeOnto
<1>4. k >= SeqSub(seq[e], p.ack) /\ b \in p.ackBit
  BY <1>1, <1>3, ConfirmedBits
<1> QED BY <1>3, <1>4 DEF LinkInv, AcksTrue, AgeBit

\* No packet in flight acknowledges a number its receiver has not sent.
LEMMA AckIsPast ==
  ASSUME LinkInv, NEW e \in End, NEW p \in net[e]
  PROVE  AckInPast(e, p)
<1>1. seq[e] \in SeqNum /\ p.ack \in SeqNum
  BY DEF LinkInv, TypeOK, Packet
<1>2. SeqSub(seq[e], p.ack) <= Half
  BY <1>1, SubNat, LagBounds, HalfFacts DEF LinkInv, Horizon
<1> QED BY <1>1, <1>2, InPast DEF AckInPast

\* The Asserts on a received packet, in terms of ages: it is in order exactly
\* if it is younger than the last accepted one, and the gap is the difference
\* of the two ages.
LEMMA ReceivedAge ==
  ASSUME LinkInv, NEW e \in End, NEW p \in net[e]
  PROVE  LET f == Peer(e)
             age == SeqSub(seq[f], p.seq)
         IN  /\ age \in Nat /\ Lag(f) \in Nat
             /\ age <= MaxLag /\ Lag(f) <= MaxLag
             /\ InOrder(e, p) <=> age < Lag(f)
             /\ age < Lag(f) =>
                  /\ SeqSub(p.seq, remoteSeq[e]) = Lag(f) - age
                  /\ SeqDistance(p.seq, remoteSeq[e]) = Lag(f) - age
<1> DEFINE f == Peer(e)
<1>1. /\ f \in End /\ Peer(f) = e
      /\ seq[f] \in SeqNum /\ remoteSeq[e] \in SeqNum /\ p.seq \in SeqNum
  BY PeerFacts DEF LinkInv, TypeOK, Packet
<1>2. Lag(f) = SeqSub(seq[f], remoteSeq[e])
  BY <1>1 DEF Lag
<1>3. SeqSub(seq[f], p.seq) <= MaxLag /\ Lag(f) <= MaxLag
  BY <1>1 DEF LinkInv, Horizon
<1>4. SeqSub(seq[f], p.seq) \in Nat /\ Lag(f) \in Nat
  BY <1>1, <1>2, SubNat
<1>5. SeqSub(seq[f], p.seq) <= Half /\ SeqSub(seq[f], remoteSeq[e]) <= Half
  BY <1>2, <1>3, <1>4, LagBounds, HalfFacts
<1> QED BY <1>1, <1>2, <1>3, <1>4, <1>5, Closer DEF InOrder

\* Accepting a packet (udp_client.cpp 632-708, udp_server.cpp 849-932) keeps
\* the invariant: the ring moves to the new packet and agrees with the history
\* again.
LEMMA AcceptStep ==
  ASSUME LinkInv, NEW e \in End, NEW p \in Deliverable(e), Take(e, p),
         Accept(e, p), open' \in [End -> BOOLEAN]
  PROVE  LinkInv'
<1> DEFINE f == Peer(e)
           age == SeqSub(seq[f], p.seq)
<1> USE DEF LinkInv
<1>1. /\ f \in End /\ f # e /\ Peer(f) = e
      /\ \A x \in End : x = e \/ x = f
  BY PeerFacts
<1>2. /\ p \in net[e]
      /\ p.seq \in SeqNum /\ p.ack \in SeqNum /\ p.ackBit \in SUBSET Bit
      /\ seq[e] \in SeqNum /\ seq[f] \in SeqNum
      /\ remoteSeq[e] \in SeqNum /\ remoteBit[e] \in SUBSET Bit
  BY <1>1 DEF TypeOK, Packet, Deliverable
<1>3. /\ age \in Nat /\ Lag(f) \in Nat
      /\ age <= MaxLag /\ Lag(f) <= MaxLag
      /\ age < Lag(f)
      /\ SeqSub(p.seq, remoteSeq[e]) = Lag(f) - age
      /\ SeqDistance(p.seq, remoteSeq[e]) = Lag(f) - age
  BY <1>2, ReceivedAge DEF Accept
<1>4. /\ net' \in [End -> SUBSET Packet]
      /\ net'[e] \subseteq net[e] /\ net'[f] = net[f]
      /\ Ordered(e) => net'[e] = net[e] \ {p}
  BY <1>2, TakeFacts
<1>5. /\ seq' = seq /\ halted' = halted
      /\ remoteSeq' = [remoteSeq EXCEPT ![e] = p.seq]
      /\ remoteBit' =
           [remoteBit EXCEPT ![e] = RemoteBitAfter(@, remoteSeq[e], p.seq)]
      /\ seqBit' =
           [seqBit EXCEPT ![e] = SeqBitAfter(seq[e], p.ack, p.ackBit)]
      /\ accepted' = [accepted EXCEPT ![f] =
           IF age < Window THEN @ \union {SeqIndex(p.seq)} ELSE @]
      /\ Lag(f) - age < Window
  BY <1>3 DEF Accept, NoGap
<1>6. SeqIndex(p.seq) \in Bit
  BY <1>2, IndexBit
<1> HIDE DEF f, age
<1>7. TypeOK'
  <2>1. RemoteBitAfter(remoteBit[e], remoteSeq[e], p.seq) \in SUBSET Bit
    BY <1>2, <1>6 DEF RemoteBitAfter
  <2>2. SeqBitAfter(seq[e], p.ack, p.ackBit) \in SUBSET Bit
    BY <1>2 DEF SeqBitAfter
  <2>3. remoteSeq' \in [End -> SeqNum]
    BY <1>2, <1>5 DEF TypeOK
  <2>4. remoteBit' \in [End -> SUBSET Bit] /\ seqBit' \in [End -> SUBSET Bit]
    BY <1>5, <2>1, <2>2 DEF TypeOK
  <2>5. accepted' \in [End -> SUBSET Bit]
    BY <1>1, <1>5, <1>6 DEF TypeOK
  <2> QED BY <1>4, <1>5, <2>3, <2>4, <2>5 DEF TypeOK
<1>8. /\ remoteSeq'[e] = p.seq /\ remoteSeq'[f] = remoteSeq[f]
      /\ remoteBit'[e] = RemoteBitAfter(remoteBit[e], remoteSeq[e], p.seq)
      /\ remoteBit'[f] = remoteBit[f]
      /\ seqBit'[e] = SeqBitAfter(seq[e], p.ack, p.ackBit)
      /\ seqBit'[f] = seqBit[f]
      /\ accepted'[e] = accepted[e]
      /\ accepted'[f] = IF age < Window THEN accepted[f] \union {SeqIndex(p.seq)}
                                        ELSE accepted[f]
  BY <1>1, <1>5 DEF TypeOK
<1>9. Lag(e)' = Lag(e) /\ Lag(f)' = age
  BY <1>1, <1>5, <1>8 DEF Lag, age, f
<1>10. \A x \in End, j \in Bit : AgeBit(x, j)' = AgeBit(x, j)
  BY <1>5 DEF AgeBit
<1>11. \A j \in Bit : j >= age => AgeBit(f, j) = BitBefore(SeqIndex(p.seq), j - age)
  <2> SUFFICES ASSUME NEW j \in Bit, j >= age
               PROVE  AgeBit(f, j) = BitBefore(SeqIndex(p.seq), j - age)
    OBVIOUS
  <2>1. age < Window
    BY <1>3, RingFacts DEF Bit
  <2>2. SeqIndex(p.seq) = BitBefore(SeqIndex(seq[f]), age)
    BY <1>2, <2>1, IndexBefore DEF age
  <2>3. SeqIndex(seq[f]) \in Bit
    BY <1>2, IndexBit
  <2>4. j - age \in Nat /\ age + (j - age) = j /\ age + (j - age) < Window
    BY <1>3, RingFacts DEF Bit
  <2>5. BitBefore(BitBefore(SeqIndex(seq[f]), age), j - age)
          = BitBefore(SeqIndex(seq[f]), age + (j - age))
    BY <1>3, <2>3, <2>4, BeforeBefore
  <2> QED BY <2>2, <2>4, <2>5 DEF AgeBit
<1>12. \A j \in Bit : age < Window => (AgeBit(f, j) = SeqIndex(p.seq) <=> j = age)
  <2> SUFFICES ASSUME NEW j \in Bit, age < Window
               PROVE  AgeBit(f, j) = SeqIndex(p.seq) <=> j = age
    OBVIOUS
  <2>1. age \in Bit
    BY <1>3, RingFacts DEF Bit
  <2>2. SeqIndex(p.seq) = BitBefore(SeqIndex(seq[f]), age)
    BY <1>2, IndexBefore DEF age
  <2>3. SeqIndex(seq[f]) \in Bit
    BY <1>2, IndexBit
  <2> QED BY <2>1, <2>2, <2>3, BeforeInjective DEF AgeBit
<1>13. Horizon'
  <2>1. Lag(e)' <= MaxLag /\ Lag(f)' <= MaxLag
    BY <1>3, <1>9 DEF Horizon
  <2>2. /\ \A r \in net'[e] : SeqSub(seq[e], r.ack) <= MaxLag
        /\ \A r \in net'[e] : SeqSub(seq[f], r.seq) <= MaxLag
        /\ \A r \in net'[f] : SeqSub(seq[f], r.ack) <= MaxLag
        /\ \A r \in net'[f] : SeqSub(seq[e], r.seq) <= MaxLag
    BY <1>1, <1>4 DEF Horizon, f
  <2> QED BY <1>1, <1>5, <2>1, <2>2 DEF Horizon, f
<1>14. AckSound'
  <2>1. seqBit'[e] \subseteq accepted'[e]
    BY <1>2, <1>8, AckIsTrue
  <2>2. seqBit'[f] \subseteq accepted'[f]
    BY <1>1, <1>8 DEF AckSound
  <2> QED BY <1>1, <2>1, <2>2 DEF AckSound
<1>15. RingsAgree'
  <2>1. ASSUME NEW j \in Bit, j >= age
        PROVE  AgeBit(f, j) \in remoteBit'[e] <=> AgeBit(f, j) \in accepted'[f]
    <3>1. age < Window /\ j - age \in Bit
      BY <1>3, <2>1, RingFacts DEF Bit
    <3>2. AgeBit(f, j) \in remoteBit'[e] <=>
            \/ j - age = 0
            \/ j - age >= Lag(f) - age /\ AgeBit(f, j) \in remoteBit[e]
      BY <1>2, <1>3, <1>5, <1>8, <1>11, <2>1, <3>1, RemoteBits
    <3>3. AgeBit(f, j) \in accepted'[f] <=> j = age \/ AgeBit(f, j) \in accepted[f]
      BY <1>8, <1>12, <3>1
    <3>4. CASE j >= Lag(f)
      <4>1. AgeBit(f, j) \in remoteBit[e] <=> AgeBit(f, j) \in accepted[f]
        BY <1>1, <3>4 DEF RingsAgree
      <4>2. j - age >= Lag(f) - age /\ (j - age = 0 <=> j = age)
        BY <1>3, <3>4 DEF Bit
      <4> QED BY <3>2, <3>3, <4>1, <4>2
    <3>5. CASE j < Lag(f)
      <4>1. AgeBit(f, j) \notin accepted[f]
        BY <1>1, <3>5 DEF NoneNewer
      <4>2. ~ (j - age >= Lag(f) - age) /\ (j - age = 0 <=> j = age)
        BY <1>3, <3>5 DEF Bit
      <4> QED BY <3>2, <3>3, <4>1, <4>2
    <3> QED BY <1>3, <3>4, <3>5 DEF Bit
  <2>2. ASSUME NEW j \in Bit, j >= Lag(e)
        PROVE  AgeBit(e, j) \in remoteBit'[f] <=> AgeBit(e, j) \in accepted'[e]
    BY <1>8, <2>2 DEF RingsAgree, f
  <2> QED BY <1>1, <1>9, <1>10, <2>1, <2>2 DEF RingsAgree, f
<1>16. NoneNewer'
  <2>1. ASSUME NEW j \in Bit, j < age
        PROVE  AgeBit(f, j) \notin accepted'[f]
    <3>1. j < Lag(f) /\ j # age
      BY <1>3, <2>1 DEF Bit
    <3>2. AgeBit(f, j) \notin accepted[f]
      BY <1>1, <3>1 DEF NoneNewer
    <3> QED BY <1>8, <1>12, <3>1, <3>2
  <2>2. ASSUME NEW j \in Bit, j < Lag(e)
        PROVE  AgeBit(e, j) \notin accepted'[e]
    BY <1>8, <2>2 DEF NoneNewer
  <2> QED BY <1>1, <1>9, <1>10, <2>1, <2>2 DEF NoneNewer
<1>17. AcksTrue'
  <2>1. accepted[e] \subseteq accepted'[e] /\ accepted[f] \subseteq accepted'[f]
    BY <1>8
  <2>2. net'[e] \subseteq net[e] /\ net'[f] \subseteq net[f]
    BY <1>4
  <2> QED BY <1>1, <1>5, <1>10, <2>1, <2>2 DEF AcksTrue
<1>18. InFlightNewer'
  <2>1. ASSUME Ordered(e), NEW r \in net'[e]
        PROVE  SeqSub(seq[f], r.seq) < age
    <3>1. r \in net[e] /\ r # p /\ r.seq \in SeqNum
      BY <1>4, <2>1 DEF TypeOK, Packet
    <3>2. r.seq # p.seq
      BY <1>1, <1>2, <2>1, <3>1 DEF InFlightNewer
    <3>3. ~ (SeqSub(seq[f], r.seq) > age)
      BY <2>1, <3>1 DEF Deliverable, Older, Ordered, f, age
    <3>4. SeqSub(seq[f], r.seq) # age
      BY <1>2, <3>1, <3>2, SubInjective DEF age
    <3>5. SeqSub(seq[f], r.seq) \in Nat
      BY <1>2, <3>1, SubNat
    <3> QED BY <1>3, <3>3, <3>4, <3>5
  <2>2. Ordered(e) => \A r \in net'[e] :
          /\ SeqSub(seq'[f], r.seq) < Lag(f)'
          /\ \A s \in net'[e] : r.seq = s.seq => r = s
    BY <1>1, <1>4, <1>5, <1>9, <2>1 DEF InFlightNewer
  <2>3. Ordered(f) => \A r \in net'[f] :
          /\ SeqSub(seq'[e], r.seq) < Lag(e)'
          /\ \A s \in net'[f] : r.seq = s.seq => r = s
    BY <1>4, <1>5, <1>9 DEF InFlightNewer, f
  <2> QED BY <1>1, <2>2, <2>3 DEF InFlightNewer, f
<1>19. AckNeverAhead' /\ NeverHalts'
  BY <1>5 DEF AckNeverAhead, NeverHalts, Running
<1> QED BY <1>7, <1>13, <1>14, <1>15, <1>16, <1>17, <1>18, <1>19

\* Losing a packet, or reading only its acknowledgements (lost_on_purpose),
\* keeps the invariant.
LEMMA DropStep ==
  ASSUME LinkInv, NEW e \in End, NEW p \in net[e],
         net' \in [End -> SUBSET Packet],
         net'[e] \subseteq net[e], net'[Peer(e)] = net[Peer(e)],
         UNCHANGED <<seq, remoteSeq, remoteBit, accepted, halted>>,
         open' \in [End -> BOOLEAN],
         \/ seqBit' = seqBit
         \/ seqBit' = [seqBit EXCEPT ![e] = SeqBitAfter(seq[e], p.ack, p.ackBit)]
  PROVE  LinkInv'
<1> USE DEF LinkInv
<1>1. \A x \in End : net'[x] \subseteq net[x]
  BY PeerFacts
<1>2. /\ Horizon' /\ RingsAgree' /\ NoneNewer'
      /\ AcksTrue' /\ InFlightNewer'
  BY <1>1, NetShrinks
<1>3. SeqBitAfter(seq[e], p.ack, p.ackBit) \subseteq accepted[e]
  BY AckIsTrue
<1>4. accepted[e] \in SUBSET Bit
  BY DEF TypeOK
<1>5. seqBit' \in [End -> SUBSET Bit]
  BY <1>3, <1>4 DEF TypeOK
<1>6. TypeOK'
  BY <1>5 DEF TypeOK
<1>7. AckSound'
  BY <1>3 DEF AckSound, TypeOK
<1>8. AckNeverAhead' /\ NeverHalts'
  BY DEF AckNeverAhead, NeverHalts, Running
<1> QED BY <1>2, <1>6, <1>7, <1>8

\* A failed Assert keeps the invariant; where packets arrive in order and with
\* little lag none fails.
LEMMA AbortStep ==
  ASSUME LinkInv, NEW e \in End, NEW p \in net[e], Take(e, p), Abort(e, p),
         open' \in [End -> BOOLEAN]
  PROVE  LinkInv'
<1> USE DEF LinkInv
<1>1. UNCHANGED <<seq, seqBit, remoteSeq, remoteBit, accepted>>
  BY DEF Abort
<1>2. /\ net' \in [End -> SUBSET Packet]
      /\ \A x \in End : net'[x] \subseteq net[x]
  BY TakeFacts, PeerFacts
<1>3. /\ Horizon' /\ RingsAgree' /\ NoneNewer'
      /\ AcksTrue' /\ InFlightNewer'
  BY <1>1, <1>2, NetShrinks
<1>4. AckInPast(e, p)
  BY AckIsPast
<1>5. \/ halted' = [halted EXCEPT ![e] = "order"] /\ ~ InOrder(e, p)
      \/ halted' = [halted EXCEPT ![e] = "gap"] /\ ~ NoGap(e, p)
  BY <1>4 DEF Abort
<1>6. TypeOK'
  BY <1>1, <1>2, <1>5 DEF TypeOK
<1>7. AckSound'
  BY <1>1 DEF AckSound
<1>8. AckNeverAhead'
  BY <1>5 DEF AckNeverAhead, TypeOK
<1>9. NeverHalts'
  <2>1. ASSUME Ordered(e), MaxLag < Window
        PROVE  InOrder(e, p) /\ NoGap(e, p)
    <3>1. SeqSub(seq[Peer(e)], p.seq) < Lag(Peer(e))
      BY <2>1, PeerFacts DEF InFlightNewer
    <3> QED BY <2>1, <3>1, ReceivedAge, LagBounds, RingFacts DEF NoGap
  <2>2. ASSUME NEW x \in End, Ordered(x), MaxLag < Window
        PROVE  Running(x)'
    <3>1. halted[x] = "no"
      BY <2>2 DEF NeverHalts, Running
    <3>2. x # e
      BY <1>5, <2>1, <2>2
    <3> QED BY <1>5, <3>1, <3>2 DEF Running, TypeOK
  <2> QED BY <2>2 DEF NeverHalts
<1> QED BY <1>3, <1>6, <1>7, <1>8, <1>9

\* The invariant is inductive.
LEMMA NextStep == LinkInv /\ [Next]_linkVars => LinkInv'
<1> SUFFICES ASSUME LinkInv, [Next]_linkVars
             PROVE  LinkInv'
  OBVIOUS
<1>1. CASE ClientSend
  BY <1>1, SendStep DEF ClientSend, End
<1>2. CASE ServerSend
  BY <1>2, SendStep DEF ServerSend, End
<1>3. CASE ClientReceive
  <2>1. PICK p \in Deliverable("client") :
          /\ Take("client", p)
          /\ Accept("client", p) \/ Abort("client", p)
          /\ UNCHANGED open
    BY <1>3 DEF ClientReceive
  <2>2. "client" \in End /\ p \in net["client"] /\ open' \in [End -> BOOLEAN]
    BY <2>1 DEF End, Deliverable, LinkInv, TypeOK
  <2> QED BY <2>1, <2>2, AcceptStep, AbortStep
<1>4. CASE ServerReceive
  <2>1. PICK p \in Deliverable("server") :
          /\ Take("server", p)
          /\ Accept("server", p) \/ Ignore("server", p) \/ Abort("server", p)
          /\ open' = [open EXCEPT !["server"] = TRUE]
    BY <1>4 DEF ServerReceive
  <2>2. "server" \in End /\ p \in net["server"] /\ open' \in [End -> BOOLEAN]
    BY <2>1 DEF End, Deliverable, LinkInv, TypeOK
  <2>3. CASE Ignore("server", p)
    <3>1. /\ net' \in [End -> SUBSET Packet]
          /\ net'["server"] \subseteq net["server"]
          /\ net'[Peer("server")] = net[Peer("server")]
      BY <2>1, <2>2, TakeFacts DEF LinkInv
    <3> QED BY <2>2, <2>3, <3>1, DropStep DEF Ignore
  <2> QED BY <2>1, <2>2, <2>3, AcceptStep, AbortStep
<1>5. CASE Lose
  <2>1. PICK e \in End : \E p \in net[e] :
          /\ net' = [net EXCEPT ![e] = @ \ {p}]
          /\ UNCHANGED <<seq, seqBit, remoteSeq, remoteBit, open, halted,
                        accepted>>
    BY <1>5 DEF Lose
  <2>2. PICK p \in net[e] : net' = [net EXCEPT ![e] = @ \ {p}]
    BY <2>1
  <2>3. /\ net' \in [End -> SUBSET Packet] /\ open' \in [End -> BOOLEAN]
        /\ net'[e] \subseteq net[e] /\ net'[Peer(e)] = net[Peer(e)]
    BY <2>1, <2>2, PeerFacts DEF LinkInv, TypeOK
  <2> QED BY <2>1, <2>3, DropStep
<1>6. CASE UNCHANGED linkVars
  BY <1>6 DEF linkVars, LinkInv, TypeOK, Horizon, AckSound, RingsAgree,
     NoneNewer, AcksTrue, InFlightNewer, AckNeverAhead, NeverHalts, Running,
     Lag, AgeBit
<1> QED BY <1>1, <1>2, <1>3, <1>4, <1>5, <1>6 DEF Next

-----------------------------------------------------------------------------
(***************************************************************************)
(* Acknowledgements that arrive in order                                   *)
(***************************************************************************)

\* What the peer accepted is confirmed by the packet it sends next.
LEMMA FreshAck ==
  ASSUME LinkInv, NEW e \in End, NEW j \in Bit, AgeBit(e, j) \in accepted[e]
  PROVE  j >= Lag(e) /\ AgeBit(e, j) \in remoteBit[Peer(e)]
<1>1. Lag(e) \in Nat
  BY PeerFacts, SubNat DEF LinkInv, TypeOK, Lag
<1>2. j >= Lag(e)
  BY <1>1, RingFacts DEF LinkInv, NoneNewer, Bit
<1> QED BY <1>2 DEF LinkInv, RingsAgree

\* Sending keeps AcksCumulate for the sender, whose ages all grow by one, and
\* for its peer, to which the new packet confirms the most.
LEMMA CumulateSend ==
  ASSUME LinkInv, AcksCumulate, NEW e \in End, Send(e)
  PROVE  AcksCumulate'
<1> DEFINE f == Peer(e)
           n == SeqInc(seq[e])
           i == SeqIndex(n)
           q == [seq |-> n, ack |-> remoteSeq[e], ackBit |-> remoteBit[e]]
<1>1. /\ f \in End /\ f # e /\ Peer(f) = e
      /\ \A x \in End : x = e \/ x = f
  BY PeerFacts
<1>2. /\ n \in SeqNum /\ i \in Bit
      /\ seq[e] \in SeqNum /\ seq[f] \in SeqNum
      /\ \A p \in net[f] : p.seq \in SeqNum
      /\ \A p \in net[e] : p.ack \in SeqNum
  BY <1>1, IncType, IndexBit DEF LinkInv, TypeOK, Packet
<1>3. /\ seq' = [seq EXCEPT ![e] = n]
      /\ seqBit' = [seqBit EXCEPT ![e] = @ \ {i}]
      /\ net' = [net EXCEPT ![f] = @ \union {q}]
  BY DEF Send
<1> HIDE DEF f, n, i, q
<1>4. /\ seq'[e] = n /\ seq'[f] = seq[f]
      /\ seqBit'[e] = seqBit[e] \ {i} /\ seqBit'[f] = seqBit[f]
      /\ net'[e] = net[e] /\ net'[f] = net[f] \union {q}
  BY <1>1, <1>3 DEF LinkInv, TypeOK
<1>5. \A a \in SeqNum : SeqSub(seq[e], a) <= MaxLag =>
        SeqSub(n, a) = SeqSub(seq[e], a) + 1 /\ SeqSub(seq[e], a) \in Nat
  <2> SUFFICES ASSUME NEW a \in SeqNum, SeqSub(seq[e], a) <= MaxLag
               PROVE  SeqSub(n, a) = SeqSub(seq[e], a) + 1 /\ SeqSub(seq[e], a) \in Nat
    OBVIOUS
  <2>1. SeqSub(seq[e], a) \in Nat /\ SeqSub(seq[e], a) < UINT_MAX
    BY <1>2, SubNat, LagBounds, HalfFacts, RingFacts DEF UINT_MAX
  <2> QED BY <1>2, <2>1, IncSub DEF n
<1>6. /\ \A p \in net[e] : SeqSub(n, p.ack) = SeqSub(seq[e], p.ack) + 1
                           /\ SeqSub(seq[e], p.ack) \in Nat
      /\ \A p \in net[f] : SeqSub(n, p.seq) = SeqSub(seq[e], p.seq) + 1
                           /\ SeqSub(seq[e], p.seq) \in Nat
  BY <1>1, <1>2, <1>5 DEF LinkInv, Horizon, f
<1>7. ASSUME Ordered(e), NEW p \in net[e], NEW j \in Bit
      PROVE  /\ AgeBit(e, j)' \in seqBit'[e] => Confirms(e, p, j)'
             /\ \A r \in net[e] : Older(e, p, r)' /\ Confirms(e, p, j)' => Confirms(e, r, j)'
  <2>1. CASE j = 0
    <3>1. AgeBit(e, 0)' = i
      BY <1>2, <1>4, BeforeZero DEF AgeBit, i
    <3>2. ~ Confirms(e, p, 0)'
      BY <1>4, <1>6, <1>7 DEF Confirms
    <3> QED BY <1>4, <2>1, <3>1, <3>2
  <2>2. CASE j # 0
    <3>1. j \in 1 .. (Window - 1) /\ j - 1 \in Bit
      BY <2>2, RingFacts DEF Bit
    <3>2. AgeBit(e, j)' = AgeBit(e, j - 1)
      BY <1>2, <1>4, <3>1, IncBefore DEF AgeBit, n
    <3>3. \A r \in net[e] : Confirms(e, r, j)' <=> Confirms(e, r, j - 1)
      BY <1>4, <1>6, <3>1, <3>2 DEF Confirms
    <3>4. \A r \in net[e] : Older(e, p, r)' <=> Older(e, p, r)
      BY <1>4 DEF Older, f
    <3> QED BY <1>4, <1>7, <3>1, <3>2, <3>3, <3>4 DEF AcksCumulate
  <2> QED BY <2>1, <2>2
<1>8. ASSUME Ordered(f), NEW p \in net[f] \union {q}, NEW j \in Bit
      PROVE  /\ AgeBit(f, j)' \in seqBit'[f] => Confirms(f, p, j)'
             /\ \A r \in net[f] \union {q} :
                  Older(f, p, r)' /\ Confirms(f, p, j)' => Confirms(f, r, j)'
  <2>1. AgeBit(f, j)' = AgeBit(f, j) /\ \A r : Confirms(f, r, j)' <=> Confirms(f, r, j)
    BY <1>4 DEF AgeBit, Confirms
  <2>2. AgeBit(f, j) \in accepted[f] => Confirms(f, q, j)
    BY <1>1, FreshAck DEF Confirms, Lag, q
  <2>3. AgeBit(f, j) \in seqBit[f] => Confirms(f, p, j)
    BY <1>1, <1>8, <2>2 DEF AcksCumulate, LinkInv, AckSound
  <2>4. ASSUME NEW r \in net[f] \union {q}, Older(f, p, r)', Confirms(f, p, j)
        PROVE  Confirms(f, r, j)
    <3>1. SeqSub(n, p.seq) > SeqSub(n, r.seq)
      BY <1>1, <1>4, <2>4 DEF Older
    <3>2. SeqSub(n, q.seq) = 0
      BY <1>2, SubType DEF q
    <3>3. SeqSub(n, r.seq) \in Nat
      BY <1>6, <3>2
    <3>4. p \in net[f]
      BY <3>1, <3>2, <3>3
    <3>5. CASE r = q
      BY <1>1, <2>2, <2>4, <3>4, <3>5 DEF LinkInv, AcksTrue, Confirms
    <3>6. CASE r \in net[f]
      <4>1. Older(f, p, r)
        BY <1>1, <1>6, <3>1, <3>4, <3>6 DEF Older
      <4> QED BY <1>1, <1>8, <2>4, <3>4, <3>6, <4>1 DEF AcksCumulate
    <3> QED BY <3>5, <3>6
  <2> QED BY <1>4, <2>1, <2>3, <2>4
<1> QED BY <1>1, <1>4, <1>7, <1>8 DEF AcksCumulate

\* Reading an acknowledgement keeps AcksCumulate: those still in flight are newer.
LEMMA CumulateReceive ==
  ASSUME LinkInv, AcksCumulate, NEW e \in End, NEW p \in Deliverable(e), Take(e, p),
         seq' = seq,
         seqBit' = [seqBit EXCEPT ![e] = SeqBitAfter(seq[e], p.ack, p.ackBit)]
  PROVE  AcksCumulate'
<1> DEFINE f == Peer(e)
<1>1. /\ f \in End /\ f # e /\ Peer(f) = e
      /\ \A x \in End : x = e \/ x = f
  BY PeerFacts
<1>2. /\ p \in net[e] /\ p.seq \in SeqNum /\ p.ack \in SeqNum /\ p.ackBit \in SUBSET Bit
      /\ seq[e] \in SeqNum /\ seq[f] \in SeqNum
  BY <1>1 DEF LinkInv, TypeOK, Packet, Deliverable
<1>3. /\ net'[e] \subseteq net[e] /\ net'[f] = net[f]
      /\ Ordered(e) => net'[e] = net[e] \ {p}
  BY <1>2, TakeFacts DEF LinkInv
<1>4. /\ seqBit'[e] = SeqBitAfter(seq[e], p.ack, p.ackBit)
      /\ seqBit'[f] = seqBit[f]
  BY <1>1 DEF LinkInv, TypeOK
<1> HIDE DEF f
<1>5. /\ \A x \in End, j \in Bit : AgeBit(x, j)' = AgeBit(x, j)
      /\ \A x \in End, j \in Bit : \A r : Confirms(x, r, j)' <=> Confirms(x, r, j)
      /\ \A x \in End : \A r, s : Older(x, r, s)' <=> Older(x, r, s)
  BY DEF AgeBit, Confirms, Older
<1>6. ASSUME Ordered(e), NEW r \in net[e], r # p, NEW j \in Bit,
             AgeBit(e, j) \in seqBit'[e]
      PROVE  Confirms(e, r, j)
  <2>1. Confirms(e, p, j)
    BY <1>2, <1>4, <1>6, ConfirmedBits DEF AgeBit, Confirms
  <2>2. r.seq \in SeqNum /\ r.seq # p.seq
    BY <1>1, <1>2, <1>6 DEF LinkInv, TypeOK, Packet, InFlightNewer, f
  <2>3. SeqSub(seq[f], r.seq) # SeqSub(seq[f], p.seq)
    BY <1>2, <2>2, SubInjective
  <2>4. ~ (SeqSub(seq[f], r.seq) > SeqSub(seq[f], p.seq))
    BY <1>6 DEF Deliverable, Older, Ordered, f
  <2>5. SeqSub(seq[f], r.seq) \in Nat /\ SeqSub(seq[f], p.seq) \in Nat
    BY <1>2, <2>2, SubNat
  <2>6. Older(e, p, r)
    BY <2>3, <2>4, <2>5 DEF Older, f
  <2> QED BY <1>2, <1>6, <2>1, <2>6 DEF AcksCumulate
<1> QED BY <1>1, <1>3, <1>4, <1>5, <1>6 DEF AcksCumulate

\* A packet that is lost, or ends its receiver, confirms nothing.
LEMMA CumulateDrop ==
  ASSUME AcksCumulate, UNCHANGED <<seq, seqBit>>, \A x \in End : net'[x] \subseteq net[x]
  PROVE  AcksCumulate'
<1>1. /\ \A x \in End, j \in Bit : AgeBit(x, j)' = AgeBit(x, j)
      /\ \A x \in End, j \in Bit : \A r : Confirms(x, r, j)' <=> Confirms(x, r, j)
      /\ \A x \in End : \A r, s : Older(x, r, s)' <=> Older(x, r, s)
  BY DEF AgeBit, Confirms, Older
<1> QED BY <1>1 DEF AcksCumulate

\* What each step does to the acknowledgements an endpoint holds.
LEMMA StepKinds ==
  ASSUME LinkInv, [Next]_linkVars
  PROVE  \/ \E e \in End : Send(e)
         \/ \E e \in End : \E p \in Deliverable(e) :
              /\ Take(e, p)
              /\ seq' = seq
              /\ seqBit' = [seqBit EXCEPT ![e] = SeqBitAfter(seq[e], p.ack, p.ackBit)]
         \/ /\ UNCHANGED <<seq, seqBit>>
            /\ \A x \in End : net'[x] \subseteq net[x]
<1> USE DEF End
<1>1. ASSUME NEW e \in End, NEW p \in Deliverable(e), Take(e, p)
      PROVE  \A x \in End : net'[x] \subseteq net[x]
  <2>1. p \in net[e]
    BY DEF Deliverable
  <2> QED BY <1>1, <2>1, TakeFacts, PeerFacts DEF LinkInv
<1>2. CASE ClientReceive
  BY <1>1, <1>2 DEF ClientReceive, Accept, Abort
<1>3. CASE ServerReceive
  BY <1>1, <1>3 DEF ServerReceive, Accept, Ignore, Abort
<1>4. CASE Lose
  <2>0. PICK e \in End : \E p \in net[e] : net' = [net EXCEPT ![e] = @ \ {p}]
    BY <1>4 DEF Lose
  <2>1. PICK p \in net[e] : net' = [net EXCEPT ![e] = @ \ {p}]
    BY <2>0
  <2>2. \A x \in End : net'[x] \subseteq net[x]
    BY <2>1 DEF LinkInv, TypeOK
  <2> QED BY <1>4, <2>2 DEF Lose
<1>5. CASE UNCHANGED linkVars
  BY <1>5 DEF linkVars
<1> QED BY <1>2, <1>3, <1>4, <1>5 DEF Next, ClientSend, ServerSend

\* AcksCumulate is inductive, given LinkInv.
LEMMA CumulateStep == LinkInv /\ AcksCumulate /\ [Next]_linkVars => AcksCumulate'
BY StepKinds, CumulateSend, CumulateReceive, CumulateDrop

\* The bit of a packet is only taken from an endpoint by its next packet.
LEMMA MonotoneStep ==
  ASSUME LinkInv, AcksCumulate, [Next]_linkVars,
         NEW e \in End, Ordered(e), NEW b \in seqBit[e]
  PROVE  b \in seqBit'[e] \/ (seq'[e] # seq[e] /\ b = SeqIndex(seq'[e]))
<1>1. /\ seq[e] \in SeqNum /\ b \in Bit
      /\ \A p \in net[e] : p.ack \in SeqNum /\ p.ackBit \in SUBSET Bit
  BY DEF LinkInv, TypeOK, Packet
<1>2. ASSUME NEW x \in End, Send(x)
      PROVE  b \in seqBit'[e] \/ (seq'[e] # seq[e] /\ b = SeqIndex(seq'[e]))
  <2>1. CASE x = e
    <3>1. SeqInc(seq[e]) # seq[e]
      BY <1>1, RingFacts DEF SeqInc, SeqNum, UINT_MAX
    <3> QED BY <1>2, <2>1, <3>1 DEF Send, LinkInv, TypeOK
  <2>2. CASE x # e
    BY <1>2, <2>2 DEF Send, LinkInv, TypeOK
  <2> QED BY <2>1, <2>2
<1>3. ASSUME NEW x \in End, NEW p \in Deliverable(x),
             seqBit' = [seqBit EXCEPT ![x] = SeqBitAfter(seq[x], p.ack, p.ackBit)]
      PROVE  b \in seqBit'[e]
  <2>1. CASE x = e
    <3>1. p \in net[e]
      BY <2>1 DEF Deliverable
    <3>2. PICK j \in Bit : b = AgeBit(e, j)
      BY <1>1, IndexBit, BeforeOnto DEF AgeBit
    <3>3. Confirms(e, p, j)
      BY <3>1, <3>2 DEF AcksCumulate
    <3>4. b \in SeqBitAfter(seq[e], p.ack, p.ackBit)
      BY <1>1, <3>1, <3>2, <3>3, ConfirmedBits DEF Confirms, AgeBit
    <3> QED BY <1>3, <2>1, <3>4 DEF LinkInv, TypeOK
  <2>2. CASE x # e
    BY <1>3, <2>2 DEF LinkInv, TypeOK
  <2> QED BY <2>1, <2>2
<1> QED BY <1>2, <1>3, StepKinds

\* The invariant, which counts ages from the last packet sent, gives RingExact,
\* which counts from the last one accepted.
LEMMA ExactFromInv == LinkInv => RingExact
<1> SUFFICES ASSUME LinkInv, NEW e \in End, NEW k \in 0 .. (Window - 1),
                    Lag(e) + k < Window
             PROVE  LET b == BitBefore(SeqIndex(remoteSeq[Peer(e)]), k)
                    IN  b \in remoteBit[Peer(e)] <=> b \in accepted[e]
  BY DEF RingExact, Lag
<1>1. seq[e] \in SeqNum /\ remoteSeq[Peer(e)] \in SeqNum
  BY PeerFacts DEF LinkInv, TypeOK
<1>2. Lag(e) \in Nat
  BY <1>1, SubNat DEF Lag
<1>3. SeqIndex(remoteSeq[Peer(e)]) = BitBefore(SeqIndex(seq[e]), Lag(e))
  BY <1>1, <1>2, IndexBefore, RingFacts DEF Lag
<1>4. BitBefore(BitBefore(SeqIndex(seq[e]), Lag(e)), k) = AgeBit(e, Lag(e) + k)
  BY <1>1, <1>2, IndexBit, BeforeBefore DEF AgeBit
<1>5. Lag(e) + k \in Bit /\ Lag(e) + k >= Lag(e)
  BY <1>2, RingFacts DEF Bit
<1> QED BY <1>3, <1>4, <1>5 DEF LinkInv, RingsAgree

-----------------------------------------------------------------------------
(***************************************************************************)
(* The theorems                                                            *)
(***************************************************************************)

\* The inductive invariant holds in every reachable state.
THEOREM LinkInvariant == Spec => []LinkInv
BY InitInv, NextStep, PTL DEF Spec

\* Numbers, rings and packets keep their types (udp_client.cpp 426-448,
\* Client() of udp_server.cpp, protocol.h 16-23).
THEOREM LinkTyped == Spec => []TypeOK
BY LinkInvariant, PTL DEF LinkInv

\* No packet counts as confirmed before the peer accepted it, on any network.
THEOREM LinkAckSound == Spec => []AckSound
BY LinkInvariant, PTL DEF LinkInv

\* The receiver's ring, moved by the mask arithmetic of both programs, says of
\* each packet the sender remembers exactly whether it was accepted.
THEOREM LinkRingExact == Spec => []RingExact
BY LinkInvariant, ExactFromInv, PTL

\* The Assert on the acknowledged number never fails within one session.
THEOREM LinkAckNeverAhead == Spec => []AckNeverAhead
BY LinkInvariant, PTL DEF LinkInv

\* Where packets arrive in order, and with less than Window packets of lag, no
\* Assert on a received packet fails.
THEOREM LinkNeverHalts == Spec => []NeverHalts
BY LinkInvariant, PTL DEF LinkInv

\* Where packets arrive in order, each acknowledgement in flight confirms all that
\* is known already and all that the ones before it confirm.
THEOREM LinkAcksCumulate == Spec => []AcksCumulate
<1>1. Init => AcksCumulate
  BY DEF Init, AcksCumulate
<1>2. LinkInv /\ AcksCumulate /\ [Next]_linkVars => AcksCumulate'
  BY CumulateStep
<1> QED BY <1>1, <1>2, LinkInvariant, PTL DEF Spec

\* Where packets arrive in order, reading an acknowledgement (udp_client.cpp 708,
\* udp_server.cpp 929), which replaces the whole ring, takes no confirmation back.
THEOREM LinkAckMonotone == Spec => AckMonotone
<1> DEFINE Kept == \A e \in End : Ordered(e) => \A b \in seqBit[e] :
             b \in seqBit'[e] \/ (seq'[e] # seq[e] /\ b = SeqIndex(seq'[e]))
<1>1. LinkInv /\ AcksCumulate /\ [Next]_linkVars => Kept
  BY MonotoneStep
<1> QED BY <1>1, LinkInvariant, LinkAcksCumulate, PTL DEF AckMonotone, Spec
===============================================================================

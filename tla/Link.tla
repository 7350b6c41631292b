--------------------------------- MODULE Link ---------------------------------
(***************************************************************************)
(* The acknowledgement protocol of one client and the server's record of   *)
(* it (struct client_info) over an unreliable datagram network.            *)
(*                                                                         *)
(* Every packet carries its own number, the number of the last packet its  *)
(* sender accepted and a ring of bits telling which of the packets before  *)
(* that one were accepted too.  What else a packet carries is left out     *)
(* here; module Session adds it.                                           *)
(*                                                                         *)
(* An Assert of the code reads address 0 when it fails, which ends the     *)
(* process: halted says which Assert ended an endpoint.                    *)
(***************************************************************************)
EXTENDS SeqRing, FiniteSets

CONSTANTS
  MaxLag,        \* bound: how far an endpoint runs ahead of its peer
  MaxInFlight,   \* bound: packets in flight in one direction
  Reorder,       \* the endpoints that may get a packet before an older one
  Duplicate      \* the endpoints that may get a packet more than once

ASSUME LinkAssumption ==
  /\ MaxLag \in 1 .. Half
  /\ MaxInFlight \in Nat \ {0}
  /\ Reorder \subseteq {"client", "server"}
  /\ Duplicate \subseteq {"client", "server"}

End == {"client", "server"}
Peer(e) == IF e = "client" THEN "server" ELSE "client"

\* Packets reach e in order, each at most once.
Ordered(e) == e \notin Reorder \union Duplicate

Packet == [seq : SeqNum, ack : SeqNum, ackBit : SUBSET Bit]

VARIABLES
  seq,         \* packet_seq, server_packet_seq: the last packet sent
  seqBit,      \* packet_seq_bit, server_packet_seq_bit: those confirmed
  remoteSeq,   \* remote_seq, client_remote_seq: the last packet accepted
  remoteBit,   \* remote_seq_bit, client_remote_seq_bit: those accepted
  open,        \* has the endpoint state for its peer?
  halted,      \* the Assert that ended the endpoint, or "no"
  net,         \* net[e]: the packets in flight to e
  accepted     \* history: accepted[e] has the bits of the packets of e's
               \* window that the peer accepted

linkVars == <<seq, seqBit, remoteSeq, remoteBit, open, halted, net, accepted>>

TypeOK ==
  /\ seq \in [End -> SeqNum]
  /\ seqBit \in [End -> SUBSET Bit]
  /\ remoteSeq \in [End -> SeqNum]
  /\ remoteBit \in [End -> SUBSET Bit]
  /\ open \in [End -> BOOLEAN]
  /\ halted \in [End -> {"no", "ack", "order", "gap"}]
  /\ net \in [End -> SUBSET Packet]
  /\ accepted \in [End -> SUBSET Bit]

(***************************************************************************)
(* All bits start at 1: what was never sent counts as confirmed.  The      *)
(* server has no record of the client before its first packet; Client()    *)
(* creates it with the same values.                                        *)
(***************************************************************************)
Init ==
  /\ seq = [e \in End |-> UINT_MAX]
  /\ seqBit = [e \in End |-> Bit]
  /\ remoteSeq = [e \in End |-> UINT_MAX]
  /\ remoteBit = [e \in End |-> Bit]
  /\ open = [e \in End |-> e = "client"]
  /\ halted = [e \in End |-> "no"]
  /\ net = [e \in End |-> {}]
  /\ accepted = [e \in End |-> Bit]

Running(e) == halted[e] = "no"

-----------------------------------------------------------------------------
(***************************************************************************)
(* Sending                                                                 *)
(***************************************************************************)

(***************************************************************************)
(* The bound that keeps u32 numbers unambiguous: before e sends, what it   *)
(* still has in flight, what the peer accepted last and what the packets   *)
(* coming to it acknowledge are less than MaxLag packets old.              *)
(***************************************************************************)
InHorizon(e) ==
  /\ SeqSub(seq[e], remoteSeq[Peer(e)]) < MaxLag
  /\ \A p \in net[Peer(e)] : SeqSub(seq[e], p.seq) < MaxLag
  /\ \A p \in net[e] : SeqSub(seq[e], p.ack) < MaxLag

Send(e) ==
  LET next == SeqInc(seq[e])
      p    == [seq |-> next, ack |-> remoteSeq[e], ackBit |-> remoteBit[e]]
  IN  /\ Running(e)
      /\ open[e]
      /\ InHorizon(e)
      /\ Cardinality(net[Peer(e)]) < MaxInFlight
      /\ seq' = [seq EXCEPT ![e] = next]
      /\ seqBit' = [seqBit EXCEPT ![e] = @ \ {SeqIndex(next)}]
      /\ accepted' = [accepted EXCEPT ![e] = @ \ {SeqIndex(next)}]
      /\ net' = [net EXCEPT ![Peer(e)] = @ \union {p}]
      /\ UNCHANGED <<remoteSeq, remoteBit, open, halted>>

ClientSend == Send("client")
ServerSend == Send("server")

-----------------------------------------------------------------------------
(***************************************************************************)
(* Receiving                                                               *)
(***************************************************************************)

\* Does p have a smaller number than q, both in flight to e?
Older(e, p, q) ==
  SeqSub(seq[Peer(e)], p.seq) > SeqSub(seq[Peer(e)], q.seq)

Deliverable(e) ==
  {p \in net[e] : e \in Reorder \/ \A q \in net[e] : ~ Older(e, q, p)}

\* The network hands p to e and keeps a copy if it duplicates packets.
Take(e, p) ==
  \/ net' = [net EXCEPT ![e] = @ \ {p}]
  \/ e \in Duplicate /\ UNCHANGED net

\* The three conditions asserted of a received packet, in program order.
AckInPast(e, p) == seq[e] = p.ack \/ IsSeqGreaterThan(seq[e], p.ack)
InOrder(e, p) == IsSeqGreaterThan(p.seq, remoteSeq[e])
\* Mutant of NoGap: a gap of Window - 1 is refused.
NoGapShort(e, p) == SeqDistance(p.seq, remoteSeq[e]) < Window - 1

NoGap(e, p) == SeqDistance(p.seq, remoteSeq[e]) < Window

\* The packet is recorded as accepted, and its acknowledgements are read.
Accept(e, p) ==
  /\ AckInPast(e, p) /\ InOrder(e, p) /\ NoGap(e, p)
  /\ remoteSeq' = [remoteSeq EXCEPT ![e] = p.seq]
  /\ remoteBit' =
       [remoteBit EXCEPT ![e] = RemoteBitAfter(@, remoteSeq[e], p.seq)]
  /\ seqBit' = [seqBit EXCEPT ![e] = SeqBitAfter(seq[e], p.ack, p.ackBit)]
  /\ accepted' =
       [accepted EXCEPT ![Peer(e)] =
          IF SeqSub(seq[Peer(e)], p.seq) < Window
          THEN @ \union {SeqIndex(p.seq)} ELSE @]
  /\ UNCHANGED <<seq, halted>>

\* lost_on_purpose: only the acknowledgements of the packet are read.
Ignore(e, p) ==
  /\ AckInPast(e, p)
  /\ seqBit' = [seqBit EXCEPT ![e] = SeqBitAfter(seq[e], p.ack, p.ackBit)]
  /\ UNCHANGED <<seq, remoteSeq, remoteBit, halted, accepted>>

\* The first Assert that fails ends the endpoint.
Abort(e, p) ==
  /\ ~ (AckInPast(e, p) /\ InOrder(e, p) /\ NoGap(e, p))
  /\ halted' = [halted EXCEPT ![e] =
       IF ~ AckInPast(e, p) THEN "ack"
       ELSE IF ~ InOrder(e, p) THEN "order" ELSE "gap"]
  /\ UNCHANGED <<seq, seqBit, remoteSeq, remoteBit, accepted>>

ClientReceive ==
  \E p \in Deliverable("client") :
    /\ Running("client")
    /\ Take("client", p)
    /\ Accept("client", p) \/ Abort("client", p)
    /\ UNCHANGED open

ServerReceive ==
  \E p \in Deliverable("server") :
    /\ Running("server")
    /\ Take("server", p)
    /\ Accept("server", p) \/ Ignore("server", p) \/ Abort("server", p)
    /\ open' = [open EXCEPT !["server"] = TRUE]

Lose ==
  \E e \in End : \E p \in net[e] :
    /\ net' = [net EXCEPT ![e] = @ \ {p}]
    /\ UNCHANGED <<seq, seqBit, remoteSeq, remoteBit, open, halted, accepted>>

Next == ClientSend \/ ServerSend \/ ClientReceive \/ ServerReceive \/ Lose

Spec == Init /\ [][Next]_linkVars

-----------------------------------------------------------------------------
(***************************************************************************)
(* Properties                                                              *)
(***************************************************************************)

\* A packet that its sender takes as confirmed was accepted by the peer: no
\* packet is struck from the loss check (udp_client.cpp 482-487,
\* udp_server.cpp 648-653) before it arrived, whatever the network does.
AckSound == \A e \in End : seqBit[e] \subseteq accepted[e]

\* The receiver's ring is exact: over the part of it that the sender still
\* remembers, bit by bit it says which packets were accepted, so the masks
\* of udp_client.cpp 645-672 and udp_server.cpp 861-889 neither drop an
\* accepted packet nor revive the bit of an older one.
RingExact ==
  \A e \in End : \A k \in 0 .. (Window - 1) :
    LET lag == SeqSub(seq[e], remoteSeq[Peer(e)])
        b   == BitBefore(SeqIndex(remoteSeq[Peer(e)]), k)
    IN  lag + k < Window => (b \in remoteBit[Peer(e)] <=> b \in accepted[e])

\* "unless crafted package, ack package should refer to lower"
\* (udp_server.cpp 896): within one session no network behaviour makes the
\* Assert on the acknowledged number fail.
AckNeverAhead == \A e \in End : halted[e] # "ack"

\* An endpoint to which the network neither reorders nor duplicates packets, and
\* whose peer never runs Window packets ahead, fails no Assert: it stays in step
\* whatever is lost in between and whatever happens in the other direction.
NeverHalts ==
  MaxLag < Window => \A e \in End : Ordered(e) => Running(e)

\* "unless crafted package, recv package should always be higher than our
\* record" (udp_server.cpp 850, udp_client.cpp 634).
NeverOutOfOrder == \A e \in End : halted[e] # "order"

\* "if delay is beyond 1 s we nullify our bit array" (udp_server.cpp 864): a
\* packet is survived that is Window ahead of the last one accepted, which it is
\* when the Window - 1 packets between them were lost or ignored.
GapSurvived == \A e \in End : halted[e] # "gap"

\* If packets reach an endpoint in order, what it knows to be confirmed stays so
\* until the bit is handed to a new packet: an acknowledgement, which replaces
\* the whole ring (udp_client.cpp 708, udp_server.cpp 929), never takes one back.
AckMonotone ==
  [][\A e \in End : Ordered(e) => \A b \in seqBit[e] :
       b \in seqBit'[e] \/ (seq'[e] # seq[e] /\ b = SeqIndex(seq'[e]))]_linkVars

-----------------------------------------------------------------------------
(***************************************************************************)
(* The inductive invariant that LinkProofs proves.  A packet is known by   *)
(* its age: how many packets its sender has sent after it.                 *)
(***************************************************************************)

\* The age of the last packet of e that its peer accepted.
Lag(e) == SeqSub(seq[e], remoteSeq[Peer(e)])

\* The bit of the packet of age j.
AgeBit(e, j) == BitBefore(SeqIndex(seq[e]), j)

\* Nothing the endpoints or the network hold is older than MaxLag.
Horizon ==
  \A e \in End :
    /\ Lag(e) <= MaxLag
    /\ \A p \in net[Peer(e)] : SeqSub(seq[e], p.seq) <= MaxLag
    /\ \A p \in net[e] : SeqSub(seq[e], p.ack) <= MaxLag

\* The peer's ring and the history agree from the last accepted packet back.
RingsAgree ==
  \A e \in End, j \in Bit :
    j >= Lag(e) =>
      (AgeBit(e, j) \in remoteBit[Peer(e)] <=> AgeBit(e, j) \in accepted[e])

\* No packet sent after the last accepted one counts as accepted.
NoneNewer ==
  \A e \in End, j \in Bit : j < Lag(e) => AgeBit(e, j) \notin accepted[e]

\* An acknowledgement in flight speaks the truth, however late it arrives.
AcksTrue ==
  \A e \in End : \A p \in net[e], j \in Bit :
    /\ j >= SeqSub(seq[e], p.ack)
    /\ AgeBit(e, j) \in p.ackBit
    => AgeBit(e, j) \in accepted[e]

\* Where packets arrive in order, those in flight are newer than the accepted.
InFlightNewer ==
  \A e \in End : Ordered(Peer(e)) =>
    \A p \in net[Peer(e)] :
      /\ SeqSub(seq[e], p.seq) < Lag(e)
      /\ \A q \in net[Peer(e)] : p.seq = q.seq => p = q

\* The acknowledgement machinery of both endpoints and the network between
\* them are consistent: the strengthening from which AckSound, RingExact,
\* AckNeverAhead and NeverHalts follow.
LinkInv ==
  /\ TypeOK
  /\ Horizon
  /\ AckSound
  /\ RingsAgree
  /\ NoneNewer
  /\ AcksTrue
  /\ InFlightNewer
  /\ AckNeverAhead
  /\ NeverHalts

\* Does the acknowledgement of p, coming to e, confirm the packet of age j?
Confirms(e, p, j) == j >= SeqSub(seq[e], p.ack) /\ AgeBit(e, j) \in p.ackBit

\* Where packets arrive in order, each acknowledgement in flight confirms all
\* that its receiver knows already and all that the ones before it confirm: the
\* strengthening of LinkInv from which AckMonotone follows.
AcksCumulate ==
  \A e \in End : Ordered(e) => \A p \in net[e], j \in Bit :
    /\ AgeBit(e, j) \in seqBit[e] => Confirms(e, p, j)
    /\ \A q \in net[e] : Older(e, p, q) /\ Confirms(e, p, j) => Confirms(e, q, j)
=============================================================================

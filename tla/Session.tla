-------------------------------- MODULE Session --------------------------------
(***************************************************************************)
(* One session of the client program and the server program: the frames of *)
(* their main loops, the critical authentication message of the client and *)
(* the critical reply of the server, over the network of module Link.      *)
(*                                                                         *)
(* A frame of the client checks for a lost packet, reads at most one       *)
(* datagram, asks for authentication the first time and sends one packet.  *)
(* A frame of the server checks for a lost packet, reads at most one       *)
(* datagram and sends a packet if 50 ms have passed since the last one.    *)
(* The loss check and the status switch use only what the endpoint owns,   *)
(* so they join the recvfrom between them in one action; sending is the    *)
(* other one.  The other end and the network act between the two.          *)
(***************************************************************************)
EXTENDS MsgQueue, FiniteSets

CONSTANTS
  MaxLag, MaxInFlight, Reorder, Duplicate,    \* see Link
  LossKinds,  \* the networks: for each, the endpoints on the way to which packets
              \* may get lost
  Delay,      \* may a packet be in flight for longer than till the next poll?
  Follow,     \* bound: the endpoints whose critical message is followed
  Linger      \* bound: is it followed until its packets have left the window?

\* A critical message is put into a queue of at least two slots: with a single
\* one, next would leave the array with the first message.
ASSUME SessionAssumption ==
  /\ MaxLag \in 1 .. Half
  /\ MaxInFlight \in Nat \ {0}
  /\ Reorder \subseteq {"client", "server"}
  /\ Duplicate \subseteq {"client", "server"}
  /\ Slots >= 2
  /\ LossKinds \subseteq SUBSET {"client", "server"}
  /\ Delay \in BOOLEAN
  /\ Follow \subseteq {"client", "server"}
  /\ Linger \in BOOLEAN

VARIABLES
  seq, seqBit, remoteSeq, remoteBit, open, halted, net, accepted,  \* see Link
  phase,       \* the half of its frame an endpoint takes next
  status,      \* my_status_with_server, client_info.status
  queue,       \* queue_msg_to_send
  critical,    \* packet_seq_critical: ring bits of packets with a critical message
  heard,       \* history: the endpoints whose critical message arrived
  lossy        \* the network of this session, one of LossKinds

linkPart == <<seq, seqBit, remoteSeq, remoteBit, open, halted, net, accepted>>
vars == <<seq, seqBit, remoteSeq, remoteBit, open, halted, net, accepted,
          phase, status, queue, critical, heard, lossy>>

\* What Link knows of a packet.
Header(p) == [seq |-> p.seq, ack |-> p.ack, ackBit |-> p.ackBit]

L == INSTANCE Link WITH net <- [e \in {"client", "server"} |->
                                  {Header(p) : p \in net[e]}]

End == L!End
Peer(e) == L!Peer(e)

AuthMessage == [type |-> "auth", critical |-> TRUE, size |-> 1]
ReplyMessage == [type |-> "reply", critical |-> TRUE, size |-> 1]
Message == {NoMessage, AuthMessage, ReplyMessage}

Phase == {"recv", "send"}

QueueMessage ==
  [msgs : [Slot -> Message], sent : [Slot -> 0 .. NotSet], begin : Slot, next : Slot,
   ended : {"no"}]
Packet == [seq : SeqNum, ack : SeqNum, ackBit : SUBSET Bit, load : Seq(Message)]

TypeOK ==
  /\ L!TypeOK
  /\ net \in [End -> SUBSET Packet]
  /\ phase \in [End -> Phase]
  /\ status \in [End -> {"none", "trying_auth"}]
  /\ queue \in [End -> QueueMessage]
  /\ critical \in [End -> SUBSET Bit]
  /\ heard \in SUBSET End
  /\ lossy \in LossKinds

Init ==
  /\ seq = [e \in End |-> UINT_MAX]
  /\ seqBit = [e \in End |-> Bit]
  /\ remoteSeq = [e \in End |-> UINT_MAX]
  /\ remoteBit = [e \in End |-> Bit]
  /\ open = [e \in End |-> e = "client"]
  /\ halted = [e \in End |-> "no"]
  /\ net = [e \in End |-> {}]
  /\ accepted = [e \in End |-> Bit]
  /\ phase = [e \in End |-> "recv"]
  /\ status = [e \in End |-> "none"]
  /\ queue = [e \in End |-> EmptyQueue]
  /\ critical = [e \in End |-> {}]
  /\ heard = {}
  /\ lossy \in LossKinds

\* Bound: a session is followed until the critical messages of Follow arrived
\* and, with Linger, the packets that carried them have left the window.
Settled == \A e \in Follow : e \in heard /\ (Linger => critical[e] = {})

\* Endpoint e runs and takes the half of its frame called p; q is next.
Step(e, p, q) ==
  /\ ~ Settled
  /\ L!Running(e)
  /\ phase[e] = p
  /\ phase' = [phase EXCEPT ![e] = q]
  /\ UNCHANGED lossy

-----------------------------------------------------------------------------
(***************************************************************************)
(* The first half of a frame: loss check, recvfrom, status switch          *)
(***************************************************************************)

(***************************************************************************)
(* The queue of e after the loss check.  The bit that the next packet will *)
(* take belongs to the oldest packet of the window.  If that one is not    *)
(* confirmed it is lost, and the critical messages it carried are queued   *)
(* again.                                                                  *)
(***************************************************************************)
Checked(e) ==
  LET oldest == SeqIndex(SeqInc(seq[e]))
  IN  IF oldest \notin seqBit[e] /\ oldest \in critical[e]
      THEN Resend(queue[e], oldest) ELSE queue[e]

\* Mutant of Datagram: the datagram stays in the socket.
DatagramPeeked(e, p) == Header(p) \in L!Deliverable(e) /\ UNCHANGED net

\* p is the datagram that recvfrom returns to e.
Datagram(e, p) ==
  /\ Header(p) \in L!Deliverable(e)
  /\ \/ net' = [net EXCEPT ![e] = @ \ {p}]
     \/ e \in Duplicate /\ UNCHANGED net

\* The types of the messages that the receiving loop finds in p.  Of several
\* it finds only the first: it counts the offset of the next one in messages,
\* where the sender counted bytes.
Parsed(p) == IF p.load = <<>> THEN {} ELSE {p.load[1].type}

\* Bound: the client starts no frame while the server is MaxLag packets behind.
ServerKeepsUp ==
  /\ SeqSub(seq["client"], remoteSeq["server"]) < MaxLag
  /\ \A p \in net["server"] : SeqSub(seq["client"], p.seq) < MaxLag

\* Bound: the network delivers what acknowledges a packet before e is MaxLag
\* packets past it.
NothingDue(e) ==
  /\ net[e] # {} => Delay
  /\ \A p \in net[e] : SeqSub(seq[e], p.ack) < MaxLag

\* Bound: a packet may be lost while its receiver may start a frame and its
\* sender can still send another one.
MayBeLost(e, p) ==
  /\ e \in lossy
  /\ e = "client" => ServerKeepsUp
  /\ SeqSub(seq[Peer(e)], remoteSeq[e]) < MaxLag \/ net[e] # {p}

\* client_status_none: the client asks for authentication, once.
ClientSwitch ==
  /\ status' = [status EXCEPT !["client"] = "trying_auth"]
  /\ IF status["client"] = "none"
     THEN \E unset \in UnsetReadings(seqBit'["client"]) :
            queue' = [queue EXCEPT !["client"] =
              PutMessage(seqBit'["client"], Checked("client"), AuthMessage, unset)]
     ELSE queue' = [queue EXCEPT !["client"] = Checked("client")]

\* The client does nothing with the messages it receives.
ClientAccept(p) ==
  /\ Step("client", "recv", "send")
  /\ ServerKeepsUp
  /\ Datagram("client", p)
  /\ L!Accept("client", p)
  /\ heard' = IF "reply" \in Parsed(p) THEN heard \union {"server"} ELSE heard
  /\ ClientSwitch
  /\ UNCHANGED <<open, critical>>

ClientAbort(p) ==
  /\ Step("client", "recv", "send")
  /\ ServerKeepsUp
  /\ Datagram("client", p)
  /\ L!Abort("client", p)
  /\ UNCHANGED <<open, status, queue, critical, heard>>

\* EWOULDBLOCK
ClientNoDatagram ==
  /\ Step("client", "recv", "send")
  /\ ServerKeepsUp
  /\ NothingDue("client")
  /\ UNCHANGED linkPart
  /\ ClientSwitch
  /\ UNCHANGED <<critical, heard>>

ClientPoll ==
  \/ \E p \in net["client"] : ClientAccept(p) \/ ClientAbort(p)
  \/ ClientNoDatagram

\* client_status_none: the first auth message is answered by a critical message.
ServerSwitch(p) ==
  IF status["server"] = "none" /\ "auth" \in Parsed(p)
  THEN /\ status' = [status EXCEPT !["server"] = "trying_auth"]
       /\ \E unset \in UnsetReadings(seqBit["server"]) :
            queue' = [queue EXCEPT !["server"] =
              PutMessage(seqBit["server"], Checked("server"), ReplyMessage, unset)]
  ELSE /\ queue' = [queue EXCEPT !["server"] = Checked("server")]
       /\ UNCHANGED status

ServerAccept(p) ==
  /\ Step("server", "recv", "send")
  /\ Datagram("server", p)
  /\ ServerSwitch(p)
  /\ L!Accept("server", p)
  /\ heard' = IF "auth" \in Parsed(p) THEN heard \union {"client"} ELSE heard
  /\ open' = [open EXCEPT !["server"] = TRUE]
  /\ UNCHANGED critical

\* Mutant of ServerIgnore: the packet is recorded though its messages are not
\* read.
ServerIgnoreConfirms(p) ==
  /\ MayBeLost("server", p)
  /\ Step("server", "recv", "send")
  /\ Datagram("server", p)
  /\ L!Accept("server", p)
  /\ open' = [open EXCEPT !["server"] = TRUE]
  /\ queue' = [queue EXCEPT !["server"] = Checked("server")]
  /\ UNCHANGED <<status, critical, heard>>

\* lost_on_purpose: one datagram in twenty, at random
ServerIgnore(p) ==
  /\ MayBeLost("server", p)
  /\ Step("server", "recv", "send")
  /\ Datagram("server", p)
  /\ L!Ignore("server", p)
  /\ open' = [open EXCEPT !["server"] = TRUE]
  /\ queue' = [queue EXCEPT !["server"] = Checked("server")]
  /\ UNCHANGED <<status, critical, heard>>

ServerAbort(p) ==
  /\ Step("server", "recv", "send")
  /\ Datagram("server", p)
  /\ L!Abort("server", p)
  /\ open' = [open EXCEPT !["server"] = TRUE]
  /\ UNCHANGED <<status, queue, critical, heard>>

ServerNoDatagram ==
  /\ Step("server", "recv", "send")
  /\ NothingDue("server")
  /\ UNCHANGED linkPart
  /\ queue' = [queue EXCEPT !["server"] = Checked("server")]
  /\ UNCHANGED <<status, critical, heard>>

ServerPoll ==
  \/ \E p \in net["server"] : ServerAccept(p) \/ ServerIgnore(p) \/ ServerAbort(p)
  \/ ServerNoDatagram

\* A packet gets lost on the way; it is missed when its receiver next polls.
Lose ==
  \E e \in End : \E p \in net[e] :
    /\ phase[e] = "recv"
    /\ MayBeLost(e, p)
    /\ net' = [net EXCEPT ![e] = @ \ {p}]
    /\ UNCHANGED <<seq, seqBit, remoteSeq, remoteBit, open, halted, accepted,
                   phase, status, queue, critical, heard, lossy>>

-----------------------------------------------------------------------------
(***************************************************************************)
(* The second half of a frame: sending                                     *)
(***************************************************************************)

\* The packet takes the next number and whatever of the queue fits.
SendPacket(e) ==
  LET next == SeqInc(seq[e])
      bit  == SeqIndex(next)
      pack == Pack(queue[e], bit)
      p    == [seq |-> next, ack |-> remoteSeq[e], ackBit |-> remoteBit[e],
               load |-> pack.load]
  IN  /\ net' = [net EXCEPT ![Peer(e)] = @ \union {p}]
      /\ queue' = [queue EXCEPT ![e] = pack.queue]
      /\ critical' = [critical EXCEPT ![e] =
           IF HasCritical(pack.load) THEN @ \union {bit} ELSE @ \ {bit}]
      /\ L!Send(e)
      /\ UNCHANGED <<status, heard>>

ClientSend == Step("client", "send", "recv") /\ SendPacket("client")

ServerSend == Step("server", "send", "recv") /\ SendPacket("server")

\* No client yet, or less than 50 ms since the last packet to it.
ServerSkip ==
  /\ Step("server", "send", "recv")
  /\ UNCHANGED linkPart
  /\ UNCHANGED <<status, queue, critical, heard>>

Next ==
  \/ ClientPoll \/ ClientSend
  \/ ServerPoll \/ ServerSend \/ ServerSkip
  \/ Lose

Spec == Init /\ [][Next]_vars

-----------------------------------------------------------------------------
(***************************************************************************)
(* Fairness.  Both loops run on: each step of a frame that can be taken is *)
(* taken.  The server's timer expires again and again.  The network and    *)
(* rand() do not swallow every packet, nor every packet that carries a     *)
(* message.                                                                *)
(***************************************************************************)
CarriesMessage(p) == p.load # <<>>

Fairness ==
  /\ WF_vars(ClientPoll)
  /\ WF_vars(ClientSend)
  /\ WF_vars(ServerPoll)
  /\ WF_vars(ServerSend \/ ServerSkip)
  /\ SF_vars(ServerSend)
  /\ SF_vars(\E p \in net["client"] : CarriesMessage(p) /\ ClientAccept(p))
  /\ SF_vars(\E p \in net["server"] : CarriesMessage(p) /\ ServerAccept(p))

FairSpec == Spec /\ Fairness

-----------------------------------------------------------------------------
(***************************************************************************)
(* Properties                                                              *)
(***************************************************************************)

\* The slots of e that hold a critical message.
Held(e) == {i \in Slot : queue[e].msgs[i].critical}

\* A critical message is never forgotten: until it arrived it waits to be sent,
\* or the packet that carried it last is in the window, marked critical and
\* not confirmed, so that the loss check (udp_client.cpp 482-538,
\* udp_server.cpp 645-713) will find it before its bit is reused.
CriticalKept ==
  \A e \in End : status[e] = "trying_auth" /\ e \notin heard =>
    \E i \in Held(e) :
      \/ i \in Waiting(queue[e])
      \/ queue[e].sent[i] \in critical[e] \ seqBit[e]

\* However often it is sent again, a critical message has one copy in the queue
\* and is answered once: a resend moves it (memcpy and memset, 526 and 697),
\* and a second arrival creates no second reply (the status switch, 802-847).
OneCopy == \A e \in End : Cardinality(Held(e)) <= 1

\* A confirmed critical packet was processed, not only received: the server
\* confirms nothing of what it ignores on purpose.
ConfirmedHeard ==
  \A e \in End : critical[e] \intersect seqBit[e] # {} => e \in heard

\* The acknowledgement protocol of the two programs is Link: each of their
\* steps is a step of Link or leaves its variables alone.
LinkSpec == L!Spec

\* The client's request reaches the server although packets get lost.
AuthArrives ==
  status["client"] = "trying_auth" ~> status["server"] = "trying_auth"

\* The server's reply reaches the client.
ReplyArrives == status["server"] = "trying_auth" ~> "server" \in heard

-----------------------------------------------------------------------------
(***************************************************************************)
(* The inductive invariant that SessionProofs proves                       *)
(***************************************************************************)

\* The critical message of endpoint e.
Own(e) == IF e = "client" THEN AuthMessage ELSE ReplyMessage

\* m is in slot i of queue q, and all other slots are empty.
Only(i, m) == [j \in Slot |-> IF j = i THEN m ELSE NoMessage]
Alone(q, i, m) == q.msgs = Only(i, m)

\* A message of e that did not arrive and does not wait was sent in a packet that
\* is marked critical, and whose bit is not the one that e hands out next.
Marked(e, i) ==
  /\ queue[e].sent[i] \in critical[e]
  /\ L!Running(e) /\ phase[e] = "send" =>
       queue[e].sent[i] # SeqIndex(SeqInc(seq[e]))

\* Until its message is created the queue of e is as new.  Then the message is in
\* one slot, where it waits as the only one, or was sent and none waits.
QueuesHold ==
  \A e \in End :
    IF status[e] = "none" THEN queue[e] = EmptyQueue /\ critical[e] = {}
    ELSE \E i \in Slot :
      /\ Alone(queue[e], i, Own(e))
      /\ \/ queue[e].begin = i /\ queue[e].next = Advance(i)
         \/ queue[e].begin = queue[e].next /\ (e \notin heard => Marked(e, i))

\* Packets in flight are told apart by their numbers.
NumbersDiffer == \A e \in End : \A p, q \in net[e] : p.seq = q.seq => p = q

\* Of the packets that the sender remembers those marked critical carry its message.
LoadsMarked ==
  \A e \in End : \A p \in net[Peer(e)] :
    /\ SeqSub(seq[e], p.seq) < Window
    /\ SeqIndex(p.seq) \in critical[e]
    => p.load = <<Own(e)>>

\* A critical packet that was accepted was processed.
AcceptedHeard ==
  \A e \in End : critical[e] \intersect accepted[e] # {} => e \in heard

\* The queues, the packets in flight and what the peer heard are consistent: the
\* strengthening, over that of Link, from which CriticalKept, OneCopy,
\* ConfirmedHeard and LinkSpec follow.
SessionInv ==
  /\ L!LinkInv
  /\ TypeOK
  /\ QueuesHold
  /\ NumbersDiffer
  /\ LoadsMarked
  /\ AcceptedHeard
===============================================================================

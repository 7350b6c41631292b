--------------------------------- MODULE Queue ---------------------------------
(***************************************************************************)
(* The queue of messages of one endpoint under its whole interface: calls  *)
(* of CreatePackages with critical and other data, in one message or in    *)
(* fragments, the loss check, the packing of packets, and packets that     *)
(* arrive or get lost.                                                     *)
(*                                                                         *)
(* A frame polls (loss check, then at most one datagram with its           *)
(* acknowledgements), calls CreatePackages or not, and sends a packet; the *)
(* server polls more than once before it sends.  Of the acknowledgements   *)
(* only what Link promises is kept: they name packets the peer accepted.   *)
(*                                                                         *)
(* The programs of the repository make one call each.  What the queue      *)
(* stands beyond that is WithinLimits; the runs that leave out one of its  *)
(* limits show what happens then.                                          *)
(***************************************************************************)
EXTENDS MsgQueue, FiniteSets

CONSTANTS
  Overhead,   \* size of a message_header
  Fragment,   \* size of message.data: 96 in the code
  DataSizes,  \* sizes of the data that CreatePackages is called with
  MaxCalls,   \* bound: how many calls are made
  Limits      \* the limits of the queue that the callers stay within

\* The limits there are: see WithinLimits.
Limit == {"end", "inWay", "space", "size"}

ASSUME CallAssumption ==
  /\ Overhead \in Nat \ {0}
  /\ Fragment \in Nat \ {0}
  /\ DataSizes \subseteq Nat
  /\ MaxCalls \in Nat
  /\ Limits \subseteq Limit

\* The callers stay within every limit.
AllLimits == Limits = Limit

VARIABLES
  queue,       \* queue_msg_to_send
  last,        \* ring bit of the last packet sent
  seqBit,      \* ring bits of the packets known to be accepted
  critical,    \* packet_seq_critical
  accepted,    \* history: ring bits of the packets the peer accepted
  polled,      \* has the loss check been made since the last packet?
  calls,       \* history: how many calls were made; the next one's id
  created,     \* history: the critical messages created
  delivered    \* history: the critical messages in packets the peer accepted

vars == <<queue, last, seqBit, critical, accepted, polled, calls, created,
          delivered>>

Kind == {"buffer", "data"}
Message == [type : Kind, critical : BOOLEAN, size : Nat, id : 0 .. MaxCalls, order : Nat]

QueueMessage ==
  [msgs : [Slot -> Message \union {NoMessage}], sent : [Slot -> 0 .. NotSet],
   begin : Slot, next : Nat, ended : {"no", "assert", "wild", "hang"}]

TypeOK ==
  /\ queue \in QueueMessage
  /\ last \in Bit
  /\ seqBit \subseteq accepted
  /\ accepted \subseteq Bit
  /\ critical \subseteq Bit
  /\ polled \in BOOLEAN
  /\ calls \in 0 .. MaxCalls
  /\ created \subseteq Message
  /\ delivered \subseteq created

Init ==
  /\ queue = EmptyQueue
  /\ last = SeqIndex(UINT_MAX)
  /\ seqBit = Bit
  /\ critical = {}
  /\ accepted = Bit
  /\ polled = FALSE
  /\ calls = 0
  /\ created = {}
  /\ delivered = {}

Running == queue.ended = "no"

NextBit == (last + 1) % Window

-------------------------------------------------------------------------------
(***************************************************************************)
(* The loss check and the datagram after it                                *)
(***************************************************************************)

\* Is the oldest packet of the window lost, and a critical one?
OldestLost == NextBit \notin seqBit /\ NextBit \in critical

Checked == IF OldestLost THEN Resend(queue, NextBit) ELSE queue

\* The bits of the packets sent after the one sent n packets ago.
SentAfter(n) == {BitBefore(last, k) : k \in 0 .. (n - 1)}

\* What a datagram can confirm that acknowledges the packet sent n packets ago;
\* nothing if it comes too late.
Confirmable ==
  {{}} \union {accepted \ SentAfter(n) :
               n \in {k \in Bit : BitBefore(last, k) \in accepted}}

Poll ==
  /\ Running
  /\ queue' = Checked
  /\ polled' = TRUE
  /\ seqBit' \in {seqBit} \union Confirmable
  /\ UNCHANGED <<last, critical, accepted, calls, created, delivered>>

-------------------------------------------------------------------------------
(***************************************************************************)
(* CreatePackages                                                          *)
(***************************************************************************)

(***************************************************************************)
(* The messages of one call, in order: for more data than one message      *)
(* takes, first one that tells the peer to prepare a buffer.  The id of    *)
(* other than critical messages is left out: no property follows them.     *)
(***************************************************************************)
Fragments(id, size, crit) ==
  LET Count   == (size + Fragment - 1) \div Fragment
      first   == IF size > Fragment THEN 1 ELSE 0
      Used(n) == IF n < Count THEN Fragment ELSE size - (Count - 1) * Fragment
      Msg(type, order, len) ==
        [type |-> type, critical |-> crit, size |-> Overhead + len,
         id |-> IF crit THEN id ELSE 0, order |-> order]
  IN  [n \in 1 .. (Count + first) |->
         IF n <= first THEN Msg("buffer", 0, 1)
         ELSE Msg("data", n - 1, Used(n - first))]

\* The queue after the messages msgs were added.
PutAll(msgs, unset) ==
  LET after[n \in 0 .. Len(msgs)] ==
        IF n = 0 THEN queue
        ELSE IF after[n - 1].ended # "no" THEN after[n - 1]
        ELSE PutMessage(seqBit, after[n - 1], msgs[n], unset)
  IN  after[Len(msgs)]

\* The sum of the first n values of f.
Total(f, n) ==
  LET sum[k \in 0 .. n] == IF k = 0 THEN 0 ELSE sum[k - 1] + f[k]
  IN  sum[n]

\* The slots whose message waits, or is critical and can be sent again: also one
\* confirmed long ago, when a later packet with the same ring bit gets lost.
Pending(q) == Waiting(q) \union {i \in Slot : q.msgs[i].critical}

SizeOf(q, slots) ==
  Total([k \in 1 .. Slots |-> IF k - 1 \in slots THEN q.msgs[k - 1].size ELSE 0], Slots)

(***************************************************************************)
(* What the queue stands, with every limit in Limits:                      *)
(*   end    the calls never take the last slot: next is not masked after   *)
(*          it (414);                                                      *)
(*   inWay  no slot taken holds a critical message that is not confirmed:  *)
(*          moving it forgets its packet (431);                            *)
(*   space  when all that can be sent again is sent again, a slot is left, *)
(*          for the resend scan does not mind that next meets begin, where *)
(*          the queue reads as empty (704);                                *)
(*   size   all of that fits in one packet, for the packing loop loses the *)
(*          messages it skips (1000).                                      *)
(***************************************************************************)
WithinLimits(msgs) ==
  LET taken == {queue.next + n : n \in 0 .. (Len(msgs) - 1)}
      inWay == {i \in taken \cap Slot :
                  queue.msgs[i].critical /\ queue.sent[i] \notin seqBit}
      kept  == (Pending(queue) \ taken) \union inWay
      added == Total([n \in 1 .. Len(msgs) |-> msgs[n].size], Len(msgs))
  IN  /\ "end" \in Limits => queue.next + Len(msgs) < Slots
      /\ "inWay" \in Limits => inWay = {}
      /\ "space" \in Limits => Cardinality(kept) + Len(msgs) < Slots
      /\ "size" \in Limits => SizeOf(queue, kept) + added <= Capacity

CreatePackages ==
  \E size \in DataSizes, isCritical \in BOOLEAN :
    LET msgs == Fragments(calls + 1, size, isCritical)
    IN  /\ Running
        /\ polled
        /\ calls < MaxCalls
        /\ WithinLimits(msgs)
        /\ calls' = calls + 1
        /\ created' = created \union
             {m \in {msgs[n] : n \in 1 .. Len(msgs)} : m.critical}
        /\ \E unset \in UnsetReadings(seqBit) : queue' = PutAll(msgs, unset)
        /\ UNCHANGED <<last, seqBit, critical, accepted, polled, delivered>>

-------------------------------------------------------------------------------
(***************************************************************************)
(* Sending                                                                 *)
(***************************************************************************)

\* The packet takes the next number; arrives says what becomes of it.
Send(arrives) ==
  LET pack == Pack(queue, NextBit)
      crit == {m \in {pack.load[n] : n \in 1 .. Len(pack.load)} : m.critical}
  IN  /\ Running
      /\ polled
      /\ queue' = pack.queue
      /\ last' = NextBit
      /\ seqBit' = seqBit \ {NextBit}
      /\ critical' = IF crit # {} THEN critical \union {NextBit}
                     ELSE critical \ {NextBit}
      /\ polled' = FALSE
      /\ IF arrives /\ pack.queue.ended = "no"
         THEN /\ accepted' = accepted \union {NextBit}
              /\ delivered' = delivered \union crit
         ELSE /\ accepted' = accepted \ {NextBit}
              /\ UNCHANGED delivered
      /\ UNCHANGED <<calls, created>>

SendArrives == Send(TRUE)

SendLost == Send(FALSE)

Next ==
  \/ Poll
  \/ CreatePackages
  \/ SendArrives \/ SendLost

Spec == Init /\ [][Next]_vars

\* No confirmation is taken back while no packet is sent: what AckMonotone of Link
\* promises of a network that keeps the order.
InOrder == last' = last => seqBit \subseteq seqBit'

InOrderSpec == Init /\ [][Next /\ InOrder]_vars

-------------------------------------------------------------------------------
(***************************************************************************)
(* Properties                                                              *)
(***************************************************************************)

\* No message flagged critical is forgotten, "critical message (must be ack)"
\* (protocol.h 47): until a packet with it was accepted, it waits to be sent, or
\* the packet that carried it last is in the window, marked critical and not
\* confirmed, so that the loss check will find it.  It holds within limits.
CriticalKept ==
  Running => \A m \in created \ delivered : \E i \in Slot :
    /\ queue.msgs[i] = m
    /\ \/ i \in Waiting(queue)
       \/ queue.sent[i] \in critical \ seqBit

\* However often packets with it get lost, a critical message has one copy in the
\* queue.
OneCopy ==
  \A i, j \in Slot : queue.msgs[i] = queue.msgs[j] /\ i # j =>
    ~ queue.msgs[i].critical

\* Within its limits the queue never ends the process: no Assert of
\* GetNextAvailableMessageInQueue (417, 441, 444) fails, no loop runs on
\* without end and no slot past the array is used.
Survives == Running

-------------------------------------------------------------------------------
(***************************************************************************)
(* The inductive invariant that QueueProofs proves of callers within the   *)
(* limits.  Its parts are said of any queue q, so that they can be said of *)
(* what the resend scan leaves on its way.                                 *)
(***************************************************************************)

Undelivered == created \ delivered

\* The slots that hold a critical message which was sent.
Held(q) == {i \in Slot : q.msgs[i].critical} \ Waiting(q)

\* How far behind begin slot i is; the slots not waiting follow from next on.
Away(q, i) == (i - q.begin) % Slots

\* How many packets ago that one was sent which has ring bit b.
Age(b) == (last - b) % Window

\* All that can be sent again leaves a slot and fits in one packet.
HasSpace(q) ==
  /\ q.ended = "no"
  /\ q.next < Slots
  /\ Cardinality(Pending(q)) < Slots
  /\ SizeOf(q, Pending(q)) <= Capacity

\* A message not delivered waits, or a critical packet carried it and was lost.
Kept(q) ==
  \A m \in Undelivered : \E i \in Slot :
    /\ q.msgs[i] = m
    /\ i \in Waiting(q) \/ q.sent[i] \in critical \ accepted

SingleCopies(q) ==
  \A i, j \in Slot : q.msgs[i] = q.msgs[j] /\ i # j => ~ q.msgs[i].critical

\* From next on messages are in the order in which they were sent: behind one that
\* was not delivered is none that was sent before it.  So the scan, which writes
\* over the slot at next, never writes over a message not delivered but the
\* one it moves.
Ordered(q) ==
  \A i, j \in Held(q) : q.msgs[i] \in Undelivered /\ Away(q, i) < Away(q, j) =>
    Age(q.sent[j]) <= Age(q.sent[i])

\* What is held was created, and sent.
Known(q) ==
  /\ \A i \in Slot : q.msgs[i].critical => q.msgs[i] \in created
  /\ \A i \in Held(q) : q.sent[i] \in Bit

\* After the loss check no message is in the packet whose bit is used next.
NoneDue(q) ==
  \A i \in Held(q) : q.msgs[i] \in Undelivered => q.sent[i] # NextBit

\* Of callers within the limits: the slots hold what was created and not yet delivered,
\* once each, in the order the resend scan (client 494-535) relies on, with space to
\* send all of it again.
SlotsInv ==
  /\ TypeOK
  /\ \A m \in created : m.critical /\ m.id \in 1 .. calls
  /\ HasSpace(queue)
  /\ Kept(queue)
  /\ SingleCopies(queue)
  /\ Ordered(queue)
  /\ Known(queue)
  /\ polled => NoneDue(queue)
===============================================================================

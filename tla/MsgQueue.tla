------------------------------- MODULE MsgQueue -------------------------------
(***************************************************************************)
(* struct queue_message: the ring of message slots from which both         *)
(* programs fill their packets, and in which a critical message stays      *)
(* after it was sent so that it can be sent again.                         *)
(*                                                                         *)
(* The slots from begin up to next are waiting to be sent.  The others are *)
(* free or hold a message that was sent; sent[i] is then the ring bit of   *)
(* the packet that carried it.  ended says what ended the process in an    *)
(* operation on the queue: an Assert, an access past the array whose       *)
(* outcome is open ("wild"), or a loop without end ("hang").               *)
(***************************************************************************)
EXTENDS SeqRing, Sequences

CONSTANTS
  Slots,      \* slots of a queue: 32 in the code
  Capacity    \* payload of a packet, in the unit of the messages' sizes

ASSUME QueueAssumption ==
  /\ Slots \in Nat \ {0}
  /\ Capacity \in Nat \ {0}

Slot == 0 .. (Slots - 1)

\* A slot that was never used, or was cleared by memset: its header still
\* has a size.
NoMessage == [type |-> "none", critical |-> FALSE, size |-> 1]

\* No packet carried the message of this slot: "32 signal as not set".
NotSet == Window

EmptyQueue ==
  [msgs |-> [i \in Slot |-> NoMessage], sent |-> [i \in Slot |-> NotSet],
   begin |-> 0, next |-> 0, ended |-> "no"]

Ending(q, how) == [q EXCEPT !.ended = how]

\* Mutant of Advance: the index is not masked.
AdvanceUnmasked(i) == i + 1

Advance(i) == (i + 1) % Slots

\* The slots waiting to be sent, while next is below Slots.
Waiting(q) == {i \in Slot : (i - q.begin) % Slots < (q.next - q.begin) % Slots}

-----------------------------------------------------------------------------
(***************************************************************************)
(* Adding a message                                                        *)
(***************************************************************************)

\* Mutant of IsAckMessage: the slot after i, next being advanced already.
IsAckMessageNext(bits, q, i, unset) ==
  LET next == (i + 1) % Slots
  IN  IF q.sent[next] = NotSet THEN unset ELSE q.sent[next] \in bits

(***************************************************************************)
(* Was the packet that carried the message of slot i confirmed?  The code  *)
(* shifts 1 by sent[i], which is undefined for NotSet: unset is what the   *)
(* build makes of it.  An x86 shift reads bit 0; a mask of 0 confirms.     *)
(***************************************************************************)
IsAckMessage(bits, q, i, unset) ==
  IF q.sent[i] = NotSet THEN unset ELSE q.sent[i] \in bits

UnsetReadings(bits) == {TRUE, 0 \in bits}

(***************************************************************************)
(* The queue after message m was written to the slot that                  *)
(* GetNextAvailableMessageInQueue returns, unless one of its three Asserts *)
(* fails.  next is advanced but not wrapped.  A critical message that is   *)
(* in the way and not confirmed moves to the first slot that holds a       *)
(* confirmed one; sent does not move with it.  The search starts at next   *)
(* as it is: past the array once next has reached Slots.                   *)
(***************************************************************************)
PutMessage(bits, q, m, unset) ==
  LET at     == q.next % Slots
      next   == q.next + 1
      acked  == IsAckMessage(bits, q, at, unset)
      inWay  == q.msgs[at].critical /\ ~ acked
      span   == ((q.begin - next - 1) % Slots) + 1
      Probe(n) == (next + n) % Slots
      free   == {n \in 0 .. (span - 1) : IsAckMessage(bits, q, Probe(n), unset)}
      first  == Probe(CHOOSE n \in free : \A k \in free : n <= k)
      Put(msgs) == [q EXCEPT !.msgs = [msgs EXCEPT ![at] = m], !.next = next]
  IN  IF next = q.begin \/ (inWay /\ next < Slots /\ free = {})
      THEN Ending(q, "assert")
      ELSE IF inWay /\ next >= Slots THEN Ending(q, "wild")
      ELSE IF inWay THEN Put([q.msgs EXCEPT ![first] = q.msgs[at]])
      ELSE Put(q.msgs)

-----------------------------------------------------------------------------
(***************************************************************************)
(* Sending                                                                 *)
(***************************************************************************)

(***************************************************************************)
(* The packing loop: from begin to next, every message that still fits     *)
(* joins the packet whose ring bit is bit.  begin moves one slot for each  *)
(* message packed, skipped ones or not.  load has the messages packed, in  *)
(* order.  The index of the loop is masked, so it never meets a next that  *)
(* is not: the loop then ends when the packet is exactly full, or hangs.   *)
(***************************************************************************)
Pack(q, bit) ==
  LET Join(r, i) ==
        LET m == r.queue.msgs[i]
        IN  IF r.used + m.size > Capacity THEN r
            ELSE [queue |-> [r.queue EXCEPT !.sent[i] = bit,
                                            !.begin = Advance(@)],
                  load  |-> Append(r.load, m),
                  used  |-> r.used + m.size]
      span == IF q.next < Slots THEN (q.next - q.begin) % Slots
              ELSE (Capacity + 1) * Slots
      after[n \in 0 .. span] ==
        IF n = 0 THEN [queue |-> q, load |-> <<>>, used |-> 0]
        ELSE Join(after[n - 1], (q.begin + n - 1) % Slots)
      pack == after[span]
  IN  IF q.next < Slots \/ pack.used = Capacity
      THEN pack ELSE [pack EXCEPT !.queue = Ending(q, "hang")]

HasCritical(load) == \E i \in 1 .. Len(load) : load[i].critical

\* Did the lost packet with ring bit bit carry the critical message of slot i?
Carried(q, bit, i) == q.sent[i] = bit /\ q.msgs[i].critical

\* Mutant of Requeue: the message is copied and its old slot not cleared.
RequeueCopies(q, bit, i) ==
  IF ~ Carried(q, bit, i) THEN q
  ELSE [q EXCEPT !.msgs = [@ EXCEPT ![q.next] = q.msgs[i]], !.next = Advance(@)]

\* If so the message moves to the slot at next, over what that slot holds, and
\* waits to be sent.
Requeue(q, bit, i) ==
  IF ~ Carried(q, bit, i) THEN q
  ELSE [q EXCEPT !.msgs = IF q.next = i THEN @
                          ELSE [@ EXCEPT ![q.next] = q.msgs[i], ![i] = NoMessage],
                 !.next = Advance(@)]

\* Mutant of Resend: only the slot at next is looked at.
ResendFirstOnly(q, bit) == Requeue(q, bit, q.next)

(***************************************************************************)
(* The resend scan, after the packet whose ring bit is bit was found not   *)
(* confirmed: every critical message it carried is queued again.  The slot *)
(* at next is tried first, then the slots up to begin.  A next that is not *)
(* masked is used as it is: past the array.                                *)
(***************************************************************************)
Resend(q, bit) ==
  LET head  == Requeue(q, bit, q.next)
      start == IF head.next = head.begin THEN Advance(head.next) ELSE head.next
      span  == (q.begin - start) % Slots
      after[n \in 0 .. span] ==
        IF n = 0 THEN head ELSE Requeue(after[n - 1], bit, (start + n - 1) % Slots)
  IN  IF q.next < Slots THEN after[span] ELSE Ending(q, "wild")
===============================================================================

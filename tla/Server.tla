-------------------------------- MODULE Server --------------------------------
(***************************************************************************)
(* The server with several clients: the registry of ClientMap, the numbers *)
(* that each record keeps of its client, the time-out that forgets silent  *)
(* clients, and the clients themselves, which are not told of it.          *)
(*                                                                         *)
(* A frame of the server reads at most one datagram, whoever sent it, and  *)
(* then sweeps over the records entry by entry.  The rings and the queues  *)
(* are the business of Link, Session and Queue and are left out.           *)
(*                                                                         *)
(* A client's frame is one step, and the clients take theirs before the    *)
(* server looks for a datagram: the rest of its frame does not see what    *)
(* arrives.                                                                *)
(***************************************************************************)
EXTENDS SeqRing, Sequences, FiniteSets

CONSTANTS
  Addr, BucketCount, Key, HashKey, Null,  \* as in ClientMap
  Timeout,      \* how many frames a client may be silent: 5 seconds in the code
  MaxSent,      \* bound: how many packets each client sends
  MaxReplies,   \* bound: how many the server sends it from one record
  MaxInbox,     \* packets the server's socket holds; those in excess are lost
  MaxBacklog    \* packets a client's socket holds

\* The Asserts on a datagram, in their order.
Why == {"ack", "order", "gap"}

\* The first five are those of ClientMap, and fault tells Null from an Assert.
ASSUME ServerAssumption ==
  /\ BucketCount \in Nat \ {0}
  /\ HashKey \in [Addr -> Key]
  /\ Null \notin Addr
  /\ Null \notin Int
  /\ Null \notin [why : Why \union {"full"}, by : Addr]
  /\ Timeout \in Nat \ {0}
  /\ MaxSent \in [Addr -> 1 .. Half]
  /\ MaxReplies \in [Addr -> 1 .. Half]
  /\ MaxInbox \in Nat \ {0}
  /\ MaxBacklog \in Nat \ {0}

VARIABLES
  table, next, addr, entry, entries, count, firstFree, freeList,
  sweep, swept, due,    \* the registry, as in ClientMap
  info,        \* the numbers and the age of each record
  read,        \* was a datagram read in this frame?
  fault,       \* which Assert ended the server and the sender of the datagram,
               \* or Null
  inbox,       \* the packets waiting in the server's socket
  client,      \* the numbers of each client, and the Assert that ended it or "no"
  backlog,     \* the packets waiting in each client's socket
  since,       \* history: frames since a packet of each known client was read
  outlived     \* history: the clients whose record was removed

registry == <<table, next, addr, entry, entries, count, firstFree, freeList,
              sweep, swept, due>>
vars == <<registry, info, read, fault, inbox, client, backlog, since, outlived>>

M == INSTANCE ClientMap WITH halted <- fault # Null /\ fault.why = "full"

Packet == [seq : SeqNum, ack : SeqNum]

TypeOK ==
  /\ M!TypeOK
  /\ info \in [M!Record -> [seq : SeqNum, remote : SeqNum, silence : 0 .. Timeout + 1]]
  /\ read \in BOOLEAN
  /\ fault \in [why : Why \union {"full"}, by : Addr] \union {Null}
  /\ inbox \in Seq([from : Addr, packet : Packet]) /\ Len(inbox) <= MaxInbox
  /\ client \in [Addr -> [seq : SeqNum, remote : SeqNum, ended : Why \union {"no"}]]
  /\ backlog \in [Addr -> Seq(Packet)]
  /\ since \in [Addr -> 0 .. Timeout + 1]
  /\ outlived \subseteq Addr

\* The memory of the arena is zero.
Init ==
  /\ fault = Null
  /\ M!Init
  /\ info = [r \in M!Record |-> [seq |-> 0, remote |-> 0, silence |-> 0]]
  /\ read = FALSE
  /\ inbox = <<>>
  /\ client = [a \in Addr |-> [seq |-> UINT_MAX, remote |-> UINT_MAX, ended |-> "no"]]
  /\ backlog = [a \in Addr |-> <<>>]
  /\ since = [a \in Addr |-> 0]
  /\ outlived = {}

\* The clients that have a record.
Known == {addr[r] : r \in M!InUse}

\* The server has not yet looked for a datagram in this frame.
Polling == fault = Null /\ sweep = Null /\ ~ read

\* What can become of a socket that holds waiting when p is sent to it: p is last,
\* or lost.  UDP may also reorder and duplicate, and Link does.
After(waiting, max, p) ==
  {waiting} \union (IF Len(waiting) < max THEN {Append(waiting, p)} ELSE {})

-------------------------------------------------------------------------------
(***************************************************************************)
(* Receiving, on either side                                               *)
(***************************************************************************)

AckInPast(c, p) == c.seq = p.ack \/ IsSeqGreaterThan(c.seq, p.ack)
InOrder(c, p) == IsSeqGreaterThan(p.seq, c.remote)
NoGap(c, p) == SeqDistance(p.seq, c.remote) < Window

\* The first Assert that packet p fails at the endpoint with numbers c, or "no".
\* A packet that is ignored has only its acknowledgement read.
Verdict(c, p, ignored) ==
  IF ~ AckInPast(c, p) THEN "ack"
  ELSE IF ignored THEN "no"
  ELSE IF ~ InOrder(c, p) THEN "order"
  ELSE IF ~ NoGap(c, p) THEN "gap" ELSE "no"

-------------------------------------------------------------------------------
(***************************************************************************)
(* The clients                                                             *)
(***************************************************************************)

\* The rest of the frame of client a, whose last packet accepted is remote.
ClientSend(a, remote) ==
  LET seq == SeqInc(client[a].seq)
      msg == [from |-> a, packet |-> [seq |-> seq, ack |-> remote]]
  IN  /\ client' = [client EXCEPT ![a].seq = seq, ![a].remote = remote]
      /\ inbox' \in After(inbox, MaxInbox, msg)

ClientRuns(a) == Polling /\ client[a].ended = "no"

MaySend(a) == SeqInc(client[a].seq) < MaxSent[a]

\* Nothing has arrived.
ClientQuiet(a) ==
  /\ ClientRuns(a)
  /\ MaySend(a)
  /\ ClientSend(a, client[a].remote)
  /\ UNCHANGED <<registry, info, read, fault, backlog, since, outlived>>

ClientHears(a) ==
  LET p   == Head(backlog[a])
      why == Verdict(client[a], p, FALSE)
  IN  /\ ClientRuns(a)
      /\ backlog[a] # <<>>
      /\ backlog' = [backlog EXCEPT ![a] = Tail(@)]
      /\ \/ why = "no" /\ MaySend(a) /\ ClientSend(a, p.seq)
         \/ /\ why # "no"
            /\ client' = [client EXCEPT ![a].ended = why]
            /\ UNCHANGED inbox
      /\ UNCHANGED <<registry, info, read, fault, since, outlived>>

-------------------------------------------------------------------------------
(***************************************************************************)
(* The server reads a datagram                                             *)
(***************************************************************************)

\* Mutant of Fresh: the numbers of the last client stay.
FreshKeepsNumbers(r) == [info[r] EXCEPT !.silence = 0]

\* A record r as Client() sets it up.
Fresh(r) == [info[r] EXCEPT !.seq = UINT_MAX, !.remote = UINT_MAX, !.silence = 0]

\* The record Client() takes for a new client.
NextRecord == IF freeList # Null THEN freeList ELSE firstFree

\* Mutant of Handle: a packet that is ignored is no sign of life.
HandleIgnoredSilent(a, r, c, p) ==
  \E ignored \in BOOLEAN :
    LET why == Verdict(c, p, ignored)
    IN  IF why # "no"
        THEN /\ fault' = [why |-> why, by |-> a]
             /\ info' = [info EXCEPT ![r] = c]
        ELSE /\ info' = [info EXCEPT ![r] = IF ignored THEN c
                            ELSE [c EXCEPT !.silence = 0, !.remote = p.seq]]
             /\ UNCHANGED fault

\* Packet p of a arrives at record r, whose content was c.  An Assert that fails
\* leaves the record as it is.
Handle(a, r, c, p) ==
  \E ignored \in BOOLEAN :
    LET why == Verdict(c, p, ignored)
    IN  IF why # "no"
        THEN /\ fault' = [why |-> why, by |-> a]
             /\ info' = [info EXCEPT ![r] = c]
        ELSE /\ info' = [info EXCEPT ![r] =
                           [c EXCEPT !.silence = 0,
                                     !.remote = IF ignored THEN @ ELSE p.seq]]
             /\ UNCHANGED fault

Reads(a) ==
  /\ Polling
  /\ inbox # <<>>
  /\ a = Head(inbox).from
  /\ inbox' = Tail(inbox)
  /\ read' = TRUE
  /\ since' = [since EXCEPT ![a] = 0]
  /\ UNCHANGED <<client, backlog, outlived>>

ReadKnown(a) ==
  /\ Reads(a)
  /\ \E r \in M!Found(a) : Handle(a, r, info[r], Head(inbox).packet)
  /\ UNCHANGED registry

ReadNew(a) ==
  /\ Reads(a)
  /\ M!Found(a) = {}
  /\ ~ M!Exhausted
  /\ Handle(a, NextRecord, Fresh(NextRecord), Head(inbox).packet)
  /\ M!ClientNew(a)

ReadFull(a) ==
  /\ Reads(a)
  /\ fault' = [why |-> "full", by |-> a]
  /\ M!ClientFull(a)
  /\ UNCHANGED info

-------------------------------------------------------------------------------
(***************************************************************************)
(* The sweep                                                               *)
(***************************************************************************)

BeginSweep ==
  /\ fault = Null
  /\ read \/ inbox = <<>>
  /\ UNCHANGED <<info, read, fault, inbox, client, backlog, since, outlived>>
  /\ M!BeginSweep

\* A packet from record r to a, if 50 ms have passed since the last: the pace of
\* the loop does not decide it.
SendDue(r, a) ==
  \/ UNCHANGED <<info, backlog>>
  \/ LET seq == SeqInc(info[r].seq)
     IN  /\ seq < MaxReplies[a]
         /\ info' = [info EXCEPT ![r].seq = seq]
         /\ \E b \in After(backlog[a], MaxBacklog, [seq |-> seq, ack |-> info[r].remote]) :
              backlog' = [backlog EXCEPT ![a] = b]

Overdue(r) == info[r].silence > Timeout

SweepKeep ==
  /\ fault = Null
  /\ sweep # Null /\ sweep < count
  /\ ~ Overdue(entries[sweep])
  /\ SendDue(entries[sweep], addr[entries[sweep]])
  /\ UNCHANGED <<read, fault, inbox, client, since, outlived>>
  /\ M!SweepKeep

\* The client is removed.  The rest of the iteration goes on with the record that
\* was freed, which still has the client's address in addr_ip.
SweepRemove ==
  /\ fault = Null
  /\ sweep # Null /\ sweep < count
  /\ Overdue(entries[sweep])
  /\ outlived' = outlived \union {addr[entries[sweep]]}
  /\ since' = [since EXCEPT ![addr[entries[sweep]]] = 0]
  /\ SendDue(entries[sweep], addr[entries[sweep]])
  /\ UNCHANGED <<read, fault, inbox, client>>
  /\ M!SweepRemove

\* Mutant of Aged: the age wraps before it can exceed the time-out.
AgedWraps(n) == (n + 1) % (Timeout + 1)

\* The age one frame later, up to the first that is too much.
Aged(n) == IF n > Timeout THEN n ELSE n + 1

\* The frame ends with a sleep.
EndSweep ==
  /\ fault = Null
  /\ info' = [r \in M!Record |-> IF r \in M!InUse
                                 THEN [info[r] EXCEPT !.silence = Aged(@)] ELSE info[r]]
  /\ since' = [a \in Addr |-> IF a \in Known THEN Aged(since[a]) ELSE 0]
  /\ read' = FALSE
  /\ UNCHANGED <<fault, inbox, client, backlog, outlived>>
  /\ M!EndSweep

-------------------------------------------------------------------------------
ServerStep ==
  \/ \E a \in Addr : ReadKnown(a) \/ ReadNew(a) \/ ReadFull(a)
  \/ BeginSweep \/ SweepKeep \/ SweepRemove \/ EndSweep

ClientStep == \E a \in Addr : ClientQuiet(a) \/ ClientHears(a)

Next == ServerStep \/ ClientStep

\* The server loops for ever.  A client may stop at any time.
Spec == Init /\ [][Next]_vars /\ WF_vars(ServerStep)

-------------------------------------------------------------------------------
(***************************************************************************)
(* Properties                                                              *)
(***************************************************************************)

\* How many packets there are up to number n: the first is 0.
Upto(n) == SeqInc(n)

\* A client that was never removed and its record are of one session, whoever had
\* the record before and whatever became of the other clients: neither side, nor
\* a packet on its way, knows of a packet that the other has not sent, and no
\* record means that nothing was heard from the server.
InStep ==
  \A a \in Addr \ outlived :
    LET recs == {r \in M!InUse : addr[r] = a}
        sent == IF recs = {} THEN 0 ELSE Upto(info[CHOOSE r \in recs : TRUE].seq)
    IN  /\ \A r \in recs : Upto(info[r].remote) <= Upto(client[a].seq)
        /\ Upto(client[a].remote) <= sent
        /\ \A i \in 1 .. Len(inbox) :
             inbox[i].from = a => Upto(inbox[i].packet.ack) <= sent
        /\ \A i \in 1 .. Len(backlog[a]) :
             /\ Upto(backlog[a][i].ack) <= Upto(client[a].seq)
             /\ Upto(client[a].remote) < Upto(backlog[a][i].seq)
             /\ Upto(backlog[a][i].seq) <= sent

\* On a network that loses packets, fewer than a window, but keeps their order: what
\* ends the server is a full registry or a packet of a client that it had removed,
\* and what ends a client is that it was removed; losses and the other clients
\* never do.  (Reordering does, in Link.)
EndsOnlyOnReturn ==
  (\A a \in Addr : MaxSent[a] < Window /\ MaxReplies[a] < Window) =>
    /\ fault # Null => fault.why = "full" \/ fault.by \in outlived
    /\ \A a \in Addr : client[a].ended # "no" => a \in outlived

\* A client is removed only when nothing of it was read for longer than the
\* time-out (965), however the records move in entries and whoever had its
\* record before.
LiveKept == [][\A a \in Known \ Known' : since[a] > Timeout]_vars

\* The server forgets whoever falls silent, and the sweep always comes to an end:
\* since every client stops after MaxSent packets the registry is empty at last,
\* unless an Assert ended the server.
Forgets == <>[](fault # Null \/ Known = {})

\* "unless crafted package, ack package should refer to lower" (udp_server.cpp
\* 896): no packet that a client of the repository sends makes the Assert on the
\* acknowledged number fail.
AckRefersLower == fault # Null => fault.why # "ack"

-------------------------------------------------------------------------------
(***************************************************************************)
(* The inductive invariant that ServerProofs proves.  No number wraps: of  *)
(* client a there are Upto(client[a].seq) packets, and of record r         *)
(* Upto(info[r].seq).                                                      *)
(***************************************************************************)

\* How many packets the server sent to client a from the record it has.
Replied(a) ==
  IF a \in Known THEN Upto(info[CHOOSE r \in M!InUse : addr[r] = a].seq) ELSE 0

\* The bounds on the packets sent.
Bounded ==
  /\ \A a \in Addr : Upto(client[a].seq) <= MaxSent[a]
  /\ \A r \in M!InUse : Upto(info[r].seq) <= MaxReplies[addr[r]]

\* The record of client a knows of no packet that a has not sent, and all packets
\* that wait for it are newer than what it knows.
RecordInStep(a) ==
  \A r \in M!InUse : addr[r] = a =>
    /\ Upto(info[r].remote) <= Upto(client[a].seq)
    /\ \A i \in 1 .. Len(inbox) : inbox[i].from = a =>
         Upto(info[r].remote) < Upto(inbox[i].packet.seq)

\* The packets of client a in the server's socket are in order, were sent, and
\* acknowledge packets that were sent.
InboxInStep(a) ==
  \A i \in 1 .. Len(inbox) : inbox[i].from = a =>
    /\ Upto(inbox[i].packet.seq) \in 1 .. Upto(client[a].seq)
    /\ Upto(inbox[i].packet.ack) <= Replied(a)
    /\ \A j \in 1 .. Len(inbox) : j > i /\ inbox[j].from = a =>
         Upto(inbox[i].packet.seq) < Upto(inbox[j].packet.seq)

\* So are those that wait for client a, and they are newer than what it knows.
BacklogInStep(a) ==
  /\ Upto(client[a].remote) <= Replied(a)
  /\ \A i \in 1 .. Len(backlog[a]) :
       /\ Upto(client[a].remote) < Upto(backlog[a][i].seq)
       /\ Upto(backlog[a][i].seq) <= Replied(a)
       /\ Upto(backlog[a][i].ack) <= Upto(client[a].seq)
       /\ \A j \in 1 .. Len(backlog[a]) : j > i =>
            Upto(backlog[a][i].seq) < Upto(backlog[a][j].seq)

\* A record is no longer silent than its client, unless an Assert failed on a
\* packet that was read.
SilenceMeasured ==
  fault = Null => \A r \in M!InUse : info[r].silence <= since[addr[r]]

\* The registry, the records, the clients and the packets between them agree, but
\* for the clients that were removed: the strengthening from which InStep,
\* EndsOnlyOnReturn and LiveKept follow.
ServerInv ==
  /\ M!RegistryInv
  /\ TypeOK
  /\ Bounded
  /\ \A a \in Addr \ outlived :
       RecordInStep(a) /\ InboxInStep(a) /\ BacklogInStep(a)
  /\ EndsOnlyOnReturn
  /\ SilenceMeasured
===============================================================================

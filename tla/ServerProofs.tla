----------------------------- MODULE ServerProofs -----------------------------
(***************************************************************************)
(* ServerInv is an inductive invariant of Server, for every number of      *)
(* clients, hash, size of the registry and of the sockets, time-out and    *)
(* bound on the packets sent.  What the registry does is taken from        *)
(* ClientMapProofs.                                                        *)
(***************************************************************************)
EXTENDS Server, SeqRingProofs

-------------------------------------------------------------------------------
(***************************************************************************)
(* The theorems about ClientMap, of the registry of the server             *)
(***************************************************************************)
MP == INSTANCE ClientMapProofs WITH halted <- fault # Null /\ fault.why = "full"

LEMMA SameUse ==
  /\ M!Record = MP!Record /\ M!InUse = MP!InUse
  /\ \A k : M!Chain(k) = MP!Chain(k)
  /\ \A a : M!Found(a) = MP!Found(a)
BY DEF M!Record, MP!Record, M!InUse, MP!InUse, M!Walk, MP!Walk, M!Chain, MP!Chain,
       M!Found, MP!Found

LEMMA SameInv == M!RegistryInv <=> MP!RegistryInv
BY SameUse DEF M!RegistryInv, MP!RegistryInv, M!TypeOK, MP!TypeOK,
       M!EntriesExact, MP!EntriesExact, M!FreeNotInUse, MP!FreeNotInUse,
       M!FreeShort, MP!FreeShort, M!ChainsLinked, MP!ChainsLinked, M!Linked, MP!Linked,
       M!Place, MP!Place, M!OneRecord, MP!OneRecord, M!SweepSplit, MP!SweepSplit,
       M!Ahead, MP!Ahead

LEMMA SameInit == M!Init => MP!Init
BY DEF M!Init, MP!Init, M!Record, MP!Record

LEMMA SameSteps ==
  /\ \A a : M!ClientNew(a) => MP!ClientNew(a)
  /\ \A a : M!ClientFull(a) => MP!ClientFull(a)
  /\ M!SweepRemove => MP!SweepRemove
  /\ [M!Next]_M!vars => [MP!Next]_MP!vars
<1>1. ASSUME NEW a, M!ClientNew(a) PROVE MP!ClientNew(a)
  <2>1. PICK r \in M!Record :
          /\ M!Allocate(r)
          /\ addr' = [addr EXCEPT ![r] = a]
          /\ entries' = [entries EXCEPT ![count] = r]
          /\ entry' = [entry EXCEPT ![r] = count]
          /\ count' = count + 1
          /\ M!LinkLast(HashKey[a], r)
    BY <1>1 DEF M!ClientNew
  <2>2. MP!Allocate(r)
    BY <2>1 DEF M!Allocate, MP!Allocate
  <2>3. MP!LinkLast(HashKey[a], r)
    BY <2>1, SameUse DEF M!LinkLast, MP!LinkLast
  <2> QED BY <1>1, <2>1, <2>2, <2>3, SameUse DEF M!ClientNew, MP!ClientNew,
               M!Exhausted, MP!Exhausted
<1>2. ASSUME NEW a, M!ClientFull(a) PROVE MP!ClientFull(a)
  BY <1>2, SameUse DEF M!ClientFull, MP!ClientFull, M!Exhausted, MP!Exhausted
<1>3. M!SweepRemove => MP!SweepRemove
  BY SameUse DEF M!SweepRemove, MP!SweepRemove, M!Unlink, MP!Unlink,
       M!FreeEntry, MP!FreeEntry
<1>4. M!BeginSweep \/ M!SweepKeep \/ M!EndSweep
        => MP!BeginSweep \/ MP!SweepKeep \/ MP!EndSweep
  BY SameUse DEF M!BeginSweep, MP!BeginSweep, M!SweepKeep, MP!SweepKeep,
       M!EndSweep, MP!EndSweep
<1>5. UNCHANGED M!vars => UNCHANGED MP!vars
  BY DEF M!vars, MP!vars
<1> QED BY <1>1, <1>2, <1>3, <1>4, <1>5 DEF M!Next, MP!Next

LEMMA MapFacts == M!MapAssumption /\ MP!MapAssumption
BY ServerAssumption DEF M!MapAssumption, MP!MapAssumption

\* The registry is consistent initially and after every step of it.
LEMMA MapStart == M!Init => M!RegistryInv
BY SameInit, SameInv, MP!InitStep, MapFacts

LEMMA MapStep == M!RegistryInv /\ [M!Next]_M!vars => M!RegistryInv'
<1>1. (M!RegistryInv <=> MP!RegistryInv)'
  BY SameInv, PTL
<1>2. MP!RegistryInv /\ [MP!Next]_MP!vars => MP!RegistryInv'
  BY MP!NextStep, MapFacts
<1> QED BY <1>1, <1>2, SameInv, SameSteps

\* What the steps of the server need to know of the registry.
InUseFacts ==
  /\ M!InUse \subseteq M!Record
  /\ addr \in [M!Record -> Addr \union {Null}]
  /\ \A r \in M!InUse : addr[r] \in Addr
  /\ \A r, s \in M!InUse : addr[r] = addr[s] => r = s
  /\ \A a \in Addr, r \in M!InUse : addr[r] = a => Replied(a) = Upto(info[r].seq)
  /\ \A a \in Addr : (\A r \in M!InUse : addr[r] # a) => Replied(a) = 0

LEMMA RegistryFacts == M!RegistryInv => InUseFacts
<1> SUFFICES ASSUME M!RegistryInv PROVE InUseFacts
  OBVIOUS
<1>1. M!TypeOK /\ M!EntriesExact /\ M!OneRecord
  BY DEF M!RegistryInv
<1>2. M!InUse \subseteq M!Record
  <2>1. \A i \in 0 .. (count - 1) :
          i \in M!Record /\ entries[i] # Null /\ entries[i] \in M!Record
    BY <1>1, ServerAssumption DEF M!TypeOK, M!EntriesExact, M!Record
  <2> QED BY <2>1 DEF M!InUse
<1>3. addr \in [M!Record -> Addr \union {Null}]
  BY <1>1 DEF M!TypeOK
<1>4. \A r \in M!InUse : addr[r] \in Addr
  <2>1. \A r \in M!InUse : addr[r] # Null
    BY <1>1 DEF M!EntriesExact, M!InUse
  <2> QED BY <1>2, <1>3, <2>1
<1>5. \A r, s \in M!InUse : addr[r] = addr[s] => r = s
  BY <1>1 DEF M!OneRecord
<1>6. ASSUME NEW a \in Addr, NEW r \in M!InUse, addr[r] = a
      PROVE  Replied(a) = Upto(info[r].seq)
  <2>1. a \in Known
    BY <1>6 DEF Known
  <2>2. (CHOOSE s \in M!InUse : addr[s] = a) = r
    BY <1>5, <1>6
  <2> QED BY <2>1, <2>2 DEF Replied
<1>7. ASSUME NEW a \in Addr, \A r \in M!InUse : addr[r] # a PROVE Replied(a) = 0
  BY <1>7 DEF Replied, Known
<1> QED BY <1>2, <1>3, <1>4, <1>5, <1>6, <1>7 DEF InUseFacts

\* The records of an address are those that Client() finds.
LEMMA FoundRecords ==
  ASSUME M!RegistryInv, NEW a \in Addr
  PROVE  M!Found(a) = {r \in M!InUse : addr[r] = a}
<1>1. MP!TypeOK /\ MP!EntriesExact /\ MP!ChainsLinked
  BY SameInv DEF MP!RegistryInv
<1>2. MP!Found(a) = {r \in MP!InUse : addr[r] = a}
  BY <1>1, MP!FoundFacts, MapFacts
<1> QED BY <1>2, SameUse

\* A new client gets a record that was not in use.
LEMMA NewClient ==
  ASSUME M!RegistryInv, NEW a \in Addr, M!ClientNew(a)
  PROVE  /\ NextRecord \in M!Record \ M!InUse
         /\ addr' = [addr EXCEPT ![NextRecord] = a]
         /\ M!InUse' = M!InUse \union {NextRecord}
         /\ \A s \in M!InUse : addr[s] # a
<1>1. MP!RegistryInv /\ MP!ClientNew(a)
  BY SameInv, SameSteps
<1>2. (M!InUse = MP!InUse)'
  BY SameUse, PTL
<1>3. LET r == IF freeList # Null THEN freeList ELSE firstFree
      IN  /\ r \in MP!Record \ MP!InUse
          /\ addr' = [addr EXCEPT ![r] = a]
          /\ MP!InUse' = MP!InUse \union {r}
          /\ \A s \in MP!InUse : addr[s] # a
  BY <1>1, MP!NewRecord, MapFacts
<1> QED BY <1>2, <1>3, SameUse DEF NextRecord

\* The client that is removed loses its record.
LEMMA ClientGone ==
  ASSUME M!RegistryInv, M!SweepRemove
  PROVE  /\ entries[sweep] \in M!InUse
         /\ addr' = [addr EXCEPT ![entries[sweep]] = Null]
         /\ M!InUse' = M!InUse \ {entries[sweep]}
<1>1. MP!RegistryInv /\ MP!SweepRemove
  BY SameInv, SameSteps
<1>2. (M!InUse = MP!InUse)'
  BY SameUse, PTL
<1> QED BY <1>1, <1>2, MP!RemoveRecord, MapFacts, SameUse

-------------------------------------------------------------------------------
(***************************************************************************)
(* Numbers that do not wrap                                                *)
(***************************************************************************)

\* Packets are counted from the first, and UINT_MAX is none.
LEMMA UptoFacts ==
  /\ UINT_MAX \in SeqNum /\ Upto(UINT_MAX) = 0
  /\ \A n \in SeqNum : Upto(n) \in Nat
BY RingFacts DEF UINT_MAX, SeqNum, Upto, SeqInc

\* The next number counts one packet more.
LEMMA UptoNext ==
  ASSUME NEW n \in SeqNum, NEW max \in 1 .. Half, SeqInc(n) < max
  PROVE  /\ SeqInc(n) \in SeqNum
         /\ Upto(SeqInc(n)) = Upto(n) + 1
         /\ Upto(SeqInc(n)) <= max
<1>1. Half \in Nat /\ 2 * Half <= SeqSpace - 1
  BY HalfFacts
<1>2. SeqInc(n) \in SeqNum /\ SeqInc(n) < UINT_MAX /\ SeqInc(n) \in Nat
  BY <1>1, RingFacts, IncType DEF UINT_MAX, SeqNum
<1>3. \A m : m < UINT_MAX => SeqInc(m) = m + 1
  BY <1>2, RingFacts DEF SeqInc, UINT_MAX, SeqNum
<1> QED BY <1>1, <1>2, <1>3 DEF Upto

\* Of two packets less than half the numbers apart IsSeqGreaterThan finds the
\* later one, and abs their distance.
LEMMA LaterGreater ==
  ASSUME NEW m \in SeqNum, NEW n \in SeqNum, Upto(n) < Upto(m), Upto(m) <= Half
  PROVE  /\ IsSeqGreaterThan(m, n)
         /\ SeqDistance(m, n) = Upto(m) - Upto(n)
<1>1. Half \in Nat /\ 2 * Half <= SeqSpace - 1 /\ SeqSpace \in Nat
  BY HalfFacts, RingFacts
<1>2. UINT_MAX = SeqSpace - 1 /\ m \in 0 .. UINT_MAX /\ n \in 0 .. UINT_MAX
  BY DEF UINT_MAX, SeqNum
<1>3. m # UINT_MAX /\ Upto(m) = m + 1
  BY <1>1, <1>2 DEF Upto, SeqInc
<1>4. CASE n = UINT_MAX
  BY <1>1, <1>2, <1>3, <1>4 DEF Upto, SeqInc, IsSeqGreaterThan, SeqDistance, SeqSub
<1>5. CASE n # UINT_MAX
  BY <1>1, <1>2, <1>3, <1>5 DEF Upto, SeqInc, IsSeqGreaterThan, SeqDistance, SeqSub
<1> QED BY <1>4, <1>5

\* A packet that acknowledges only what was sent, and is newer than what was
\* accepted, fails no Assert but the one on the gap; and not that one if it is less
\* than a window ahead.
LEMMA VerdictInStep ==
  ASSUME NEW c, c.seq \in SeqNum, c.remote \in SeqNum, NEW p \in Packet,
         NEW ignored \in BOOLEAN,
         Upto(p.ack) <= Upto(c.seq), Upto(c.seq) <= Half,
         Upto(c.remote) < Upto(p.seq), Upto(p.seq) <= Half
  PROVE  /\ Verdict(c, p, ignored) \in {"no", "gap"}
         /\ Upto(p.seq) < Window => Verdict(c, p, ignored) = "no"
<1>1. p.seq \in SeqNum /\ p.ack \in SeqNum
  BY DEF Packet
<1>2. c.seq = p.ack \/ IsSeqGreaterThan(c.seq, p.ack)
  <2>1. CASE Upto(p.ack) < Upto(c.seq)
    BY <1>1, <2>1, LaterGreater
  <2>2. CASE Upto(p.ack) = Upto(c.seq)
    BY <1>1, <2>2, RingFacts DEF Upto, SeqInc, SeqNum, UINT_MAX
  <2> QED BY <1>1, <2>1, <2>2, UptoFacts
<1>3. /\ IsSeqGreaterThan(p.seq, c.remote)
      /\ SeqDistance(p.seq, c.remote) = Upto(p.seq) - Upto(c.remote)
  BY <1>1, LaterGreater
<1>4. Upto(p.seq) < Window => SeqDistance(p.seq, c.remote) < Window
  BY <1>1, <1>3, UptoFacts, RingFacts
<1> QED BY <1>2, <1>3, <1>4, Zenon DEF Verdict, AckInPast, InOrder, NoGap

\* The verdict on a packet is the name of an Assert, or none.
LEMMA VerdictType ==
  ASSUME NEW c, NEW p, NEW ignored
  PROVE  Verdict(c, p, ignored) \in Why \union {"no"}
BY DEF Verdict, Why

-------------------------------------------------------------------------------
(***************************************************************************)
(* Sockets and records                                                     *)
(***************************************************************************)

\* What is in a socket after a packet was sent to it: the packet may be the last.
LEMMA AfterFacts ==
  ASSUME NEW S, NEW waiting \in Seq(S), NEW max \in Nat, NEW p \in S,
         NEW then \in After(waiting, max, p)
  PROVE  /\ then \in Seq(S)
         /\ Len(waiting) <= max => Len(then) <= max
         /\ Len(waiting) <= Len(then) /\ Len(then) <= Len(waiting) + 1
         /\ \A i \in 1 .. Len(waiting) : then[i] = waiting[i]
         /\ \A i \in 1 .. Len(then) :
              i \in 1 .. Len(waiting) \/ (i = Len(waiting) + 1 /\ then[i] = p)
<1>1. CASE then = waiting
  BY <1>1
<1>2. CASE then = Append(waiting, p) /\ Len(waiting) < max
  BY <1>2
<1> QED BY <1>1, <1>2 DEF After

\* What is in a socket after its first packet was read.
LEMMA TailFacts ==
  ASSUME NEW S, NEW waiting \in Seq(S), waiting # <<>>
  PROVE  /\ Head(waiting) = waiting[1] /\ Head(waiting) \in S
         /\ 1 \in 1 .. Len(waiting)
         /\ Tail(waiting) \in Seq(S) /\ Len(Tail(waiting)) = Len(waiting) - 1
         /\ \A i \in 1 .. Len(Tail(waiting)) :
              /\ Tail(waiting)[i] = waiting[i + 1]
              /\ i + 1 \in 1 .. Len(waiting) /\ i + 1 > 1
OBVIOUS

Info == [seq : SeqNum, remote : SeqNum, silence : 0 .. Timeout + 1]
ClientInfo == [seq : SeqNum, remote : SeqNum, ended : Why \union {"no"}]
InboxPacket == [from : Addr, packet : Packet]

\* The numbers of a client after it sent a packet.
Sent(f, a, s, t) == [f EXCEPT ![a].seq = s, ![a].remote = t]

LEMMA SentFacts ==
  ASSUME NEW f \in [Addr -> ClientInfo], NEW a \in Addr, NEW s \in SeqNum, NEW t \in SeqNum
  PROVE  Sent(f, a, s, t)
           = [f EXCEPT ![a] = [seq |-> s, remote |-> t, ended |-> f[a].ended]]
<1>1. PICK g : g = [f EXCEPT ![a].seq = s]
  OBVIOUS
<1>2. g = [f EXCEPT ![a] = [seq |-> s, remote |-> f[a].remote, ended |-> f[a].ended]]
  <2>1. PICK c : c = f[a]
    OBVIOUS
  <2>2. [c EXCEPT !.seq = s] = [seq |-> s, remote |-> c.remote, ended |-> c.ended]
    BY <2>1 DEF ClientInfo
  <2> QED BY <1>1, <2>1, <2>2
<1>3. PICK h : h = [g EXCEPT ![a].remote = t]
  OBVIOUS
<1>4. h = [g EXCEPT ![a] = [seq |-> s, remote |-> t, ended |-> f[a].ended]]
  <2>1. g[a] = [seq |-> s, remote |-> f[a].remote, ended |-> f[a].ended]
    BY <1>2
  <2>2. [g[a] EXCEPT !.remote = t] = [seq |-> s, remote |-> t, ended |-> f[a].ended]
    BY <2>1
  <2> QED BY <1>3, <2>2
<1>5. h = [f EXCEPT ![a] = [seq |-> s, remote |-> t, ended |-> f[a].ended]]
  BY <1>2, <1>4
<1>6. h = Sent(f, a, s, t)
  BY <1>1, <1>3, Zenon DEF Sent
<1> QED BY <1>5, <1>6

\* The numbers of a new record.
LEMMA FreshFacts ==
  ASSUME NEW r, info[r] \in Info
  PROVE  Fresh(r) = [seq |-> UINT_MAX, remote |-> UINT_MAX, silence |-> 0]
<1>1. PICK c : c = info[r]
  OBVIOUS
<1>2. PICK d : d = [c EXCEPT !.seq = UINT_MAX]
  OBVIOUS
<1>3. d = [seq |-> UINT_MAX, remote |-> c.remote, silence |-> c.silence]
  BY <1>1, <1>2 DEF Info
<1>4. PICK e : e = [d EXCEPT !.remote = UINT_MAX]
  OBVIOUS
<1>5. e = [seq |-> UINT_MAX, remote |-> UINT_MAX, silence |-> c.silence]
  BY <1>3, <1>4
<1>6. [e EXCEPT !.silence = 0] = [seq |-> UINT_MAX, remote |-> UINT_MAX, silence |-> 0]
  BY <1>5
<1>7. Fresh(r) = [e EXCEPT !.silence = 0]
  BY <1>1, <1>2, <1>4, Zenon DEF Fresh
<1> QED BY <1>6, <1>7

\* Handling a packet sets the age and the last packet accepted, or ends the server
\* with one of the Asserts: the record r with content c has content d then.
Handled(a, r, c, p, d) ==
  /\ info' = [info EXCEPT ![r] = d]
  /\ d.seq = c.seq
  /\ d.remote \in {c.remote, p.seq}
  /\ \/ fault' = fault /\ d.silence = 0
     \/ \E ignored \in BOOLEAN :
          /\ Verdict(c, p, ignored) # "no"
          /\ fault' = [why |-> Verdict(c, p, ignored), by |-> a]

LEMMA HandleFacts ==
  ASSUME NEW a, NEW r, NEW c \in Info, NEW p \in Packet, Handle(a, r, c, p)
  PROVE  \E d \in Info : Handled(a, r, c, p, d)
<1>1. PICK ignored \in BOOLEAN :
        LET why == Verdict(c, p, ignored)
        IN  IF why # "no"
            THEN /\ fault' = [why |-> why, by |-> a]
                 /\ info' = [info EXCEPT ![r] = c]
            ELSE /\ info' = [info EXCEPT ![r] =
                               [c EXCEPT !.silence = 0,
                                         !.remote = IF ignored THEN @ ELSE p.seq]]
                 /\ UNCHANGED fault
  BY DEF Handle
<1>2. CASE Verdict(c, p, ignored) # "no"
  BY <1>1, <1>2 DEF Info, Handled
<1>3. CASE Verdict(c, p, ignored) = "no"
  <2>1. PICK x : x = IF ignored THEN c.remote ELSE p.seq
    OBVIOUS
  <2>2. x \in SeqNum /\ x \in {c.remote, p.seq}
    BY <2>1 DEF Info, Packet
  <2>3. PICK b : b = [c EXCEPT !.silence = 0]
    OBVIOUS
  <2>4. b = [seq |-> c.seq, remote |-> c.remote, silence |-> 0]
    BY <2>3 DEF Info
  <2>5. PICK d : d = [b EXCEPT !.remote = x]
    OBVIOUS
  <2>6. d = [seq |-> c.seq, remote |-> x, silence |-> 0]
    BY <2>4, <2>5
  <2>7. [c EXCEPT !.silence = 0, !.remote = IF ignored THEN @ ELSE p.seq]
          = [b EXCEPT !.remote = IF ignored THEN @ ELSE p.seq]
    BY <2>3, Zenon
  <2>8. [b EXCEPT !.remote = IF ignored THEN @ ELSE p.seq] = d
    BY <2>1, <2>4, <2>5
  <2>9. info' = [info EXCEPT ![r] = d] /\ fault' = fault
    BY <1>1, <1>3, <2>7, <2>8
  <2>10. d \in Info
    <3>1. 0 \in 0 .. Timeout + 1
      BY ServerAssumption
    <3> QED BY <2>2, <2>6, <3>1 DEF Info
  <2> QED BY <2>2, <2>6, <2>9, <2>10 DEF Handled
<1> QED BY <1>2, <1>3

\* A packet to a client takes the next number of its record, or none is sent.
SentTo(r, a, b, p) ==
  /\ p.seq = SeqInc(info[r].seq) /\ p.seq < MaxReplies[a]
  /\ p.ack = info[r].remote
  /\ info' = [info EXCEPT ![r] = [seq |-> p.seq, remote |-> info[r].remote,
                                  silence |-> info[r].silence]]
  /\ b \in After(backlog[a], MaxBacklog, p)
  /\ backlog' = [backlog EXCEPT ![a] = b]

LEMMA SendFacts ==
  ASSUME NEW r, NEW a \in Addr, SendDue(r, a), info \in [M!Record -> Info],
         r \in M!Record, backlog \in [Addr -> Seq(Packet)]
  PROVE  \/ info' = info /\ backlog' = backlog
         \/ \E b \in Seq(Packet), p \in Packet : SentTo(r, a, b, p)
<1> DEFINE s == SeqInc(info[r].seq)
           p == [seq |-> s, ack |-> info[r].remote]
<1>1. s \in SeqNum /\ p \in Packet
  BY IncType DEF Info, Packet
<1>2. CASE UNCHANGED <<info, backlog>>
  BY <1>2
<1>3. ASSUME s < MaxReplies[a], info' = [info EXCEPT ![r].seq = s],
             NEW b \in After(backlog[a], MaxBacklog, p), backlog' = [backlog EXCEPT ![a] = b]
      PROVE  \E q \in Seq(Packet), t \in Packet : SentTo(r, a, q, t)
  <2>1. b \in Seq(Packet)
    <3>1. backlog[a] \in Seq(Packet) /\ MaxBacklog \in Nat
      BY ServerAssumption
    <3> QED BY <1>1, <1>3, <3>1, AfterFacts
  <2>2. PICK c : c = info[r]
    OBVIOUS
  <2>3. [c EXCEPT !.seq = s] = [seq |-> s, remote |-> c.remote, silence |-> c.silence]
    BY <2>2 DEF Info
  <2>4. info' = [info EXCEPT ![r] = [c EXCEPT !.seq = s]]
    BY <1>3, <2>2
  <2>5. SentTo(r, a, b, p)
    BY <1>3, <2>2, <2>3, <2>4 DEF SentTo
  <2> QED BY <1>1, <2>1, <2>5
<1> QED BY <1>2, <1>3 DEF SendDue

-------------------------------------------------------------------------------
(***************************************************************************)
(* The steps                                                               *)
(***************************************************************************)

\* The type of what Server adds to the registry.
LEMMA TypeFacts ==
  ASSUME TypeOK
  PROVE  /\ info \in [M!Record -> Info] /\ client \in [Addr -> ClientInfo]
         /\ inbox \in Seq(InboxPacket) /\ Len(inbox) <= MaxInbox
         /\ backlog \in [Addr -> Seq(Packet)] /\ since \in [Addr -> 0 .. Timeout + 1]
         /\ read \in BOOLEAN /\ outlived \subseteq Addr
         /\ fault \in [why : Why \union {"full"}, by : Addr] \union {Null}
         /\ MaxInbox \in Nat /\ MaxBacklog \in Nat /\ Timeout \in Nat
BY ServerAssumption DEF TypeOK, Info, ClientInfo, InboxPacket

\* Each step of the server and of the clients is a step of the registry, or leaves
\* it alone.
LEMMA RegistrySteps == TypeOK /\ [Next]_vars => [M!Next]_M!vars
<1> SUFFICES ASSUME TypeOK, [Next]_vars PROVE [M!Next]_M!vars
  OBVIOUS
<1>1. ASSUME UNCHANGED registry, UNCHANGED fault PROVE UNCHANGED M!vars
  BY <1>1 DEF registry, M!vars
<1>2. ASSUME NEW a \in Addr, ReadKnown(a) PROVE UNCHANGED M!vars
  <2>1. PICK r \in M!Found(a) : Handle(a, r, info[r], Head(inbox).packet)
    BY <1>2 DEF ReadKnown
  <2>2. fault = Null /\ UNCHANGED registry
    BY <1>2 DEF ReadKnown, Reads, Polling
  <2>3. fault' = fault \/ fault'.why \in Why
    BY <2>1, VerdictType DEF Handle
  <2>4. \A w \in Why : w # "full"
    BY DEF Why
  <2>5. (fault' # Null /\ fault'.why = "full") = (fault # Null /\ fault.why = "full")
    BY <2>2, <2>3, <2>4
  <2> QED BY <2>2, <2>5 DEF registry, M!vars
<1>3. ASSUME NEW a \in Addr, ReadNew(a) \/ ReadFull(a) PROVE M!Next
  BY <1>3 DEF ReadNew, ReadFull, M!Next
<1>4. ASSUME BeginSweep \/ SweepKeep \/ SweepRemove \/ EndSweep PROVE M!Next
  BY <1>4 DEF BeginSweep, SweepKeep, SweepRemove, EndSweep, M!Next
<1>5. ASSUME NEW a \in Addr, ClientQuiet(a) \/ ClientHears(a) PROVE UNCHANGED M!vars
  BY <1>1, <1>5 DEF ClientQuiet, ClientHears
<1>6. ASSUME UNCHANGED vars PROVE UNCHANGED M!vars
  BY <1>1, <1>6 DEF vars
<1> QED BY <1>2, <1>3, <1>4, <1>5, <1>6 DEF Next, ServerStep, ClientStep

\* So the registry stays consistent.
LEMMA RegistryStays ==
  ASSUME ServerInv, [Next]_vars
  PROVE  M!RegistryInv' /\ M!TypeOK' /\ InUseFacts /\ InUseFacts'
<1>1. M!RegistryInv'
  BY RegistrySteps, MapStep DEF ServerInv
<1>2. (M!RegistryInv => InUseFacts)'
  BY RegistryFacts, PTL
<1> QED BY <1>1, <1>2, RegistryFacts DEF ServerInv, M!RegistryInv

\* A step that leaves the registry alone leaves the records in use alone.
LEMMA SameRecords ==
  ASSUME UNCHANGED <<addr, entries, count>>
  PROVE  M!InUse' = M!InUse /\ Known' = Known
BY DEF M!InUse, Known

\* Without new numbers in the records nothing more was sent to a client.
LEMMA SameReplied ==
  ASSUME UNCHANGED <<addr, entries, count, info>>
  PROVE  \A a : Replied(a)' = Replied(a)
BY SameRecords DEF Replied

\* A client sends a packet, with the number of the last one it accepted.
LEMMA SendStep ==
  ASSUME ServerInv, InUseFacts,
         UNCHANGED <<registry, info>>, outlived' = outlived,
         NEW a \in Addr, MaySend(a), NEW t \in SeqNum, ClientSend(a, t),
         a \notin outlived => Upto(t) <= Replied(a)
  PROVE  /\ client' = [client EXCEPT ![a] =
                         [seq |-> SeqInc(client[a].seq), remote |-> t,
                          ended |-> client[a].ended]]
         /\ client' \in [Addr -> ClientInfo]
         /\ Upto(client'[a].seq) = Upto(client[a].seq) + 1
         /\ inbox' \in Seq(InboxPacket) /\ Len(inbox') <= MaxInbox
         /\ Bounded'
         /\ \A b \in Addr \ outlived' : RecordInStep(b)' /\ InboxInStep(b)'
<1> DEFINE s == SeqInc(client[a].seq)
           msg == [from |-> a, packet |-> [seq |-> s, ack |-> t]]
<1>1. TypeOK /\ Bounded
  BY DEF ServerInv
<1>2. client[a].seq \in SeqNum /\ s < MaxSent[a] /\ MaxSent[a] \in 1 .. Half
  BY <1>1, TypeFacts, ServerAssumption DEF MaySend, ClientInfo
<1>3. s \in SeqNum /\ Upto(s) = Upto(client[a].seq) + 1 /\ Upto(s) <= MaxSent[a]
  BY <1>2, UptoNext
<1>4. client' = [client EXCEPT ![a] = [seq |-> s, remote |-> t,
                                       ended |-> client[a].ended]]
  <2>1. client' = Sent(client, a, s, t)
    BY Zenon DEF ClientSend, Sent
  <2>2. client \in [Addr -> ClientInfo]
    BY <1>1, TypeFacts
  <2> HIDE DEF s
  <2>3. s \in SeqNum
    BY <1>3
  <2> QED BY <2>1, <2>2, <2>3, SentFacts
<1>5. client' \in [Addr -> ClientInfo]
  BY <1>1, <1>3, <1>4, TypeFacts DEF ClientInfo
<1>6. msg \in InboxPacket /\ inbox' \in After(inbox, MaxInbox, msg)
  BY <1>3 DEF InboxPacket, Packet, ClientSend
<1>7. /\ inbox' \in Seq(InboxPacket) /\ Len(inbox') <= MaxInbox
      /\ Len(inbox) <= Len(inbox') /\ Len(inbox') <= Len(inbox) + 1
      /\ \A i \in 1 .. Len(inbox) : inbox'[i] = inbox[i]
      /\ \A i \in 1 .. Len(inbox') :
           i \in 1 .. Len(inbox) \/ (i = Len(inbox) + 1 /\ inbox'[i] = msg)
  BY <1>1, <1>6, TypeFacts, AfterFacts
<1>8. M!InUse' = M!InUse /\ addr' = addr /\ info' = info
      /\ \A b : Replied(b)' = Replied(b)
  BY SameRecords, SameReplied DEF registry
<1>9. Bounded'
  BY <1>1, <1>3, <1>4, <1>8, TypeFacts DEF Bounded
<1>10. ASSUME NEW b \in Addr \ outlived' PROVE RecordInStep(b)' /\ InboxInStep(b)'
  <2>1. RecordInStep(b) /\ InboxInStep(b)
    BY <1>10 DEF ServerInv
  <2>2. \A i \in 1 .. Len(inbox) : inbox[i] \in InboxPacket
    BY <1>1, TypeFacts
  <2>3. /\ Upto(client'[b].seq) \in Nat /\ Upto(client[b].seq) \in Nat
        /\ Upto(client[b].seq) <= Upto(client'[b].seq)
    BY <1>1, <1>3, <1>4, <1>5, TypeFacts, UptoFacts DEF ClientInfo
  <2>4. \A i \in 1 .. Len(inbox) : /\ Upto(inbox[i].packet.seq) \in Nat
                                   /\ Upto(inbox[i].packet.ack) \in Nat
    BY <2>2, UptoFacts DEF InboxPacket, Packet
  <2>5. Upto(msg.packet.seq) = Upto(client[a].seq) + 1 /\ Upto(client[a].seq) \in Nat
    BY <1>2, <1>3, UptoFacts
  <2>6. b = a => Upto(msg.packet.ack) <= Replied(a)
    BY <1>10
  <2>7. msg.from = a
    OBVIOUS
  <2>8. b = a => Upto(client'[b].seq) = Upto(client[a].seq) + 1
    BY <1>1, <1>3, <1>4, TypeFacts
  <2> HIDE DEF msg, s
  <2>9. RecordInStep(b)'
    <3>1. ASSUME NEW r \in M!InUse, addr[r] = b
          PROVE  /\ Upto(info[r].remote) <= Upto(client'[b].seq)
                 /\ \A i \in 1 .. Len(inbox') : inbox'[i].from = b =>
                      Upto(info[r].remote) < Upto(inbox'[i].packet.seq)
      <4>1. info[r].remote \in SeqNum
        BY <1>1, TypeFacts DEF InUseFacts, Info
      <4>2. Upto(info[r].remote) \in Nat /\ Upto(info[r].remote) <= Upto(client[b].seq)
        BY <2>1, <3>1, <4>1, UptoFacts DEF RecordInStep
      <4>3. ASSUME NEW i \in 1 .. Len(inbox'), inbox'[i].from = b
            PROVE  Upto(info[r].remote) < Upto(inbox'[i].packet.seq)
        <5>1. CASE i \in 1 .. Len(inbox)
          BY <1>7, <2>1, <3>1, <4>3, <5>1 DEF RecordInStep
        <5>2. CASE inbox'[i] = msg
          BY <2>5, <2>7, <4>2, <4>3, <5>2
        <5> QED BY <1>7, <5>1, <5>2
      <4> QED BY <2>3, <4>2, <4>3
    <3> QED BY <1>8, <3>1 DEF RecordInStep
  <2>10. InboxInStep(b)'
    <3>1. ASSUME NEW i \in 1 .. Len(inbox'), inbox'[i].from = b
          PROVE  /\ Upto(inbox'[i].packet.seq) \in 1 .. Upto(client'[b].seq)
                 /\ Upto(inbox'[i].packet.ack) <= Replied(b)
                 /\ \A j \in 1 .. Len(inbox') : j > i /\ inbox'[j].from = b =>
                      Upto(inbox'[i].packet.seq) < Upto(inbox'[j].packet.seq)
      <4>1. CASE i \in 1 .. Len(inbox)
        <5>1. /\ Upto(inbox[i].packet.seq) \in 1 .. Upto(client[b].seq)
              /\ Upto(inbox[i].packet.ack) <= Replied(b)
              /\ \A j \in 1 .. Len(inbox) : j > i /\ inbox[j].from = b =>
                   Upto(inbox[i].packet.seq) < Upto(inbox[j].packet.seq)
          BY <1>7, <2>1, <3>1, <4>1 DEF InboxInStep
        <5>2. ASSUME NEW j \in 1 .. Len(inbox'), j > i, inbox'[j].from = b
              PROVE  Upto(inbox'[i].packet.seq) < Upto(inbox'[j].packet.seq)
          <6>1. CASE j \in 1 .. Len(inbox)
            BY <1>7, <4>1, <5>1, <5>2, <6>1
          <6>2. CASE inbox'[j] = msg
            BY <1>7, <2>3, <2>5, <2>7, <4>1, <5>1, <5>2, <6>2
          <6> QED BY <1>7, <6>1, <6>2
        <5> QED BY <1>7, <2>3, <4>1, <5>1, <5>2
      <4>2. CASE i = Len(inbox) + 1 /\ inbox'[i] = msg
        <5>1. \A j \in 1 .. Len(inbox') : j <= i
          <6>1. Len(inbox) \in Nat /\ Len(inbox') \in Nat
            BY <1>1, <1>7, TypeFacts
          <6> QED BY <1>7, <4>2, <6>1
        <5> QED BY <2>5, <2>6, <2>7, <2>8, <3>1, <4>2, <5>1
      <4> QED BY <1>7, <4>1, <4>2
    <3> QED BY <1>8, <3>1 DEF InboxInStep
  <2> QED BY <2>9, <2>10
<1> QED BY <1>1, <1>3, <1>4, <1>5, <1>7, <1>9, <1>10, TypeFacts

\* The bounds on the packets, as numbers.
LEMMA BoundFacts ==
  ASSUME TypeOK, Bounded, InUseFacts, NEW a \in Addr
  PROVE  /\ Replied(a) \in Nat /\ Replied(a) <= MaxReplies[a] /\ MaxReplies[a] <= Half
         /\ Upto(client[a].seq) \in Nat /\ Upto(client[a].seq) <= MaxSent[a]
         /\ MaxSent[a] <= Half
         /\ MaxSent[a] \in Nat /\ MaxReplies[a] \in Nat /\ Half \in Nat
         /\ client[a].seq \in SeqNum /\ client[a].remote \in SeqNum
         /\ Upto(client[a].remote) \in Nat
<1>1. client[a].seq \in SeqNum /\ client[a].remote \in SeqNum
  BY TypeFacts DEF ClientInfo
<1>2. /\ MaxSent[a] \in 1 .. Half /\ MaxReplies[a] \in 1 .. Half /\ Half \in Nat
  BY ServerAssumption, HalfFacts
<1>3. Replied(a) \in Nat /\ Replied(a) <= MaxReplies[a]
  <2>1. CASE \E r \in M!InUse : addr[r] = a
    <3>1. PICK r \in M!InUse : addr[r] = a
      BY <2>1
    <3>2. info[r].seq \in SeqNum
      BY TypeFacts DEF InUseFacts, Info
    <3> QED BY <3>1, <3>2, UptoFacts DEF InUseFacts, Bounded
  <2>2. CASE \A r \in M!InUse : addr[r] # a
    BY <1>2, <2>2 DEF InUseFacts
  <2> QED BY <2>1, <2>2
<1> QED BY <1>1, <1>2, <1>3, UptoFacts DEF Bounded

\* A packet that waits for a client that was never removed is taken, unless a window
\* of packets was lost.
LEMMA BacklogVerdict ==
  ASSUME ServerInv, InUseFacts, NEW a \in Addr \ outlived, backlog[a] # <<>>,
         \A b \in Addr : MaxSent[b] < Window /\ MaxReplies[b] < Window
  PROVE  Verdict(client[a], Head(backlog[a]), FALSE) = "no"
<1> DEFINE p == Head(backlog[a])
<1>1. p \in Packet /\ p = backlog[a][1] /\ 1 \in 1 .. Len(backlog[a])
  BY TypeFacts, TailFacts DEF ServerInv
<1>2. /\ Upto(p.ack) <= Upto(client[a].seq) /\ Upto(client[a].remote) < Upto(p.seq)
      /\ Upto(p.seq) <= Replied(a)
  BY <1>1 DEF ServerInv, BacklogInStep
<1>3. Upto(p.seq) \in Nat /\ Upto(p.ack) \in Nat
  BY <1>1, UptoFacts DEF Packet
<1>4. /\ Replied(a) \in Nat /\ Replied(a) <= MaxReplies[a] /\ MaxReplies[a] <= Half
      /\ Upto(client[a].seq) \in Nat /\ Upto(client[a].seq) <= MaxSent[a]
      /\ MaxSent[a] <= Half /\ MaxSent[a] \in Nat /\ MaxReplies[a] \in Nat /\ Half \in Nat
      /\ client[a].seq \in SeqNum /\ client[a].remote \in SeqNum
  BY BoundFacts DEF ServerInv
<1> HIDE DEF p
<1>5. Upto(client[a].seq) <= Half /\ Upto(p.seq) <= Half /\ Upto(p.seq) < Window
  BY <1>2, <1>3, <1>4, RingFacts
<1>6. FALSE \in BOOLEAN
  OBVIOUS
<1>7. Upto(p.seq) < Window => Verdict(client[a], p, FALSE) = "no"
  BY <1>1, <1>2, <1>4, <1>5, <1>6, VerdictInStep, Zenon
<1> QED BY <1>5, <1>7 DEF p

\* The packets that wait for a client.
LEMMA BacklogPackets ==
  ASSUME TypeOK, NEW a \in Addr
  PROVE  \A i \in 1 .. Len(backlog[a]) : /\ Upto(backlog[a][i].ack) \in Nat
                                         /\ Upto(backlog[a][i].seq) \in Nat
<1>1. backlog[a] \in Seq(Packet)
  BY TypeFacts
<1>2. \A i \in 1 .. Len(backlog[a]) : backlog[a][i] \in Packet
  BY <1>1
<1>3. \A p \in Packet : Upto(p.ack) \in Nat /\ Upto(p.seq) \in Nat
  BY UptoFacts DEF Packet
<1> QED BY <1>2, <1>3

\* A frame of a client for which nothing has arrived.
LEMMA QuietStep ==
  ASSUME ServerInv, InUseFacts, M!RegistryInv', M!TypeOK', NEW a \in Addr, ClientQuiet(a)
  PROVE  ServerInv'
<1> DEFINE t == client[a].remote
<1>1. /\ UNCHANGED <<registry, info, read, fault, backlog, since, outlived>>
      /\ MaySend(a) /\ ClientSend(a, t)
  BY DEF ClientQuiet
<1>2. TypeOK /\ Bounded
  BY DEF ServerInv
<1>3. t \in SeqNum
  BY <1>2, TypeFacts DEF ClientInfo
<1>4. a \notin outlived => Upto(t) <= Replied(a)
  BY DEF ServerInv, BacklogInStep
<1>5. /\ client' = [client EXCEPT ![a] = [seq |-> SeqInc(client[a].seq), remote |-> t,
                                          ended |-> client[a].ended]]
      /\ client' \in [Addr -> ClientInfo]
      /\ Upto(client'[a].seq) = Upto(client[a].seq) + 1
      /\ inbox' \in Seq(InboxPacket) /\ Len(inbox') <= MaxInbox
      /\ Bounded'
      /\ \A b \in Addr \ outlived' : RecordInStep(b)' /\ InboxInStep(b)'
  BY <1>1, <1>3, <1>4, SendStep
<1>6. \A b \in Addr : /\ client'[b].remote = client[b].remote
                      /\ client'[b].ended = client[b].ended
                      /\ Upto(client[b].seq) <= Upto(client'[b].seq)
                      /\ Upto(client[b].seq) \in Nat /\ Upto(client'[b].seq) \in Nat
  BY <1>2, <1>5, TypeFacts, UptoFacts DEF ClientInfo
<1>7. M!InUse' = M!InUse /\ \A b : Replied(b)' = Replied(b)
  BY <1>1, SameRecords, SameReplied DEF registry
<1>8. TypeOK'
  BY <1>1, <1>2, <1>5, SameRecords DEF TypeOK, registry, ClientInfo, InboxPacket, M!Record
<1>9. ASSUME NEW b \in Addr \ outlived' PROVE BacklogInStep(b)'
  <2>1. BacklogInStep(b) /\ backlog' = backlog
    BY <1>1, <1>9 DEF ServerInv
  <2>2. \A i \in 1 .. Len(backlog[b]) : Upto(backlog[b][i].ack) \in Nat
    BY <1>2, BacklogPackets
  <2> QED BY <1>6, <1>7, <2>1, <2>2 DEF BacklogInStep
<1>10. EndsOnlyOnReturn' /\ SilenceMeasured'
  BY <1>1, <1>6, <1>7 DEF ServerInv, EndsOnlyOnReturn, SilenceMeasured, registry
<1> QED BY <1>5, <1>8, <1>9, <1>10 DEF ServerInv

\* A frame of a client that reads a packet: it ends, or sends the next packet.
LEMMA HearsStep ==
  ASSUME ServerInv, InUseFacts, M!RegistryInv', M!TypeOK', NEW a \in Addr, ClientHears(a)
  PROVE  ServerInv'
<1> DEFINE p == Head(backlog[a])
           why == Verdict(client[a], p, FALSE)
<1>1. /\ UNCHANGED <<registry, info, read, fault, since, outlived>>
      /\ backlog[a] # <<>>
      /\ backlog' = [backlog EXCEPT ![a] = Tail(@)]
  BY DEF ClientHears
<1>2. TypeOK /\ Bounded
  BY DEF ServerInv
<1>3. M!InUse' = M!InUse /\ \A b : Replied(b)' = Replied(b)
  BY <1>1, SameRecords, SameReplied DEF registry
<1>4. /\ p = backlog[a][1] /\ p \in Packet /\ 1 \in 1 .. Len(backlog[a])
      /\ Tail(backlog[a]) \in Seq(Packet)
      /\ Len(Tail(backlog[a])) = Len(backlog[a]) - 1
      /\ \A i \in 1 .. Len(Tail(backlog[a])) :
           /\ Tail(backlog[a])[i] = backlog[a][i + 1]
           /\ i + 1 \in 1 .. Len(backlog[a]) /\ i + 1 > 1
  BY <1>1, <1>2, TypeFacts, TailFacts
<1>5. backlog' \in [Addr -> Seq(Packet)] /\ backlog'[a] = Tail(backlog[a])
  BY <1>1, <1>2, <1>4, TypeFacts
<1> HIDE DEF p
<1>6. ASSUME NEW b \in Addr \ outlived', client' \in [Addr -> ClientInfo],
             Upto(client[b].seq) <= Upto(client'[b].seq),
             IF b = a /\ why = "no" THEN client'[b].remote = p.seq
                                    ELSE client'[b].remote = client[b].remote
      PROVE  BacklogInStep(b)'
  <2>1. BacklogInStep(b)
    BY <1>1, <1>6 DEF ServerInv
  <2>2. \A i \in 1 .. Len(backlog[b]) : /\ Upto(backlog[b][i].ack) \in Nat
                                        /\ Upto(backlog[b][i].seq) \in Nat
    BY <1>2, BacklogPackets
  <2>3. /\ Upto(client[b].seq) \in Nat /\ Upto(client'[b].seq) \in Nat
        /\ Upto(client[b].remote) \in Nat
    BY <1>2, <1>6, TypeFacts, UptoFacts DEF ClientInfo
  <2>4. CASE b # a
    <3>1. backlog'[b] = backlog[b] /\ client'[b].remote = client[b].remote
      BY <1>1, <1>2, <1>6, <2>4, TypeFacts
    <3> QED BY <1>3, <1>6, <2>1, <2>2, <2>3, <3>1 DEF BacklogInStep
  <2>5. CASE b = a
    <3>1. client'[a].remote \in {client[a].remote, p.seq}
      BY <1>6, <2>5
    <3>2. /\ Upto(client[a].remote) < Upto(p.seq) /\ Upto(p.seq) <= Replied(a)
          /\ Upto(client[a].remote) <= Replied(a)
          /\ \A j \in 1 .. Len(backlog[a]) : j > 1 => Upto(p.seq) < Upto(backlog[a][j].seq)
      BY <1>4, <2>1, <2>5 DEF BacklogInStep
    <3>3. Upto(p.seq) \in Nat
      BY <1>4, UptoFacts DEF Packet
    <3>4. Upto(client'[a].remote) <= Replied(a)
      BY <3>1, <3>2
    <3>5. ASSUME NEW i \in 1 .. Len(backlog'[a])
          PROVE  /\ Upto(client'[a].remote) < Upto(backlog'[a][i].seq)
                 /\ Upto(backlog'[a][i].seq) <= Replied(a)
                 /\ Upto(backlog'[a][i].ack) <= Upto(client'[a].seq)
                 /\ \A j \in 1 .. Len(backlog'[a]) : j > i =>
                      Upto(backlog'[a][i].seq) < Upto(backlog'[a][j].seq)
      <4>1. backlog'[a][i] = backlog[a][i + 1] /\ i + 1 \in 1 .. Len(backlog[a]) /\ i + 1 > 1
        BY <1>4, <1>5
      <4>2. /\ Upto(client[a].remote) < Upto(backlog[a][i + 1].seq)
            /\ Upto(backlog[a][i + 1].seq) <= Replied(a)
            /\ Upto(backlog[a][i + 1].ack) <= Upto(client[a].seq)
            /\ \A j \in 1 .. Len(backlog[a]) : j > i + 1 =>
                 Upto(backlog[a][i + 1].seq) < Upto(backlog[a][j].seq)
        BY <2>1, <2>5, <4>1 DEF BacklogInStep
      <4>3. Upto(client'[a].remote) < Upto(backlog[a][i + 1].seq)
        BY <3>1, <3>2, <4>1, <4>2
      <4>4. Upto(backlog[a][i + 1].ack) <= Upto(client'[a].seq)
        BY <1>6, <2>2, <2>3, <2>5, <4>1, <4>2
      <4>5. ASSUME NEW j \in 1 .. Len(backlog'[a]), j > i
            PROVE  Upto(backlog'[a][i].seq) < Upto(backlog'[a][j].seq)
        <5>1. backlog'[a][j] = backlog[a][j + 1] /\ j + 1 \in 1 .. Len(backlog[a])
          BY <1>4, <1>5
        <5>2. j + 1 > i + 1
          BY <4>5, <1>4, <1>5
        <5> QED BY <4>1, <4>2, <5>1, <5>2
      <4> QED BY <4>1, <4>2, <4>3, <4>4, <4>5
    <3> QED BY <1>3, <2>5, <3>4, <3>5 DEF BacklogInStep
  <2> QED BY <2>4, <2>5
<1>7. CASE why = "no" /\ MaySend(a) /\ ClientSend(a, p.seq)
  <2>1. p.seq \in SeqNum
    BY <1>4 DEF Packet
  <2>2. a \notin outlived => Upto(p.seq) <= Replied(a)
    BY <1>4 DEF ServerInv, BacklogInStep
  <2>3. /\ client' = [client EXCEPT ![a] = [seq |-> SeqInc(client[a].seq),
                                            remote |-> p.seq, ended |-> client[a].ended]]
        /\ client' \in [Addr -> ClientInfo]
        /\ Upto(client'[a].seq) = Upto(client[a].seq) + 1
        /\ inbox' \in Seq(InboxPacket) /\ Len(inbox') <= MaxInbox
        /\ Bounded'
        /\ \A b \in Addr \ outlived' : RecordInStep(b)' /\ InboxInStep(b)'
    BY <1>1, <1>7, <2>1, <2>2, SendStep
  <2>4. \A b \in Addr : /\ b # a => client'[b].remote = client[b].remote
                        /\ client'[a].remote = p.seq
                        /\ client'[b].ended = client[b].ended
                        /\ Upto(client[b].seq) <= Upto(client'[b].seq)
    BY <1>2, <2>3, TypeFacts, UptoFacts DEF ClientInfo
  <2>5. \A b \in Addr \ outlived' : BacklogInStep(b)'
    BY <1>6, <1>7, <2>3, <2>4
  <2>6. TypeOK'
    BY <1>1, <1>2, <1>5, <2>3, SameRecords
       DEF TypeOK, registry, ClientInfo, InboxPacket, M!Record
  <2>7. EndsOnlyOnReturn' /\ SilenceMeasured'
    BY <1>1, <1>3, <2>4 DEF ServerInv, EndsOnlyOnReturn, SilenceMeasured, registry
  <2> QED BY <2>3, <2>5, <2>6, <2>7 DEF ServerInv
<1>8. CASE why # "no" /\ client' = [client EXCEPT ![a].ended = why] /\ UNCHANGED inbox
  <2>1. why \in Why \union {"no"}
    BY VerdictType
  <2>2. /\ client' \in [Addr -> ClientInfo]
        /\ \A b \in Addr : /\ client'[b].seq = client[b].seq
                           /\ client'[b].remote = client[b].remote
                           /\ b # a => client'[b].ended = client[b].ended
    BY <1>2, <1>8, <2>1, TypeFacts DEF ClientInfo
  <2>3. Bounded' /\ SilenceMeasured'
    BY <1>1, <1>2, <1>3, <2>2 DEF ServerInv, Bounded, SilenceMeasured, registry
  <2>4. \A b \in Addr \ outlived' : RecordInStep(b)' /\ InboxInStep(b)'
    BY <1>1, <1>3, <1>8, <2>2 DEF ServerInv, RecordInStep, InboxInStep, registry
  <2>5. \A b \in Addr \ outlived' : BacklogInStep(b)'
    <3>1. ASSUME NEW b \in Addr \ outlived' PROVE BacklogInStep(b)'
      <4>1. Upto(client[b].seq) <= Upto(client'[b].seq)
        BY <1>2, <2>2, BoundFacts, <3>1
      <4> QED BY <1>6, <1>8, <2>2, <3>1, <4>1
    <3> QED BY <3>1
  <2>6. TypeOK'
    BY <1>1, <1>2, <1>5, <1>8, <2>2, SameRecords
       DEF TypeOK, registry, ClientInfo, InboxPacket, M!Record
  <2>7. EndsOnlyOnReturn'
    <3>1. (\A b \in Addr : MaxSent[b] < Window /\ MaxReplies[b] < Window) => a \in outlived
      BY <1>1, <1>8, BacklogVerdict DEF p
    <3> QED BY <1>1, <2>2, <3>1 DEF ServerInv, EndsOnlyOnReturn
  <2> QED BY <2>3, <2>4, <2>5, <2>6, <2>7 DEF ServerInv
<1> QED BY <1>7, <1>8 DEF ClientHears, p

\* The server takes a packet from its socket.
LEMMA InboxRead ==
  ASSUME TypeOK, inbox # <<>>, inbox' = Tail(inbox), client' = client,
         NEW b \in Addr, InboxInStep(b), Replied(b)' = Replied(b)
  PROVE  InboxInStep(b)'
<1>1. /\ inbox' \in Seq(InboxPacket) /\ Len(inbox') = Len(inbox) - 1
      /\ \A i \in 1 .. Len(inbox') :
           inbox'[i] = inbox[i + 1] /\ i + 1 \in 1 .. Len(inbox) /\ i + 1 > 1
  BY TypeFacts, TailFacts
<1>2. ASSUME NEW i \in 1 .. Len(inbox'), inbox'[i].from = b
      PROVE  /\ Upto(inbox'[i].packet.seq) \in 1 .. Upto(client[b].seq)
             /\ Upto(inbox'[i].packet.ack) <= Replied(b)
             /\ \A j \in 1 .. Len(inbox') : j > i /\ inbox'[j].from = b =>
                  Upto(inbox'[i].packet.seq) < Upto(inbox'[j].packet.seq)
  <2>1. i + 1 \in 1 .. Len(inbox) /\ inbox'[i] = inbox[i + 1]
    BY <1>1
  <2>2. /\ Upto(inbox[i + 1].packet.seq) \in 1 .. Upto(client[b].seq)
        /\ Upto(inbox[i + 1].packet.ack) <= Replied(b)
        /\ \A j \in 1 .. Len(inbox) : j > i + 1 /\ inbox[j].from = b =>
             Upto(inbox[i + 1].packet.seq) < Upto(inbox[j].packet.seq)
    BY <1>2, <2>1 DEF InboxInStep
  <2>3. ASSUME NEW j \in 1 .. Len(inbox'), j > i, inbox'[j].from = b
        PROVE  Upto(inbox'[i].packet.seq) < Upto(inbox'[j].packet.seq)
    <3>1. inbox'[j] = inbox[j + 1] /\ j + 1 \in 1 .. Len(inbox)
      BY <1>1
    <3>2. j + 1 > i + 1
      BY <1>1, <2>3
    <3> QED BY <2>1, <2>2, <2>3, <3>1, <3>2
  <2> QED BY <2>1, <2>2, <2>3
<1> QED BY <1>2 DEF InboxInStep

\* The server reads a packet of client a, whose record is r: one it had, or the new
\* one, with content c.
LEMMA ReadRecord ==
  ASSUME ServerInv, InUseFacts, M!RegistryInv', M!TypeOK', InUseFacts',
         NEW a \in Addr, Reads(a), NEW r \in M!Record, NEW c \in Info,
         Handle(a, r, c, Head(inbox).packet),
         M!InUse' = M!InUse \union {r}, addr' = [addr EXCEPT ![r] = a],
         \A s \in M!InUse : addr[s] = a <=> s = r,
         Upto(c.seq) = Replied(a),
         a \notin outlived =>
           /\ Upto(c.remote) <= Upto(client[a].seq)
           /\ \A i \in 1 .. Len(inbox) : inbox[i].from = a =>
                Upto(c.remote) < Upto(inbox[i].packet.seq)
  PROVE  ServerInv'
<1>1. /\ fault = Null /\ inbox # <<>> /\ a = Head(inbox).from /\ inbox' = Tail(inbox)
      /\ read' = TRUE /\ since' = [since EXCEPT ![a] = 0]
      /\ UNCHANGED <<client, backlog, outlived>>
  BY DEF Reads, Polling
<1>2. TypeOK /\ Bounded
  BY DEF ServerInv
<1>3. /\ Head(inbox) = inbox[1] /\ Head(inbox) \in InboxPacket /\ 1 \in 1 .. Len(inbox)
      /\ inbox' \in Seq(InboxPacket) /\ Len(inbox') = Len(inbox) - 1
      /\ \A i \in 1 .. Len(inbox') :
           inbox'[i] = inbox[i + 1] /\ i + 1 \in 1 .. Len(inbox) /\ i + 1 > 1
  BY <1>1, <1>2, TypeFacts, TailFacts
<1>4. PICK p \in Packet : p = Head(inbox).packet /\ p = inbox[1].packet /\ inbox[1].from = a
  BY <1>1, <1>3 DEF InboxPacket
<1>5. Upto(p.seq) \in Nat /\ Upto(p.ack) \in Nat /\ Upto(c.remote) \in Nat
      /\ Upto(c.seq) \in Nat /\ p.seq \in SeqNum
  BY UptoFacts DEF Packet, Info
<1>6. PICK d \in Info : Handled(a, r, c, p, d)
  <2>1. Handle(a, r, c, p)
    BY <1>4 DEF Handle
  <2> QED BY <1>4, <2>1, HandleFacts
<1> USE DEF Handled
<1>7. /\ info' \in [M!Record -> Info] /\ info'[r] = d
      /\ \A s \in M!Record : s # r => info'[s] = info[s] /\ addr'[s] = addr[s]
      /\ addr'[r] = a
  BY <1>2, <1>6, TypeFacts DEF InUseFacts
<1>8. \A b \in Addr : Replied(b)' = Replied(b)
  <2>1. Replied(a)' = Replied(a)
    BY <1>6, <1>7 DEF InUseFacts
  <2>2. ASSUME NEW b \in Addr, b # a PROVE Replied(b)' = Replied(b)
    <3>1. CASE \E s \in M!InUse : addr[s] = b
      <4>1. PICK s \in M!InUse : addr[s] = b
        BY <3>1
      <4>2. s \in M!InUse' /\ addr'[s] = b /\ info'[s] = info[s]
        BY <1>7, <2>2, <4>1 DEF InUseFacts
      <4> QED BY <4>1, <4>2 DEF InUseFacts
    <3>2. CASE \A s \in M!InUse : addr[s] # b
      <4>1. \A s \in M!InUse' : addr'[s] # b
        BY <1>7, <2>2, <3>2 DEF InUseFacts
      <4> QED BY <3>2, <4>1 DEF InUseFacts
    <3> QED BY <3>1, <3>2
  <2> QED BY <2>1, <2>2
<1>9. fault' = Null => fault' = fault /\ d.silence = 0
  BY <1>1, <1>2, <1>6, VerdictType, ServerAssumption
<1>10. fault' \in [why : Why \union {"full"}, by : Addr] \union {Null}
  BY <1>1, <1>6, VerdictType
<1>11. Len(inbox') <= MaxInbox
  BY <1>2, <1>3, TypeFacts
<1>12. TypeOK'
  <2>1. since' \in [Addr -> 0 .. Timeout + 1]
    BY <1>1, <1>2, TypeFacts
  <2>2. (M!Record)' = M!Record
    BY DEF M!Record
  <2> QED BY <1>1, <1>2, <1>3, <1>7, <1>10, <1>11, <2>1, <2>2
             DEF TypeOK, Info, InboxPacket
<1>13. Bounded'
  <2>1. Upto(d.seq) <= MaxReplies[a]
    BY <1>2, <1>6, BoundFacts
  <2>2. \A s \in M!InUse : s # r => Upto(info'[s].seq) <= MaxReplies[addr'[s]]
    BY <1>2, <1>7 DEF Bounded, InUseFacts
  <2> QED BY <1>1, <1>2, <1>7, <2>1, <2>2 DEF Bounded
<1>14. ASSUME NEW b \in Addr \ outlived' PROVE RecordInStep(b)'
  <2>1. RecordInStep(b) /\ InboxInStep(b)
    BY <1>1, <1>14 DEF ServerInv
  <2>2. ASSUME NEW s \in M!InUse', addr'[s] = b
        PROVE  /\ Upto(info'[s].remote) <= Upto(client[b].seq)
               /\ \A i \in 1 .. Len(inbox') : inbox'[i].from = b =>
                    Upto(info'[s].remote) < Upto(inbox'[i].packet.seq)
    <3>1. CASE s # r
      <4>1. s \in M!InUse /\ addr[s] = b /\ info'[s] = info[s]
        BY <1>7, <2>2, <3>1 DEF InUseFacts
      <4> QED BY <1>3, <2>1, <4>1 DEF RecordInStep
    <3>2. CASE s = r
      <4>1. b = a /\ info'[s] = d
        BY <1>7, <2>2, <3>2
      <4>2. /\ Upto(p.seq) <= Upto(client[a].seq)
            /\ \A i \in 1 .. Len(inbox) : i > 1 /\ inbox[i].from = a =>
                 Upto(p.seq) < Upto(inbox[i].packet.seq)
        BY <1>3, <1>4, <2>1, <4>1 DEF InboxInStep
      <4>3. Upto(d.remote) <= Upto(client[a].seq)
        BY <1>1, <1>6, <1>14, <4>1, <4>2
      <4>4. \A i \in 1 .. Len(inbox') : inbox'[i].from = a =>
              Upto(d.remote) < Upto(inbox'[i].packet.seq)
        BY <1>1, <1>3, <1>6, <1>14, <4>1, <4>2
      <4> QED BY <4>1, <4>3, <4>4
    <3> QED BY <3>1, <3>2
  <2> QED BY <1>1, <2>2 DEF RecordInStep
<1>15. ASSUME NEW b \in Addr \ outlived' PROVE InboxInStep(b)'
  BY <1>1, <1>2, <1>8, <1>15, InboxRead DEF ServerInv
<1>16. ASSUME NEW b \in Addr \ outlived' PROVE BacklogInStep(b)'
  <2>1. BacklogInStep(b) /\ Replied(b)' = Replied(b) /\ client' = client
          /\ backlog' = backlog
    BY <1>1, <1>8, <1>16 DEF ServerInv
  <2> QED BY <2>1 DEF BacklogInStep
<1>17. EndsOnlyOnReturn'
  <2>1. ASSUME \A b \in Addr : MaxSent[b] < Window /\ MaxReplies[b] < Window,
               a \notin outlived
        PROVE  fault' = fault
    <3>1. /\ Upto(p.ack) <= Upto(c.seq) /\ Upto(c.remote) < Upto(p.seq)
          /\ Upto(p.seq) <= Upto(client[a].seq)
      <4>1. InboxInStep(a)
        BY <2>1 DEF ServerInv
      <4> QED BY <1>3, <1>4, <2>1, <4>1 DEF InboxInStep
    <3>2. /\ Replied(a) \in Nat /\ Replied(a) <= MaxReplies[a] /\ MaxReplies[a] <= Half
          /\ Upto(client[a].seq) \in Nat /\ Upto(client[a].seq) <= MaxSent[a]
          /\ MaxSent[a] <= Half /\ MaxSent[a] \in Nat /\ MaxReplies[a] \in Nat
          /\ Half \in Nat
      BY <1>2, BoundFacts
    <3>3. Upto(c.seq) <= Half /\ Upto(p.seq) <= Half /\ Upto(p.seq) < Window
      BY <1>5, <2>1, <3>1, <3>2, RingFacts
    <3>4. c.seq \in SeqNum /\ c.remote \in SeqNum
      BY DEF Info
    <3>5. \A ignored \in BOOLEAN : Verdict(c, p, ignored) = "no"
      BY <1>4, <3>1, <3>3, <3>4, VerdictInStep
    <3> QED BY <1>6, <3>5
  <2>2. fault' # Null => fault' = fault \/ fault'.by = a
    BY <1>6
  <2> QED BY <1>1, <2>1, <2>2 DEF ServerInv, EndsOnlyOnReturn
<1>18. SilenceMeasured'
  <2>1. ASSUME fault' = Null, NEW s \in M!InUse'
        PROVE  info'[s].silence <= since'[addr'[s]]
    <3>1. CASE s = r
      BY <1>1, <1>2, <1>7, <1>9, <2>1, <3>1, TypeFacts
    <3>2. CASE s # r
      <4>1. /\ s \in M!InUse /\ info'[s] = info[s] /\ addr'[s] = addr[s]
            /\ addr[s] # a /\ addr[s] \in Addr
        BY <1>7, <2>1, <3>2 DEF InUseFacts
      <4>2. since'[addr[s]] = since[addr[s]]
        BY <1>1, <1>2, <4>1, TypeFacts
      <4> QED BY <1>1, <4>1, <4>2 DEF ServerInv, SilenceMeasured
    <3> QED BY <3>1, <3>2
  <2> QED BY <2>1 DEF SilenceMeasured
<1> QED BY <1>12, <1>13, <1>14, <1>15, <1>16, <1>17, <1>18 DEF ServerInv

\* The server reads a packet of a client that it knows.
LEMMA ReadKnownStep ==
  ASSUME ServerInv, InUseFacts, M!RegistryInv', M!TypeOK', InUseFacts',
         NEW a \in Addr, ReadKnown(a)
  PROVE  ServerInv'
<1>1. PICK r \in M!Found(a) : Handle(a, r, info[r], Head(inbox).packet)
  BY DEF ReadKnown
<1>2. r \in M!InUse /\ addr[r] = a
  BY FoundRecords DEF ServerInv
<1>3. r \in M!Record /\ info[r] \in Info
  BY <1>2, TypeFacts DEF ServerInv, InUseFacts
<1>4. Reads(a) /\ UNCHANGED <<addr, entries, count>>
  BY DEF ReadKnown, registry
<1>5. M!InUse' = M!InUse \union {r} /\ addr' = [addr EXCEPT ![r] = a]
  BY <1>2, <1>3, <1>4, SameRecords DEF InUseFacts
<1>6. \A s \in M!InUse : addr[s] = a <=> s = r
  BY <1>2 DEF InUseFacts
<1>7. Upto(info[r].seq) = Replied(a)
  BY <1>2 DEF InUseFacts
<1>8. a \notin outlived =>
        /\ Upto(info[r].remote) <= Upto(client[a].seq)
        /\ \A i \in 1 .. Len(inbox) : inbox[i].from = a =>
             Upto(info[r].remote) < Upto(inbox[i].packet.seq)
  BY <1>2 DEF ServerInv, RecordInStep
<1> QED BY <1>1, <1>3, <1>4, <1>5, <1>6, <1>7, <1>8, ReadRecord

\* The server reads a packet of a client that has no record, and gives it one.
LEMMA ReadNewStep ==
  ASSUME ServerInv, InUseFacts, M!RegistryInv', M!TypeOK', InUseFacts',
         NEW a \in Addr, ReadNew(a)
  PROVE  ServerInv'
<1> DEFINE c == [seq |-> UINT_MAX, remote |-> UINT_MAX, silence |-> 0]
<1>0. PICK r : r = NextRecord
  OBVIOUS
<1>1. /\ r \in M!Record \ M!InUse /\ addr' = [addr EXCEPT ![r] = a]
      /\ M!InUse' = M!InUse \union {r} /\ \A s \in M!InUse : addr[s] # a
  BY <1>0, NewClient DEF ServerInv, ReadNew
<1>2. Reads(a) /\ Handle(a, r, Fresh(r), Head(inbox).packet)
  BY <1>0 DEF ReadNew
<1>3. info[r] \in Info /\ c \in Info
  BY <1>1, TypeFacts, UptoFacts, ServerAssumption DEF ServerInv, Info
<1>4. Fresh(r) = c
  BY <1>3, FreshFacts
<1>5. Replied(a) = 0
  BY <1>1 DEF InUseFacts
<1>6. a \notin outlived =>
        \A i \in 1 .. Len(inbox) : inbox[i].from = a => 0 < Upto(inbox[i].packet.seq)
  <2>1. ASSUME a \notin outlived, NEW i \in 1 .. Len(inbox), inbox[i].from = a
        PROVE  0 < Upto(inbox[i].packet.seq)
    <3>1. Upto(inbox[i].packet.seq) \in 1 .. Upto(client[a].seq)
      BY <2>1 DEF ServerInv, InboxInStep
    <3>2. Upto(client[a].seq) \in Nat
      BY BoundFacts DEF ServerInv
    <3> QED BY <3>1, <3>2
  <2> QED BY <2>1
<1>7. Upto(c.seq) = 0 /\ Upto(c.remote) = 0
  BY UptoFacts
<1>8. Handle(a, r, c, Head(inbox).packet)
  BY <1>2, <1>4
<1>9. \A s \in M!InUse : addr[s] = a <=> s = r
  BY <1>1
<1>10. Upto(client[a].seq) \in Nat
  BY BoundFacts DEF ServerInv
<1> HIDE DEF c
<1>11. Upto(c.seq) = Replied(a)
  BY <1>5, <1>7
<1>12. a \notin outlived =>
         /\ Upto(c.remote) <= Upto(client[a].seq)
         /\ \A i \in 1 .. Len(inbox) : inbox[i].from = a =>
              Upto(c.remote) < Upto(inbox[i].packet.seq)
  BY <1>6, <1>7, <1>10
<1> QED BY <1>1, <1>2, <1>3, <1>8, <1>9, <1>11, <1>12, ReadRecord

\* The server reads a packet of a new client and has no record for it: it ends.
LEMMA ReadFullStep ==
  ASSUME ServerInv, InUseFacts, M!RegistryInv', M!TypeOK', NEW a \in Addr, ReadFull(a)
  PROVE  ServerInv'
<1>1. /\ fault' = [why |-> "full", by |-> a] /\ inbox # <<>> /\ inbox' = Tail(inbox)
      /\ read' = TRUE /\ since' = [since EXCEPT ![a] = 0]
      /\ UNCHANGED <<client, backlog, outlived, info, addr, entries, count>>
  BY DEF ReadFull, Reads, M!ClientFull
<1>2. TypeOK /\ Bounded
  BY DEF ServerInv
<1>3. /\ inbox' \in Seq(InboxPacket) /\ Len(inbox') = Len(inbox) - 1
      /\ \A i \in 1 .. Len(inbox') :
           inbox'[i] = inbox[i + 1] /\ i + 1 \in 1 .. Len(inbox) /\ i + 1 > 1
  BY <1>1, <1>2, TypeFacts, TailFacts
<1>4. M!InUse' = M!InUse /\ \A b : Replied(b)' = Replied(b)
  BY <1>1, SameRecords, SameReplied
<1>5. fault' # Null /\ fault'.why = "full"
        /\ fault' \in [why : Why \union {"full"}, by : Addr] \union {Null}
  BY <1>1, ServerAssumption
<1>6. TypeOK'
  <2>1. since' \in [Addr -> 0 .. Timeout + 1] /\ Len(inbox') <= MaxInbox
    BY <1>1, <1>2, <1>3, TypeFacts
  <2>2. (M!Record)' = M!Record
    BY DEF M!Record
  <2> QED BY <1>1, <1>2, <1>3, <1>5, <2>1, <2>2 DEF TypeOK, InboxPacket
<1>7. Bounded'
  BY <1>1, <1>2, <1>4 DEF Bounded
<1>8. ASSUME NEW b \in Addr \ outlived' PROVE RecordInStep(b)'
  <2>1. RecordInStep(b)
    BY <1>1, <1>8 DEF ServerInv
  <2> QED BY <1>1, <1>3, <1>4, <2>1 DEF RecordInStep
<1>9. ASSUME NEW b \in Addr \ outlived' PROVE InboxInStep(b)'
  BY <1>1, <1>2, <1>4, <1>9, InboxRead DEF ServerInv
<1>10. ASSUME NEW b \in Addr \ outlived' PROVE BacklogInStep(b)'
  <2>1. BacklogInStep(b)
    BY <1>1, <1>10 DEF ServerInv
  <2> QED BY <1>1, <1>4, <2>1 DEF BacklogInStep
<1>11. EndsOnlyOnReturn' /\ SilenceMeasured'
  BY <1>1, <1>5 DEF ServerInv, EndsOnlyOnReturn, SilenceMeasured
<1> QED BY <1>6, <1>7, <1>8, <1>9, <1>10, <1>11 DEF ServerInv

\* A client whose record stays, with its number, is sent nothing.
LEMMA RepliedStays ==
  ASSUME InUseFacts, InUseFacts', NEW b \in Addr,
         \A s \in M!InUse : addr[s] = b =>
           s \in M!InUse' /\ addr'[s] = b /\ info'[s].seq = info[s].seq,
         \A s \in M!InUse' : addr'[s] = b => s \in M!InUse /\ addr[s] = b
  PROVE  Replied(b)' = Replied(b)
<1>1. CASE \E s \in M!InUse : addr[s] = b
  <2>1. PICK s \in M!InUse : addr[s] = b
    BY <1>1
  <2> QED BY <2>1 DEF InUseFacts
<1>2. CASE \A s \in M!InUse : addr[s] # b
  BY <1>2 DEF InUseFacts
<1> QED BY <1>1, <1>2

\* The sweep sends a packet from record r to a, or none: what changes, and what a
\* finds in its socket.
Changed(r, a) ==
  /\ info' \in [M!Record -> Info] /\ backlog' \in [Addr -> Seq(Packet)]
  /\ \A s \in M!Record : /\ s # r => info'[s] = info[s]
                         /\ info'[s].remote = info[s].remote
                         /\ info'[s].silence = info[s].silence
  /\ \A b \in Addr : b # a => backlog'[b] = backlog[b]
  /\ Upto(info'[r].seq) \in Nat /\ Upto(info'[r].seq) <= MaxReplies[a]
  /\ Upto(info[r].seq) <= Upto(info'[r].seq)

InOrderFor(r, a) ==
  \A i \in 1 .. Len(backlog'[a]) :
    /\ Upto(client[a].remote) < Upto(backlog'[a][i].seq)
    /\ Upto(backlog'[a][i].seq) <= Upto(info'[r].seq)
    /\ Upto(backlog'[a][i].ack) <= Upto(client[a].seq)
    /\ \A j \in 1 .. Len(backlog'[a]) : j > i =>
         Upto(backlog'[a][i].seq) < Upto(backlog'[a][j].seq)

LEMMA SendRecord ==
  ASSUME TypeOK, Bounded, InUseFacts,
         NEW r \in M!InUse, NEW a \in Addr, addr[r] = a, SendDue(r, a)
  PROVE  /\ Changed(r, a)
         /\ BacklogInStep(a) /\ RecordInStep(a) => InOrderFor(r, a)
<1>1. /\ r \in M!Record /\ info \in [M!Record -> Info] /\ backlog \in [Addr -> Seq(Packet)]
      /\ MaxBacklog \in Nat
  BY TypeFacts DEF InUseFacts
<1>2. /\ info[r] \in Info /\ info[r].seq \in SeqNum /\ info[r].remote \in SeqNum
      /\ info[r].silence \in 0 .. Timeout + 1
  BY <1>1 DEF Info
<1>3. /\ Replied(a) = Upto(info[r].seq) /\ Replied(a) \in Nat
      /\ Replied(a) <= MaxReplies[a]
  BY BoundFacts DEF InUseFacts
<1>4. ASSUME info' = info, backlog' = backlog
      PROVE  Changed(r, a) /\ (BacklogInStep(a) => InOrderFor(r, a))
  <2>1. Changed(r, a)
    BY <1>1, <1>3, <1>4 DEF Changed
  <2>2. BacklogInStep(a) => InOrderFor(r, a)
    BY <1>3, <1>4 DEF BacklogInStep, InOrderFor
  <2> QED BY <2>1, <2>2
<1>5. ASSUME NEW b \in Seq(Packet), NEW p \in Packet, SentTo(r, a, b, p)
      PROVE  Changed(r, a) /\ (BacklogInStep(a) /\ RecordInStep(a) => InOrderFor(r, a))
  <2> USE <1>5 DEF SentTo
  <2>1. p.seq \in SeqNum /\ MaxReplies[a] \in 1 .. Half
    BY ServerAssumption DEF Packet
  <2>2. /\ Upto(p.seq) = Upto(info[r].seq) + 1 /\ Upto(p.seq) <= MaxReplies[a]
        /\ Upto(info[r].seq) \in Nat
    BY <1>2, <1>5, <2>1, UptoNext, UptoFacts
  <2>3. info' \in [M!Record -> Info] /\ info'[r].seq = p.seq
    BY <1>1, <1>2, <1>5, <2>1 DEF Info
  <2>4. \A s \in M!Record : /\ s # r => info'[s] = info[s]
                            /\ info'[s].remote = info[s].remote
                            /\ info'[s].silence = info[s].silence
    BY <1>1, <1>5
  <2>5. /\ backlog' \in [Addr -> Seq(Packet)] /\ backlog'[a] = b
        /\ \A c \in Addr : c # a => backlog'[c] = backlog[c]
    BY <1>1, <1>5
  <2>6. /\ backlog[a] \in Seq(Packet)
        /\ \A i \in 1 .. Len(backlog[a]) : b[i] = backlog[a][i]
        /\ \A i \in 1 .. Len(b) :
             i \in 1 .. Len(backlog[a]) \/ (i = Len(backlog[a]) + 1 /\ b[i] = p)
    BY <1>1, <1>5, AfterFacts
  <2>7. ASSUME BacklogInStep(a), RecordInStep(a),
               NEW i \in 1 .. Len(b)
        PROVE  /\ Upto(client[a].remote) < Upto(b[i].seq)
               /\ Upto(b[i].seq) <= Upto(info'[r].seq)
               /\ Upto(b[i].ack) <= Upto(client[a].seq)
               /\ \A j \in 1 .. Len(b) : j > i => Upto(b[i].seq) < Upto(b[j].seq)
    <3>1. /\ Upto(client[a].remote) <= Upto(info[r].seq) /\ Upto(client[a].remote) \in Nat
          /\ Upto(p.ack) <= Upto(client[a].seq)
      BY <1>3, <1>5, <2>7, BoundFacts DEF BacklogInStep, RecordInStep
    <3>2. \A j \in 1 .. Len(backlog[a]) :
            /\ Upto(client[a].remote) < Upto(b[j].seq)
            /\ Upto(b[j].seq) <= Upto(info[r].seq)
            /\ Upto(b[j].seq) \in Nat
            /\ Upto(b[j].ack) <= Upto(client[a].seq)
            /\ \A k \in 1 .. Len(backlog[a]) : k > j => Upto(b[j].seq) < Upto(b[k].seq)
      BY <1>3, <2>6, <2>7, BacklogPackets DEF BacklogInStep
    <3>3. CASE i \in 1 .. Len(backlog[a])
      <4>1. ASSUME NEW j \in 1 .. Len(b), j > i PROVE Upto(b[i].seq) < Upto(b[j].seq)
        <5>1. CASE j \in 1 .. Len(backlog[a])
          BY <3>2, <3>3, <4>1, <5>1
        <5>2. CASE b[j] = p
          BY <2>2, <3>2, <3>3, <5>2
        <5> QED BY <2>6, <5>1, <5>2
      <4> QED BY <2>2, <2>3, <3>2, <3>3, <4>1
    <3>4. CASE i = Len(backlog[a]) + 1 /\ b[i] = p
      <4>1. Len(backlog[a]) \in Nat /\ Len(b) \in Nat
        BY <2>6
      <4>2. \A j \in 1 .. Len(b) : j <= i
        BY <2>6, <3>4, <4>1
      <4> QED BY <2>2, <2>3, <3>1, <3>4, <4>2
    <3> QED BY <2>6, <3>3, <3>4
  <2>8. Changed(r, a)
    BY <2>2, <2>3, <2>4, <2>5 DEF Changed
  <2>9. BacklogInStep(a) /\ RecordInStep(a) => InOrderFor(r, a)
    BY <2>5, <2>7 DEF InOrderFor
  <2> QED BY <2>8, <2>9
<1>6. \/ info' = info /\ backlog' = backlog
      \/ \E b \in Seq(Packet), p \in Packet : SentTo(r, a, b, p)
  BY <1>1, SendFacts
<1> QED BY <1>4, <1>5, <1>6

\* A sweep begins: only the registry changes, and in it neither a record nor entries.
LEMMA BeginSweepStep ==
  ASSUME ServerInv, InUseFacts, M!RegistryInv', M!TypeOK', BeginSweep
  PROVE  ServerInv'
<1>1. UNCHANGED <<addr, entries, count, info, read, fault, inbox, client, backlog,
                  since, outlived>>
  BY DEF BeginSweep, M!BeginSweep
<1>2. M!InUse' = M!InUse /\ (M!Record)' = M!Record /\ \A b : Replied(b)' = Replied(b)
  BY <1>1, SameRecords, SameReplied DEF M!Record
<1>3. TypeOK'
  BY <1>1, <1>2 DEF ServerInv, TypeOK
<1>4. Bounded'
  BY <1>1, <1>2 DEF ServerInv, Bounded
<1>5. ASSUME NEW b \in Addr \ outlived'
      PROVE  RecordInStep(b)' /\ InboxInStep(b)' /\ BacklogInStep(b)'
  <2>1. RecordInStep(b) /\ InboxInStep(b) /\ BacklogInStep(b)
    BY <1>1, <1>5 DEF ServerInv
  <2>2. RecordInStep(b)'
    BY <1>1, <1>2, <2>1 DEF RecordInStep
  <2>3. InboxInStep(b)'
    BY <1>1, <1>2, <2>1 DEF InboxInStep
  <2>4. BacklogInStep(b)'
    BY <1>1, <1>2, <2>1 DEF BacklogInStep
  <2> QED BY <2>2, <2>3, <2>4
<1>6. EndsOnlyOnReturn' /\ SilenceMeasured'
  BY <1>1, <1>2 DEF ServerInv, EndsOnlyOnReturn, SilenceMeasured
<1> QED BY <1>3, <1>4, <1>5, <1>6 DEF ServerInv

\* The client of an entry of the sweep is sent what is due.
LEMMA KeepStep ==
  ASSUME ServerInv, InUseFacts, M!RegistryInv', M!TypeOK', InUseFacts', SweepKeep
  PROVE  ServerInv'
<1>1. PICK r : r = entries[sweep]
  OBVIOUS
<1>2. r \in M!InUse
  <2>1. sweep # Null /\ sweep < count /\ sweep \in (0 .. BucketCount) \union {Null}
          /\ count \in 0 .. BucketCount
    BY DEF SweepKeep, ServerInv, M!RegistryInv, M!TypeOK
  <2> QED BY <1>1, <2>1, ServerAssumption DEF M!InUse
<1>3. PICK a \in Addr : a = addr[r]
  BY <1>2 DEF InUseFacts
<1>4. /\ SendDue(r, a)
      /\ UNCHANGED <<addr, entries, count, read, fault, inbox, client, since, outlived>>
  BY <1>1, <1>3 DEF SweepKeep, M!SweepKeep
<1>5. TypeOK /\ Bounded
  BY DEF ServerInv
<1>6. Changed(r, a) /\ (BacklogInStep(a) /\ RecordInStep(a) => InOrderFor(r, a))
  BY <1>2, <1>3, <1>4, <1>5, SendRecord
<1>7. M!InUse' = M!InUse /\ (M!Record)' = M!Record
  BY <1>4, SameRecords DEF M!Record
<1>8. Replied(a) = Upto(info[r].seq) /\ Replied(a)' = Upto(info'[r].seq)
  BY <1>2, <1>3, <1>4, <1>7 DEF InUseFacts
<1>9. ASSUME NEW b \in Addr, b # a PROVE Replied(b)' = Replied(b)
  <2>1. \A s \in M!InUse : addr[s] = b => s # r /\ info'[s] = info[s]
    BY <1>3, <1>6, <1>9 DEF Changed, InUseFacts
  <2> QED BY <1>4, <1>7, <2>1, RepliedStays
<1>10. TypeOK'
  BY <1>4, <1>5, <1>6, <1>7 DEF TypeOK, Changed, Info
<1>11. Bounded'
  BY <1>2, <1>3, <1>4, <1>5, <1>6, <1>7 DEF Bounded, Changed, InUseFacts
<1>12. ASSUME NEW b \in Addr \ outlived'
       PROVE  RecordInStep(b)' /\ InboxInStep(b)' /\ BacklogInStep(b)'
  <2>1. RecordInStep(b) /\ InboxInStep(b) /\ BacklogInStep(b)
    BY <1>4, <1>12 DEF ServerInv
  <2>2. RecordInStep(b)'
    BY <1>4, <1>6, <1>7, <2>1 DEF RecordInStep, Changed, InUseFacts
  <2>3. Replied(b) <= Replied(b)' /\ Replied(b) \in Nat /\ Replied(b)' \in Nat
    <3>1. Replied(b) \in Nat
      BY <1>5, <1>12, BoundFacts
    <3>2. CASE b = a
      BY <1>6, <1>8, <3>1, <3>2 DEF Changed
    <3>3. CASE b # a
      BY <1>9, <3>1, <3>3
    <3> QED BY <3>2, <3>3
  <2>4. InboxInStep(b)'
    <3>1. \A i \in 1 .. Len(inbox) : Upto(inbox[i].packet.ack) \in Nat
      <4>1. \A i \in 1 .. Len(inbox) : inbox[i] \in InboxPacket
        BY <1>5, TypeFacts
      <4> QED BY <4>1, UptoFacts DEF InboxPacket, Packet
    <3> QED BY <1>4, <2>1, <2>3, <3>1 DEF InboxInStep
  <2>5. BacklogInStep(b)'
    <3>1. CASE b = a
      <4>1. Upto(client[a].remote) \in Nat
        BY <1>5, BoundFacts
      <4>2. InOrderFor(r, a) /\ Upto(client[a].remote) <= Replied(a)'
        BY <1>6, <2>1, <2>3, <3>1, <4>1 DEF BacklogInStep
      <4> QED BY <1>4, <1>8, <3>1, <4>2 DEF InOrderFor, BacklogInStep
    <3>2. CASE b # a
      <4>1. backlog'[b] = backlog[b] /\ Replied(b)' = Replied(b)
        BY <1>6, <1>9, <3>2 DEF Changed
      <4> QED BY <1>4, <2>1, <4>1 DEF BacklogInStep
    <3> QED BY <3>1, <3>2
  <2> QED BY <2>2, <2>4, <2>5
<1>13. EndsOnlyOnReturn'
  BY <1>4 DEF ServerInv, EndsOnlyOnReturn
<1>14. SilenceMeasured'
  BY <1>4, <1>6, <1>7 DEF ServerInv, SilenceMeasured, Changed, InUseFacts
<1> QED BY <1>10, <1>11, <1>12, <1>13, <1>14 DEF ServerInv

\* The client of an entry of the sweep is removed; what is due is still sent to it.
LEMMA RemoveStep ==
  ASSUME ServerInv, InUseFacts, M!RegistryInv', M!TypeOK', InUseFacts', SweepRemove
  PROVE  ServerInv'
<1>1. PICK r : r = entries[sweep]
  OBVIOUS
<1>2. r \in M!InUse /\ addr' = [addr EXCEPT ![r] = Null] /\ M!InUse' = M!InUse \ {r}
  BY <1>1, ClientGone DEF ServerInv, SweepRemove
<1>3. PICK a \in Addr : a = addr[r]
  BY <1>2 DEF InUseFacts
<1>4. /\ SendDue(r, a) /\ outlived' = outlived \union {a}
      /\ since' = [since EXCEPT ![a] = 0]
      /\ UNCHANGED <<read, fault, inbox, client>>
  BY <1>1, <1>3 DEF SweepRemove
<1>5. TypeOK /\ Bounded
  BY DEF ServerInv
<1>6. Changed(r, a)
  BY <1>2, <1>3, <1>4, <1>5, SendRecord
<1>7. \A s \in M!InUse' : /\ s \in M!InUse /\ s \in M!Record /\ s # r
                          /\ addr'[s] = addr[s] /\ addr[s] # a /\ addr[s] \in Addr
                          /\ info'[s] = info[s]
  BY <1>2, <1>3, <1>6 DEF Changed, InUseFacts
<1>8. ASSUME NEW b \in Addr, b # a PROVE Replied(b)' = Replied(b)
  <2>1. \A s \in M!InUse : addr[s] = b => s \in M!InUse'
    BY <1>2, <1>3, <1>8
  <2> QED BY <1>7, <2>1, RepliedStays
<1>9. TypeOK'
  <2>1. since' \in [Addr -> 0 .. Timeout + 1]
    BY <1>4, <1>5, TypeFacts
  <2>2. (M!Record)' = M!Record
    BY DEF M!Record
  <2> QED BY <1>4, <1>5, <1>6, <2>1, <2>2 DEF TypeOK, Changed, Info
<1>10. Bounded'
  BY <1>4, <1>5, <1>7 DEF Bounded
<1>11. ASSUME NEW b \in Addr \ outlived'
       PROVE  RecordInStep(b)' /\ InboxInStep(b)' /\ BacklogInStep(b)'
  <2>1. RecordInStep(b) /\ InboxInStep(b) /\ BacklogInStep(b) /\ b # a
    BY <1>4, <1>11 DEF ServerInv
  <2>2. Replied(b)' = Replied(b) /\ backlog'[b] = backlog[b]
    BY <1>6, <1>8, <2>1 DEF Changed
  <2>3. RecordInStep(b)'
    BY <1>4, <1>7, <2>1 DEF RecordInStep
  <2>4. InboxInStep(b)'
    BY <1>4, <2>1, <2>2 DEF InboxInStep
  <2>5. BacklogInStep(b)'
    BY <1>4, <2>1, <2>2 DEF BacklogInStep
  <2> QED BY <2>3, <2>4, <2>5
<1>12. EndsOnlyOnReturn'
  BY <1>4 DEF ServerInv, EndsOnlyOnReturn
<1>13. SilenceMeasured'
  BY <1>4, <1>5, <1>7, TypeFacts DEF ServerInv, SilenceMeasured
<1> QED BY <1>9, <1>10, <1>11, <1>12, <1>13 DEF ServerInv

\* The frame ends: every record and every known client gets older.
LEMMA EndSweepStep ==
  ASSUME ServerInv, InUseFacts, M!RegistryInv', M!TypeOK', InUseFacts', EndSweep
  PROVE  ServerInv'
<1>1. /\ info' = [r \in M!Record |-> IF r \in M!InUse
                                     THEN [info[r] EXCEPT !.silence = Aged(@)] ELSE info[r]]
      /\ since' = [a \in Addr |-> IF a \in Known THEN Aged(since[a]) ELSE 0]
      /\ read' = FALSE
      /\ UNCHANGED <<addr, entries, count, fault, inbox, client, backlog, outlived>>
  BY DEF EndSweep, M!EndSweep
<1>2. TypeOK /\ Bounded
  BY DEF ServerInv
<1>3. M!InUse' = M!InUse /\ (M!Record)' = M!Record
  BY <1>1, SameRecords DEF M!Record
<1>4. Timeout \in Nat /\ \A n \in 0 .. Timeout + 1 : Aged(n) \in 0 .. Timeout + 1
  BY <1>2, TypeFacts DEF Aged
<1>5. ASSUME NEW r \in M!Record
      PROVE  /\ info'[r] \in Info
             /\ info'[r].seq = info[r].seq /\ info'[r].remote = info[r].remote
             /\ r \in M!InUse => info'[r].silence = Aged(info[r].silence)
  <2>1. PICK c \in Info : c = info[r]
    BY <1>2, TypeFacts
  <2>2. [c EXCEPT !.silence = Aged(@)]
          = [seq |-> c.seq, remote |-> c.remote, silence |-> Aged(c.silence)]
    BY DEF Info
  <2>3. info'[r] = IF r \in M!InUse THEN [c EXCEPT !.silence = Aged(@)] ELSE c
    BY <1>1, <2>1
  <2> HIDE DEF Aged
  <2> QED BY <1>4, <2>1, <2>2, <2>3 DEF Info
<1>6. info' \in [M!Record -> Info]
  BY <1>1, <1>5
<1>7. \A b \in Addr : Replied(b)' = Replied(b)
  BY <1>1, <1>3, <1>5, RepliedStays DEF InUseFacts
<1>8. TypeOK'
  <2>1. since' \in [Addr -> 0 .. Timeout + 1]
    BY <1>1, <1>2, <1>4, TypeFacts
  <2> QED BY <1>1, <1>2, <1>3, <1>6, <2>1 DEF TypeOK, Info
<1>9. Bounded'
  BY <1>1, <1>2, <1>3, <1>5 DEF Bounded, InUseFacts
<1>10. ASSUME NEW b \in Addr \ outlived'
       PROVE  RecordInStep(b)' /\ InboxInStep(b)' /\ BacklogInStep(b)'
  <2>1. RecordInStep(b) /\ InboxInStep(b) /\ BacklogInStep(b)
    BY <1>1, <1>10 DEF ServerInv
  <2>2. Replied(b)' = Replied(b)
    BY <1>7, <1>10
  <2>3. RecordInStep(b)'
    BY <1>1, <1>3, <1>5, <2>1 DEF RecordInStep, InUseFacts
  <2>4. InboxInStep(b)'
    BY <1>1, <2>1, <2>2 DEF InboxInStep
  <2>5. BacklogInStep(b)'
    BY <1>1, <2>1, <2>2 DEF BacklogInStep
  <2> QED BY <2>3, <2>4, <2>5
<1>11. EndsOnlyOnReturn'
  BY <1>1 DEF ServerInv, EndsOnlyOnReturn
<1>12. SilenceMeasured'
  <2>1. ASSUME fault = Null, NEW r \in M!InUse
        PROVE  info'[r].silence <= since'[addr[r]]
    <3>1. r \in M!Record /\ addr[r] \in Addr /\ addr[r] \in Known
      BY DEF InUseFacts, Known
    <3>2. since'[addr[r]] = Aged(since[addr[r]]) /\ info'[r].silence = Aged(info[r].silence)
      BY <1>1, <1>5, <3>1
    <3>3. info[r].silence <= since[addr[r]]
      BY <2>1 DEF ServerInv, SilenceMeasured
    <3>4. info[r].silence \in 0 .. Timeout + 1 /\ since[addr[r]] \in 0 .. Timeout + 1
      BY <1>2, <3>1, TypeFacts DEF Info
    <3> QED BY <1>4, <3>2, <3>3, <3>4 DEF Aged
  <2> QED BY <1>1, <1>3, <2>1 DEF SilenceMeasured
<1> QED BY <1>8, <1>9, <1>10, <1>11, <1>12 DEF ServerInv

\* A step that changes nothing changes nothing of the invariant.
LEMMA StutterStep == ServerInv /\ M!RegistryInv' /\ UNCHANGED vars => ServerInv'
<1> SUFFICES ASSUME ServerInv, M!RegistryInv', UNCHANGED vars PROVE ServerInv'
  OBVIOUS
<1>1. UNCHANGED <<addr, entries, count, info, read, fault, inbox, client, backlog,
                  since, outlived>>
  BY DEF vars, registry
<1>2. M!InUse' = M!InUse /\ (M!Record)' = M!Record /\ \A b : Replied(b)' = Replied(b)
  BY <1>1, SameRecords, SameReplied DEF M!Record
<1>3. TypeOK'
  BY <1>1, <1>2 DEF ServerInv, TypeOK, M!RegistryInv
<1>4. Bounded'
  BY <1>1, <1>2 DEF ServerInv, Bounded
<1>5. ASSUME NEW b \in Addr \ outlived'
      PROVE  RecordInStep(b)' /\ InboxInStep(b)' /\ BacklogInStep(b)'
  <2>1. RecordInStep(b) /\ InboxInStep(b) /\ BacklogInStep(b)
    BY <1>1, <1>5 DEF ServerInv
  <2>2. RecordInStep(b)'
    BY <1>1, <1>2, <2>1 DEF RecordInStep
  <2>3. InboxInStep(b)'
    BY <1>1, <1>2, <2>1 DEF InboxInStep
  <2>4. BacklogInStep(b)'
    BY <1>1, <1>2, <2>1 DEF BacklogInStep
  <2> QED BY <2>2, <2>3, <2>4
<1>6. EndsOnlyOnReturn' /\ SilenceMeasured'
  BY <1>1, <1>2 DEF ServerInv, EndsOnlyOnReturn, SilenceMeasured
<1> QED BY <1>3, <1>4, <1>5, <1>6 DEF ServerInv

LEMMA ServerStart == Init => ServerInv
<1> SUFFICES ASSUME Init PROVE ServerInv
  OBVIOUS
<1>1. M!RegistryInv
  BY MapStart DEF Init
<1>2. M!TypeOK
  BY <1>1 DEF M!RegistryInv
<1>3. M!InUse = {} /\ Known = {}
  BY DEF Init, M!Init, M!InUse, Known
<1>4. InUseFacts
  BY <1>1, RegistryFacts
<1>5. UINT_MAX \in SeqNum /\ Upto(UINT_MAX) = 0 /\ 0 \in SeqNum
  BY UptoFacts, RingFacts DEF SeqNum
<1>6. TypeOK
  <2>1. info \in [M!Record -> [seq : SeqNum, remote : SeqNum, silence : 0 .. Timeout + 1]]
    BY <1>5, ServerAssumption DEF Init
  <2>2. client \in [Addr -> [seq : SeqNum, remote : SeqNum, ended : Why \union {"no"}]]
    BY <1>5 DEF Init
  <2>3. inbox \in Seq([from : Addr, packet : Packet]) /\ Len(inbox) <= MaxInbox
    BY ServerAssumption DEF Init
  <2>4. backlog \in [Addr -> Seq(Packet)]
    <3>1. <<>> \in Seq(Packet)
      OBVIOUS
    <3> QED BY <3>1 DEF Init
  <2>5. since \in [Addr -> 0 .. Timeout + 1]
    <3>1. 0 \in 0 .. Timeout + 1
      BY ServerAssumption
    <3> QED BY <3>1 DEF Init
  <2>6. read \in BOOLEAN /\ outlived \subseteq Addr /\ fault = Null
    BY DEF Init
  <2> QED BY <1>2, <2>1, <2>2, <2>3, <2>4, <2>5, <2>6 DEF TypeOK
<1>7. Bounded
  BY <1>3, <1>5, ServerAssumption, HalfFacts DEF Bounded, Init
<1>8. ASSUME NEW a \in Addr PROVE RecordInStep(a) /\ InboxInStep(a) /\ BacklogInStep(a)
  <2>1. Replied(a) = 0 /\ client[a].remote = UINT_MAX /\ inbox = <<>> /\ backlog[a] = <<>>
    BY <1>3 DEF Init, Replied
  <2> QED BY <1>3, <1>5, <2>1 DEF RecordInStep, InboxInStep, BacklogInStep
<1>9. EndsOnlyOnReturn /\ SilenceMeasured
  BY <1>3 DEF Init, EndsOnlyOnReturn, SilenceMeasured
<1> QED BY <1>1, <1>6, <1>7, <1>8, <1>9 DEF ServerInv

LEMMA ServerSteps == ServerInv /\ [Next]_vars => ServerInv'
<1> SUFFICES ASSUME ServerInv, [Next]_vars PROVE ServerInv'
  OBVIOUS
<1>1. M!RegistryInv' /\ M!TypeOK' /\ InUseFacts /\ InUseFacts'
  BY RegistryStays
<1>2. ASSUME NEW a \in Addr, ReadKnown(a) PROVE ServerInv'
  BY <1>1, <1>2, ReadKnownStep
<1>3. ASSUME NEW a \in Addr, ReadNew(a) PROVE ServerInv'
  BY <1>1, <1>3, ReadNewStep
<1>4. ASSUME NEW a \in Addr, ReadFull(a) PROVE ServerInv'
  BY <1>1, <1>4, ReadFullStep
<1>5. CASE BeginSweep
  BY <1>1, <1>5, BeginSweepStep
<1>6. CASE SweepKeep
  BY <1>1, <1>6, KeepStep
<1>7. CASE SweepRemove
  BY <1>1, <1>7, RemoveStep
<1>8. CASE EndSweep
  BY <1>1, <1>8, EndSweepStep
<1>9. ASSUME NEW a \in Addr, ClientQuiet(a) PROVE ServerInv'
  BY <1>1, <1>9, QuietStep
<1>10. ASSUME NEW a \in Addr, ClientHears(a) PROVE ServerInv'
  BY <1>1, <1>10, HearsStep
<1>11. CASE UNCHANGED vars
  BY <1>1, <1>11, StutterStep
<1> QED BY <1>2, <1>3, <1>4, <1>5, <1>6, <1>7, <1>8, <1>9, <1>10, <1>11
           DEF Next, ServerStep, ClientStep

-------------------------------------------------------------------------------
(***************************************************************************)
(* What follows                                                            *)
(***************************************************************************)

LEMMA InStepFromInv == ServerInv => InStep
<1> SUFFICES ASSUME ServerInv, NEW a \in Addr \ outlived
             PROVE  LET recs == {r \in M!InUse : addr[r] = a}
                        sent == IF recs = {} THEN 0
                                ELSE Upto(info[CHOOSE r \in recs : TRUE].seq)
                    IN  /\ \A r \in recs : Upto(info[r].remote) <= Upto(client[a].seq)
                        /\ Upto(client[a].remote) <= sent
                        /\ \A i \in 1 .. Len(inbox) :
                             inbox[i].from = a => Upto(inbox[i].packet.ack) <= sent
                        /\ \A i \in 1 .. Len(backlog[a]) :
                             /\ Upto(backlog[a][i].ack) <= Upto(client[a].seq)
                             /\ Upto(client[a].remote) < Upto(backlog[a][i].seq)
                             /\ Upto(backlog[a][i].seq) <= sent
  BY DEF InStep
<1> DEFINE recs == {r \in M!InUse : addr[r] = a}
           sent == IF recs = {} THEN 0 ELSE Upto(info[CHOOSE r \in recs : TRUE].seq)
<1>1. InUseFacts
  BY RegistryFacts DEF ServerInv
<1>2. sent = Replied(a)
  <2>1. CASE recs = {}
    BY <1>1, <2>1 DEF InUseFacts
  <2>2. CASE recs # {}
    <3>1. PICK r : r = CHOOSE s \in recs : TRUE
      OBVIOUS
    <3>2. r \in recs
      BY <2>2, <3>1
    <3> QED BY <1>1, <2>2, <3>1, <3>2 DEF InUseFacts
  <2> QED BY <2>1, <2>2
<1>3. RecordInStep(a) /\ InboxInStep(a) /\ BacklogInStep(a)
  BY DEF ServerInv
<1> HIDE DEF sent
<1>4. /\ \A r \in recs : Upto(info[r].remote) <= Upto(client[a].seq)
      /\ Upto(client[a].remote) <= sent
      /\ \A i \in 1 .. Len(inbox) : inbox[i].from = a => Upto(inbox[i].packet.ack) <= sent
      /\ \A i \in 1 .. Len(backlog[a]) :
           /\ Upto(backlog[a][i].ack) <= Upto(client[a].seq)
           /\ Upto(client[a].remote) < Upto(backlog[a][i].seq)
           /\ Upto(backlog[a][i].seq) <= sent
  BY <1>2, <1>3 DEF RecordInStep, InboxInStep, BacklogInStep
<1> QED BY <1>4 DEF sent

LEMMA LiveStep ==
  ServerInv /\ [Next]_vars => [\A a \in Known \ Known' : since[a] > Timeout]_vars
<1> SUFFICES ASSUME ServerInv, [Next]_vars, NEW a \in Known, a \notin Known',
                    ~ UNCHANGED vars
             PROVE  since[a] > Timeout
  OBVIOUS
<1>1. InUseFacts /\ TypeOK
  BY RegistryStays DEF ServerInv
<1>2. PICK r \in M!InUse : addr[r] = a
  BY DEF Known
<1>3. a \in Addr
  BY <1>1, <1>2 DEF InUseFacts
<1>4. ~ UNCHANGED <<addr, entries, count>>
  BY SameRecords
<1>5. ASSUME NEW b \in Addr, ReadKnown(b) \/ ReadFull(b) \/ ClientQuiet(b) \/ ClientHears(b)
      PROVE  UNCHANGED <<addr, entries, count>>
  BY <1>5 DEF ReadKnown, ReadFull, M!ClientFull, ClientQuiet, ClientHears, registry
<1>6. ASSUME BeginSweep \/ SweepKeep \/ EndSweep PROVE UNCHANGED <<addr, entries, count>>
  BY <1>6 DEF BeginSweep, M!BeginSweep, SweepKeep, M!SweepKeep, EndSweep, M!EndSweep
<1>7. ASSUME NEW b \in Addr, ReadNew(b) PROVE FALSE
  <2>1. PICK n : n = NextRecord
    OBVIOUS
  <2>2. /\ n \in M!Record \ M!InUse /\ addr' = [addr EXCEPT ![n] = b]
        /\ M!InUse' = M!InUse \union {n}
    BY <1>7, <2>1, NewClient DEF ServerInv, ReadNew
  <2>3. r \in M!InUse' /\ addr'[r] = a
    BY <1>1, <1>2, <2>2 DEF InUseFacts
  <2> QED BY <2>3 DEF Known
<1>8. CASE SweepRemove
  <2>1. PICK s : s = entries[sweep]
    OBVIOUS
  <2>2. s \in M!InUse /\ addr' = [addr EXCEPT ![s] = Null] /\ M!InUse' = M!InUse \ {s}
    BY <1>8, <2>1, ClientGone DEF ServerInv, SweepRemove
  <2>3. info[s].silence > Timeout /\ fault = Null
    BY <1>8, <2>1 DEF SweepRemove, Overdue
  <2>4. r = s
    <3> SUFFICES ASSUME r # s PROVE FALSE
      OBVIOUS
    <3>1. r \in M!InUse' /\ addr'[r] = a
      BY <1>1, <1>2, <2>2 DEF InUseFacts
    <3> QED BY <3>1 DEF Known
  <2>5. info[r].silence <= since[a]
    BY <1>2, <2>3 DEF ServerInv, SilenceMeasured
  <2>6. info[r].silence \in Int /\ since[a] \in Int /\ Timeout \in Int
    BY <1>1, <1>2, <1>3, TypeFacts DEF InUseFacts, Info
  <2> QED BY <2>3, <2>4, <2>5, <2>6
<1> QED BY <1>4, <1>5, <1>6, <1>7, <1>8 DEF Next, ServerStep, ClientStep

\* The server with its registry, the records, the sockets and the clients agree
\* (udp_server.cpp 85-245 and 856-1041).
THEOREM Consistent == Spec => []ServerInv
BY ServerStart, ServerSteps, PTL DEF Spec

\* All variables keep their types.
THEOREM TypesKept == Spec => []TypeOK
BY Consistent, PTL DEF ServerInv

\* A client that was never removed and its record are of one session: neither side
\* knows of a packet the other has not sent (udp_server.cpp 127-163 and 887-919).
THEOREM OneSession == Spec => []InStep
BY Consistent, InStepFromInv, PTL

\* While less than a window of packets is lost, and the sockets keep the order of
\* the others, only a full registry, or a packet of a client that was removed, ends
\* the server (Asserts 140, 765, 851 and 859), and a client ends only after it was
\* removed.
THEOREM LossesEndNobody == Spec => []EndsOnlyOnReturn
BY Consistent, PTL DEF ServerInv

\* A client is removed only after it was silent for longer than the time-out
\* (udp_server.cpp 965).
THEOREM OnlySilentRemoved == Spec => LiveKept
BY Consistent, ServerStart, ServerSteps, LiveStep, PTL DEF Spec, LiveKept
===============================================================================

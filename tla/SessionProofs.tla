----------------------------- MODULE SessionProofs -----------------------------
(***************************************************************************)
(* SessionInv is an inductive invariant of Session, and every step of a    *)
(* session is a step of Link or leaves the variables of Link alone, for    *)
(* every Window, SeqSpace, number of slots, capacity and network that the  *)
(* assumptions allow.                                                      *)
(***************************************************************************)
EXTENDS Session, SeqRingProofs, NatLemmas

-----------------------------------------------------------------------------
(***************************************************************************)
(* The queue with at most one message                                      *)
(***************************************************************************)

\* Slots are places of a ring of two or more.
LEMMA SlotFacts ==
  /\ Slots \in Nat \ {0} /\ Slots >= 2
  /\ NotSet = Window
BY QueueAssumption, SessionAssumption DEF NotSet

\* How many slots from one to another, and which slot some slots on.
LEMMA SlotMod ==
  ASSUME NEW a \in Slot, NEW b \in Slot
  PROVE  /\ (a - b) % Slots = IF a >= b THEN a - b ELSE (a - b) + Slots
         /\ (a + b) % Slots = IF a + b < Slots THEN a + b ELSE (a + b) - Slots
<1> DEFINE n == Slots
<1>1. n \in Nat \ {0} /\ a \in 0 .. (n - 1) /\ b \in 0 .. (n - 1)
  BY SlotFacts DEF Slot
<1> HIDE DEF n
<1>2. (a - b) % n = IF a >= b THEN a - b ELSE (a - b) + n
  BY <1>1
<1>3. (a + b) % n = IF a + b < n THEN a + b ELSE (a + b) - n
  BY <1>1
<1> QED BY <1>2, <1>3 DEF n

\* The next slot is another one, and one further.
LEMMA AdvanceFacts ==
  ASSUME NEW a \in Slot
  PROVE  /\ Advance(a) \in Slot /\ Advance(a) # a
         /\ Advance(a) = IF a + 1 < Slots THEN a + 1 ELSE 0
         /\ (Advance(a) - a) % Slots = 1
         /\ (a - a) % Slots = 0
<1>1. 1 \in Slot
  BY SlotFacts DEF Slot
<1>2. Advance(a) = IF a + 1 < Slots THEN a + 1 ELSE 0
  BY <1>1, SlotMod, SlotFacts DEF Advance, Slot
<1>3. Advance(a) \in Slot /\ Advance(a) # a
  BY <1>2, SlotFacts DEF Slot
<1> QED BY <1>2, <1>3, SlotMod, SlotFacts DEF Slot

\* The fields of a queue.
LEMMA QueueFields ==
  ASSUME NEW q \in QueueMessage
  PROVE  /\ q.msgs \in [Slot -> Message] /\ q.sent \in [Slot -> 0 .. NotSet]
         /\ q.begin \in Slot /\ q.next \in Slot /\ q.next < Slots
         /\ q.ended = "no"
         /\ q = [msgs |-> q.msgs, sent |-> q.sent, begin |-> q.begin, next |-> q.next,
                 ended |-> q.ended]
BY SlotFacts DEF QueueMessage, Slot

\* The changes of two fields that a resend and a send make.
Queued(q, x, y) == [q EXCEPT !.msgs = x, !.next = y]
Unqueued(q, x, y) == [q EXCEPT !.sent = x, !.begin = y]

\* Two fields of a queue are changed one after the other.
LEMMA TwoFields ==
  ASSUME NEW q \in QueueMessage, NEW x, NEW y
  PROVE  /\ Queued(q, x, y)
              = [msgs |-> x, sent |-> q.sent, begin |-> q.begin, next |-> y,
                 ended |-> "no"]
         /\ Unqueued(q, x, y)
              = [msgs |-> q.msgs, sent |-> x, begin |-> y, next |-> q.next,
                 ended |-> "no"]
<1>1. PICK r : r = [q EXCEPT !.msgs = x]
  OBVIOUS
<1>2. r = [msgs |-> x, sent |-> q.sent, begin |-> q.begin, next |-> q.next,
           ended |-> "no"]
  BY <1>1, QueueFields DEF QueueMessage
<1>3. [r EXCEPT !.next = y]
        = [msgs |-> x, sent |-> q.sent, begin |-> q.begin, next |-> y, ended |-> "no"]
  BY <1>2
<1>4. [q EXCEPT !.msgs = x, !.next = y] = [r EXCEPT !.next = y]
  BY <1>1, Zenon
<1>5. PICK t : t = [q EXCEPT !.sent = x]
  OBVIOUS
<1>6. t = [msgs |-> q.msgs, sent |-> x, begin |-> q.begin, next |-> q.next,
           ended |-> "no"]
  BY <1>5, QueueFields DEF QueueMessage
<1>7. [t EXCEPT !.begin = y]
        = [msgs |-> q.msgs, sent |-> x, begin |-> y, next |-> q.next, ended |-> "no"]
  BY <1>6
<1>8. [q EXCEPT !.sent = x, !.begin = y] = [t EXCEPT !.begin = y]
  BY <1>5, Zenon
<1> QED BY <1>3, <1>4, <1>7, <1>8, Zenon DEF Queued, Unqueued

\* An endpoint without a waiting message sends an empty packet.
LEMMA PackNone ==
  ASSUME NEW q \in QueueMessage, NEW bit, q.begin = q.next
  PROVE  Pack(q, bit) = [queue |-> q, load |-> <<>>, used |-> 0]
<1> DEFINE r == [queue |-> q, load |-> <<>>, used |-> 0]
           Join(s, i) ==
             LET m == s.queue.msgs[i]
             IN  IF s.used + m.size > Capacity THEN s
                 ELSE [queue |-> [s.queue EXCEPT !.sent[i] = bit,
                                                 !.begin = Advance(@)],
                       load  |-> Append(s.load, m),
                       used  |-> s.used + m.size]
           Body(w) == [n \in 0 .. 0 |->
             IF n = 0 THEN r ELSE Join(w[n - 1], (q.begin + n - 1) % Slots)]
<1>1. q.next \in Slot /\ q.next < Slots /\ (q.next - q.begin) % Slots = 0
  BY QueueFields, AdvanceFacts
<1>2. \A w : Body(w) = [n \in 0 .. 0 |-> r]
  OBVIOUS
<1>3. Pack(q, bit) = (CHOOSE w : w = Body(w))[0]
  BY <1>1 DEF Pack
<1> HIDE DEF Body
<1>4. (CHOOSE w : w = Body(w)) = [n \in 0 .. 0 |-> r]
  BY <1>2
<1> QED BY <1>3, <1>4

\* An endpoint with one waiting message sends it.
LEMMA PackOne ==
  ASSUME NEW q \in QueueMessage, NEW bit \in Bit, q.next = Advance(q.begin),
         q.msgs[q.begin].size = 1
  PROVE  Pack(q, bit) =
           [queue |-> [msgs |-> q.msgs, sent |-> [q.sent EXCEPT ![q.begin] = bit],
                       begin |-> Advance(q.begin), next |-> q.next, ended |-> "no"],
            load |-> <<q.msgs[q.begin]>>, used |-> 1]
<1> DEFINE i == q.begin
           r == [queue |-> q, load |-> <<>>, used |-> 0]
           s == [queue |-> [msgs |-> q.msgs, sent |-> [q.sent EXCEPT ![i] = bit],
                            begin |-> Advance(i), next |-> q.next, ended |-> "no"],
                 load |-> <<q.msgs[i]>>, used |-> 1]
           Join(p, j) ==
             LET m == p.queue.msgs[j]
             IN  IF p.used + m.size > Capacity THEN p
                 ELSE [queue |-> [p.queue EXCEPT !.sent[j] = bit,
                                                 !.begin = Advance(@)],
                       load  |-> Append(p.load, m),
                       used  |-> p.used + m.size]
           Body(w) == [n \in 0 .. 1 |->
             IF n = 0 THEN r ELSE Join(w[n - 1], (q.begin + n - 1) % Slots)]
<1>1. q.begin \in Slot /\ q.next < Slots /\ (q.next - q.begin) % Slots = 1
  BY QueueFields, AdvanceFacts
<1>2. (i + 1 - 1) % Slots = i
  <2>1. 0 \in Slot /\ i + 1 - 1 = i + 0 /\ i + 0 < Slots /\ i + 0 = i
    BY <1>1, SlotFacts DEF Slot
  <2> QED BY <1>1, <2>1, SlotMod
<1>3. Join(r, i) = s
  <2>1. Unqueued(q, [q.sent EXCEPT ![i] = bit], Advance(i)) = s.queue
    BY TwoFields
  <2>2. [q EXCEPT !.sent[i] = bit, !.begin = Advance(@)]
          = Unqueued(q, [q.sent EXCEPT ![i] = bit], Advance(i))
    BY Zenon DEF Unqueued
  <2> QED BY <2>1, <2>2, QueueAssumption
<1>4. Pack(q, bit) = (CHOOSE w : w = Body(w))[1]
  BY <1>1 DEF Pack
<1> DEFINE v == [n \in 0 .. 1 |-> IF n = 0 THEN r ELSE s]
<1> HIDE DEF r, s, Join
<1>5. v = Body(v)
  BY <1>2, <1>3
<1>6. \A w : w = Body(w) => w[1] = s
  <2> SUFFICES ASSUME NEW w, w = Body(w) PROVE w[1] = s
    OBVIOUS
  <2>1. w[0] = r /\ w[1] = Join(w[0], (q.begin + 1 - 1) % Slots)
    OBVIOUS
  <2> QED BY <2>1, <1>2, <1>3
<1> HIDE DEF Body, v
<1>7. (CHOOSE w : w = Body(w))[1] = s
  BY <1>5, <1>6
<1> QED BY <1>4, <1>7 DEF s

\* The parts of the resend scan: what it leaves after the slot at next, where it
\* starts and how many slots it looks at.
ScanHead(q, bit) == Requeue(q, bit, q.next)
ScanStart(q, bit) ==
  IF ScanHead(q, bit).next = ScanHead(q, bit).begin
  THEN Advance(ScanHead(q, bit).next) ELSE ScanHead(q, bit).next
ScanSpan(q, bit) == (q.begin - ScanStart(q, bit)) % Slots
ScanSlot(q, bit, n) == (ScanStart(q, bit) + n - 1) % Slots

\* Whatever obeys the recursion of the scan says what it leaves.
LEMMA ScanLeaves ==
  ASSUME NEW q, NEW bit, q.next < Slots, ScanSpan(q, bit) \in Nat,
         NEW v,
         v = [n \in 0 .. ScanSpan(q, bit) |->
                IF n = 0 THEN ScanHead(q, bit)
                ELSE Requeue(v[n - 1], bit, ScanSlot(q, bit, n))]
  PROVE  Resend(q, bit) = v[ScanSpan(q, bit)]
<1> DEFINE span == ScanSpan(q, bit)
           Body(w) == [n \in 0 .. span |->
                         IF n = 0 THEN ScanHead(q, bit)
                         ELSE Requeue(w[n - 1], bit, ScanSlot(q, bit, n))]
<1>1. Resend(q, bit) = (CHOOSE w : w = Body(w))[span]
  BY DEF Resend, ScanHead, ScanStart, ScanSpan, ScanSlot
<1>2. v = Body(v) /\ span \in Nat
  OBVIOUS
<1>3. ASSUME NEW w, w = Body(w)
      PROVE  w[span] = v[span]
  <2> HIDE DEF span
  <2> DEFINE S == {n \in Nat : n <= span => w[n] = v[n]}
  <2>1. \A n \in 0 .. span :
          /\ w[n] = IF n = 0 THEN ScanHead(q, bit)
                    ELSE Requeue(w[n - 1], bit, ScanSlot(q, bit, n))
          /\ v[n] = IF n = 0 THEN ScanHead(q, bit)
                    ELSE Requeue(v[n - 1], bit, ScanSlot(q, bit, n))
    BY <1>2, <1>3
  <2> HIDE DEF Body
  <2>2. 0 \in S
    <3>1. 0 \in 0 .. span
      BY <1>2
    <3>2. w[0] = ScanHead(q, bit) /\ v[0] = ScanHead(q, bit)
      BY <2>1, <3>1
    <3> QED BY <3>2
  <2>3. ASSUME NEW n \in Nat, n \in S PROVE n + 1 \in S
    <3>1. CASE n + 1 <= span
      <4>1. n + 1 \in 0 .. span /\ n + 1 # 0 /\ (n + 1) - 1 = n /\ w[n] = v[n]
        BY <1>2, <2>3, <3>1
      <4>2. w[n + 1] = v[n + 1]
        BY <2>1, <4>1
      <4> QED BY <4>2
    <3>2. CASE ~ (n + 1 <= span)
      BY <3>2
    <3> QED BY <3>1, <3>2
  <2> HIDE DEF S
  <2>4. span \in S
    BY <1>2, <2>2, <2>3, SetInduction
  <2> QED BY <2>4, <1>2 DEF S
<1> HIDE DEF Body
<1> QED BY <1>1, <1>2, <1>3

\* The scan leaves the queue alone if the lost packet carried nothing of it, but
\* perhaps the message that waits already.
LEMMA ResendNothing ==
  ASSUME NEW q \in QueueMessage, NEW bit,
         \A j \in Slot : Carried(q, bit, j) => q.begin = j /\ q.next = Advance(j)
  PROVE  Resend(q, bit) = q
<1>1. q.begin \in Slot /\ q.next \in Slot /\ q.next < Slots
  BY QueueFields
<1>2. ScanHead(q, bit) = q
  BY <1>1, AdvanceFacts DEF ScanHead, Requeue
<1>3. /\ ScanStart(q, bit) \in Slot
      /\ q.begin # q.next => ScanStart(q, bit) = q.next
  BY <1>1, <1>2, AdvanceFacts DEF ScanStart
<1> DEFINE span == ScanSpan(q, bit)
           start == ScanStart(q, bit)
<1>4. span = IF q.begin >= start THEN q.begin - start ELSE (q.begin - start) + Slots
  BY <1>1, <1>3, SlotMod DEF ScanSpan
<1>5. span \in Slot
  BY <1>1, <1>3, <1>4, SlotFacts DEF Slot
<1> DEFINE v == [n \in 0 .. span |-> q]
<1>6. ASSUME NEW n \in 1 .. span
      PROVE  Requeue(q, bit, ScanSlot(q, bit, n)) = q
  <2> HIDE DEF span, start
  <2>1. PICK k \in Slot : k = n - 1 /\ k < span
    BY <1>5, <1>6, SlotFacts DEF Slot
  <2>2. ScanSlot(q, bit, n) = (start + k) % Slots
    BY <2>1, <1>3, SlotFacts DEF ScanSlot, Slot, start
  <2>3. (start + k) % Slots = IF start + k < Slots THEN start + k ELSE (start + k) - Slots
    BY <1>3, SlotMod DEF start
  <2>4. (start + k) % Slots \in Slot /\ (start + k) % Slots # q.begin
    BY <1>1, <1>3, <1>4, <2>1, <2>3, SlotFacts DEF Slot, start
  <2>5. ~ Carried(q, bit, ScanSlot(q, bit, n))
    BY <2>2, <2>4
  <2> QED BY <2>5 DEF Requeue
<1>7. v = [n \in 0 .. span |-> IF n = 0 THEN ScanHead(q, bit)
                               ELSE Requeue(v[n - 1], bit, ScanSlot(q, bit, n))]
  <2>1. \A n \in 0 .. span : n # 0 => n \in 1 .. span /\ n - 1 \in 0 .. span
    BY <1>5 DEF Slot
  <2> HIDE DEF span
  <2> QED BY <1>2, <1>6, <2>1
<1>8. span \in Nat /\ span \in 0 .. span
  BY <1>5, SlotFacts DEF Slot
<1> HIDE DEF v
<1>9. Resend(q, bit) = v[span]
  BY <1>1, <1>7, <1>8, ScanLeaves
<1> QED BY <1>8, <1>9 DEF v

\* The scan moves the message of a lost packet to the slot at next, where it waits.
LEMMA ResendMoves ==
  ASSUME NEW q \in QueueMessage, NEW bit, NEW i \in Slot, NEW m, m.critical,
         Alone(q, i, m), q.sent[i] = bit, q.begin = q.next
  PROVE  Resend(q, bit) = [msgs |-> Only(q.begin, m), sent |-> q.sent, begin |-> q.begin,
                           next |-> Advance(q.begin), ended |-> "no"]
<1> DEFINE r == [msgs |-> Only(q.begin, m), sent |-> q.sent, begin |-> q.begin,
                 next |-> Advance(q.begin), ended |-> "no"]
           begin == q.begin
<1>1. begin \in Slot /\ q.next = begin /\ q.next < Slots
  BY QueueFields
<1>2. /\ r.begin = begin /\ r.next = Advance(begin) /\ r.sent = q.sent
      /\ \A j \in Slot : r.msgs[j] = IF j = begin THEN m ELSE NoMessage
      /\ \A j \in Slot : q.msgs[j] = IF j = i THEN m ELSE NoMessage
  BY QueueFields DEF Alone, Only
<1>3. \A j \in Slot : Carried(q, bit, j) <=> j = i
  BY <1>2 DEF Carried, NoMessage
<1>4. Requeue(q, bit, i) = r
  <2>1. [q.msgs EXCEPT ![q.next] = q.msgs[i], ![i] = NoMessage]
          = Only(begin, m)
        \/ i = begin
    BY <1>1, <1>2, QueueFields DEF Only
  <2>2. i = begin => q.msgs = Only(begin, m)
    BY DEF Alone
  <2>3. Queued(q, Only(begin, m), Advance(q.next)) = r
    BY <1>1, TwoFields
  <2>4. i \in Slot /\ Carried(q, bit, i)
    BY <1>3
  <2>5. IF q.next = i THEN q.msgs = Only(begin, m)
        ELSE [q.msgs EXCEPT ![q.next] = q.msgs[i], ![i] = NoMessage] = Only(begin, m)
    BY <1>1, <2>1, <2>2
  <2> HIDE DEF r
  <2>6. Requeue(q, bit, i) =
          [q EXCEPT !.msgs = IF q.next = i THEN q.msgs
                             ELSE [q.msgs EXCEPT ![q.next] = q.msgs[i], ![i] = NoMessage],
                    !.next = Advance(@)]
    BY <2>4 DEF Requeue
  <2>7. Requeue(q, bit, i) = Queued(q, Only(begin, m), Advance(q.next))
    BY <2>5, <2>6 DEF Queued
  <2> QED BY <2>3, <2>7
<1>5. \A j \in Slot : j # begin => Requeue(r, bit, j) = r
  BY <1>2 DEF Requeue, Carried, NoMessage
<1> HIDE DEF r
<1> DEFINE start == ScanStart(q, bit)
           span == ScanSpan(q, bit)
<1>6. /\ ScanHead(q, bit) = IF i = begin THEN r ELSE q
      /\ start = Advance(begin)
      /\ start \in Slot /\ start # begin
  <2>1. ScanHead(q, bit) = IF i = begin THEN r ELSE q
    BY <1>1, <1>3, <1>4 DEF ScanHead, Requeue
  <2>2. start = Advance(begin)
    BY <1>1, <1>2, <2>1, AdvanceFacts DEF ScanStart
  <2> QED BY <1>1, <2>1, <2>2, AdvanceFacts
<1>7. /\ span = IF begin >= start THEN begin - start ELSE (begin - start) + Slots
      /\ span \in Slot
  <2>1. begin \in Slot /\ start \in Slot
    BY <1>1, <1>6
  <2>2. span = (begin - start) % Slots
    BY DEF ScanSpan
  <2> HIDE DEF begin, start, span
  <2>3. span = IF begin >= start THEN begin - start ELSE (begin - start) + Slots
    BY <2>1, <2>2, SlotMod
  <2>4. begin \in 0 .. (Slots - 1) /\ start \in 0 .. (Slots - 1)
    BY <2>1 DEF Slot
  <2>5. span \in 0 .. (Slots - 1)
    <3> DEFINE s == Slots
    <3>1. s \in Nat \ {0} /\ begin \in 0 .. (s - 1) /\ start \in 0 .. (s - 1)
          /\ span = IF begin >= start THEN begin - start ELSE (begin - start) + s
      BY <2>3, <2>4, SlotFacts
    <3> HIDE DEF s
    <3>2. span \in 0 .. (s - 1)
      BY <3>1
    <3> QED BY <3>2 DEF s
  <2> QED BY <2>3, <2>5 DEF Slot
<1>8. \A n \in 1 .. span :
        /\ ScanSlot(q, bit, n) = IF start + (n - 1) < Slots THEN start + (n - 1)
                                 ELSE start + (n - 1) - Slots
        /\ ScanSlot(q, bit, n) \in Slot /\ ScanSlot(q, bit, n) # begin
  <2> SUFFICES ASSUME NEW n \in 1 .. span
               PROVE  /\ ScanSlot(q, bit, n) = IF start + (n - 1) < Slots THEN start + (n - 1)
                                               ELSE start + (n - 1) - Slots
                      /\ ScanSlot(q, bit, n) \in Slot /\ ScanSlot(q, bit, n) # begin
    OBVIOUS
  <2> HIDE DEF span, start
  <2>1. PICK k \in Slot : k = n - 1 /\ k < span
    BY <1>7, SlotFacts DEF Slot
  <2>2. ScanSlot(q, bit, n) = (start + k) % Slots
    BY <2>1, <1>6, SlotFacts DEF ScanSlot, Slot, start
  <2>3. (start + k) % Slots = IF start + k < Slots THEN start + k ELSE (start + k) - Slots
    BY <1>6, SlotMod
  <2> QED BY <1>1, <1>6, <1>7, <2>1, <2>2, <2>3, SlotFacts DEF Slot
<1> HIDE DEF start, span, begin
<1>9. CASE i = begin
  <2> DEFINE v == [n \in 0 .. span |-> r]
  <2>1. v = [n \in 0 .. span |-> IF n = 0 THEN ScanHead(q, bit)
                                 ELSE Requeue(v[n - 1], bit, ScanSlot(q, bit, n))]
    <3>1. \A n \in 0 .. span : n # 0 => n \in 1 .. span /\ n - 1 \in 0 .. span
      BY <1>7 DEF Slot
    <3> QED BY <1>5, <1>6, <1>8, <1>9, <3>1
  <2>2. span \in Nat /\ span \in 0 .. span
    BY <1>7, SlotFacts DEF Slot
  <2> HIDE DEF v
  <2>3. Resend(q, bit) = v[span]
    BY <1>1, <2>1, <2>2, ScanLeaves DEF span
  <2> QED BY <2>2, <2>3 DEF v, r
<1>10. CASE i # begin
  \* The scan comes to slot i after at slots, and to no slot twice.
  <2> DEFINE at == IF i >= start THEN i - start + 1 ELSE (i - start) + Slots + 1
  <2>1. /\ at \in 1 .. span
        /\ \A n \in 1 .. span : ScanSlot(q, bit, n) = i <=> n = at
    <3>1. /\ begin \in 0 .. (Slots - 1) /\ i \in 0 .. (Slots - 1)
          /\ start = IF begin + 1 < Slots THEN begin + 1 ELSE 0
          /\ Slots \in Nat /\ Slots >= 2
      BY <1>1, <1>6, AdvanceFacts, SlotFacts DEF Slot
    <3>2. span = Slots - 1
      BY <1>7, <3>1
    <3>3. at \in 1 .. span
      BY <1>10, <3>1, <3>2
    <3>4. ASSUME NEW n \in 1 .. span
          PROVE  ScanSlot(q, bit, n) = i <=> n = at
      <4>1. ScanSlot(q, bit, n) = IF start + (n - 1) < Slots THEN start + (n - 1)
                                  ELSE start + (n - 1) - Slots
        BY <1>8
      <4> QED BY <3>1, <3>2, <3>3, <4>1
    <3> QED BY <3>3, <3>4
  <2> HIDE DEF at
  <2> DEFINE v == [n \in 0 .. span |-> IF n < at THEN q ELSE r]
  <2>2. v = [n \in 0 .. span |-> IF n = 0 THEN ScanHead(q, bit)
                                 ELSE Requeue(v[n - 1], bit, ScanSlot(q, bit, n))]
    <3>1. ASSUME NEW n \in 1 .. span
          PROVE  v[n] = Requeue(v[n - 1], bit, ScanSlot(q, bit, n))
      <4>1. n \in 0 .. span /\ n - 1 \in 0 .. span /\ n \in Nat /\ at \in Nat
        BY <1>7, <2>1 DEF Slot
      <4>2. CASE n < at
        <5>1. ~ Carried(q, bit, ScanSlot(q, bit, n))
          BY <1>3, <1>8, <2>1, <4>2
        <5> QED BY <4>1, <4>2, <5>1 DEF Requeue
      <4>3. CASE n = at
        BY <1>4, <2>1, <4>1, <4>3
      <4>4. CASE n > at
        BY <1>5, <1>8, <4>1, <4>4
      <4> QED BY <4>1, <4>2, <4>3, <4>4
    <3>2. v[0] = ScanHead(q, bit)
      BY <1>6, <1>10, <1>7, <2>1 DEF Slot
    <3>3. \A n \in 0 .. span : n # 0 => n \in 1 .. span
      BY <1>7 DEF Slot
    <3>4. \A n \in 0 .. span : v[n] = IF n = 0 THEN ScanHead(q, bit)
                                       ELSE Requeue(v[n - 1], bit, ScanSlot(q, bit, n))
      BY <3>1, <3>2, <3>3
    <3> QED BY <3>4, Zenon
  <2>3. span \in Nat /\ span \in 0 .. span /\ ~ (span < at)
    BY <1>7, <2>1, SlotFacts DEF Slot
  <2>4. v[span] = r
    BY <2>3
  <2> HIDE DEF v
  <2>5. Resend(q, bit) = v[span]
    BY <1>1, <2>2, <2>3, ScanLeaves DEF span
  <2> QED BY <2>4, <2>5 DEF r
<1> QED BY <1>9, <1>10

-----------------------------------------------------------------------------
(***************************************************************************)
(* The theorems about Link, of its variables in a session                  *)
(***************************************************************************)
LP == INSTANCE LinkProofs WITH net <- [e \in {"client", "server"} |->
                                         {Header(p) : p \in net[e]}]

LEMMA SameInit == L!Init => LP!Init
BY DEF L!Init, LP!Init, L!UINT_MAX, LP!UINT_MAX, L!End, LP!End, L!Bit, LP!Bit

LEMMA SameInv == L!LinkInv <=> LP!LinkInv
BY DEF L!SeqNum, LP!SeqNum, L!Bit, LP!Bit, L!UINT_MAX, LP!UINT_MAX, L!Half, LP!Half,
      L!SeqSub, LP!SeqSub, L!SeqIndex, LP!SeqIndex, L!BitBefore, LP!BitBefore,
      L!End, LP!End, L!Peer, LP!Peer, L!Ordered, LP!Ordered, L!Packet, LP!Packet,
      L!Running, LP!Running, L!Older, LP!Older, L!Lag, LP!Lag, L!AgeBit, LP!AgeBit,
      L!Horizon, LP!Horizon, L!RingsAgree, LP!RingsAgree, L!NoneNewer,
      LP!NoneNewer, L!AcksTrue, LP!AcksTrue, L!InFlightNewer, LP!InFlightNewer,
      L!AckSound, LP!AckSound, L!AckNeverAhead, LP!AckNeverAhead, L!NeverHalts,
      LP!NeverHalts, L!TypeOK, LP!TypeOK, L!LinkInv, LP!LinkInv

LEMMA SameNext == [L!Next]_L!linkVars => [LP!Next]_LP!linkVars
<1>1. L!ClientSend => LP!ClientSend
  BY DEF L!ClientSend, LP!ClientSend, L!Send, LP!Send, L!InHorizon, LP!InHorizon,
      L!Running, LP!Running, L!Peer, LP!Peer, L!SeqSub, LP!SeqSub, L!SeqInc,
      LP!SeqInc, L!SeqIndex, LP!SeqIndex, L!UINT_MAX, LP!UINT_MAX,
      L!Cardinality, LP!Cardinality
<1>2. L!ServerSend => LP!ServerSend
  BY DEF L!ServerSend, LP!ServerSend, L!Send, LP!Send, L!InHorizon, LP!InHorizon,
      L!Running, LP!Running, L!Peer, LP!Peer, L!SeqSub, LP!SeqSub, L!SeqInc,
      LP!SeqInc, L!SeqIndex, LP!SeqIndex, L!UINT_MAX, LP!UINT_MAX,
      L!Cardinality, LP!Cardinality
<1>3. L!ClientReceive => LP!ClientReceive
  BY DEF L!ClientReceive, LP!ClientReceive, L!Running, LP!Running, L!Deliverable,
      LP!Deliverable, L!Older, LP!Older, L!Peer, LP!Peer, L!Take, LP!Take,
      L!Accept, LP!Accept, L!Abort, LP!Abort, L!Ignore, LP!Ignore, L!AckInPast,
      LP!AckInPast, L!InOrder, LP!InOrder, L!NoGap, LP!NoGap, L!SeqSub, LP!SeqSub,
      L!SeqIndex, LP!SeqIndex, L!IsSeqGreaterThan, LP!IsSeqGreaterThan,
      L!SeqDistance, LP!SeqDistance, L!Half, LP!Half, L!UINT_MAX, LP!UINT_MAX,
      L!RemoteBitAfter, LP!RemoteBitAfter, L!SeqBitAfter, LP!SeqBitAfter,
      L!RingMask, LP!RingMask, L!ShiftLeft, LP!ShiftLeft, L!ShiftRight,
      LP!ShiftRight, L!FlipBit, LP!FlipBit, L!Bit, LP!Bit
<1>4. L!ServerReceive => LP!ServerReceive
  BY DEF L!ServerReceive, LP!ServerReceive, L!Running, LP!Running, L!Deliverable,
      LP!Deliverable, L!Older, LP!Older, L!Peer, LP!Peer, L!Take, LP!Take,
      L!Accept, LP!Accept, L!Abort, LP!Abort, L!Ignore, LP!Ignore, L!AckInPast,
      LP!AckInPast, L!InOrder, LP!InOrder, L!NoGap, LP!NoGap, L!SeqSub, LP!SeqSub,
      L!SeqIndex, LP!SeqIndex, L!IsSeqGreaterThan, LP!IsSeqGreaterThan,
      L!SeqDistance, LP!SeqDistance, L!Half, LP!Half, L!UINT_MAX, LP!UINT_MAX,
      L!RemoteBitAfter, LP!RemoteBitAfter, L!SeqBitAfter, LP!SeqBitAfter,
      L!RingMask, LP!RingMask, L!ShiftLeft, LP!ShiftLeft, L!ShiftRight,
      LP!ShiftRight, L!FlipBit, LP!FlipBit, L!Bit, LP!Bit
<1>5. L!Lose => LP!Lose
  BY DEF L!Lose, LP!Lose, L!End, LP!End
<1>6. UNCHANGED L!linkVars => UNCHANGED LP!linkVars
  BY DEF L!linkVars, LP!linkVars
<1> QED BY <1>1, <1>2, <1>3, <1>4, <1>5, <1>6 DEF L!Next, LP!Next

\* The assumptions of Link hold in a session.
LEMMA LinkBounds ==
  /\ MaxLag \in 1 .. LP!Half
  /\ MaxInFlight \in Nat \ {0}
  /\ Reorder \subseteq {"client", "server"}
  /\ Duplicate \subseteq {"client", "server"}
BY SessionAssumption DEF LP!Half, Half, LP!UINT_MAX, UINT_MAX

\* LinkInv holds initially, and a step of Link keeps it.
LEMMA LinkStart == L!Init => L!LinkInv
BY SameInit, SameInv, LP!InitInv, LinkBounds, RingAssumption

LEMMA LinkStep == L!LinkInv /\ [L!Next]_L!linkVars => L!LinkInv'
<1>1. (L!LinkInv <=> LP!LinkInv)'
  BY SameInv, PTL
<1>2. LP!LinkInv /\ [LP!Next]_LP!linkVars => LP!LinkInv'
  BY LP!NextStep, LinkBounds, RingAssumption
<1> QED BY <1>1, <1>2, SameInv, SameNext

-----------------------------------------------------------------------------
(***************************************************************************)
(* The refinement, step by step                                            *)
(***************************************************************************)

\* The network as Link sees it.
Headers == [e \in {"client", "server"} |-> {Header(p) : p \in net[e]}]

\* There are two endpoints, each the other's peer.
LEMMA Ends ==
  /\ End = {"client", "server"} /\ End = L!End
  /\ \A e : Peer(e) = L!Peer(e)
  /\ \A e \in End : Peer(e) \in End /\ Peer(e) # e /\ Peer(Peer(e)) = e
  /\ \A e, x \in End : x = e \/ x = Peer(e)
BY DEF End, L!End, Peer, L!Peer

\* Receiving looks at nothing but the header.
LEMMA HeaderIsRead ==
  ASSUME NEW e, NEW p
  PROVE  /\ L!Accept(e, p) <=> L!Accept(e, Header(p))
         /\ L!Ignore(e, p) <=> L!Ignore(e, Header(p))
         /\ L!Abort(e, p) <=> L!Abort(e, Header(p))
BY DEF Header, L!Accept, L!Ignore, L!Abort, L!AckInPast, L!InOrder, L!NoGap

\* Taking a packet from the network takes its header: no other packet has it.
LEMMA HeaderTaken ==
  ASSUME net \in [End -> SUBSET Packet], NumbersDiffer, NEW e \in End, NEW p \in net[e],
         net' = [net EXCEPT ![e] = @ \ {p}]
  PROVE  Headers' = [Headers EXCEPT ![e] = @ \ {Header(p)}]
<1>1. {Header(q) : q \in net[e] \ {p}} = {Header(q) : q \in net[e]} \ {Header(p)}
  BY DEF NumbersDiffer, Header
<1>2. /\ net'[e] = net[e] \ {p}
      /\ \A x \in End : x # e => net'[x] = net[x]
  OBVIOUS
<1>3. Headers[e] = {Header(q) : q \in net[e]} /\ Headers'[e] = {Header(q) : q \in net'[e]}
  BY Ends DEF Headers
<1>4. \A x \in End : x # e => Headers'[x] = Headers[x]
  BY <1>2, Ends DEF Headers
<1> QED BY <1>1, <1>2, <1>3, <1>4, Ends DEF Headers

\* Reading a datagram is Link's Take of its header.
LEMMA DatagramTakes ==
  ASSUME net \in [End -> SUBSET Packet], NumbersDiffer, NEW e \in End, NEW p \in net[e],
         Datagram(e, p)
  PROVE  Header(p) \in L!Deliverable(e) /\ L!Take(e, Header(p))
<1>1. CASE net' = [net EXCEPT ![e] = @ \ {p}]
  <2>1. Headers' = [Headers EXCEPT ![e] = @ \ {Header(p)}]
    BY <1>1, HeaderTaken
  <2> QED BY <2>1 DEF Datagram, L!Take, Headers
<1>2. CASE e \in Duplicate /\ UNCHANGED net
  BY <1>2 DEF Datagram, L!Take
<1> QED BY <1>1, <1>2 DEF Datagram

\* Every step of a session is a step of Link or leaves its variables alone.
LEMMA StepRefines ==
  ASSUME net \in [End -> SUBSET Packet], NumbersDiffer, [Next]_vars
  PROVE  [L!Next]_L!linkVars
<1>1. ASSUME NEW p \in net["client"], ClientAccept(p) \/ ClientAbort(p)
      PROVE  L!ClientReceive
  <2>1. "client" \in End
    BY Ends
  <2>2. Header(p) \in L!Deliverable("client") /\ L!Take("client", Header(p))
    BY <1>1, <2>1, DatagramTakes DEF ClientAccept, ClientAbort
  <2>3. /\ L!Accept("client", Header(p)) \/ L!Abort("client", Header(p))
        /\ L!Running("client") /\ UNCHANGED open
    BY <1>1, HeaderIsRead DEF ClientAccept, ClientAbort, Step
  <2> QED BY <2>2, <2>3 DEF L!ClientReceive
<1>2. ASSUME NEW p \in net["server"], ServerAccept(p) \/ ServerIgnore(p) \/ ServerAbort(p)
      PROVE  L!ServerReceive
  <2>1. "server" \in End
    BY Ends
  <2>2. Header(p) \in L!Deliverable("server") /\ L!Take("server", Header(p))
    BY <1>2, <2>1, DatagramTakes DEF ServerAccept, ServerIgnore, ServerAbort
  <2>3. /\ \/ L!Accept("server", Header(p)) \/ L!Ignore("server", Header(p))
           \/ L!Abort("server", Header(p))
        /\ L!Running("server") /\ open' = [open EXCEPT !["server"] = TRUE]
    BY <1>2, HeaderIsRead DEF ServerAccept, ServerIgnore, ServerAbort, Step
  <2> QED BY <2>2, <2>3 DEF L!ServerReceive
<1>3. CASE Lose
  <2>1. PICK e \in End : \E p \in net[e] :
          /\ net' = [net EXCEPT ![e] = @ \ {p}]
          /\ UNCHANGED <<seq, seqBit, remoteSeq, remoteBit, open, halted, accepted>>
    BY <1>3 DEF Lose
  <2>2. PICK p \in net[e] :
          /\ net' = [net EXCEPT ![e] = @ \ {p}]
          /\ UNCHANGED <<seq, seqBit, remoteSeq, remoteBit, open, halted, accepted>>
    BY <2>1
  <2>3. Headers' = [Headers EXCEPT ![e] = @ \ {Header(p)}]
    BY <2>2, HeaderTaken
  <2>4. Header(p) \in Headers[e] /\ e \in L!End
    BY Ends DEF Headers
  <2> QED BY <2>2, <2>3, <2>4 DEF L!Lose, L!Next, Headers
<1>4. CASE ClientSend \/ ServerSend
  BY <1>4 DEF ClientSend, ServerSend, SendPacket, L!ClientSend, L!ServerSend, L!Next
<1>5. CASE ClientNoDatagram \/ ServerNoDatagram \/ ServerSkip \/ UNCHANGED vars
  BY <1>5 DEF ClientNoDatagram, ServerNoDatagram, ServerSkip, vars, linkPart, L!linkVars
<1> QED BY <1>1, <1>2, <1>3, <1>4, <1>5 DEF Next, ClientPoll, ServerPoll, L!Next

-----------------------------------------------------------------------------
(***************************************************************************)
(* The queues                                                              *)
(***************************************************************************)

\* What QueuesHold says of e.
QueueHolds(e) ==
  IF status[e] = "none" THEN queue[e] = EmptyQueue /\ critical[e] = {}
  ELSE \E i \in Slot :
    /\ Alone(queue[e], i, Own(e))
    /\ \/ queue[e].begin = i /\ queue[e].next = Advance(i)
       \/ queue[e].begin = queue[e].next /\ (e \notin heard => Marked(e, i))

LEMMA QueuesAre == QueuesHold <=> \A e \in End : QueueHolds(e)
BY DEF QueuesHold, QueueHolds

\* The messages.
LEMMA MessageFacts ==
  /\ \A m \in Message : m.size = 1 /\ m.critical \in BOOLEAN
  /\ NoMessage \in Message /\ ~ NoMessage.critical
  /\ \A e \in End : Own(e) \in Message /\ Own(e).critical
BY DEF Message, AuthMessage, ReplyMessage, NoMessage, Own

\* A queue that is as new is a queue.
LEMMA EmptyIs ==
  /\ EmptyQueue \in QueueMessage
  /\ EmptyQueue.begin = 0 /\ EmptyQueue.next = 0
  /\ EmptyQueue.msgs = [i \in Slot |-> NoMessage]
BY SlotFacts, MessageFacts, RingFacts DEF EmptyQueue, QueueMessage, Slot

\* Where a message that is alone is held, and where it waits.
LEMMA AloneFacts ==
  ASSUME NEW q \in QueueMessage, NEW i \in Slot, NEW m, m.critical, Alone(q, i, m)
  PROVE  /\ \A j \in Slot : q.msgs[j].critical <=> j = i
         /\ \A bit, j : j \in Slot /\ Carried(q, bit, j) => j = i /\ q.sent[i] = bit
         /\ q.begin = i /\ q.next = Advance(i) => i \in Waiting(q)
<1>1. \A j \in Slot : q.msgs[j].critical <=> j = i
  BY MessageFacts DEF Alone, Only
<1>2. q.begin = i /\ q.next = Advance(i) => i \in Waiting(q)
  BY AdvanceFacts DEF Waiting
<1> QED BY <1>1, <1>2 DEF Carried

\* The first message put into a queue waits in its first slot.
LEMMA PutFirst ==
  ASSUME NEW bits, NEW m, NEW unset
  PROVE  PutMessage(bits, EmptyQueue, m, unset) =
           [msgs |-> Only(0, m), sent |-> EmptyQueue.sent, begin |-> 0, next |-> 1,
            ended |-> "no"]
<1>1. 0 \in Slot /\ 0 + 0 = 0 /\ 0 + 0 < Slots
  BY SlotFacts DEF Slot
<1>2. 0 % Slots = 0
  BY <1>1, SlotMod
<1>3. [[i \in Slot |-> NoMessage] EXCEPT ![0] = m] = Only(0, m)
  BY <1>1 DEF Only
<1> DEFINE q == EmptyQueue
<1>4. ~ q.msgs[q.next % Slots].critical /\ q.next + 1 # q.begin
  BY <1>1, <1>2, EmptyIs, MessageFacts
<1> HIDE DEF q
<1>5. PutMessage(bits, q, m, unset) =
        [q EXCEPT !.msgs = [q.msgs EXCEPT ![q.next % Slots] = m], !.next = q.next + 1]
  BY <1>4 DEF PutMessage
<1>6. q.msgs = [i \in Slot |-> NoMessage] /\ q.next % Slots = 0 /\ q.next + 1 = 1
  BY <1>2, EmptyIs DEF q
<1>7. [q.msgs EXCEPT ![q.next % Slots] = m] = Only(0, m)
  BY <1>3, <1>6
<1> QED BY <1>5, <1>6, <1>7 DEF q, EmptyQueue

\* The loss check leaves a queue that is as new alone.  Of the message of e it leaves
\* one copy, and that waits if the packet that carried it is about to be forgotten.
LEMMA CheckedHolds ==
  ASSUME SessionInv, NEW e \in End
  PROVE  /\ Checked(e) \in QueueMessage
         /\ status[e] = "none" => Checked(e) = EmptyQueue
         /\ status[e] # "none" => \E i \in Slot :
              /\ Alone(Checked(e), i, Own(e))
              /\ \/ Checked(e).begin = i /\ Checked(e).next = Advance(i)
                 \/ /\ Checked(e).begin = Checked(e).next
                    /\ e \notin heard =>
                         /\ Checked(e).sent[i] \in critical[e]
                         /\ Checked(e).sent[i] # SeqIndex(SeqInc(seq[e]))
<1> DEFINE q == queue[e]
           oldest == SeqIndex(SeqInc(seq[e]))
<1>1. q \in QueueMessage /\ Own(e) \in Message /\ Own(e).critical /\ QueueHolds(e)
  BY MessageFacts, QueuesAre DEF SessionInv, TypeOK
<1>2. CASE status[e] = "none"
  BY <1>1, <1>2, EmptyIs DEF Checked, QueueHolds
<1>3. CASE status[e] # "none"
  <2>1. PICK i \in Slot :
          /\ Alone(q, i, Own(e))
          /\ \/ q.begin = i /\ q.next = Advance(i)
             \/ q.begin = q.next /\ (e \notin heard => Marked(e, i))
    BY <1>1, <1>3 DEF QueueHolds
  <2>2. \A j \in Slot : Carried(q, oldest, j) => j = i /\ q.sent[i] = oldest
    BY <1>1, <2>1, AloneFacts
  <2>3. e \notin heard => critical[e] \intersect seqBit[e] = {}
    BY Ends DEF SessionInv, L!LinkInv, L!AckSound, AcceptedHeard
  <2>4. CASE /\ Checked(e) = q
             /\ q.begin = q.next /\ q.sent[i] = oldest =>
                  oldest \notin critical[e] \/ oldest \in seqBit[e]
    BY <1>1, <1>3, <2>1, <2>3, <2>4 DEF Marked
  <2>5. CASE oldest \notin seqBit[e] /\ oldest \in critical[e]
    <3>1. Checked(e) = Resend(q, oldest)
      BY <2>5 DEF Checked
    <3>2. CASE q.begin = q.next /\ q.sent[i] = oldest
      <4> DEFINE r == [msgs |-> Only(q.begin, Own(e)), sent |-> q.sent, begin |-> q.begin,
                       next |-> Advance(q.begin), ended |-> "no"]
      <4>1. Checked(e) = r
        <5>1. Resend(q, oldest) = r
          BY <1>1, <2>1, <3>2, ResendMoves
        <5> QED BY <3>1, <5>1
      <4>2. q.begin \in Slot /\ Advance(q.begin) \in Slot
        BY <1>1, QueueFields, AdvanceFacts
      <4>3. /\ r \in QueueMessage /\ r.begin = q.begin /\ r.next = Advance(q.begin)
            /\ Alone(r, q.begin, Own(e))
        BY <1>1, <4>2, MessageFacts DEF QueueMessage, Alone, Only
      <4> QED BY <1>3, <4>1, <4>2, <4>3
    <3>3. CASE ~ (q.begin = q.next /\ q.sent[i] = oldest)
      <4>1. Checked(e) = q
        BY <1>1, <2>1, <2>2, <3>1, <3>3, ResendNothing
      <4> QED BY <2>4, <3>3, <4>1
    <3> QED BY <3>2, <3>3
  <2>6. CASE ~ (oldest \notin seqBit[e] /\ oldest \in critical[e])
    BY <2>4, <2>6 DEF Checked
  <2> QED BY <2>5, <2>6
<1> QED BY <1>2, <1>3

\* The operators and the types of Link are those of a session.
LEMMA SameOperators ==
  /\ \A a, b : L!SeqSub(a, b) = SeqSub(a, b)
  /\ \A a : L!SeqInc(a) = SeqInc(a) /\ L!SeqIndex(a) = SeqIndex(a)
  /\ L!Bit = Bit /\ L!SeqNum = SeqNum
BY DEF L!SeqSub, SeqSub, L!SeqInc, SeqInc, L!UINT_MAX, UINT_MAX, L!SeqIndex, SeqIndex,
       L!Bit, Bit, L!SeqNum, SeqNum

LEMMA LinkTypes ==
  ASSUME L!TypeOK
  PROVE  /\ seq \in [End -> SeqNum] /\ remoteSeq \in [End -> SeqNum]
         /\ remoteBit \in [End -> SUBSET Bit]
         /\ accepted \in [End -> SUBSET Bit] /\ seqBit \in [End -> SUBSET Bit]
         /\ halted \in [End -> {"no", "ack", "order", "gap"}]
BY Ends, SameOperators DEF L!TypeOK

\* A poll leaves the queue of its endpoint as the loss check does, or puts the
\* message into it.
LEMMA PollHolds ==
  ASSUME SessionInv, NEW e \in End,
         critical'[e] = critical[e], seq'[e] = seq[e], heard \subseteq heard',
         \/ queue'[e] = Checked(e) /\ status'[e] = status[e]
         \/ /\ status[e] = "none" /\ status'[e] # "none"
            /\ \E bits, unset : queue'[e] = PutMessage(bits, Checked(e), Own(e), unset)
  PROVE  QueueHolds(e)' /\ queue'[e] \in QueueMessage
<1>1. CASE queue'[e] = Checked(e) /\ status'[e] = "none" /\ status[e] = "none"
  <2>1. critical[e] = {}
    BY <1>1, QueuesAre DEF SessionInv, QueueHolds
  <2> QED BY <1>1, <2>1, CheckedHolds DEF QueueHolds
<1>2. CASE queue'[e] = Checked(e) /\ status'[e] = status[e] /\ status[e] # "none"
  <2>1. Checked(e) \in QueueMessage
    BY CheckedHolds
  <2>2. PICK i \in Slot :
          /\ Alone(Checked(e), i, Own(e))
          /\ \/ Checked(e).begin = i /\ Checked(e).next = Advance(i)
             \/ /\ Checked(e).begin = Checked(e).next
                /\ e \notin heard =>
                     /\ Checked(e).sent[i] \in critical[e]
                     /\ Checked(e).sent[i] # SeqIndex(SeqInc(seq[e]))
    BY <1>2, CheckedHolds
  <2>3. /\ Alone(queue[e], i, Own(e))'
        /\ \/ queue'[e].begin = i /\ queue'[e].next = Advance(i)
           \/ queue'[e].begin = queue'[e].next /\ (e \notin heard' => Marked(e, i)')
    BY <1>2, <2>2 DEF Marked, Alone
  <2> QED BY <1>2, <2>1, <2>3 DEF QueueHolds
<1>3. ASSUME NEW bits, NEW unset, status[e] = "none", status'[e] # "none",
             queue'[e] = PutMessage(bits, Checked(e), Own(e), unset)
      PROVE  QueueHolds(e)' /\ queue'[e] \in QueueMessage
  <2>1. queue'[e] = [msgs |-> Only(0, Own(e)), sent |-> EmptyQueue.sent, begin |-> 0,
                     next |-> 1, ended |-> "no"]
    BY <1>3, CheckedHolds, PutFirst
  <2>2. 0 \in Slot /\ 1 \in Slot /\ Advance(0) = 1
    BY AdvanceFacts, SlotFacts DEF Slot
  <2>3. queue'[e] \in QueueMessage
    BY <2>1, <2>2, EmptyIs, MessageFacts, QueueFields DEF QueueMessage, Only
  <2>4. Alone(queue[e], 0, Own(e))' /\ queue'[e].begin = 0 /\ queue'[e].next = Advance(0)
    BY <2>1, <2>2 DEF Alone
  <2> QED BY <1>3, <2>2, <2>3, <2>4 DEF QueueHolds
<1> QED BY <1>1, <1>2, <1>3

\* An endpoint that does not poll or send keeps what its queue holds.
LEMMA IdleHolds ==
  ASSUME SessionInv, NEW e \in End,
         queue'[e] = queue[e], status'[e] = status[e], critical'[e] = critical[e],
         seq'[e] = seq[e], heard \subseteq heard',
         L!Running(e)' /\ phase'[e] = "send" => L!Running(e) /\ phase[e] = "send"
  PROVE  QueueHolds(e)'
<1>1. QueueHolds(e)
  BY QueuesAre DEF SessionInv
<1>2. \A i \in Slot : /\ Alone(queue[e], i, Own(e))' <=> Alone(queue[e], i, Own(e))
                      /\ Marked(e, i) => Marked(e, i)'
  BY DEF Alone, Marked
<1>3. CASE status[e] = "none"
  BY <1>1, <1>3 DEF QueueHolds
<1>4. CASE status[e] # "none"
  <2>1. PICK i \in Slot :
          /\ Alone(queue[e], i, Own(e))
          /\ \/ queue[e].begin = i /\ queue[e].next = Advance(i)
             \/ queue[e].begin = queue[e].next /\ (e \notin heard => Marked(e, i))
    BY <1>1, <1>4 DEF QueueHolds
  <2>2. /\ Alone(queue[e], i, Own(e))'
        /\ \/ queue'[e].begin = i /\ queue'[e].next = Advance(i)
           \/ queue'[e].begin = queue'[e].next /\ (e \notin heard' => Marked(e, i)')
    BY <1>2, <2>1
  <2> QED BY <1>4, <2>2 DEF QueueHolds
<1> QED BY <1>3, <1>4

\* A send takes the message that waits with it, and nothing else.
LEMMA SendHolds ==
  ASSUME SessionInv, NEW e \in End, Step(e, "send", "recv"), SendPacket(e)
  PROVE  LET bit  == SeqIndex(SeqInc(seq[e]))
             pack == Pack(queue[e], bit)
         IN  /\ QueueHolds(e)' /\ queue'[e] \in QueueMessage
             /\ pack.load \in Seq(Message)
             /\ HasCritical(pack.load) => pack.load = <<Own(e)>>
<1> DEFINE bit == SeqIndex(SeqInc(seq[e]))
           q == queue[e]
           pack == Pack(queue[e], bit)
<1>1. /\ q \in QueueMessage /\ QueueHolds(e) /\ seq[e] \in SeqNum /\ bit \in Bit
      /\ Own(e) \in Message /\ Own(e).critical /\ Own(e).size = 1
  <2>1. q \in QueueMessage /\ QueueHolds(e) /\ seq[e] \in SeqNum
    BY QueuesAre, LinkTypes DEF SessionInv, TypeOK
  <2> QED BY <2>1, IncType, IndexBit, MessageFacts
<1>2. /\ queue'[e] = pack.queue /\ status'[e] = status[e] /\ heard' = heard
      /\ critical'[e] = IF HasCritical(pack.load) THEN critical[e] \union {bit}
                        ELSE critical[e] \ {bit}
      /\ phase[e] = "send" /\ phase'[e] = "recv" /\ L!Running(e)
  BY DEF SendPacket, Step, SessionInv, TypeOK
<1>3. ~ HasCritical(<<>>) /\ <<>> \in Seq(Message)
  BY DEF HasCritical
<1>4. CASE q.begin = q.next
  <2>1. pack = [queue |-> q, load |-> <<>>, used |-> 0]
    BY <1>1, <1>4, PackNone
  <2>2. queue'[e] = q /\ pack.load = <<>> /\ critical'[e] = critical[e] \ {bit}
    BY <1>2, <1>3, <2>1
  <2>3. CASE status[e] = "none"
    BY <1>1, <1>2, <1>3, <2>2, <2>3 DEF QueueHolds
  <2>4. CASE status[e] # "none"
    <3>1. PICK i \in Slot :
            /\ Alone(q, i, Own(e))
            /\ \/ q.begin = i /\ q.next = Advance(i)
               \/ q.begin = q.next /\ (e \notin heard => Marked(e, i))
      BY <1>1, <2>4 DEF QueueHolds
    <3>2. e \notin heard => Marked(e, i)
      BY <1>4, <3>1, AdvanceFacts
    <3>3. e \notin heard' => Marked(e, i)'
      BY <1>2, <2>2, <3>2 DEF Marked
    <3>4. QueueHolds(e)'
      BY <1>2, <1>4, <2>2, <2>4, <3>1, <3>3 DEF QueueHolds, Alone
    <3> QED BY <1>1, <1>3, <2>2, <3>4
  <2> QED BY <2>3, <2>4
<1>5. CASE q.begin # q.next
  <2>1. status[e] # "none"
    BY <1>1, <1>5, EmptyIs DEF QueueHolds
  <2>2. PICK i \in Slot : Alone(q, i, Own(e)) /\ q.begin = i /\ q.next = Advance(i)
    BY <1>1, <1>5, <2>1 DEF QueueHolds
  <2>3. q.msgs[i] = Own(e)
    BY <2>2 DEF Alone, Only
  <2>4. pack = [queue |-> [msgs |-> q.msgs, sent |-> [q.sent EXCEPT ![i] = bit],
                           begin |-> Advance(i), next |-> q.next, ended |-> "no"],
                load |-> <<Own(e)>>, used |-> 1]
    <3>1. q.next = Advance(q.begin) /\ q.msgs[q.begin].size = 1
      BY <1>1, <2>2, <2>3
    <3>2. Pack(q, bit) =
            [queue |-> [msgs |-> q.msgs, sent |-> [q.sent EXCEPT ![q.begin] = bit],
                        begin |-> Advance(q.begin), next |-> q.next, ended |-> "no"],
             load |-> <<q.msgs[q.begin]>>, used |-> 1]
      BY <1>1, <3>1, PackOne
    <3> QED BY <2>2, <2>3, <3>2
  <2>5. HasCritical(<<Own(e)>>) /\ <<Own(e)>> \in Seq(Message)
    BY <1>1 DEF HasCritical
  <2>6. /\ queue'[e] \in QueueMessage
        /\ queue'[e].msgs = q.msgs /\ queue'[e].sent[i] = bit
        /\ queue'[e].begin = queue'[e].next
        /\ critical'[e] = critical[e] \union {bit} /\ pack.load = <<Own(e)>>
    <3>1. queue'[e] = [msgs |-> q.msgs, sent |-> [q.sent EXCEPT ![i] = bit],
                       begin |-> Advance(i), next |-> q.next, ended |-> "no"]
      BY <1>2, <2>4
    <3>2. [q.sent EXCEPT ![i] = bit] \in [Slot -> 0 .. NotSet]
      BY <1>1, QueueFields, SlotFacts, RingFacts DEF Bit
    <3>3. queue'[e] \in QueueMessage
      BY <1>1, <2>2, <3>1, <3>2, QueueFields, AdvanceFacts DEF QueueMessage
    <3>4. q.sent \in [Slot -> 0 .. NotSet]
      BY <1>1, QueueFields
    <3> QED BY <1>2, <2>2, <2>4, <2>5, <3>1, <3>3, <3>4
  <2>7. Marked(e, i)' /\ Alone(queue[e], i, Own(e))'
    BY <1>2, <2>2, <2>6 DEF Marked, Alone
  <2>8. QueueHolds(e)'
    BY <1>2, <2>1, <2>6, <2>7 DEF QueueHolds
  <2> QED BY <2>5, <2>6, <2>8
<1> QED BY <1>4, <1>5

-----------------------------------------------------------------------------
(***************************************************************************)
(* The packets in flight, and what arrived                                 *)
(***************************************************************************)

\* The numbers, the packets in flight and the headers that Link sees of them.
LEMMA NetFacts ==
  ASSUME SessionInv
  PROVE  /\ net \in [End -> SUBSET Packet]
         /\ critical \in [End -> SUBSET Bit] /\ accepted \in [End -> SUBSET Bit]
         /\ \A e \in End : seq[e] \in SeqNum
         /\ \A e \in End : \A p \in net[e] :
              p.seq \in SeqNum /\ p.load \in Seq(Message) /\ Header(p) \in Headers[e]
<1>1. net \in [End -> SUBSET Packet] /\ critical \in [End -> SUBSET Bit] /\ L!TypeOK
  BY DEF SessionInv, TypeOK
<1>2. \A e \in End : Headers[e] = {Header(p) : p \in net[e]}
  BY Ends DEF Headers
<1> QED BY <1>1, <1>2, LinkTypes DEF Packet

\* While nothing is sent, packets that leave the network disturb nothing.
LEMMA NetKept ==
  ASSUME SessionInv, seq' = seq, critical' = critical,
         \A x \in End : net'[x] \subseteq net[x]
  PROVE  NumbersDiffer' /\ LoadsMarked'
<1>1. NumbersDiffer'
  BY DEF SessionInv, NumbersDiffer
<1>2. LoadsMarked'
  BY Ends DEF SessionInv, LoadsMarked
<1> QED BY <1>1, <1>2

\* A new packet has a number of its own and is marked by what it carries.  It takes
\* the bit of no packet that the sender still remembers.
LEMMA SendNet ==
  ASSUME SessionInv, NEW e \in End, Step(e, "send", "recv"), SendPacket(e)
  PROVE  /\ net' \in [End -> SUBSET Packet] /\ critical' \in [End -> SUBSET Bit]
         /\ NumbersDiffer' /\ LoadsMarked' /\ AcceptedHeard'
<1> DEFINE f == Peer(e)
           n == SeqInc(seq[e])
           i == SeqIndex(n)
           pack == Pack(queue[e], i)
           p == [seq |-> n, ack |-> remoteSeq[e], ackBit |-> remoteBit[e],
                 load |-> pack.load]
<1>1. /\ f \in End /\ f # e /\ Peer(f) = e /\ \A x \in End : x = e \/ x = f
      /\ seq[e] \in SeqNum /\ n \in SeqNum /\ i \in Bit
  BY Ends, NetFacts, IncType, IndexBit
<1>2. /\ pack.load \in Seq(Message)
      /\ HasCritical(pack.load) => pack.load = <<Own(e)>>
  BY SendHolds
<1>3. p \in Packet
  BY <1>1, <1>2, LinkTypes DEF Packet, SessionInv, TypeOK
<1>4. /\ net' = [net EXCEPT ![f] = @ \union {p}]
      /\ critical' = [critical EXCEPT ![e] = IF HasCritical(pack.load) THEN @ \union {i}
                                             ELSE @ \ {i}]
      /\ heard' = heard /\ L!Send(e)
  BY DEF SendPacket
<1>5. /\ seq' = [seq EXCEPT ![e] = n]
      /\ accepted' = [accepted EXCEPT ![e] = @ \ {i}]
      /\ \A h \in Headers[f] : SeqSub(seq[e], h.seq) < MaxLag
  BY <1>4, Ends, SameOperators DEF L!Send, L!InHorizon, Headers
<1> HIDE DEF p, pack, n, i, f
<1>6. /\ net'[f] = net[f] \union {p} /\ net'[e] = net[e]
      /\ critical'[f] = critical[f]
      /\ critical'[e] = IF HasCritical(pack.load) THEN critical[e] \union {i}
                        ELSE critical[e] \ {i}
      /\ seq'[e] = n /\ seq'[f] = seq[f]
      /\ accepted'[f] = accepted[f] /\ accepted'[e] = accepted[e] \ {i}
  BY <1>1, <1>4, <1>5, NetFacts, LinkTypes DEF SessionInv, TypeOK
<1>7. /\ net' \in [End -> SUBSET Packet] /\ critical' \in [End -> SUBSET Bit]
  BY <1>1, <1>3, <1>4, NetFacts
<1>8. p.seq = n /\ p.load = pack.load
  BY DEF p
<1>9. ASSUME NEW q \in net[f]
      PROVE  /\ q.seq \in SeqNum /\ q.seq # n
             /\ SeqSub(n, q.seq) = SeqSub(seq[e], q.seq) + 1
             /\ SeqSub(seq[e], q.seq) \in Nat
             /\ SeqSub(n, q.seq) < Window => SeqIndex(q.seq) # i
  <2>1. /\ q.seq \in SeqNum /\ SeqSub(seq[e], q.seq) \in Nat
        /\ SeqSub(seq[e], q.seq) < MaxLag
    BY <1>1, <1>5, NetFacts, SubNat DEF Header
  <2>2. SeqSub(seq[e], q.seq) < UINT_MAX
    BY <2>1, SessionAssumption, HalfFacts, RingFacts DEF UINT_MAX
  <2>3. SeqSub(n, q.seq) = SeqSub(seq[e], q.seq) + 1
    BY <1>1, <2>1, <2>2, IncSub DEF n
  <2>4. q.seq # n
    BY <1>1, <2>1, <2>3, SubType
  <2>5. SeqSub(n, q.seq) < Window => SeqIndex(q.seq) # i
    <3> SUFFICES ASSUME SeqSub(n, q.seq) < Window, SeqIndex(q.seq) = i
                 PROVE  FALSE
      OBVIOUS
    <3>1. i = BitBefore(i, SeqSub(n, q.seq))
      BY <1>1, <2>1, IndexBefore DEF i
    <3>2. SeqSub(n, q.seq) \in Bit /\ 0 \in Bit
      BY <2>1, <2>3, RingFacts DEF Bit
    <3> QED BY <1>1, <2>1, <2>3, <3>1, <3>2, BeforeZero, BeforeInjective
  <2> QED BY <2>1, <2>3, <2>4, <2>5
<1>10. NumbersDiffer'
  <2>1. \A a, b \in net'[f] : a.seq = b.seq => a = b
    BY <1>6, <1>8, <1>9, <1>1 DEF SessionInv, NumbersDiffer
  <2>2. \A a, b \in net'[e] : a.seq = b.seq => a = b
    BY <1>6 DEF SessionInv, NumbersDiffer
  <2> QED BY <1>1, <2>1, <2>2 DEF NumbersDiffer
<1>11. LoadsMarked'
  <2>1. \A q \in net'[f] : SeqSub(seq'[e], q.seq) < Window /\ SeqIndex(q.seq) \in critical'[e]
                             => q.load = <<Own(e)>>
    <3>1. ASSUME NEW q \in net[f], SeqSub(n, q.seq) < Window, SeqIndex(q.seq) \in critical'[e]
          PROVE  q.load = <<Own(e)>>
      <4>1. SeqSub(seq[e], q.seq) < Window /\ SeqIndex(q.seq) \in critical[e]
        BY <1>6, <1>9, <3>1, RingFacts
      <4> QED BY <4>1 DEF SessionInv, LoadsMarked, f
    <3>2. SeqIndex(p.seq) \in critical'[e] => p.load = <<Own(e)>>
      BY <1>2, <1>6, <1>8 DEF i
    <3> QED BY <1>6, <3>1, <3>2
  <2>2. \A q \in net'[e] : SeqSub(seq'[f], q.seq) < Window /\ SeqIndex(q.seq) \in critical'[f]
                             => q.load = <<Own(f)>>
    BY <1>1, <1>6 DEF SessionInv, LoadsMarked
  <2> QED BY <1>1, <2>1, <2>2 DEF LoadsMarked, f
<1>12. AcceptedHeard'
  BY <1>1, <1>4, <1>6 DEF SessionInv, AcceptedHeard
<1> QED BY <1>7, <1>10, <1>11, <1>12

\* A critical packet that is accepted is processed: its message is the first of it.
LEMMA AcceptHears ==
  ASSUME SessionInv, NEW e \in End, NEW p \in net[e], L!Accept(e, p),
         critical' = critical,
         heard' = IF Own(Peer(e)).type \in Parsed(p) THEN heard \union {Peer(e)} ELSE heard
  PROVE  AcceptedHeard'
<1> DEFINE f == Peer(e)
<1>1. f \in End /\ f # e /\ Peer(f) = e /\ \A x \in End : x = e \/ x = f
  BY Ends
<1>2. accepted' = [accepted EXCEPT ![f] = IF SeqSub(seq[f], p.seq) < Window
                                          THEN @ \union {SeqIndex(p.seq)} ELSE @]
  BY Ends, SameOperators DEF L!Accept
<1>3. /\ SeqSub(seq[f], p.seq) < Window => accepted'[f] = accepted[f] \union {SeqIndex(p.seq)}
      /\ ~ (SeqSub(seq[f], p.seq) < Window) => accepted'[f] = accepted[f]
      /\ accepted'[e] = accepted[e]
  BY <1>1, <1>2, NetFacts
<1>4. SeqSub(seq[f], p.seq) < Window /\ SeqIndex(p.seq) \in critical[f] => f \in heard'
  <2> HAVE SeqSub(seq[f], p.seq) < Window /\ SeqIndex(p.seq) \in critical[f]
  <2>1. p.load = <<Own(f)>>
    BY <1>1 DEF SessionInv, LoadsMarked
  <2>2. Parsed(p) = {Own(f).type}
    BY <2>1 DEF Parsed
  <2> QED BY <2>2
<1>5. f \in heard => f \in heard'
  OBVIOUS
<1>6. critical'[f] \intersect accepted'[f] # {} => f \in heard'
  BY <1>1, <1>3, <1>4, <1>5 DEF SessionInv, AcceptedHeard
<1>7. critical'[e] \intersect accepted'[e] # {} => e \in heard'
  BY <1>1, <1>3 DEF SessionInv, AcceptedHeard
<1> QED BY <1>1, <1>6, <1>7 DEF AcceptedHeard

-----------------------------------------------------------------------------
(***************************************************************************)
(* Every step keeps the invariant                                          *)
(***************************************************************************)

\* What is left to show of a step that sends nothing.
LEMMA KeepStep ==
  ASSUME SessionInv, L!LinkInv', seq' = seq, critical' = critical, lossy' = lossy,
         net' \in [End -> SUBSET Packet], \A x \in End : net'[x] \subseteq net[x],
         phase' \in [End -> Phase], status' \in [End -> {"none", "trying_auth"}],
         queue' \in [End -> QueueMessage], heard' \in SUBSET End,
         \A x \in End : QueueHolds(x)', AcceptedHeard'
  PROVE  SessionInv'
<1>1. TypeOK'
  BY DEF SessionInv, TypeOK, L!LinkInv
<1>2. QueuesHold'
  BY DEF QueuesHold, QueueHolds
<1> QED BY <1>1, <1>2, NetKept DEF SessionInv

\* Reading a datagram only takes packets from the network.
LEMMA DatagramNet ==
  ASSUME SessionInv, NEW e \in End, NEW p \in net[e], Datagram(e, p)
  PROVE  /\ net' \in [End -> SUBSET Packet]
         /\ \A x \in End : net'[x] \subseteq net[x]
BY NetFacts DEF Datagram

\* Where nothing more is accepted and nothing unheard, what was accepted stays heard.
LEMMA HeardKept ==
  ASSUME SessionInv, critical' = critical, accepted' = accepted, heard' = heard
  PROVE  AcceptedHeard'
BY DEF SessionInv, AcceptedHeard

\* The poll of e that leaves its queue as q, in which its message is, or as the loss
\* check does.
LEMMA PollStep ==
  ASSUME SessionInv, L!LinkInv', NEW e \in End, Step(e, "recv", "send"),
         seq' = seq, halted' = halted, critical' = critical,
         net' \in [End -> SUBSET Packet], \A x \in End : net'[x] \subseteq net[x],
         heard \subseteq heard', heard' \in SUBSET End, AcceptedHeard',
         NEW q, queue' = [queue EXCEPT ![e] = q],
         \/ q = Checked(e) /\ (status' = status \/ status' = [status EXCEPT ![e] = status[e]])
         \/ /\ status[e] = "none" /\ status' = [status EXCEPT ![e] = "trying_auth"]
            /\ \E bits, unset : q = PutMessage(bits, Checked(e), Own(e), unset)
  PROVE  SessionInv'
<1>1. /\ queue \in [End -> QueueMessage] /\ phase \in [End -> Phase]
      /\ status \in [End -> {"none", "trying_auth"}]
  BY DEF SessionInv, TypeOK
<1>2. /\ queue'[e] = q /\ \A x \in End : x # e => queue'[x] = queue[x]
      /\ status' \in [End -> {"none", "trying_auth"}]
      /\ \A x \in End : x # e => status'[x] = status[x]
      /\ phase' = [phase EXCEPT ![e] = "send"] /\ lossy' = lossy
  BY <1>1 DEF Step
<1>3. QueueHolds(e)' /\ queue'[e] \in QueueMessage
  <2>1. CASE q = Checked(e) /\ (status' = status \/ status' = [status EXCEPT ![e] = status[e]])
    <3>1. status'[e] = status[e]
      BY <1>1, <2>1
    <3> QED BY <1>2, <2>1, <3>1, PollHolds
  <2>2. ASSUME NEW bits, NEW unset, status[e] = "none",
               status' = [status EXCEPT ![e] = "trying_auth"],
               q = PutMessage(bits, Checked(e), Own(e), unset)
        PROVE  QueueHolds(e)' /\ queue'[e] \in QueueMessage
    <3>1. status'[e] # "none"
      BY <1>1, <2>2
    <3> QED BY <1>2, <2>2, <3>1, PollHolds
  <2> QED BY <2>1, <2>2
<1>4. ASSUME NEW x \in End, x # e PROVE QueueHolds(x)'
  <2>1. phase'[x] = phase[x] /\ halted'[x] = halted[x]
    BY <1>1, <1>2, <1>4
  <2>2. L!Running(x)' /\ phase'[x] = "send" => L!Running(x) /\ phase[x] = "send"
    BY <2>1 DEF L!Running
  <2> QED BY <1>2, <1>4, <2>2, IdleHolds
<1>5. queue' \in [End -> QueueMessage] /\ phase' \in [End -> Phase]
  BY <1>1, <1>2, <1>3 DEF Phase
<1> QED BY <1>2, <1>3, <1>4, <1>5, KeepStep

\* A step in which no endpoint runs its loss check or sends.
LEMMA IdleStep ==
  ASSUME SessionInv, L!LinkInv', seq' = seq, critical' = critical, lossy' = lossy,
         accepted' = accepted, heard' = heard, queue' = queue, status' = status,
         net' \in [End -> SUBSET Packet], \A x \in End : net'[x] \subseteq net[x],
         phase' \in [End -> Phase],
         \A x \in End : L!Running(x)' /\ phase'[x] = "send"
                          => L!Running(x) /\ phase[x] = "send"
  PROVE  SessionInv'
<1>1. \A x \in End : QueueHolds(x)'
  BY IdleHolds
<1>2. /\ queue' \in [End -> QueueMessage] /\ heard' \in SUBSET End
      /\ status' \in [End -> {"none", "trying_auth"}]
  BY DEF SessionInv, TypeOK
<1> QED BY <1>1, <1>2, HeardKept, KeepStep

\* An Assert that fails ends the endpoint: its queue is as it was, for nobody.
LEMMA AbortStep ==
  ASSUME SessionInv, L!LinkInv', NEW e \in End, NEW p \in net[e],
         Step(e, "recv", "send"), Datagram(e, p), L!Abort(e, p),
         UNCHANGED <<status, queue, critical, heard>>
  PROVE  SessionInv'
<1>1. /\ seq' = seq /\ accepted' = accepted /\ lossy' = lossy
      /\ phase' = [phase EXCEPT ![e] = "send"]
      /\ phase \in [End -> Phase] /\ halted \in [End -> {"no", "ack", "order", "gap"}]
  BY LinkTypes DEF L!Abort, Step, SessionInv, TypeOK
<1>2. PICK h : h # "no" /\ halted' = [halted EXCEPT ![e] = h]
  <2>1. halted' = [halted EXCEPT ![e] = IF ~ L!AckInPast(e, p) THEN "ack"
                                        ELSE IF ~ L!InOrder(e, p) THEN "order" ELSE "gap"]
    BY DEF L!Abort
  <2>2. PICK h : h = IF ~ L!AckInPast(e, p) THEN "ack"
                     ELSE IF ~ L!InOrder(e, p) THEN "order" ELSE "gap"
    OBVIOUS
  <2>3. h # "no"
    BY <2>2
  <2>4. halted' = [halted EXCEPT ![e] = h]
    BY <2>1, <2>2, Zenon
  <2> QED BY <2>3, <2>4
<1>3. \A x \in End : L!Running(x)' /\ phase'[x] = "send" => L!Running(x) /\ phase[x] = "send"
  BY <1>1, <1>2 DEF L!Running
<1>4. phase' \in [End -> Phase]
  BY <1>1 DEF Phase
<1> QED BY <1>1, <1>3, <1>4, DatagramNet, IdleStep

\* An accepted datagram.
LEMMA AcceptStep ==
  ASSUME SessionInv, L!LinkInv', NEW e \in End, NEW p \in net[e],
         Step(e, "recv", "send"), Datagram(e, p), L!Accept(e, p), critical' = critical,
         heard' = IF Own(Peer(e)).type \in Parsed(p) THEN heard \union {Peer(e)} ELSE heard,
         NEW q, queue' = [queue EXCEPT ![e] = q],
         \/ q = Checked(e) /\ (status' = status \/ status' = [status EXCEPT ![e] = status[e]])
         \/ /\ status[e] = "none" /\ status' = [status EXCEPT ![e] = "trying_auth"]
            /\ \E bits, unset : q = PutMessage(bits, Checked(e), Own(e), unset)
  PROVE  SessionInv'
<1>1. seq' = seq /\ halted' = halted
  BY DEF L!Accept
<1>2. heard \subseteq heard' /\ heard' \in SUBSET End
  BY Ends DEF SessionInv, TypeOK
<1>3. AcceptedHeard'
  BY AcceptHears
<1> QED BY <1>1, <1>2, <1>3, DatagramNet, PollStep

\* The status switch of the client creates the request, once.
LEMMA ClientSwitched ==
  ASSUME SessionInv, ClientSwitch
  PROVE  \E q :
           /\ queue' = [queue EXCEPT !["client"] = q]
           /\ \/ /\ q = Checked("client")
                 /\ \/ status' = status
                    \/ status' = [status EXCEPT !["client"] = status["client"]]
              \/ /\ status["client"] = "none"
                 /\ status' = [status EXCEPT !["client"] = "trying_auth"]
                 /\ \E bits, unset :
                      q = PutMessage(bits, Checked("client"), Own("client"), unset)
<1>1. status["client"] \in {"none", "trying_auth"}
  BY Ends DEF SessionInv, TypeOK
<1>2. CASE status["client"] = "none"
  BY <1>2 DEF ClientSwitch, Own
<1>3. CASE status["client"] = "trying_auth"
  BY <1>3 DEF ClientSwitch
<1> QED BY <1>1, <1>2, <1>3

\* The status switch of the server creates the reply, once.
LEMMA ServerSwitched ==
  ASSUME NEW p, ServerSwitch(p)
  PROVE  \E q :
           /\ queue' = [queue EXCEPT !["server"] = q]
           /\ \/ q = Checked("server") /\ status' = status
              \/ /\ status["server"] = "none"
                 /\ status' = [status EXCEPT !["server"] = "trying_auth"]
                 /\ \E bits, unset :
                      q = PutMessage(bits, Checked("server"), Own("server"), unset)
BY DEF ServerSwitch, Own

\* A packet is sent.
LEMMA SendStep ==
  ASSUME SessionInv, L!LinkInv', NEW e \in End, Step(e, "send", "recv"), SendPacket(e)
  PROVE  SessionInv'
<1>1. /\ queue \in [End -> QueueMessage] /\ phase \in [End -> Phase]
      /\ critical \in [End -> SUBSET Bit] /\ seq \in [End -> SeqNum]
  BY LinkTypes DEF SessionInv, TypeOK
<1>2. /\ status' = status /\ heard' = heard /\ lossy' = lossy /\ halted' = halted
      /\ phase' = [phase EXCEPT ![e] = "recv"]
  BY DEF SendPacket, Step, L!Send
<1>3. /\ \E q : queue' = [queue EXCEPT ![e] = q]
      /\ \E c : critical' = [critical EXCEPT ![e] = c]
      /\ \E n : seq' = [seq EXCEPT ![e] = n]
  BY DEF SendPacket, L!Send
<1>4. QueueHolds(e)' /\ queue'[e] \in QueueMessage
  BY SendHolds
<1>5. ASSUME NEW x \in End, x # e PROVE QueueHolds(x)'
  <2>1. queue'[x] = queue[x] /\ critical'[x] = critical[x] /\ seq'[x] = seq[x]
    BY <1>1, <1>3, <1>5
  <2>2. L!Running(x)' /\ phase'[x] = "send" => L!Running(x) /\ phase[x] = "send"
    BY <1>1, <1>2, <1>5 DEF L!Running
  <2> QED BY <1>2, <2>1, <2>2, IdleHolds
<1>6. queue' \in [End -> QueueMessage] /\ phase' \in [End -> Phase]
  BY <1>1, <1>2, <1>3, <1>4 DEF Phase
<1>7. TypeOK'
  BY <1>2, <1>6, SendNet DEF SessionInv, TypeOK, L!LinkInv
<1>8. QueuesHold'
  BY <1>4, <1>5 DEF QueuesHold, QueueHolds
<1> QED BY <1>7, <1>8, SendNet DEF SessionInv

\* The initial state of both programs satisfies the invariant.
LEMMA SessionStart == Init => L!Init /\ SessionInv
<1> SUFFICES ASSUME Init PROVE L!Init /\ SessionInv
  OBVIOUS
<1>1. L!Init
  BY DEF Init, L!Init, End, L!UINT_MAX, UINT_MAX, L!Bit, Bit, L!End
<1>2. L!LinkInv
  BY <1>1, LinkStart
<1>3. TypeOK
  BY <1>2, EmptyIs DEF Init, TypeOK, L!LinkInv, Phase
<1>4. QueuesHold /\ NumbersDiffer /\ LoadsMarked /\ AcceptedHeard
  BY Ends DEF Init, QueuesHold, NumbersDiffer, LoadsMarked, AcceptedHeard
<1> QED BY <1>1, <1>2, <1>3, <1>4 DEF SessionInv

\* Every step keeps the invariant, and is one of Link.
LEMMA SessionStep ==
  SessionInv /\ [Next]_vars => [L!Next]_L!linkVars /\ SessionInv'
<1> SUFFICES ASSUME SessionInv, [Next]_vars PROVE [L!Next]_L!linkVars /\ SessionInv'
  OBVIOUS
<1>1. [L!Next]_L!linkVars
  BY StepRefines, NetFacts DEF SessionInv
<1>2. L!LinkInv'
  BY <1>1, LinkStep DEF SessionInv
<1>3. "client" \in End /\ "server" \in End /\ Peer("client") = "server"
      /\ Peer("server") = "client"
  BY Ends
<1>4. net \in [End -> SUBSET Packet] /\ phase \in [End -> Phase] /\ heard \in SUBSET End
  BY DEF SessionInv, TypeOK
<1>5. ASSUME NEW p \in net["client"], ClientAccept(p) PROVE SessionInv'
  <2>1. PICK q :
          /\ queue' = [queue EXCEPT !["client"] = q]
          /\ \/ /\ q = Checked("client")
                /\ \/ status' = status
                   \/ status' = [status EXCEPT !["client"] = status["client"]]
             \/ /\ status["client"] = "none"
                /\ status' = [status EXCEPT !["client"] = "trying_auth"]
                /\ \E bits, unset :
                     q = PutMessage(bits, Checked("client"), Own("client"), unset)
    BY <1>5, ClientSwitched DEF ClientAccept
  <2>2. /\ Step("client", "recv", "send") /\ Datagram("client", p)
        /\ L!Accept("client", p) /\ critical' = critical
        /\ heard' = IF Own(Peer("client")).type \in Parsed(p)
                    THEN heard \union {Peer("client")} ELSE heard
    BY <1>3, <1>5 DEF ClientAccept, Own, ReplyMessage
  <2> QED BY <1>2, <1>3, <2>1, <2>2, AcceptStep
<1>6. ASSUME NEW p \in net["server"], ServerAccept(p) PROVE SessionInv'
  <2>1. PICK q :
          /\ queue' = [queue EXCEPT !["server"] = q]
          /\ \/ q = Checked("server") /\ status' = status
             \/ /\ status["server"] = "none"
                /\ status' = [status EXCEPT !["server"] = "trying_auth"]
                /\ \E bits, unset :
                     q = PutMessage(bits, Checked("server"), Own("server"), unset)
    BY <1>6, ServerSwitched DEF ServerAccept
  <2>2. /\ Step("server", "recv", "send") /\ Datagram("server", p)
        /\ L!Accept("server", p) /\ critical' = critical
        /\ heard' = IF Own(Peer("server")).type \in Parsed(p)
                    THEN heard \union {Peer("server")} ELSE heard
    BY <1>3, <1>6 DEF ServerAccept, Own, AuthMessage
  <2> QED BY <1>2, <1>3, <2>1, <2>2, AcceptStep
<1>7. ASSUME NEW p \in net["server"], ServerIgnore(p) PROVE SessionInv'
  <2>1. /\ Step("server", "recv", "send") /\ Datagram("server", p)
        /\ queue' = [queue EXCEPT !["server"] = Checked("server")]
        /\ seq' = seq /\ halted' = halted /\ accepted' = accepted
        /\ status' = status /\ critical' = critical /\ heard' = heard
    BY <1>7 DEF ServerIgnore, L!Ignore
  <2> QED BY <1>2, <1>3, <1>4, <2>1, HeardKept, DatagramNet, PollStep
<1>8. ASSUME NEW p \in net["client"], ClientAbort(p) PROVE SessionInv'
  BY <1>2, <1>3, <1>8, AbortStep DEF ClientAbort
<1>9. ASSUME NEW p \in net["server"], ServerAbort(p) PROVE SessionInv'
  BY <1>2, <1>3, <1>9, AbortStep DEF ServerAbort
<1>10. ASSUME ClientNoDatagram PROVE SessionInv'
  <2>1. PICK q :
          /\ queue' = [queue EXCEPT !["client"] = q]
          /\ \/ /\ q = Checked("client")
                /\ \/ status' = status
                   \/ status' = [status EXCEPT !["client"] = status["client"]]
             \/ /\ status["client"] = "none"
                /\ status' = [status EXCEPT !["client"] = "trying_auth"]
                /\ \E bits, unset :
                     q = PutMessage(bits, Checked("client"), Own("client"), unset)
    BY <1>10, ClientSwitched DEF ClientNoDatagram
  <2>2. /\ Step("client", "recv", "send") /\ net' = net
        /\ seq' = seq /\ halted' = halted /\ accepted' = accepted
        /\ critical' = critical /\ heard' = heard
    BY <1>10 DEF ClientNoDatagram, linkPart
  <2> QED BY <1>2, <1>3, <1>4, <2>1, <2>2, HeardKept, PollStep
<1>11. ASSUME ServerNoDatagram PROVE SessionInv'
  <2>1. /\ Step("server", "recv", "send") /\ net' = net
        /\ queue' = [queue EXCEPT !["server"] = Checked("server")]
        /\ seq' = seq /\ halted' = halted /\ accepted' = accepted
        /\ status' = status /\ critical' = critical /\ heard' = heard
    BY <1>11 DEF ServerNoDatagram, linkPart
  <2> QED BY <1>2, <1>3, <1>4, <2>1, HeardKept, PollStep
<1>12. ASSUME Lose PROVE SessionInv'
  <2>1. /\ UNCHANGED <<seq, halted, accepted, phase, status, queue, critical, heard, lossy>>
        /\ \E e \in End : \E p \in net[e] : net' = [net EXCEPT ![e] = @ \ {p}]
    BY <1>12 DEF Lose
  <2>2. net' \in [End -> SUBSET Packet] /\ \A x \in End : net'[x] \subseteq net[x]
    BY <1>4, <2>1
  <2>3. \A x \in End : L!Running(x)' /\ phase'[x] = "send" => L!Running(x) /\ phase[x] = "send"
    BY <2>1 DEF L!Running
  <2> QED BY <1>2, <1>4, <2>1, <2>2, <2>3, IdleStep
<1>13. ASSUME ServerSkip PROVE SessionInv'
  <2>1. /\ UNCHANGED <<seq, net, halted, accepted, status, queue, critical, heard, lossy>>
        /\ phase' = [phase EXCEPT !["server"] = "recv"]
    BY <1>13 DEF ServerSkip, Step, linkPart
  <2>2. phase' \in [End -> Phase]
    BY <1>4, <2>1 DEF Phase
  <2>3. \A x \in End : L!Running(x)' /\ phase'[x] = "send" => L!Running(x) /\ phase[x] = "send"
    BY <1>4, <2>1 DEF L!Running
  <2> QED BY <1>2, <1>4, <2>1, <2>2, <2>3, IdleStep
<1>14. ASSUME UNCHANGED vars PROVE SessionInv'
  <2>1. UNCHANGED <<seq, net, halted, accepted, phase, status, queue, critical, heard, lossy>>
    BY <1>14 DEF vars
  <2>2. \A x \in End : L!Running(x)' /\ phase'[x] = "send" => L!Running(x) /\ phase[x] = "send"
    BY <2>1 DEF L!Running
  <2> QED BY <1>2, <1>4, <2>1, <2>2, IdleStep
<1>15. ASSUME ClientSend \/ ServerSend PROVE SessionInv'
  BY <1>2, <1>3, <1>15, SendStep DEF ClientSend, ServerSend
<1>16. SessionInv'
  BY <1>5, <1>6, <1>7, <1>8, <1>9, <1>10, <1>11, <1>12, <1>13, <1>14, <1>15
     DEF Next, ClientPoll, ServerPoll
<1> QED BY <1>1, <1>16

-----------------------------------------------------------------------------
(***************************************************************************)
(* What follows from the invariant                                         *)
(***************************************************************************)

\* A confirmed packet was accepted, so a confirmed critical one was processed.
LEMMA ConfirmedFromInv == SessionInv => ConfirmedHeard
BY Ends DEF SessionInv, L!LinkInv, L!AckSound, AcceptedHeard, ConfirmedHeard

\* The message of an endpoint that asked or answered is in one slot.
LEMMA KeptFromInv == SessionInv => CriticalKept
<1> SUFFICES ASSUME SessionInv, NEW e \in End, status[e] = "trying_auth", e \notin heard
             PROVE  \E i \in Held(e) :
                      \/ i \in Waiting(queue[e])
                      \/ queue[e].sent[i] \in critical[e] \ seqBit[e]
  BY DEF CriticalKept
<1>1. queue[e] \in QueueMessage /\ Own(e).critical /\ QueueHolds(e)
  BY MessageFacts, QueuesAre DEF SessionInv, TypeOK
<1>2. PICK i \in Slot :
        /\ Alone(queue[e], i, Own(e))
        /\ \/ queue[e].begin = i /\ queue[e].next = Advance(i)
           \/ queue[e].begin = queue[e].next /\ Marked(e, i)
  BY <1>1 DEF QueueHolds
<1>3. i \in Held(e) /\ (queue[e].begin = i /\ queue[e].next = Advance(i)
                          => i \in Waiting(queue[e]))
  BY <1>1, <1>2, AloneFacts DEF Held
<1>4. critical[e] \intersect seqBit[e] = {}
  BY ConfirmedFromInv DEF ConfirmedHeard
<1> QED BY <1>2, <1>3, <1>4 DEF Marked

\* There is one copy of it.
LEMMA CopiesFromInv == SessionInv => OneCopy
<1> SUFFICES ASSUME SessionInv, NEW e \in End PROVE Cardinality(Held(e)) <= 1
  BY DEF OneCopy
<1>1. queue[e] \in QueueMessage /\ Own(e).critical /\ QueueHolds(e)
  BY MessageFacts, QueuesAre DEF SessionInv, TypeOK
<1>2. CASE status[e] = "none"
  <2>1. Held(e) = {}
    BY <1>1, <1>2, EmptyIs, MessageFacts DEF QueueHolds, Held
  <2>2. Cardinality(Held(e)) = 0
    BY <2>1, FS_EmptySet, Zenon
  <2> QED BY <2>2
<1>3. CASE status[e] # "none"
  <2>1. PICK i \in Slot : Alone(queue[e], i, Own(e))
    BY <1>1, <1>3 DEF QueueHolds
  <2>2. Held(e) = {i}
    BY <1>1, <2>1, AloneFacts DEF Held
  <2>3. Cardinality(Held(e)) = 1
    BY <2>2, FS_Singleton, Zenon
  <2> QED BY <2>3
<1> QED BY <1>2, <1>3

-----------------------------------------------------------------------------
(***************************************************************************)
(* The theorems                                                            *)
(***************************************************************************)

\* The frames of both programs, whatever the network loses, reorders and
\* duplicates, keep their queues, the packets in flight and what was heard
\* consistent (udp_client.cpp 482-763, udp_server.cpp 645-987).
THEOREM Consistent == Spec => []SessionInv
BY SessionStart, SessionStep, PTL DEF Spec

\* The fields of both programs keep their types.
THEOREM TypesKept == Spec => []TypeOK
BY Consistent, PTL DEF SessionInv

\* A critical message is never forgotten: it waits, or the loss check will find the
\* packet that carried it (udp_client.cpp 482-538, udp_server.cpp 645-713).
THEOREM CriticalIsKept == Spec => []CriticalKept
BY Consistent, KeptFromInv, PTL

\* However often it is sent again, a critical message has one copy
\* (udp_client.cpp 526, udp_server.cpp 697).
THEOREM NeverCopied == Spec => []OneCopy
BY Consistent, CopiesFromInv, PTL

\* A confirmed critical packet was processed (udp_server.cpp 802-929).
THEOREM ConfirmedIsHeard == Spec => []ConfirmedHeard
BY Consistent, ConfirmedFromInv, PTL

\* The frames of the two programs implement the acknowledgement protocol of Link.
THEOREM ImplementsLink == Spec => LinkSpec
BY Consistent, SessionStart, SessionStep, PTL DEF Spec, LinkSpec, L!Spec
===============================================================================

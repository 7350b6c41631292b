------------------------------ MODULE QueueProofs ------------------------------
(***************************************************************************)
(* SlotsInv is an inductive invariant of Queue for callers that stay       *)
(* within its limits, for every number of slots, window and capacity: no   *)
(* critical message is forgotten or doubled, and no operation ends the     *)
(* process.                                                                *)
(***************************************************************************)
EXTENDS Queue, SeqRingProofs, NatLemmas

-------------------------------------------------------------------------------
(***************************************************************************)
(* Slots, counted from begin                                               *)
(***************************************************************************)

\* Slots are places of a ring.
LEMMA SlotsFacts ==
  /\ Slots \in Nat \ {0} /\ Capacity \in Nat \ {0}
  /\ Slot = 0 .. (Slots - 1)
  /\ Slots \notin Slot
BY QueueAssumption DEF Slot

\* How many slots from one to another, and which slot some slots on.
LEMMA SlotMod ==
  ASSUME NEW a \in Slot, NEW b \in Slot
  PROVE  /\ (a - b) % Slots = IF a >= b THEN a - b ELSE (a - b) + Slots
         /\ (a + b) % Slots = IF a + b < Slots THEN a + b ELSE (a + b) - Slots
<1> DEFINE n == Slots
<1>1. n \in Nat \ {0} /\ a \in 0 .. (n - 1) /\ b \in 0 .. (n - 1)
  BY SlotsFacts
<1> HIDE DEF n
<1>2. (a - b) % n = IF a >= b THEN a - b ELSE (a - b) + n
  BY <1>1
<1>3. (a + b) % n = IF a + b < n THEN a + b ELSE (a + b) - n
  BY <1>1
<1> QED BY <1>2, <1>3 DEF n

\* The slot that is o slots behind begin.
At(q, o) == (q.begin + o) % Slots

\* Each slot is some slots behind begin, less than all, and no two are equally many.
LEMMA AwayFacts ==
  ASSUME NEW q, q.begin \in Slot
  PROVE  /\ \A i \in Slot : Away(q, i) \in 0 .. (Slots - 1) /\ Away(q, i) \in Slot
         /\ \A i, j \in Slot : Away(q, i) = Away(q, j) => i = j
         /\ \A o \in Slot : At(q, o) \in Slot /\ Away(q, At(q, o)) = o
         /\ Away(q, q.begin) = 0
<1>1. \A i \in Slot : Away(q, i) = IF i >= q.begin THEN i - q.begin ELSE (i - q.begin) + Slots
  BY SlotMod DEF Away
<1>2. \A o \in Slot : At(q, o) = IF q.begin + o < Slots THEN q.begin + o
                                 ELSE (q.begin + o) - Slots
  BY SlotMod DEF At
<1>3. \A i \in Slot : Away(q, i) \in 0 .. (Slots - 1)
  BY <1>1, SlotsFacts
<1>4. \A i, j \in Slot : Away(q, i) = Away(q, j) => i = j
  BY <1>1, SlotsFacts
<1>5. \A o \in Slot : At(q, o) \in Slot /\ Away(q, At(q, o)) = o
  <2> TAKE o \in Slot
  <2>1. At(q, o) \in Slot
    BY <1>2, SlotsFacts
  <2>2. Away(q, At(q, o)) = o
    <3> DEFINE a == At(q, o)
               b == q.begin
               n == Slots
    <3>1. /\ n \in Nat \ {0} /\ b \in 0 .. (n - 1) /\ o \in 0 .. (n - 1)
          /\ a = IF b + o < n THEN b + o ELSE (b + o) - n
          /\ Away(q, a) = IF a >= b THEN a - b ELSE (a - b) + n
      BY <1>1, <1>2, <2>1, SlotsFacts
    <3> HIDE DEF a, b, n
    <3>2. Away(q, a) = o
      BY <3>1
    <3> QED BY <3>2 DEF a
  <2> QED BY <2>1, <2>2
<1>6. Away(q, q.begin) = 0
  BY <1>1, SlotsFacts
<1> QED BY <1>3, <1>4, <1>5, <1>6, SlotsFacts

\* The next slot is one further, but for the one before begin.
LEMMA AdvanceFacts ==
  ASSUME NEW q, q.begin \in Slot, NEW i \in Slot
  PROVE  /\ Advance(i) \in Slot
         /\ Away(q, Advance(i)) = IF Away(q, i) + 1 < Slots THEN Away(q, i) + 1 ELSE 0
<1>1. Advance(i) = IF i + 1 < Slots THEN i + 1 ELSE 0
  <2> DEFINE n == Slots
  <2>1. n \in Nat \ {0} /\ i \in 0 .. (n - 1)
    BY SlotsFacts
  <2> HIDE DEF n
  <2>2. (i + 1) % n = IF i + 1 < n THEN i + 1 ELSE 0
    BY <2>1
  <2> QED BY <2>2 DEF n, Advance
<1>2. Advance(i) \in Slot
  BY <1>1, SlotsFacts
<1>3. \A j \in Slot : Away(q, j) = IF j >= q.begin THEN j - q.begin ELSE (j - q.begin) + Slots
  BY SlotMod DEF Away
<1>4. Away(q, Advance(i)) = IF Away(q, i) + 1 < Slots THEN Away(q, i) + 1 ELSE 0
  <2> DEFINE a == Advance(i)
             b == q.begin
             n == Slots
  <2>1. /\ n \in Nat \ {0} /\ b \in 0 .. (n - 1) /\ i \in 0 .. (n - 1)
        /\ a = IF i + 1 < n THEN i + 1 ELSE 0
        /\ Away(q, a) = IF a >= b THEN a - b ELSE (a - b) + n
        /\ Away(q, i) = IF i >= b THEN i - b ELSE (i - b) + n
    BY <1>1, <1>2, <1>3, SlotsFacts
  <2> HIDE DEF a, b, n
  <2>2. Away(q, a) = IF Away(q, i) + 1 < n THEN Away(q, i) + 1 ELSE 0
    BY <2>1
  <2> QED BY <2>2 DEF a, n
<1> QED BY <1>2, <1>4

\* The messages that wait are those before next.
LEMMA WaitingAway ==
  ASSUME NEW q
  PROVE  Waiting(q) = {i \in Slot : Away(q, i) < Away(q, q.next)}
BY DEF Waiting, Away

\* Only begin and next decide how far away a slot is, and which slots wait.
LEMMA SamePlaces ==
  ASSUME NEW q, NEW r, r.begin = q.begin
  PROVE  /\ \A i \in Slot : Away(r, i) = Away(q, i)
         /\ r.next = q.next => Waiting(r) = Waiting(q)
BY DEF Waiting, Away

-------------------------------------------------------------------------------
(***************************************************************************)
(* Sums                                                                    *)
(***************************************************************************)

\* The sum is that of one value less, and the last.
LEMMA TotalUnfolds ==
  ASSUME NEW f, NEW n \in Nat
  PROVE  \E sum : /\ sum[0] = 0
                  /\ \A k \in 1 .. n : sum[k] = sum[k - 1] + f[k]
                  /\ Total(f, n) = sum[n]
<1> DEFINE Body(w, m) == [k \in 0 .. m |-> IF k = 0 THEN 0 ELSE w[k - 1] + f[k]]
           S == {m \in Nat : \E w : w = Body(w, m)}
<1>1. 0 \in S
  <2>1. [k \in 0 .. 0 |-> 0] = Body([k \in 0 .. 0 |-> 0], 0)
    OBVIOUS
  <2> QED BY <2>1
<1>2. ASSUME NEW m \in Nat, m \in S PROVE m + 1 \in S
  <2>1. PICK w : w = Body(w, m)
    BY <1>2
  <2> DEFINE v == [k \in 0 .. (m + 1) |-> IF k = m + 1 THEN w[m] + f[k] ELSE w[k]]
  <2>2. \A k \in 0 .. m : v[k] = IF k = 0 THEN 0 ELSE w[k - 1] + f[k]
    BY <2>1
  <2>3. \A k \in 0 .. m : v[k] = w[k]
    OBVIOUS
  <2>4. v[m + 1] = w[m] + f[m + 1]
    OBVIOUS
  <2>5. \A k \in 0 .. (m + 1) :
          /\ k # 0 => k - 1 \in 0 .. m
          /\ k = m + 1 \/ k \in 0 .. m
    OBVIOUS
  <2>6. \A k \in 0 .. (m + 1) : v[k] = IF k = 0 THEN 0 ELSE v[k - 1] + f[k]
    <3> HIDE DEF v, Body, S
    <3> TAKE k \in 0 .. (m + 1)
    <3>1. CASE k = m + 1
      <4>1. k # 0 /\ k - 1 = m /\ m \in 0 .. m
        BY <3>1
      <4> QED BY <2>3, <2>4, <3>1, <4>1
    <3>2. CASE k # m + 1
      BY <2>2, <2>3, <2>5, <3>2
    <3> QED BY <3>1, <3>2
  <2>7. v = Body(v, m + 1)
    BY <2>6
  <2> HIDE DEF v, Body
  <2> QED BY <2>7
<1> HIDE DEF S
<1>3. n \in S
  BY <1>1, <1>2, SetInduction
<1>4. PICK w : w = Body(w, n)
  BY <1>3 DEF S
<1> DEFINE c == CHOOSE v : v = Body(v, n)
<1>5. Total(f, n) = c[n]
  BY DEF Total
<1>6. c = Body(c, n)
  <2> HIDE DEF Body
  <2> QED BY <1>4
<1> HIDE DEF c
<1>7. c[0] = 0 /\ \A k \in 1 .. n : c[k] = c[k - 1] + f[k]
  BY <1>6
<1> QED BY <1>5, <1>7

\* A sum of natural numbers is one; a value that becomes greater makes it greater
\* by as much.
LEMMA TotalChange ==
  ASSUME NEW n \in Nat, NEW f \in [1 .. n -> Nat], NEW g \in [1 .. n -> Nat],
         NEW j \in 1 .. n, \A k \in 1 .. n : k # j => g[k] = f[k]
  PROVE  Total(g, n) = Total(f, n) - f[j] + g[j]
<1>1. PICK s : /\ s[0] = 0
               /\ \A k \in 1 .. n : s[k] = s[k - 1] + f[k]
               /\ Total(f, n) = s[n]
  BY TotalUnfolds
<1>2. PICK t : /\ t[0] = 0
               /\ \A k \in 1 .. n : t[k] = t[k - 1] + g[k]
               /\ Total(g, n) = t[n]
  BY TotalUnfolds
<1> DEFINE S == {m \in Nat : m <= n =>
                   /\ s[m] \in Nat /\ t[m] \in Nat
                   /\ t[m] = IF m < j THEN s[m] ELSE s[m] - f[j] + g[j]}
<1>3. 0 \in S
  BY <1>1, <1>2
<1>4. ASSUME NEW m \in Nat, m \in S PROVE m + 1 \in S
  <2> SUFFICES ASSUME m + 1 <= n
               PROVE  /\ s[m + 1] \in Nat /\ t[m + 1] \in Nat
                      /\ t[m + 1] = IF m + 1 < j THEN s[m + 1]
                                    ELSE s[m + 1] - f[j] + g[j]
    OBVIOUS
  <2>1. m + 1 \in 1 .. n /\ (m + 1) - 1 = m
    OBVIOUS
  <2>2. s[m + 1] = s[m] + f[m + 1] /\ t[m + 1] = t[m] + g[m + 1]
    BY <1>1, <1>2, <2>1
  <2>3. /\ s[m] \in Nat /\ t[m] \in Nat /\ f[m + 1] \in Nat /\ g[m + 1] \in Nat
        /\ t[m] = IF m < j THEN s[m] ELSE s[m] - f[j] + g[j]
        /\ f[j] \in Nat /\ g[j] \in Nat
        /\ m + 1 # j => g[m + 1] = f[m + 1]
    BY <1>4, <2>1
  <2> HIDE DEF S
  <2> DEFINE s0 == s[m]   t0 == t[m]   f1 == f[m + 1]   g1 == g[m + 1]
             fj == f[j]   gj == g[j]
  <2>4. /\ s0 \in Nat /\ t0 \in Nat /\ f1 \in Nat /\ g1 \in Nat
        /\ fj \in Nat /\ gj \in Nat
        /\ t0 = IF m < j THEN s0 ELSE s0 - fj + gj
        /\ m + 1 = j => f1 = fj /\ g1 = gj
        /\ m + 1 # j => g1 = f1
        /\ s[m + 1] = s0 + f1 /\ t[m + 1] = t0 + g1
    BY <2>2, <2>3
  <2> HIDE DEF s0, t0, f1, g1, fj, gj
  <2>5. /\ s0 + f1 \in Nat /\ t0 + g1 \in Nat
        /\ t0 + g1 = IF m + 1 < j THEN s0 + f1 ELSE (s0 + f1) - fj + gj
    BY <2>4
  <2> QED BY <2>4, <2>5 DEF fj, gj
<1> HIDE DEF S
<1>5. n \in S
  BY <1>3, <1>4, SetInduction
<1> QED BY <1>1, <1>2, <1>5 DEF S

\* Greater values have a greater sum.
LEMMA TotalMono ==
  ASSUME NEW n \in Nat, NEW f \in [1 .. n -> Nat], NEW g \in [1 .. n -> Nat],
         \A k \in 1 .. n : f[k] <= g[k]
  PROVE  Total(f, n) \in Nat /\ Total(g, n) \in Nat /\ Total(f, n) <= Total(g, n)
<1>1. PICK s : /\ s[0] = 0
               /\ \A k \in 1 .. n : s[k] = s[k - 1] + f[k]
               /\ Total(f, n) = s[n]
  BY TotalUnfolds
<1>2. PICK t : /\ t[0] = 0
               /\ \A k \in 1 .. n : t[k] = t[k - 1] + g[k]
               /\ Total(g, n) = t[n]
  BY TotalUnfolds
<1> DEFINE S == {m \in Nat : m <= n => s[m] \in Nat /\ t[m] \in Nat /\ s[m] <= t[m]}
<1>3. 0 \in S
  BY <1>1, <1>2
<1>4. ASSUME NEW m \in Nat, m \in S PROVE m + 1 \in S
  <2> SUFFICES ASSUME m + 1 <= n
               PROVE  s[m + 1] \in Nat /\ t[m + 1] \in Nat /\ s[m + 1] <= t[m + 1]
    OBVIOUS
  <2>1. m + 1 \in 1 .. n /\ (m + 1) - 1 = m
    OBVIOUS
  <2>2. s[m + 1] = s[m] + f[m + 1] /\ t[m + 1] = t[m] + g[m + 1]
    BY <1>1, <1>2, <2>1
  <2>3. /\ s[m] \in Nat /\ t[m] \in Nat /\ f[m + 1] \in Nat /\ g[m + 1] \in Nat
        /\ s[m] <= t[m] /\ f[m + 1] <= g[m + 1]
    BY <1>4, <2>1
  <2> QED BY <2>2, <2>3
<1> HIDE DEF S
<1>5. n \in S
  BY <1>3, <1>4, SetInduction
<1> QED BY <1>1, <1>2, <1>5 DEF S

-------------------------------------------------------------------------------
(***************************************************************************)
(* The sizes of messages                                                   *)
(***************************************************************************)

\* What is known of each message.
LEMMA MessageFacts ==
  /\ \A m \in Message \union {NoMessage} : m.critical \in BOOLEAN /\ m.size \in Nat
  /\ NoMessage.critical = FALSE
<1>1. NoMessage.critical = FALSE /\ NoMessage.size = 1
  BY DEF NoMessage
<1>2. \A m \in Message : m.critical \in BOOLEAN /\ m.size \in Nat
  BY DEF Message
<1>3. ASSUME NEW m \in Message \union {NoMessage}
      PROVE  m.critical \in BOOLEAN /\ m.size \in Nat
  <2>1. CASE m \in Message
    BY <1>2, <2>1
  <2>2. CASE m = NoMessage
    <3>1. FALSE \in BOOLEAN /\ 1 \in Nat
      OBVIOUS
    <3> QED BY <1>1, <2>2, <3>1, Zenon
  <2> QED BY <2>1, <2>2
<1> QED BY <1>1, <1>3

\* The fields of a queue.
LEMMA QueueFields ==
  ASSUME NEW q \in QueueMessage
  PROVE  /\ q.msgs \in [Slot -> Message \union {NoMessage}]
         /\ q.sent \in [Slot -> 0 .. NotSet]
         /\ q.begin \in Slot /\ q.next \in Nat
         /\ q.next < Slots => q.next \in Slot
         /\ \A i \in Slot : q.msgs[i].critical \in BOOLEAN /\ q.msgs[i].size \in Nat
<1>1. /\ q.msgs \in [Slot -> Message \union {NoMessage}]
      /\ q.sent \in [Slot -> 0 .. NotSet]
      /\ q.begin \in Slot /\ q.next \in Nat
  BY DEF QueueMessage
<1>2. q.next < Slots => q.next \in Slot
  BY <1>1, SlotsFacts
<1> QED BY <1>1, <1>2, MessageFacts

\* What SizeOf adds up.
Sizes(q, slots) ==
  [k \in 1 .. Slots |-> IF k - 1 \in slots THEN q.msgs[k - 1].size ELSE 0]

LEMMA SizesFacts ==
  ASSUME NEW q \in QueueMessage, NEW S
  PROVE  /\ Sizes(q, S) \in [1 .. Slots -> Nat]
         /\ SizeOf(q, S) = Total(Sizes(q, S), Slots)
         /\ SizeOf(q, S) \in Nat
<1>1. \A k \in 1 .. Slots : k - 1 \in Slot
  BY SlotsFacts
<1>2. Sizes(q, S) \in [1 .. Slots -> Nat]
  BY <1>1, QueueFields DEF Sizes
<1>3. SizeOf(q, S) = Total(Sizes(q, S), Slots)
  BY DEF SizeOf, Sizes
<1>4. Total(Sizes(q, S), Slots) \in Nat
  BY <1>2, TotalMono, SlotsFacts
<1> QED BY <1>2, <1>3, <1>4

\* Fewer slots with the same messages are not greater.
LEMMA SizeMono ==
  ASSUME NEW q \in QueueMessage, NEW r \in QueueMessage, NEW S, NEW T,
         \A i \in Slot : i \in S => i \in T /\ q.msgs[i].size = r.msgs[i].size
  PROVE  SizeOf(q, S) <= SizeOf(r, T)
<1>1. \A k \in 1 .. Slots : k - 1 \in Slot
  BY SlotsFacts
<1>2. \A k \in 1 .. Slots : Sizes(q, S)[k] <= Sizes(r, T)[k]
  BY <1>1, QueueFields DEF Sizes
<1> DEFINE f == Sizes(q, S)
           g == Sizes(r, T)
<1>3. /\ f \in [1 .. Slots -> Nat] /\ g \in [1 .. Slots -> Nat]
      /\ SizeOf(q, S) = Total(f, Slots) /\ SizeOf(r, T) = Total(g, Slots)
      /\ \A k \in 1 .. Slots : f[k] <= g[k]
  BY <1>2, SizesFacts
<1> HIDE DEF f, g
<1>4. Total(f, Slots) <= Total(g, Slots)
  BY <1>3, TotalMono, SlotsFacts
<1> QED BY <1>3, <1>4

\* One slot more adds the size of its message.
LEMMA SizeAdd ==
  ASSUME NEW q \in QueueMessage, NEW r \in QueueMessage, NEW S, NEW j \in Slot,
         j \notin S, \A i \in Slot : i \in S => q.msgs[i].size = r.msgs[i].size
  PROVE  SizeOf(r, S \union {j}) = SizeOf(q, S) + r.msgs[j].size
<1> DEFINE f == Sizes(q, S)
           g == Sizes(r, S \union {j})
<1>1. \A k \in 1 .. Slots : k - 1 \in Slot
  BY SlotsFacts
<1>2. j + 1 \in 1 .. Slots /\ (j + 1) - 1 = j /\ \A k \in 1 .. Slots : k # j + 1 => k - 1 # j
  BY SlotsFacts
<1>3. f[j + 1] = 0 /\ g[j + 1] = r.msgs[j].size
  BY <1>2 DEF Sizes
<1>4. \A k \in 1 .. Slots : k # j + 1 => g[k] = f[k]
  BY <1>1, <1>2 DEF Sizes
<1>5. /\ f \in [1 .. Slots -> Nat] /\ g \in [1 .. Slots -> Nat]
      /\ SizeOf(q, S) = Total(f, Slots) /\ SizeOf(r, S \union {j}) = Total(g, Slots)
  BY SizesFacts
<1> HIDE DEF f, g
<1>6. Total(g, Slots) = Total(f, Slots) - f[j + 1] + g[j + 1]
  BY <1>2, <1>4, <1>5, TotalChange, SlotsFacts
<1>7. Total(f, Slots) \in Nat /\ r.msgs[j].size \in Nat
  BY <1>5, SizesFacts, QueueFields
<1> QED BY <1>3, <1>5, <1>6, <1>7

\* A message that moves from slot i to slot j, over what is there, adds nothing.
LEMMA SizeMove ==
  ASSUME NEW q \in QueueMessage, NEW r \in QueueMessage, NEW S, NEW T,
         NEW i \in Slot, NEW j \in Slot, i # j, i \in S, i \notin T,
         r.msgs[j] = q.msgs[i],
         \A k \in Slot : k \in T /\ k # j => k \in S /\ r.msgs[k] = q.msgs[k]
  PROVE  SizeOf(r, T) <= SizeOf(q, S)
<1> DEFINE U == S \ {i, j}
<1>1. SizeOf(q, U \union {i}) = SizeOf(q, U) + q.msgs[i].size
  BY SizeAdd
<1>2. SizeOf(r, (T \ {j}) \union {j}) = SizeOf(r, T \ {j}) + q.msgs[i].size
  <2> DEFINE R == T \ {j}
  <2>1. j \notin R
    OBVIOUS
  <2> HIDE DEF R
  <2>2. SizeOf(r, R \union {j}) = SizeOf(r, R) + r.msgs[j].size
    BY <2>1, SizeAdd
  <2> QED BY <2>2 DEF R
<1>3. SizeOf(r, T \ {j}) <= SizeOf(q, U)
  BY SizeMono
<1>4. SizeOf(q, U \union {i}) <= SizeOf(q, S)
  BY SizeMono
<1>5. SizeOf(r, T) <= SizeOf(r, (T \ {j}) \union {j})
  BY SizeMono
<1>6. /\ SizeOf(r, T) \in Nat /\ SizeOf(r, (T \ {j}) \union {j}) \in Nat
      /\ SizeOf(r, T \ {j}) \in Nat /\ SizeOf(q, U) \in Nat
      /\ SizeOf(q, U \union {i}) \in Nat /\ SizeOf(q, S) \in Nat
      /\ q.msgs[i].size \in Nat
  BY SizesFacts, QueueFields
<1> QED BY <1>1, <1>2, <1>3, <1>4, <1>5, <1>6

-------------------------------------------------------------------------------
(***************************************************************************)
(* Ring bits                                                               *)
(***************************************************************************)

\* Bits are told apart by their age; the one used next is the oldest.
LEMMA AgeFacts ==
  ASSUME last \in Bit
  PROVE  /\ NextBit \in Bit /\ Age(NextBit) = Window - 1 /\ Age(last) = 0
         /\ \A b \in Bit : Age(b) \in 0 .. (Window - 1)
         /\ \A b, c \in Bit : Age(b) = Age(c) => b = c
         /\ \A b \in Bit : (NextBit - b) % Window = IF b = NextBit THEN 0 ELSE Age(b) + 1
<1> DEFINE n == Window
           a == last
<1>1. n \in Nat \ {0} /\ Bit = 0 .. (n - 1) /\ a \in 0 .. (n - 1)
  BY RingAssumption DEF Bit
<1>2. \A b \in Bit : Age(b) = (a - b) % n
  BY DEF Age
<1>3. NextBit = (a + 1) % n
  BY DEF NextBit
<1> HIDE DEF n, a
<1>4. NextBit = IF a + 1 < n THEN a + 1 ELSE 0
  BY <1>1, <1>3
<1>5. ASSUME NEW b \in Bit PROVE Age(b) = IF a >= b THEN a - b ELSE (a - b) + n
  <2>1. b \in 0 .. (n - 1)
    BY <1>1
  <2>2. (a - b) % n = IF a >= b THEN a - b ELSE (a - b) + n
    BY <1>1, <2>1
  <2> QED BY <1>2, <2>2
<1>6. NextBit \in Bit
  BY <1>1, <1>4
<1>7. ASSUME NEW b \in Bit
      PROVE  (NextBit - b) % n = IF b = NextBit THEN 0 ELSE Age(b) + 1
  <2>1. (NextBit - b) % n = IF NextBit >= b THEN NextBit - b ELSE (NextBit - b) + n
    BY <1>1, <1>6
  <2> QED BY <1>1, <1>4, <1>5, <2>1
<1>8. Age(NextBit) = n - 1
  BY <1>1, <1>4, <1>5, <1>6
<1>9. a \in Bit /\ Age(a) = 0
  BY <1>1, <1>5
<1>10. /\ \A b \in Bit : Age(b) \in 0 .. (n - 1)
       /\ \A b, c \in Bit : Age(b) = Age(c) => b = c
  BY <1>1, <1>5
<1> QED BY <1>6, <1>7, <1>8, <1>9, <1>10 DEF n, a

-------------------------------------------------------------------------------
(***************************************************************************)
(* The resend scan                                                         *)
(***************************************************************************)

\* What moves when a message is queued again.
LEMMA RequeueFields ==
  ASSUME NEW q \in QueueMessage, q.next < Slots, NEW bit, NEW i \in Slot,
         Carried(q, bit, i)
  PROVE  LET r == Requeue(q, bit, i)
         IN  /\ r \in QueueMessage
             /\ r.sent = q.sent /\ r.begin = q.begin /\ r.ended = q.ended
             /\ r.next = Advance(q.next)
             /\ q.next = i => r.msgs = q.msgs
             /\ q.next # i =>
                  \A j \in Slot : r.msgs[j] = IF j = i THEN NoMessage
                                              ELSE IF j = q.next THEN q.msgs[i]
                                              ELSE q.msgs[j]
<1> DEFINE m == IF q.next = i THEN q.msgs
                ELSE [q.msgs EXCEPT ![q.next] = q.msgs[i], ![i] = NoMessage]
           n == Advance(q.next)
<1>1. q.next \in Slot /\ n \in Slot /\ n \in Nat
  BY QueueFields, AdvanceFacts, SlotsFacts
<1>2. m \in [Slot -> Message \union {NoMessage}]
  BY <1>1, QueueFields
<1>3. q.next # i =>
        \A j \in Slot : m[j] = IF j = i THEN NoMessage
                               ELSE IF j = q.next THEN q.msgs[i] ELSE q.msgs[j]
  BY <1>1, QueueFields
<1>4. q.next = i => m = q.msgs
  OBVIOUS
<1>5. Requeue(q, bit, i) = [q EXCEPT !.msgs = m, !.next = n]
  BY Zenon DEF Requeue
<1> HIDE DEF m, n
<1>6. [q EXCEPT !.msgs = m, !.next = n]
        = [msgs |-> m, sent |-> q.sent, begin |-> q.begin, next |-> n, ended |-> q.ended]
  <2>1. PICK p : p = [q EXCEPT !.msgs = m]
    OBVIOUS
  <2>2. p = [msgs |-> m, sent |-> q.sent, begin |-> q.begin, next |-> q.next,
             ended |-> q.ended]
    BY <2>1 DEF QueueMessage
  <2>3. [q EXCEPT !.msgs = m, !.next = n] = [p EXCEPT !.next = n]
    BY <2>1, Zenon
  <2> QED BY <2>2, <2>3
<1>7. [msgs |-> m, sent |-> q.sent, begin |-> q.begin, next |-> n, ended |-> q.ended]
        \in QueueMessage
  BY <1>1, <1>2 DEF QueueMessage
<1> QED BY <1>3, <1>4, <1>5, <1>6, <1>7 DEF n

\* What the scan keeps, and what it may rely on.
Good(q) ==
  /\ q \in QueueMessage
  /\ HasSpace(q)
  /\ Kept(q)
  /\ SingleCopies(q)
  /\ Ordered(q)
  /\ Known(q)

Context == last \in Bit /\ \A m \in created : m.critical

\* Slots wait or do not.
LEMMA PendingFacts ==
  ASSUME NEW q \in QueueMessage, q.next < Slots
  PROVE  /\ q.next \in Slot /\ q.begin \in Slot
         /\ \A i \in Slot : i \in Waiting(q) <=> Away(q, i) < Away(q, q.next)
         /\ \A i \in Slot : i \in Held(q) <=> q.msgs[i].critical /\ i \notin Waiting(q)
         /\ \A i \in Slot : i \in Pending(q) <=> i \in Waiting(q) \/ q.msgs[i].critical
         /\ Waiting(q) \subseteq Slot /\ Held(q) \subseteq Slot /\ Pending(q) \subseteq Slot
BY QueueFields, WaitingAway DEF Held, Pending

\* Fewer slots that can be sent again are not more in number.
LEMMA FewerPending ==
  ASSUME NEW S, NEW T, S \subseteq T, T \subseteq Slot
  PROVE  Cardinality(S) \in Nat /\ Cardinality(T) \in Nat /\ Cardinality(S) <= Cardinality(T)
<1>1. IsFiniteSet(Slot)
  BY FS_Interval, SlotsFacts
<1>2. IsFiniteSet(T)
  BY <1>1, FS_Subset
<1> QED BY <1>2, FS_Subset, FS_CardinalityType

\* All slots are as many as there are.
LEMMA AllSlots == IsFiniteSet(Slot) /\ Cardinality(Slot) = Slots
<1>1. 0 \in Int /\ Slots - 1 \in Int /\ Slots \in Nat \ {0}
  BY SlotsFacts
<1>2. /\ IsFiniteSet(0 .. (Slots - 1))
      /\ Cardinality(0 .. (Slots - 1)) = IF 0 > Slots - 1 THEN 0 ELSE (Slots - 1) - 0 + 1
  BY <1>1, FS_Interval
<1> QED BY <1>1, <1>2, SlotsFacts

\* Where something can be sent again, next can advance without meeting begin.
LEMMA RoomToMove ==
  ASSUME NEW q \in QueueMessage, HasSpace(q), NEW i \in Held(q)
  PROVE  /\ Away(q, q.next) + 1 < Slots
         /\ Away(q, Advance(q.next)) = Away(q, q.next) + 1
         /\ Away(q, q.next) <= Away(q, i)
<1>1. q.next \in Slot /\ q.begin \in Slot /\ q.next < Slots
  BY PendingFacts DEF HasSpace
<1>2. /\ i \in Slot /\ ~ (Away(q, i) < Away(q, q.next)) /\ i \in Pending(q)
      /\ \A j \in Slot : Away(q, j) < Away(q, q.next) => j \in Pending(q)
      /\ Pending(q) \subseteq Slot
  BY <1>1, PendingFacts
<1>3. \A j \in Slot : Away(q, j) \in 0 .. (Slots - 1)
  BY <1>1, AwayFacts
<1>4. Away(q, q.next) <= Away(q, i)
  BY <1>1, <1>2, <1>3
<1>5. Away(q, q.next) + 1 < Slots
  <2> SUFFICES ASSUME ~ (Away(q, q.next) + 1 < Slots) PROVE FALSE
    OBVIOUS
  <2>1. Away(q, q.next) = Slots - 1 /\ Away(q, i) = Slots - 1
    <3> DEFINE w == Away(q, q.next)   a == Away(q, i)   n == Slots
    <3>1. w \in 0 .. (n - 1) /\ a \in 0 .. (n - 1) /\ w <= a /\ ~ (w + 1 < n) /\ n \in Nat
      BY <1>1, <1>2, <1>3, <1>4, SlotsFacts
    <3> HIDE DEF w, a, n
    <3>2. w = n - 1 /\ a = n - 1
      BY <3>1
    <3> QED BY <3>2 DEF w, a, n
  <2>2. \A j \in Slot : j # i => Away(q, j) < Slots - 1
    <3> TAKE j \in Slot
    <3> HAVE j # i
    <3>1. Away(q, j) # Away(q, i)
      BY <1>1, <1>2, AwayFacts
    <3> QED BY <1>3, <2>1, <3>1, SlotsFacts
  <2>3. Slot \subseteq Pending(q)
    BY <1>2, <2>1, <2>2
  <2>4. Cardinality(Pending(q)) = Slots
    <3>1. Pending(q) = Slot
      BY <1>2, <2>3
    <3> QED BY <3>1, AllSlots
  <2> QED BY <2>4, SlotsFacts DEF HasSpace
<1> QED BY <1>1, <1>4, <1>5, AdvanceFacts

\* A message not delivered that does not wait was in a critical packet that was lost.
LEMMA HeldLost ==
  ASSUME NEW q \in QueueMessage, Context, Kept(q), SingleCopies(q),
         NEW i \in Held(q), q.msgs[i] \in Undelivered
  PROVE  q.sent[i] \in critical \ accepted
<1>1. i \in Slot /\ i \notin Waiting(q) /\ q.msgs[i].critical
  BY DEF Held
<1>2. PICK j \in Slot : q.msgs[j] = q.msgs[i]
                        /\ (j \in Waiting(q) \/ q.sent[j] \in critical \ accepted)
  BY DEF Kept
<1>3. j = i
  BY <1>1, <1>2 DEF SingleCopies
<1> QED BY <1>1, <1>2, <1>3

\* A critical message of the lost packet, when no slot before its own holds another,
\* moves to next: nothing that was not delivered is there, for it would have been
\* sent earlier and be of the lost packet too.
LEMMA RequeueStep ==
  ASSUME Context, NEW q, Good(q), NEW i \in Slot, i \notin Waiting(q),
         \A j \in Held(q) : Away(q, j) < Away(q, i) => q.sent[j] # NextBit
  PROVE  LET r == Requeue(q, NextBit, i)
         IN  /\ Good(r)
             /\ r.begin = q.begin /\ r.sent = q.sent
             /\ \A j \in Slot : Away(q, j) > Away(q, i) => r.msgs[j] = q.msgs[j]
             /\ \A j \in Held(r) : j \in Held(q)
             /\ \A j \in Held(r) : Away(q, j) <= Away(q, i) => r.sent[j] # NextBit
             /\ Carried(q, NextBit, i) =>
                  Away(q, r.next) = Away(q, q.next) + 1 /\ i \in Held(q)
             /\ ~ Carried(q, NextBit, i) => r = q
<1> DEFINE r == Requeue(q, NextBit, i)
           w == Away(q, q.next)
<1>1. /\ q \in QueueMessage /\ q.next < Slots /\ q.next \in Slot /\ q.begin \in Slot
      /\ HasSpace(q)
  BY PendingFacts DEF Good, HasSpace
<1>2. \A j, k \in Slot : Away(q, j) = Away(q, k) => j = k
  BY <1>1, AwayFacts
<1>3. CASE ~ Carried(q, NextBit, i)
  <2>1. r = q
    BY <1>3 DEF Requeue
  <2>2. \A j \in Held(q) : Away(q, j) <= Away(q, i) => q.sent[j] # NextBit
    <3> TAKE j \in Held(q)
    <3> HAVE Away(q, j) <= Away(q, i)
    <3>1. CASE j = i
      BY <1>3, <3>1 DEF Carried, Held
    <3>2. CASE j # i
      <4>1. j \in Slot /\ Away(q, j) # Away(q, i)
        BY <1>2, <3>2 DEF Held
      <4>2. Away(q, j) < Away(q, i)
        BY <1>1, <4>1, AwayFacts
      <4> QED BY <4>2
    <3> QED BY <3>1, <3>2
  <2> QED BY <1>3, <2>1, <2>2
<1>4. CASE Carried(q, NextBit, i)
  <2>1. i \in Held(q) /\ q.sent[i] = NextBit /\ q.msgs[i].critical
    BY <1>4 DEF Carried, Held
  <2>2. w + 1 < Slots /\ Away(q, Advance(q.next)) = w + 1 /\ w <= Away(q, i)
    BY <1>1, <2>1, RoomToMove
  <2>3. /\ r \in QueueMessage
        /\ r.sent = q.sent /\ r.begin = q.begin /\ r.ended = q.ended
        /\ r.next = Advance(q.next)
        /\ q.next = i => r.msgs = q.msgs
        /\ q.next # i =>
             \A j \in Slot : r.msgs[j] = IF j = i THEN NoMessage
                                         ELSE IF j = q.next THEN q.msgs[i]
                                         ELSE q.msgs[j]
    BY <1>1, <1>4, RequeueFields
  <2> HIDE DEF r
  <2>4. r.next \in Slot /\ r.next < Slots
    BY <1>1, <2>3, AdvanceFacts, SlotsFacts
  <2>5. /\ \A j \in Slot : Away(r, j) = Away(q, j)
        /\ \A j \in Slot : Away(q, j) \in 0 .. (Slots - 1)
    BY <1>1, <2>3, SamePlaces, AwayFacts
  <2>6. \A j \in Slot : j \in Waiting(r) <=> j \in Waiting(q) \/ j = q.next
    <3> TAKE j \in Slot
    <3>1. j \in Waiting(r) <=> Away(q, j) < w + 1
      BY <2>2, <2>3, <2>4, <2>5, PendingFacts
    <3>2. j \in Waiting(q) <=> Away(q, j) < w
      BY <1>1, PendingFacts
    <3>3. Away(q, j) = w <=> j = q.next
      BY <1>1, <1>2
    <3>4. Away(q, j) \in Nat /\ w \in Nat
      BY <1>1, <2>5
    <3> HIDE DEF w
    <3> QED BY <3>1, <3>2, <3>3, <3>4
  <2>7. \A j \in Held(r) : j \in Held(q) /\ j # i /\ j # q.next /\ r.msgs[j] = q.msgs[j]
    <3> TAKE j \in Held(r)
    <3>1. j \in Slot /\ j \notin Waiting(q) /\ j # q.next /\ r.msgs[j].critical
      BY <2>6 DEF Held
    <3>2. j # i
      BY <2>3, <3>1, MessageFacts
    <3>3. r.msgs[j] = q.msgs[j]
      BY <2>3, <3>1, <3>2
    <3> QED BY <3>1, <3>2, <3>3 DEF Held
  <2>8. HasSpace(r)
    <3>1. Pending(r) \subseteq Slot /\ Pending(q) \subseteq Slot /\ i \in Pending(q)
      BY <1>1, <2>1, <2>3, <2>4, PendingFacts
    <3>2. CASE q.next = i
      <4>1. Pending(r) \subseteq Pending(q)
        BY <2>1, <2>3, <2>6, <3>2, <3>1 DEF Pending
      <4>2. Cardinality(Pending(r)) <= Cardinality(Pending(q))
            /\ Cardinality(Pending(r)) \in Nat /\ Cardinality(Pending(q)) \in Nat
        BY <3>1, <4>1, FewerPending
      <4>3. SizeOf(r, Pending(r)) <= SizeOf(q, Pending(q))
        BY <1>1, <2>3, <3>2, <4>1, SizeMono
      <4> QED BY <1>1, <2>3, <2>4, <4>2, <4>3, SizesFacts, SlotsFacts DEF HasSpace
    <3>3. CASE q.next # i
      <4>1. \A j \in Slot : j \in Pending(r) /\ j # q.next =>
              j \in Pending(q) /\ j # i /\ r.msgs[j] = q.msgs[j]
        <5> TAKE j \in Slot
        <5> HAVE j \in Pending(r) /\ j # q.next
        <5>1. j # i
          <6>1. j = i => j \notin Waiting(r) /\ ~ r.msgs[j].critical
            BY <2>3, <2>6, <3>3, MessageFacts
          <6> QED BY <6>1 DEF Pending
        <5>2. r.msgs[j] = q.msgs[j]
          BY <2>3, <3>3, <5>1
        <5> QED BY <2>6, <5>1, <5>2 DEF Pending
      <4>2. i \notin Pending(r)
        BY <3>3, <4>1
      <4>3. SizeOf(r, Pending(r)) <= SizeOf(q, Pending(q))
        <5>1. r.msgs[q.next] = q.msgs[i]
          BY <1>1, <2>3, <3>3
        <5> QED BY <1>1, <2>3, <3>1, <3>3, <4>1, <4>2, <5>1, SizeMove
      <4>4. Cardinality(Pending(r)) <= Cardinality(Pending(q))
            /\ Cardinality(Pending(q)) \in Nat /\ Cardinality(Pending(r)) \in Nat
        <5> DEFINE P == Pending(q) \ {i}
        <5>1. IsFiniteSet(Pending(q)) /\ IsFiniteSet(P)
          BY <3>1, AllSlots, FS_Subset
        <5>2. Cardinality(P) = Cardinality(Pending(q)) - 1
          BY <3>1, <5>1, FS_RemoveElement
        <5>3. /\ IsFiniteSet(P \union {q.next})
              /\ Cardinality(P \union {q.next}) =
                   IF q.next \in P THEN Cardinality(P) ELSE Cardinality(P) + 1
          BY <5>1, FS_AddElement
        <5>4. Pending(r) \subseteq P \union {q.next}
          BY <3>1, <4>1
        <5>5. Cardinality(Pending(r)) <= Cardinality(P \union {q.next})
          BY <5>3, <5>4, FS_Subset
        <5>6. /\ Cardinality(Pending(r)) \in Nat /\ Cardinality(P) \in Nat
              /\ Cardinality(Pending(q)) \in Nat
          BY <3>1, <5>1, FewerPending, FS_CardinalityType
        <5> HIDE DEF P
        <5> QED BY <5>2, <5>3, <5>5, <5>6
      <4> QED BY <1>1, <2>3, <2>4, <4>3, <4>4, SizesFacts, SlotsFacts DEF HasSpace
    <3> QED BY <3>2, <3>3
  <2>9. Kept(r)
    <3> SUFFICES ASSUME NEW m \in Undelivered
                 PROVE  \E j \in Slot : r.msgs[j] = m
                          /\ (j \in Waiting(r) \/ r.sent[j] \in critical \ accepted)
      BY DEF Kept
    <3>1. PICK j \in Slot : q.msgs[j] = m
                            /\ (j \in Waiting(q) \/ q.sent[j] \in critical \ accepted)
      BY DEF Good, Kept
    <3>2. CASE q.next = i
      BY <2>3, <2>6, <3>1, <3>2
    <3>3. CASE q.next # i /\ j = i
      <4>1. r.msgs[q.next] = m /\ q.next \in Waiting(r)
        BY <1>1, <2>3, <2>6, <3>1, <3>3
      <4> QED BY <1>1, <4>1
    <3>4. CASE q.next # i /\ j # i /\ j = q.next
      <4>1. m.critical
        BY DEF Context, Undelivered
      <4>2. j \in Held(q)
        <5>1. ~ (Away(q, j) < w)
          BY <1>1, <2>5, <3>4
        <5>2. j \notin Waiting(q)
          BY <1>1, <5>1, PendingFacts
        <5> QED BY <3>1, <4>1, <5>2 DEF Held
      <4>3. Away(q, j) < Away(q, i)
        <5>1. Away(q, j) = w /\ Away(q, j) # Away(q, i)
          BY <1>1, <1>2, <3>4
        <5> QED BY <1>1, <2>2, <2>5, <5>1
      <4>4. Age(q.sent[i]) <= Age(q.sent[j])
        BY <2>1, <3>1, <4>2, <4>3 DEF Good, Ordered
      <4>5. q.sent[j] \in Bit /\ q.sent[j] # NextBit
        BY <4>2, <4>3 DEF Good, Known
      <4>6. /\ Age(NextBit) = Window - 1 /\ NextBit \in Bit
            /\ Age(q.sent[j]) \in 0 .. (Window - 1) /\ Age(q.sent[j]) # Age(NextBit)
        BY <4>5, AgeFacts DEF Context
      <4> QED BY <2>1, <4>4, <4>6, RingAssumption
    <3>5. CASE q.next # i /\ j # i /\ j # q.next
      BY <2>3, <2>6, <3>1, <3>5
    <3> QED BY <3>2, <3>3, <3>4, <3>5
  <2>10. SingleCopies(r)
    <3> SUFFICES ASSUME NEW j \in Slot, NEW k \in Slot, j # k, r.msgs[j] = r.msgs[k],
                        r.msgs[j].critical
                 PROVE  FALSE
      BY <2>3, QueueFields DEF SingleCopies
    <3>1. \A x, y \in Slot : q.msgs[x] = q.msgs[y] /\ x # y => ~ q.msgs[x].critical
      BY DEF Good, SingleCopies
    <3>2. CASE q.next = i
      BY <2>3, <3>1, <3>2
    <3>3. CASE q.next # i
      <4>1. j # i /\ k # i
        BY <2>3, <3>3, MessageFacts
      <4> DEFINE Was(x) == IF x = q.next THEN i ELSE x
      <4>2. /\ Was(j) \in Slot /\ Was(k) \in Slot /\ Was(j) # Was(k)
            /\ r.msgs[j] = q.msgs[Was(j)] /\ r.msgs[k] = q.msgs[Was(k)]
        BY <2>3, <3>3, <4>1
      <4> QED BY <3>1, <4>2
    <3> QED BY <3>2, <3>3
  <2>11. Ordered(r)
    BY <2>3, <2>5, <2>7 DEF Good, Ordered, Held
  <2>12. Known(r)
    <3>1. \A j \in Slot : r.msgs[j].critical => r.msgs[j] \in created
      BY <1>1, <2>3, MessageFacts DEF Good, Known
    <3>2. \A j \in Held(r) : r.sent[j] \in Bit
      BY <2>3, <2>7 DEF Good, Known
    <3> QED BY <3>1, <3>2 DEF Known
  <2>13. Good(r)
    BY <2>3, <2>8, <2>9, <2>10, <2>11, <2>12 DEF Good
  <2>14. \A j \in Slot : Away(q, j) > Away(q, i) => r.msgs[j] = q.msgs[j]
    <3> TAKE j \in Slot
    <3> HAVE Away(q, j) > Away(q, i)
    <3>1. j # i
      BY <2>5
    <3>2. j # q.next
      BY <1>1, <2>2, <2>5
    <3> QED BY <2>3, <3>1, <3>2
  <2>15. \A j \in Held(r) : Away(q, j) <= Away(q, i) => r.sent[j] # NextBit
    <3> TAKE j \in Held(r)
    <3> HAVE Away(q, j) <= Away(q, i)
    <3>1. j \in Held(q) /\ j \in Slot /\ j # i
      BY <2>7 DEF Held
    <3>2. Away(q, j) # Away(q, i)
      BY <1>2, <3>1
    <3>3. Away(q, j) < Away(q, i)
      BY <2>5, <3>1, <3>2
    <3> QED BY <2>3, <3>1, <3>3
  <2>16. Away(q, r.next) = w + 1
    BY <2>2, <2>3
  <2> QED BY <1>4, <2>1, <2>3, <2>7, <2>13, <2>14, <2>15, <2>16 DEF r
<1> QED BY <1>3, <1>4

\* The parts of the scan: what it leaves after the slot at next, where it starts
\* and how many slots it looks at.
ScanHead(q, bit) == Requeue(q, bit, q.next)
ScanStart(q, bit) ==
  IF ScanHead(q, bit).next = ScanHead(q, bit).begin
  THEN Advance(ScanHead(q, bit).next) ELSE ScanHead(q, bit).next
ScanSpan(q, bit) == (q.begin - ScanStart(q, bit)) % Slots
ScanSlot(q, bit, n) == (ScanStart(q, bit) + n - 1) % Slots

\* The scan goes from one queue to the next.
LEMMA ResendUnfolds ==
  ASSUME NEW q, NEW bit, q.next < Slots, ScanSpan(q, bit) \in Nat
  PROVE  \E c : /\ c[0] = ScanHead(q, bit)
                /\ \A n \in 1 .. ScanSpan(q, bit) :
                     c[n] = Requeue(c[n - 1], bit, ScanSlot(q, bit, n))
                /\ Resend(q, bit) = c[ScanSpan(q, bit)]
<1> DEFINE Step(x, n) == Requeue(x, bit, ScanSlot(q, bit, n))
           first == ScanHead(q, bit)
           span == ScanSpan(q, bit)
           Body(w, m) == [n \in 0 .. m |-> IF n = 0 THEN first ELSE Step(w[n - 1], n)]
           S == {m \in Nat : \E w : w = Body(w, m)}
<1>1. Resend(q, bit) = (CHOOSE w : w = Body(w, span))[span]
  BY DEF Resend, ScanHead, ScanStart, ScanSpan, ScanSlot
<1> HIDE DEF Step, first, span
<1>2. 0 \in S
  <2>1. [n \in 0 .. 0 |-> first] = Body([n \in 0 .. 0 |-> first], 0)
    OBVIOUS
  <2> QED BY <2>1
<1>3. ASSUME NEW m \in Nat, m \in S PROVE m + 1 \in S
  <2>1. PICK w : w = Body(w, m)
    BY <1>3
  <2> DEFINE v == [n \in 0 .. (m + 1) |-> IF n = m + 1 THEN Step(w[m], n) ELSE w[n]]
  <2>2. \A n \in 0 .. m : v[n] = IF n = 0 THEN first ELSE Step(w[n - 1], n)
    BY <2>1
  <2>3. \A n \in 0 .. m : v[n] = w[n]
    OBVIOUS
  <2>4. v[m + 1] = Step(w[m], m + 1)
    OBVIOUS
  <2>5. \A n \in 0 .. (m + 1) :
          /\ n # 0 => n - 1 \in 0 .. m
          /\ n = m + 1 \/ n \in 0 .. m
    OBVIOUS
  <2>6. \A n \in 0 .. (m + 1) : v[n] = IF n = 0 THEN first ELSE Step(v[n - 1], n)
    <3> HIDE DEF v, Body, S
    <3> TAKE n \in 0 .. (m + 1)
    <3>1. CASE n = m + 1
      <4>1. n # 0 /\ n - 1 = m /\ m \in 0 .. m
        BY <3>1
      <4> QED BY <2>3, <2>4, <3>1, <4>1
    <3>2. CASE n # m + 1
      BY <2>2, <2>3, <2>5, <3>2
    <3> QED BY <3>1, <3>2
  <2>7. v = Body(v, m + 1)
    BY <2>6
  <2> HIDE DEF v, Body
  <2> QED BY <2>7
<1> HIDE DEF S
<1>4. span \in S
  BY <1>2, <1>3, SetInduction DEF span
<1>5. PICK w : w = Body(w, span)
  BY <1>4 DEF S
<1> DEFINE c == CHOOSE v : v = Body(v, span)
<1>6. c = Body(c, span)
  <2> HIDE DEF Body
  <2> QED BY <1>5
<1>7. Resend(q, bit) = c[span]
  BY <1>1
<1> HIDE DEF c
<1>8. c[0] = first /\ \A n \in 1 .. span : c[n] = Step(c[n - 1], n)
  <2>1. span \in Nat
    BY DEF span
  <2> QED BY <1>6, <2>1
<1> QED BY <1>7, <1>8 DEF Step, first, span

\* The scan starts behind the slots that wait, goes up to begin, and leaves none out.
LEMMA ScanRange ==
  ASSUME Context, NEW q, Good(q)
  PROVE  \E o \in 1 .. Slots :
           /\ ScanSpan(q, NextBit) = Slots - o
           /\ \A n \in 1 .. (Slots - o) : ScanSlot(q, NextBit, n) = At(q, o + n - 1)
           /\ LET r == ScanHead(q, NextBit)
              IN  /\ Good(r) /\ r.begin = q.begin
                  /\ Away(q, r.next) <= o
                  /\ \A j \in Held(r) : Away(q, j) < o => r.sent[j] # NextBit
<1> DEFINE r == ScanHead(q, NextBit)
           w == Away(q, q.next)
           start == ScanStart(q, NextBit)
<1>1. /\ q \in QueueMessage /\ q.next < Slots /\ q.next \in Slot /\ q.begin \in Slot
      /\ HasSpace(q)
  BY PendingFacts DEF Good, HasSpace
<1>2. /\ w \in 0 .. (Slots - 1)
      /\ \A j \in Slot : Away(q, j) \in 0 .. (Slots - 1)
      /\ \A j, k \in Slot : Away(q, j) = Away(q, k) => j = k
      /\ Away(q, q.begin) = 0
  BY <1>1, AwayFacts
<1>3. q.next \notin Waiting(q)
  BY <1>1, <1>2, PendingFacts
<1>4. \A j \in Held(q) : ~ (Away(q, j) < w)
  BY <1>1, PendingFacts
<1>5. /\ Good(r) /\ r.begin = q.begin /\ r.sent = q.sent
      /\ \A j \in Held(r) : j \in Held(q)
      /\ \A j \in Held(r) : Away(q, j) <= w => r.sent[j] # NextBit
      /\ Carried(q, NextBit, q.next) => Away(q, r.next) = w + 1 /\ q.next \in Held(q)
      /\ ~ Carried(q, NextBit, q.next) => r = q
  BY <1>1, <1>3, <1>4, RequeueStep DEF ScanHead
<1>6. /\ r.next \in Slot /\ Held(r) \subseteq Slot
  BY <1>5, PendingFacts DEF Good, HasSpace
<1>7. start = IF r.next = q.begin THEN Advance(r.next) ELSE r.next
  BY <1>5 DEF ScanStart
<1>8. \A o \in 1 .. (Slots - 1) : start \in Slot /\ Away(q, start) = o =>
        /\ ScanSpan(q, NextBit) = Slots - o
        /\ \A n \in 1 .. (Slots - o) : ScanSlot(q, NextBit, n) = At(q, o + n - 1)
  <2> TAKE o \in 1 .. (Slots - 1)
  <2> HAVE start \in Slot /\ Away(q, start) = o
  <2> HIDE DEF start
  <2>1. o = IF start >= q.begin THEN start - q.begin ELSE (start - q.begin) + Slots
    BY <1>1, SlotMod DEF Away
  <2>2. (q.begin - start) % Slots
          = IF q.begin >= start THEN q.begin - start ELSE (q.begin - start) + Slots
    BY <1>1, SlotMod
  <2>3. ScanSpan(q, NextBit) = Slots - o
    <3> DEFINE b == q.begin   s == Slots
    <3>1. /\ b \in 0 .. (s - 1) /\ start \in 0 .. (s - 1) /\ s \in Nat
          /\ o \in 1 .. (s - 1)
          /\ o = IF start >= b THEN start - b ELSE (start - b) + s
      BY <1>1, <2>1, SlotsFacts
    <3> HIDE DEF b, s
    <3>2. (IF b >= start THEN b - start ELSE (b - start) + s) = s - o
      BY <3>1
    <3> QED BY <2>2, <3>2 DEF ScanSpan, start, b, s
  <2>4. ASSUME NEW n \in 1 .. (Slots - o)
        PROVE  ScanSlot(q, NextBit, n) = At(q, o + n - 1)
    <3> DEFINE k == n - 1
               l == o + k
    <3>1. k \in Slot /\ l \in Slot /\ o + n - 1 = l
      BY SlotsFacts
    <3>2. ScanSlot(q, NextBit, n) = (start + k) % Slots
      BY <1>1, SlotsFacts DEF ScanSlot, start
    <3> HIDE DEF k
    <3>3. (start + k) % Slots = IF start + k < Slots THEN start + k ELSE (start + k) - Slots
      BY <3>1, SlotMod
    <3>4. (q.begin + l) % Slots
            = IF q.begin + l < Slots THEN q.begin + l ELSE (q.begin + l) - Slots
      BY <1>1, <3>1, SlotMod
    <3>5. (start + k) % Slots = (q.begin + l) % Slots
      <4> DEFINE b == q.begin   s == Slots
      <4>1. /\ b \in 0 .. (s - 1) /\ start \in 0 .. (s - 1) /\ s \in Nat \ {0}
            /\ k \in 0 .. (s - 1) /\ o + k \in 0 .. (s - 1) /\ o \in 1 .. (s - 1)
            /\ o = IF start >= b THEN start - b ELSE (start - b) + s
        BY <1>1, <2>1, <3>1, SlotsFacts
      <4>2. /\ (start + k) % Slots = IF start + k < s THEN start + k ELSE (start + k) - s
            /\ (q.begin + l) % Slots
                 = IF b + (o + k) < s THEN b + (o + k) ELSE (b + (o + k)) - s
        BY <3>3, <3>4
      <4> HIDE DEF b, s
      <4>3. (IF start + k < s THEN start + k ELSE (start + k) - s)
              = (IF b + (o + k) < s THEN b + (o + k) ELSE (b + (o + k)) - s)
        BY <4>1
      <4> QED BY <4>2, <4>3
    <3> QED BY <3>1, <3>2, <3>5 DEF At
  <2> QED BY <2>3, <2>4
<1>9. CASE Carried(q, NextBit, q.next)
  <2>1. Away(q, r.next) = w + 1 /\ w + 1 < Slots
    BY <1>1, <1>5, <1>9, RoomToMove
  <2>2. r.next # q.begin
    BY <1>2, <2>1
  <2>3. start = r.next /\ w + 1 \in 1 .. (Slots - 1) /\ w + 1 \in 1 .. Slots
    <3>1. start = r.next
      BY <1>7, <2>2
    <3> HIDE DEF w
    <3> QED BY <1>2, <2>1, <3>1, SlotsFacts
  <2>4. \A j \in Held(r) : Away(q, j) < w + 1 => r.sent[j] # NextBit
    BY <1>2, <1>5, <1>6
  <2>5. start \in Slot /\ Away(q, start) = w + 1 /\ Away(q, r.next) <= w + 1
    BY <1>2, <1>6, <2>1, <2>3
  <2> HIDE DEF start, r, w
  <2> QED BY <1>5, <1>8, <2>3, <2>4, <2>5 DEF r
<1>10. CASE ~ Carried(q, NextBit, q.next) /\ q.next # q.begin
  <2>1. r = q /\ start = q.next
    BY <1>5, <1>7, <1>10
  <2>2. w \in 1 .. (Slots - 1) /\ w \in 1 .. Slots
    <3>1. w # 0
      BY <1>1, <1>2, <1>10
    <3> QED BY <1>2, <3>1, SlotsFacts
  <2>3. \A j \in Held(r) : Away(q, j) < w => r.sent[j] # NextBit
    BY <1>4, <1>5
  <2>4. Away(q, r.next) <= w /\ Away(q, start) = w
    BY <1>2, <2>1
  <2> HIDE DEF start, r, w
  <2> QED BY <1>1, <1>5, <1>8, <2>1, <2>2, <2>3, <2>4 DEF r
<1>11. CASE ~ Carried(q, NextBit, q.next) /\ q.next = q.begin
  <2>1. r = q /\ w = 0 /\ start = Advance(q.begin)
    BY <1>2, <1>5, <1>7, <1>11
  <2>2. \A j \in Held(r) : Away(q, j) < 1 => r.sent[j] # NextBit
    BY <1>2, <1>5, <1>6, <2>1
  <2>3. start \in Slot /\ Away(q, start) = IF 1 < Slots THEN 1 ELSE 0
    BY <1>1, <1>2, <2>1, AdvanceFacts
  <2>4. Away(q, r.next) <= 1
    BY <2>1
  <2>5. CASE Slots > 1
    <3>1. 1 \in 1 .. (Slots - 1) /\ 1 \in 1 .. Slots /\ Away(q, start) = 1
      BY <2>3, <2>5, SlotsFacts
    <3> HIDE DEF start, r, w
    <3> QED BY <1>5, <1>8, <2>2, <2>3, <2>4, <3>1 DEF r
  <2>6. CASE Slots = 1
    <3>1. start = 0 /\ q.begin = 0
      BY <1>1, <2>3, <2>6, SlotsFacts
    <3>2. ScanSpan(q, NextBit) = 0
      <4>1. 0 \in Slot /\ (0 - 0) % Slots = 0
        BY <2>6, SlotMod, SlotsFacts
      <4> QED BY <3>1, <4>1 DEF ScanSpan, start
    <3>3. 1 \in 1 .. Slots /\ Slots - 1 = 0 /\ 1 .. 0 = {}
      BY <2>6
    <3> HIDE DEF start, r, w
    <3> QED BY <1>5, <2>2, <2>4, <2>6, <3>2, <3>3 DEF r
  <2> QED BY <2>5, <2>6, SlotsFacts
<1> QED BY <1>9, <1>10, <1>11

\* After the whole scan (udp_client.cpp 494-535) what was lost waits, and nothing was
\* forgotten or doubled.
LEMMA ResendGood ==
  ASSUME Context, NEW q, Good(q)
  PROVE  Good(Resend(q, NextBit)) /\ NoneDue(Resend(q, NextBit))
<1>1. q.next < Slots /\ q.begin \in Slot
  BY QueueFields DEF Good, HasSpace
<1>2. PICK o \in 1 .. Slots :
        /\ ScanSpan(q, NextBit) = Slots - o
        /\ \A n \in 1 .. (Slots - o) : ScanSlot(q, NextBit, n) = At(q, o + n - 1)
        /\ LET r == ScanHead(q, NextBit)
           IN  /\ Good(r) /\ r.begin = q.begin
               /\ Away(q, r.next) <= o
               /\ \A j \in Held(r) : Away(q, j) < o => r.sent[j] # NextBit
  BY ScanRange
<1> DEFINE span == Slots - o
<1>3. span \in Nat
  BY SlotsFacts
<1>4. PICK c : /\ c[0] = ScanHead(q, NextBit)
               /\ \A n \in 1 .. span :
                    c[n] = Requeue(c[n - 1], NextBit, ScanSlot(q, NextBit, n))
               /\ Resend(q, NextBit) = c[span]
  <2>1. ScanSpan(q, NextBit) \in Nat
    BY <1>2, <1>3
  <2>2. \E c : /\ c[0] = ScanHead(q, NextBit)
               /\ \A n \in 1 .. ScanSpan(q, NextBit) :
                    c[n] = Requeue(c[n - 1], NextBit, ScanSlot(q, NextBit, n))
               /\ Resend(q, NextBit) = c[ScanSpan(q, NextBit)]
    BY <1>1, <2>1, ResendUnfolds
  <2> QED BY <1>2, <2>2
<1> DEFINE Upto(r, n) == /\ Good(r) /\ r.begin = q.begin
                         /\ Away(q, r.next) <= o + n
                         /\ \A j \in Held(r) : Away(q, j) < o + n => r.sent[j] # NextBit
           S == {n \in Nat : n <= span => Upto(c[n], n)}
<1>5. 0 \in S
  <2>1. o + 0 = o
    OBVIOUS
  <2> QED BY <1>2, <1>4, <2>1
<1>6. ASSUME NEW n \in Nat, n \in S PROVE n + 1 \in S
  <2> SUFFICES ASSUME n + 1 <= span PROVE Upto(c[n + 1], n + 1)
    OBVIOUS
  <2>1. Upto(c[n], n)
    BY <1>3, <1>6
  <2> HIDE DEF S
  <2>2. n + 1 \in 1 .. span /\ (n + 1) - 1 = n /\ o + n \in Slot /\ o + (n + 1) - 1 = o + n
    BY <1>3, SlotsFacts
  <2> DEFINE r == c[n]
             i == At(q, o + n)
  <2>3. c[n + 1] = Requeue(r, NextBit, i)
    BY <1>2, <1>4, <2>2
  <2>4. i \in Slot /\ Away(q, i) = o + n
    BY <1>1, <2>2, AwayFacts
  <2> HIDE DEF r, i
  <2>5. Good(r) /\ r.begin = q.begin /\ Away(q, r.next) <= o + n
        /\ \A j \in Held(r) : Away(q, j) < o + n => r.sent[j] # NextBit
    BY <2>1 DEF r
  <2>6. r \in QueueMessage /\ r.next < Slots /\ r.next \in Slot
    BY <2>5, PendingFacts DEF Good, HasSpace
  <2>7. \A j \in Slot : Away(r, j) = Away(q, j) /\ Away(q, j) \in 0 .. (Slots - 1)
    BY <1>1, <2>5, SamePlaces, AwayFacts
  <2>8. i \notin Waiting(r)
    <3>1. ~ (Away(r, i) < Away(r, r.next))
      BY <2>2, <2>4, <2>5, <2>6, <2>7
    <3> QED BY <2>4, <2>6, <3>1, PendingFacts
  <2>9. \A j \in Held(r) : Away(r, j) < Away(r, i) => r.sent[j] # NextBit
    BY <2>4, <2>5, <2>7 DEF Held
  <2> DEFINE t == Requeue(r, NextBit, i)
  <2>10. /\ Good(t) /\ t.begin = r.begin /\ t.sent = r.sent
         /\ \A j \in Held(t) : Away(r, j) <= Away(r, i) => t.sent[j] # NextBit
         /\ Carried(r, NextBit, i) => Away(r, t.next) = Away(r, r.next) + 1
         /\ ~ Carried(r, NextBit, i) => t = r
    BY <2>4, <2>5, <2>8, <2>9, RequeueStep
  <2> HIDE DEF t
  <2>11. t.next \in Slot
    BY <2>10, PendingFacts DEF Good, HasSpace
  <2>12. Away(q, t.next) <= o + (n + 1)
    BY <2>5, <2>6, <2>7, <2>10, <2>11
  <2>13. \A j \in Held(t) : Away(q, j) < o + (n + 1) => t.sent[j] # NextBit
    <3> TAKE j \in Held(t)
    <3> HAVE Away(q, j) < o + (n + 1)
    <3>1. j \in Slot
      BY DEF Held
    <3>2. Away(r, j) <= Away(r, i)
      BY <2>4, <2>7, <3>1
    <3> QED BY <2>10, <3>2
  <2>14. Upto(t, n + 1)
    BY <2>5, <2>10, <2>12, <2>13
  <2> QED BY <2>3, <2>14 DEF t
<1> HIDE DEF S
<1>7. span \in S
  BY <1>3, <1>5, <1>6, SetInduction
<1>8. Upto(c[span], span)
  BY <1>3, <1>7 DEF S
<1>9. \A j \in Held(c[span]) : c[span].sent[j] # NextBit
  <2> TAKE j \in Held(c[span])
  <2>1. j \in Slot /\ Away(q, j) < Slots
    <3>1. j \in Slot
      BY DEF Held
    <3>2. Away(q, j) \in 0 .. (Slots - 1)
      BY <1>1, <3>1, AwayFacts
    <3> QED BY <3>1, <3>2, SlotsFacts
  <2>2. o + span = Slots
    BY SlotsFacts
  <2> QED BY <1>8, <2>1, <2>2
<1> QED BY <1>4, <1>8, <1>9 DEF NoneDue

\* Whether a critical packet was lost or not, no message is in the packet whose bit
\* is used next.
LEMMA CheckedGood ==
  ASSUME Context, Good(queue), seqBit \subseteq accepted
  PROVE  Good(Checked) /\ NoneDue(Checked)
<1>1. CASE OldestLost
  BY <1>1, ResendGood DEF Checked
<1>2. CASE ~ OldestLost
  <2>1. Checked = queue
    BY <1>2 DEF Checked
  <2>2. NoneDue(queue)
    <3> SUFFICES ASSUME NEW i \in Held(queue), queue.msgs[i] \in Undelivered
                 PROVE  queue.sent[i] # NextBit
      BY DEF NoneDue
    <3>1. queue.sent[i] \in critical \ accepted
      BY HeldLost DEF Good
    <3> QED BY <1>2, <3>1 DEF OldestLost
  <2> QED BY <2>1, <2>2
<1> QED BY <1>1, <1>2

-------------------------------------------------------------------------------
(***************************************************************************)
(* The steps                                                               *)
(***************************************************************************)

\* What the queue keeps is said of the variables that a poll leaves alone.
LEMMA SameGood ==
  ASSUME SlotsInv, UNCHANGED <<last, critical, accepted, created, delivered, calls>>,
         TypeOK', Good(queue'), polled' => NoneDue(queue')
  PROVE  SlotsInv'
<1>1. \A m \in created' : m.critical /\ m.id \in 1 .. calls'
  BY DEF SlotsInv
<1>2. HasSpace(queue)' /\ SingleCopies(queue)'
  BY DEF Good, HasSpace, SingleCopies, Pending, SizeOf, Total, Waiting
<1>3. Kept(queue)' /\ Known(queue)'
  BY DEF Good, Kept, Known, Undelivered, Held, Waiting
<1>4. Ordered(queue)'
  BY DEF Good, Ordered, Undelivered, Held, Waiting, Away, Age
<1>5. polled' => NoneDue(queue)'
  BY DEF NoneDue, NextBit, Undelivered, Held, Waiting
<1> QED BY <1>1, <1>2, <1>3, <1>4, <1>5 DEF SlotsInv

LEMMA InvGood == SlotsInv => Good(queue) /\ Context
BY DEF SlotsInv, Good, Context, TypeOK

\* A poll (client 482-538, server 645-713).
LEMMA PollStep ==
  ASSUME SlotsInv, Poll
  PROVE  SlotsInv'
<1>1. Good(queue) /\ Context /\ TypeOK
  BY InvGood DEF SlotsInv
<1>2. Good(queue') /\ NoneDue(queue')
  BY <1>1, CheckedGood DEF Poll, TypeOK
<1>3. seqBit' \subseteq accepted
  BY <1>1 DEF Poll, TypeOK, Confirmable
<1>4. TypeOK'
  BY <1>1, <1>2, <1>3 DEF Poll, TypeOK, Good
<1> QED BY <1>2, <1>4, SameGood DEF Poll

-------------------------------------------------------------------------------
(***************************************************************************)
(* CreatePackages                                                          *)
(***************************************************************************)

\* The messages of a call are of the size that the data leaves, all critical or
\* none, and no two are equal.
LEMMA FragmentsFacts ==
  ASSUME NEW id \in 0 .. MaxCalls, NEW size \in Nat, NEW crit \in BOOLEAN
  PROVE  LET msgs == Fragments(id, size, crit)
         IN  /\ Len(msgs) \in Nat /\ DOMAIN msgs = 1 .. Len(msgs)
             /\ \A n \in 1 .. Len(msgs) :
                  /\ msgs[n] \in Message
                  /\ msgs[n].critical = crit
                  /\ crit => msgs[n].id = id
             /\ \A n, k \in 1 .. Len(msgs) : msgs[n] = msgs[k] => n = k
<1> DEFINE Count == (size + Fragment - 1) \div Fragment
           first == IF size > Fragment THEN 1 ELSE 0
           used(n) == IF n < Count THEN Fragment ELSE size - (Count - 1) * Fragment
           Msg(type, order, len) ==
             [type |-> type, critical |-> crit, size |-> Overhead + len,
              id |-> IF crit THEN id ELSE 0, order |-> order]
           msg(n) == IF n <= first THEN Msg("buffer", 0, 1)
                     ELSE Msg("data", n - 1, used(n - first))
           len == Count + first
<1>1. Fragment \in Nat \ {0} /\ Overhead \in Nat \ {0} /\ MaxCalls \in Nat
  BY CallAssumption
<1>2. Count \in Nat /\ (Count >= 1 => size - (Count - 1) * Fragment \in Nat)
  <2> DEFINE a == size + Fragment - 1
  <2>1. a \in Nat
    BY <1>1
  <2>2. Count \in Nat /\ a % Fragment \in 0 .. (Fragment - 1)
        /\ a = Count * Fragment + (a % Fragment)
    BY <1>1, <2>1, LapAndPlace
  <2> HIDE DEF Count
  <2>3. (Count - 1) * Fragment = Count * Fragment - Fragment
        /\ Count * Fragment \in Nat
    BY <1>1, <2>2
  <2>4. Count * Fragment <= size + Fragment - 1
    BY <1>1, <2>2, <2>3
  <2>5. (Count - 1) * Fragment <= size /\ (Count - 1) * Fragment \in Int
    BY <1>1, <2>3, <2>4
  <2> QED BY <2>2, <2>5
<1>3. first \in 0 .. 1 /\ len \in Nat
  BY <1>2
<1>4. Fragments(id, size, crit) = [n \in 1 .. len |-> msg(n)]
  BY DEF Fragments
<1> HIDE DEF Count
<1>5. ASSUME NEW n \in 1 .. len
      PROVE  /\ msg(n) \in Message /\ msg(n).critical = crit /\ (crit => msg(n).id = id)
             /\ msg(n).order = n - 1
  <2>1. CASE n <= first
    <3>1. msg(n) = Msg("buffer", 0, 1) /\ n = 1
      BY <1>3, <2>1
    <3>2. Overhead + 1 \in Nat /\ (IF crit THEN id ELSE 0) \in 0 .. MaxCalls
      BY <1>1
    <3> QED BY <3>1, <3>2 DEF Message, Kind
  <2>2. CASE ~ (n <= first)
    <3>1. msg(n) = Msg("data", n - 1, used(n - first))
      BY <2>2
    <3>2. used(n - first) \in Nat
      <4>1. n - first \in 1 .. Count
        BY <1>2, <1>3, <2>2
      <4> HIDE DEF first
      <4>2. Count >= 1
        BY <1>2, <4>1
      <4> QED BY <1>1, <1>2, <4>1, <4>2
    <3> HIDE DEF used
    <3>3. Overhead + used(n - first) \in Nat /\ (IF crit THEN id ELSE 0) \in 0 .. MaxCalls
          /\ n - 1 \in Nat
      BY <1>1, <3>2
    <3> QED BY <3>1, <3>3 DEF Message, Kind
  <2> QED BY <2>1, <2>2
<1> HIDE DEF msg, len
<1> DEFINE msgs == Fragments(id, size, crit)
<1>6. Len(msgs) = len /\ DOMAIN msgs = 1 .. len /\ \A n \in 1 .. len : msgs[n] = msg(n)
  BY <1>3, <1>4
<1> HIDE DEF msgs
<1>7. \A n, k \in 1 .. len : msgs[n] = msgs[k] => n = k
  <2> TAKE n, k \in 1 .. len
  <2> HAVE msgs[n] = msgs[k]
  <2>1. msg(n).order = msg(k).order
    BY <1>6
  <2>2. n - 1 = k - 1
    BY <1>5, <2>1
  <2> QED BY <1>3, <2>2
<1>8. Len(msgs) \in Nat /\ DOMAIN msgs = 1 .. Len(msgs)
  BY <1>3, <1>6
<1>9. \A n \in 1 .. Len(msgs) :
        msgs[n] \in Message /\ msgs[n].critical = crit /\ (crit => msgs[n].id = id)
  BY <1>5, <1>6
<1> QED BY <1>6, <1>7, <1>8, <1>9 DEF msgs

\* The messages are added one after the other.
LEMMA PutAllUnfolds ==
  ASSUME NEW msgs, NEW unset, Len(msgs) \in Nat
  PROVE  \E c : /\ c[0] = queue
                /\ \A n \in 1 .. Len(msgs) :
                     c[n] = IF c[n - 1].ended # "no" THEN c[n - 1]
                            ELSE PutMessage(seqBit, c[n - 1], msgs[n], unset)
                /\ PutAll(msgs, unset) = c[Len(msgs)]
<1> DEFINE Step(x, n) == IF x.ended # "no" THEN x
                         ELSE PutMessage(seqBit, x, msgs[n], unset)
           span == Len(msgs)
           Body(w, m) == [n \in 0 .. m |-> IF n = 0 THEN queue ELSE Step(w[n - 1], n)]
           S == {m \in Nat : \E w : w = Body(w, m)}
<1>1. PutAll(msgs, unset) = (CHOOSE w : w = Body(w, span))[span]
  BY DEF PutAll
<1> HIDE DEF Step, span
<1>2. 0 \in S
  <2>1. [n \in 0 .. 0 |-> queue] = Body([n \in 0 .. 0 |-> queue], 0)
    OBVIOUS
  <2> QED BY <2>1
<1>3. ASSUME NEW m \in Nat, m \in S PROVE m + 1 \in S
  <2>1. PICK w : w = Body(w, m)
    BY <1>3
  <2> DEFINE v == [n \in 0 .. (m + 1) |-> IF n = m + 1 THEN Step(w[m], n) ELSE w[n]]
  <2>2. \A n \in 0 .. m : v[n] = IF n = 0 THEN queue ELSE Step(w[n - 1], n)
    BY <2>1
  <2>3. \A n \in 0 .. m : v[n] = w[n]
    OBVIOUS
  <2>4. v[m + 1] = Step(w[m], m + 1)
    OBVIOUS
  <2>5. \A n \in 0 .. (m + 1) :
          /\ n # 0 => n - 1 \in 0 .. m
          /\ n = m + 1 \/ n \in 0 .. m
    OBVIOUS
  <2>6. \A n \in 0 .. (m + 1) : v[n] = IF n = 0 THEN queue ELSE Step(v[n - 1], n)
    <3> HIDE DEF v, Body, S
    <3> TAKE n \in 0 .. (m + 1)
    <3>1. CASE n = m + 1
      <4>1. n # 0 /\ n - 1 = m /\ m \in 0 .. m
        BY <3>1
      <4> QED BY <2>3, <2>4, <3>1, <4>1
    <3>2. CASE n # m + 1
      BY <2>2, <2>3, <2>5, <3>2
    <3> QED BY <3>1, <3>2
  <2>7. v = Body(v, m + 1)
    BY <2>6
  <2> HIDE DEF v, Body
  <2> QED BY <2>7
<1> HIDE DEF S
<1>4. span \in S
  BY <1>2, <1>3, SetInduction DEF span
<1>5. PICK w : w = Body(w, span)
  BY <1>4 DEF S
<1> DEFINE c == CHOOSE v : v = Body(v, span)
<1>6. c = Body(c, span)
  <2> HIDE DEF Body
  <2> QED BY <1>5
<1>7. PutAll(msgs, unset) = c[span]
  BY <1>1
<1> HIDE DEF c
<1>8. c[0] = queue /\ \A n \in 1 .. span : c[n] = Step(c[n - 1], n)
  <2>1. span \in Nat
    BY DEF span
  <2> QED BY <1>6, <2>1
<1> QED BY <1>7, <1>8 DEF Step, span

\* The slots that a call of n messages takes, and what can be sent again beside.
Taken(n) == {queue.next + k : k \in 0 .. (n - 1)}
Spared(n) == Pending(queue) \ Taken(n)

\* Within the limits the slots that a call takes are free, and lie behind those that
\* wait: next does not come round to begin.
LEMMA TakenFree ==
  ASSUME SlotsInv, NEW l \in Nat, queue.next + l < Slots,
         Cardinality(Spared(l)) + l < Slots
  PROVE  /\ \A n \in 0 .. l : /\ queue.next + n \in Slot
                              /\ Away(queue, queue.next + n) = Away(queue, queue.next) + n
                              /\ n # 0 => queue.next + n # queue.begin
         /\ Taken(l) \subseteq Slot /\ Taken(l) \intersect Waiting(queue) = {}
         /\ IsFiniteSet(Taken(l)) /\ Cardinality(Taken(l)) = l
<1> DEFINE x == queue.next   b == queue.begin   s == Slots
<1>1. /\ queue \in QueueMessage /\ x \in Slot /\ b \in Slot /\ x < s
      /\ Pending(queue) \subseteq Slot
  BY InvGood, PendingFacts DEF Good, HasSpace
<1>2. s \in Nat \ {0} /\ x \in 0 .. (s - 1) /\ b \in 0 .. (s - 1) /\ x + l < s
  BY <1>1, SlotsFacts
<1>3. \A n \in 0 .. l : x + n \in Slot
  BY <1>2, SlotsFacts
<1>4. \A i \in Slot : Away(queue, i) = IF i >= b THEN i - b ELSE (i - b) + s
  BY <1>1, SlotMod DEF Away
<1>5. Taken(l) = x .. (x + l - 1)
  <2>1. \A y : y \in x .. (x + l - 1) => y - x \in 0 .. (l - 1) /\ y = x + (y - x)
    BY <1>2
  <2>2. \A k \in 0 .. (l - 1) : x + k \in x .. (x + l - 1)
    BY <1>2
  <2> QED BY <2>1, <2>2 DEF Taken
<1>6. IsFiniteSet(Taken(l)) /\ Cardinality(Taken(l)) = l
  <2>1. x \in Int /\ x + l - 1 \in Int
    BY <1>2
  <2>2. /\ IsFiniteSet(x .. (x + l - 1))
        /\ Cardinality(x .. (x + l - 1)) =
             IF x > x + l - 1 THEN 0 ELSE (x + l - 1) - x + 1
    BY <2>1, FS_Interval
  <2> QED BY <1>2, <1>5, <2>2
<1>7. Taken(l) \subseteq Slot
  BY <1>2, <1>5, SlotsFacts
<1>8. ~ (x < b /\ b <= x + l)
  <2> SUFFICES ASSUME x < b, b <= x + l PROVE FALSE
    OBVIOUS
  <2>1. \A i \in Slot : i \notin Taken(l) => i \in Pending(queue)
    <3> TAKE i \in Slot
    <3> HAVE i \notin Taken(l)
    <3>1. i \in 0 .. (s - 1) /\ (i < x \/ i >= x + l)
      BY <1>2, <1>5, SlotsFacts
    <3>2. Away(queue, x) = (x - b) + s
      BY <1>1, <1>2, <1>4
    <3>3. Away(queue, i) = IF i >= b THEN i - b ELSE (i - b) + s
      BY <1>4
    <3> DEFINE ai == Away(queue, i)   ax == Away(queue, x)
    <3>4. ax = (x - b) + s /\ ai = IF i >= b THEN i - b ELSE (i - b) + s
      BY <3>2, <3>3
    <3> HIDE DEF ai, ax, x, b, s
    <3>5. ai < ax
      BY <1>2, <3>1, <3>4
    <3> QED BY <1>1, <3>5, PendingFacts DEF ai, ax, x, s
  <2>2. Slot = Spared(l) \union Taken(l) /\ Spared(l) \intersect Taken(l) = {}
    BY <1>1, <1>7, <2>1 DEF Spared
  <2>3. IsFiniteSet(Spared(l))
    BY <2>2, AllSlots, FS_Subset
  <2>4. Cardinality(Slot) = Cardinality(Spared(l)) + Cardinality(Taken(l))
    <3>1. Cardinality(Spared(l) \union Taken(l))
            = Cardinality(Spared(l)) + Cardinality(Taken(l))
              - Cardinality(Spared(l) \intersect Taken(l))
      BY <1>6, <2>3, FS_Union
    <3>2. Cardinality({}) = 0
      BY FS_EmptySet
    <3>3. Cardinality(Spared(l) \intersect Taken(l)) = 0
      BY <2>2, <3>2, Zenon
    <3>4. Cardinality(Slot) = Cardinality(Spared(l) \union Taken(l))
      BY <2>2, Zenon
    <3>5. Cardinality(Spared(l)) \in Nat /\ Cardinality(Taken(l)) \in Nat
      BY <1>6, <2>3, FS_CardinalityType
    <3> QED BY <3>1, <3>3, <3>4, <3>5
  <2>5. Cardinality(Spared(l)) \in Nat
    BY <2>3, FS_CardinalityType
  <2> QED BY <1>2, <1>6, <2>4, <2>5, AllSlots
<1>9. ASSUME NEW n \in 0 .. l
      PROVE  /\ Away(queue, x + n) = Away(queue, x) + n
             /\ n # 0 => x + n # b
  <2>1. Away(queue, x + n) = IF x + n >= b THEN (x + n) - b ELSE ((x + n) - b) + s
    BY <1>3, <1>4
  <2>2. Away(queue, x) = IF x >= b THEN x - b ELSE (x - b) + s
    BY <1>1, <1>4
  <2> HIDE DEF x, b, s
  <2> QED BY <1>2, <1>8, <2>1, <2>2
<1>10. Taken(l) \intersect Waiting(queue) = {}
  <2> SUFFICES ASSUME NEW k \in 0 .. (l - 1), x + k \in Waiting(queue) PROVE FALSE
    BY DEF Taken
  <2>1. k \in 0 .. l /\ k >= 0
    OBVIOUS
  <2>2. Away(queue, x + k) < Away(queue, x) /\ Away(queue, x + k) = Away(queue, x) + k
    BY <1>1, <1>3, <1>9, <2>1, PendingFacts
  <2>3. Away(queue, x) \in Int
    BY <1>1, AwayFacts
  <2> HIDE DEF x
  <2> QED BY <2>1, <2>2, <2>3
<1> QED BY <1>3, <1>6, <1>7, <1>9, <1>10

\* Message m goes to the slot at next, which is not the one before begin and holds no
\* critical message but a confirmed one.
LEMMA PutPlain ==
  ASSUME NEW q \in QueueMessage, q.ended = "no", q.next + 1 < Slots,
         q.next + 1 # q.begin, NEW m \in Message, NEW unset, seqBit \subseteq Bit,
         q.msgs[q.next].critical => q.sent[q.next] \in seqBit
  PROVE  LET r == PutMessage(seqBit, q, m, unset)
         IN  /\ r \in QueueMessage
             /\ r.sent = q.sent /\ r.begin = q.begin /\ r.ended = "no"
             /\ r.next = q.next + 1
             /\ \A i \in Slot : r.msgs[i] = IF i = q.next THEN m ELSE q.msgs[i]
<1> DEFINE at == q.next
           x == [q.msgs EXCEPT ![at] = m]
<1>1. at \in Slot /\ at + 1 \in Nat /\ at + 1 < Slots
  BY QueueFields, SlotsFacts DEF QueueMessage
<1>2. at % Slots = at
  <2>1. Slots \in Nat \ {0} /\ at \in 0 .. (Slots - 1) /\ at = 0 * Slots + at
    BY <1>1, SlotsFacts
  <2> QED BY <2>1, PlaceUnique
<1>3. q.msgs[at].critical => IsAckMessage(seqBit, q, at, unset)
  <2>1. Window \notin Bit
    BY RingAssumption DEF Bit
  <2> QED BY <2>1 DEF IsAckMessage, NotSet
<1>4. PutMessage(seqBit, q, m, unset) = [q EXCEPT !.msgs = x, !.next = at + 1]
  <2> DEFINE next == at + 1
             acked == IsAckMessage(seqBit, q, at, unset)
             inWay == q.msgs[at].critical /\ ~ acked
             span == ((q.begin - next - 1) % Slots) + 1
             Probe(n) == (next + n) % Slots
             free == {n \in 0 .. (span - 1) : IsAckMessage(seqBit, q, Probe(n), unset)}
             first == Probe(CHOOSE n \in free : \A k \in free : n <= k)
             Put(msgs) == [q EXCEPT !.msgs = [msgs EXCEPT ![at] = m], !.next = next]
  <2>1. PutMessage(seqBit, q, m, unset)
          = IF next = q.begin \/ (inWay /\ next < Slots /\ free = {})
            THEN Ending(q, "assert")
            ELSE IF inWay /\ next >= Slots THEN Ending(q, "wild")
            ELSE IF inWay THEN Put([q.msgs EXCEPT ![first] = q.msgs[at]])
            ELSE Put(q.msgs)
    BY <1>2 DEF PutMessage
  <2>2. ~ inWay /\ next # q.begin
    BY <1>3
  <2> HIDE DEF inWay, first, free
  <2>3. PutMessage(seqBit, q, m, unset) = Put(q.msgs)
    BY <2>1, <2>2
  <2> QED BY <2>3
<1>5. x \in [Slot -> Message \union {NoMessage}]
      /\ \A i \in Slot : x[i] = IF i = at THEN m ELSE q.msgs[i]
  BY <1>1, QueueFields
<1> HIDE DEF x
<1>6. [q EXCEPT !.msgs = x, !.next = at + 1]
        = [msgs |-> x, sent |-> q.sent, begin |-> q.begin, next |-> at + 1, ended |-> q.ended]
  <2>1. PICK p : p = [q EXCEPT !.msgs = x]
    OBVIOUS
  <2>2. p = [msgs |-> x, sent |-> q.sent, begin |-> q.begin, next |-> q.next,
             ended |-> q.ended]
    BY <2>1 DEF QueueMessage
  <2> DEFINE y == at + 1
  <2> HIDE DEF y
  <2>3. [q EXCEPT !.msgs = x, !.next = y] = [p EXCEPT !.next = y]
    BY <2>1, Zenon
  <2>4. [p EXCEPT !.next = y]
          = [msgs |-> x, sent |-> q.sent, begin |-> q.begin, next |-> y, ended |-> q.ended]
    BY <2>2
  <2> QED BY <2>3, <2>4 DEF y
<1>7. [msgs |-> x, sent |-> q.sent, begin |-> q.begin, next |-> at + 1, ended |-> q.ended]
        \in QueueMessage
  BY <1>1, <1>5 DEF QueueMessage
<1> QED BY <1>4, <1>5, <1>6, <1>7

\* What a call within the limits leaves: its messages in the slots it takes.
LEMMA PutAllGives ==
  ASSUME SlotsInv, NEW msgs, NEW unset, NEW l \in Nat, l = Len(msgs),
         \A n \in 1 .. l : msgs[n] \in Message,
         queue.next + l < Slots, Cardinality(Spared(l)) + l < Slots,
         \A i \in Taken(l) : queue.msgs[i].critical => queue.sent[i] \in seqBit
  PROVE  LET r == PutAll(msgs, unset)
         IN  /\ r \in QueueMessage
             /\ r.sent = queue.sent /\ r.begin = queue.begin /\ r.ended = "no"
             /\ r.next = queue.next + l
             /\ \A i \in Slot : i \notin Taken(l) => r.msgs[i] = queue.msgs[i]
             /\ \A n \in 1 .. l : r.msgs[queue.next + n - 1] = msgs[n]
<1> DEFINE x == queue.next
<1>1. /\ queue \in QueueMessage /\ queue.ended = "no" /\ seqBit \subseteq Bit
      /\ x \in Nat
  BY InvGood, PendingFacts, SlotsFacts DEF Good, HasSpace, SlotsInv, TypeOK
<1>2. PICK c : /\ c[0] = queue
               /\ \A n \in 1 .. l : c[n] = IF c[n - 1].ended # "no" THEN c[n - 1]
                                           ELSE PutMessage(seqBit, c[n - 1], msgs[n], unset)
               /\ PutAll(msgs, unset) = c[l]
  BY PutAllUnfolds
<1> DEFINE Upto(r, n) ==
             /\ r \in QueueMessage
             /\ r.sent = queue.sent /\ r.begin = queue.begin /\ r.ended = "no"
             /\ r.next = x + n
             /\ \A i \in Slot : i \notin Taken(n) => r.msgs[i] = queue.msgs[i]
             /\ \A k \in 1 .. n : r.msgs[x + k - 1] = msgs[k]
           S == {n \in Nat : n <= l => Upto(c[n], n)}
<1>3. 0 \in S
  BY <1>1, <1>2
<1>4. ASSUME NEW n \in Nat, n \in S PROVE n + 1 \in S
  <2> SUFFICES ASSUME n + 1 <= l PROVE Upto(c[n + 1], n + 1)
    OBVIOUS
  <2> DEFINE q == c[n]   at == x + n   m == msgs[n + 1]
             r == PutMessage(seqBit, q, m, unset)
  <2>1. Upto(q, n)
    BY <1>4
  <2> HIDE DEF S
  <2>2. /\ n + 1 \in 1 .. l /\ (n + 1) - 1 = n /\ n \in 0 .. l /\ n + 1 \in 0 .. l
        /\ n + 1 # 0
    OBVIOUS
  <2>3. c[n + 1] = r
    BY <1>2, <2>1, <2>2
  <2>4. /\ at \in Slot /\ at + 1 \in Slot /\ at + 1 # queue.begin
    <3>1. x + (n + 1) = at + 1
      BY <1>1
    <3> QED BY <2>2, <3>1, TakenFree
  <2>5. at \in Taken(l) /\ at \notin Taken(n)
    BY <1>1, <2>2 DEF Taken
  <2>6. q.next + 1 < Slots /\ q.next + 1 # q.begin /\ m \in Message
        /\ (q.msgs[q.next].critical => q.sent[q.next] \in seqBit)
    <3>1. q.next = at /\ q.begin = queue.begin /\ q.sent = queue.sent
          /\ q.msgs[at] = queue.msgs[at]
      BY <2>1, <2>4, <2>5
    <3>2. m \in Message
      BY <2>2
    <3>3. at + 1 < Slots
      BY <2>4, SlotsFacts
    <3> HIDE DEF q, at, m
    <3> QED BY <2>4, <2>5, <3>1, <3>2, <3>3
  <2> HIDE DEF q, m
  <2>7. /\ r \in QueueMessage
        /\ r.sent = q.sent /\ r.begin = q.begin /\ r.ended = "no"
        /\ r.next = q.next + 1
        /\ \A i \in Slot : r.msgs[i] = IF i = q.next THEN m ELSE q.msgs[i]
    BY <1>1, <2>1, <2>6, PutPlain
  <2> HIDE DEF r
  <2>8. \A i \in Slot : i \notin Taken(n + 1) => r.msgs[i] = queue.msgs[i]
    <3> TAKE i \in Slot
    <3> HAVE i \notin Taken(n + 1)
    <3>1. n \in 0 .. (n + 1 - 1) /\ \A k \in 0 .. (n - 1) : k \in 0 .. (n + 1 - 1)
      OBVIOUS
    <3>2. i # at /\ i \notin Taken(n)
      BY <3>1 DEF Taken
    <3> QED BY <2>1, <2>7, <3>2
  <2>9. \A k \in 1 .. (n + 1) : r.msgs[x + k - 1] = msgs[k]
    <3> TAKE k \in 1 .. (n + 1)
    <3>1. CASE k = n + 1
      <4>1. x + k - 1 = at
        BY <1>1, <3>1
      <4> QED BY <2>1, <2>4, <2>7, <3>1, <4>1 DEF m
    <3>2. CASE k # n + 1
      <4> DEFINE i == x + k - 1
      <4>1. k \in 1 .. n /\ k - 1 \in 0 .. l /\ x + (k - 1) = i /\ i # at
        BY <1>1, <3>2
      <4>2. i \in Slot
        BY <4>1, TakenFree
      <4>3. q.msgs[i] = msgs[k]
        BY <2>1, <4>1
      <4> HIDE DEF i
      <4>4. r.msgs[i] = msgs[k]
        BY <2>1, <2>7, <4>1, <4>2, <4>3
      <4> QED BY <4>4 DEF i
    <3> QED BY <3>1, <3>2
  <2>10. r.next = x + (n + 1)
    BY <1>1, <2>1, <2>7
  <2>11. Upto(r, n + 1)
    BY <2>1, <2>7, <2>8, <2>9, <2>10
  <2> QED BY <2>3, <2>11
<1> HIDE DEF S
<1>5. l \in S
  BY <1>3, <1>4, SetInduction
<1> QED BY <1>2, <1>5 DEF S

\* The size of what can be sent again grows by that of the messages added.
LEMMA AddedSize ==
  ASSUME SlotsInv, NEW msgs, NEW r \in QueueMessage, NEW l \in Nat,
         queue.next + l < Slots, Cardinality(Spared(l)) + l < Slots,
         \A i \in Slot : i \notin Taken(l) => r.msgs[i] = queue.msgs[i],
         \A n \in 1 .. l : r.msgs[queue.next + n - 1] = msgs[n]
  PROVE  SizeOf(r, Spared(l) \union Taken(l))
           = SizeOf(queue, Spared(l)) + Total([n \in 1 .. l |-> msgs[n].size], l)
<1> DEFINE f == [n \in 1 .. l |-> msgs[n].size]
           x == queue.next
           base == SizeOf(queue, Spared(l))
<1>1. queue \in QueueMessage /\ x \in Nat
  BY InvGood, PendingFacts, SlotsFacts DEF Good, HasSpace
<1>2. PICK s : /\ s[0] = 0
               /\ \A k \in 1 .. l : s[k] = s[k - 1] + f[k]
               /\ Total(f, l) = s[l]
  BY TotalUnfolds
<1> DEFINE S == {n \in Nat : n <= l =>
                   s[n] \in Nat /\ SizeOf(r, Spared(l) \union Taken(n)) = base + s[n]}
<1>3. base \in Nat
  BY <1>1, SizesFacts
<1>4. 0 \in S
  <2>1. Spared(l) \union Taken(0) = Spared(l)
    BY DEF Taken
  <2>2. SizeOf(r, Spared(l)) <= base /\ base <= SizeOf(r, Spared(l))
    BY <1>1, SizeMono DEF Spared
  <2>3. SizeOf(r, Spared(l)) = base
    BY <1>3, <2>2, SizesFacts
  <2>4. s[0] \in Nat /\ base = base + s[0]
    BY <1>2, <1>3
  <2> HIDE DEF base
  <2>5. SizeOf(r, Spared(l) \union Taken(0)) = base + s[0]
    BY <2>1, <2>3, <2>4
  <2> QED BY <2>4, <2>5
<1>5. ASSUME NEW n \in Nat, n \in S PROVE n + 1 \in S
  <2> SUFFICES ASSUME n + 1 <= l
               PROVE  /\ s[n + 1] \in Nat
                      /\ SizeOf(r, Spared(l) \union Taken(n + 1)) = base + s[n + 1]
    OBVIOUS
  <2> DEFINE at == x + n   T == Spared(l) \union Taken(n)
  <2>1. s[n] \in Nat /\ SizeOf(r, T) = base + s[n]
    BY <1>5
  <2> HIDE DEF S, base
  <2>2. n + 1 \in 1 .. l /\ (n + 1) - 1 = n /\ n \in 0 .. l /\ n \in 0 .. (l - 1)
    OBVIOUS
  <2>3. at \in Slot /\ at \in Taken(l)
    BY <2>2, TakenFree DEF Taken
  <2>4. at \notin T
    BY <1>1, <2>3 DEF Taken, Spared
  <2>5. Spared(l) \union Taken(n + 1) = T \union {at}
    <3>1. \A k : k \in 0 .. (n + 1 - 1) <=> k \in 0 .. (n - 1) \/ k = n
      OBVIOUS
    <3> QED BY <3>1 DEF Taken
  <2>6. SizeOf(r, T \union {at}) = SizeOf(r, T) + r.msgs[at].size
    <3> HIDE DEF T, at
    <3> QED BY <2>3, <2>4, SizeAdd
  <2>7. r.msgs[at] = msgs[n + 1]
    <3>1. x + (n + 1) - 1 = at
      BY <1>1
    <3> QED BY <2>2, <3>1
  <2>8. s[n + 1] = s[n] + r.msgs[at].size /\ r.msgs[at].size \in Nat
    <3>1. f[n + 1] = r.msgs[at].size
      BY <2>2, <2>7
    <3> QED BY <1>2, <2>2, <2>3, <3>1, QueueFields
  <2> HIDE DEF T, at
  <2>9. SizeOf(r, T \union {at}) = base + s[n + 1]
    BY <1>3, <2>1, <2>6, <2>8
  <2> QED BY <2>1, <2>5, <2>8, <2>9
<1> HIDE DEF S, f, base
<1>6. l \in S
  BY <1>4, <1>5, SetInduction
<1>7. SizeOf(r, Spared(l) \union Taken(l)) = base + s[l]
  BY <1>6 DEF S
<1> QED BY <1>2, <1>7 DEF f, base

\* A call of CreatePackages (client 248-286, server 446-484) within the limits.
LEMMA CreateStep ==
  ASSUME AllLimits, SlotsInv, CreatePackages
  PROVE  SlotsInv'
<1>1. PICK size \in DataSizes, crit \in BOOLEAN :
        LET msgs == Fragments(calls + 1, size, crit)
        IN  /\ polled
            /\ calls < MaxCalls
            /\ WithinLimits(msgs)
            /\ calls' = calls + 1
            /\ created' = created \union
                 {m \in {msgs[n] : n \in 1 .. Len(msgs)} : m.critical}
            /\ \E unset \in UnsetReadings(seqBit) : queue' = PutAll(msgs, unset)
            /\ UNCHANGED <<last, seqBit, critical, accepted, polled, delivered>>
  BY DEF CreatePackages
<1> DEFINE msgs == Fragments(calls + 1, size, crit)
           l == Len(msgs)
           x == queue.next
           new == {m \in {msgs[n] : n \in 1 .. l} : m.critical}
<1>2. PICK unset : queue' = PutAll(msgs, unset)
  BY <1>1
<1>3. /\ Good(queue) /\ Context /\ TypeOK
      /\ queue \in QueueMessage /\ x \in Slot /\ queue.begin \in Slot /\ x < Slots
      /\ \A m \in created : m.critical /\ m.id \in 1 .. calls
      /\ polled => NoneDue(queue)
  BY InvGood, PendingFacts DEF Good, HasSpace, SlotsInv
<1>4. calls \in Nat /\ calls + 1 \in 0 .. MaxCalls /\ calls + 1 \in 1 .. (calls + 1)
  BY <1>1, <1>3, CallAssumption DEF TypeOK
<1>5. /\ l \in Nat
      /\ \A n \in 1 .. l : /\ msgs[n] \in Message
                           /\ msgs[n].critical = crit
                           /\ crit => msgs[n].id = calls + 1
      /\ \A n, k \in 1 .. l : msgs[n] = msgs[k] => n = k
  <2>1. size \in Nat
    BY CallAssumption
  <2> QED BY <1>4, <2>1, FragmentsFacts
<1>6. /\ x + l < Slots
      /\ \A i \in Taken(l) : queue.msgs[i].critical => queue.sent[i] \in seqBit
      /\ Cardinality(Spared(l)) + l < Slots
      /\ SizeOf(queue, Spared(l)) + Total([n \in 1 .. l |-> msgs[n].size], l) <= Capacity
  <2>1. Limits = {"end", "inWay", "space", "size"}
    BY DEF AllLimits, Limit
  <2>2. Taken(l) \subseteq Slot
    BY <1>1, <1>3, <2>1, <1>5, SlotsFacts DEF WithinLimits, Taken
  <2> QED BY <1>1, <2>1, <2>2 DEF WithinLimits, Taken, Spared
<1>7. /\ calls' = calls + 1 /\ created' = created \union new
      /\ UNCHANGED <<last, seqBit, critical, accepted, polled, delivered>>
      /\ polled
  BY <1>1
<1> HIDE DEF msgs, l, new
<1> DEFINE r == queue'
<1>8. /\ r \in QueueMessage
      /\ r.sent = queue.sent /\ r.begin = queue.begin /\ r.ended = "no"
      /\ r.next = x + l
      /\ \A i \in Slot : i \notin Taken(l) => r.msgs[i] = queue.msgs[i]
      /\ \A n \in 1 .. l : r.msgs[x + n - 1] = msgs[n]
  BY <1>2, <1>3, <1>5, <1>6, PutAllGives DEF l, SlotsInv
<1>9. /\ r.next \in Slot /\ r.next < Slots
      /\ \A n \in 0 .. l : x + n \in Slot /\ Away(queue, x + n) = Away(queue, x) + n
      /\ Taken(l) \subseteq Slot /\ Taken(l) \intersect Waiting(queue) = {}
      /\ IsFiniteSet(Taken(l)) /\ Cardinality(Taken(l)) = l
  <2>1. l \in 0 .. l
    BY <1>5
  <2> QED BY <1>5, <1>6, <1>8, <2>1, TakenFree, SlotsFacts
<1>10. \A i \in Slot : Away(r, i) = Away(queue, i) /\ Away(queue, i) \in Int
  BY <1>3, <1>8, SamePlaces, AwayFacts
<1>11. \A i \in Slot : i \in Waiting(r) <=> i \in Waiting(queue) \/ i \in Taken(l)
  <2> TAKE i \in Slot
  <2> DEFINE w == Away(queue, x)   a == Away(queue, i)
  <2>1. i \in Waiting(r) <=> a < w + l
    <3>1. Away(r, r.next) = w + l
      BY <1>5, <1>8, <1>9, <1>10
    <3> QED BY <1>8, <1>9, <1>10, <3>1, PendingFacts
  <2>2. i \in Waiting(queue) <=> a < w
    BY <1>3, PendingFacts
  <2>3. a \in Int /\ w \in Int
    BY <1>3, <1>10
  <2>4. i \in Taken(l) => a < w + l
    <3> SUFFICES ASSUME NEW k \in 0 .. (l - 1), i = x + k PROVE a < w + l
      BY DEF Taken
    <3>1. a = w + k
      BY <1>5, <1>9
    <3> HIDE DEF a, w
    <3> QED BY <1>5, <2>3, <3>1
  <2>5. ~ (a < w) /\ a < w + l => i \in Taken(l)
    <3> HAVE ~ (a < w) /\ a < w + l
    <3>1. PICK k \in 0 .. (l - 1) : a = w + k
      <4> HIDE DEF a, w
      <4>1. a - w \in 0 .. (l - 1) /\ a = w + (a - w)
        BY <1>5, <2>3
      <4> QED BY <4>1
    <3>2. x + k \in Slot /\ Away(queue, x + k) = a
      BY <1>5, <1>9, <3>1
    <3>3. i = x + k
      BY <1>3, <3>2, AwayFacts
    <3> QED BY <3>3 DEF Taken
  <2> HIDE DEF a, w
  <2>6. a < w => a < w + l
    BY <1>5, <2>3
  <2> QED BY <2>1, <2>2, <2>4, <2>5, <2>6
<1>12. \A i \in Taken(l) : \E n \in 1 .. l : i = x + n - 1
  <2> SUFFICES ASSUME NEW k \in 0 .. (l - 1) PROVE \E n \in 1 .. l : x + k = x + n - 1
    BY DEF Taken
  <2>1. k + 1 \in 1 .. l /\ x + k = x + (k + 1) - 1
    BY <1>3, <1>5, SlotsFacts
  <2> QED BY <2>1
<1>13. \A n \in 1 .. l : x + n - 1 \in Taken(l)
  <2> TAKE n \in 1 .. l
  <2>1. n - 1 \in 0 .. (l - 1) /\ x + n - 1 = x + (n - 1)
    BY <1>3, <1>5, SlotsFacts
  <2> QED BY <2>1 DEF Taken
<1>14. \A i \in Held(r) : i \in Held(queue) /\ i \notin Taken(l) /\ r.msgs[i] = queue.msgs[i]
  BY <1>8, <1>11 DEF Held
<1>15. \A i \in Slot : i \notin Taken(l) /\ r.msgs[i].critical => r.msgs[i] \in created
  BY <1>3, <1>8 DEF Good, Known
<1>16. \A m \in new : m.critical /\ m.id = calls + 1 /\ m \in Message
                      /\ \E n \in 1 .. l : m = msgs[n]
  BY <1>5 DEF new
<1>17. \A n \in 1 .. l : msgs[n].critical => msgs[n] \in new
  BY DEF new
<1>18. \A m \in new : m \notin created
  BY <1>3, <1>4, <1>16
<1>19. HasSpace(r)
  <2>1. Pending(r) \subseteq Spared(l) \union Taken(l) /\ Spared(l) \subseteq Slot
    <3>1. \A i \in Pending(r) : i \in Slot /\ (i \in Waiting(r) \/ r.msgs[i].critical)
      BY <1>8, <1>9, PendingFacts
    <3>2. \A i \in Slot : i \in Pending(queue) <=> i \in Waiting(queue) \/ queue.msgs[i].critical
      BY <1>3, PendingFacts
    <3>3. Pending(queue) \subseteq Slot
      BY <1>3, PendingFacts
    <3> QED BY <1>8, <1>11, <3>1, <3>2, <3>3 DEF Spared
  <2>2. Cardinality(Pending(r)) < Slots
    <3>1. IsFiniteSet(Spared(l))
      BY <2>1, AllSlots, FS_Subset
    <3>2. /\ IsFiniteSet(Spared(l) \union Taken(l))
          /\ Cardinality(Spared(l) \union Taken(l))
               = Cardinality(Spared(l)) + Cardinality(Taken(l))
                 - Cardinality(Spared(l) \intersect Taken(l))
      BY <1>9, <3>1, FS_Union
    <3>3. Spared(l) \intersect Taken(l) = {}
      BY DEF Spared
    <3>4. Cardinality(Spared(l) \intersect Taken(l)) = 0
      BY <3>3, FS_EmptySet, Zenon
    <3>5. Cardinality(Pending(r)) <= Cardinality(Spared(l) \union Taken(l))
          /\ Cardinality(Pending(r)) \in Nat
      BY <1>9, <2>1, FewerPending
    <3>6. Cardinality(Spared(l)) \in Nat
      BY <3>1, FS_CardinalityType
    <3> QED BY <1>5, <1>6, <1>9, <3>2, <3>4, <3>5, <3>6, SlotsFacts
  <2>3. SizeOf(r, Pending(r)) <= Capacity
    <3>1. SizeOf(r, Pending(r)) <= SizeOf(r, Spared(l) \union Taken(l))
      BY <1>8, <2>1, SizeMono
    <3>2. SizeOf(r, Spared(l) \union Taken(l)) <= Capacity
      BY <1>5, <1>6, <1>8, AddedSize
    <3>3. SizeOf(r, Pending(r)) \in Nat /\ SizeOf(r, Spared(l) \union Taken(l)) \in Nat
      BY <1>8, SizesFacts
    <3> QED BY <3>1, <3>2, <3>3, SlotsFacts
  <2> QED BY <1>8, <1>9, <2>2, <2>3 DEF HasSpace
<1>20. ASSUME NEW m \in created', m \notin delivered
       PROVE  \E i \in Slot : r.msgs[i] = m
                /\ (i \in Waiting(r) \/ r.sent[i] \in critical \ accepted)
  <2>1. CASE m \in created
    <3>1. PICK i \in Slot : queue.msgs[i] = m
                   /\ (i \in Waiting(queue) \/ queue.sent[i] \in critical \ accepted)
      BY <1>3, <1>20, <2>1 DEF Good, Kept, Undelivered
    <3>2. i \notin Taken(l)
      <4> SUFFICES ASSUME i \in Taken(l) PROVE FALSE
        OBVIOUS
      <4>1. queue.sent[i] \in critical \ accepted
        BY <1>9, <3>1
      <4>2. queue.sent[i] \in seqBit
        BY <1>3, <1>6, <2>1, <3>1
      <4> QED BY <1>3, <4>1, <4>2 DEF TypeOK
    <3> QED BY <1>8, <1>11, <3>1, <3>2
  <2>2. CASE m \in new
    <3>1. PICK n \in 1 .. l : m = msgs[n]
      BY <1>16, <2>2
    <3>2. x + n - 1 \in Taken(l) /\ r.msgs[x + n - 1] = m
      BY <1>8, <1>13, <3>1
    <3> QED BY <1>9, <1>11, <3>2
  <2> QED BY <1>7, <1>20, <2>1, <2>2
<1>21. SingleCopies(r)
  <2> SUFFICES ASSUME NEW i \in Slot, NEW j \in Slot, i # j, r.msgs[i] = r.msgs[j],
                      r.msgs[i].critical
               PROVE  FALSE
    BY <1>8, QueueFields DEF SingleCopies
  <2>1. ASSUME NEW k \in Slot, k \in Taken(l), r.msgs[k].critical
        PROVE  r.msgs[k] \in new
    <3>1. PICK n \in 1 .. l : k = x + n - 1
      BY <1>12, <2>1
    <3> QED BY <1>8, <1>17, <2>1, <3>1
  <2>2. CASE i \in Taken(l) /\ j \in Taken(l)
    <3>1. PICK n \in 1 .. l, k \in 1 .. l : i = x + n - 1 /\ j = x + k - 1
      BY <1>12, <2>2
    <3>2. msgs[n] = msgs[k]
      BY <1>8, <3>1
    <3> QED BY <1>5, <3>1, <3>2
  <2>3. CASE i \notin Taken(l) /\ j \notin Taken(l)
    BY <1>3, <1>8, <2>3 DEF Good, SingleCopies
  <2>4. CASE i \in Taken(l) /\ j \notin Taken(l)
    BY <1>15, <1>18, <2>1, <2>4
  <2>5. CASE i \notin Taken(l) /\ j \in Taken(l)
    BY <1>15, <1>18, <2>1, <2>5
  <2> QED BY <2>2, <2>3, <2>4, <2>5
<1>22. \A i \in Held(r) : r.msgs[i] \in created' \ delivered => queue.msgs[i] \in Undelivered
  BY <1>14, <1>15 DEF Undelivered, Held
<1>23. Ordered(queue)'
  <2> SUFFICES ASSUME NEW i \in Held(r), NEW j \in Held(r),
                      r.msgs[i] \in created' \ delivered, Away(r, i) < Away(r, j)
               PROVE  Age(r.sent[j]) <= Age(r.sent[i])
    BY <1>7 DEF Ordered, Undelivered, Held, Waiting, Away, Age
  <2>1. i \in Held(queue) /\ j \in Held(queue) /\ queue.msgs[i] \in Undelivered
    BY <1>14, <1>22
  <2>2. Away(queue, i) < Away(queue, j)
    BY <1>10, <2>1 DEF Held
  <2> QED BY <1>3, <1>8, <2>1, <2>2 DEF Good, Ordered
<1>24. \A i \in Slot : r.msgs[i].critical => r.msgs[i] \in created'
  <2> TAKE i \in Slot
  <2> HAVE r.msgs[i].critical
  <2>1. CASE i \in Taken(l)
    <3>1. PICK n \in 1 .. l : i = x + n - 1
      BY <1>12, <2>1
    <3> QED BY <1>7, <1>8, <1>17, <3>1
  <2>2. CASE i \notin Taken(l)
    BY <1>7, <1>15, <2>2
  <2> QED BY <2>1, <2>2
<1>25. \A i \in Held(r) : r.sent[i] \in Bit
  BY <1>3, <1>8, <1>14 DEF Good, Known
<1>26. \A i \in Held(r) : r.msgs[i] \in created' \ delivered => r.sent[i] # NextBit
  BY <1>3, <1>7, <1>8, <1>14, <1>22 DEF NoneDue
<1>27. TypeOK'
  <2>1. created' \subseteq Message
    BY <1>3, <1>7, <1>16 DEF TypeOK
  <2>2. calls' \in 0 .. MaxCalls
    BY <1>4, <1>7
  <2>3. delivered' \subseteq created'
    BY <1>3, <1>7 DEF TypeOK
  <2> QED BY <1>3, <1>7, <1>8, <2>1, <2>2, <2>3 DEF TypeOK
<1>28. \A m \in created' : m.critical /\ m.id \in 1 .. calls'
  <2> TAKE m \in created'
  <2>1. CASE m \in created
    <3>1. m.critical /\ m.id \in 1 .. calls
      BY <1>3, <2>1
    <3> QED BY <1>4, <1>7, <3>1
  <2>2. CASE m \in new
    BY <1>4, <1>7, <1>16, <2>2
  <2> QED BY <1>7, <2>1, <2>2
<1>29. HasSpace(queue)' /\ SingleCopies(queue)'
  BY <1>19, <1>21 DEF HasSpace, SingleCopies, Pending, SizeOf, Total, Waiting
<1>30. Kept(queue)'
  BY <1>7, <1>20 DEF Kept, Undelivered, Waiting
<1>31. Known(queue)'
  BY <1>24, <1>25 DEF Known, Held, Waiting
<1>32. NoneDue(queue)'
  BY <1>7, <1>26 DEF NoneDue, NextBit, Undelivered, Held, Waiting
<1> QED BY <1>23, <1>27, <1>28, <1>29, <1>30, <1>31, <1>32 DEF SlotsInv

-------------------------------------------------------------------------------
(***************************************************************************)
(* Sending                                                                 *)
(***************************************************************************)

\* The packing loop takes one slot after the other.
Packed(p, bit, i) ==
  LET m == p.queue.msgs[i]
  IN  IF p.used + m.size > Capacity THEN p
      ELSE [queue |-> [p.queue EXCEPT !.sent[i] = bit, !.begin = Advance(@)],
            load  |-> Append(p.load, m),
            used  |-> p.used + m.size]

LEMMA PackUnfolds ==
  ASSUME NEW q, NEW bit, q.next < Slots, (q.next - q.begin) % Slots \in Nat
  PROVE  LET span == (q.next - q.begin) % Slots
         IN  \E c : /\ c[0] = [queue |-> q, load |-> <<>>, used |-> 0]
                    /\ \A n \in 1 .. span :
                         c[n] = Packed(c[n - 1], bit, (q.begin + n - 1) % Slots)
                    /\ Pack(q, bit) = c[span]
<1> DEFINE Step(x, n) == Packed(x, bit, (q.begin + n - 1) % Slots)
           first == [queue |-> q, load |-> <<>>, used |-> 0]
           span == (q.next - q.begin) % Slots
           Body(w, m) == [n \in 0 .. m |-> IF n = 0 THEN first ELSE Step(w[n - 1], n)]
           S == {m \in Nat : \E w : w = Body(w, m)}
<1>1. Pack(q, bit) = (CHOOSE w : w = Body(w, span))[span]
  BY DEF Pack, Packed
<1> HIDE DEF Step, first, span
<1>2. 0 \in S
  <2>1. [n \in 0 .. 0 |-> first] = Body([n \in 0 .. 0 |-> first], 0)
    OBVIOUS
  <2> QED BY <2>1
<1>3. ASSUME NEW m \in Nat, m \in S PROVE m + 1 \in S
  <2>1. PICK w : w = Body(w, m)
    BY <1>3
  <2> DEFINE v == [n \in 0 .. (m + 1) |-> IF n = m + 1 THEN Step(w[m], n) ELSE w[n]]
  <2>2. \A n \in 0 .. m : v[n] = IF n = 0 THEN first ELSE Step(w[n - 1], n)
    BY <2>1
  <2>3. \A n \in 0 .. m : v[n] = w[n]
    OBVIOUS
  <2>4. v[m + 1] = Step(w[m], m + 1)
    OBVIOUS
  <2>5. \A n \in 0 .. (m + 1) :
          /\ n # 0 => n - 1 \in 0 .. m
          /\ n = m + 1 \/ n \in 0 .. m
    OBVIOUS
  <2>6. \A n \in 0 .. (m + 1) : v[n] = IF n = 0 THEN first ELSE Step(v[n - 1], n)
    <3> HIDE DEF v, Body, S
    <3> TAKE n \in 0 .. (m + 1)
    <3>1. CASE n = m + 1
      <4>1. n # 0 /\ n - 1 = m /\ m \in 0 .. m
        BY <3>1
      <4> QED BY <2>3, <2>4, <3>1, <4>1
    <3>2. CASE n # m + 1
      BY <2>2, <2>3, <2>5, <3>2
    <3> QED BY <3>1, <3>2
  <2>7. v = Body(v, m + 1)
    BY <2>6
  <2> HIDE DEF v, Body
  <2> QED BY <2>7
<1> HIDE DEF S
<1>4. span \in S
  BY <1>2, <1>3, SetInduction DEF span
<1>5. PICK w : w = Body(w, span)
  BY <1>4 DEF S
<1> DEFINE c == CHOOSE v : v = Body(v, span)
<1>6. c = Body(c, span)
  <2> HIDE DEF Body
  <2> QED BY <1>5
<1>7. Pack(q, bit) = c[span]
  BY <1>1
<1> HIDE DEF c
<1>8. c[0] = first /\ \A n \in 1 .. span : c[n] = Step(c[n - 1], n)
  <2>1. span \in Nat
    BY DEF span
  <2> QED BY <1>6, <2>1
<1> QED BY <1>7, <1>8 DEF Step, first, span

\* A message that fits joins the packet.
LEMMA PackedFields ==
  ASSUME NEW p, NEW bit \in Bit, NEW i \in Slot, p.queue \in QueueMessage,
         p.used + p.queue.msgs[i].size <= Capacity, p.used \in Nat
  PROVE  LET r == Packed(p, bit, i)
         IN  /\ r.queue \in QueueMessage
             /\ r.queue.msgs = p.queue.msgs /\ r.queue.next = p.queue.next
             /\ r.queue.ended = p.queue.ended
             /\ r.queue.begin = Advance(p.queue.begin)
             /\ \A j \in Slot : r.queue.sent[j] = IF j = i THEN bit ELSE p.queue.sent[j]
             /\ r.load = Append(p.load, p.queue.msgs[i])
             /\ r.used = p.used + p.queue.msgs[i].size
<1> DEFINE q == p.queue
           x == [q.sent EXCEPT ![i] = bit]
           y == Advance(q.begin)
           t == [msgs |-> q.msgs, sent |-> x, begin |-> y, next |-> q.next,
                 ended |-> q.ended]
<1>1. /\ q.begin \in Slot /\ y \in Slot /\ bit \in 0 .. NotSet
      /\ q.sent \in [Slot -> 0 .. NotSet]
  BY QueueFields, AdvanceFacts, RingAssumption DEF NotSet, Bit
<1>2. x \in [Slot -> 0 .. NotSet]
      /\ \A j \in Slot : x[j] = IF j = i THEN bit ELSE q.sent[j]
  BY <1>1
<1>3. t \in QueueMessage
  BY <1>1, <1>2 DEF QueueMessage
<1>4. [q EXCEPT !.sent[i] = bit, !.begin = Advance(@)] = t
  <2>1. PICK u : u = [q EXCEPT !.sent = x]
    OBVIOUS
  <2>2. u = [msgs |-> q.msgs, sent |-> x, begin |-> q.begin, next |-> q.next,
             ended |-> q.ended]
    BY <2>1 DEF QueueMessage
  <2>3. [q EXCEPT !.sent = x, !.begin = y] = [u EXCEPT !.begin = y]
    <3> HIDE DEF x, y
    <3> QED BY <2>1, Zenon
  <2>4. [u EXCEPT !.begin = y] = t
    BY <2>2
  <2>5. [q EXCEPT !.sent[i] = bit, !.begin = Advance(@)] = [q EXCEPT !.sent = x, !.begin = y]
    BY Zenon
  <2> QED BY <2>3, <2>4, <2>5, Zenon
<1>5. q.msgs[i].size \in Nat
  BY QueueFields
<1>6. Packed(p, bit, i) = [queue |-> t, load |-> Append(p.load, q.msgs[i]),
                           used |-> p.used + q.msgs[i].size]
  <2>1. ~ (p.used + q.msgs[i].size > Capacity)
    BY <1>5, SlotsFacts
  <2> HIDE DEF t
  <2> QED BY <1>4, <2>1 DEF Packed
<1> HIDE DEF x
<1> QED BY <1>2, <1>3, <1>6

\* The slots that wait behind the first n.
Behind(q, n) == {i \in Slot : n <= Away(q, i) /\ Away(q, i) < Away(q, q.next)}

\* What is known of the packing loop once it packed the first n messages.
IsPacked(q, bit, p, n) ==
  /\ p.queue \in QueueMessage
  /\ p.queue.msgs = q.msgs /\ p.queue.next = q.next /\ p.queue.ended = q.ended
  /\ p.queue.begin = At(q, n)
  /\ \A i \in Slot : p.queue.sent[i] = IF Away(q, i) < n THEN bit ELSE q.sent[i]
  /\ p.load \in Seq(Message \union {NoMessage}) /\ Len(p.load) = n
  /\ \A k \in 1 .. n : p.load[k] = q.msgs[At(q, k - 1)]
  /\ p.used \in Nat
  /\ p.used + SizeOf(q, Behind(q, n)) = SizeOf(q, Waiting(q))

\* All that waits fits, so the loop packs the next one too.
LEMMA PackOneMore ==
  ASSUME NEW q \in QueueMessage, HasSpace(q), NEW bit \in Bit, NEW p, NEW n \in Nat,
         n < Away(q, q.next), IsPacked(q, bit, p, n)
  PROVE  IsPacked(q, bit, Packed(p, bit, At(q, n)), n + 1)
<1> DEFINE i == At(q, n)
           r == Packed(p, bit, i)
<1>1. /\ q.begin \in Slot /\ q.next \in Slot /\ q.next < Slots
      /\ SizeOf(q, Pending(q)) <= Capacity
      /\ Pending(q) = Waiting(q) \union {j \in Slot : q.msgs[j].critical}
  BY PendingFacts DEF HasSpace, Pending
<1>2. Away(q, q.next) \in 0 .. (Slots - 1) /\ n \in Slot /\ n + 1 \in Slot
  <2>1. Away(q, q.next) \in 0 .. (Slots - 1)
    BY <1>1, AwayFacts
  <2> QED BY <2>1, SlotsFacts
<1>3. i \in Slot /\ Away(q, i) = n
  BY <1>1, <1>2, AwayFacts
<1>4. \A j \in Slot : Away(q, j) \in 0 .. (Slots - 1) /\ (Away(q, j) = n => j = i)
  BY <1>1, <1>3, AwayFacts
<1>5. Behind(q, n) = Behind(q, n + 1) \union {i} /\ i \notin Behind(q, n + 1)
  <2>1. ASSUME NEW j \in Slot
        PROVE  j \in Behind(q, n) <=> j \in Behind(q, n + 1) \/ j = i
    <3> DEFINE a == Away(q, j)
               w == Away(q, q.next)
    <3>1. a \in Int /\ w \in Int /\ (a = n <=> j = i) /\ n < w
      <4>1. a \in 0 .. (Slots - 1) /\ (a = n => j = i) /\ w \in 0 .. (Slots - 1)
        BY <1>2, <1>4
      <4>2. j = i => a = n
        BY <1>3
      <4> HIDE DEF a, i
      <4>3. a \in Int /\ w \in Int
        BY <4>1, SlotsFacts
      <4> QED BY <4>1, <4>2, <4>3
    <3>2. /\ j \in Behind(q, n) <=> n <= a /\ a < w
          /\ j \in Behind(q, n + 1) <=> n + 1 <= a /\ a < w
      BY DEF Behind
    <3> HIDE DEF a, w, i
    <3> QED BY <3>1, <3>2
  <2>2. i \notin Behind(q, n + 1)
    BY <1>3 DEF Behind
  <2>3. Behind(q, n) \subseteq Slot /\ Behind(q, n + 1) \subseteq Slot
    BY DEF Behind
  <2> HIDE DEF i
  <2> QED BY <1>3, <2>1, <2>2, <2>3
<1>6. SizeOf(q, Behind(q, n)) = SizeOf(q, Behind(q, n + 1)) + q.msgs[i].size
  <2> DEFINE B == Behind(q, n + 1)
  <2>1. i \in Slot /\ i \notin B
    BY <1>3, <1>5
  <2> HIDE DEF B, i
  <2>2. SizeOf(q, B \union {i}) = SizeOf(q, B) + q.msgs[i].size
    BY <2>1, SizeAdd
  <2> QED BY <1>5, <2>2 DEF B
<1>7. /\ SizeOf(q, Behind(q, n)) \in Nat /\ SizeOf(q, Behind(q, n + 1)) \in Nat
      /\ SizeOf(q, Waiting(q)) \in Nat /\ SizeOf(q, Pending(q)) \in Nat
      /\ q.msgs[i].size \in Nat
  BY <1>3, SizesFacts, QueueFields
<1>8. SizeOf(q, Waiting(q)) <= SizeOf(q, Pending(q))
  BY <1>1, SizeMono
<1>9. /\ p.queue \in QueueMessage
      /\ p.queue.msgs = q.msgs /\ p.queue.next = q.next /\ p.queue.ended = q.ended
      /\ p.queue.begin = i
      /\ \A j \in Slot : p.queue.sent[j] = IF Away(q, j) < n THEN bit ELSE q.sent[j]
      /\ p.load \in Seq(Message \union {NoMessage}) /\ Len(p.load) = n
      /\ \A k \in 1 .. n : p.load[k] = q.msgs[At(q, k - 1)]
      /\ p.used \in Nat
      /\ p.used + SizeOf(q, Behind(q, n)) = SizeOf(q, Waiting(q))
  BY DEF IsPacked
<1> HIDE DEF i
<1>10. p.used + p.queue.msgs[i].size <= Capacity
  <2> DEFINE z == q.msgs[i].size
             wait == SizeOf(q, Waiting(q))
             all == SizeOf(q, Pending(q))
             more == SizeOf(q, Behind(q, n + 1))
  <2>1. /\ p.used + (more + z) = wait /\ wait <= all /\ all <= Capacity
        /\ p.used \in Nat /\ more \in Nat /\ z \in Nat /\ wait \in Nat /\ all \in Nat
    BY <1>1, <1>6, <1>7, <1>8, <1>9
  <2>2. Capacity \in Nat /\ p.queue.msgs[i].size = z
    BY <1>9, SlotsFacts
  <2> HIDE DEF z, wait, all, more
  <2> QED BY <2>1, <2>2
<1>11. /\ r.queue \in QueueMessage
       /\ r.queue.msgs = p.queue.msgs /\ r.queue.next = p.queue.next
       /\ r.queue.ended = p.queue.ended
       /\ r.queue.begin = Advance(p.queue.begin)
       /\ \A j \in Slot : r.queue.sent[j] = IF j = i THEN bit ELSE p.queue.sent[j]
       /\ r.load = Append(p.load, p.queue.msgs[i])
       /\ r.used = p.used + p.queue.msgs[i].size
  <2>1. i \in Slot /\ p.queue \in QueueMessage /\ p.used \in Nat
    BY <1>3, <1>9
  <2> QED BY <1>10, <2>1, PackedFields
<1> HIDE DEF r
<1>12. Advance(i) = At(q, n + 1)
  <2>1. Advance(i) \in Slot /\ Away(q, Advance(i)) = n + 1
    BY <1>1, <1>2, <1>3, AdvanceFacts, SlotsFacts
  <2>2. At(q, n + 1) \in Slot /\ Away(q, At(q, n + 1)) = n + 1
    BY <1>1, <1>2, AwayFacts
  <2> QED BY <1>1, <2>1, <2>2, AwayFacts
<1>13. \A j \in Slot : r.queue.sent[j] = IF Away(q, j) < n + 1 THEN bit ELSE q.sent[j]
  <2> TAKE j \in Slot
  <2>1. CASE j = i
    <3>1. Away(q, j) < n + 1
      BY <1>3, <2>1
    <3> QED BY <1>11, <2>1, <3>1
  <2>2. CASE j # i
    <3>1. Away(q, j) < n + 1 <=> Away(q, j) < n
      BY <1>4, <2>2, SlotsFacts
    <3> QED BY <1>9, <1>11, <2>2, <3>1
  <2> QED BY <2>1, <2>2
<1>14. /\ r.load \in Seq(Message \union {NoMessage}) /\ Len(r.load) = n + 1
       /\ \A k \in 1 .. (n + 1) : r.load[k] = q.msgs[At(q, k - 1)]
  <2>1. p.queue.msgs[i] \in Message \union {NoMessage}
    BY <1>3, <1>9, QueueFields
  <2> DEFINE M == Message \union {NoMessage}
             m == p.queue.msgs[i]
             load == p.load
  <2>2. m \in M /\ load \in Seq(M) /\ Len(load) = n /\ r.load = Append(load, m)
    BY <1>9, <1>11, <2>1
  <2>3. m = q.msgs[At(q, n)] /\ \A k \in 1 .. n : load[k] = q.msgs[At(q, k - 1)]
    BY <1>9 DEF i
  <2> HIDE DEF M, m, load
  <2>4. r.load \in Seq(M) /\ Len(r.load) = n + 1
        /\ r.load[n + 1] = m /\ \A k \in 1 .. n : r.load[k] = load[k]
    BY <2>2
  <2>5. \A k \in 1 .. (n + 1) : k = n + 1 \/ k \in 1 .. n
    OBVIOUS
  <2>6. (n + 1) - 1 = n
    OBVIOUS
  <2> QED BY <2>3, <2>4, <2>5, <2>6 DEF M
<1>15. r.used \in Nat /\ r.used + SizeOf(q, Behind(q, n + 1)) = SizeOf(q, Waiting(q))
  BY <1>6, <1>7, <1>9, <1>11
<1> QED BY <1>9, <1>11, <1>12, <1>13, <1>14, <1>15 DEF IsPacked, r, i

\* Within the limits a packet takes all that waits, and nothing else.
LEMMA PackAll ==
  ASSUME NEW q \in QueueMessage, HasSpace(q), NEW bit \in Bit
  PROVE  LET r == Pack(q, bit).queue
             load == Pack(q, bit).load
         IN  /\ r \in QueueMessage
             /\ r.msgs = q.msgs /\ r.next = q.next /\ r.begin = q.next /\ r.ended = "no"
             /\ \A i \in Slot : r.sent[i] = IF i \in Waiting(q) THEN bit ELSE q.sent[i]
             /\ {load[n] : n \in 1 .. Len(load)} = {q.msgs[i] : i \in Waiting(q)}
<1> DEFINE w == Away(q, q.next)
<1>1. /\ q.begin \in Slot /\ q.next \in Slot /\ q.next < Slots /\ q.ended = "no"
      /\ \A i \in Slot : i \in Waiting(q) <=> Away(q, i) < w
      /\ Waiting(q) \subseteq Slot
  BY PendingFacts DEF HasSpace
<1>2. w \in 0 .. (Slots - 1) /\ w \in Slot /\ w \in Nat
  <2>1. q.begin \in Slot /\ q.next \in Slot
    BY <1>1
  <2>2. w \in 0 .. (Slots - 1)
    BY <2>1, AwayFacts
  <2> QED BY <2>2, SlotsFacts
<1>3. PICK c : /\ c[0] = [queue |-> q, load |-> <<>>, used |-> 0]
               /\ \A n \in 1 .. w : c[n] = Packed(c[n - 1], bit, (q.begin + n - 1) % Slots)
               /\ Pack(q, bit) = c[w]
  BY <1>1, <1>2, PackUnfolds DEF Away
<1> DEFINE S == {n \in Nat : n <= w => IsPacked(q, bit, c[n], n)}
<1>4. 0 \in S
  <2>1. c[0].queue = q /\ c[0].load = <<>> /\ c[0].used = 0
    BY <1>3
  <2>2. At(q, 0) = q.begin
    BY <1>1, SlotsFacts, SlotMod DEF At
  <2>3. \A i \in Slot : ~ (Away(q, i) < 0) /\ 0 <= Away(q, i)
    <3> TAKE i \in Slot
    <3>1. Away(q, i) \in 0 .. (Slots - 1)
      BY <1>1, AwayFacts
    <3> QED BY <3>1, SlotsFacts
  <2>4. Behind(q, 0) = Waiting(q)
    BY <1>1, <2>3 DEF Behind
  <2>5. SizeOf(q, Waiting(q)) \in Nat
    BY SizesFacts
  <2>6. <<>> \in Seq(Message \union {NoMessage}) /\ Len(<<>>) = 0
    OBVIOUS
  <2>7. IsPacked(q, bit, c[0], 0)
    BY <2>1, <2>2, <2>3, <2>4, <2>5, <2>6 DEF IsPacked
  <2> QED BY <2>7
<1>5. ASSUME NEW n \in Nat, n \in S PROVE n + 1 \in S
  <2> SUFFICES ASSUME n + 1 <= w PROVE IsPacked(q, bit, c[n + 1], n + 1)
    OBVIOUS
  <2>1. n + 1 \in 1 .. w /\ (n + 1) - 1 = n /\ n < w
    BY <1>2
  <2>2. IsPacked(q, bit, c[n], n)
    BY <1>2, <1>5
  <2>3. (q.begin + (n + 1) - 1) % Slots = At(q, n)
    <3>1. q.begin + (n + 1) - 1 = q.begin + n
      BY <1>1, SlotsFacts
    <3> QED BY <3>1 DEF At
  <2>4. c[n + 1] = Packed(c[n], bit, At(q, n))
    BY <1>3, <2>1, <2>3
  <2> QED BY <2>1, <2>2, <2>4, PackOneMore
<1> HIDE DEF S
<1>6. w \in S
  BY <1>2, <1>4, <1>5, SetInduction
<1>7. IsPacked(q, bit, Pack(q, bit), w)
  BY <1>2, <1>3, <1>6 DEF S
<1>8. At(q, w) = q.next
  <2>1. At(q, w) \in Slot /\ Away(q, At(q, w)) = w
    BY <1>1, <1>2, AwayFacts
  <2> QED BY <1>1, <2>1, AwayFacts
<1> DEFINE p == Pack(q, bit)
<1>9. {p.load[n] : n \in 1 .. Len(p.load)} = {q.msgs[i] : i \in Waiting(q)}
  <2>1. Len(p.load) = w /\ \A k \in 1 .. w : p.load[k] = q.msgs[At(q, k - 1)]
    BY <1>7 DEF IsPacked
  <2>2. \A k \in 1 .. w : At(q, k - 1) \in Waiting(q)
    <3> TAKE k \in 1 .. w
    <3>1. k - 1 \in Slot /\ k - 1 < w
      BY <1>2, SlotsFacts
    <3>2. At(q, k - 1) \in Slot /\ Away(q, At(q, k - 1)) = k - 1
      BY <1>1, <3>1, AwayFacts
    <3> QED BY <1>1, <3>1, <3>2
  <2>3. \A i \in Waiting(q) : \E k \in 1 .. w : i = At(q, k - 1)
    <3> TAKE i \in Waiting(q)
    <3>1. i \in Slot /\ Away(q, i) < w /\ Away(q, i) \in 0 .. (Slots - 1) /\ Away(q, i) \in Slot
      BY <1>1, AwayFacts
    <3>2. Away(q, i) + 1 \in 1 .. w /\ (Away(q, i) + 1) - 1 = Away(q, i)
      BY <1>2, <3>1
    <3>3. At(q, Away(q, i)) \in Slot /\ Away(q, At(q, Away(q, i))) = Away(q, i)
      BY <1>1, <3>1, AwayFacts
    <3>4. i = At(q, Away(q, i))
      BY <1>1, <3>1, <3>3, AwayFacts
    <3> QED BY <3>2, <3>4
  <2> HIDE DEF p, w
  <2>4. ASSUME NEW n \in 1 .. w PROVE p.load[n] \in {q.msgs[i] : i \in Waiting(q)}
    BY <2>1, <2>2
  <2>5. ASSUME NEW i \in Waiting(q) PROVE q.msgs[i] \in {p.load[n] : n \in 1 .. w}
    BY <2>1, <2>3
  <2>6. {p.load[n] : n \in 1 .. w} = {q.msgs[i] : i \in Waiting(q)}
    BY <2>4, <2>5
  <2> QED BY <2>1, <2>6
<1> QED BY <1>1, <1>7, <1>8, <1>9 DEF IsPacked

\* Seen from next, where begin is after a packet was sent, the slots that waited are
\* behind the others.
LEMMA AwayFromNext ==
  ASSUME NEW q \in QueueMessage, q.next < Slots, NEW r, r.begin = q.next,
         NEW i \in Slot
  PROVE  Away(r, i) = IF i \in Waiting(q)
                      THEN Away(q, i) - Away(q, q.next) + Slots
                      ELSE Away(q, i) - Away(q, q.next)
<1> DEFINE n == Slots
           b == q.begin
           x == q.next
           a == Away(q, i)
           w == Away(q, q.next)
<1>1. /\ b \in Slot /\ x \in Slot
      /\ i \in Waiting(q) <=> a < w
  BY PendingFacts
<1>2. /\ a = IF i >= b THEN i - b ELSE (i - b) + n
      /\ w = IF x >= b THEN x - b ELSE (x - b) + n
      /\ Away(r, i) = IF i >= x THEN i - x ELSE (i - x) + n
  BY <1>1, SlotMod DEF Away
<1>3. n \in Nat \ {0} /\ b \in 0 .. (n - 1) /\ x \in 0 .. (n - 1) /\ i \in 0 .. (n - 1)
  BY <1>1, SlotsFacts
<1> HIDE DEF n, b, x, a, w
<1>4. Away(r, i) = IF a < w THEN a - w + n ELSE a - w
  BY <1>2, <1>3
<1> QED BY <1>1, <1>4 DEF n, a, w

\* A packet is sent (client 753-809, server 973-1033), and it arrives or gets lost.
LEMMA SendStep ==
  ASSUME SlotsInv, NEW arrives \in BOOLEAN, Send(arrives)
  PROVE  SlotsInv'
<1> DEFINE q == queue
           r == queue'
           load == Pack(q, NextBit).load
           crit == {m \in {load[n] : n \in 1 .. Len(load)} : m.critical}
<1>1. /\ Good(q) /\ Context /\ TypeOK /\ HasSpace(q) /\ last \in Bit
      /\ q \in QueueMessage /\ q.next < Slots
      /\ \A m \in created : m.critical /\ m.id \in 1 .. calls
  BY InvGood DEF Good, HasSpace, SlotsInv, TypeOK
<1>2. polled /\ NoneDue(q)
  BY DEF Send, SlotsInv
<1>3. NextBit \in Bit
  BY <1>1, AgeFacts
<1>4. /\ r = Pack(q, NextBit).queue
      /\ last' = NextBit /\ seqBit' = seqBit \ {NextBit}
      /\ critical' = IF crit # {} THEN critical \union {NextBit} ELSE critical \ {NextBit}
      /\ polled' = FALSE /\ calls' = calls /\ created' = created
  BY Zenon DEF Send
<1>5. /\ r \in QueueMessage
      /\ r.msgs = q.msgs /\ r.next = q.next /\ r.begin = q.next /\ r.ended = "no"
      /\ \A i \in Slot : r.sent[i] = IF i \in Waiting(q) THEN NextBit ELSE q.sent[i]
      /\ {load[n] : n \in 1 .. Len(load)} = {q.msgs[i] : i \in Waiting(q)}
  <2> DEFINE p == Pack(q, NextBit)
  <2>1. /\ p.queue \in QueueMessage
        /\ p.queue.msgs = q.msgs /\ p.queue.next = q.next /\ p.queue.begin = q.next
        /\ p.queue.ended = "no"
        /\ \A i \in Slot : p.queue.sent[i] = IF i \in Waiting(q) THEN NextBit ELSE q.sent[i]
        /\ {p.load[n] : n \in 1 .. Len(p.load)} = {q.msgs[i] : i \in Waiting(q)}
    BY <1>1, <1>3, PackAll
  <2> QED BY <1>4, <2>1
<1>6. crit = {m \in {q.msgs[i] : i \in Waiting(q)} : m.critical}
  BY <1>5
<1>7. IF arrives
      THEN accepted' = accepted \union {NextBit} /\ delivered' = delivered \union crit
      ELSE accepted' = accepted \ {NextBit} /\ delivered' = delivered
  <2>1. Pack(q, NextBit).queue.ended = "no"
    BY <1>4, <1>5
  <2> QED BY <2>1, Zenon DEF Send
<1> HIDE DEF load, crit
<1>8. /\ \A i \in Slot : i \in Waiting(q) <=> Away(q, i) < Away(q, q.next)
      /\ \A i \in Slot : i \in Held(q) <=> q.msgs[i].critical /\ i \notin Waiting(q)
      /\ \A i \in Slot : i \in Pending(q) <=> i \in Waiting(q) \/ q.msgs[i].critical
      /\ Waiting(q) \subseteq Slot /\ Held(q) \subseteq Slot /\ Pending(q) \subseteq Slot
      /\ q.next \in Slot /\ q.begin \in Slot
  BY <1>1, PendingFacts
<1>9. \A i \in Slot : Away(q, i) \in 0 .. (Slots - 1) /\ Away(r, i) \in 0 .. (Slots - 1)
  BY <1>5, <1>8, AwayFacts
<1>10. Waiting(r) = {}
  <2>1. Away(r, r.next) = 0
    BY <1>5, <1>8, AwayFacts
  <2>2. \A i \in Slot : ~ (Away(r, i) < 0)
    <3> TAKE i \in Slot
    <3>1. Away(r, i) \in 0 .. (Slots - 1)
      BY <1>9
    <3> QED BY <3>1, SlotsFacts
  <2> QED BY <2>1, <2>2, WaitingAway
<1>11. Held(r) = {i \in Slot : q.msgs[i].critical} /\ Pending(r) = Held(r)
  BY <1>5, <1>10 DEF Held, Pending
<1>12. HasSpace(r)
  <2>1. Pending(r) \subseteq Pending(q)
    BY <1>8, <1>11
  <2>2. Cardinality(Pending(r)) < Slots
    <3>1. /\ Cardinality(Pending(r)) \in Nat /\ Cardinality(Pending(q)) \in Nat
          /\ Cardinality(Pending(r)) <= Cardinality(Pending(q))
      BY <1>8, <2>1, FewerPending
    <3> QED BY <1>1, <3>1, SlotsFacts DEF HasSpace
  <2>3. SizeOf(r, Pending(r)) <= Capacity
    <3>1. SizeOf(r, Pending(r)) <= SizeOf(q, Pending(q))
      BY <1>1, <1>5, <2>1, SizeMono
    <3>2. SizeOf(r, Pending(r)) \in Nat /\ SizeOf(q, Pending(q)) \in Nat
      BY <1>1, <1>5, SizesFacts
    <3> QED BY <1>1, <3>1, <3>2, SlotsFacts DEF HasSpace
  <2> QED BY <1>1, <1>5, <2>2, <2>3 DEF HasSpace
<1>13. \A i \in Slot : q.msgs[i].critical => q.msgs[i] \in created
  BY <1>1 DEF Good, Known
<1>14. crit \subseteq created /\ delivered \subseteq delivered' /\ delivered' \subseteq created
  <2>1. crit \subseteq created
    BY <1>6, <1>8, <1>13
  <2> QED BY <1>1, <1>7, <2>1 DEF TypeOK
<1>15. \A i \in Held(q) : q.msgs[i] \in created \ delivered' => q.sent[i] # NextBit
  BY <1>2, <1>14 DEF NoneDue, Undelivered
<1>16. ASSUME NEW m \in created, m \notin delivered'
       PROVE  \E i \in Slot : r.msgs[i] = m /\ r.sent[i] \in critical' \ accepted'
  <2>1. m \in Undelivered /\ m.critical
    BY <1>1, <1>14, <1>16 DEF Undelivered
  <2>2. PICK i \in Slot : q.msgs[i] = m
                 /\ (i \in Waiting(q) \/ q.sent[i] \in critical \ accepted)
    BY <1>1, <2>1 DEF Good, Kept
  <2>3. CASE i \in Waiting(q)
    <3>1. m \in crit
      BY <1>6, <2>1, <2>2, <2>3
    <3>2. ~ arrives /\ NextBit \notin accepted' /\ NextBit \in critical'
      BY <1>4, <1>7, <1>16, <3>1
    <3> QED BY <1>5, <2>2, <2>3, <3>2
  <2>4. CASE i \notin Waiting(q)
    <3>1. q.sent[i] # NextBit /\ r.sent[i] = q.sent[i] /\ q.sent[i] \in critical \ accepted
      BY <1>5, <1>8, <1>15, <1>16, <2>1, <2>2, <2>4
    <3>2. q.sent[i] \in critical' \ accepted'
      BY <1>4, <1>7, <3>1
    <3> QED BY <1>5, <2>2, <3>1, <3>2
  <2> QED BY <2>3, <2>4
<1>17. \A i \in Held(r) : r.sent[i] \in Bit
  <2> TAKE i \in Held(r)
  <2>1. i \in Slot /\ q.msgs[i].critical
    BY <1>11
  <2>2. CASE i \in Waiting(q)
    BY <1>3, <1>5, <2>1, <2>2
  <2>3. CASE i \notin Waiting(q)
    <3>1. i \in Held(q)
      BY <1>8, <2>1, <2>3
    <3> QED BY <1>1, <1>5, <2>1, <2>3, <3>1 DEF Good, Known
  <2> QED BY <2>2, <2>3
<1> DEFINE Aged(b) == (NextBit - b) % Window
<1>18. \A b \in Bit : /\ Aged(b) = IF b = NextBit THEN 0 ELSE Age(b) + 1
                      /\ Age(b) \in 0 .. (Window - 1)
                      /\ Age(NextBit) = Window - 1
  BY <1>1, AgeFacts
<1> HIDE DEF Aged
<1>19. ASSUME NEW i \in Held(r), NEW j \in Held(r),
              r.msgs[i] \in created \ delivered', Away(r, i) < Away(r, j)
       PROVE  Aged(r.sent[j]) <= Aged(r.sent[i])
  <2> DEFINE x == r.sent[i]
             y == r.sent[j]
  <2>1. /\ i \in Slot /\ q.msgs[i].critical /\ j \in Slot /\ q.msgs[j].critical
        /\ x \in Bit /\ y \in Bit
    BY <1>11, <1>17
  <2>2. /\ Aged(x) = IF x = NextBit THEN 0 ELSE Age(x) + 1
        /\ Aged(y) = IF y = NextBit THEN 0 ELSE Age(y) + 1
        /\ Age(x) \in 0 .. (Window - 1) /\ Age(y) \in 0 .. (Window - 1)
    <3> HIDE DEF x, y
    <3> QED BY <1>18, <2>1
  <2>3. CASE y = NextBit
    <3>1. Aged(y) <= Aged(x)
      <4> HIDE DEF x, y
      <4> QED BY <2>2, <2>3, RingAssumption
    <3> QED BY <3>1
  <2>4. CASE y # NextBit
    <3>1. j \notin Waiting(q) /\ j \in Held(q) /\ y = q.sent[j]
      BY <1>5, <1>8, <2>1, <2>4
    <3>2. i \notin Waiting(q)
      <4> SUFFICES ASSUME i \in Waiting(q) PROVE FALSE
        OBVIOUS
      <4> DEFINE a == Away(q, i)
                 d == Away(q, j)
                 w == Away(q, q.next)
      <4>1. Away(r, i) = a - w + Slots /\ Away(r, j) = d - w
        BY <1>1, <1>5, <2>1, <3>1, AwayFromNext
      <4>2. a \in 0 .. (Slots - 1) /\ d \in 0 .. (Slots - 1) /\ w \in 0 .. (Slots - 1)
        BY <1>8, <1>9, <2>1
      <4> HIDE DEF a, d, w
      <4> QED BY <1>19, <4>1, <4>2, SlotsFacts
    <3>3. i \in Held(q) /\ x = q.sent[i]
      BY <1>5, <1>8, <2>1, <3>2
    <3>4. Away(q, i) < Away(q, j)
      <4> DEFINE a == Away(q, i)
                 d == Away(q, j)
                 w == Away(q, q.next)
      <4>1. Away(r, i) = a - w /\ Away(r, j) = d - w
        BY <1>1, <1>5, <2>1, <3>1, <3>2, AwayFromNext
      <4>2. a \in 0 .. (Slots - 1) /\ d \in 0 .. (Slots - 1) /\ w \in 0 .. (Slots - 1)
        BY <1>8, <1>9, <2>1
      <4> HIDE DEF a, d, w
      <4>3. a < d
        BY <1>19, <4>1, <4>2, SlotsFacts
      <4> QED BY <4>3 DEF a, d
    <3>5. q.msgs[i] \in created \ delivered' /\ q.msgs[i] \in Undelivered
      BY <1>5, <1>14, <1>19 DEF Undelivered
    <3>6. Age(y) <= Age(x) /\ x # NextBit
      BY <1>1, <1>15, <3>1, <3>3, <3>4, <3>5 DEF Good, Ordered
    <3>7. Aged(y) <= Aged(x)
      <4> HIDE DEF x, y
      <4> QED BY <2>2, <2>4, <3>6, RingAssumption
    <3> QED BY <3>7
  <2> QED BY <2>3, <2>4
<1>20. Ordered(queue)'
  <2> SUFFICES ASSUME NEW i \in Held(r), NEW j \in Held(r),
                      r.msgs[i] \in created' \ delivered', Away(r, i) < Away(r, j)
               PROVE  (last' - r.sent[j]) % Window <= (last' - r.sent[i]) % Window
    BY DEF Ordered, Undelivered, Held, Waiting, Away, Age
  <2> QED BY <1>4, <1>19 DEF Aged
<1>21. TypeOK'
  <2>1. seqBit' \subseteq accepted' /\ accepted' \subseteq Bit /\ critical' \subseteq Bit
    BY <1>1, <1>3, <1>4, <1>7 DEF TypeOK
  <2> QED BY <1>1, <1>3, <1>4, <1>5, <1>14, <2>1 DEF TypeOK
<1>22. \A m \in created' : m.critical /\ m.id \in 1 .. calls'
  BY <1>1, <1>4
<1>23. HasSpace(queue)' /\ SingleCopies(queue)'
  <2>1. SingleCopies(r)
    BY <1>1, <1>5 DEF Good, SingleCopies
  <2> QED BY <1>12, <2>1 DEF HasSpace, SingleCopies, Pending, SizeOf, Total, Waiting
<1>24. Kept(queue)'
  BY <1>4, <1>16 DEF Kept, Undelivered, Waiting
<1>25. Known(queue)'
  BY <1>4, <1>5, <1>13, <1>17 DEF Known, Held, Waiting
<1>26. polled' => NoneDue(queue)'
  BY <1>4
<1> QED BY <1>20, <1>21, <1>22, <1>23, <1>24, <1>25, <1>26 DEF SlotsInv

\* A step that changes nothing.
LEMMA StutterStep ==
  ASSUME SlotsInv, UNCHANGED vars
  PROVE  SlotsInv'
<1>1. /\ queue' = queue /\ last' = last /\ seqBit' = seqBit /\ critical' = critical
      /\ accepted' = accepted /\ polled' = polled /\ calls' = calls /\ created' = created
      /\ delivered' = delivered
  BY DEF vars
<1>2. Good(queue) /\ TypeOK /\ (polled => NoneDue(queue))
  BY InvGood DEF SlotsInv
<1>3. Good(queue') /\ TypeOK' /\ (polled' => NoneDue(queue'))
  BY <1>1, <1>2 DEF TypeOK
<1> QED BY <1>1, <1>3, SameGood

\* Nothing is as large as nothing.
LEMMA SizeOfNone ==
  ASSUME NEW q
  PROVE  SizeOf(q, {}) = 0
<1> DEFINE f == [k \in 1 .. Slots |-> IF k - 1 \in {} THEN q.msgs[k - 1].size ELSE 0]
<1>1. Slots \in Nat /\ SizeOf(q, {}) = Total(f, Slots) /\ \A k \in 1 .. Slots : f[k] = 0
  BY SlotsFacts DEF SizeOf
<1> HIDE DEF f
<1>2. PICK s : /\ s[0] = 0
               /\ \A k \in 1 .. Slots : s[k] = s[k - 1] + f[k]
               /\ Total(f, Slots) = s[Slots]
  BY <1>1, TotalUnfolds
<1> DEFINE S == {m \in Nat : m <= Slots => s[m] = 0}
<1>3. 0 \in S
  BY <1>2
<1>4. ASSUME NEW m \in Nat, m \in S PROVE m + 1 \in S
  <2> SUFFICES ASSUME m + 1 <= Slots PROVE s[m + 1] = 0
    OBVIOUS
  <2>1. m + 1 \in 1 .. Slots /\ (m + 1) - 1 = m /\ s[m] = 0
    BY <1>1, <1>4
  <2>2. s[m + 1] = s[m] + f[m + 1] /\ f[m + 1] = 0
    BY <1>1, <1>2, <2>1
  <2> QED BY <2>1, <2>2
<1> HIDE DEF S
<1>5. Slots \in S
  BY <1>1, <1>3, <1>4, SetInduction
<1> QED BY <1>1, <1>2, <1>5 DEF S

\* The queue is empty at first (client 462-467).
LEMMA InitStep == Init => SlotsInv
<1> SUFFICES ASSUME Init PROVE SlotsInv
  OBVIOUS
<1>1. /\ queue.msgs = [i \in Slot |-> NoMessage] /\ queue.sent = [i \in Slot |-> NotSet]
      /\ queue.begin = 0 /\ queue.next = 0 /\ queue.ended = "no"
      /\ queue = EmptyQueue
  BY DEF Init, EmptyQueue
<1>2. queue \in QueueMessage
  <2>1. 0 \in Slot /\ 0 \in Nat /\ NotSet \in 0 .. NotSet
    BY SlotsFacts, RingAssumption DEF NotSet
  <2> QED BY <1>1, <2>1 DEF EmptyQueue, QueueMessage
<1>3. last \in Bit
  <2>1. UINT_MAX \in SeqNum
    BY RingFacts DEF UINT_MAX, SeqNum
  <2> QED BY <2>1, IndexBit DEF Init
<1>4. TypeOK
  <2>1. seqBit = Bit /\ accepted = Bit /\ critical = {} /\ polled = FALSE /\ calls = 0
        /\ created = {} /\ delivered = {}
    BY DEF Init
  <2>2. calls \in 0 .. MaxCalls
    BY <2>1, CallAssumption
  <2>3. created \subseteq Message
    BY <2>1
  <2> QED BY <1>2, <1>3, <2>1, <2>2, <2>3 DEF TypeOK
<1>5. queue.next < Slots /\ queue.begin \in Slot
  BY <1>1, <1>2, QueueFields, SlotsFacts
<1>6. Waiting(queue) = {}
  <2>1. Away(queue, queue.next) = 0
    BY <1>1, <1>5, AwayFacts
  <2>2. \A i \in Slot : ~ (Away(queue, i) < 0)
    <3> TAKE i \in Slot
    <3>1. Away(queue, i) \in 0 .. (Slots - 1)
      BY <1>5, AwayFacts
    <3> QED BY <3>1, SlotsFacts
  <2> QED BY <2>1, <2>2, WaitingAway
<1>7. \A i \in Slot : queue.msgs[i].critical = FALSE
  BY <1>1, MessageFacts
<1>8. Pending(queue) = {} /\ Held(queue) = {}
  BY <1>6, <1>7 DEF Pending, Held
<1>9. HasSpace(queue)
  <2>1. Cardinality(Pending(queue)) = 0
    BY <1>8, FS_EmptySet, Zenon
  <2>2. SizeOf(queue, Pending(queue)) = 0
    BY <1>8, SizeOfNone
  <2> QED BY <1>1, <1>5, <2>1, <2>2, SlotsFacts DEF HasSpace
<1>10. created = {}
  BY DEF Init
<1>11. Kept(queue) /\ SingleCopies(queue) /\ Ordered(queue) /\ Known(queue)
       /\ NoneDue(queue)
  BY <1>7, <1>8, <1>10 DEF Kept, SingleCopies, Ordered, Known, NoneDue, Undelivered
<1> QED BY <1>4, <1>9, <1>10, <1>11 DEF SlotsInv

\* Each step keeps the invariant.
LEMMA NextStep == AllLimits /\ SlotsInv /\ [Next]_vars => SlotsInv'
<1> SUFFICES ASSUME AllLimits, SlotsInv, [Next]_vars PROVE SlotsInv'
  OBVIOUS
<1>1. CASE Poll
  BY <1>1, PollStep
<1>2. CASE CreatePackages
  BY <1>2, CreateStep
<1>3. CASE SendArrives
  BY <1>3, SendStep DEF SendArrives
<1>4. CASE SendLost
  BY <1>4, SendStep DEF SendLost
<1>5. CASE UNCHANGED vars
  BY <1>5, StutterStep
<1> QED BY <1>1, <1>2, <1>3, <1>4, <1>5 DEF Next

-------------------------------------------------------------------------------
(***************************************************************************)
(* The theorems                                                            *)
(***************************************************************************)

\* Whatever calls are made within the limits and whatever packets get lost, the
\* slots of queue_message (protocol.h 78-85) stay as SlotsInv says.
THEOREM Consistent == AllLimits => (Spec => []SlotsInv)
<1> SUFFICES ASSUME AllLimits PROVE Spec => []SlotsInv
  OBVIOUS
<1>1. Init => SlotsInv
  BY InitStep
<1>2. SlotsInv /\ [Next]_vars => SlotsInv'
  BY NextStep
<1> QED BY <1>1, <1>2, PTL DEF Spec

\* Every variable keeps its type: begin and next (protocol.h 78-85) stay slots.
THEOREM TypesKept == AllLimits => (Spec => []TypeOK)
<1> SUFFICES ASSUME AllLimits PROVE Spec => []TypeOK
  OBVIOUS
<1>1. SlotsInv => TypeOK
  BY DEF SlotsInv
<1>2. Spec => []SlotsInv
  BY Consistent
<1> QED BY <1>1, <1>2, PTL

\* No critical message is forgotten, neither by the call that takes its slot (client
\* 210-286) nor by the scan that queues others again (client 494-535).
THEOREM CriticalIsKept == AllLimits => (Spec => []CriticalKept)
<1> SUFFICES ASSUME AllLimits PROVE Spec => []CriticalKept
  OBVIOUS
<1>1. SlotsInv => CriticalKept
  <2> SUFFICES ASSUME SlotsInv, NEW m \in created \ delivered
               PROVE  \E i \in Slot : /\ queue.msgs[i] = m
                                      /\ \/ i \in Waiting(queue)
                                         \/ queue.sent[i] \in critical \ seqBit
    BY DEF CriticalKept
  <2>1. PICK i \in Slot : queue.msgs[i] = m
                 /\ (i \in Waiting(queue) \/ queue.sent[i] \in critical \ accepted)
    BY DEF SlotsInv, Kept, Undelivered
  <2>2. seqBit \subseteq accepted
    BY DEF SlotsInv, TypeOK
  <2> QED BY <2>1, <2>2
<1>2. Spec => []SlotsInv
  BY Consistent
<1> QED BY <1>1, <1>2, PTL

\* The scan (client 494-535) never leaves two copies of a critical message.
THEOREM NeverCopied == AllLimits => (Spec => []OneCopy)
<1> SUFFICES ASSUME AllLimits PROVE Spec => []OneCopy
  OBVIOUS
<1>1. SlotsInv => OneCopy
  BY DEF SlotsInv, SingleCopies, OneCopy
<1>2. Spec => []SlotsInv
  BY Consistent
<1> QED BY <1>1, <1>2, PTL

\* No Assert of GetNextAvailableMessageInQueue (server 417, 441, 444) fails, the
\* packing loop (server 989-1019) ends, and no slot past the array is used.
THEOREM NeverEnds == AllLimits => (Spec => []Survives)
<1> SUFFICES ASSUME AllLimits PROVE Spec => []Survives
  OBVIOUS
<1>1. SlotsInv => Survives
  BY DEF SlotsInv, HasSpace, Survives, Running
<1>2. Spec => []SlotsInv
  BY Consistent
<1> QED BY <1>1, <1>2, PTL
===============================================================================

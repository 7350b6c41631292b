--------------------------- MODULE ClientMapProofs ---------------------------
(***************************************************************************)
(* RegistryInv is an inductive invariant of ClientMap, for every number of *)
(* records, every set of addresses and every hash function.  All that the  *)
(* runs check of the registry follows from it.                             *)
(***************************************************************************)
EXTENDS ClientMap, NatLemmas

-----------------------------------------------------------------------------
(***************************************************************************)
(* Chains                                                                  *)
(***************************************************************************)

\* The recursive definition of a chain has a solution, so a chain starts in the
\* table and goes on with the links of its records.
LEMMA WalkFacts ==
  ASSUME NEW k
  PROVE  /\ Walk(k)[0] = table[k]
         /\ \A n \in 0 .. (BucketCount - 1) :
              Walk(k)[n + 1] = IF Walk(k)[n] = Null THEN Null ELSE next[Walk(k)[n]]
<1> DEFINE Body(w) == [n \in 0 .. BucketCount |->
              IF n = 0 THEN table[k]
              ELSE IF w[n - 1] = Null THEN Null ELSE next[w[n - 1]]]
<1>1. BucketCount \in Nat
  BY MapAssumption
<1>2. \E w : w = Body(w)
  <2>1. PICK v : IsWalk(v, BucketCount, table[k], next, Null)
    BY <1>1, WalkExists
  <2> DEFINE w == [m \in 0 .. BucketCount |-> v[m]]
  <2>2. w = Body(w)
    BY <1>1, <2>1 DEF IsWalk
  <2> QED BY <2>2, Zenon
<1>3. Walk(k) = CHOOSE w : w = Body(w)
  BY DEF Walk
<1> HIDE DEF Body
<1>4. Walk(k) = Body(Walk(k))
  BY <1>2, <1>3
<1> QED BY <1>1, <1>4 DEF Body

\* What entries says: the records in use are listed once each, and know where.
LEMMA EntriesFacts ==
  ASSUME TypeOK, EntriesExact
  PROVE  /\ count \in Nat /\ count <= BucketCount
         /\ \A i \in 0 .. (count - 1) : entries[i] \in InUse
         /\ InUse \subseteq Record
         /\ \A r \in InUse : /\ entry[r] \in 0 .. (count - 1)
                             /\ entries[entry[r]] = r
                             /\ addr[r] \in Addr
                             /\ Place(r) \in Key
         /\ \A i, j \in 0 .. (count - 1) : entries[i] = entries[j] => i = j
<1>1. count \in Nat /\ count <= BucketCount
  BY MapAssumption DEF TypeOK
<1>2. \A i \in 0 .. (count - 1) : i \in Record /\ entries[i] \in InUse
  BY <1>1, MapAssumption DEF InUse, Record
<1>3. \A r \in InUse : \E i \in 0 .. (count - 1) :
        r = entries[i] /\ r \in Record /\ entry[r] = i /\ addr[r] \in Addr
  BY <1>2 DEF InUse, EntriesExact, TypeOK
<1>4. \A r \in InUse : Place(r) \in Key
  BY <1>3, MapAssumption DEF Place
<1> QED BY <1>1, <1>2, <1>3, <1>4 DEF EntriesExact

\* Null is no record.
LEMMA NullFacts == Null \notin Record /\ \A r \in Record : r \in Int
BY MapAssumption DEF Record

\* While a record is not in use, no chain is so long that one more record would
\* exceed bucket_list: the positions before that of r are all taken, by different
\* records.
LEMMA ChainBound ==
  ASSUME TypeOK, EntriesExact,
         NEW pos \in [InUse -> Nat], Linked(pos),
         NEW x \in Record \ InUse, NEW r \in InUse
  PROVE  pos[r] + 1 \in 0 .. (BucketCount - 1)
<1> DEFINE p == pos[r]
           At(s, i) == Place(s) = Place(r) /\ pos[s] = i
           S == {j \in Nat : j <= p => \E s \in InUse : At(s, p - j)}
<1>1. p \in Nat /\ BucketCount \in Nat /\ InUse \subseteq Record
  BY MapAssumption, EntriesFacts
<1>2. 0 \in S
  BY <1>1
<1>3. ASSUME NEW j \in Nat, j \in S
      PROVE  j + 1 \in S
  <2> SUFFICES ASSUME j + 1 <= p
               PROVE  \E s \in InUse : At(s, p - (j + 1))
    OBVIOUS
  <2>1. PICK s \in InUse : At(s, p - j)
    BY <1>1, <1>3
  <2>2. PICK t \in InUse : next[t] = s
    BY <1>1, <2>1 DEF Linked
  <2>3. Place(s) = Place(t) /\ pos[s] = pos[t] + 1
    BY <1>1, <2>2, NullFacts DEF Linked
  <2>4. pos[t] = p - (j + 1)
    BY <1>1, <2>1, <2>3
  <2> QED BY <2>1, <2>3, <2>4
<1>4. \A i \in 0 .. p : \E s \in InUse : At(s, i)
  <2> HIDE DEF S
  <2>1. Nat \subseteq S
    BY <1>2, <1>3, SetInduction
  <2> TAKE i \in 0 .. p
  <2>2. p - i \in Nat /\ p - i \in S /\ p - i <= p /\ p - (p - i) = i
    BY <1>1, <2>1
  <2> QED BY <2>2 DEF S
<1> DEFINE f == [i \in 0 .. (p + 1) |->
                   IF i = p + 1 THEN x ELSE CHOOSE s \in InUse : At(s, i)]
<1>5. \A i \in 0 .. p : f[i] \in InUse /\ pos[f[i]] = i
  <2> TAKE i \in 0 .. p
  <2>1. f[i] = CHOOSE s \in InUse : At(s, i)
    BY <1>1
  <2> QED BY <1>4, <2>1
<1>6. f[p + 1] = x
  BY <1>1
<1>7. f \in [0 .. (p + 1) -> Record]
  <2>1. f = [i \in 0 .. (p + 1) |-> f[i]]
    OBVIOUS
  <2> HIDE DEF f, p
  <2>2. \A i \in 0 .. (p + 1) : f[i] \in Record
    BY <1>1, <1>5, <1>6
  <2> QED BY <2>1, <2>2
<1> HIDE DEF f, p
<1>8. \A i, j \in 0 .. (p + 1) : f[i] = f[j] => i = j
  BY <1>1, <1>5, <1>6
<1>9. p + 1 < BucketCount
  BY <1>1, <1>7, <1>8, Pigeonhole DEF Record
<1> QED BY <1>1, <1>9 DEF p

\* A chain has the records in use whose address hashes to its place.
LEMMA ChainMembers ==
  ASSUME TypeOK, EntriesExact, ChainsLinked, NEW k \in Key
  PROVE  Chain(k) = {r \in InUse : Place(r) = k}
<1>1. PICK pos \in [InUse -> 0 .. (BucketCount - 1)] : Linked(pos)
  BY DEF ChainsLinked
<1> DEFINE w == Walk(k)
           Sound(n) == w[n] # Null => /\ w[n] \in InUse
                                      /\ Place(w[n]) = k
                                      /\ pos[w[n]] = n
           Complete(n) == \A r \in InUse : Place(r) = k /\ pos[r] = n => w[n] = r
           S == {n \in Nat : n <= BucketCount => Sound(n) /\ Complete(n)}
<1>2. BucketCount \in Nat /\ InUse \subseteq Record
  BY MapAssumption, EntriesFacts
<1>3. /\ w[0] = table[k]
      /\ \A n \in 0 .. (BucketCount - 1) :
           w[n + 1] = IF w[n] = Null THEN Null ELSE next[w[n]]
  BY WalkFacts
<1> HIDE DEF w
<1>4. 0 \in S
  BY <1>1, <1>3 DEF Linked
<1>5. ASSUME NEW n \in Nat, n \in S
      PROVE  n + 1 \in S
  <2> SUFFICES ASSUME n + 1 <= BucketCount
               PROVE  Sound(n + 1) /\ Complete(n + 1)
    OBVIOUS
  <2>1. /\ w[n + 1] = IF w[n] = Null THEN Null ELSE next[w[n]]
        /\ Sound(n) /\ Complete(n)
    BY <1>2, <1>3, <1>5
  <2>2. Sound(n + 1)
    BY <1>1, <2>1 DEF Linked
  <2>3. ASSUME NEW r \in InUse, Place(r) = k, pos[r] = n + 1
        PROVE  w[n + 1] = r
    <3>1. PICK s \in InUse : next[s] = r
      BY <1>1, <2>3 DEF Linked
    <3>2. Place(s) = k /\ pos[r] = pos[s] + 1
      BY <1>1, <1>2, <2>3, <3>1, NullFacts DEF Linked
    <3>3. w[n] = s /\ s # Null
      BY <1>1, <1>2, <2>1, <2>3, <3>2, NullFacts
    <3> QED BY <2>1, <3>1, <3>3
  <2> QED BY <2>2, <2>3
<1>6. \A n \in 0 .. BucketCount : Sound(n) /\ Complete(n)
  <2> HIDE DEF S, Sound, Complete
  <2>1. Nat \subseteq S
    BY <1>4, <1>5, SetInduction
  <2> QED BY <1>2, <2>1 DEF S
<1>7. Chain(k) = {w[n] : n \in 0 .. BucketCount} \ {Null}
  BY DEF Chain, w
<1>8. \A r \in InUse : Place(r) = k => w[pos[r]] = r /\ pos[r] \in 0 .. BucketCount
  BY <1>1, <1>2, <1>6
<1> QED BY <1>2, <1>6, <1>7, <1>8, NullFacts

\* Client() finds the record of an address exactly if it has one.
LEMMA FoundFacts ==
  ASSUME TypeOK, EntriesExact, ChainsLinked, NEW a \in Addr
  PROVE  Found(a) = {r \in InUse : addr[r] = a}
BY ChainMembers, EntriesFacts, MapAssumption DEF Found, Place

\* A chain that is not empty ends: some record of it has no next.
LEMMA ChainEnds ==
  ASSUME TypeOK, EntriesExact, ChainsLinked, NEW r \in InUse
  PROVE  \E s \in InUse : Place(s) = Place(r) /\ next[s] = Null
<1>1. PICK pos \in [InUse -> 0 .. (BucketCount - 1)] : Linked(pos)
  BY DEF ChainsLinked
<1> SUFFICES ASSUME \A s \in InUse : Place(s) = Place(r) => next[s] # Null
             PROVE  FALSE
  OBVIOUS
<1> DEFINE S == {n \in Nat : \E s \in InUse : Place(s) = Place(r) /\ pos[s] >= n}
<1>2. BucketCount \in Nat
  BY MapAssumption
<1>3. 0 \in S
  BY <1>1, <1>2
<1>4. ASSUME NEW n \in Nat, n \in S
      PROVE  n + 1 \in S
  <2>1. PICK s \in InUse : Place(s) = Place(r) /\ pos[s] >= n
    BY <1>4
  <2>2. next[s] \in InUse /\ Place(next[s]) = Place(r) /\ pos[next[s]] = pos[s] + 1
    BY <1>1, <2>1 DEF Linked
  <2>3. pos[s] + 1 >= n + 1
    BY <1>1, <1>2, <2>1
  <2> QED BY <2>2, <2>3
<1> HIDE DEF S
<1>5. BucketCount \in S
  BY <1>2, <1>3, <1>4, SetInduction
<1> QED BY <1>1, <1>2, <1>5 DEF S

-----------------------------------------------------------------------------
(***************************************************************************)
(* The steps                                                               *)
(***************************************************************************)

\* A new client gets the record on the free list, or else the first that was never
\* used; it had no other, and the record had no client.
LEMMA NewRecord ==
  ASSUME RegistryInv, NEW a \in Addr, ClientNew(a)
  PROVE  LET r == IF freeList # Null THEN freeList ELSE firstFree
         IN  /\ r \in Record \ InUse
             /\ addr' = [addr EXCEPT ![r] = a]
             /\ InUse' = InUse \union {r}
             /\ \A s \in InUse : addr[s] # a
<1> USE DEF RegistryInv
<1>1. PICK r \in Record :
        /\ Allocate(r)
        /\ addr' = [addr EXCEPT ![r] = a]
        /\ entries' = [entries EXCEPT ![count] = r]
        /\ count' = count + 1
  BY DEF ClientNew
<1>2. r = IF freeList # Null THEN freeList ELSE firstFree
  BY <1>1 DEF Allocate
<1>3. count \in Nat /\ count \in Record /\ InUse \subseteq Record
  BY EntriesFacts, MapAssumption DEF ClientNew, Record, TypeOK
<1>4. r \notin InUse
  BY <1>2, <1>3, NullFacts DEF FreeNotInUse, TypeOK
<1>5. \A s \in InUse : addr[s] # a
  BY FoundFacts DEF ClientNew
<1>6. InUse' = InUse \union {r}
  <2>1. \A i \in 0 .. (count - 1) : entries'[i] = entries[i]
    BY <1>1, <1>3 DEF TypeOK, Record
  <2>2. entries'[count] = r
    BY <1>1, <1>3 DEF TypeOK
  <2>3. InUse' = {entries'[i] : i \in 0 .. count}
    BY <1>1, <1>3 DEF InUse
  <2>4. \A i \in 0 .. count : i \in 0 .. (count - 1) \/ i = count
    BY <1>3
  <2>5. 0 .. (count - 1) \subseteq 0 .. count /\ count \in 0 .. count
    BY <1>3
  <2> QED BY <2>1, <2>2, <2>3, <2>4, <2>5 DEF InUse
<1> QED BY <1>1, <1>2, <1>4, <1>5, <1>6

\* A new client (Client(), udp_server.cpp 126-196) gets a record that was not in
\* use, at the end of entries and at the end of its chain.
LEMMA NewStep ==
  ASSUME RegistryInv, NEW a \in Addr, ClientNew(a)
  PROVE  RegistryInv'
<1> USE DEF RegistryInv
<1> DEFINE k == HashKey[a]
           last == {s \in Chain(k) : next[s] = Null}
<1>1. PICK r \in Record :
        /\ Allocate(r)
        /\ addr' = [addr EXCEPT ![r] = a]
        /\ entries' = [entries EXCEPT ![count] = r]
        /\ entry' = [entry EXCEPT ![r] = count]
        /\ count' = count + 1
        /\ LinkLast(k, r)
  BY DEF ClientNew
<1>2. /\ sweep = Null /\ BucketCount >= count + 1 /\ ~ Exhausted
      /\ UNCHANGED <<sweep, swept, due, halted>>
  BY DEF ClientNew
<1>3. /\ count \in Nat /\ BucketCount \in Nat /\ firstFree \in Nat
      /\ count \in Record /\ InUse \subseteq Record
      /\ k \in Key
  BY <1>2, EntriesFacts, MapAssumption DEF Record, TypeOK
<1>4. /\ r \notin InUse /\ r # Null
      /\ freeList' = Null
      /\ firstFree' \in Nat /\ firstFree' < BucketCount
      /\ firstFree <= firstFree' /\ r < firstFree' /\ count + 1 <= firstFree'
  BY <1>1, <1>2, <1>3, NullFacts
     DEF Allocate, FreeNotInUse, FreeShort, Exhausted, TypeOK
<1>5. /\ table' = IF last = {} THEN [table EXCEPT ![k] = r] ELSE table
      /\ next' = [s \in Record |-> IF s \in last THEN r
                                   ELSE IF s = r THEN Null ELSE next[s]]
  BY <1>1 DEF LinkLast
<1>6. /\ last = {s \in InUse : Place(s) = k /\ next[s] = Null}
      /\ \A s \in InUse : addr[s] # a
  BY <1>3, ChainMembers, FoundFacts DEF ClientNew
<1> HIDE DEF last
<1>7. InUse' = InUse \union {r}
  BY <1>1, NewRecord DEF Allocate
<1>8. TypeOK'
  <2>1. table' \in [Key -> Record \union {Null}]
    BY <1>5 DEF TypeOK
  <2>2. next' \in [Record -> Record \union {Null}]
    BY <1>5 DEF TypeOK
  <2>3. /\ addr' \in [Record -> Addr \union {Null}]
        /\ entry' \in [Record -> Record \union {Null}]
        /\ entries' \in [Record -> Record \union {Null}]
    BY <1>1, <1>3 DEF TypeOK
  <2>4. /\ count' \in 0 .. BucketCount
        /\ firstFree' \in 0 .. BucketCount
        /\ freeList' \in Record \union {Null}
    BY <1>1, <1>2, <1>3, <1>4
  <2> QED BY <1>2, <2>1, <2>2, <2>3, <2>4 DEF TypeOK
<1>9. /\ addr'[r] = a /\ \A s \in Record \ {r} : addr'[s] = addr[s]
      /\ entry'[r] = count /\ \A s \in Record \ {r} : entry'[s] = entry[s]
  BY <1>1 DEF TypeOK
<1>10. EntriesExact'
  <2>1. ASSUME NEW i \in 0 .. count
        PROVE  entries'[i] # Null /\ entry'[entries'[i]] = i /\ addr'[entries'[i]] # Null
    <3>1. CASE i = count
      BY <1>1, <1>3, <1>4, <1>9, <3>1, MapAssumption DEF TypeOK
    <3>2. CASE i # count
      <4>1. i \in 0 .. (count - 1) /\ entries'[i] = entries[i]
        BY <1>1, <1>3, <3>2 DEF TypeOK, Record
      <4>2. entries[i] \in InUse
        BY <4>1, EntriesFacts
      <4> QED BY <1>3, <1>4, <1>9, <4>1, <4>2 DEF EntriesExact
    <3> QED BY <3>1, <3>2
  <2>2. \A s \in Record \ InUse' : addr'[s] = Null /\ entry'[s] = Null
    BY <1>7, <1>9 DEF EntriesExact
  <2>3. count' - 1 = count
    BY <1>1, <1>3
  <2> QED BY <2>1, <2>2, <2>3 DEF EntriesExact
<1>11. FreeNotInUse' /\ FreeShort'
  <2>1. \A s \in InUse' : s < firstFree'
    BY <1>3, <1>4, <1>7, NullFacts DEF FreeNotInUse
  <2> QED BY <1>1, <1>4, <2>1 DEF FreeNotInUse, FreeShort
<1>12. ChainsLinked'
  <2>1. PICK pos \in [InUse -> 0 .. (BucketCount - 1)] : Linked(pos)
    BY DEF ChainsLinked
  <2>2. PICK q : q = [s \in InUse \union {r} |->
                        IF s # r THEN pos[s]
                        ELSE IF last = {} THEN 0
                        ELSE pos[CHOOSE t \in last : TRUE] + 1]
    OBVIOUS
  <2>3. \A s \in InUse : q[s] = pos[s] /\ s # r /\ q[s] \in 0 .. (BucketCount - 1)
    BY <1>4, <2>1, <2>2
  <2>4. \A s \in InUse : HashKey[addr'[s]] = Place(s)
    BY <1>3, <1>4, <1>9 DEF Place
  <2>5. HashKey[addr'[r]] = k
    BY <1>9
  <2>6. \A s \in InUse : next'[s] = IF s \in last THEN r ELSE next[s]
    BY <1>3, <1>4, <1>5
  <2>7. next'[r] = Null
    BY <1>4, <1>5, <1>6
  <2>8. CASE last = {}
    <3>1. \A s \in InUse : Place(s) # k
      BY <1>6, <2>8, ChainEnds
    <3>2. q[r] = 0 /\ 0 \in 0 .. (BucketCount - 1)
      BY <1>3, <2>2, <2>8, MapAssumption
    <3>3. /\ table'[k] = r
          /\ \A m \in Key \ {k} : table'[m] = table[m]
      BY <1>3, <1>5, <2>8 DEF TypeOK
    <3>4. \A s \in InUse : next'[s] = next[s]
      BY <2>6, <2>8
    <3>5. q \in [InUse' -> 0 .. (BucketCount - 1)]
      BY <1>7, <2>2, <2>3, <3>2
    <3>6. \A m \in Key : table'[m] # Null =>
            /\ table'[m] \in InUse'
            /\ HashKey[addr'[table'[m]]] = m
            /\ q[table'[m]] = 0
      BY <1>7, <2>1, <2>3, <2>4, <2>5, <3>2, <3>3 DEF Linked
    <3>7. \A s \in InUse' : next'[s] # Null =>
            /\ next'[s] \in InUse'
            /\ HashKey[addr'[next'[s]]] = HashKey[addr'[s]]
            /\ q[next'[s]] = q[s] + 1
      BY <1>7, <2>1, <2>3, <2>4, <2>7, <3>4 DEF Linked
    <3>8. \A s \in InUse' : IF q[s] = 0 THEN table'[HashKey[addr'[s]]] = s
                            ELSE \E t \in InUse' : next'[t] = s
      BY <1>7, <2>1, <2>3, <2>4, <2>5, <3>1, <3>2, <3>3, <3>4, EntriesFacts DEF Linked
    <3>9. \A s, t \in InUse' : HashKey[addr'[s]] = HashKey[addr'[t]] =>
            /\ q[s] = q[t] => s = t
            /\ q[s] < q[t] => next'[s] # Null
      <4>1. ASSUME NEW s \in InUse, NEW t \in InUse, Place(s) = Place(t)
            PROVE  /\ q[s] = q[t] => s = t
                   /\ q[s] < q[t] => next'[s] # Null
        <5>1. q[s] = pos[s] /\ q[t] = pos[t] /\ next'[s] = next[s]
          BY <2>3, <3>4
        <5> QED BY <2>1, <4>1, <5>1 DEF Linked
      <4>2. ~ (q[r] < q[r])
        BY <3>2
      <4> QED BY <1>7, <2>4, <2>5, <3>1, <4>1, <4>2
    <3>10. Linked(q)'
      BY <3>6, <3>7, <3>8, <3>9 DEF Linked, Place
    <3> QED BY <3>5, <3>10 DEF ChainsLinked
  <2>9. CASE last # {}
    <3>1. PICK e \in last : e = CHOOSE t \in last : TRUE
      BY <2>9
    <3>2. /\ e \in InUse /\ Place(e) = k /\ next[e] = Null
          /\ \A s \in last : s = e
          /\ \A s \in InUse : Place(s) = k => pos[s] <= pos[e]
      <4>1. e \in last
        OBVIOUS
      <4>2. e \in InUse /\ Place(e) = k /\ next[e] = Null
        BY <1>6, <4>1
      <4>3. \A s \in InUse : Place(s) = k => pos[s] <= pos[e]
        BY <1>3, <2>1, <4>2 DEF Linked
      <4>4. \A s \in last : pos[e] <= pos[s] /\ s \in InUse /\ Place(s) = k
        BY <1>3, <1>6, <2>1, <4>2 DEF Linked
      <4>5. \A s \in last : s = e
        <5> TAKE s \in last
        <5>1. pos[s] = pos[e]
          BY <1>3, <2>1, <4>2, <4>3, <4>4
        <5> QED BY <2>1, <4>2, <4>4, <5>1 DEF Linked
      <4> QED BY <4>2, <4>3, <4>5
    <3>3. q[r] = pos[e] + 1 /\ q[r] \in 0 .. (BucketCount - 1)
      <4>1. pos \in [InUse -> Nat]
        BY <1>3, <2>1
      <4>2. pos[e] + 1 \in 0 .. (BucketCount - 1)
        BY <1>4, <2>1, <3>2, <4>1, ChainBound
      <4> QED BY <2>2, <2>9, <3>1, <4>2
    <3>4. table' = table
      BY <1>5, <2>9
    <3>5. next'[e] = r /\ \A s \in InUse \ {e} : next'[s] = next[s]
      BY <2>6, <3>1, <3>2
    <3>6. q \in [InUse' -> 0 .. (BucketCount - 1)]
      BY <1>7, <2>2, <2>3, <3>3
    <3>7. \A m \in Key : table'[m] # Null =>
            /\ table'[m] \in InUse'
            /\ HashKey[addr'[table'[m]]] = m
            /\ q[table'[m]] = 0
      BY <1>7, <2>1, <2>3, <2>4, <3>4 DEF Linked
    <3>8. \A s \in InUse' : next'[s] # Null =>
            /\ next'[s] \in InUse'
            /\ HashKey[addr'[next'[s]]] = HashKey[addr'[s]]
            /\ q[next'[s]] = q[s] + 1
      BY <1>7, <2>1, <2>3, <2>4, <2>5, <2>7, <3>2, <3>3, <3>5 DEF Linked
    <3>9. \A s \in InUse' : IF q[s] = 0 THEN table'[HashKey[addr'[s]]] = s
                            ELSE \E t \in InUse' : next'[t] = s
      <4>1. q[r] # 0
        BY <1>3, <2>1, <3>2, <3>3
      <4>2. \A s \in InUse : \A t \in InUse : next[t] = s => next'[t] = s
        BY <1>3, <3>2, <3>5, NullFacts
      <4> QED BY <1>7, <2>1, <2>3, <2>4, <3>2, <3>4, <3>5, <4>1, <4>2 DEF Linked
    <3>10. \A s, t \in InUse' : HashKey[addr'[s]] = HashKey[addr'[t]] =>
            /\ q[s] = q[t] => s = t
            /\ q[s] < q[t] => next'[s] # Null
      <4>1. ASSUME NEW s \in InUse, Place(s) = k
            PROVE  q[s] # q[r] /\ q[s] < q[r] /\ next'[s] # Null
        <5>1. q[s] = pos[s] /\ pos[s] <= pos[e] /\ pos[s] \in Int /\ pos[e] \in Int
          BY <1>3, <2>1, <2>3, <3>2, <4>1
        <5>2. s # e => next[s] # Null
          BY <1>6, <3>2, <4>1
        <5> QED BY <1>4, <3>3, <3>5, <5>1, <5>2
      <4>2. ASSUME NEW s \in InUse, NEW t \in InUse, Place(s) = Place(t)
            PROVE  /\ q[s] = q[t] => s = t
                   /\ q[s] < q[t] => next'[s] # Null
        BY <1>4, <2>1, <2>3, <3>5, <4>2 DEF Linked
      <4>3. ~ (q[r] < q[r])
        BY <3>3
      <4>4. \A s \in InUse : Place(s) = k => ~ (q[r] < q[s])
        BY <1>3, <2>3, <3>3, <4>1
      <4> TAKE s, t \in InUse'
      <4> HAVE HashKey[addr'[s]] = HashKey[addr'[t]]
      <4>5. CASE s \in InUse /\ t \in InUse
        BY <2>4, <4>2, <4>5
      <4>6. CASE s \in InUse /\ t = r
        BY <2>4, <2>5, <4>1, <4>6
      <4>7. CASE s = r /\ t \in InUse
        BY <2>4, <2>5, <4>1, <4>4, <4>7
      <4>8. CASE s = r /\ t = r
        BY <4>3, <4>8
      <4> QED BY <1>7, <4>5, <4>6, <4>7, <4>8
    <3>11. Linked(q)'
      BY <3>7, <3>8, <3>9, <3>10 DEF Linked, Place
    <3> QED BY <3>6, <3>11 DEF ChainsLinked
  <2> QED BY <2>8, <2>9
<1>13. OneRecord'
  BY <1>3, <1>4, <1>6, <1>7, <1>9 DEF OneRecord
<1>14. SweepSplit'
  BY <1>2 DEF SweepSplit
<1> QED BY <1>8, <1>10, <1>11, <1>12, <1>13, <1>14

\* A removal takes the client that the sweep has come to, and no other, from use.
LEMMA RemoveRecord ==
  ASSUME RegistryInv, SweepRemove
  PROVE  /\ entries[sweep] \in InUse
         /\ addr' = [addr EXCEPT ![entries[sweep]] = Null]
         /\ InUse' = InUse \ {entries[sweep]}
<1> USE DEF RegistryInv
<1> DEFINE r == entries[sweep]
           last == entries[count - 1]
<1>1. sweep # Null /\ sweep < count /\ FreeEntry(r) /\ addr' = [addr EXCEPT ![r] = Null]
  BY DEF SweepRemove
<1>2. /\ count \in Nat /\ InUse \subseteq Record
      /\ sweep \in 0 .. (count - 1) /\ count - 1 \in 0 .. (count - 1)
      /\ 0 .. (count - 1) \subseteq Record
  BY <1>1, EntriesFacts, MapAssumption DEF TypeOK, Record
<1>3. /\ r \in InUse /\ last \in InUse /\ entry[r] = sweep
      /\ last = r => sweep = count - 1
  BY <1>2, EntriesFacts DEF EntriesExact
<1>4. /\ entries' = IF last = r THEN entries
                    ELSE [entries EXCEPT ![sweep] = last, ![count - 1] = Null]
      /\ count' = count - 1
  BY <1>1, <1>3 DEF FreeEntry
<1>5. \A i, j \in 0 .. (count - 1) : entries[i] = entries[j] => i = j
  BY EntriesFacts
<1> HIDE DEF r, last
<1>6. \A i \in 0 .. (count - 2) :
        /\ i \in 0 .. (count - 1) /\ i # count - 1
        /\ entries'[i] = IF i = sweep THEN last ELSE entries[i]
  BY <1>2, <1>3, <1>4 DEF TypeOK
<1>7. \A i \in 0 .. (count - 2) : i # sweep => entries[i] # r /\ entries[i] # last
  BY <1>2, <1>5, <1>6 DEF r, last
<1>8. InUse' = InUse \ {r}
  <2>1. InUse' = {entries'[i] : i \in 0 .. (count - 2)}
    <3>1. (count - 1) - 1 = count - 2
      BY <1>2
    <3> QED BY <1>4, <3>1 DEF InUse
  <2>2. ASSUME NEW i \in 0 .. (count - 2)
        PROVE  entries'[i] \in InUse \ {r}
    <3>1. CASE i = sweep
      BY <1>2, <1>3, <1>6, <3>1
    <3>2. CASE i # sweep
      BY <1>6, <1>7, <3>2 DEF InUse
    <3> QED BY <3>1, <3>2
  <2>3. ASSUME NEW s \in InUse \ {r}
        PROVE  \E i \in 0 .. (count - 2) : entries'[i] = s
    <3>1. PICK i \in 0 .. (count - 1) : s = entries[i]
      BY DEF InUse
    <3>2. CASE i = count - 1
      <4>1. s = last /\ sweep # count - 1
        BY <2>3, <3>1, <3>2 DEF last, r
      <4>2. sweep \in 0 .. (count - 2)
        BY <1>2, <4>1
      <4> QED BY <1>6, <4>1, <4>2
    <3>3. CASE i # count - 1
      <4>1. i \in 0 .. (count - 2) /\ i # sweep
        BY <1>2, <2>3, <3>1, <3>3 DEF r
      <4> QED BY <1>6, <3>1, <4>1
    <3> QED BY <3>2, <3>3
  <2> QED BY <2>1, <2>2, <2>3
<1> QED BY <1>1, <1>3, <1>8 DEF r

\* A removed client (RemoveClient(), udp_server.cpp 198-250) leaves entries, its
\* chain and what the sweep still has to visit; its record alone is free.
LEMMA RemoveStep ==
  ASSUME RegistryInv, SweepRemove
  PROVE  RegistryInv'
<1> USE DEF RegistryInv
<1> DEFINE r == entries[sweep]
           k == Place(r)
           last == entries[count - 1]
<1>1. /\ sweep # Null /\ sweep < count
      /\ Unlink(r)
      /\ FreeEntry(r)
      /\ addr' = [addr EXCEPT ![r] = Null]
      /\ swept' = swept \union {r}
      /\ UNCHANGED <<firstFree, sweep, due, halted>>
  BY DEF SweepRemove
<1>2. /\ count \in Nat /\ BucketCount \in Nat /\ count <= BucketCount
      /\ firstFree \in Nat
      /\ InUse \subseteq Record
      /\ sweep \in 0 .. (count - 1) /\ count - 1 \in 0 .. (count - 1)
      /\ 0 .. (count - 1) \subseteq Record
  BY <1>1, EntriesFacts, MapAssumption DEF TypeOK, Record
<1>3. /\ r \in InUse /\ r \in Record /\ r # Null /\ r < firstFree
      /\ last \in InUse /\ last \in Record /\ last # Null
      /\ k \in Key
      /\ entry[r] = sweep
      /\ last = r => sweep = count - 1
  BY <1>2, EntriesFacts, NullFacts DEF FreeNotInUse, EntriesExact
<1>4. /\ entries' = IF last = r THEN entries
                    ELSE [entries EXCEPT ![sweep] = last, ![count - 1] = Null]
      /\ entry' = [s \in Record |-> IF s = r THEN Null
                                    ELSE IF s = last THEN sweep ELSE entry[s]]
      /\ count' = count - 1
  BY <1>1, <1>3 DEF FreeEntry
<1>5. \A i, j \in 0 .. (count - 1) : entries[i] = entries[j] => i = j
  BY EntriesFacts
<1> DEFINE prev == {s \in InUse : next[s] = r}
<1>6. /\ table' = IF table[k] = r THEN [table EXCEPT ![k] = next[r]] ELSE table
      /\ next' = [s \in Record |-> IF s = r THEN Null
                                   ELSE IF s \in prev THEN next[r] ELSE next[s]]
      /\ freeList' = r
  <2>1. (IF freeList = Null THEN Null ELSE next[freeList]) = Null
    BY DEF FreeShort
  <2>2. {s \in Chain(k) : next[s] = r} = prev
    <3>1. PICK pos \in [InUse -> 0 .. (BucketCount - 1)] : Linked(pos)
      BY DEF ChainsLinked
    <3>2. \A s \in InUse : next[s] = r => Place(s) = k
      BY <1>3, <3>1 DEF Linked
    <3>3. Chain(k) = {s \in InUse : Place(s) = k}
      BY <1>3, ChainMembers
    <3> QED BY <3>2, <3>3
  <2>3. k = HashKey[addr[r]]
    BY DEF Place
  <2> HIDE DEF r, k, prev
  <2> QED BY <1>1, <2>1, <2>2, <2>3 DEF Unlink
<1> HIDE DEF r, k, last
<1>7. \A i \in 0 .. (count - 2) :
        /\ i \in 0 .. (count - 1) /\ i # count - 1
        /\ entries'[i] = IF i = sweep THEN last ELSE entries[i]
  BY <1>2, <1>3, <1>4 DEF TypeOK
<1>8. /\ addr'[r] = Null /\ \A s \in Record \ {r} : addr'[s] = addr[s]
      /\ entry'[r] = Null
      /\ \A s \in Record \ {r} : entry'[s] = IF s = last THEN sweep ELSE entry[s]
  BY <1>1, <1>3, <1>4 DEF TypeOK
<1>9. \A i \in 0 .. (count - 2) : i # sweep => entries[i] # r /\ entries[i] # last
  BY <1>2, <1>5, <1>7 DEF r, last
<1>10. InUse' = InUse \ {r}
  BY RemoveRecord DEF r
<1>11. TypeOK'
  <2>1. table' \in [Key -> Record \union {Null}]
    BY <1>3, <1>6 DEF TypeOK
  <2>2. next' \in [Record -> Record \union {Null}]
    BY <1>3, <1>6 DEF TypeOK
  <2>3. /\ addr' \in [Record -> Addr \union {Null}]
        /\ entries' \in [Record -> Record \union {Null}]
    BY <1>1, <1>3, <1>4 DEF TypeOK
  <2>4. entry' \in [Record -> Record \union {Null}]
    BY <1>2, <1>4 DEF TypeOK
  <2>5. /\ count' \in 0 .. BucketCount
        /\ freeList' \in Record \union {Null}
        /\ swept' \subseteq Record
    BY <1>1, <1>2, <1>3, <1>4, <1>6 DEF TypeOK
  <2> QED BY <1>1, <2>1, <2>2, <2>3, <2>4, <2>5 DEF TypeOK
<1>12. EntriesExact'
  <2>1. ASSUME NEW i \in 0 .. (count - 2)
        PROVE  entries'[i] # Null /\ entry'[entries'[i]] = i /\ addr'[entries'[i]] # Null
    <3>1. CASE i = sweep
      <4>1. entries'[i] = last /\ last # r
        BY <1>2, <1>3, <1>5, <1>7, <3>1 DEF last, r
      <4> QED BY <1>2, <1>3, <1>8, <3>1, <4>1 DEF EntriesExact, last
    <3>2. CASE i # sweep
      <4>1. entries'[i] = entries[i] /\ entries[i] \in InUse
        BY <1>7, <3>2, EntriesFacts
      <4>2. entries[i] \in Record \ {r} /\ entries[i] # last
        BY <1>2, <1>9, <3>2, <4>1
      <4> QED BY <1>7, <1>8, <4>1, <4>2, NullFacts DEF EntriesExact
    <3> QED BY <3>1, <3>2
  <2>2. \A s \in Record \ InUse' : addr'[s] = Null /\ entry'[s] = Null
    BY <1>3, <1>8, <1>10 DEF EntriesExact
  <2>3. count' - 1 = count - 2
    BY <1>2, <1>4
  <2> QED BY <2>1, <2>2, <2>3 DEF EntriesExact
<1>13. FreeNotInUse' /\ FreeShort'
  <2>1. freeList' \notin InUse' /\ freeList' # Null
    BY <1>3, <1>6, <1>10
  <2>2. \A s \in InUse' : s < firstFree'
    BY <1>1, <1>10 DEF FreeNotInUse
  <2>3. next'[r] = Null
    BY <1>3, <1>6
  <2>4. count' + 1 <= firstFree'
    BY <1>1, <1>2, <1>4 DEF FreeShort
  <2> QED BY <1>1, <1>3, <1>6, <2>1, <2>2, <2>3, <2>4 DEF FreeNotInUse, FreeShort
<1>14. ChainsLinked'
  <2>1. PICK pos \in [InUse -> 0 .. (BucketCount - 1)] : Linked(pos)
    BY DEF ChainsLinked
  <2>2. PICK q : q = [s \in InUse \ {r} |->
                        IF Place(s) = k /\ pos[s] > pos[r] THEN pos[s] - 1 ELSE pos[s]]
    OBVIOUS
  <2>3. \A s \in InUse : pos[s] \in Int /\ pos[s] >= 0 /\ pos[s] < BucketCount
    BY <1>2, <2>1
  <2>4. \A s \in InUse : s # r =>
          /\ Place(s) = k => pos[s] # pos[r]
          /\ Place(s) = k /\ pos[s] > pos[r] => q[s] = pos[s] - 1
          /\ Place(s) = k /\ pos[s] < pos[r] => q[s] = pos[s]
          /\ Place(s) # k => q[s] = pos[s]
          /\ HashKey[addr'[s]] = Place(s)
    <3>1. \A s \in InUse : s # r => (Place(s) = k => pos[s] # pos[r])
      BY <1>3, <2>1 DEF Linked, k
    <3>2. \A s \in InUse : s # r => HashKey[addr'[s]] = Place(s)
      BY <1>2, <1>8 DEF Place
    <3>3. \A s \in InUse : s # r =>
            q[s] = IF Place(s) = k /\ pos[s] > pos[r] THEN pos[s] - 1 ELSE pos[s]
      BY <2>2
    <3> QED BY <1>3, <2>3, <3>1, <3>2, <3>3
  <2>5. \A s \in InUse : s # r =>
          next'[s] = IF next[s] = r THEN next[r] ELSE next[s]
    BY <1>2, <1>6
  <2>6. \A m \in Key : table'[m] = IF m = k /\ table[k] = r THEN next[r] ELSE table[m]
    BY <1>6 DEF TypeOK
  <2>7. q \in [InUse' -> 0 .. (BucketCount - 1)]
    <3>1. \A s \in InUse : s # r => q[s] \in 0 .. (BucketCount - 1)
      BY <1>2, <1>3, <2>3, <2>4
    <3> QED BY <1>10, <2>2, <3>1
  <2>8. Place(r) = k
    BY DEF k
  <2>9. \A m \in Key : table'[m] # Null =>
          table'[m] \in InUse' /\ HashKey[addr'[table'[m]]] = m /\ q[table'[m]] = 0
    <3> TAKE m \in Key
    <3> HAVE table'[m] # Null
    <3>1. CASE m = k /\ table[k] = r
      <4>1. /\ table'[m] = next[r] /\ next[r] \in InUse
            /\ Place(next[r]) = k /\ pos[next[r]] = pos[r] + 1 /\ pos[r] = 0
        BY <1>3, <2>1, <2>6, <2>8, <3>1 DEF Linked
      <4> QED BY <1>3, <1>10, <2>3, <2>4, <3>1, <4>1
    <3>2. CASE ~ (m = k /\ table[k] = r)
      <4>1. /\ table'[m] = table[m] /\ table[m] \in InUse
            /\ Place(table[m]) = m /\ pos[table[m]] = 0
        BY <2>1, <2>6, <3>2 DEF Linked
      <4>2. table[m] # r
        BY <2>8, <3>2, <4>1
      <4> QED BY <1>3, <1>10, <2>3, <2>4, <4>1, <4>2
    <3> QED BY <3>1, <3>2
  <2>10. \A s \in InUse' : next'[s] # Null =>
           /\ next'[s] \in InUse'
           /\ HashKey[addr'[next'[s]]] = HashKey[addr'[s]]
           /\ q[next'[s]] = q[s] + 1
    <3> TAKE s \in InUse'
    <3> HAVE next'[s] # Null
    <3>0. s \in InUse /\ s # r
      BY <1>10
    <3>1. CASE next[s] = r
      <4>1. /\ next'[s] = next[r] /\ next[r] \in InUse
            /\ Place(next[r]) = k /\ pos[next[r]] = pos[r] + 1
            /\ Place(s) = k /\ pos[r] = pos[s] + 1
        BY <1>3, <2>1, <2>5, <2>8, <3>0, <3>1 DEF Linked
      <4>2. next[r] # r
        BY <1>3, <2>3, <4>1
      <4> QED BY <1>3, <1>10, <2>3, <2>4, <3>0, <4>1, <4>2
    <3>2. CASE next[s] # r
      <4>1. /\ next'[s] = next[s] /\ next[s] \in InUse
            /\ Place(next[s]) = Place(s) /\ pos[next[s]] = pos[s] + 1
        BY <2>1, <2>5, <3>0, <3>2 DEF Linked
      <4> QED BY <1>3, <1>10, <2>3, <2>4, <3>0, <3>2, <4>1
    <3> QED BY <3>1, <3>2
  <2>11. \A s \in InUse' : IF q[s] = 0 THEN table'[HashKey[addr'[s]]] = s
                           ELSE \E t \in InUse' : next'[t] = s
    <3> TAKE s \in InUse'
    <3>0. s \in InUse /\ s # r /\ Place(s) \in Key
      BY <1>10, EntriesFacts
    <3>1. CASE pos[s] = 0
      <4>1. table[Place(s)] = s
        BY <2>1, <3>0, <3>1 DEF Linked
      <4>2. q[s] = 0
        BY <1>3, <2>3, <2>4, <3>0, <3>1
      <4> QED BY <2>4, <2>6, <3>0, <4>1, <4>2
    <3>2. CASE pos[s] # 0 /\ q[s] = 0
      <4>1. Place(s) = k /\ pos[s] > pos[r] /\ pos[r] = 0 /\ pos[s] = 1
        BY <1>3, <2>3, <2>4, <3>0, <3>2
      <4>2. table[k] = r /\ next[r] # Null
        BY <1>3, <2>1, <2>8, <3>0, <4>1 DEF Linked
      <4>3. next[r] \in InUse /\ Place(next[r]) = k /\ pos[next[r]] = 1
        BY <1>3, <2>1, <2>8, <4>1, <4>2 DEF Linked
      <4>4. next[r] = s
        BY <2>1, <3>0, <4>1, <4>3 DEF Linked
      <4> QED BY <1>3, <2>4, <2>6, <3>0, <3>2, <4>1, <4>2, <4>4
    <3>3. CASE pos[s] # 0 /\ q[s] # 0
      <4>1. PICK t \in InUse : next[t] = s
        BY <2>1, <3>0, <3>3 DEF Linked
      <4>2. CASE t # r
        BY <1>10, <2>5, <3>0, <3>3, <4>1, <4>2
      <4>3. CASE t = r
        <5>1. Place(s) = k /\ pos[s] = pos[r] + 1
          BY <1>2, <2>1, <2>8, <3>0, <4>1, <4>3, NullFacts DEF Linked
        <5>2. pos[r] # 0
          BY <1>3, <2>3, <2>4, <3>0, <3>3, <5>1
        <5>3. PICK u \in InUse : next[u] = r
          BY <1>3, <2>1, <5>2 DEF Linked
        <5>4. u # r
          BY <1>3, <2>1, <2>3, <5>3 DEF Linked
        <5> QED BY <1>10, <2>5, <3>3, <4>1, <4>3, <5>3, <5>4
      <4> QED BY <4>2, <4>3
    <3> QED BY <3>1, <3>2, <3>3
  <2>12. \A s, t \in InUse' : HashKey[addr'[s]] = HashKey[addr'[t]] =>
           /\ q[s] = q[t] => s = t
           /\ q[s] < q[t] => next'[s] # Null
    <3> TAKE s, t \in InUse'
    <3> HAVE HashKey[addr'[s]] = HashKey[addr'[t]]
    <3>0. s \in InUse /\ s # r /\ t \in InUse /\ t # r
      BY <1>10
    <3>1. Place(s) = Place(t)
      BY <2>4, <3>0
    <3>2. /\ q[s] = q[t] => pos[s] = pos[t]
          /\ q[s] < q[t] => pos[s] < pos[t]
      BY <1>3, <2>3, <2>4, <3>0, <3>1
    <3>3. ASSUME q[s] < q[t], next[s] = r
          PROVE  next[r] # Null
      <4>1. Place(s) = k /\ pos[r] = pos[s] + 1
        BY <1>3, <2>1, <2>8, <3>0, <3>3 DEF Linked
      <4>2. pos[r] < pos[t]
        BY <1>3, <2>3, <2>4, <3>0, <3>1, <3>2, <3>3, <4>1
      <4> QED BY <1>3, <2>1, <2>8, <3>0, <3>1, <4>1, <4>2 DEF Linked
    <3>4. pos[s] = pos[t] => s = t
      BY <2>1, <3>0, <3>1 DEF Linked
    <3>5. pos[s] < pos[t] => next[s] # Null
      BY <2>1, <3>0, <3>1 DEF Linked
    <3> QED BY <2>5, <3>0, <3>2, <3>3, <3>4, <3>5
  <2>13. Linked(q)'
    BY <2>9, <2>10, <2>11, <2>12 DEF Linked, Place
  <2> QED BY <2>7, <2>13 DEF ChainsLinked
<1>15. OneRecord'
  BY <1>2, <1>8, <1>10 DEF OneRecord
<1>16. SweepSplit'
  <2>1. sweep <= count /\ Ahead \subseteq due /\ swept = due \ Ahead
    BY <1>1 DEF SweepSplit
  <2>2. r \in Ahead
    BY <1>2 DEF Ahead, r
  <2>3. Ahead' = Ahead \ {r}
    <3>1. Ahead' = {entries'[i] : i \in sweep .. (count - 2)}
      <4>1. (count - 1) - 1 = count - 2
        BY <1>2
      <4> QED BY <1>1, <1>4, <4>1 DEF Ahead
    <3>2. ASSUME NEW i \in sweep .. (count - 2)
          PROVE  entries'[i] \in Ahead \ {r}
      <4>1. i \in 0 .. (count - 2) /\ i \in sweep .. (count - 1)
            /\ count - 1 \in sweep .. (count - 1)
        BY <1>2
      <4>2. CASE i = sweep
        BY <1>2, <1>3, <1>7, <4>1, <4>2 DEF Ahead, last
      <4>3. CASE i # sweep
        BY <1>7, <1>9, <4>1, <4>3 DEF Ahead
      <4> QED BY <4>2, <4>3
    <3>3. ASSUME NEW s \in Ahead \ {r}
          PROVE  \E i \in sweep .. (count - 2) : entries'[i] = s
      <4>1. PICK i \in sweep .. (count - 1) : s = entries[i]
        BY DEF Ahead
      <4>2. CASE i = count - 1
        <5>1. s = last /\ sweep # count - 1
          BY <3>3, <4>1, <4>2 DEF last, r
        <5>2. sweep \in 0 .. (count - 2) /\ sweep \in sweep .. (count - 2)
          BY <1>2, <5>1
        <5> QED BY <1>7, <5>1, <5>2
      <4>3. CASE i # count - 1
        <5>1. i \in 0 .. (count - 2) /\ i \in sweep .. (count - 2) /\ i # sweep
          BY <1>2, <3>3, <4>1, <4>3 DEF r
        <5> QED BY <1>7, <4>1, <5>1
      <4> QED BY <4>2, <4>3
    <3> QED BY <3>1, <3>2, <3>3
  <2>4. sweep' = sweep /\ sweep' # Null /\ sweep' <= count'
    BY <1>1, <1>2, <1>4
  <2> QED BY <1>1, <2>1, <2>2, <2>3, <2>4 DEF SweepSplit
<1> QED BY <1>11, <1>12, <1>13, <1>14, <1>15, <1>16

\* An empty registry is consistent.
LEMMA InitStep == Init => RegistryInv
<1> SUFFICES ASSUME Init PROVE RegistryInv
  OBVIOUS
<1>1. BucketCount \in Nat /\ BucketCount > 0
  BY MapAssumption
<1>2. InUse = {}
  BY DEF Init, InUse
<1>3. TypeOK
  <2>1. /\ table \in [Key -> Record \union {Null}]
        /\ next \in [Record -> Record \union {Null}]
        /\ addr \in [Record -> Addr \union {Null}]
        /\ entry \in [Record -> Record \union {Null}]
        /\ entries \in [Record -> Record \union {Null}]
    BY DEF Init
  <2>2. /\ count \in 0 .. BucketCount /\ firstFree \in 0 .. BucketCount
        /\ freeList = Null /\ sweep = Null
        /\ swept = {} /\ due = {} /\ halted = FALSE
    BY <1>1 DEF Init
  <2> QED BY <2>1, <2>2 DEF TypeOK
<1>4. EntriesExact
  BY <1>2 DEF Init, EntriesExact
<1>5. FreeNotInUse /\ FreeShort /\ OneRecord /\ SweepSplit
  BY <1>1, <1>2 DEF Init, FreeNotInUse, FreeShort, OneRecord, SweepSplit
<1>6. ChainsLinked
  <2>1. PICK pos : pos = [r \in InUse |-> 0]
    OBVIOUS
  <2>2. pos \in [InUse -> 0 .. (BucketCount - 1)]
    BY <1>2, <2>1
  <2>3. Linked(pos)
    BY <1>2 DEF Init, Linked
  <2> QED BY <2>2, <2>3 DEF ChainsLinked
<1> QED BY <1>3, <1>4, <1>5, <1>6 DEF RegistryInv

\* What a step that leaves clients, chains and free list alone has to show.
LEMMA OnlySweep ==
  ASSUME RegistryInv,
         UNCHANGED <<table, next, addr, entry, entries, count, firstFree, freeList>>
  PROVE  /\ InUse' = InUse
         /\ EntriesExact' /\ FreeNotInUse' /\ FreeShort' /\ ChainsLinked' /\ OneRecord'
<1>1. InUse' = InUse
  BY DEF InUse
<1>2. PICK pos \in [InUse -> 0 .. (BucketCount - 1)] : Linked(pos)
  BY DEF RegistryInv, ChainsLinked
<1>3. Linked(pos)'
  BY <1>1, <1>2 DEF Linked, Place
<1>4. ChainsLinked'
  BY <1>1, <1>2, <1>3 DEF ChainsLinked
<1> QED
  BY <1>1, <1>4
     DEF RegistryInv, EntriesExact, FreeNotInUse, FreeShort, OneRecord

\* The rest of the sweep, and the end of the server, which leaves it all alone.
LEMMA OtherSteps ==
  ASSUME RegistryInv,
         \/ \E a \in Addr : ClientFull(a)
         \/ BeginSweep \/ SweepKeep \/ EndSweep \/ UNCHANGED vars
  PROVE  RegistryInv'
<1>1. /\ InUse' = InUse
      /\ EntriesExact' /\ FreeNotInUse' /\ FreeShort' /\ ChainsLinked' /\ OneRecord'
  BY OnlySweep DEF ClientFull, BeginSweep, SweepKeep, EndSweep, vars
<1>2. /\ count \in Nat /\ BucketCount \in Nat /\ count <= BucketCount
      /\ InUse \subseteq Record
  BY EntriesFacts, MapAssumption DEF RegistryInv
<1> SUFFICES TypeOK' /\ SweepSplit'
  BY <1>1 DEF RegistryInv
<1> USE DEF RegistryInv
<1>3. ASSUME NEW a \in Addr, ClientFull(a)
      PROVE  TypeOK' /\ SweepSplit'
  BY <1>3 DEF ClientFull, TypeOK, SweepSplit, Ahead
<1>4. CASE BeginSweep
  <2>1. Ahead' = InUse
    BY <1>4 DEF BeginSweep, Ahead, InUse
  <2>2. TypeOK'
    BY <1>2, <1>4 DEF BeginSweep, TypeOK
  <2>3. SweepSplit'
    BY <1>2, <1>4, <2>1, MapAssumption DEF BeginSweep, SweepSplit
  <2> QED BY <2>2, <2>3
<1>5. CASE SweepKeep
  <2>1. sweep \in 0 .. (count - 1) /\ sweep' = sweep + 1
    BY <1>2, <1>5, EntriesFacts, MapAssumption DEF SweepKeep, TypeOK
  <2>2. TypeOK'
    <3>1. entries[sweep] \in InUse
      BY <2>1, EntriesFacts
    <3> QED BY <1>2, <1>5, <2>1, <3>1 DEF SweepKeep, TypeOK
  <2>3. entries[sweep] \in Ahead /\ Ahead' = Ahead \ {entries[sweep]}
    <3>1. Ahead' = {entries[i] : i \in (sweep + 1) .. (count - 1)}
      BY <1>5 DEF SweepKeep, Ahead
    <3>2. \A i \in sweep .. (count - 1) :
            /\ i = sweep \/ i \in (sweep + 1) .. (count - 1)
            /\ i \in 0 .. (count - 1)
      BY <1>2, <2>1
    <3>3. \A i \in (sweep + 1) .. (count - 1) :
            /\ i # sweep
            /\ i \in 0 .. (count - 1)
            /\ i \in sweep .. (count - 1)
      BY <1>2, <2>1
    <3>4. sweep \in sweep .. (count - 1)
      BY <1>2, <2>1
    <3>5. \A i, j \in 0 .. (count - 1) : entries[i] = entries[j] => i = j
      BY EntriesFacts
    <3>6. entries[sweep] \in Ahead
      BY <3>4 DEF Ahead
    <3>7. \A s \in Ahead' : s \in Ahead /\ s # entries[sweep]
      BY <2>1, <3>1, <3>3, <3>5 DEF Ahead
    <3>8. \A s \in Ahead : s = entries[sweep] \/ s \in Ahead'
      BY <3>1, <3>2 DEF Ahead
    <3> QED BY <3>6, <3>7, <3>8
  <2>4. SweepSplit'
    <3>1. sweep # Null /\ sweep' # Null /\ sweep' <= count'
      BY <1>2, <1>5, <2>1, MapAssumption DEF SweepKeep
    <3> QED BY <1>5, <2>3, <3>1 DEF SweepKeep, SweepSplit
  <2> QED BY <2>2, <2>4
<1>6. CASE EndSweep
  BY <1>6 DEF EndSweep, TypeOK, SweepSplit
<1>7. CASE UNCHANGED vars
  BY <1>7 DEF vars, TypeOK, SweepSplit, Ahead
<1> QED BY <1>3, <1>4, <1>5, <1>6, <1>7

\* Every step keeps the registry consistent.
LEMMA NextStep == RegistryInv /\ [Next]_vars => RegistryInv'
<1> SUFFICES ASSUME RegistryInv, [Next]_vars PROVE RegistryInv'
  OBVIOUS
<1>1. CASE \E a \in Addr : ClientNew(a)
  BY <1>1, NewStep
<1>2. CASE SweepRemove
  BY <1>2, RemoveStep
<1>3. CASE \/ \E a \in Addr : ClientFull(a)
           \/ BeginSweep \/ SweepKeep \/ EndSweep \/ UNCHANGED vars
  BY <1>3, OtherSteps
<1> QED BY <1>1, <1>2, <1>3 DEF Next

-----------------------------------------------------------------------------
(***************************************************************************)
(* The theorems                                                            *)
(***************************************************************************)

\* After any order of arrivals, sweeps and removals (udp_server.cpp 105-250 and
\* 951-1034), entries, chains, free list and sweep are consistent.
THEOREM Consistent == Spec => []RegistryInv
<1>1. Init => RegistryInv
  BY InitStep
<1>2. RegistryInv /\ [Next]_vars => RegistryInv'
  BY NextStep
<1> QED BY <1>1, <1>2, PTL DEF Spec

\* Every variable of the registry keeps its type: no index leaves its array.
THEOREM TypesKept == Spec => []TypeOK
<1>1. RegistryInv => TypeOK
  BY DEF RegistryInv
<1> QED BY <1>1, Consistent, PTL

\* entries lists each record in use once, and the record knows where
\* (udp_server.cpp 181-185 and 224-238).
THEOREM EntriesAreExact == Spec => []EntriesExact
<1>1. RegistryInv => EntriesExact
  BY DEF RegistryInv
<1> QED BY <1>1, Consistent, PTL

\* Client() (udp_server.cpp 116-124) finds exactly the clients in use, each under
\* its address, and no address has two.
THEOREM ChainsAreExact == Spec => []ChainsExact
<1>1. RegistryInv => ChainsExact
  <2> SUFFICES ASSUME RegistryInv PROVE ChainsExact
    OBVIOUS
  <2>1. \A k \in Key : Chain(k) = {r \in InUse : Place(r) = k}
    BY ChainMembers DEF RegistryInv
  <2>2. \A r \in InUse : Place(r) \in Key
    BY EntriesFacts DEF RegistryInv
  <2> QED BY <2>1, <2>2 DEF RegistryInv, OneRecord, ChainsExact, Place
<1> QED BY <1>1, Consistent, PTL

\* No record that is handed out (udp_server.cpp 128-142) has a client already.
THEOREM FreeIsFree == Spec => []FreeNotInUse
<1>1. RegistryInv => FreeNotInUse
  BY DEF RegistryInv
<1> QED BY <1>1, Consistent, PTL

\* The Assert on the number of entries (udp_server.cpp 177) never fails.
THEOREM EntriesHaveRoom == Spec => []RoomForEntry
<1>1. RegistryInv => RoomForEntry
  <2> SUFFICES ASSUME RegistryInv PROVE count + 1 <= BucketCount
    BY DEF RoomForEntry
  <2>1. count \in Nat /\ firstFree \in Nat /\ BucketCount \in Nat
    BY MapAssumption DEF RegistryInv, TypeOK
  <2> QED BY <2>1 DEF RegistryInv, FreeShort
<1> QED BY <1>1, Consistent, PTL

\* A sweep (udp_server.cpp 951-1034) that has reached the end visited exactly the
\* clients there were when it began, whomever it removed.
THEOREM SweepsAreComplete == Spec => []SweepComplete
<1>1. RegistryInv => SweepComplete
  <2> SUFFICES ASSUME RegistryInv, sweep # Null, sweep >= count
               PROVE  swept = due
    BY DEF SweepComplete
  <2>1. count \in Nat /\ sweep \in Nat
    BY MapAssumption DEF RegistryInv, TypeOK
  <2>2. Ahead = {}
    BY <2>1 DEF Ahead
  <2> QED BY <2>2 DEF RegistryInv, SweepSplit
<1> QED BY <1>1, Consistent, PTL

\* The client that a sweep comes to was not visited by it before, although
\* removals move clients to places it goes to.
THEOREM SweepsVisitOnce == Spec => VisitOnce
<1> DEFINE New == sweep # Null /\ sweep < count => entries[sweep] \notin swept
<1>1. RegistryInv => New
  <2> SUFFICES ASSUME RegistryInv, sweep # Null, sweep < count
               PROVE  entries[sweep] \notin swept
    OBVIOUS
  <2>1. count \in Nat /\ sweep \in Nat
    BY MapAssumption DEF RegistryInv, TypeOK
  <2>2. entries[sweep] \in Ahead
    BY <2>1 DEF Ahead
  <2> QED BY <2>2 DEF RegistryInv, SweepSplit
<1> QED BY <1>1, Consistent, PTL DEF VisitOnce
===============================================================================

------------------------------- MODULE ClientMap -------------------------------
(***************************************************************************)
(* The server's registry of clients (struct hash_map): a hash table whose  *)
(* chains link client_info records, an array entries with a pointer to     *)
(* each record in use, and a list of records to use again.  The frame of   *)
(* the server looks a client up when a datagram arrives, and then sweeps   *)
(* entries to remove who was silent for 5 seconds and to send to who is    *)
(* due.                                                                    *)
(*                                                                         *)
(* A record is known by its place in bucket_list.  Null is the 0 pointer   *)
(* and the address of a record that is not in use.                         *)
(***************************************************************************)
EXTENDS Integers, FiniteSets

CONSTANTS
  Addr,         \* the addresses clients send from: pairs of IP and port
  BucketCount,  \* how many records bucket_list has: 192 in the code
  Key,          \* the places of the table: 256 in the code
  HashKey,      \* HashKey[a] is the place of address a
  Null

ASSUME MapAssumption ==
  /\ BucketCount \in Nat \ {0}
  /\ HashKey \in [Addr -> Key]
  /\ Null \notin Addr
  /\ Null \notin Int

Record == 0 .. (BucketCount - 1)

VARIABLES
  table,        \* the first record of each chain
  next,         \* client_info.next: the rest of a chain, or of the free list
  addr,         \* client_info.addr and port
  entry,        \* client_info.entry: its place in entries
  entries,      \* entries_begin
  count,        \* entries_count
  firstFree,    \* bucket_first_free: the first record never used
  freeList,     \* bucket_free_ll
  sweep,        \* entry_index of the sweep, or Null outside of it
  swept,        \* history: the records this sweep visited
  due,          \* history: the records in use when the sweep began
  halted        \* did an Assert end the server?

vars == <<table, next, addr, entry, entries, count, firstFree, freeList,
          sweep, swept, due, halted>>

TypeOK ==
  /\ table \in [Key -> Record \union {Null}]
  /\ next \in [Record -> Record \union {Null}]
  /\ addr \in [Record -> Addr \union {Null}]
  /\ entry \in [Record -> Record \union {Null}]
  /\ entries \in [Record -> Record \union {Null}]
  /\ count \in 0 .. BucketCount
  /\ firstFree \in 0 .. BucketCount
  /\ freeList \in Record \union {Null}
  /\ sweep \in (0 .. BucketCount) \union {Null}
  /\ swept \subseteq Record
  /\ due \subseteq Record
  /\ halted \in BOOLEAN

\* The memory of the arena is zero.
Init ==
  /\ table = [k \in Key |-> Null]
  /\ next = [r \in Record |-> Null]
  /\ addr = [r \in Record |-> Null]
  /\ entry = [r \in Record |-> Null]
  /\ entries = [i \in Record |-> Null]
  /\ count = 0
  /\ firstFree = 0
  /\ freeList = Null
  /\ sweep = Null
  /\ swept = {}
  /\ due = {}
  /\ halted = FALSE

\* The records in use.
InUse == {entries[i] : i \in 0 .. (count - 1)}

-----------------------------------------------------------------------------
(***************************************************************************)
(* Chains                                                                  *)
(***************************************************************************)

\* The chain of place k: its records in order, from 0, and then Null.
Walk(k) ==
  LET walk[n \in 0 .. BucketCount] ==
        IF n = 0 THEN table[k]
        ELSE IF walk[n - 1] = Null THEN Null ELSE next[walk[n - 1]]
  IN  walk

Chain(k) == {Walk(k)[n] : n \in 0 .. BucketCount} \ {Null}

Found(a) == {r \in Chain(HashKey[a]) : addr[r] = a}

\* The last link of the chain of place k is set to r.
LinkLast(k, r) ==
  LET last == {s \in Chain(k) : next[s] = Null}
  IN  /\ table' = IF last = {} THEN [table EXCEPT ![k] = r] ELSE table
      /\ next' = [s \in Record |-> IF s \in last THEN r
                                   ELSE IF s = r THEN Null ELSE next[s]]

-----------------------------------------------------------------------------
(***************************************************************************)
(* Client()                                                                *)
(***************************************************************************)

\* Mutants of Allocate: bucket_first_free counts the reused records too; the
\* free list keeps the record.
AllocateCountsReuse(r) ==
  /\ firstFree' = firstFree + 1
  /\ IF freeList # Null
     THEN r = freeList /\ freeList' = next[freeList]
     ELSE r = firstFree /\ UNCHANGED freeList
AllocateKeepsFree(r) ==
  IF freeList # Null
  THEN r = freeList /\ UNCHANGED <<freeList, firstFree>>
  ELSE r = firstFree /\ firstFree' = firstFree + 1 /\ UNCHANGED freeList

\* The new record r: the first of the free list, or else one never used.
Allocate(r) ==
  IF freeList # Null
  THEN r = freeList /\ freeList' = next[freeList] /\ UNCHANGED firstFree
  ELSE r = firstFree /\ firstFree' = firstFree + 1 /\ UNCHANGED freeList

\* Mutant of Exhausted: the last record is handed out too, and one more.
ExhaustedLate == freeList = Null /\ firstFree >= BucketCount

\* "not implemented, resize hash_table": the Assert comes after the count.
Exhausted == freeList = Null /\ firstFree + 1 >= BucketCount

(***************************************************************************)
(* A datagram from an address that has no record.  If it has one, Client() *)
(* returns it and changes nothing.                                         *)
(***************************************************************************)
ClientNew(a) ==
  /\ ~ halted
  /\ sweep = Null
  /\ Found(a) = {}
  /\ ~ Exhausted
  /\ BucketCount >= count + 1
  /\ \E r \in Record :
       /\ Allocate(r)
       /\ addr' = [addr EXCEPT ![r] = a]
       /\ entries' = [entries EXCEPT ![count] = r]
       /\ entry' = [entry EXCEPT ![r] = count]
       /\ count' = count + 1
       /\ LinkLast(HashKey[a], r)
  /\ UNCHANGED <<sweep, swept, due, halted>>

\* The Assert of line 140 fails; what the dead server had in memory is left as
\* it was.
ClientFull(a) ==
  /\ ~ halted
  /\ sweep = Null
  /\ Found(a) = {}
  /\ Exhausted
  /\ halted' = TRUE
  /\ UNCHANGED <<table, next, addr, entry, entries, count, firstFree,
                 freeList, sweep, swept, due>>

-----------------------------------------------------------------------------
(***************************************************************************)
(* The sweep and RemoveClient()                                            *)
(***************************************************************************)

BeginSweep ==
  /\ ~ halted
  /\ sweep = Null
  /\ sweep' = 0
  /\ due' = InUse
  /\ UNCHANGED <<table, next, addr, entry, entries, count, firstFree,
                 freeList, swept, halted>>

\* Mutant of Unlink: the head of the chain is replaced, wherever r is in it.
UnlinkHead(r) ==
  LET rest == IF freeList = Null THEN Null ELSE next[freeList]
  IN  /\ table' = [table EXCEPT ![HashKey[addr[r]]] = next[r]]
      /\ next' = [next EXCEPT ![r] = rest]
      /\ freeList' = r

\* The links of the chain of r without r.  The free list starts with r; its
\* rest is what followed its first record.
Unlink(r) ==
  LET k    == HashKey[addr[r]]
      prev == {s \in Chain(k) : next[s] = r}
      rest == IF freeList = Null THEN Null ELSE next[freeList]
  IN  /\ table' = IF table[k] = r THEN [table EXCEPT ![k] = next[r]] ELSE table
      /\ next' = [s \in Record |-> IF s = r THEN rest
                                   ELSE IF s \in prev THEN next[r] ELSE next[s]]
      /\ freeList' = r

\* Mutants of FreeEntry: the last entry does not move; it moves and its record
\* is not told.
FreeEntryUnmoved(r) ==
  /\ entry' = [entry EXCEPT ![r] = Null]
  /\ count' = count - 1
  /\ UNCHANGED entries
FreeEntryUntold(r) ==
  LET last == entries[count - 1]
  IN  /\ entries' = IF last = r THEN entries
                    ELSE [entries EXCEPT ![entry[r]] = last, ![count - 1] = Null]
      /\ entry' = [entry EXCEPT ![r] = Null]
      /\ count' = count - 1

\* The last entry moves to the place of r.
FreeEntry(r) ==
  LET last == entries[count - 1]
  IN  /\ entries' = IF last = r THEN entries
                    ELSE [entries EXCEPT ![entry[r]] = last, ![count - 1] = Null]
      /\ entry' = [s \in Record |-> IF s = r THEN Null
                                    ELSE IF s = last THEN entry[r] ELSE entry[s]]
      /\ count' = count - 1

\* Mutants of SweepRemove: entry_index is decremented once too often; it is not
\* decremented.
SweepRemoveBack ==
  /\ sweep # Null /\ sweep < count
  /\ LET r == entries[sweep]
     IN  /\ Unlink(r)
         /\ FreeEntry(r)
         /\ addr' = [addr EXCEPT ![r] = Null]
         /\ swept' = swept \union {r}
  /\ sweep' = IF sweep = 0 THEN 0 ELSE sweep - 1
  /\ UNCHANGED <<firstFree, due, halted>>
SweepRemoveSkips ==
  /\ sweep # Null /\ sweep < count
  /\ LET r == entries[sweep]
     IN  /\ Unlink(r)
         /\ FreeEntry(r)
         /\ addr' = [addr EXCEPT ![r] = Null]
         /\ swept' = swept \union {r}
  /\ sweep' = sweep + 1
  /\ UNCHANGED <<firstFree, due, halted>>

\* Silent for more than 5 seconds: the client is removed, and the place it had
\* is visited again.
SweepRemove ==
  /\ sweep # Null /\ sweep < count
  /\ LET r == entries[sweep]
     IN  /\ Unlink(r)
         /\ FreeEntry(r)
         /\ addr' = [addr EXCEPT ![r] = Null]
         /\ swept' = swept \union {r}
  /\ UNCHANGED <<firstFree, sweep, due, halted>>

\* Heard of in time: a packet is sent if one is due.
SweepKeep ==
  /\ sweep # Null /\ sweep < count
  /\ swept' = swept \union {entries[sweep]}
  /\ sweep' = sweep + 1
  /\ UNCHANGED <<table, next, addr, entry, entries, count, firstFree,
                 freeList, due, halted>>

EndSweep ==
  /\ sweep # Null /\ sweep >= count
  /\ sweep' = Null
  /\ swept' = {}
  /\ due' = {}
  /\ UNCHANGED <<table, next, addr, entry, entries, count, firstFree,
                 freeList, halted>>

Next ==
  \/ \E a \in Addr : ClientNew(a) \/ ClientFull(a)
  \/ BeginSweep \/ SweepRemove \/ SweepKeep \/ EndSweep

Spec == Init /\ [][Next]_vars

-----------------------------------------------------------------------------
(***************************************************************************)
(* Properties                                                              *)
(***************************************************************************)

\* entries lists the records in use without gap or repetition, and each of them
\* knows its place there, so that RemoveClient (224-238) frees the right one.
EntriesExact ==
  /\ \A i \in 0 .. (count - 1) :
       entries[i] # Null /\ entry[entries[i]] = i /\ addr[entries[i]] # Null
  /\ \A r \in Record \ InUse : addr[r] = Null /\ entry[r] = Null

\* The chains hold exactly the records in use, each in the chain of its address
\* and no two of one address: Client() (116-124) finds whoever is connected,
\* after any order of arrivals and removals, and gives nobody a second record.
ChainsExact ==
  /\ \A k \in Key : \A r \in Chain(k) : r \in InUse /\ HashKey[addr[r]] = k
  /\ \A r \in InUse : r \in Chain(HashKey[addr[r]])
  /\ \A r, s \in InUse : addr[r] = addr[s] => r = s

\* A record that will be handed out is not in use: neither the first of the
\* free list (128-132) nor one never used (135), so no two clients share one.
FreeNotInUse ==
  /\ freeList # Null => freeList \notin InUse
  /\ \A r \in InUse : r < firstFree

\* The Assert on bucket_count (177) never fails: the one on bucket_first_free
\* (140) is always before it, so no client is written past entries.
RoomForEntry == ~ halted => count + 1 <= BucketCount

\* A sweep reaches every client that was connected when it began, although
\* removals move entries under it (954-969).
SweepComplete == sweep # Null /\ sweep >= count => swept = due

\* A sweep visits no client twice: none gets two packets in a frame.
VisitOnce ==
  [][sweep # Null /\ sweep < count => entries[sweep] \notin swept]_vars

\* "not implemented, resize hash_table" (udp_server.cpp 140): the server gives
\* up only when all the records it can hand out are in use.
FullOnlyWhenFull == halted => count = BucketCount - 1

-----------------------------------------------------------------------------
(***************************************************************************)
(* The inductive invariant that ClientMapProofs proves.                    *)
(***************************************************************************)

\* The place of the table where record r is found.
Place(r) == HashKey[addr[r]]

\* pos numbers the records of every chain from its head, 0, to its end, the only
\* one without a next; the chains have all records in use and no others.
Linked(pos) ==
  /\ \A k \in Key : table[k] # Null =>
       table[k] \in InUse /\ Place(table[k]) = k /\ pos[table[k]] = 0
  /\ \A r \in InUse : next[r] # Null =>
       next[r] \in InUse /\ Place(next[r]) = Place(r) /\ pos[next[r]] = pos[r] + 1
  /\ \A r \in InUse : IF pos[r] = 0 THEN table[Place(r)] = r
                      ELSE \E s \in InUse : next[s] = r
  /\ \A r, s \in InUse : Place(r) = Place(s) =>
       /\ pos[r] = pos[s] => r = s
       /\ pos[r] < pos[s] => next[r] # Null

ChainsLinked == \E pos \in [InUse -> 0 .. (BucketCount - 1)] : Linked(pos)

\* No address has two records.
OneRecord == \A r, s \in InUse : addr[r] = addr[s] => r = s

\* The free list never has more than one record, since RemoveClient loses the
\* one that was in it; every record handed out, and none that was not, is in use,
\* free, or lost.
FreeShort ==
  /\ freeList # Null => freeList < firstFree /\ next[freeList] = Null
  /\ firstFree < BucketCount
  /\ count + (IF freeList = Null THEN 0 ELSE 1) <= firstFree

\* What a sweep still has to visit.
Ahead == {entries[i] : i \in sweep .. (count - 1)}

\* A sweep has visited the records that were in use when it began, but for those
\* ahead of it.
SweepSplit ==
  IF sweep = Null THEN swept = {} /\ due = {}
  ELSE sweep <= count /\ Ahead \subseteq due /\ swept = due \ Ahead

\* Entries, chains, free list and sweep are consistent.
RegistryInv ==
  /\ TypeOK
  /\ EntriesExact
  /\ FreeNotInUse
  /\ FreeShort
  /\ ChainsLinked
  /\ OneRecord
  /\ SweepSplit
===============================================================================

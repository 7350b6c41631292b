--------------------------- MODULE WorkQueueProofs ---------------------------
(***************************************************************************)
(* QueueInv is an inductive invariant of WorkQueue, for every number of    *)
(* threads, size of the ring and amount of work.  It has a part that holds *)
(* in every state, and one that holds until a thread is overtaken by a lap *)
(* of the ring.  The safety properties that the run checks follow from it. *)
(***************************************************************************)
EXTENDS WorkQueue, NatLemmas

-----------------------------------------------------------------------------
(***************************************************************************)
(* Facts                                                                   *)
(***************************************************************************)

\* The ranges of the counts, and who is a thread.
LEMMA QueueFacts ==
  ASSUME TypeOK
  PROVE  /\ Size \in Nat \ {0} /\ Size > 1 /\ MaxWork \in Nat
         /\ Main \in Thread /\ Main \notin Worker /\ Worker \subseteq Thread
         /\ Thread = Worker \union {Main}
         /\ added \in Nat /\ taken \in Nat
         /\ \A t \in Thread : number[t] \in Nat
         /\ Cardinality(Worker) \in Nat /\ Cardinality(Worker) > 0
<1>1. Cardinality(Worker) \in Nat /\ Cardinality(Worker) # 0
  BY QueueAssumption, FS_CardinalityType, FS_EmptySet
<1> QED BY <1>1, QueueAssumption DEF TypeOK, Thread

\* The threads that hold an entry are finitely many.
LEMMA HoldersFinite ==
  /\ IsFiniteSet(Holders)
  /\ Cardinality(Holders) \in Nat
  /\ Holders \subseteq Thread
<1>1. IsFiniteSet(Thread)
  <2>1. IsFiniteSet({Main})
    BY FS_Singleton
  <2> QED BY <2>1, FS_Union, QueueAssumption DEF Thread
<1>2. Holders \subseteq Thread
  BY DEF Holders
<1>3. IsFiniteSet(Holders)
  BY <1>1, <1>2, FS_Subset
<1> QED BY <1>2, <1>3, FS_CardinalityType

\* The index stays in the ring.
LEMMA NextInRing ==
  ASSUME NEW i \in Index
  PROVE  NextEntry(i) \in Index
<1>1. i + 1 \in Nat /\ Size \in Nat \ {0}
  BY QueueAssumption DEF Index
<1> QED BY <1>1, LapAndPlace DEF NextEntry, Index

\* Where thread t may be.
At(t) == IF t = Main THEN AtMain ELSE AtWorker

\* When a thread goes somewhere, the others stay.
LEMMA Moves ==
  ASSUME TypeOK, NEW t \in Thread, NEW x \in At(t), Goto(t, x)
  PROVE  /\ pc' \in [Thread -> AtWorker \union AtMain]
         /\ \A u \in Worker : pc'[u] \in AtWorker
         /\ pc'[Main] \in AtMain
         /\ pc'[t] = x
         /\ \A u \in Thread : u # t => pc'[u] = pc[u]
         /\ Holders' = IF x \in Holding THEN Holders \union {t} ELSE Holders \ {t}
<1>1. /\ pc' \in [Thread -> AtWorker \union AtMain]
      /\ pc'[t] = x
      /\ \A u \in Thread : u # t => pc'[u] = pc[u]
  BY DEF TypeOK, Goto, At
<1>2. /\ \A u \in Worker : pc'[u] \in AtWorker
      /\ pc'[Main] \in AtMain
  BY <1>1, QueueFacts DEF TypeOK, At
<1>3. Holders' = IF x \in Holding THEN Holders \union {t} ELSE Holders \ {t}
  BY <1>1 DEF Holders
<1> QED BY <1>1, <1>2, <1>3

\* What is left to show of a step for the part of the invariant that always holds:
\* a worker that moves on is awake, and does not take an empty ring for a full one;
\* Main leaves nobody asleep without a signal.
LEMMA AlwaysOn ==
  ASSUME AlwaysInv, TypeOK', NEW t \in Thread, NEW x \in At(t), Goto(t, x),
         \A u \in Thread : u # t => mine'[u] = mine[u],
         t # Main => /\ UNCHANGED <<write, added>>
                     /\ x # "wait"
                     /\ x = "compare" /\ read' # write => mine'[t] # write,
         t = Main => /\ x \in {"check", "fill", "publish"} => added' < MaxWork
                     /\ x = "exchange" => mine'[Main] # write'
                     /\ sem' = 0 /\ x \notin {"tally", "release"} /\ read' # write' =>
                          /\ sem = 0 /\ pc[Main] \notin {"tally", "release"}
                          /\ read # write /\ write' = write
  PROVE  AlwaysInv'
<1> USE DEF AlwaysInv
<1>1. /\ Main \in Thread /\ Main \notin Worker /\ Worker \subseteq Thread
      /\ Thread = Worker \union {Main}
  BY QueueFacts
<1>2. /\ pc'[t] = x
      /\ \A u \in Thread : u # t => pc'[u] = pc[u]
  BY Moves
<1>3. AddsInBound'
  BY <1>1, <1>2 DEF AddsInBound
<1>4. MainSeesEntry'
  BY <1>1, <1>2 DEF MainSeesEntry
<1>5. SomeoneLooks'
  <2> SUFFICES ASSUME sem' = 0, pc'[Main] \notin {"tally", "release"}, read' # write'
               PROVE  \E u \in Worker :
                        pc'[u] # "wait" /\ (pc'[u] = "compare" => mine'[u] # write')
    BY DEF SomeoneLooks
  <2>1. CASE t = Main
    <3>1. PICK u \in Worker :
            pc[u] # "wait" /\ (pc[u] = "compare" => mine[u] # write)
      BY <1>2, <2>1 DEF SomeoneLooks
    <3>2. pc'[u] = pc[u] /\ mine'[u] = mine[u] /\ write' = write
      BY <1>1, <1>2, <2>1
    <3> QED BY <3>1, <3>2
  <2>2. CASE t # Main
    <3>1. t \in Worker /\ write' = write
      BY <1>1, <2>2
    <3> QED BY <1>2, <2>2, <3>1
  <2> QED BY <2>1, <2>2
<1> QED BY <1>3, <1>4, <1>5

\* What a step keeps that leaves the ring alone and ends with thread t not holding an
\* entry, unless it drops one it has not run.
LEMMA Steady ==
  ASSUME TypeOK, UnlappedInv, NEW t \in Thread, NEW x \in At(t), Goto(t, x),
         x \notin Holding \union {"fill", "publish"},
         pc[t] \notin {"copy", "run", "fill", "publish"},
         UNCHANGED <<ring, ran>>,
         \A u \in Thread : u # t =>
           mine'[u] = mine[u] /\ entry'[u] = entry[u] /\ number'[u] = number[u]
  PROVE  RingPlaces' /\ RingContents' /\ EntryInHand' /\ RanTaken'
<1> USE DEF UnlappedInv
<1>1. /\ pc'[t] = x
      /\ \A u \in Thread : u # t => pc'[u] = pc[u]
      /\ Holders' = Holders \ {t}
  BY Moves
<1>2. Main \in Thread
  BY QueueFacts
<1>3. UNCHANGED <<entries, read, write, added, taken, ran>>
  BY DEF ring
<1>4. Written' = Written /\ Claimed' = Claimed
  BY <1>1, <1>2, <1>3 DEF Written, Claimed
<1>5. RingPlaces' /\ RingContents'
  BY <1>3, <1>4 DEF RingPlaces, RingContents
<1>6. \A u \in Thread : /\ pc'[u] \in {"copy", "run"} <=> pc[u] \in {"copy", "run"}
                        /\ pc[u] \in {"copy", "run"} => u # t /\ pc'[u] = pc[u]
  BY <1>1 DEF Holding
<1>7. EntryInHand'
  BY <1>1, <1>3, <1>4, <1>6, HoldersFinite DEF EntryInHand
<1>8. RanTaken'
  BY <1>3, <1>6 DEF RanTaken
<1> QED BY <1>5, <1>7, <1>8

-----------------------------------------------------------------------------
(***************************************************************************)
(* AddWorkToQueue and CompleteWorkQueue                                    *)
(***************************************************************************)

\* Main moves on without an entry.
LEMMA MainHolds ==
  ASSUME TypeOK, NEW x \in AtMain, Goto(Main, x), x \notin Holding, pc[Main] \notin Holding
  PROVE  /\ Holders' = Holders /\ pc'[Main] = x
         /\ \A u \in Worker : pc'[u] = pc[u]
<1>1. Main \in Thread /\ x \in At(Main) /\ Main \notin Worker /\ Worker \subseteq Thread
  BY QueueFacts DEF At
<1>2. Main \notin Holders
  BY DEF Holders
<1> QED BY <1>1, <1>2, Moves

\* What is left to show of a step of Main that only moves on.
LEMMA MainMoves ==
  ASSUME QueueInv, NEW x \in AtMain, Goto(Main, x),
         x \notin Taking \union Holding \union {"fill", "publish"},
         x = "check" => added < MaxWork,
         pc[Main] \notin Holding \union {"fill", "publish"},
         UNCHANGED <<ring, locals, history>>,
         toDo' \in Nat, done' \in Nat, sem' \in 0 .. Cardinality(Worker),
         UnlappedInv => CountersAgree',
         sem' = 0 => sem = 0,
         pc[Main] \in {"tally", "release"} => x = "release" \/ sem' # 0
  PROVE  QueueInv'
<1> USE DEF QueueInv, AlwaysInv
<1>1. Main \in Thread /\ x \in At(Main)
  BY QueueFacts DEF At
<1>2. /\ pc' \in [Thread -> AtWorker \union AtMain]
      /\ \A u \in Worker : pc'[u] \in AtWorker
      /\ pc'[Main] \in AtMain
  BY <1>1, Moves
<1>3. UNCHANGED <<entries, read, write, added, taken, mine, entry, number, ran, lapped>>
  BY DEF ring, locals, history
<1>4. TypeOK'
  BY <1>2, <1>3 DEF TypeOK
<1>5. AlwaysInv'
  BY <1>1, <1>3, <1>4, AlwaysOn DEF Taking
<1>6. ASSUME ~ lapped'
      PROVE  UnlappedInv'
  <2>1. UnlappedInv
    BY <1>3, <1>6
  <2>2. RingPlaces' /\ RingContents' /\ EntryInHand' /\ RanTaken'
    BY <1>1, <1>3, <2>1, Steady DEF Holding
  <2> QED BY <2>1, <2>2 DEF UnlappedInv
<1> QED BY <1>5, <1>6

\* The Assert lets Main go on only if a place stays free after the one it fills.
LEMMA RoomFacts ==
  ASSUME TypeOK, RingPlaces, pc[Main] = "check", HasRoom
  PROVE  added + 1 < taken + Size
<1>1. /\ Size \in Nat \ {0} /\ added \in Nat /\ taken \in Nat
      /\ taken <= added /\ added < taken + Size
      /\ read = taken % Size /\ write = added % Size
  BY QueueFacts DEF RingPlaces, Claimed
<1>2. (added + 1) % Size # taken % Size
  BY <1>1, NextPlace DEF HasRoom, NextEntry
<1>3. added + 1 # taken + Size
  BY <1>1, <1>2, LapLater
<1> QED BY <1>1, <1>3

\* Main begins to add work.
LEMMA BeginAddStep ==
  ASSUME QueueInv, BeginAdd
  PROVE  QueueInv'
<1> DEFINE x == "check"
<1>1. x \in AtMain
  BY DEF AtMain, Adding
<1>2. Holders' = Holders /\ pc'[Main] = x
  BY <1>1, MainHolds DEF BeginAdd, QueueInv, AlwaysInv, Holding
<1>3. UnlappedInv => CountersAgree'
  BY <1>2 DEF BeginAdd, UnlappedInv, CountersAgree, Uncounted, ring, counters
<1> QED
  BY <1>1, <1>3, MainMoves
     DEF BeginAdd, QueueInv, AlwaysInv, TypeOK, Taking, Holding, counters

\* Main checks for room, and goes on or crashes.  It goes on to a place that no thread
\* copies from, or a thread is overtaken.
LEMMA CheckRoomStep ==
  ASSUME QueueInv, CheckRoom
  PROVE  QueueInv'
<1> USE DEF QueueInv, AlwaysInv
<1> DEFINE x == IF HasRoom THEN "fill" ELSE "crashed"
<1>1. /\ Size \in Nat \ {0} /\ added \in Nat /\ taken \in Nat
      /\ Main \in Thread /\ Main \notin Worker /\ Thread = Worker \union {Main}
      /\ \A t \in Thread : number[t] \in Nat
  BY QueueFacts
<1>2. /\ pc[Main] = "check" /\ Goto(Main, x)
      /\ lapped' = (lapped \/ (HasRoom /\ \E t \in Worker : Copying(t, write)))
      /\ UNCHANGED <<entries, read, write, added, taken, toDo, done, sem, mine, entry,
                     number, ran>>
  BY DEF CheckRoom, ring, counters, locals
<1>3. x \in AtMain /\ x \in At(Main) /\ x \in {"fill", "crashed"}
  BY DEF AtMain, Adding, At
<1>4. /\ pc' \in [Thread -> AtWorker \union AtMain]
      /\ \A u \in Worker : pc'[u] \in AtWorker
      /\ pc'[Main] \in AtMain
  BY <1>1, <1>2, <1>3, Moves
<1>5. /\ Holders' = Holders /\ pc'[Main] = x
      /\ \A u \in Worker : pc'[u] = pc[u]
  BY <1>2, <1>3, MainHolds DEF Holding
<1> HIDE DEF x
<1>6. TypeOK'
  BY <1>2, <1>4 DEF TypeOK
<1>7. AlwaysInv'
  BY <1>1, <1>2, <1>3, <1>6, AlwaysOn DEF AddsInBound
<1>8. ASSUME ~ lapped'
      PROVE  UnlappedInv'
  <2>1. UnlappedInv
    BY <1>2, <1>8
  <2> USE DEF UnlappedInv
  <2>2. CountersAgree'
    BY <1>2, <1>3, <1>5, <2>1 DEF CountersAgree, Uncounted
  <2>3. CASE x = "crashed"
    <3>1. RingPlaces' /\ RingContents' /\ EntryInHand' /\ RanTaken'
      BY <1>1, <1>2, <1>3, <2>1, <2>3, Steady DEF Holding, ring
    <3> QED BY <2>2, <3>1
  <2>4. CASE x = "fill"
    <3>1. HasRoom /\ added + 1 < taken + Size
      BY <1>2, <2>1, <2>4, RoomFacts DEF x
    <3>2. Claimed' = added + 1 /\ Claimed = added /\ Written' = Written /\ Written = added
      BY <1>1, <1>2, <1>5, <2>4 DEF Claimed, Written
    <3>3. RingPlaces' /\ RingContents'
      BY <1>2, <2>1, <3>1, <3>2 DEF RingPlaces, RingContents
    <3>4. \A t \in Thread : pc'[t] \in {"copy", "run"} =>
            t \in Worker /\ pc'[t] = pc[t]
      BY <1>1, <1>3, <1>5
    <3>5. ASSUME NEW t \in Worker, pc[t] = "copy"
          PROVE  added + 1 <= number[t] + Size
      <4>1. mine[t] # write
        BY <1>2, <1>8, <3>1, <3>5 DEF Copying
      <4>2. /\ mine[t] = number[t] % Size /\ added <= number[t] + Size
            /\ write = added % Size
        BY <1>1, <2>1, <3>2, <3>5 DEF EntryInHand, RingPlaces
      <4>3. number[t] + Size # added
        BY <1>1, <4>1, <4>2, LapLater
      <4>4. number[t] + Size \in Nat
        BY <1>1
      <4> QED BY <1>1, <4>2, <4>3, <4>4
    <3>6. EntryInHand'
      BY <1>2, <1>5, <2>1, <3>2, <3>4, <3>5 DEF EntryInHand
    <3>7. RanTaken'
      <4>1. \A t \in Thread : pc'[t] \in {"copy", "run"} <=> pc[t] \in {"copy", "run"}
        BY <1>1, <1>2, <1>3, <1>5
      <4> QED BY <1>2, <2>1, <4>1 DEF RanTaken
    <3> QED BY <2>2, <3>3, <3>6, <3>7
  <2> QED BY <1>3, <2>3, <2>4
<1> QED BY <1>7, <1>8

\* Main counts the entry it published.
LEMMA TallyStep ==
  ASSUME QueueInv, Tally
  PROVE  QueueInv'
<1> DEFINE x == "release"
<1>1. x \in AtMain
  BY DEF AtMain, Adding
<1>2. Holders' = Holders /\ pc'[Main] = x
  BY <1>1, MainHolds DEF Tally, QueueInv, AlwaysInv, Holding
<1>3. UnlappedInv => CountersAgree'
  BY <1>2, HoldersFinite, QueueFacts
     DEF Tally, QueueInv, AlwaysInv, UnlappedInv, CountersAgree, Uncounted, ring, TypeOK
<1> QED
  BY <1>1, <1>3, MainMoves DEF Tally, QueueInv, AlwaysInv, TypeOK, Taking, Holding

\* Main signals the semaphore.
LEMMA ReleaseStep ==
  ASSUME QueueInv, Release
  PROVE  QueueInv'
<1> DEFINE x == "idle"
<1>1. x \in AtMain
  BY DEF AtMain
<1>2. Holders' = Holders /\ pc'[Main] = x
  BY <1>1, MainHolds DEF Release, QueueInv, AlwaysInv, Holding
<1>3. UnlappedInv => CountersAgree'
  BY <1>2 DEF Release, UnlappedInv, CountersAgree, Uncounted, ring
<1>4. sem' \in 0 .. Cardinality(Worker) /\ sem' # 0
  BY QueueFacts DEF Release, Signal, QueueInv, AlwaysInv, TypeOK
<1> QED
  BY <1>1, <1>3, <1>4, MainMoves
     DEF Release, QueueInv, AlwaysInv, TypeOK, Taking, Holding

\* Main begins to complete the queue.
LEMMA BeginCompleteStep ==
  ASSUME QueueInv, BeginComplete
  PROVE  QueueInv'
<1> DEFINE x == "complete"
<1>1. x \in AtMain
  BY DEF AtMain, Completing
<1>2. Holders' = Holders /\ pc'[Main] = x
  BY <1>1, MainHolds DEF BeginComplete, QueueInv, AlwaysInv, Holding
<1>3. UnlappedInv => CountersAgree'
  BY <1>2 DEF BeginComplete, UnlappedInv, CountersAgree, Uncounted, ring, counters
<1> QED
  BY <1>1, <1>3, MainMoves
     DEF BeginComplete, QueueInv, AlwaysInv, TypeOK, Taking, Holding, counters

\* Main compares the counters: they are equal only if nothing is in the ring or in
\* hand.
LEMMA TestDoneStep ==
  ASSUME QueueInv, TestDone
  PROVE  QueueInv'
<1> DEFINE x == IF AllDone THEN "clearToDo" ELSE "index"
<1>1. x \in AtMain
  BY DEF AtMain, Completing, DoWork
<1>2. Holders' = Holders /\ pc'[Main] = x
  BY <1>1, MainHolds DEF TestDone, QueueInv, AlwaysInv, Holding
<1>3. ASSUME UnlappedInv, AllDone
      PROVE  taken = added /\ Holders = {}
  <2>1. toDo + 0 = done + (added - taken) + Cardinality(Holders) /\ toDo = done
    BY <1>3 DEF TestDone, AllDone, UnlappedInv, CountersAgree, Uncounted
  <2>2. Cardinality(Holders) = 0 /\ taken = added
    BY <1>3, <2>1, HoldersFinite, QueueFacts
       DEF QueueInv, AlwaysInv, UnlappedInv, RingPlaces, TypeOK
  <2> QED BY <2>2, HoldersFinite, FS_EmptySet
<1>4. UnlappedInv => CountersAgree'
  BY <1>2, <1>3 DEF TestDone, UnlappedInv, CountersAgree, Uncounted, ring, counters
<1> QED
  BY <1>1, <1>4, MainMoves
     DEF TestDone, QueueInv, AlwaysInv, TypeOK, Taking, Holding, counters

\* Main resets ThingsToDo.
LEMMA ClearToDoStep ==
  ASSUME QueueInv, ClearToDo
  PROVE  QueueInv'
<1> DEFINE x == "clearDone"
<1>1. x \in AtMain
  BY DEF AtMain, Completing
<1>2. Holders' = Holders /\ pc'[Main] = x
  BY <1>1, MainHolds DEF ClearToDo, QueueInv, AlwaysInv, Holding
<1>3. UnlappedInv => CountersAgree'
  BY <1>2 DEF ClearToDo, UnlappedInv, CountersAgree, Uncounted, ring
<1> QED
  BY <1>1, <1>3, MainMoves DEF ClearToDo, QueueInv, AlwaysInv, TypeOK, Taking, Holding

\* Main resets ThingsDone, and the counters agree again.
LEMMA ClearDoneStep ==
  ASSUME QueueInv, ClearDone
  PROVE  QueueInv'
<1> DEFINE x == "idle"
<1>1. x \in AtMain
  BY DEF AtMain
<1>2. Holders' = Holders /\ pc'[Main] = x
  BY <1>1, MainHolds DEF ClearDone, QueueInv, AlwaysInv, Holding
<1>3. UnlappedInv => CountersAgree'
  BY <1>2, QueueFacts, FS_EmptySet
     DEF ClearDone, QueueInv, AlwaysInv, UnlappedInv, CountersAgree, Uncounted, ring
<1> QED
  BY <1>1, <1>3, MainMoves DEF ClearDone, QueueInv, AlwaysInv, TypeOK, Taking, Holding

\* Main writes an entry to the place it has checked.
LEMMA FillStep ==
  ASSUME QueueInv, Fill
  PROVE  QueueInv'
<1> USE DEF QueueInv, AlwaysInv
<1>1. /\ Size \in Nat \ {0} /\ added \in Nat /\ taken \in Nat
      /\ Main \in Thread /\ Main \notin Worker /\ Thread = Worker \union {Main}
  BY QueueFacts
<1>2. /\ pc[Main] = "fill"
      /\ entries' = [entries EXCEPT ![write] = added + 1]
      /\ Goto(Main, "publish")
      /\ UNCHANGED <<read, write, added, taken, toDo, done, sem, mine, entry, number, ran,
                     lapped>>
  BY DEF Fill, counters, locals, history
<1>3. "publish" \in AtMain /\ "publish" \in At(Main)
  BY DEF AtMain, Adding, At
<1>4. /\ pc' \in [Thread -> AtWorker \union AtMain]
      /\ \A u \in Worker : pc'[u] \in AtWorker
      /\ pc'[Main] \in AtMain
  BY <1>1, <1>2, <1>3, Moves
<1>5. /\ Holders' = Holders /\ pc'[Main] = "publish"
      /\ \A u \in Worker : pc'[u] = pc[u]
  BY <1>2, <1>3, MainHolds DEF Holding
<1>6. added + 1 \in Work /\ added < MaxWork
  BY <1>1, <1>2, QueueFacts DEF AddsInBound, Work
<1>7. TypeOK'
  <2>1. entries' \in [Index -> Work \union {0}]
    BY <1>2, <1>6 DEF TypeOK
  <2> QED BY <1>2, <1>4, <2>1 DEF TypeOK
<1>8. AlwaysInv'
  BY <1>1, <1>2, <1>3, <1>6, <1>7, AlwaysOn
<1>9. ASSUME ~ lapped'
      PROVE  UnlappedInv'
  <2> USE DEF UnlappedInv
  <2>1. UnlappedInv
    BY <1>2, <1>9
  <2>2. Claimed' = Claimed /\ Written' = added + 1 /\ Written = added
    BY <1>1, <1>2, <1>5 DEF Claimed, Written
  <2>3. RingPlaces'
    BY <1>2, <2>1, <2>2 DEF RingPlaces
  <2>4. /\ write = added % Size /\ write \in Index
        /\ entries'[write] = added + 1
        /\ \A i \in Index : i # write => entries'[i] = entries[i]
    BY <1>2, <2>1 DEF RingPlaces, TypeOK
  <2>5. ASSUME NEW n \in 0 .. added, added + 1 <= n + Size
        PROVE  entries'[n % Size] = n + 1
    <3>1. CASE n = added
      BY <2>4, <3>1
    <3>2. CASE n # added
      <4>1. n \in Nat /\ n <= added /\ added < n + Size /\ n \in 0 .. (added - 1)
        BY <1>1, <2>5, <3>2
      <4>2. n % Size # added % Size /\ n % Size \in Index
        BY <1>1, <3>2, <4>1, PlaceEqual, LapAndPlace DEF Index
      <4>3. entries[n % Size] = n + 1
        BY <1>1, <2>1, <2>2, <4>1 DEF RingContents
      <4> QED BY <2>4, <4>2, <4>3
    <3> QED BY <3>1, <3>2
  <2>6. RingContents'
    <3>1. (added + 1) - 1 = added
      BY <1>1
    <3> QED BY <1>2, <2>2, <2>5, <3>1 DEF RingContents
  <2>7. \A t \in Thread : pc'[t] \in {"copy", "run"} =>
          t \in Worker /\ pc'[t] = pc[t]
    BY <1>1, <1>5
  <2>8. EntryInHand'
    BY <1>2, <1>5, <2>1, <2>2, <2>7 DEF EntryInHand
  <2>9. RanTaken'
    <3>1. \A t \in Thread : pc'[t] \in {"copy", "run"} <=> pc[t] \in {"copy", "run"}
      BY <1>1, <1>2, <1>5
    <3> QED BY <1>2, <2>1, <3>1 DEF RanTaken
  <2>10. CountersAgree'
    BY <1>2, <1>5, <2>1 DEF CountersAgree, Uncounted
  <2> QED BY <2>3, <2>6, <2>8, <2>9, <2>10
<1> QED BY <1>8, <1>9

\* Main publishes the entry it wrote.
LEMMA PublishStep ==
  ASSUME QueueInv, Publish
  PROVE  QueueInv'
<1> USE DEF QueueInv, AlwaysInv
<1>1. /\ Size \in Nat \ {0} /\ added \in Nat /\ taken \in Nat /\ MaxWork \in Nat
      /\ Main \in Thread /\ Main \notin Worker /\ Thread = Worker \union {Main}
  BY QueueFacts
<1>2. /\ pc[Main] = "publish"
      /\ write' = NextEntry(write)
      /\ added' = added + 1
      /\ Goto(Main, "tally")
      /\ UNCHANGED <<entries, read, taken, toDo, done, sem, mine, entry, number, ran,
                     lapped>>
  BY DEF Publish, counters, locals, history
<1>3. "tally" \in AtMain /\ "tally" \in At(Main)
  BY DEF AtMain, Adding, At
<1>4. /\ pc' \in [Thread -> AtWorker \union AtMain]
      /\ \A u \in Worker : pc'[u] \in AtWorker
      /\ pc'[Main] \in AtMain
  BY <1>1, <1>2, <1>3, Moves
<1>5. /\ Holders' = Holders /\ pc'[Main] = "tally"
      /\ \A u \in Worker : pc'[u] = pc[u]
  BY <1>2, <1>3, MainHolds DEF Holding
<1>6. TypeOK'
  <2>1. write' \in Index
    BY <1>2, NextInRing DEF TypeOK
  <2>2. added' \in 0 .. MaxWork
    BY <1>1, <1>2 DEF AddsInBound
  <2> QED BY <1>2, <1>4, <2>1, <2>2 DEF TypeOK
<1>7. AlwaysInv'
  BY <1>1, <1>2, <1>3, <1>6, AlwaysOn
<1>8. ASSUME ~ lapped'
      PROVE  UnlappedInv'
  <2> USE DEF UnlappedInv
  <2>1. UnlappedInv
    BY <1>2, <1>8
  <2>2. Claimed' = Claimed /\ Written' = Written /\ Claimed = added + 1
    BY <1>1, <1>2, <1>5 DEF Claimed, Written
  <2>3. RingPlaces'
    <3>1. write' = (added + 1) % Size
      BY <1>1, <1>2, <2>1, NextPlace DEF RingPlaces, NextEntry
    <3> QED BY <1>1, <1>2, <2>1, <2>2, <3>1 DEF RingPlaces
  <2>4. RingContents'
    BY <1>2, <2>1, <2>2 DEF RingContents
  <2>5. \A t \in Thread : pc'[t] \in {"copy", "run"} =>
          t \in Worker /\ pc'[t] = pc[t]
    BY <1>1, <1>5
  <2>6. EntryInHand'
    BY <1>2, <1>5, <2>1, <2>2, <2>5 DEF EntryInHand
  <2>7. RanTaken'
    <3>1. \A t \in Thread : pc'[t] \in {"copy", "run"} <=> pc[t] \in {"copy", "run"}
      BY <1>1, <1>2, <1>5
    <3> QED BY <1>2, <2>1, <3>1 DEF RanTaken
  <2>8. CountersAgree'
    BY <1>1, <1>2, <1>5, <2>1, HoldersFinite DEF CountersAgree, Uncounted, TypeOK
  <2> QED BY <2>3, <2>4, <2>6, <2>7, <2>8
<1> QED BY <1>7, <1>8

-----------------------------------------------------------------------------
(***************************************************************************)
(* DoWorkOnQueue and the semaphore                                         *)
(***************************************************************************)

\* A thread reads CurrentRead.
LEMMA ReadIndexStep ==
  ASSUME QueueInv, NEW t \in Thread, ReadIndex(t)
  PROVE  QueueInv'
<1> USE DEF QueueInv, AlwaysInv
<1>1. Main \in Thread /\ Main \notin Worker /\ Worker \subseteq Thread
  BY QueueFacts
<1>2. /\ pc[t] = "index"
      /\ mine' = [mine EXCEPT ![t] = read]
      /\ number' = [number EXCEPT ![t] = taken]
      /\ Goto(t, "compare")
      /\ UNCHANGED <<entries, read, write, added, taken, toDo, done, sem, entry, ran,
                     lapped>>
  BY DEF ReadIndex, ring, counters, history
<1>3. "compare" \in At(t)
  BY DEF At, AtMain, AtWorker, DoWork, Taking
<1>4. /\ pc' \in [Thread -> AtWorker \union AtMain]
      /\ \A u \in Worker : pc'[u] \in AtWorker
      /\ pc'[Main] \in AtMain
      /\ pc'[t] = "compare"
      /\ \A u \in Thread : u # t => pc'[u] = pc[u]
      /\ Holders' = Holders
  BY <1>2, <1>3, Moves DEF Holding, Holders
<1>5. TypeOK'
  <2>1. mine' \in [Thread -> Index]
    BY <1>2 DEF TypeOK
  <2>2. number' \in [Thread -> Nat]
    BY <1>2 DEF TypeOK
  <2> QED BY <1>2, <1>4, <2>1, <2>2 DEF TypeOK
<1>6. /\ mine'[t] = read
      /\ \A u \in Thread : u # t => mine'[u] = mine[u] /\ number'[u] = number[u]
  BY <1>2 DEF TypeOK
<1>7. AlwaysInv'
  BY <1>2, <1>3, <1>5, <1>6, AlwaysOn
<1>8. ASSUME ~ lapped'
      PROVE  UnlappedInv'
  <2>1. UnlappedInv
    BY <1>2, <1>8
  <2>2. RingPlaces' /\ RingContents' /\ EntryInHand' /\ RanTaken'
    BY <1>2, <1>3, <1>6, <2>1, Steady DEF Holding, ring
  <2>3. pc'[Main] = pc[Main] \/ (pc[Main] = "index" /\ pc'[Main] = "compare")
    BY <1>1, <1>2, <1>4
  <2>4. CountersAgree'
    BY <1>2, <1>4, <2>1, <2>3 DEF UnlappedInv, CountersAgree, Uncounted
  <2> QED BY <2>2, <2>4 DEF UnlappedInv
<1> QED BY <1>7, <1>8

\* The locals of a thread that returns are cleared.
LEMMA Returns ==
  ASSUME TypeOK, NEW t \in Thread, NEW x, Return(t, x)
  PROVE  /\ Goto(t, x)
         /\ mine' \in [Thread -> Index]
         /\ entry' \in [Thread -> Work \union {0}]
         /\ number' \in [Thread -> Nat]
         /\ \A u \in Thread : u # t =>
              mine'[u] = mine[u] /\ entry'[u] = entry[u] /\ number'[u] = number[u]
<1>1. 0 \in Index
  BY QueueAssumption DEF Index
<1> QED BY <1>1 DEF Return, TypeOK

\* A thread compares its index with CurrentWrite: if they are equal, a worker goes to
\* sleep, which was not one to count on.
LEMMA CompareWriteStep ==
  ASSUME QueueInv, NEW t \in Thread, CompareWrite(t)
  PROVE  QueueInv'
<1> USE DEF QueueInv, AlwaysInv
<1>1. /\ Main \in Thread /\ Main \notin Worker /\ Worker \subseteq Thread
      /\ Thread = Worker \union {Main}
  BY QueueFacts
<1> DEFINE x == IF mine[t] # write THEN "exchange" ELSE Asleep(t)
<1>2. /\ pc[t] = "compare"
      /\ UNCHANGED <<entries, read, write, added, taken, toDo, done, sem, ran, lapped>>
  BY DEF CompareWrite, ring, counters, history
<1>3. /\ x \in At(t)
      /\ x \in {"exchange", "complete", "wait"}
      /\ mine[t] # write <=> x = "exchange"
      /\ x = "wait" => t # Main
  BY DEF Asleep, At, AtMain, AtWorker, DoWork, Completing, Taking
<1>4. /\ Goto(t, x)
      /\ mine' \in [Thread -> Index]
      /\ entry' \in [Thread -> Work \union {0}]
      /\ number' \in [Thread -> Nat]
      /\ \A u \in Thread : u # t =>
           mine'[u] = mine[u] /\ entry'[u] = entry[u] /\ number'[u] = number[u]
      /\ x = "exchange" => mine' = mine
  <2>1. CASE mine[t] # write
    BY <2>1 DEF CompareWrite, locals, TypeOK
  <2>2. CASE mine[t] = write
    <3>1. Return(t, Asleep(t))
      BY <2>2 DEF CompareWrite
    <3> QED BY <2>2, <3>1, <1>3, Returns
  <2> QED BY <2>1, <2>2
<1> HIDE DEF x
<1>5. /\ pc' \in [Thread -> AtWorker \union AtMain]
      /\ \A u \in Worker : pc'[u] \in AtWorker
      /\ pc'[Main] \in AtMain
      /\ pc'[t] = x
      /\ \A u \in Thread : u # t => pc'[u] = pc[u]
      /\ Holders' = Holders
  BY <1>2, <1>3, <1>4, Moves DEF Holding, Holders
<1>6. TypeOK'
  BY <1>2, <1>4, <1>5 DEF TypeOK
<1>7. AlwaysInv'
  <2>1. CASE x # "wait"
    BY <1>2, <1>3, <1>4, <1>6, <2>1, AlwaysOn
  <2>2. CASE x = "wait"
    <3>1. AddsInBound' /\ MainSeesEntry' /\ pc'[Main] = pc[Main]
      BY <1>1, <1>2, <1>3, <1>4, <1>5, <2>2 DEF AddsInBound, MainSeesEntry
    <3>2. SomeoneLooks'
      <4> SUFFICES ASSUME sem = 0, pc[Main] \notin {"tally", "release"}, read # write
                   PROVE  \E u \in Worker :
                            pc'[u] # "wait" /\ (pc'[u] = "compare" => mine'[u] # write)
        BY <1>2, <3>1 DEF SomeoneLooks
      <4>1. PICK u \in Worker : pc[u] # "wait" /\ (pc[u] = "compare" => mine[u] # write)
        BY DEF SomeoneLooks
      <4>2. u # t
        BY <1>2, <1>3, <2>2, <4>1
      <4> QED BY <1>1, <1>4, <1>5, <4>1, <4>2
    <3> QED BY <1>6, <3>1, <3>2
  <2> QED BY <2>1, <2>2
<1>8. ASSUME ~ lapped'
      PROVE  UnlappedInv'
  <2>1. UnlappedInv
    BY <1>2, <1>8
  <2>2. RingPlaces' /\ RingContents' /\ EntryInHand' /\ RanTaken'
    BY <1>2, <1>3, <1>4, <2>1, Steady DEF Holding, ring
  <2>3. pc'[Main] = pc[Main] \/
        (pc[Main] = "compare" /\ pc'[Main] \in {"exchange", "complete", "wait"})
    BY <1>1, <1>2, <1>3, <1>5
  <2>4. CountersAgree'
    BY <1>2, <1>5, <2>1, <2>3 DEF UnlappedInv, CountersAgree, Uncounted
  <2> QED BY <2>2, <2>4 DEF UnlappedInv
<1> QED BY <1>7, <1>8

\* A worker that was signalled looks for work again.
LEMMA WakeStep ==
  ASSUME QueueInv, NEW t \in Worker, Wake(t)
  PROVE  QueueInv'
<1> USE DEF QueueInv, AlwaysInv
<1>1. t \in Thread /\ t # Main /\ Main \in Thread
  BY QueueFacts
<1>2. /\ pc[t] = "wait" /\ sem > 0 /\ sem' = sem - 1
      /\ Goto(t, "index")
      /\ UNCHANGED <<entries, read, write, added, taken, toDo, done, mine, entry, number,
                     ran, lapped>>
  BY DEF Wake, ring, locals, history
<1>3. "index" \in At(t)
  BY <1>1 DEF At, AtWorker, DoWork
<1>4. /\ pc' \in [Thread -> AtWorker \union AtMain]
      /\ \A u \in Worker : pc'[u] \in AtWorker
      /\ pc'[Main] = pc[Main] /\ pc'[Main] \in AtMain
      /\ Holders' = Holders
  BY <1>1, <1>2, <1>3, Moves DEF Holding, Holders
<1>5. TypeOK'
  <2>1. sem' \in 0 .. Cardinality(Worker)
    BY <1>2, QueueFacts DEF TypeOK
  <2> QED BY <1>2, <1>4, <2>1 DEF TypeOK
<1>6. AlwaysInv'
  BY <1>1, <1>2, <1>3, <1>5, AlwaysOn
<1>7. ASSUME ~ lapped'
      PROVE  UnlappedInv'
  <2>1. UnlappedInv
    BY <1>2, <1>7
  <2>2. RingPlaces' /\ RingContents' /\ EntryInHand' /\ RanTaken'
    BY <1>1, <1>2, <1>3, <2>1, Steady DEF Holding, ring
  <2>3. CountersAgree'
    BY <1>2, <1>4, <2>1 DEF UnlappedInv, CountersAgree, Uncounted
  <2> QED BY <2>2, <2>3 DEF UnlappedInv
<1> QED BY <1>6, <1>7

\* An entry that was run is counted, with all others in hand still in hand.
LEMMA CountDoneStep ==
  ASSUME QueueInv, NEW t \in Thread, CountDone(t)
  PROVE  QueueInv'
<1> USE DEF QueueInv, AlwaysInv
<1>1. /\ added \in Nat /\ taken \in Nat
      /\ Main \in Thread /\ Main \notin Worker /\ Worker \subseteq Thread
      /\ toDo \in Nat /\ done \in Nat
  BY QueueFacts DEF TypeOK
<1> DEFINE x == Again(t)
<1>2. /\ pc[t] = "count" /\ done' = done + 1
      /\ Return(t, x)
      /\ UNCHANGED <<entries, read, write, added, taken, toDo, sem, ran, lapped>>
  BY DEF CountDone, ring, history
<1>3. x \in At(t) /\ x \in {"complete", "index"}
  BY DEF Again, At, AtMain, AtWorker, Completing, DoWork
<1> HIDE DEF x
<1>4. /\ Goto(t, x)
      /\ mine' \in [Thread -> Index]
      /\ entry' \in [Thread -> Work \union {0}]
      /\ number' \in [Thread -> Nat]
      /\ \A u \in Thread : u # t =>
           mine'[u] = mine[u] /\ entry'[u] = entry[u] /\ number'[u] = number[u]
  BY <1>2, Returns
<1>5. /\ pc' \in [Thread -> AtWorker \union AtMain]
      /\ \A u \in Worker : pc'[u] \in AtWorker
      /\ pc'[Main] \in AtMain
      /\ pc'[t] = x
      /\ \A u \in Thread : u # t => pc'[u] = pc[u]
      /\ Holders' = Holders \ {t}
  BY <1>3, <1>4, Moves DEF Holding
<1>6. TypeOK'
  <2>1. done' \in Nat
    BY <1>1, <1>2
  <2> QED BY <1>2, <1>4, <1>5, <2>1 DEF TypeOK
<1>7. AlwaysInv'
  BY <1>2, <1>3, <1>4, <1>6, AlwaysOn
<1>8. ASSUME ~ lapped'
      PROVE  UnlappedInv'
  <2> USE DEF UnlappedInv
  <2>1. UnlappedInv
    BY <1>2, <1>8
  <2>2. RingPlaces' /\ RingContents' /\ EntryInHand' /\ RanTaken'
    BY <1>2, <1>3, <1>4, <2>1, Steady DEF Holding, ring
  <2>3. t \in Holders /\ Cardinality(Holders') = Cardinality(Holders) - 1
    <3>1. t \in Holders
      BY <1>2 DEF Holders, Holding
    <3> QED BY <1>5, <3>1, HoldersFinite, FS_RemoveElement
  <2>4. Uncounted' = Uncounted /\ pc[Main] \notin {"clearToDo", "clearDone"}
        /\ pc'[Main] \notin {"clearToDo", "clearDone"}
    <3>1. pc'[Main] = pc[Main] \/ (pc'[Main] \in {"complete", "index"} /\ pc[Main] = "count")
      BY <1>1, <1>2, <1>3, <1>5
    <3>2. pc[Main] \notin {"clearToDo", "clearDone"}
      BY <2>1, <2>3 DEF CountersAgree
    <3> QED BY <3>1, <3>2 DEF Uncounted
  <2>5. toDo + Uncounted = done + (added - taken) + Cardinality(Holders)
    BY <2>1, <2>4 DEF CountersAgree
  <2>6. Uncounted \in Nat /\ Cardinality(Holders) \in Nat
    BY HoldersFinite DEF Uncounted
  <2>7. toDo + Uncounted = (done + 1) + (added - taken) + (Cardinality(Holders) - 1)
    BY <1>1, <2>5, <2>6
  <2>8. CountersAgree'
    BY <1>2, <2>3, <2>4, <2>7 DEF CountersAgree
  <2> QED BY <2>2, <2>8
<1> QED BY <1>7, <1>8

\* A thread takes the entry at its index, which is the next one to take unless it was
\* overtaken, or another thread was faster.
LEMMA ExchangeStep ==
  ASSUME QueueInv, NEW t \in Thread, Exchange(t)
  PROVE  QueueInv'
<1> USE DEF QueueInv, AlwaysInv
<1>1. /\ Size \in Nat \ {0} /\ added \in Nat /\ taken \in Nat
      /\ Main \in Thread /\ Main \notin Worker /\ Worker \subseteq Thread
  BY QueueFacts
<1>2. /\ pc[t] = "exchange"
      /\ UNCHANGED <<entries, write, added, toDo, done, sem, ran>>
  BY DEF Exchange, counters
<1>3. t \notin Holders
  BY <1>2 DEF Holders, Holding
<1>4. CASE ExchangeMatches(mine[t])
  <2>1. /\ read = mine[t] /\ read' = NextEntry(mine[t])
        /\ taken' = taken + 1
        /\ number' = [number EXCEPT ![t] = taken]
        /\ lapped' = (lapped \/ mine[t] = write)
        /\ Goto(t, "copy")
        /\ UNCHANGED <<mine, entry>>
    BY <1>4 DEF Exchange, ExchangeMatches
  <2>2. "copy" \in At(t)
    BY DEF At, AtMain, AtWorker, DoWork, Taking
  <2>3. /\ pc' \in [Thread -> AtWorker \union AtMain]
        /\ \A u \in Worker : pc'[u] \in AtWorker
        /\ pc'[Main] \in AtMain
        /\ pc'[t] = "copy"
        /\ \A u \in Thread : u # t => pc'[u] = pc[u]
        /\ Holders' = Holders \union {t}
    BY <2>1, <2>2, Moves DEF Holding
  <2>4. TypeOK'
    <3>1. read' \in Index
      BY <2>1, NextInRing DEF TypeOK
    <3>2. number' \in [Thread -> Nat] /\ taken' \in Nat /\ lapped' \in BOOLEAN
      BY <1>1, <2>1 DEF TypeOK
    <3> QED BY <1>2, <2>1, <2>3, <3>1, <3>2 DEF TypeOK
  <2>5. AlwaysInv'
    <3>1. t = Main => read # write /\ pc[Main] \notin {"tally", "release"}
      BY <1>2, <2>1 DEF MainSeesEntry
    <3> QED BY <1>2, <2>1, <2>2, <2>4, <3>1, AlwaysOn
  <2>6. ASSUME ~ lapped'
        PROVE  UnlappedInv'
    <3> USE DEF UnlappedInv
    <3>1. UnlappedInv /\ mine[t] # write
      BY <2>1, <2>6
    <3>2. /\ taken < added /\ Claimed < taken + Size
          /\ read = taken % Size /\ write = added % Size
      BY <1>1, <2>1, <3>1 DEF RingPlaces
    <3>3. pc'[Main] = pc[Main] \/ (pc'[Main] = "copy" /\ pc[Main] = "exchange")
      BY <1>1, <1>2, <2>3
    <3>4. Claimed' = Claimed /\ Written' = Written /\ Claimed \in Nat
      BY <1>1, <1>2, <3>3 DEF Claimed, Written
    <3>5. RingPlaces'
      <4>1. read' = (taken + 1) % Size
        BY <1>1, <2>1, <3>2, NextPlace DEF NextEntry
      <4> QED BY <1>1, <1>2, <2>1, <3>2, <3>4, <4>1 DEF RingPlaces
    <3>6. RingContents'
      BY <1>2, <3>1, <3>4 DEF RingContents
    <3>7. /\ number'[t] = taken /\ mine'[t] = taken % Size
          /\ \A u \in Thread : u # t => number'[u] = number[u]
          /\ \A u \in Holders : number[u] < taken /\ u # t /\ u \in Thread
          /\ \A u \in Thread : number[u] \in Nat
      BY <1>3, <2>1, <3>1, <3>2, HoldersFinite, QueueFacts DEF EntryInHand, TypeOK
    <3>8. EntryInHand'
      <4>1. \A u \in Holders' : number'[u] < taken + 1
        BY <1>1, <2>3, <3>7
      <4>2. \A u \in Thread : pc'[u] = "copy" =>
              mine'[u] = number'[u] % Size /\ Claimed <= number'[u] + Size
        BY <1>1, <2>1, <2>3, <3>1, <3>2, <3>4, <3>7 DEF EntryInHand
      <4>3. \A u \in Thread : pc'[u] = "run" => entry'[u] = number'[u] + 1
        BY <2>1, <2>3, <3>1, <3>7 DEF EntryInHand
      <4>4. \A r, u \in Holders' : number'[r] = number'[u] => r = u
        <5> SUFFICES ASSUME NEW r \in Holders', NEW u \in Holders', number'[r] = number'[u],
                            r # u
                     PROVE  FALSE
          OBVIOUS
        <5>1. CASE r # t /\ u # t
          BY <2>3, <3>1, <3>7, <5>1 DEF EntryInHand
        <5>2. CASE r = t \/ u = t
          BY <1>1, <2>3, <3>7, <5>2
        <5> QED BY <5>1, <5>2
      <4> QED BY <2>1, <3>4, <4>1, <4>2, <4>3, <4>4 DEF EntryInHand
    <3>9. RanTaken'
      <4> SUFFICES ASSUME NEW w \in Work
                   PROVE  ran[w] = IF w <= taken + 1 /\ \A u \in Thread :
                                        pc'[u] \in {"copy", "run"} => number'[u] + 1 # w
                                   THEN 1 ELSE 0
        BY <1>2, <2>1 DEF RanTaken
      <4>1. w \in Int
        BY DEF Work
      <4>2. \A u \in Thread : u # t =>
              (pc'[u] \in {"copy", "run"} <=> pc[u] \in {"copy", "run"})
        BY <2>3
      <4>3. pc[t] \notin {"copy", "run"} /\ pc'[t] \in {"copy", "run"}
        BY <1>2, <2>3
      <4>4. CASE w = taken + 1
        <5>1. ran[w] = 0
          BY <1>1, <3>1, <4>4 DEF RanTaken
        <5> QED BY <3>7, <4>3, <4>4, <5>1
      <4>5. CASE w # taken + 1
        <5>1. w <= taken + 1 <=> w <= taken
          BY <1>1, <4>1, <4>5
        <5> QED BY <3>1, <3>7, <4>2, <4>3, <4>5, <5>1 DEF RanTaken
      <4> QED BY <4>4, <4>5
    <3>10. CountersAgree'
      <4>1. Cardinality(Holders') = Cardinality(Holders) + 1
        BY <1>3, <2>3, HoldersFinite, FS_AddElement
      <4>2. pc[Main] \notin {"clearToDo", "clearDone"}
        BY <1>1, <3>1, <3>2 DEF CountersAgree
      <4>3. pc'[Main] \notin {"clearToDo", "clearDone"} /\ Uncounted' = Uncounted
        BY <3>3, <4>2 DEF Uncounted
      <4>4. Uncounted \in Nat /\ toDo \in Nat /\ done \in Nat
        BY DEF Uncounted, TypeOK
      <4>5. toDo + Uncounted = done + (added - (taken + 1)) + (Cardinality(Holders) + 1)
        BY <1>1, <3>1, <4>2, <4>4, HoldersFinite DEF CountersAgree
      <4> QED BY <1>2, <2>1, <4>1, <4>3, <4>5 DEF CountersAgree
    <3> QED BY <3>5, <3>6, <3>8, <3>9, <3>10
  <2> QED BY <2>5, <2>6
<1>5. CASE ~ ExchangeMatches(mine[t])
  <2> DEFINE x == Again(t)
  <2>1. Return(t, x) /\ UNCHANGED <<read, taken, lapped>>
    BY <1>5 DEF Exchange
  <2>2. x \in At(t) /\ x \in {"complete", "index"}
    BY DEF Again, At, AtMain, AtWorker, Completing, DoWork
  <2> HIDE DEF x
  <2>3. /\ Goto(t, x)
        /\ mine' \in [Thread -> Index]
        /\ entry' \in [Thread -> Work \union {0}]
        /\ number' \in [Thread -> Nat]
        /\ \A u \in Thread : u # t =>
             mine'[u] = mine[u] /\ entry'[u] = entry[u] /\ number'[u] = number[u]
    BY <2>1, Returns
  <2>4. /\ pc' \in [Thread -> AtWorker \union AtMain]
        /\ \A u \in Worker : pc'[u] \in AtWorker
        /\ pc'[Main] \in AtMain
        /\ pc'[t] = x
        /\ \A u \in Thread : u # t => pc'[u] = pc[u]
        /\ Holders' = Holders
    BY <1>3, <2>2, <2>3, Moves DEF Holding, Holders
  <2>5. TypeOK'
    BY <1>2, <2>1, <2>3, <2>4 DEF TypeOK
  <2>6. AlwaysInv'
    BY <1>2, <2>1, <2>2, <2>3, <2>5, AlwaysOn
  <2>7. ASSUME ~ lapped'
        PROVE  UnlappedInv'
    <3>1. UnlappedInv
      BY <2>1, <2>7
    <3>2. RingPlaces' /\ RingContents' /\ EntryInHand' /\ RanTaken'
      BY <1>2, <2>1, <2>2, <2>3, <3>1, Steady DEF Holding, ring
    <3>3. pc'[Main] = pc[Main] \/
          (pc'[Main] \in {"complete", "index"} /\ pc[Main] = "exchange")
      BY <1>1, <1>2, <2>2, <2>4
    <3>4. CountersAgree'
      BY <1>2, <2>1, <2>4, <3>1, <3>3 DEF UnlappedInv, CountersAgree, Uncounted
    <3> QED BY <3>2, <3>4 DEF UnlappedInv
  <2> QED BY <2>6, <2>7
<1> QED BY <1>4, <1>5

\* A thread that goes on with the entry it holds: what all of these steps keep.
LEMMA HoldsOn ==
  ASSUME QueueInv, NEW t \in Holders, NEW x \in Holding, Goto(t, x),
         x # "copy", UNCHANGED <<ring, counters, mine, number, lapped>>, TypeOK'
  PROVE  /\ AlwaysInv'
         /\ pc'[t] = x /\ t \in Thread
         /\ \A u \in Thread : u # t => pc'[u] = pc[u]
         /\ Holders' = Holders
         /\ UNCHANGED <<entries, read, write, added, taken, toDo, done, sem>>
         /\ Claimed' = Claimed
         /\ UnlappedInv => RingPlaces' /\ RingContents' /\ CountersAgree'
<1> USE DEF QueueInv, AlwaysInv
<1>1. t \in Thread /\ pc[t] \in Holding /\ Main \in Thread /\ Worker \subseteq Thread
  BY QueueFacts DEF Holders
<1>2. x \in At(t)
  BY DEF At, AtMain, AtWorker, DoWork
<1>3. /\ pc'[t] = x
      /\ \A u \in Thread : u # t => pc'[u] = pc[u]
      /\ Holders' = Holders
  BY <1>1, <1>2, Moves DEF Holders
<1>4. UNCHANGED <<entries, read, write, added, taken, toDo, done, sem>>
  BY DEF ring, counters
<1>5. pc'[Main] = pc[Main] \/ (pc'[Main] \in Holding /\ pc[Main] \in Holding)
  BY <1>1, <1>3
<1>6. Claimed' = Claimed /\ Written' = Written
  BY <1>4, <1>5 DEF Claimed, Written, Holding
<1>7. AlwaysInv'
  BY <1>1, <1>2, <1>4, AlwaysOn DEF Holding
<1>8. UnlappedInv => RingPlaces' /\ RingContents'
  BY <1>4, <1>6 DEF UnlappedInv, RingPlaces, RingContents
<1>9. UnlappedInv => CountersAgree'
  BY <1>3, <1>4, <1>5 DEF UnlappedInv, CountersAgree, Uncounted, Holding
<1> QED BY <1>1, <1>3, <1>4, <1>6, <1>7, <1>8, <1>9

\* A thread copies the entry it took, which Main has not written over unless the thread
\* was overtaken.
LEMMA CopyEntryStep ==
  ASSUME QueueInv, NEW t \in Thread, CopyEntry(t)
  PROVE  QueueInv'
<1> USE DEF QueueInv, AlwaysInv
<1>1. PICK e \in {entries[mine[t]]} \union (IF WrittenOver(t) THEN {0} ELSE {}) :
        entry' = [entry EXCEPT ![t] = e]
  BY DEF CopyEntry
<1>2. /\ pc[t] = "copy"
      /\ Goto(t, "run")
      /\ UNCHANGED <<ring, counters, mine, number, ran, lapped>>
  BY DEF CopyEntry, history
<1>3. t \in Holders /\ "run" \in Holding /\ "run" \in At(t)
  BY <1>2 DEF Holders, Holding, At, AtMain, AtWorker, DoWork
<1>4. TypeOK'
  <2>1. e \in Work \union {0}
    BY <1>1 DEF TypeOK
  <2>2. entry' \in [Thread -> Work \union {0}]
    BY <1>1, <2>1 DEF TypeOK
  <2>3. /\ pc' \in [Thread -> AtWorker \union AtMain]
        /\ \A u \in Worker : pc'[u] \in AtWorker
        /\ pc'[Main] \in AtMain
    BY <1>2, <1>3, Moves
  <2> QED BY <1>2, <2>2, <2>3 DEF TypeOK, ring, counters
<1>5. /\ AlwaysInv'
      /\ pc'[t] = "run"
      /\ \A u \in Thread : u # t => pc'[u] = pc[u]
      /\ Holders' = Holders
      /\ UNCHANGED <<entries, read, write, added, taken, toDo, done, sem>>
      /\ Claimed' = Claimed
      /\ UnlappedInv => RingPlaces' /\ RingContents' /\ CountersAgree'
  BY <1>2, <1>3, <1>4, HoldsOn
<1>6. ASSUME ~ lapped'
      PROVE  UnlappedInv'
  <2> USE DEF UnlappedInv
  <2>1. UnlappedInv
    BY <1>2, <1>6
  <2>2. /\ Size \in Nat \ {0} /\ added \in Nat /\ taken \in Nat /\ number[t] \in Nat
        /\ mine[t] = number[t] % Size /\ Claimed <= number[t] + Size
        /\ number[t] < taken /\ taken <= added /\ write = added % Size
    BY <1>2, <1>3, <2>1, QueueFacts DEF EntryInHand, RingPlaces
  <2>3. ~ WrittenOver(t)
    <3> SUFFICES ASSUME pc[Main] = "fill", mine[t] = write
                 PROVE  FALSE
      BY DEF WrittenOver
    <3>1. number[t] <= added /\ added < number[t] + Size
      BY <2>2 DEF Claimed
    <3>2. number[t] = added
      BY <2>2, <3>1, PlaceEqual
    <3> QED BY <2>2, <3>2
  <2>4. entries[mine[t]] = number[t] + 1
    <3>1. /\ Written \in Nat /\ added <= Written /\ Written <= Claimed /\ Claimed \in Nat
      BY <2>2 DEF Written, Claimed
    <3>2. number[t] \in 0 .. (Written - 1) /\ Written <= number[t] + Size
      BY <2>2, <3>1
    <3> QED BY <2>1, <2>2, <3>2 DEF RingContents
  <2>5. entry'[t] = number[t] + 1 /\ \A u \in Thread : u # t => entry'[u] = entry[u]
    BY <1>1, <2>3, <2>4 DEF TypeOK
  <2>6. EntryInHand'
    BY <1>2, <1>5, <2>1, <2>5 DEF EntryInHand
  <2>7. RanTaken'
    <3>1. \A u \in Thread : pc'[u] \in {"copy", "run"} <=> pc[u] \in {"copy", "run"}
      BY <1>2, <1>5
    <3> QED BY <1>2, <1>5, <2>1, <3>1 DEF RanTaken
  <2> QED BY <1>5, <2>1, <2>6, <2>7
<1> QED BY <1>5, <1>6

\* A thread runs the entry it took, which nobody ran before.
LEMMA RunEntryStep ==
  ASSUME QueueInv, NEW t \in Thread, RunEntry(t)
  PROVE  QueueInv'
<1> USE DEF QueueInv, AlwaysInv
<1>1. /\ pc[t] = "run"
      /\ ran' = [w \in Work |-> IF w = entry[t] THEN ran[w] + 1 ELSE ran[w]]
      /\ Goto(t, "count")
      /\ UNCHANGED <<ring, counters, mine, entry, number, lapped>>
  BY DEF RunEntry, locals
<1>2. t \in Holders /\ "count" \in Holding /\ "count" \in At(t)
  BY <1>1 DEF Holders, Holding, At, AtMain, AtWorker, DoWork
<1>3. TypeOK'
  <2>1. ran' \in [Work -> Nat]
    BY <1>1 DEF TypeOK
  <2>2. /\ pc' \in [Thread -> AtWorker \union AtMain]
        /\ \A u \in Worker : pc'[u] \in AtWorker
        /\ pc'[Main] \in AtMain
    BY <1>1, <1>2, Moves
  <2> QED BY <1>1, <2>1, <2>2 DEF TypeOK, ring, counters
<1>4. /\ AlwaysInv'
      /\ pc'[t] = "count"
      /\ \A u \in Thread : u # t => pc'[u] = pc[u]
      /\ Holders' = Holders
      /\ UNCHANGED <<entries, read, write, added, taken, toDo, done, sem>>
      /\ Claimed' = Claimed
      /\ UnlappedInv => RingPlaces' /\ RingContents' /\ CountersAgree'
  BY <1>1, <1>2, <1>3, HoldsOn
<1>5. ASSUME ~ lapped'
      PROVE  UnlappedInv'
  <2> USE DEF UnlappedInv
  <2>1. UnlappedInv
    BY <1>1, <1>5
  <2>2. EntryInHand'
    BY <1>1, <1>4, <2>1 DEF EntryInHand
  <2>3. RanTaken'
    <3> SUFFICES ASSUME NEW w \in Work
                 PROVE  ran'[w] = IF w <= taken /\ \A u \in Thread :
                                       pc'[u] \in {"copy", "run"} => number[u] + 1 # w
                                  THEN 1 ELSE 0
      BY <1>1, <1>4 DEF RanTaken
    <3>1. /\ \A u \in Thread : number[u] \in Nat
          /\ entry[t] = number[t] + 1 /\ number[t] < taken /\ taken \in Nat
      BY <1>1, <1>2, <2>1, QueueFacts DEF EntryInHand
    <3>2. \A u \in Thread : u # t =>
            (pc'[u] \in {"copy", "run"} <=> pc[u] \in {"copy", "run"})
      BY <1>4
    <3>3. pc'[t] \notin {"copy", "run"} /\ pc[t] \in {"copy", "run"}
      BY <1>1, <1>4
    <3>4. CASE w = entry[t]
      <4>1. ran[w] = 0
        BY <2>1, <3>1, <3>3, <3>4 DEF RanTaken
      <4>2. w <= taken
        BY <3>1, <3>4
      <4>3. \A u \in Thread : pc'[u] \in {"copy", "run"} => number[u] + 1 # w
        <5> SUFFICES ASSUME NEW u \in Thread, pc'[u] \in {"copy", "run"}, number[u] + 1 = w
                     PROVE  FALSE
          OBVIOUS
        <5>1. u # t /\ u \in Holders
          BY <3>2, <3>3 DEF Holders, Holding
        <5>2. number[u] = number[t]
          BY <3>1, <3>4
        <5> QED BY <1>2, <2>1, <5>1, <5>2 DEF EntryInHand
      <4> QED BY <1>1, <3>4, <4>1, <4>2, <4>3
    <3>5. CASE w # entry[t]
      <4>1. ran'[w] = ran[w]
        BY <1>1, <3>5
      <4>2. number[t] + 1 # w
        BY <3>1, <3>5
      <4> QED BY <2>1, <3>2, <3>3, <4>1, <4>2 DEF RanTaken
    <3> QED BY <3>4, <3>5
  <2> QED BY <1>4, <2>1, <2>2, <2>3
<1> QED BY <1>4, <1>5

-----------------------------------------------------------------------------
(***************************************************************************)
(* All steps                                                               *)
(***************************************************************************)

\* The queue starts empty, with every thread about to look at it.
LEMMA InitStep == Init => QueueInv
<1> SUFFICES ASSUME Init PROVE QueueInv
  OBVIOUS
<1>1. /\ Size \in Nat \ {0} /\ MaxWork \in Nat /\ 0 \in Index /\ 0 \in 0 .. MaxWork
      /\ Main \in Thread /\ Main \notin Worker /\ Worker \subseteq Thread
      /\ Cardinality(Worker) \in Nat /\ Worker # {}
  BY QueueAssumption, FS_CardinalityType DEF Index, Thread
<1>2. 0 % Size = 0
  <2>1. 0 = 0 * Size + 0 /\ 0 \in 0 .. (Size - 1)
    BY <1>1
  <2> QED BY <1>1, <2>1, PlaceUnique
<1>3. /\ pc \in [Thread -> AtWorker \union AtMain]
      /\ pc[Main] = "idle" /\ \A t \in Worker : pc[t] = "index"
      /\ \A t \in Thread : pc[t] \in {"idle", "index"}
  BY <1>1 DEF Init, AtWorker, AtMain, DoWork
<1>4. "index" \in AtWorker /\ "idle" \in AtMain
  BY DEF AtWorker, AtMain, DoWork
<1>5. Holders = {} /\ Cardinality(Holders) = 0
  BY <1>3, FS_EmptySet DEF Holders, Holding
<1>6. TypeOK
  <2>1. /\ entries \in [Index -> Work \union {0}]
        /\ mine \in [Thread -> Index]
        /\ entry \in [Thread -> Work \union {0}]
        /\ number \in [Thread -> Nat]
        /\ ran \in [Work -> Nat]
    BY <1>1 DEF Init
  <2>2. /\ read \in Index /\ write \in Index
        /\ toDo \in Nat /\ done \in Nat
        /\ sem \in 0 .. Cardinality(Worker)
        /\ added \in 0 .. MaxWork /\ taken \in Nat
    BY <1>1 DEF Init
  <2>3. lapped \in BOOLEAN
    BY DEF Init
  <2> QED BY <1>3, <1>4, <2>1, <2>2, <2>3 DEF TypeOK
<1>7. AlwaysInv
  BY <1>3, <1>6 DEF Init, AlwaysInv, AddsInBound, MainSeesEntry, SomeoneLooks
<1>8. Claimed = 0 /\ Written = 0
  BY <1>3 DEF Init, Claimed, Written
<1>9. RingPlaces /\ RingContents
  BY <1>1, <1>2, <1>8 DEF Init, RingPlaces, RingContents
<1>10. EntryInHand
  BY <1>3, <1>5 DEF EntryInHand
<1>11. RanTaken
  BY DEF Init, RanTaken, Work
<1>12. CountersAgree
  BY <1>3, <1>5 DEF Init, CountersAgree, Uncounted
<1> QED BY <1>7, <1>9, <1>10, <1>11, <1>12 DEF QueueInv, UnlappedInv

\* DoWorkOnQueue, by whichever thread.
LEMMA DoWorkStep ==
  ASSUME QueueInv, NEW t \in Thread, DoWorkOnQueue(t)
  PROVE  QueueInv'
BY ReadIndexStep, CompareWriteStep, ExchangeStep, CopyEntryStep, RunEntryStep,
   CountDoneStep DEF DoWorkOnQueue

\* Every step keeps the queue consistent.
LEMMA NextStep == QueueInv /\ [Next]_vars => QueueInv'
<1> SUFFICES ASSUME QueueInv, [Next]_vars PROVE QueueInv'
  OBVIOUS
<1>1. Main \in Thread /\ Worker \subseteq Thread
  BY QueueFacts DEF QueueInv, AlwaysInv
<1>2. ASSUME NEW t \in Worker, WorkerStep(t)
      PROVE  QueueInv'
  BY <1>1, <1>2, DoWorkStep, WakeStep DEF WorkerStep
<1>3. CASE AddWorkToQueue
  BY <1>3, BeginAddStep, CheckRoomStep, FillStep, PublishStep, TallyStep, ReleaseStep
     DEF AddWorkToQueue
<1>4. CASE CompleteWorkQueue
  BY <1>1, <1>4, BeginCompleteStep, TestDoneStep, ClearToDoStep, ClearDoneStep, DoWorkStep
     DEF CompleteWorkQueue
<1>5. CASE UNCHANGED vars
  <2>1. UNCHANGED <<entries, read, write, added, taken, toDo, done, sem, mine, entry,
                    number, pc, ran, lapped>>
    BY <1>5 DEF vars, ring, counters, locals, history
  <2>2. Holders' = Holders /\ Claimed' = Claimed /\ Written' = Written
    BY <2>1 DEF Holders, Claimed, Written
  <2>3. AlwaysInv'
    BY <2>1 DEF QueueInv, AlwaysInv, TypeOK, AddsInBound, MainSeesEntry, SomeoneLooks
  <2>4. UnlappedInv => RingPlaces' /\ RingContents' /\ EntryInHand'
    BY <2>1, <2>2 DEF UnlappedInv, RingPlaces, RingContents, EntryInHand
  <2>5. UnlappedInv => RanTaken' /\ CountersAgree'
    BY <2>1, <2>2 DEF UnlappedInv, RanTaken, CountersAgree, Uncounted
  <2> QED BY <2>1, <2>3, <2>4, <2>5 DEF QueueInv, UnlappedInv
<1> QED BY <1>2, <1>3, <1>4, <1>5 DEF Next

-----------------------------------------------------------------------------
(***************************************************************************)
(* Being overtaken                                                         *)
(***************************************************************************)

\* An index in hand is the one that CurrentRead had when it was read; a thread that is
\* about to exchange it has found the ring not empty.
IndexInHand ==
  /\ \A t \in Thread : pc[t] \in {"compare", "exchange"} =>
       mine[t] = number[t] % Size /\ number[t] <= taken
  /\ \A t \in Thread : pc[t] = "exchange" => number[t] < added

\* What is left to show of a step that no thread is about to compare after but those
\* that were before.
LEMMA IndexOn ==
  ASSUME TypeOK, IndexInHand, NEW t \in Thread, NEW x \in At(t), Goto(t, x),
         x \notin {"compare", "exchange"},
         \A u \in Thread : u # t => mine'[u] = mine[u] /\ number'[u] = number[u],
         taken' \in {taken, taken + 1}, added' \in {added, added + 1}
  PROVE  IndexInHand'
<1>1. /\ pc'[t] = x
      /\ \A u \in Thread : u # t => pc'[u] = pc[u]
  BY Moves
<1>2. /\ added \in Nat /\ taken \in Nat
      /\ \A u \in Thread : number[u] \in Nat
  BY QueueFacts
<1>3. ASSUME NEW u \in Thread, pc'[u] \in {"compare", "exchange"}
      PROVE  /\ mine'[u] = number'[u] % Size /\ number'[u] <= taken'
             /\ pc'[u] = "exchange" => number'[u] < added'
  <2>1. u # t /\ pc[u] = pc'[u] /\ mine'[u] = mine[u] /\ number'[u] = number[u]
    BY <1>1, <1>3
  <2> QED BY <1>2, <1>3, <2>1 DEF IndexInHand
<1> QED BY <1>3 DEF IndexInHand

\* The steps of Main that add work or complete it.
LEMMA IndexMain ==
  ASSUME QueueInv, IndexInHand, ~ lapped,
         AddWorkToQueue \/ BeginComplete \/ TestDone \/ ClearToDo \/ ClearDone
  PROVE  IndexInHand'
<1>1. PICK x \in AtMain : Goto(Main, x) /\ x \notin {"compare", "exchange"}
  BY DEF AddWorkToQueue, BeginAdd, CheckRoom, Fill, Publish, Tally, Release, BeginComplete,
         TestDone, ClearToDo, ClearDone, AtMain, Adding, Completing, DoWork
<1>2. /\ UNCHANGED <<mine, number, taken>>
      /\ added' \in {added, added + 1}
  BY DEF AddWorkToQueue, BeginAdd, CheckRoom, Fill, Publish, Tally, Release, BeginComplete,
         TestDone, ClearToDo, ClearDone, ring, locals
<1>3. TypeOK /\ Main \in Thread /\ x \in At(Main)
  BY QueueFacts DEF QueueInv, AlwaysInv, At
<1> QED BY <1>1, <1>2, <1>3, IndexOn

\* The steps of DoWorkOnQueue, and waking up.
LEMMA IndexThread ==
  ASSUME QueueInv, IndexInHand, ~ lapped, NEW t \in Thread,
         DoWorkOnQueue(t) \/ (t \in Worker /\ Wake(t))
  PROVE  IndexInHand'
<1>1. /\ Size \in Nat \ {0} /\ added \in Nat /\ taken \in Nat
      /\ Main \in Thread /\ Main \notin Worker
      /\ \A u \in Thread : number[u] \in Nat
      /\ TypeOK /\ RingPlaces
  BY QueueFacts DEF QueueInv, AlwaysInv, UnlappedInv
<1>2. /\ "compare" \in At(t) /\ "exchange" \in At(t) /\ "copy" \in At(t)
      /\ "run" \in At(t) /\ "count" \in At(t) /\ "index" \in At(t)
      /\ Again(t) \in At(t) \ {"compare", "exchange"}
      /\ Asleep(t) \in At(t) \ {"compare", "exchange"}
  BY DEF At, AtMain, AtWorker, DoWork, Taking, Holding, Completing, Again, Asleep
<1>3. CASE ReadIndex(t)
  <2>1. /\ UNCHANGED <<read, added, taken>> /\ Goto(t, "compare")
        /\ mine' = [mine EXCEPT ![t] = read]
        /\ number' = [number EXCEPT ![t] = taken]
    BY <1>3 DEF ReadIndex, ring
  <2>2. pc'[t] = "compare" /\ \A u \in Thread : u # t => pc'[u] = pc[u]
    BY <1>1, <1>2, <2>1, Moves
  <2>3. /\ mine'[t] = taken % Size /\ number'[t] = taken
        /\ \A u \in Thread : u # t => mine'[u] = mine[u] /\ number'[u] = number[u]
    BY <1>1, <2>1 DEF TypeOK, RingPlaces
  <2> QED BY <1>1, <2>1, <2>2, <2>3 DEF IndexInHand
<1>4. CASE CompareWrite(t)
  <2>1. pc[t] = "compare" /\ UNCHANGED <<write, added, taken>>
    BY <1>4 DEF CompareWrite, ring
  <2>2. CASE mine[t] # write
    <3>1. Goto(t, "exchange") /\ UNCHANGED <<mine, number>>
      BY <1>4, <2>2 DEF CompareWrite, locals
    <3>2. pc'[t] = "exchange" /\ \A u \in Thread : u # t => pc'[u] = pc[u]
      BY <1>1, <1>2, <3>1, Moves
    <3>3. mine[t] = number[t] % Size /\ number[t] <= taken /\ number[t] < added
      <4>1. mine[t] = number[t] % Size /\ number[t] <= taken
        BY <2>1 DEF IndexInHand
      <4>2. taken <= added /\ write = added % Size
        BY <1>1 DEF RingPlaces
      <4>3. number[t] # added
        BY <2>2, <4>1, <4>2
      <4> QED BY <1>1, <4>1, <4>2, <4>3
    <3> QED BY <2>1, <3>1, <3>2, <3>3 DEF IndexInHand
  <2>3. CASE mine[t] = write
    <3>1. Return(t, Asleep(t))
      BY <1>4, <2>3 DEF CompareWrite
    <3>2. /\ Goto(t, Asleep(t))
          /\ \A u \in Thread : u # t => mine'[u] = mine[u] /\ number'[u] = number[u]
      BY <1>1, <3>1, Returns
    <3> QED BY <1>1, <1>2, <2>1, <3>2, IndexOn
  <2> QED BY <2>2, <2>3
<1>5. CASE Exchange(t)
  <2>1. added' = added
    BY <1>5 DEF Exchange
  <2>2. CASE ExchangeMatches(mine[t])
    <3>1. /\ Goto(t, "copy") /\ taken' = taken + 1 /\ mine' = mine
          /\ number' = [number EXCEPT ![t] = taken]
      BY <1>5, <2>2 DEF Exchange
    <3>2. \A u \in Thread : u # t => number'[u] = number[u]
      BY <1>1, <3>1 DEF TypeOK
    <3> QED BY <1>1, <1>2, <2>1, <3>1, <3>2, IndexOn
  <2>3. CASE ~ ExchangeMatches(mine[t])
    <3>1. Return(t, Again(t)) /\ taken' = taken
      BY <1>5, <2>3 DEF Exchange
    <3>2. /\ Goto(t, Again(t))
          /\ \A u \in Thread : u # t => mine'[u] = mine[u] /\ number'[u] = number[u]
      BY <1>1, <3>1, Returns
    <3> QED BY <1>1, <1>2, <2>1, <3>1, <3>2, IndexOn
  <2> QED BY <2>2, <2>3
<1>6. CASE CopyEntry(t)
  <2>1. Goto(t, "run") /\ UNCHANGED <<mine, number, added, taken>>
    BY <1>6 DEF CopyEntry, ring
  <2> QED BY <1>1, <1>2, <2>1, IndexOn
<1>7. CASE RunEntry(t)
  <2>1. Goto(t, "count") /\ UNCHANGED <<mine, number, added, taken>>
    BY <1>7 DEF RunEntry, ring, locals
  <2> QED BY <1>1, <1>2, <2>1, IndexOn
<1>8. CASE CountDone(t)
  <2>1. Return(t, Again(t)) /\ UNCHANGED <<added, taken>>
    BY <1>8 DEF CountDone, ring
  <2>2. /\ Goto(t, Again(t))
        /\ \A u \in Thread : u # t => mine'[u] = mine[u] /\ number'[u] = number[u]
    BY <1>1, <2>1, Returns
  <2> QED BY <1>1, <1>2, <2>1, <2>2, IndexOn
<1>9. CASE t \in Worker /\ Wake(t)
  <2>1. Goto(t, "index") /\ UNCHANGED <<mine, number, added, taken>>
    BY <1>9 DEF Wake, ring, locals
  <2> QED BY <1>1, <1>2, <2>1, IndexOn
<1> QED BY <1>3, <1>4, <1>5, <1>6, <1>7, <1>8, <1>9 DEF DoWorkOnQueue

\* A step that overtakes a thread: Size entries were added since it read its index, or
\* after the one it took.
LEMMA LapStep ==
  ASSUME QueueInv, IndexInHand, Next, ~ lapped, lapped'
  PROVE  \E t \in Thread : /\ pc[t] \in {"exchange", "copy"}
                          /\ mine[t] = write
                          /\ added >= number[t] + Size
<1>1. /\ Size \in Nat \ {0} /\ added \in Nat /\ taken \in Nat
      /\ Main \in Thread /\ Worker \subseteq Thread
      /\ \A t \in Thread : number[t] \in Nat
      /\ UnlappedInv /\ write = added % Size /\ taken <= added
  BY QueueFacts DEF QueueInv, AlwaysInv, UnlappedInv, RingPlaces
<1>2. PICK t \in Thread : pc[t] \in {"exchange", "copy"} /\ mine[t] = write
  <2>1. CASE CheckRoom
    <3>1. PICK t \in Worker : Copying(t, write)
      BY <2>1 DEF CheckRoom
    <3> QED BY <1>1, <3>1 DEF Copying
  <2>2. CASE \E t \in Thread : Exchange(t)
    <3>1. PICK t \in Thread : Exchange(t)
      BY <2>2
    <3>2. pc[t] = "exchange" /\ mine[t] = write
      BY <3>1 DEF Exchange
    <3> QED BY <3>2
  <2>3. CheckRoom \/ \E t \in Thread : Exchange(t)
    <3>1. ASSUME NEW t \in Thread, DoWorkOnQueue(t)
          PROVE  Exchange(t)
      BY <3>1 DEF DoWorkOnQueue, ReadIndex, CompareWrite, CopyEntry, RunEntry, CountDone,
                  history
    <3>2. ASSUME NEW t \in Worker, WorkerStep(t)
          PROVE  DoWorkOnQueue(t)
      BY <3>2 DEF WorkerStep, Wake, history
    <3>3. CASE AddWorkToQueue
      BY <3>3 DEF AddWorkToQueue, BeginAdd, Fill, Publish, Tally, Release, history
    <3>4. CASE CompleteWorkQueue
      BY <1>1, <3>1, <3>4 DEF CompleteWorkQueue, BeginComplete, TestDone, ClearToDo,
                              ClearDone, history
    <3> QED BY <1>1, <3>1, <3>2, <3>3, <3>4 DEF Next
  <2> QED BY <2>1, <2>2, <2>3
<1>3. number[t] < added /\ mine[t] = number[t] % Size
  <2>1. CASE pc[t] = "exchange"
    BY <1>2, <2>1 DEF IndexInHand
  <2>2. CASE pc[t] = "copy"
    <3>1. t \in Holders
      BY <2>2 DEF Holders, Holding
    <3> QED BY <1>1, <2>2, <3>1 DEF UnlappedInv, EntryInHand
  <2> QED BY <1>2, <2>1, <2>2
<1>4. ~ (added < number[t] + Size)
  BY <1>1, <1>2, <1>3, PlaceEqual
<1> QED BY <1>1, <1>2, <1>4

\* Until a thread is overtaken every index in hand is as old as it was.
LEMMA IndexSteps ==
  /\ Init => (~ lapped => IndexInHand)
  /\ QueueInv /\ (~ lapped => IndexInHand) /\ [Next]_vars => (~ lapped' => IndexInHand')
<1>1. ASSUME Init
      PROVE  IndexInHand
  BY <1>1 DEF Init, IndexInHand
<1>2. ASSUME QueueInv, ~ lapped => IndexInHand, [Next]_vars, ~ lapped'
      PROVE  IndexInHand'
  <2>1. CASE UNCHANGED vars
    <3>1. UNCHANGED <<pc, mine, number, taken, added, lapped>>
      BY <2>1 DEF vars, ring, locals, history
    <3> QED BY <1>2, <3>1 DEF IndexInHand
  <2>2. CASE Next
    <3>1. ~ lapped
      BY <1>2, <2>2 DEF Next, WorkerStep, AddWorkToQueue, CompleteWorkQueue, DoWorkOnQueue,
           ReadIndex, CompareWrite, Exchange, CopyEntry, RunEntry, CountDone, Wake,
           BeginAdd, CheckRoom, Fill, Publish, Tally, Release, BeginComplete, TestDone,
           ClearToDo, ClearDone, history
    <3>2. Main \in Thread /\ Worker \subseteq Thread
      BY <1>2, QueueFacts DEF QueueInv, AlwaysInv
    <3> QED BY <1>2, <2>2, <3>1, <3>2, IndexMain, IndexThread
            DEF Next, WorkerStep, CompleteWorkQueue
  <2> QED BY <1>2, <2>1, <2>2
<1> QED BY <1>1, <1>2

-----------------------------------------------------------------------------
(***************************************************************************)
(* The theorems                                                            *)
(***************************************************************************)

\* However the threads interleave (win32_multithread.cpp 18-81), ring, threads and
\* counters are consistent until a thread is overtaken by a lap of the ring.
THEOREM Consistent == Spec => []QueueInv
<1>1. Init => QueueInv
  BY InitStep
<1>2. QueueInv /\ [Next]_vars => QueueInv'
  BY NextStep
<1> QED BY <1>1, <1>2, PTL DEF Spec

\* Every variable of the queue keeps its type: no index leaves the ring, and the
\* semaphore counts at most the threads.
THEOREM TypesKept == Spec => []TypeOK
<1>1. QueueInv => TypeOK
  BY DEF QueueInv, AlwaysInv
<1>2. Spec => []QueueInv
  BY Consistent
<1> QED BY <1>1, <1>2, PTL

\* Until a thread is overtaken, a handler (win32_multithread.cpp 28-32) runs at most
\* once for each entry.
THEOREM RunsOnce == Spec => []RunOnce
<1>1. QueueInv => RunOnce
  BY DEF QueueInv, UnlappedInv, RanTaken, RunOnce
<1>2. Spec => []QueueInv
  BY Consistent
<1> QED BY <1>1, <1>2, PTL

\* A thread is overtaken, between reading CurrentRead and copying the entry
\* (win32_multithread.cpp 22-30), only after Size more entries were added: as long as no
\* thread falls that far behind, the other theorems hold outright.
THEOREM OvertakenOnlyByLap == Spec => OvertakenByLap
<1> DEFINE InHand == ~ lapped => IndexInHand
           Lap == ~ lapped /\ lapped' =>
                    \E t \in Thread : /\ pc[t] \in {"exchange", "copy"}
                                      /\ mine[t] = write
                                      /\ added >= number[t] + Size
<1>1. Init => InHand
  BY IndexSteps
<1>2. QueueInv /\ InHand /\ [Next]_vars => InHand'
  BY IndexSteps
<1>3. QueueInv /\ InHand /\ [Next]_vars => [Lap]_vars
  BY LapStep
<1>4. Spec => []QueueInv
  BY Consistent
<1> QED BY <1>1, <1>2, <1>3, <1>4, PTL DEF Spec, OvertakenByLap

\* CompleteWorkQueue (win32_multithread.cpp 44-52) resets its counters only when all
\* that was added has been run, until a thread is overtaken.
THEOREM CompletionIsDone == Spec => []CompleteMeansDone
<1>1. QueueInv => CompleteMeansDone
  <2> SUFFICES ASSUME QueueInv, pc[Main] = "clearToDo", ~ lapped
               PROVE  /\ \A w \in 1 .. added : ran[w] = 1
                      /\ \A t \in Worker : pc[t] \notin Holding
    BY DEF CompleteMeansDone
  <2>1. UnlappedInv /\ taken = added /\ Holders = {}
    BY DEF QueueInv, UnlappedInv, CountersAgree
  <2>2. \A t \in Thread : pc[t] \notin Holding
    BY <2>1 DEF Holders
  <2>3. ASSUME NEW w \in 1 .. added
        PROVE  ran[w] = 1
    <3>1. w \in Work /\ w <= taken
      BY <2>1, QueueAssumption DEF Work, QueueInv, AlwaysInv, TypeOK
    <3>2. \A t \in Thread : pc[t] \notin {"copy", "run"}
      BY <2>2 DEF Holding
    <3> QED BY <2>1, <3>1, <3>2 DEF UnlappedInv, RanTaken
  <2> QED BY <2>2, <2>3 DEF Thread
<1>2. Spec => []QueueInv
  BY Consistent
<1> QED BY <1>1, <1>2, PTL

\* ThingsToDo and ThingsDone (win32_multithread.cpp 32 and 65) lose no count until a
\* thread is overtaken.
THEOREM CountsAreKept == Spec => []Accounted
<1>1. QueueInv => Accounted
  <2> SUFFICES ASSUME QueueInv, ~ lapped PROVE Accounted
    BY DEF Accounted
  <2>1. /\ Size \in Nat \ {0} /\ added \in Nat /\ taken \in Nat
        /\ read = taken % Size /\ write = added % Size
        /\ taken <= added /\ added < taken + Size
    BY QueueFacts DEF QueueInv, AlwaysInv, UnlappedInv, RingPlaces, Claimed
  <2>2. (write - read) % Size = added - taken
    BY <2>1, PlaceMinus
  <2> QED BY <2>2 DEF Accounted, QueueInv, UnlappedInv, CountersAgree
<1>2. Spec => []QueueInv
  BY Consistent
<1> QED BY <1>1, <1>2, PTL

\* The threads never all sleep (win32_multithread.cpp 67 and 76-79) while an entry waits
\* and no signal is due, whether or not a thread is overtaken.
THEOREM WakeupsAreKept == Spec => []NoLostWakeup
<1>1. QueueInv => NoLostWakeup
  BY DEF QueueInv, AlwaysInv, SomeoneLooks, NoLostWakeup
<1>2. Spec => []QueueInv
  BY Consistent
<1> QED BY <1>1, <1>2, PTL
===============================================================================

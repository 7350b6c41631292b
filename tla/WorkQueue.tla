------------------------------- MODULE WorkQueue -------------------------------
(***************************************************************************)
(* The work queue (thread_work_queue): one thread, Main, adds work to a    *)
(* ring of entries and may wait for its completion; the others run         *)
(* WorkQueueThreadLoop.  Each step is one access of a shared variable, so  *)
(* that threads interleave as on the machine; the variables are volatile   *)
(* and the entry is written before a barrier, so accesses take effect in   *)
(* program order.  Handlers do not touch the queue.                        *)
(*                                                                         *)
(* DoWorkOnQueue moves CurrentRead on before it copies the entry, and      *)
(* AddWorkToQueue looks at CurrentRead only: while a thread sleeps between *)
(* the two steps, Main may come round the ring and write over the entry.   *)
(* lapped remembers that a thread was overtaken like this; what the queue  *)
(* promises, it promises until then.                                       *)
(***************************************************************************)
EXTENDS Integers, FiniteSets

CONSTANTS
  Worker,     \* the threads of CreateWorkQueue
  Main,       \* the thread that adds work and completes the queue
  Size,       \* ArrayCount(Entries): 256 in the code
  MaxWork     \* bound: how many entries are added

ASSUME QueueAssumption ==
  /\ IsFiniteSet(Worker) /\ Worker # {}
  /\ Main \notin Worker
  /\ Size \in Nat \ {0, 1}
  /\ MaxWork \in Nat

Thread == Worker \union {Main}
Work == 1 .. MaxWork
Index == 0 .. (Size - 1)

VARIABLES
  entries,    \* Entries: the work in each place, 0 before the first
  read,       \* CurrentRead
  write,      \* CurrentWrite
  toDo,       \* ThingsToDo
  done,       \* ThingsDone
  sem,        \* the count of Semaphore
  pc,         \* what each thread does next
  mine,       \* the local CurrentRead of each thread
  entry,      \* the local Entry of each thread
  added,      \* history: how many entries Main published
  taken,      \* history: how often an entry was taken
  number,     \* history: how many were taken when the thread read CurrentRead,
              \*   or, if it took one since, before that one
  ran,        \* history: how often each piece of work was run
  lapped      \* history: was a thread overtaken by a lap of the ring?

ring == <<entries, read, write, added, taken>>
counters == <<toDo, done, sem>>
locals == <<mine, entry, number>>
history == <<ran, lapped>>
vars == <<ring, counters, locals, pc, history>>

(* Where a thread can be: inside DoWorkOnQueue, or in the function that    *)
(* calls it.                                                               *)
Taking == {"compare", "exchange", "copy"}
Holding == {"copy", "run", "count"}
Holders == {t \in Thread : pc[t] \in Holding}
DoWork == {"index"} \union Taking \union Holding
Adding == {"check", "fill", "publish", "tally", "release"}
Completing == {"complete", "clearToDo", "clearDone"}
AtWorker == DoWork \union {"wait"}
AtMain == DoWork \union Adding \union Completing \union {"idle", "crashed"}

TypeOK ==
  /\ entries \in [Index -> Work \union {0}]
  /\ read \in Index /\ write \in Index
  /\ toDo \in Nat /\ done \in Nat
  /\ sem \in 0 .. Cardinality(Worker)
  /\ pc \in [Thread -> AtWorker \union AtMain]
  /\ \A t \in Worker : pc[t] \in AtWorker
  /\ pc[Main] \in AtMain
  /\ mine \in [Thread -> Index]
  /\ entry \in [Thread -> Work \union {0}]
  /\ added \in 0 .. MaxWork /\ taken \in Nat
  /\ number \in [Thread -> Nat]
  /\ ran \in [Work -> Nat]
  /\ lapped \in BOOLEAN

Init ==
  /\ entries = [i \in Index |-> 0]
  /\ read = 0 /\ write = 0
  /\ toDo = 0 /\ done = 0 /\ sem = 0
  /\ pc = [t \in Thread |-> IF t = Main THEN "idle" ELSE "index"]
  /\ mine = [t \in Thread |-> 0]
  /\ entry = [t \in Thread |-> 0]
  /\ added = 0 /\ taken = 0
  /\ number = [t \in Thread |-> 0]
  /\ ran = [w \in Work |-> 0]
  /\ lapped = FALSE

(* A failed Assert reads address 0, which ends the process.                *)
Running == pc[Main] # "crashed"

Goto(t, where) == pc' = [pc EXCEPT ![t] = where]

(* Mutant: the index leaves the ring.                                      *)
NextEntryUnwrapped(i) == i + 1

NextEntry(i) == (i + 1) % Size

-------------------------------------------------------------------------------
(***************************************************************************)
(* DoWorkOnQueue                                                           *)
(***************************************************************************)
(* Mutant: a thread sleeps after each entry, one for each signal.          *)
AgainSleeps(t) == IF t = Main THEN "complete" ELSE "wait"

(* Where a thread goes that took an entry or failed to: both callers loop. *)
Again(t) == IF t = Main THEN "complete" ELSE "index"

(* Where it goes that found the queue empty: GoToSleep, which              *)
(* CompleteWorkQueue does not look at.                                     *)
Asleep(t) == IF t = Main THEN "complete" ELSE "wait"

(* The locals of DoWorkOnQueue end when it returns.                        *)
Return(t, where) ==
  /\ Goto(t, where)
  /\ mine' = [mine EXCEPT ![t] = 0]
  /\ entry' = [entry EXCEPT ![t] = 0]
  /\ number' = [number EXCEPT ![t] = 0]

ReadIndex(t) ==
  /\ pc[t] = "index"
  /\ mine' = [mine EXCEPT ![t] = read]
  /\ number' = [number EXCEPT ![t] = taken]
  /\ Goto(t, "compare")
  /\ UNCHANGED <<ring, counters, entry, history>>

(* Mutant: an empty ring is not noticed.                                   *)
CompareWriteBlind(t) ==
  /\ pc[t] = "compare"
  /\ Goto(t, "exchange")
  /\ UNCHANGED <<ring, counters, locals, history>>

CompareWrite(t) ==
  /\ pc[t] = "compare"
  /\ IF mine[t] # write
     THEN Goto(t, "exchange") /\ UNCHANGED locals
     ELSE Return(t, Asleep(t))
  /\ UNCHANGED <<ring, counters, history>>

(* Mutant: the exchange succeeds although another thread took the entry.   *)
ExchangeBlind(i) == TRUE

(* Does InterlockedCompareExchange find the value the thread read?         *)
ExchangeMatches(i) == read = i

(* The thread was overtaken if CurrentRead has the value it read, but came *)
(* round the ring to it, so that nothing may be left to take.              *)
Exchange(t) ==
  /\ pc[t] = "exchange"
  /\ IF ExchangeMatches(mine[t])
     THEN /\ read' = NextEntry(mine[t])
          /\ taken' = taken + 1
          /\ number' = [number EXCEPT ![t] = taken]
          /\ lapped' = (lapped \/ mine[t] = write)
          /\ Goto(t, "copy")
          /\ UNCHANGED <<mine, entry>>
     ELSE /\ UNCHANGED <<read, taken, lapped>>
          /\ Return(t, Again(t))
  /\ UNCHANGED <<entries, write, added, counters, ran>>

(* Is Main about to write to the place that thread t copies from?          *)
WrittenOver(t) == pc[Main] = "fill" /\ mine[t] = write

(* An entry is two words.  What is copied while Main writes may have one   *)
(* word of the old entry and one of the new: it is neither.                *)
CopyEntry(t) ==
  /\ pc[t] = "copy"
  /\ \E e \in {entries[mine[t]]} \union (IF WrittenOver(t) THEN {0} ELSE {}) :
       entry' = [entry EXCEPT ![t] = e]
  /\ Goto(t, "run")
  /\ UNCHANGED <<ring, counters, mine, number, history>>

RunEntry(t) ==
  /\ pc[t] = "run"
  /\ ran' = [w \in Work |-> IF w = entry[t] THEN ran[w] + 1 ELSE ran[w]]
  /\ Goto(t, "count")
  /\ UNCHANGED <<ring, counters, locals, lapped>>

(* Mutant: ++ThingsDone, where the increments of two threads can count as  *)
(* one.                                                                    *)
CountDonePlain(t) ==
  /\ pc[t] = "count"
  /\ done' = done + 1
  /\ pc' = [u \in Thread |-> IF pc[u] = "count" THEN Again(u) ELSE pc[u]]
  /\ UNCHANGED <<ring, toDo, sem, locals, history>>

(* InterlockedIncrement.                                                   *)
CountDone(t) ==
  /\ pc[t] = "count"
  /\ done' = done + 1
  /\ Return(t, Again(t))
  /\ UNCHANGED <<ring, toDo, sem, history>>

DoWorkOnQueue(t) ==
  \/ ReadIndex(t) \/ CompareWrite(t) \/ Exchange(t)
  \/ CopyEntry(t) \/ RunEntry(t) \/ CountDone(t)

(* WaitForSingleObjectEx returns when the semaphore counts at least 1.     *)
Wake(t) ==
  /\ pc[t] = "wait"
  /\ sem > 0
  /\ sem' = sem - 1
  /\ Goto(t, "index")
  /\ UNCHANGED <<ring, toDo, done, locals, history>>

WorkerStep(t) == Running /\ (DoWorkOnQueue(t) \/ Wake(t))

-------------------------------------------------------------------------------
(***************************************************************************)
(* AddWorkToQueue                                                          *)
(***************************************************************************)
BeginAdd ==
  /\ pc[Main] = "idle"
  /\ added < MaxWork
  /\ Goto(Main, "check")
  /\ UNCHANGED <<ring, counters, locals, history>>

(* Mutant: the ring may be filled until both indices are equal, which is   *)
(* also how an empty ring looks.                                           *)
HasRoomNone == TRUE

(* The Assert: one place stays free.                                       *)
HasRoom == NextEntry(write) # read

(* Has thread t taken the entry at place i, and not copied it yet?         *)
Copying(t, i) == pc[t] = "copy" /\ mine[t] = i

(* The Assert does not tell whether a thread was overtaken.                *)
CheckRoom ==
  /\ pc[Main] = "check"
  /\ Goto(Main, IF HasRoom THEN "fill" ELSE "crashed")
  /\ lapped' = (lapped \/ (HasRoom /\ \E t \in Worker : Copying(t, write)))
  /\ UNCHANGED <<ring, counters, locals, ran>>

Fill ==
  /\ pc[Main] = "fill"
  /\ entries' = [entries EXCEPT ![write] = added + 1]
  /\ Goto(Main, "publish")
  /\ UNCHANGED <<read, write, added, taken, counters, locals, history>>

Publish ==
  /\ pc[Main] = "publish"
  /\ write' = NextEntry(write)
  /\ added' = added + 1
  /\ Goto(Main, "tally")
  /\ UNCHANGED <<entries, read, taken, counters, locals, history>>

Tally ==
  /\ pc[Main] = "tally"
  /\ toDo' = toDo + 1
  /\ Goto(Main, "release")
  /\ UNCHANGED <<ring, done, sem, locals, history>>

(* ReleaseSemaphore leaves the count alone when it is at its maximum,      *)
(* which is the number of threads.                                         *)
Signal == IF sem < Cardinality(Worker) THEN sem + 1 ELSE sem

Release ==
  /\ pc[Main] = "release"
  /\ sem' = Signal
  /\ Goto(Main, "idle")
  /\ UNCHANGED <<ring, toDo, done, locals, history>>

AddWorkToQueue == BeginAdd \/ CheckRoom \/ Fill \/ Publish \/ Tally \/ Release

-------------------------------------------------------------------------------
(***************************************************************************)
(* CompleteWorkQueue                                                       *)
(***************************************************************************)
BeginComplete ==
  /\ pc[Main] = "idle"
  /\ Goto(Main, "complete")
  /\ UNCHANGED <<ring, counters, locals, history>>

(* Mutant: the queue counts as complete when nothing is left to take.      *)
AllDoneEmpty == read = write

(* Main alone changes ThingsToDo, so reading both counters is one step.    *)
AllDone == toDo = done

TestDone ==
  /\ pc[Main] = "complete"
  /\ Goto(Main, IF AllDone THEN "clearToDo" ELSE "index")
  /\ UNCHANGED <<ring, counters, locals, history>>

ClearToDo ==
  /\ pc[Main] = "clearToDo"
  /\ toDo' = 0
  /\ Goto(Main, "clearDone")
  /\ UNCHANGED <<ring, done, sem, locals, history>>

(* Mutant: ThingsDone keeps its value.                                     *)
ClearDoneForgotten ==
  /\ pc[Main] = "clearDone"
  /\ Goto(Main, "idle")
  /\ UNCHANGED <<ring, counters, locals, history>>

ClearDone ==
  /\ pc[Main] = "clearDone"
  /\ done' = 0
  /\ Goto(Main, "idle")
  /\ UNCHANGED <<ring, toDo, sem, locals, history>>

CompleteWorkQueue ==
  BeginComplete \/ TestDone \/ ClearToDo \/ ClearDone \/ DoWorkOnQueue(Main)

-------------------------------------------------------------------------------
Next ==
  \/ \E t \in Worker : WorkerStep(t)
  \/ AddWorkToQueue
  \/ CompleteWorkQueue

Spec == Init /\ [][Next]_vars

(* Every thread is scheduled; whether Main calls the queue is its own      *)
(* affair, but a call it began runs on.                                    *)
MainRunsOn == pc[Main] # "idle" /\ (AddWorkToQueue \/ CompleteWorkQueue)

FairSpec ==
  /\ Spec
  /\ \A t \in Worker : WF_vars(WorkerStep(t))
  /\ WF_vars(MainRunsOn)

(* Bound of the run: what comes after a thread was overtaken is not        *)
(* followed.                                                               *)
UntilLapped == ~ lapped

-------------------------------------------------------------------------------
(***************************************************************************)
(* Properties                                                              *)
(***************************************************************************)
(* However threads race for an entry, its handler runs at most once, unless *)
(* a thread was overtaken: the exchange lets one of them through, although *)
(* it compares indices that come round, and a slow thread finds the entry  *)
(* it took where it was.                                                   *)
RunOnce == ~ lapped => \A w \in Work : ran[w] <= 1

(* When CompleteWorkQueue is about to reset its counters, every piece of   *)
(* work that was added has been run, and no thread holds one, unless a     *)
(* thread was overtaken.                                                   *)
CompleteMeansDone ==
  pc[Main] = "clearToDo" /\ ~ lapped =>
    /\ \A w \in 1 .. added : ran[w] = 1
    /\ \A t \in Worker : pc[t] \notin Holding

(* Main counts an entry after it published it.                             *)
Uncounted == IF pc[Main] = "tally" THEN 1 ELSE 0

(* ThingsToDo and ThingsDone differ by what is in the ring or in hand: no  *)
(* count is lost, so CompleteWorkQueue neither waits for nothing nor       *)
(* returns too early, unless a thread was overtaken.                       *)
Accounted ==
  pc[Main] # "clearDone" /\ ~ lapped =>
    toDo + Uncounted =
      done + ((write - read) % Size) + Cardinality(Holders)

(* All threads sleep, and no signal is due, only if nothing is in the      *)
(* ring, although the signal is given after the entry is published and     *)
(* the semaphore stops counting at the number of threads; also after a     *)
(* thread was overtaken.                                                   *)
NoLostWakeup ==
  /\ \A t \in Worker : pc[t] = "wait"
  /\ sem = 0
  /\ pc[Main] \notin {"tally", "release"}
  => read = write

(* A thread is overtaken only by a whole lap: since it read the index in   *)
(* its hand, or after the entry it took, Size entries were added.  So all  *)
(* the queue promises holds as long as no thread sleeps between two lines  *)
(* of DoWorkOnQueue while 256 entries go by.                               *)
OvertakenByLap ==
  [][~ lapped /\ lapped' =>
       \E t \in Thread : /\ pc[t] \in {"exchange", "copy"}
                         /\ mine[t] = write
                         /\ added >= number[t] + Size]_vars

(* What was added is run in the end, if Main never waits for it, unless    *)
(* the Assert ends the process or a thread is overtaken.                   *)
EveryWorkRuns ==
  \A w \in Work : added >= w ~> (ran[w] = 1 \/ ~ Running \/ lapped)

(* CompleteWorkQueue returns, although the other threads may be slow and   *)
(* take entries from under Main, unless a thread is overtaken.             *)
CompleteReturns == pc[Main] = "complete" ~> (pc[Main] = "idle" \/ lapped)

-------------------------------------------------------------------------------
(***************************************************************************)
(* The inductive invariant that WorkQueueProofs proves.  The history       *)
(* variables count entries without wrapping: entry n, from 0, is work n+1. *)
(***************************************************************************)
(* What holds whether or not a thread was overtaken.                       *)
AddsInBound == pc[Main] \in {"check", "fill", "publish"} => added < MaxWork

(* Main alone moves CurrentWrite.                                          *)
MainSeesEntry == pc[Main] = "exchange" => mine[Main] # write

(* While entries wait and no signal is due, a thread is awake that will    *)
(* look at the ring again before it sleeps.                                *)
SomeoneLooks ==
  sem = 0 /\ pc[Main] \notin {"tally", "release"} /\ read # write =>
    \E t \in Worker : pc[t] # "wait" /\ (pc[t] = "compare" => mine[t] # write)

AlwaysInv ==
  /\ TypeOK
  /\ AddsInBound
  /\ MainSeesEntry
  /\ SomeoneLooks

(* The entries that Main wrote, also the one it has not published yet.     *)
Written == added + (IF pc[Main] = "publish" THEN 1 ELSE 0)

(* The same, with the one that Main is to write next.                      *)
Claimed == added + (IF pc[Main] \in {"fill", "publish"} THEN 1 ELSE 0)

(* The indices are the counts on the ring, and the ring is never full, also *)
(* while Main fills a place it has checked.                                 *)
RingPlaces ==
  /\ read = taken % Size /\ write = added % Size
  /\ taken <= added /\ Claimed < taken + Size

(* The places hold the last entries that Main wrote.                       *)
RingContents ==
  \A n \in 0 .. (Written - 1) : Written <= n + Size => entries[n % Size] = n + 1

(* Each thread that holds an entry has one of its own, the one it took, and *)
(* Main is not a lap ahead of one that is yet to copy it.                   *)
EntryInHand ==
  /\ \A t \in Holders : number[t] < taken
  /\ \A t \in Thread : pc[t] = "copy" =>
       mine[t] = number[t] % Size /\ Claimed <= number[t] + Size
  /\ \A t \in Thread : pc[t] = "run" => entry[t] = number[t] + 1
  /\ \A s, t \in Holders : number[s] = number[t] => s = t

(* What was taken has been run, once, but for what a thread is yet to run. *)
RanTaken ==
  \A w \in Work :
    ran[w] = IF w <= taken /\ \A t \in Thread :
                  pc[t] \in {"copy", "run"} => number[t] + 1 # w
             THEN 1 ELSE 0

(* The two counters are equal up to what is in the ring or in hand, and are *)
(* only reset when that is nothing.                                         *)
CountersAgree ==
  /\ pc[Main] # "clearDone" =>
       toDo + Uncounted = done + (added - taken) + Cardinality(Holders)
  /\ pc[Main] \in {"clearToDo", "clearDone"} => taken = added /\ Holders = {}
  /\ pc[Main] = "clearDone" => toDo = 0

(* What holds until a thread is overtaken.                                 *)
UnlappedInv ==
  /\ RingPlaces
  /\ RingContents
  /\ EntryInHand
  /\ RanTaken
  /\ CountersAgree

QueueInv == AlwaysInv /\ (~ lapped => UnlappedInv)
===============================================================================

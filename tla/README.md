# udp_architecture: a formal model

The repository is a client and a server that exchange UDP packets. Reliability
is built on top: every packet acknowledges the last 32 of the other side, and a
message marked critical is sent again when the packet that carried it was not
acknowledged. This directory holds TLA+ modules of that machinery, the TLC
configurations that check them on small instances, and TLAPS proofs.

Line numbers below are of `src/src/udp_client.cpp` ("client") and
`src/src/udp_server.cpp` ("server").

## 1. The system

| Component | State | Operations | Where |
|---|---|---|---|
| Acknowledgement protocol | `packet_seq`, `packet_seq_bit`, `remote_seq`, `remote_seq_bit`; the same four per client in the server | send a packet, accept one, read its acknowledgements | client 632-708, 753-763; server 765, 849-932, 976-987 |
| Message queue | `queue_message`: 32 slots, the packet bit each was sent in, `begin`, `next` | `CreatePackages`, `GetNextAvailableMessageInQueue`, packing, the resend scan | client 210-286, 482-538, 765-793; server 408-484, 641-713, 989-1019 |
| Client program | the two above, `my_status_with_server` | a frame every 500 ms | client 469-839 |
| Server program | one `client_info` per client | a frame every 50 ms: loss check of all clients, one datagram, time-outs and sends | server 626-1062 |
| Client registry | `hash_map`: chains, `entries`, free list | `Client()`, `RemoveClient()`, the sweep | server 105-263, 954-969 |
| Work queue | a ring of 256 entries, two indices, two counters, a semaphore | add, take, complete | `win32_multithread.cpp` |
| Console | two text buffers | append, swap, scroll margins | `console_sequences.cpp` |
| Arena, sockets, time, terminal, hash | | | `platform.h`, `*_network_udp.*`, `*_time.cpp`, ... |

How they interact. Each program is one thread. A client and the server share
nothing but packets; a packet has the sender's number (`seq`), the number of the
last packet it accepted (`ack`), a ring of bits for the 32 packets up to that
one (`ack_bit`) and the messages that fit. The loss check reads the ring of
confirmed packets and the queue; the status switch adds to the queue; the send
empties it into a packet and remembers in which bit. The server finds the
`client_info` of a datagram through the registry, and its sweep removes who was
silent for 5 s; the client is not told. The clients share the server's socket, of
which a frame reads one datagram. The work queue is compiled into neither program.

What is hard:

* numbers start at `UINT_MAX` and wrap with the first packet, rings wrap every
  32 packets, and both must agree;
* the network loses, delays, reorders and duplicates;
* the two programs run at different rates (2 and 20 packets per second, one
  datagram read per frame), so acknowledgements get older than the window;
* an `Assert` reads address 0 when it fails, so a condition on a received packet
  that does not hold ends the process, and the server ends for all clients;
* the sweep of the server removes records from the array it walks, and the records
  pass from one client to the next while packets of both are in flight;
* the queue keeps sent messages in place, and tells by ring bits, which repeat,
  what to send again;
* the threads of the work queue share a ring without a lock.

What makes each part correct: a packet counts as confirmed only if it was
accepted, and a ring never lies about a packet (protocol); a critical message is
never forgotten, never doubled and arrives in the end (queue and programs);
clients and records never mix, and only who is silent is removed (server);
chains, entries and free list describe the same set of clients, and a sweep
serves each of them once (registry); work is run once, and all of it before a
completion returns (work queue).

`PROJECT.json` lists, under `hazards`, each place where these can go wrong and
the properties that would notice.

## 2. The modules

* `SeqRing` - u32 sequence numbers with `SeqSpace` for 2^32 and bit arrays of
  `Window` bits for 32. A bit array is the set of its indices. `RingMask` is the
  mask arithmetic of both programs with its shifts, complement and flip;
  `RemoteBitAfter` and `SeqBitAfter` are the two updates of a received packet.
  `RingAssumption` says that `Window` divides `SeqSpace` at least twice.
* `Link` - one client, the server's record of it and the network: `Send`,
  `Accept`, `Ignore` (`lost_on_purpose`: only acknowledgements are read),
  `Abort` (an Assert ended the process; `halted` says which), `Lose`. `accepted`
  is a history variable, the truth that the rings are compared with. One action
  receives a whole datagram, as the program does between two system calls.
* `MsgQueue` - operators for `queue_message`: `PutMessage`
  (`GetNextAvailableMessageInQueue`), `Pack` (the packing loop), `Resend` (the
  resend scan). A slot that was never sent holds index 32, and the code shifts 1
  by it: `UnsetReadings` has the values a build can give to that. An operation that
  would end the process leaves the way in `ended`: an Assert (`assert`), an index past
  the array (`wild`) or a loop without end (`hang`).
* `Queue` - one `queue_message` under its whole interface: `Poll` (the loss check
  and at most one acknowledgement), `CreatePackages` for data of any size, critical or
  not, with the fragments it makes, `SendArrives` and `SendLost`. Of `Link` it keeps
  what `AckSound` says, that only accepted packets are confirmed: an acknowledgement is
  one that the peer can have sent (`Confirmable`). `Limits` names the limits that the
  calls respect (`WithinLimits`), which the code does not test and needs: `end`, `next`
  stays below the last slot, for it is not masked (server 414); `inWay`, no unconfirmed
  critical message is in a slot that a call takes, for moving it leaves its packet's bit
  behind (431); and even if all critical messages that the slots still hold, confirmed
  ones too, are sent again, a slot is left (`space`, 704) and all fits in one packet
  (`size`, 1000). The run `Queue` respects all four and says what the queue does
  there; it says nothing about the hazards beyond. `QueueLoss` leaves `size` out, and
  section 4 says what leaving out each of the others does. `QueueLoss` uses
  `InOrderSpec`, where no confirmation is taken back, so that what it finds does not need
  a late acknowledgement.
* `Session` - the frames of both main loops over `MsgQueue` and `Link`. A frame
  has two steps: the loss check, `recvfrom` and status switch
  (`ClientPoll`, `ServerPoll`), and the send (`ClientSend`, `ServerSend`, or
  `ServerSkip` when 50 ms have not passed). Between the two only the endpoint's
  own state is used, so nothing is lost by not splitting further. Quitting and
  a failing `sendto` are left out: a packet that could not be sent is one that
  was lost.
* `ClientMap` - the registry. Records are places of `bucket_list`, and pointers
  are records or `Null`. `ClientNew` is `Client()` for an unknown address
  (a known one changes nothing), `ClientFull` its Assert, and the sweep goes
  entry by entry: `SweepRemove` is `RemoveClient` and `entry_index -= 1`,
  `SweepKeep` the other branch. Which client was silent for 5 s is left open.
  `MCClientMap` gives the hash function.
* `Server` - the server with several clients. It uses the actions of `ClientMap` through
  an instance, `M`, and adds to each record its numbers and its age (`info`), the socket
  all clients share (`inbox`), the clients with their numbers and sockets (`backlog`),
  and the time-out that decides between `SweepRemove` and `SweepKeep`. `ReadKnown`,
  `ReadNew` and `ReadFull` are the three ways of `Client()` with the Asserts after it
  (`Verdict`); `fault` says which failed on whose packet. After a removal the iteration
  goes on with the freed record and may send one more packet from it: `SendDue` in
  `SweepRemove`. Time is counted in frames: `EndSweep`, the sleep, makes the records
  older. A client's frame is one step, taken before the server looks for a datagram,
  because the rest of the server's frame does not see what arrives. Rings, queues and
  messages are left to the other modules. The sockets lose packets, but keep the order
  of the others and repeat none: what reordering does to the server is the same for each
  of its records and is in `Link` and `LinkReorder`. A restarted client has a new port,
  so it is a new address. `MCServer` gives the hash function, two addresses in one
  place, and the bounds.
* `WorkQueue` - threads that take entries from the ring, and one, `Main`, that adds and
  completes. `pc` says where each thread is, and each access of a shared variable is a
  step: `ReadIndex`, `CompareWrite`, `Exchange`, `CopyEntry`, `RunEntry`, `CountDone`
  are the lines of `DoWorkOnQueue`, `CheckRoom` to `Release` those of `AddWorkToQueue`,
  `TestDone` to `ClearDone` those of `CompleteWorkQueue`. `Wake` is the semaphore. An
  entry is two words: what a thread copies while `Main` fills the place may be neither
  entry. `Main` may come round the ring to an entry that a thread took and has not
  copied; `lapped` is a history variable that remembers that a thread was overtaken.
  Nothing in the code prevents it; most properties are promised until then, and
  `OvertakenByLap` says how long that is. Nothing in the repository uses the queue yet:
  that one thread adds, and that handlers leave the queue alone, is an assumption about
  its use.
* `SeqRingProofs`, `LinkProofs`, `SessionProofs`, `ClientMapProofs`, `ServerProofs`,
  `WorkQueueProofs`, `QueueProofs` - theorems about the module of that name, section 5. `NatLemmas`
  has what several of them need of natural numbers.

`Session` refines `Link`: with `net` mapped to the headers of its packets, every
step of a session is a step of `Link` or leaves its variables alone (`LinkSpec`).
`Link` is thus the abstract specification of both programs' acknowledgements, and
what is proved of `Link` holds in a session. `Server` takes the registry's steps
from `ClientMap`, and with them what is proved of it.

Definitions whose comment begins with "Mutant" stand for plausible mistakes in
the definition after them. No behaviour uses them; each shows that some property
would notice the mistake.

## 3. The runs

`tlc -config X.cfg M.tla`; sizes are distinct states.

| Run | Instance | Shows |
|---|---|---|
| `Link` | `Window` 3, `SeqSpace` 6, 2 in flight each way, losses both ways, reordering and duplication towards the server; 770 thousand | What counts as confirmed was accepted (`AckSound`); a receiver's ring is right about every packet (`RingExact`); `AckNeverAhead`; for the client, to which packets come in order: no Assert fails (`NeverHalts`), a confirmation is not taken back (`AckMonotone`), because an acknowledgement in flight confirms what earlier ones do (`AcksCumulate`); `LinkInv` |
| `LinkReorder` | violation | `NeverOutOfOrder`, section 4 |
| `LinkGap` | violation | `GapSurvived`, section 4 |
| `Session` | `Window` 2, two slots, lag beyond the window, delays, losses both ways, reordering; 1.1 million | the critical message is kept (`CriticalKept`), has one copy (`OneCopy`), is confirmed only when processed (`ConfirmedHeard`), also when acknowledgements come too late, delivered messages are sent again and Asserts fail; its steps are steps of `Link` (`LinkSpec`); `SessionInv` |
| `SessionLive` | losses towards the client or towards the server, fairness; 35 thousand | the request arrives (`AuthArrives`) and the reply (`ReplyArrives`) |
| `Queue` | 5 slots, `Window` 2, 3 calls of 1 or 3 units (the latter makes 3 messages), all four limits; 543 thousand | within limits no critical message is forgotten (`CriticalKept`) or doubled (`OneCopy`), and no operation ends the process (`Survives`); `SlotsInv` |
| `QueueLoss` | violation; without `size` | `CriticalKept`, section 4 |
| `ClientMap` | 5 addresses, 5 records (4 are handed out), 2 places; 165 thousand | `EntriesExact`, `ChainsExact`, `FreeNotInUse`, `RoomForEntry`, `SweepComplete`, `VisitOnce`, `RegistryInv` |
| `ClientMapLeak` | violation | `FullOnlyWhenFull`, section 4 |
| `Server` | 2 clients in one place of the table, 3 records (2 are handed out), `Timeout` 1 frame, at most 3 packets from one client and 2 from the other, sockets that lose but keep the order; 1 million | clients and records are never mixed up (`InStep`); only a client that comes back after its removal, or a full registry, ends the server or a client (`EndsOnlyOnReturn`); only the silent are removed (`LiveKept`), and in the end all of them (`Forgets`); `ServerInv` |
| `ServerReturn` | violation | `AckRefersLower`, section 4 |
| `WorkQueue` | 2 threads and `Main`, 3 places, 4 pieces of work, fairness, until a thread is overtaken; 113 thousand | a thread is overtaken only by a whole lap (`OvertakenByLap`), and until then: `RunOnce`, `CompleteMeansDone`, `Accounted`, `NoLostWakeup`, `EveryWorkRuns`, `CompleteReturns`; `QueueInv` |

An invariant whose name ends in `Inv` is the inductive one of the component's proofs.
It has `TypeOK` among its conjuncts, which the run therefore does not name again.

Bounds. `SeqSpace` is twice or three times `Window`, so numbers wrap soon and again and
again; nothing in the code depends on 32 or 2^32 but the divisibility that
`RingAssumption` states, and the theorems lift the Link properties to all sizes.
`MaxLag` bounds how far an endpoint runs ahead of its peer. In `Link` it stands for the
fact that 2^31 packets are not in flight at once, without which u32 numbers are
ambiguous; it is below `Window` where the run asks what happens when the peers keep up
and above it (`LinkGap`, `Session`) where they do not. `MaxInFlight` is 2 in `Link`,
enough for two packets to change places. A session is followed until the critical
messages of `Follow` arrived and, with `Linger`, the packets that carried them have left
the window (`Settled`): after that the shipped programs only exchange empty packets,
which is `Link`. `Session` lingers, because a message that arrived may be sent again;
`SessionLive` stops at the arrival. Two slots suffice for programs that queue one
critical message each, and `SessionAssumption` asks for that many: `next` is taken
unmasked by the next call (server 414), and with a single slot the first message would
move it to the end of the array. `Queue` is for all other callers. `LossKinds` lists the
networks of a run, of which each session has one (`lossy`). `SessionLive` follows the
reply, which waits for the request, so both must arrive, with losses in one direction at
a time, to keep TLC's graph small; `Delay` FALSE there means that a packet arrives or is
lost before its receiver polls again. `ServerKeepsUp`, `NothingDue` and `MayBeLost` keep
the bound `MaxLag` from stopping an endpoint for good. In `Queue` three calls suffice to
fill, send, lose and resend around five slots while bits of the ring repeat every second
packet; four calls with four slots and a window of 3 with three calls were checked too.
`QueueLoss` needs only one call.

In `ClientMap` three addresses share a place, so a record is unlinked from the head, the
middle and the end of a chain, and the registry fills up.

In `WorkQueue` the ring wraps after three entries and can be full, two threads race for
one entry while `Main` takes part in completing, and a thread can be overtaken: `Main`
comes round to an entry that a thread took and has not copied when the third entry
after it is added, with 256 places the 256th. Four pieces of work fill the ring, wrap it and
overtake. A behaviour is followed until then (`UntilLapped`, a constraint of the
run): afterwards nothing is promised but `AlwaysInv` and `NoLostWakeup`, which are proved,
and the liveness properties excuse it. Five pieces were checked too, and for safety alone
four pieces without the constraint, 3.1 million states.

In `Server` packets are counted (`MaxSent`, `MaxReplies`), since the wrap is `Link`'s
subject; the window is larger than those bounds, so that no gap ends an
endpoint and `EndsOnlyOnReturn` speaks of everything else. Records are handed out
again, to the same client and to the other, both leave in one sweep, and the
registry fills by its leak. One frame of `Timeout` stands for 100: only its
end matters. Two packets fit in the server's socket and one in a client's; either
may lose any packet.

Fairness. Both loops run on and never wait for each other, so a step of a frame
that stays possible is taken (weak fairness of the polls and sends). The server
sends whenever 50 ms have passed, which happens again and again though not in
each frame (strong fairness of `ServerSend`). Of the network, and of
`rand() % 20`, it is assumed that not every packet that carries a message is
swallowed (strong fairness of accepting one); without it no protocol could
promise arrival.

Threads of the work queue are scheduled fairly, and a call of `Main` runs on (weak
fairness of each thread); that `Main` ever calls `CompleteWorkQueue` is not assumed.
The server's loop runs on (weak fairness of `ServerStep`); a client may stop at any time.

Deadlock is not checked: the Assert of a full work queue ends its process, an endpoint
that failed an Assert stops, a settled session stops by its bound, a `Link` at `MaxLag`
waits for its peer, and a server or queue whose process ended does nothing more.

## 4. Where the code and its comments disagree

* **Reordering ends the process** (`LinkReorder`). server 850: "unless crafted
  package, recv package should always be higher than our record". A genuine
  packet that another overtook is not; the Assert at server 851, client 635
  fails.
* **A long gap ends the process** (`LinkGap`). server 864: "if delay is beyond
  1 s we nullify our bit array". The Assert at 859 comes first, so the branch
  never runs. In the run all packets but one of a window are lost or ignored,
  31 with the shipped sizes, and the next is 32 ahead. A client whose first 31 packets
  find no server, about 15.5 s, has the same effect.
* **The registry leaks** (`ClientMapLeak`). `RemoveClient` (server 247) sets the
  freed record's link to what follows the first free record, not to that record:
  it is lost. The server ends at "not implemented, resize hash_table" (140) while
  `entries_count` is small. In the run two clients leave in one sweep, one record is
  lost, and the server gives up with three of four in use. The shipped sizes hand out
  191 records, of which each such removal loses one.
* **A fragment is never sent** (`QueueLoss`). `protocol.h` 47: "8 bit is a signal if
  critical message (must be ack)". The packing loop (server 994-1018, client 771-792)
  skips a message that does not fit, goes on, and moves `begin` by one for each
  message packed, so `begin` ends past the skipped one when a shorter one after it fits.
  490 bytes of critical data suffice with the shipped sizes.
* **A client that comes back ends the server** (`ServerReturn`). server 896: "unless
  crafted package, ack package should refer to lower". The server forgets a client
  after 5 s, the client does not know, and what it acknowledges is not lower than the
  `UINT_MAX` of its new record. In the run it acknowledges the very packet that the
  server sent while it removed the client.

Beyond these, three limits of `Queue` and the one of `WorkQueue` are places where the code
goes wrong for callers that the repository does not have. They have no run of their own;
each is found by TLC when `Limits` in a configuration leaves one out, with
`InOrderSpec`, or by the invariant `~ lapped`:

* `inWay` (`SeqSpace` 8, `Window` 4, `Slots` 6, `Capacity` 20, sizes 1 and 3, four calls):
  a call that takes the slot of a critical message not yet confirmed moves that message
  to the first slot that counts as confirmed (server 431, client 233), but not the bit of
  its packet, so the loss check does not find it and `CriticalKept` fails.
* `space` (`Window` 2, `Slots` 4, `Capacity` 20, size 1, four calls): the resend scan
  advances `next` for every critical message with the bit of the lost packet, confirmed
  ones too, and does not mind `begin` (server 704, client 533). When they meet the queue
  reads as empty, a lost message is never sent, and `CriticalKept` fails.
* `end` (the same, `Capacity` 9): server 414 masks the index that it returns and not
  `next`. After as many calls as there are slots `next` is past the array, whatever the
  messages were, the packing loop never meets it, and `Survives` fails. The comment at
  416 expects this only "if all packages are critical and none is ack". With the
  shipped sizes it is the 32nd message of an endpoint.
* A lap of the work queue: the Assert of `AddWorkToQueue` (`win32_multithread.cpp` 57)
  compares with `CurrentRead`, which moves on (28) before the entry is copied (30).
  `Main` may come round the ring in between, pass the Assert and write over the entry: that
  work is lost and another runs twice, or a mixture of both runs.

The receiver looks for the second message of a packet a hundred times too far on, because it
adds a number of bytes to a pointer to `message` (server 782, client 611). No packet of
the two programs has two messages, and it is not modelled.

## 5. The proofs

Each component's proof has the same plan. An inductive invariant (`LinkInv`,
`SessionInv`, `RegistryInv`, `ServerInv`, `QueueInv`, `SlotsInv`) holds initially and is kept
by each action, with a lemma per action; each property of the component
follows from it. The component's module defines the invariant as a conjunction of
named parts, and the component's run checks it too. The theorems hold for all
values of the constants that satisfy the module's `ASSUME`.

**Link.** `LinkInvariant`, `LinkTyped`, `LinkAckSound`, `LinkRingExact`,
`LinkAckNeverAhead`, `LinkNeverHalts`, `LinkAcksCumulate`, `LinkAckMonotone`: all its
properties, for every `SeqSpace`, `Window`, `MaxLag`, `MaxInFlight` and kind of
network. `RingAssumption`: `Window` > 0 divides `SeqSpace`, at least twice;
`LinkAssumption`: `MaxLag` is between 1 and half of the number space.

Numbers wrap, so packets are placed by age: how many packets their sender has
sent since. `LinkInv` says that nothing in flight or recorded is older than `MaxLag`
(`Horizon`); that from the last accepted packet back the receiver's ring and the truth
agree (`RingsAgree`) and nothing after it was accepted (`NoneNewer`); that every
acknowledgement in flight is true for as long as its bits belong to the same packets
(`AcksTrue`); and, if the network keeps the order, that what is in flight is newer than
what was accepted, with no two packets alike (`InFlightNewer`). `AckSound` alone is not
inductive: reading an acknowledgement keeps it only if that acknowledgement is
true, and it was true when sent only if the receiver's ring agreed with
history. Sending makes all ages one greater and hands the oldest bit to the new
packet (`SendStep`); accepting moves the ring (`AcceptStep`). Both rest on
`SeqRingProofs`: `IndexBefore` (`seq & 31` walks back in step with `seq - n`, over the
wrap, because `Window` divides `SeqSpace`), `MaskBits` and `MaskBefore` (what the shifts
compute), `RemoteBits` and `ConfirmedBits` (the two updates, age by age), and `Closer`
(`IsSeqGreaterThan` and `abs` compare ages within half the space).

Reading an acknowledgement replaces the sender's whole ring. That this takes no
confirmation back on a network that keeps the order (`AckMonotone`) is not a
consequence of `LinkInv`, because a true acknowledgement may still confirm less than
one read before it. It needs the second invariant `AcksCumulate`: each acknowledgement
in flight confirms what its receiver knows already and what those before it confirm.

**Session.** `ImplementsLink` (`Spec => LinkSpec`), `Consistent` (`SessionInv`),
`TypesKept`, `CriticalIsKept`, `NeverCopied`, `ConfirmedIsHeard`: all but liveness, for
every window, number of slots and network, and every choice of what is followed.
`SessionAssumption`: at least two slots, `MaxLag` as in `Link`.

The refinement goes step by step: the send is `Link`'s `Send`; the poll that reads a
packet is `Accept`, `Ignore` or `Abort`; a packet that disappears is `Lose`; a poll
that reads nothing and a skipped send leave `Link`'s variables alone. With it the
invariant of `Link` holds of the headers, through an instance of `LinkProofs` with the
same mapping. `SessionInv` adds that before its status changes a queue is as new, and
then has the one critical message in one slot and nothing else (`QueuesHold`); that
there the message waits as the only one, or else is heard, or was sent in a packet
marked critical whose bit is not the next to be handed out (`Marked`), since the loss
check comes before each send and would have found it; that packets in flight
differ in their numbers (`NumbersDiffer`); that a packet whose bit is marked critical
carries the message (`LoadsMarked`), as long as its sender remembers it; and that
what was accepted of those was processed (`AcceptedHeard`). The last two link a
ring bit to what the peer did: without them `ConfirmedHeard` is not inductive.
Resending is proved of the queue's operators themselves: in a queue with a message
`Alone` in a slot, `Resend` moves it to `next` or leaves it, and `Pack` takes it.

**ClientMap.** `Consistent` (`RegistryInv`), `TypesKept`, `EntriesAreExact`,
`ChainsAreExact`, `FreeIsFree`, `EntriesHaveRoom`, `SweepsAreComplete`,
`SweepsVisitOnce`: all its properties, for every set of addresses, number of records
and places and hash function. `MapAssumption`: there is a record, the hash
function gives places, and `Null` is neither an address nor a number.

`ChainsExact` follows chains with a recursive function, of which a step that relinks
one record says nothing directly. The invariant therefore says of each record only
what its neighbours are (`ChainsLinked`): there is a numbering `pos` of the records in use
that is 0 at the head of each chain, one more at the next record, and tells the
records of a place apart, and only the record with the greatest number has no next.
Such a numbering is given anew by each action: `ClientNew` numbers the record that it
puts at the end of a chain after the last, and `SweepRemove` takes one from the numbers
after the record that it unlinks. That the walk visits exactly the records of a place
follows from the numbering by induction on the length of the walk (`ChainMembers`), and
that `BucketCount` steps are enough for it from `Pigeonhole` (`ChainBound`).
`FreeShort` says what the registry's leak comes to: the free list never has more
than one record, without a next, so that the records handed out are at least
those in use and on the free list. `RoomForEntry` follows. `SweepSplit` says that
a sweep has visited what was due when it began but for the entries ahead of it; a
removal moves the last entry to the sweep's own place, which is ahead because
`entry_index` goes back by one.

**Server.** `Consistent` (`ServerInv`), `TypesKept`, `OneSession` (`InStep`),
`LossesEndNobody` (`EndsOnlyOnReturn`), `OnlySilentRemoved` (`LiveKept`): all but
liveness, for every set of clients, hash function, time-out and size of the registry
and of the sockets. `ServerAssumption` has that of `ClientMap`, that `Null` is no
verdict either, and that `MaxSent` and `MaxReplies` are at most half of the
number space: packets are counted from the start, and the wrap is left to
`Link`. The window may be any; `EndsOnlyOnReturn` speaks by its own words of bounds
below it, so that no gap of a window occurs, and it rests on sockets that keep the order.

Each step of the server is a step of the registry or leaves it alone, and each keeps
`RegistryInv` by the lemmas of `ClientMapProofs`, instantiated with `halted` as the
`fault` of a full registry. The other parts say of each client that was never removed
(not in `outlived`) that the server's record knows of no packet that the client has not
sent, and every packet of it that waits is newer than what the record knows
(`RecordInStep`); that the packets in the server's socket are in order, were sent
and acknowledge what was sent (`InboxInStep`); the same for the client's own socket
(`BacklogInStep`); and that a record was silent no longer than its client was
(`SilenceMeasured`). `InStep` is not inductive without the order in the sockets:
that the Asserts hold of the packet read now has to be known of those behind it too.
The removal, after which `SendDue` still sends from a record that is free, keeps them
because that packet goes to the client that has just come to be in `outlived`.

**WorkQueue.** `Consistent` (`QueueInv`), `TypesKept`, `RunsOnce`, `CompletionIsDone`,
`OvertakenOnlyByLap`, `CountsAreKept`, `WakeupsAreKept`: all its safety, for any number
of threads, places and pieces of work. `QueueAssumption`: some threads, finitely many,
and `Main` not one of them; at least two places. Nothing is assumed about how far a
thread falls behind: the properties themselves say `~ lapped` where they need it, and
`NoLostWakeup` does not.

`QueueInv` has two parts. `AlwaysInv` holds whatever happens: `SomeoneLooks`, from which
`NoLostWakeup` follows, that while entries wait and no signal is due some thread will
look at the ring again before it sleeps; it needs that `Main` alone moves `CurrentWrite`
(`MainSeesEntry`) and nothing of the entries. `UnlappedInv` holds until `lapped`. It
counts entries without wrapping. The indices are the counts `taken` and `added` on the
ring, which is never full, counting also the place that `Main` has checked and not
filled yet (`RingPlaces`); the last `Size` places hold what was last written
(`RingContents`); each thread that holds an entry has one of its own, and while it is
yet to copy it, that entry is less than a lap behind `Main` (`EntryInHand`); what was
taken was run, once, except for what is in hand (`RanTaken`); and what was added is
either done, in the ring, in hand or not yet counted (`CountersAgree`), also while
`Main` is between its two increments or its two resets. `lapped` is set at two steps,
and there only: by the exchange of a thread that finds `CurrentRead` where it left it
although nothing is left to take, and by the Assert that lets `Main` write to a place
that a thread is yet to copy.

How far behind a thread must be for that is `OvertakenByLap`. It follows from
`UnlappedInv` for a thread that copies; for one that is about to exchange it needs to be
known that its index is the place of the count `taken` when it read it, and that more
than that was added, for it found the ring not empty (`IndexInHand`, in the proofs). Two
counts at one place are equal or a lap apart (`PlaceEqual`), and they are not equal. So
all that the other theorems say until `lapped` holds outright as long as no thread
sleeps between reading `CurrentRead` and copying its entry while `Size` entries are
added.

**Queue.** `Consistent` (`SlotsInv`), `TypesKept`, `CriticalIsKept`, `NeverCopied`,
`NeverEnds`: all its properties, for every number of slots, window and capacity, every
size of data and of a fragment, and any number of calls. `QueueAssumption`: a slot and
some capacity; `CallAssumption`: sizes are natural numbers. Each theorem has the
hypothesis `AllLimits`, as the run has: section 4 shows that none of the four can be
spared.

Three parts of `SlotsInv` carry the argument. `HasSpace`: the messages that wait or are
critical (`Pending`) are fewer than the slots and fit in one packet, all of them. So
`next`, which advances once for each message that is queued again, does not meet
`begin` (`RoomToMove`), and the packing loop skips nothing (`PackAll`). Moving a message
from one slot to another adds nothing to the number and the sizes (`SizeMove`).
`Ordered`: the messages that were sent follow each other from `next` on in
the order in which they were sent, as far as they were not delivered. The scan
goes the same way and writes over the slot at `next`; the message there was
either delivered, or it is of the lost packet too and was moved before
(`RequeueStep`). Without `Ordered` `Kept` is not inductive: the scan would write over
a message of a later packet, and no condition in the code prevents that. It is kept
by a send because the messages sent take the places farthest from the new
`begin` and the bit that is youngest (`AwayFromNext`, `SendStep`), and by the scan
because what it moves waits from then on. `NoneDue`: after the loss check no
undelivered message is in the packet whose bit the next send takes over; without it a
send would make that message look as if it had been in the new packet.
`CreateStep` rests on the limits: the slots it takes (`Taken`) hold nothing that is not
confirmed, so each message goes where it is put (`PutPlain`), and none that was there
is lost.

Sums and loops are recursive functions. `TotalUnfolds`, `ResendUnfolds`, `PutAllUnfolds`
and `PackUnfolds` say that such a function is defined for each step; `Good` is what the scan
keeps from slot to slot (`ResendGood`), `IsPacked` what the packing loop keeps
(`PackOneMore`).

`NatLemmas` has what these need of numbers. Induction in the form with an operator for
the hypothesis is not available to the provers; `SetInduction` states it for a set
instead, and is proved from the well-foundedness of the natural numbers, so that what a
recursive function computes can be proved after all. `WalkExists` (a function that
follows links is defined for every number of steps), the members of a chain and the
resend scan rest on it. `Pigeonhole` (n numbers do not go into fewer places) bounds the
length of chains. `PlaceUnique`, `NextPlace` and others are about a ring: two counts
less than a lap apart are equal if their places are.

Only model-checked:

* Liveness: `AuthArrives` and `ReplyArrives`, `EveryWorkRuns` and
  `CompleteReturns`, `Forgets`. Reasoning about fairness is out of the prover's reach.
* `Queue` beyond its limits, and `WorkQueue` after a thread was overtaken but for its
  wake-ups, for there the properties do not hold.
* The violations of section 4, which are behaviours and not theorems.


## 6. Not modelled

* Murmur hash (any function will do), sockets, clocks, terminals, logs of
  clients: input and output.
* The average round trip and the status display: nothing reads them.
* The memory arena: filled once with constant sizes.
* `IsSeqGreaterThan` for u16, `IPToU32`, `printBits`, `ReadLastClientEntry`:
  not used by the protocol.
* Quitting a program, and a `sendto` that fails and ends the server (1029).
* The bytes of fragments: `CreatePackages` copies the first 96 bytes into each of them
  (server 479), and nothing puts them together again.
* The console: two buffers, of which differing rows are drawn. Output that nothing
  reads; its two weak places are among the hazards.

## 7. Plan

* The order in which critical messages of one queue are delivered.
* `Queue` from both ends: the acknowledgements that `Confirmable` leaves open taken
  from `Link`, as `Session` has them for its one message.
* Weaker conditions than `WithinLimits`: none of its four limits can be dropped, but each
  may be stronger than it need be.

# A TLA+ model of WTP

This directory models, model-checks and proves properties of the two WTP
implementations of this repository: the *base* programs `wSender` and
`wReceiver` (`src/cpp/src/base`) and the *opt* programs `wSenderOpt` and
`wReceiverOpt` (`src/cpp/src/opt`). They transfer one file after another over
UDP with START, DATA, END and ACK packets and a sliding window. Paths below
are relative to `src/cpp/src`; "README:n" is a line of `src/README.md`, which
is the protocol's specification.

## 1. Inventory

| Component | State | Operations | Correct when |
|---|---|---|---|
| `wSender` (`base/Sender.cpp`, `base/Window.cpp`) | random START number, window (deque of unacknowledged packets), read offset, position in `main` | `startConnection`, `sendData`, `endConnection`, `receiveAck`, the `Window` operations | a chunk leaves the window only when it is stored; END follows the whole file; the window never underflows; it gets to END |
| `wReceiver` (`base/Receiver.cpp`) | `connection`, `next_seq`, `counter`, `startACK`, `receivedPackets` (map), the files on disk | the START, END and DATA branches of `startReceiving`, `writeToFile` | files hold the chunks in order without gap or repetition; only stored data is acknowledged; it is ready for the next sender |
| `wSenderOpt` (`opt/Sender.cpp`, `opt/Window.cpp`) | as `wSender`, with an acknowledged flag and a send time for every packet | as `wSender`, with `markPacketAsAcked`, `determineWindowAdvance`, `updateSocketTimeout` | only received packets count as acknowledged; some packet's timer always runs; it gets to END |
| `wReceiverOpt` (`opt/Receiver.cpp`) | as `wReceiver` without a lasting `next_seq` | as `wReceiver` | keeps nothing beyond its window; stores the file |
| retransmission timers (`SO_RCVTIMEO`, `updateSocketTimeout`, `hasTimedOut`) | the socket's timeout, the send time of each opt packet | one `recvfrom`; a resend | the window, or each overdue packet of it, is resent within a bounded time; the socket never waits for ever |
| packet format (`*/Packet.*`, `common/PacketHeader.hpp`), chunks of the file | the sender's and the receiver's buffers | constructors, byte order, cutting the file, appending to the output | what is written is the file, byte for byte; an ACK reads back as the number that was meant |
| CRC-32 (`common/Crc32.hpp`) | the table | `crc32` | it is the CRC of its polynomial, and damage changes it |
| UDP (external) | datagrams in flight | loss, delay, reordering, duplication, damage | - |
| command lines, socket set-up, build files | - | - | not modelled, see section 8 |

*Interaction.* Sender and receiver share nothing but datagrams. Each is single
threaded and blocks only in `recvfrom`; the sender's `recvfrom` gives up after
500 ms. The receiver serves senders one after the other; every sender binds
port 9000, so a late ACK of one transfer can reach the next sender.

*Hard parts.* Every interleaving of the sender's loop, the receiver's loop and
the network; loss, duplication, delay and damage of each packet type; the
retry rules, which differ for START, DATA and END; a timeout that starts anew
with every datagram, and one computed from the ages of packets; sequence numbers of two
kinds (random for START and END, from 0 for DATA) compared with each other;
state of the receiver that survives a connection; failing reads and writes; a
sender that is killed, a receiver that is restarted. `PROJECT.json` lists these
hazards at their lines.

## 2. Modules

| Module | What it is |
|---|---|
| `WtpNetwork` | packets, chunks, and UDP as two sets of datagrams in flight |
| `BaseSender` | `wSender`: one action per stretch of code between two sleeps or loop turns |
| `BaseReceiver` | `wReceiver`: one action per branch of the receive loop |
| `BaseTransfer` | both with the network; the safety properties |
| `BaseTimers` | `BaseTransfer` with the clock of `SO_RCVTIMEO`; fairness and liveness |
| `ReliableTransfer` | the abstract specification: chunks are stored from the first on, only stored chunks are confirmed, the end follows full confirmation |
| `OptSender`, `OptReceiver`, `OptTransfer` | the same for the opt programs |
| `OptTimers` | `OptTransfer` with the send time of every packet and the socket timeout computed from them; fairness and liveness |
| `Crc32` | the table-driven checksum, and the shift register that the table sums up |
| `CrcDivision` | division by the polynomial, the definition that the table comes from |
| `WtpWire` | one transfer in bytes: cutting the file, headers in network order, the receiver's and the sender's buffers, checksums, flipped bits |
| `WtpWireRefinement` | the mapping of `WtpWire` to `BaseTransfer`: which packet, chunk and number the bytes stand for |
| `MCBaseTransfer`, `MCBaseTimers`, `MCOptTransfer`, `MCOptTimers`, `MCWtpWire` | finite instances for TLC |
| `WtpNetworkProofs` | lemmas about packets, sequences and numbers that both pairs' proofs cite |
| `BaseTransferProofs` | `BaseTransfer` over any network: types, the sender's window, the output files; its timed version implements it |
| `BaseSingleProofs` | theorems about one transfer, and its refinement of `ReliableTransfer` |
| `BaseSessionsProofs` | theorems about transfers that follow one another |
| `OptTransferProofs` | `OptTransfer`: types, the sender's window, what an ACK says, the receiver's window, the refinement; the clock of `wSenderOpt` |
| `Crc32Proofs` | the checksum of data of any length: it is the remainder of the division, and no burst leaves it unchanged |
| `WtpWireProofs` | theorems about the bytes of a transfer |
| `WtpPacketsProofs` | the transfer in bytes implements `BaseTransfer` |

Names follow the code: the variables are its variables (`next_seq`,
`receivedPackets`, `randSeqNum`, ...), operators such as `canAddPacket`,
`removeAcknowledgedPackets` or `writeToFile` are its functions, and `phase` is
the sender's position in `main`. The modules build on each other:
`BaseTimers` extends `BaseTransfer`, which extends `BaseSender` and
`BaseReceiver`, and `OptTimers` likewise. `WtpWire` stands beside them and
implements `BaseTransfer` through the mapping in `WtpWireRefinement`, as
TLC checks and `WtpPacketsProofs` proves. `PROJECT.json` maps each definition to
its lines. An operator whose name has a suffix (`writeToFile_Lost`) is a mutant, a
plausible bug that the checked property must detect; no specification uses it.

How the code is abstracted:

* A file is a number of chunks (`CHUNK_SIZE` pieces); a chunk is its file and
  its index. That bytes and lengths do not matter to the protocol is what
  `ImplementsPackets` shows.
* A packet keeps type, number, chunk, and `intact`: whether the checksum in
  its header is the CRC of its data. Damage to header fields other than the
  checksum is not modelled (the checksum does not cover them; UDP's does).
* `WtpWire` has the bytes. A byte or word is the set of its one bits. Both
  windows hold one packet, nothing is lost, and only data sections are damaged,
  so that one datagram at a time is under way. What a buffer holds beyond what
  was written to it is one arbitrary byte, repeated (`Garbage`).
* `receiveAck` yields a datagram, the type-4 packet of a timeout
  (`base/Sender.cpp:218-223`) or, if `recvfrom` fails otherwise, the packet
  parsed from the zeroed buffer (line 226), which has a valid checksum.
* A timeout may happen whenever the sender waits, also while an answer is under
  way: an answer may always be later than 500 ms.
* `pop_front` on an empty deque (`base/Window.cpp:16`) is undefined behaviour:
  the sender's phase becomes `undefined` and nothing is modelled after it.
* `writeToFile` writes `FILE-<counter>.out` in the working directory;
  `output_dir/FILE-<counter>.out` is only opened, which truncates it. The two
  are one file when `OutputDirIsCwd`. The one open may fail (`OpenFaults`) and the
  other (`WriteFaults`), and the program goes on as if it had not. `files[-1]` is `FILE--1.out`, written when
  DATA comes before any START.
* In `wReceiverOpt`, `next_seq` is assigned from the packet before each use
  (line 213) and is therefore not state.
* `BaseTransfer` and `OptTransfer` have no clock: a timeout may come at any
  time, and in `wSenderOpt` any unacknowledged packets may be overdue then.
  `BaseTimers` and `OptTimers` restrict both to what a clock allows. Time is
  counted in ticks for the code's milliseconds and passes only while the sender
  sleeps in `recvfrom`, which dominates by orders of magnitude; `recvfrom` gives
  up when its timeout has passed, or up to `Late` ticks after that. Clocks stop
  at `Horizon`, beyond the largest value the code or a property compares.

## 3. Properties

For one base transfer whose START ACK is not duplicated:

* `AckedIsStored`: an ACK n under way means n chunks on disk.
* `UnstoredIsKept`: what has left the window is on disk.
* `EndMeansComplete`: when END is sent the whole file is on disk.
* `WindowNeverUnderflows`: no ACK pops more packets than there are. It relates
  the largest number the receiver has acknowledged to `offset`.
* `WindowIsContiguous`: the window is the run of chunks before `offset`, which
  is what makes `ack - front` a count of packets.
* `ImplementsReliable`: the composition of these in one refinement of
  `ReliableTransfer`. `stored` is the longest prefix of the file that some
  output file holds, `confirmed` what was sent and has left the window,
  `finished` that END was sent.

For any number of base transfers:

* `FilesHaveNoGaps`: the k-th chunk of an output file has number k-1 and the
  current file has exactly `next_seq` chunks.
* `FilesInOrder`: the weaker form that survives failing writes: numbers strictly
  increase.
* `FilesOnlyGrow`: an action property: until the receiver is restarted only the
  current file changes and only at its end.

The first two, and `FileIsOwn` below, have a condition in their formula,
`FilesBeginEmpty`: START truncates the file that DATA is appended to
(`Truncates`: the output directory is the working directory, and opening it does
not fail), or the receiver has not been restarted. Without it they are false:
with `-d /tmp` (README:120) a restarted receiver appends to the old
`FILE-0.out`, as the run `files_left` shows. `base_faults` checks the other case
for `FilesInOrder` and `FileIsOwn`; `FilesHaveNoGaps` with a restart is proved
(`FilesStayGapless`) and not run.

* `ConnectionIsOwn` and `FileIsOwn`, for transfers between which the network
  falls silent (`QuietLaunch`: a user starts the next sender only when nothing
  is under way). A sender whose START was acknowledged runs in a connection of
  its own and its output file holds chunks of its own file only, although END is
  not matched with `startACK`, DATA does not say which connection it belongs to,
  and `receivedPackets` keeps what a killed sender left in it: a new chunk
  replaces an old one of the same number before it can be written. Without
  `QuietLaunch` neither holds: a late END of the transfer before closes the
  connection, a late DATA packet goes into the file.

For the opt programs, over any number of transfers with `QuietLaunch`:

* `AckedIsReceived`: a packet is marked or gone only if the receiver holds that
  chunk of this file, and not one of an earlier file under the same number.
* `WindowIsOutstanding`: the window's front is never acknowledged, so a timer
  runs.
* `KeptWithinWindow` (README:140): what bounds the receiver's map is only the
  sender's window.
* `ImplementsReliable`: the last transfer implements `ReliableTransfer` with the
  receiver's map in the place of the disk, because `wReceiverOpt` never writes
  its file.

With clocks:

* `TransferCompletes` of `BaseTimers`: the data of a sender whose START was
  acknowledged is transferred to the end.
* `TransferCompletes` of `OptTimers`: the same from START on, although every
  packet but START's ACK may be lost.
* `SleepIsBounded`: `SO_RCVTIMEO` is never 0, which would be no timeout.
* `ResentInTime`: an unacknowledged packet waits at most twice the timeout, and
  one late wake-up, for its resend or for some answer. Twice, not once
  (README:141): a process that wakes when a packet is exactly 500 ms old does
  not resend it (`opt/Packet.cpp:55`) and does not count it in the next timeout
  (`opt/Sender.cpp:229`).

On the wire:

* `OutputIsTheFile`: whatever the file's bytes and length and the damage to
  DATA, the bytes written are a prefix of the file, and all of it at END.
* `ChecksumIsCrc`: the table computes the CRC its comment names.
* `DamageIsDetected`: damage within 32 bits of a data section never fits the
  checksum.
* `AckReadsBack`: an ACK, sent as a whole buffer with an uninitialised end and
  read into a shorter one, means the number the receiver meant. (START's number
  goes through an `int`, `base/Receiver.cpp:153`, which has the same 32 bits: in the
  model that is no conversion, so nothing is tested there.)
* `ImplementsPackets`: the transfer in bytes implements `BaseTransfer`, with a
  datagram in flight mapped to the packet its receiver reads and the bytes
  written to the chunks they are. What that packet carries counts as intact only
  if it is, byte for byte, the chunk that its number names.

## 4. Runs

| Run | Instance | Checks |
|---|---|---|
| `base_transfer` | 1 session, 3 chunks, windows 2/2; everything but START ACKs repeated, DATA damaged, interrupts, two connections possible | the single-transfer safety properties and the refinement |
| `base_sessions` | 2 sessions of 2 chunks, windows 2/2, no restart; START's open may fail; every datagram of both repeated at any time | `FilesHaveNoGaps`, `FilesOnlyGrow` |
| `base_faults` | 2 sessions of 2 chunks, windows 2/2, `QuietLaunch`; one restart of the receiver at any time, with `-d` naming the working directory and START's open succeeding; the first input file may not open, writes may fail; everything lost, DATA repeated, ACKs damaged, kills, interrupts | `FilesInOrder`, `ConnectionIsOwn`, `FileIsOwn` |
| `base_liveness` | 3 chunks, sender window 3, receiver window 2, timeout 2, `Late` 1; START, DATA, END lost | `TransferCompletes` |
| `opt_transfer` | 2 sessions of 3 chunks, windows 2/2, `QuietLaunch`; everything lost and repeated, DATA damaged | the opt safety properties and the refinement |
| `opt_timers` | 2 chunks, windows 2/2, timeout 3, `Late` 1; everything but START's ACK lost, ACKs damaged | `SleepIsBounded`, `ResentInTime`, `TransferCompletes` |
| `wire` | every file of one byte, files of up to 3 bytes out of 3, patterns of up to 11; chunks of 5 bytes; bursts of flipped bits; 3 START numbers | the properties on the wire |

In `base_transfer` and `base_sessions` `Lossy` is empty: for a safety property
a datagram that is never delivered is as good as one that is lost, and nothing
obliges the network to deliver. Where users wait for silence (`QuietLaunch`)
and in the liveness runs loss is explicit.

*Bounds.* `Sessions`, `MaxFiles` and `MaxRestarts` bound what users do; a
START that would open a file beyond `MaxFiles` stays in flight. Three chunks
through a window of two let the window slide, hold it full, and have a chunk
buffered ahead of a missing one and a duplicate below the window at the same
time. Two sessions are what it takes for a datagram, or a map entry, of one
transfer to reach another. `MaxFiles = 2` in the single-transfer run lets a late
copy of START open a second file. START numbers are above all data numbers: they
are drawn from 1..2^32-1, and a draw within the range of the data numbers is not
examined (`UnstoredIsKept` does not hold then). Timeouts of 2 and 3 ticks leave
room for an answer before, at and after the timeout, and 3 for two packets of
different ages that are both not due; `Late = 1` moves a wake-up past the edge
of both comparisons. On the wire, 5-byte chunks of files of 0 to 11 bytes are
the cases: no chunk, a short one, a full one, two and a rest, two full ones; all
256 bytes index every entry of the table. The `wire` numbers are 2^20, 2^32-1
and one above 2^31. `ImplementsPackets` speaks of one file, `Sent`, since
`BaseTransfer` fixes the length of its files by a constant; in `wire` it is one
of two full chunks and a byte. `CHECK_DEADLOCK` is off because the system stops once the
last sender is done and the network is empty.

Runs that show a divergence between the code and its specification (one
property each; the finding quotes the line):

| Run | What happens |
|---|---|
| `start_ack_lost` | START is resent once and stays in the window; the window is stuck for ever |
| `data_ack_lost` | a duplicate below `next_seq` is not answered, so one lost ACK wedges the sender |
| `start_ack_repeated` | a second START ACK pops past the end of the window |
| `end_lost` | the sender leaves after one answer; the receiver stays connected and ignores every START |
| `files_left` | `-d` names another directory: a restarted receiver appends to the file the last one left |

In `files_left` nothing is lost, late or damaged: the receiver is restarted
between two transfers, and `-d` names another directory.

Divergences that have no run of their own, and that appear when a constant of a
run is changed:

| Run, change | Violated | What happens |
|---|---|---|
| `end_lost`, `Lossy <- NoPackets`, `Unreadable <- Log1` | `ReadyForNextSender` | the input file does not open: `main` ends after START without END, and the receiver stays connected |
| `base_faults`, `QuietLaunch = FALSE`, `Replayable <- EndPackets` | `ConnectionIsOwn` | a late END of one transfer closes the connection of the next (`base/Receiver.cpp:174`) |
| `base_faults`, `QuietLaunch = FALSE` | `FileIsOwn` | a late DATA packet of one transfer is written to the file of the next (`base/Receiver.cpp:208`) |
| `opt_transfer`, `QuietLaunch = FALSE` | `AckedIsReceived` | a late ACK of one transfer pops a packet of the next that nobody received (`opt/Sender.cpp:135`) |
| `opt_timers`, `Lossy <- StartAcks` | `TransferCompletes` | `wSenderOpt` resends START for ever to a receiver that is connected and ignores it |

Further divergences that the model contains: `wReceiverOpt` acknowledges all and
writes nothing, because it asks its map for the packet it has just put there
(`opt/Receiver.cpp:221`); `main`
of `wSender` sends the `-o` file instead of the `-i` file
(`base/Sender.cpp:278`); files are written to the working directory even when
the receiver is never restarted (`base/Receiver.cpp:101`); `next_seq++` stands
outside the inner loop (`base/Receiver.cpp:223`), so packets buffered behind a
gap are not written and acknowledged when it closes (README:111) but when they
are sent again; DATA before START goes to `FILE--1.out`; a packet whose output
file did not open is acknowledged (`base/Receiver.cpp:103`); START and END are
handled whatever their checksum (`base/Receiver.cpp:139`); the window test of
`wReceiverOpt` is always true (`opt/Receiver.cpp:213`); `wSenderOpt` takes the
zeroed packet of an interrupted `recvfrom` for the ACK of packet 0
(`opt/Sender.cpp:135`); both senders wait 500 ms from the last datagram, whatever
it was, and not from the last movement of the window (README:78); `wSenderOpt`
waits for the answer to END only as long as the last timeout computed for DATA
(`opt/Sender.cpp:149`).

## 5. Fairness

`TimedFairness` in `BaseTimers` and `OptTimers` assumes: time passes (`Tick`);
the sender process takes its next step when it can, also that of a `recvfrom`
that gives up (weak fairness: an ordinary running process); a datagram that is
in flight again and again, to the receiver or to the sender, arrives (strong
fairness: a fair lossy channel, the least under which any retransmission
protocol can work). Delivery to the receiver includes its handling, since the
receiver is always ready. Nothing is assumed of users, kills, damage or
repetition, nor of timeouts: that a timeout comes, and that every
unacknowledged packet is among the overdue ones at some timeout, follows from
the clock. `Tick` stops at `Timeout + Late`, so that time cannot pass in place
of the timeout.

`MayInterrupt` is FALSE in the liveness runs, because a process that is
interrupted again and again before its timeout never resends. In
`base_liveness` ACKs are not lossy, and in `opt_timers` START's ACK is not:
`data_ack_lost` and `start_ack_lost` show that the base properties need that,
and a lossy START ACK in `opt_timers` that the one of `wSenderOpt` does (section 4).

## 6. Proofs

The theorems hold for any files, windows, numbers of sessions, connections and
restarts, any START numbers and any network (whatever is lossy, repeatable or
damageable), except where one names an assumption. They rest on the constants'
typing assumptions `SenderAssumption`, `ReceiverAssumption` and their opt
counterparts, on `TimersAssumption` (a timeout of at least one tick) where there
is a clock, and on the wire on `WireAssumption` (types and sizes) and, for the
refinement, `SentAssumption`. TLC evaluates all of them. Every invariant and
every refinement that the passing runs check is stated by a theorem. Lemmas for both pairs of programs are in `WtpNetworkProofs`; that a
finite set of numbers has a maximum, which the refinement mappings speak of, is
drawn there from the well-foundedness of `<` (`LeastNumber`, `GreatestNumber`).

### The base programs

* `TypeCorrect` (`BaseTransferProofs`): every reachable state is well typed. It
  is inductive as it stands; the one step that needs more than its own conjunct
  is `AdvanceWindow`, where the front of the window must exist (`FrontExists`:
  the sender waits only with a full window or with packets outstanding).
* `NumbersAreKept`: the invariant `ChunksKeepNumbers`: a
  chunk in flight, in the window or in `receivedPackets` is the one its number
  says, in every session and after any damage. It is what connects the sender's
  buffer with what the receiver writes.
* `FilesStayInOrder`: `FilesInOrder`, without further assumptions: its condition
  `FilesBeginEmpty` is in the formula and, restarts being counted, only ever
  ceases to hold (`RestartsCount`). While it holds the invariant is `OrderInv`:
  that the files are ordered is not inductive by itself, since a new chunk must
  also come after those already there, which `NextIsAhead` says. That the first
  chunk of a connection meets an empty file follows from truncation or, before a
  restart, from `UnopenedAreEmpty` (`UnopenedRemainEmpty`).
* `FilesStayGapless`: `FilesHaveNoGaps`, if appending to an output file does not fail.
  With `ChunksKeepNumbers` (and `UnopenedAreEmpty`) it is inductive: the second
  half of the property, `Len(files[counter]) = next_seq`, carries the first.
* `FilesNeverShrink`: `FilesOnlyGrow`.
* `WindowStaysContiguous`: `WindowIsContiguous`. The
  invariant adds `WindowStarts`, what the window is before the data phase. No
  assumption on ACKs is needed: a number too large ends in `undefined`, and the
  property says that up to there every `ack - front` was a count of packets.

* `ImplementsUntimed`: every behaviour of `BaseTimers`, for any `Timeout` and
  `Late`, is one of `BaseTransfer`. The clock only takes steps away
  (`ClockRestricts`), so all theorems about the base programs hold with it too.

These are in `BaseTransferProofs`. `FileSteps` keeps them short: of all steps only an accepted START, an
in-order DATA packet and a restart touch the files, `counter` or `next_seq`.

`BaseSingleProofs` is about one transfer, under `Single`: a receiver that is not
restarted, writes that succeed, START numbers larger than the file, and a network
that does not repeat START's ACK. Without any of these the properties fail, and
`start_ack_repeated` shows it for the last. It proves

* `AckedStaysStored`: `AckedIsStored`; `UnstoredStaysKept`: `UnstoredIsKept`;
  `EndIsComplete`: `EndMeansComplete`; `WindowStaysPopulated`:
  `WindowNeverUnderflows`;
* `Implements`: `ImplementsReliable`, if moreover the sender is not killed and
  `MaxFiles` allows a connection.

All follow from one invariant, `SingleInv`, because each needs the others. That a
chunk leaves the window only when stored needs that every ACK is one of stored
data (`IsAnswer`), except that of START, which is larger than all others and
would empty the window. That START's ACK does not arrive in the data phase needs
the receiver to stay connected, and so ignore START, from that ACK on
(`AnsweredOnce`, `OpenedWell`). That it stays connected needs that no END is
under way (`Sendable`), and END goes out only with an empty window. `OpenedWell`
also says that `FILE--1.out` is empty then, so that no ACK speaks of a chunk that
is only there.

`BaseSessionsProofs` is about any number of transfers, finished or killed, under
`Quiet`: users wait for silence (`QuietLaunch`) and no START number is below the
number of a chunk. It proves

* `ConnectionStaysOwn`: `ConnectionIsOwn`, and `FileStaysOwn`: `FileIsOwn`. Nothing
  is assumed of the disk, of restarts or of what the network loses, repeats and
  damages, beyond the conditions in the two formulas (no restart so far, and
  `FilesBeginEmpty`).
* `EveryUnstoredIsKept`, `EveryEndIsComplete`, `EveryWindowStaysPopulated`:
  `UnstoredIsKept`, `EndMeansComplete` and `WindowNeverUnderflows` in each of the
  transfers, under `Steady`: `Quiet`, no restart, no failing write, no repeated
  ACK of START.

The argument of the first two: DATA and END do not say which transfer they belong
to, but after a silence all that is under way is the running sender's
(`OfThisSender`). START leaves its window only for an ACK as large as its number;
numbers of chunks, and `next_seq`, which a connection left open by an earlier
transfer keeps, are smaller (`NumbersAreSmall`), so that it leaves for its own
ACK. That is sent with a new connection (`ConnectionOpened`) and a new file
(`FileOpened`), which only this sender's packets reach from then on. A map entry
of an earlier transfer under the number of a new chunk is replaced by that chunk
before it is written. The other three add `InStep`, which relates the numbers of
both sides while a sender runs: DATA is numbered below `offset`, ACKs at most
`next_seq`, and `offset - Len(window) <= next_seq <= offset`. What a single
transfer needs less of, `QuietLaunch`, is why `BaseSingleProofs` stands on its
own: there a killed sender leaves no other to wait.

### The opt programs

All in `OptTransferProofs`:

* `TypeCorrect` and `WindowStaysOutstanding` (`WindowIsOutstanding`) need no
  assumption: whatever numbers
  ACKs have, the loop that pops acknowledged packets leaves an unacknowledged one
  in front, and the window stays the run of chunks before `offset`.
* The others assume `Orderly`: users wait for silence, `recvfrom` fails for a
  timeout only, and START numbers are not chunk numbers. An ACK of `wReceiverOpt`
  names a single packet and no transfer, so an ACK of another transfer, or the
  zeroed buffer of a failed `recvfrom` (number 0), would be taken for one of this
  transfer's chunks.
* `AckedStaysReceived`: `AckedIsReceived`. The invariant is
  `HeldInv`: types, window, `OnTheNet` (all that is under way belongs to this
  transfer, and the number in an ACK is that of START or of a chunk received) and
  `Held` (what is marked in the window or gone from it is received).
* `KeptStaysWithinWindow`: `KeptWithinWindow`, if moreover
  the sender's window is no larger than the receiver's. The receiver's own test
  plays no part in the proof.
* `Implements`: the last of any number of transfers
  implements `ReliableTransfer`.

In both refinement proofs a step of the receiver maps to `Store` or stutters
(nothing that is stored is lost), one of the sender to `Confirm`, `Finish` or
stutters, and that `Confirm` has room is the invariant: what is confirmed is
stored (`ConfirmedIsStored`).

### The clock of `wSenderOpt`

Also in `OptTransferProofs`, for every `Timeout >= 1` and every `Late`:

* `ImplementsUntimed`: every behaviour with a clock is one of `OptTransfer`, so
  that the theorems above hold with a clock too.
* `SleepStaysBounded`: `SleepIsBounded`; `ResendsStayInTime`: `ResentInTime`.

The invariant is `ClockInv`. `ClockOK`: there is one age for every packet of the
window, whatever the loop that pops acknowledged packets removes from it, and the
socket's timeout is in `1..Timeout`, since `updateSocketTimeout` counts only
packets that are not overdue. `NoneIsLate`: an unacknowledged packet is at most
`Timeout` older than the `recvfrom` in progress, or an answer arrived that
recently. A tick makes all of them older together, a timeout resends what is
overdue, an answer ends the silence. With `slept <= soTimeout + Late` it gives
`2 * Timeout + Late`, the bound of `ResentInTime`.

### The checksum

`Crc32Proofs` is about data of any bytes and any length. It rests on
`TableIsEightShifts`: that entry b of the table is b shifted eight times through
the register, as the comment of `common/Crc32.hpp` says. This is a fact about 256
numbers, which TLC evaluates in `wire`; it turns each lookup into eight shifts.

* `ChecksumIsRemainder`: what the program computes with its table is the
  remainder that defines the CRC (`CrcOf`).
* `BurstChangesChecksum`: two data sections of the same length whose differing
  bits are at most 31 apart have different checksums.

Division takes the terms of the dividend one after the other from the top;
the register shifts its bits one after the other out at the bottom. One is the
mirror image of the other: cancelling the leading term is the shift with its
feedback (`CancelledIsShifted`), with all the bytes still to come in the same word
(`MessageIsStream`, `DividendIsStream`). After 8n steps what is left of either is
the checksum. The other theorem has the same shape: the shift is linear in
exclusive or (`EightShiftsXor`), so what two data sections differ by is one word,
shifted eight times by each byte. It is not empty and no wider than 32 bits at the
beginning (`Narrow`), and stays so: a shift moves it as a whole, or, when its
lowest bit is bit 0, replaces that bit by the feedback, whose bit 31 is set. The
inductions are over sets of numbers (`UpTo`), drawn from the well-foundedness of
`<`.

### The wire

`WtpWireProofs` holds for files of any bytes and any length, every
`CHUNK_SIZE >= 1` and every buffer of the receiver that takes a whole packet.

* `OutputStaysTheFile`: `OutputIsTheFile`, and `DamageIsAlwaysDetected`:
  `DamageIsDetected`, under `Bursts`: no two bits that the network flips in one
  datagram are further apart than 31. Beyond it a 32-bit checksum must miss
  some damage.
* `AcksAlwaysReadBack`: `AckReadsBack`, and `ChecksumsAreCrcs`: `ChecksumIsCrc`,
  whatever the damage.

A datagram is read as the packet that was sent (`ReceiverReads`: four bytes make a
word again, and what is taken for data is as long as what was sent) and an ACK as
the number in it (the sender's buffer is shorter, but the length in the ACK is 0).
The invariant is `WireInv`, what is under way and what is written in each phase;
while a chunk is under way (`ChunkSent`), it is the piece of the file between
`Len(output)` and `offset`.

`WtpPacketsProofs` adds

* `PacketsAreImplemented`: `ImplementsPackets`, under `Bursts` and
  `SentAssumption`: the file has fewer than 2^30 chunks (1.5 TB), within which a
  number fits the 31 bits that `Bits` keeps, and START's number is none of its data
  numbers. Both are needed for the mapping to exist: a word must tell which packet
  is meant (`BitsTell`).

With it the theorems about `BaseTransfer` speak of bytes, for windows of one
packet and a network that damages but does not lose. Its invariant, `PacketsInv`,
says that what was sent and what was written are whole chunks except where the
file ends (`Cut`). Hence the piece of the file under way is the chunk its number
names (`ChunkOfNumber`), and the bytes written, cut again, are the chunks
`BaseTransfer` has in its output file (`ChunksOfBeginning`). One lemma for each
action (`LaunchMapped`, `SendDataMapped`, ...) then shows that it is the action of
the same name, or a stutter where nothing changes; a flipped bit is `Corrupt`,
because damaged data is never again the chunk, and the receiver's refusal of it
is a `DataDropped` because it never fits the checksum.

### Model-checked only

* Liveness under fairness (`TransferCompletes`, twice): it needs ENABLED.
* The fact `TableIsEightShifts`, evaluated for each of its 256 bytes.
* The runs that show a divergence: each is a counterexample on one instance.

## 7. Plan

Done: network, base programs, opt programs, their compositions and abstract
specification; the clocks; the wire; several transfers between which the network
falls silent. Proofs: types, output files, windows and acknowledgements; both
refinements of `ReliableTransfer`; ownership and completeness of consecutive
transfers; the clock of `wSenderOpt`; both timed versions as refinements of the
untimed; burst detection and the checksum as a remainder; the bytes written; the
wire as a refinement of `BaseTransfer`.

Left: a wire with larger windows and with loss, for which several datagrams must be
under way at once.

## 8. Not modelled

Command-line checks, `socket`/`bind`/`setsockopt`, console output and the
(disabled) loggers: straight-line code without effect on the protocol, except
for the file name that `main` passes on and the socket's timeout, which are
modelled. The opt `Packet` and `PacketHeader` serialise as the base ones do; the
wire is modelled for the base programs. Damage to headers, which no checksum of
the program covers. Wrap-around of 32-bit sequence numbers: it takes a file of
more than 2^31 chunks (3 TB). CMake files and `util/submit.sh`.

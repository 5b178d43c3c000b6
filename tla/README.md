# GameNetwork in TLA+

GameNetwork is a C++ plugin (Windows, UDP) with which a game hosts up to three
remote players: a `Server` object with a table of connections, `Client` objects
that find it by broadcast, a Diffie-Hellman handshake, and game data sealed with
an HMAC under the agreed key. This directory holds a formal model of it, what TLC
checks about the model on small instances and what TLAPS proves about it for all.
`PROJECT.json` lists the runs, the lines of source each definition stands for, the
hazards, the findings and the theorems.

    tlc -workers 2 -config <Run>.cfg <Module>.tla      # a run
    tlapm <Module>Proofs.tla                           # the proofs of a module

## 1. Inventory

Paths are relative to `src/NetworkPlugin/`. There are no documents: what the code
is meant to do is known from names, comments, log messages and `main.cpp`.

| Part | State | Operations | What makes it correct |
| --- | --- | --- | --- |
| `Server` (`src/Server.cpp`, `include/Network/Server.h`) | `m_connected`, `m_connections` (slot 0 is the host), `m_challenged`, `m_challenges`, `m_numConnections`, `m_state` | `Listen` (one datagram per call: REQUEST, RESPONSE, DATA, DISCONNECT), `PropagateGameData`, `SwitchToLobby`, `SwitchToGame`, constructor, destructor (kicks everybody) | the host's slot is nobody else's; a slot is given away only at the end of a handshake, in the lobby; no address twice; a freed slot is blank; pending handshakes can be removed; game data is attributed to its sender |
| `Client` (`src/Client.cpp`, `include/Network/Client.h`) | `m_state`, key pair, `m_sharedKey`, `m_serverAddress`, `m_index`, `m_sequence`, `m_ack`, `m_activeTimeout` | `Connect`, `Listen`, `SendGameData`, `SendDisconnect`, `SetActiveTimeout`, destructor; `RespondChallenge` on a detached thread | connected means admitted, with this key and index; a session ends by a call or timeout of its client or because the host has given it up, as long as it is `CONNECTED`; each message handed over once, in order |
| Sequence numbers (`Packets/Packet.h`) | two 16-bit counters per session | `SequenceGreaterThan` | a strict order near any point of the circle |
| Packets (`src/Packets/Packet.cpp`) | none | `Write`, `Read`, `VerifyPacketCRC`, `VerifyPacketHMAC` | a packet is accepted under its own seal only |
| `Socket`, `NetworkAPI` (`src/Socket.cpp`, `src/NetworkPlugin.cpp`) | handle, Winsock start-up | `Open`, `Close`, `Send`, `Receive` | an object works on its own, open handle; a true `Open` is usable, a false one leaves nothing behind |
| `Buffer` (`src/Packets/Buffer.cpp`) | bytes, index, size | typed reads and writes | what is read is what was written; nothing outside the block |
| `CRC32`, Fletcher32 (`ErrorDetection/`) | a table and its flag | pure functions, `InitTable` | table form equals definition, whichever threads fill the table; no sum overflows |
| `Address` (`src/Address.cpp`) | address, port | construction, byte orders, octets | an answer reaches who was heard |
| C exports | none | pointer check and call | none |
| `TestNetworkPlugin/main.cpp` | a flag | two listening loops, one connection, one message | exercises the above |
| NGCrypto, NGMP | | keys, hashes | git submodules, absent from the tree |

**Interaction.** The objects share nothing but datagrams. The host application
runs `Listen` in a loop and calls the rest from other threads; so does each client
application; every CHALLENGE starts one more thread in the client, and the server
computes a handshake's key in an `std::async` task.

**What is hard.** UDP loses, repeats and reorders, and nothing is ever sent again:
the loops that would are commented out, as are the server's timeouts. A departure
is ten identical datagrams. `RespondChallenge` races with everything. The key task
captures a local by reference. Two lookups store the outcome of a comparison where
an index was meant (`Server.cpp:262`, `388`, `394`). Counters wrap. All of this is
listed, line by line, under `hazards` in `PROJECT.json`.

## 2. Modules

| Module | Models | Notes |
| --- | --- | --- |
| `SequenceNumbers` | the 16-bit counter and `SequenceGreaterThan` | `SeqModulus` stands for 2^16 |
| `InOrderDelivery` | abstract: what the receiver of game data is promised | |
| `DataStream` | one session's game data in one direction | implements `InOrderDelivery` |
| `Datagrams` | keys, seals, the six packets, the two `Verify` functions, `Socket::Send` | extends `SequenceNumbers` |
| `Server` | `Server.cpp`: tables, handlers, calls | extends `Datagrams`; no `Next` of its own |
| `ServerAlone` | `Server` in an open environment | any client sends any packet under any key |
| `Client` | `Client.cpp`: object and threads | extends `Datagrams`; no `Next` of its own |
| `Sessions` | abstract: what host and clients promise each other | no packets, tables or threads |
| `GameNetwork` | `Server` and `Client`s over one network, with a history | implements `Sessions` |
| `ServerThreads` | `Listen` and `PropagateGameData` on two threads, field by field | extends `Server` |
| `ClientThreads` | `Listen`, `Connect`, `SendDisconnect`, `RespondChallenge` on their threads, several hosts | extends `Datagrams` |
| `Buffers` | `Buffer.cpp`: a cursor over a block of bytes | operators only |
| `Wire` | every packet as bytes; `Receive`, `Verify`, `Read`, and the copy to the application | extends `Buffers` |
| `Addresses` | `Address.cpp` | extends `Buffers` |
| `Sockets` | `Socket.cpp`, `NetworkPlugin.cpp` against the operating system's sockets | extends `Addresses` |
| `CRC` | `CRC.h`: both forms of the checksum, and the threads that fill the table | a thread's stores reach the others in any order |
| `Checksums` | `Fletcher32` and `Fletcher32_improved` side by side | |
| `MC...` | instances for TLC | bounds, fairness, symmetry |
| `ServerLemmas`, `...Proofs` | theorems (section 4) | `PacketsProofs` is for `Buffers`, `Wire`, `Addresses`, `Sockets`, `CRC` and `Checksums` |

**Two granularities.** In `Server`, `Client` and `GameNetwork` one action is one call
of a public function, all its effects included; `RespondChallenge` is three actions, as
it runs on its own thread: it writes the packet under the key of that moment, stores
the state, sends to the address of that moment. `ServerThreads` and `ClientThreads` go
below that: a step is one load or store that another thread can see. What only one
thread touches still changes as in `Server`, whose operators `ServerThreads` uses.

An operation of `Server` or `Client` that sends takes an argument `rest`, the
datagrams in flight without the one it consumes, and leaves `rest` plus what it
sent in `network'`: the components decide what is sent, `ServerAlone` and
`GameNetwork` what the network does with it.

**How the model stands to the code.** In `Listen` the alternatives of
the action are the cases of the `switch`, with their fall-through: game data for a
client that is not connected goes where DISCONNECT goes. The server's look-ups
return the first index or -1, and `AsInt` is what `int i = Find(...) >= 0` leaves
in `i`; `RemoveClient` and `ChallengeSlot` use it where the code does.
`sharedKeyFuture` is a set of at most one key, the result it will give; the
result is the Diffie-Hellman key or, the captured index being gone, any member
of `GarbageKeys`. `m_connections = {}` and the other resets are blank records.

*Threads.* In `ServerThreads` the fields of an entry are neither atomic nor locked, so
that the stores of `m_connected[i]` and of the fields of `m_connections[i]` reach the
other thread in any order. `++connectionInfo.sequence` is a load and a store, and
`Write` and `Send` read the entry again. An application, chosen at the start, makes the
calls on two threads or in one loop, and its connect callback propagates a message or not. In
`ClientThreads` `m_state` is atomic as in the code; `Listen` tests it in one step and
acts on it in another, `Disconnect` resets key, address and state one after the other,
and `Connect` is inside `GenerateKeyPair` for a while. `SendDisconnect` may be called in
any state: it loads `m_state` twice, writes the packet, sends it, and runs `Disconnect` in
any case, each a step. The bytes of a key change in one step. A host is as much of a server
as one client can tell: it answers a request while it has no entry for the client, its
entry ends with a DISCONNECT under the key of the session or of the pending handshake, and
`Kicks` is its destructor, after which it may begin again.

*Bytes.* In `Wire` a cell of a buffer is a byte, a byte of a symbolic checksum or HMAC,
or what `new` found in memory. Each phase of each end is an initial state; what moves an
end from phase to phase is in `Client` and `Server`. `IsPacket` is what `Write` may be
given, by the types of the packets' fields: a whole public key, an identifier of four
bytes, a sequence number of two, and data so short that the size of the datagram is a
number of four bytes. A datagram longer than the buffer
of `Listen` is lost with Winsock's error, as `recvfrom` has it.

*Sockets.* Every call of the operating system may fail at every stage, a closed handle
may be given out again, and `sendto` binds a socket that has no port. `isInitialized`
is never set in the code, so every constructor and every `Open` starts Winsock once
more and `ShutdownSockets` does nothing; the model says so, and `HandlesAreOwn` leans on
it, as a shutdown would close sockets that objects hold. Addresses are four digits; the machine is little-endian, as Windows is.

*Checksums.* `CRC` takes words as sets of bits. The table and its flag are plain variables
that nothing synchronises, so a thread finds its own stores, and of the others' entries any
(`Views`), and the flag may be stored at any time while its thread is in `InitTable`
(`Flag`). A shift of zero by the width of the word, which `ReverseBits` does for the byte 0,
yields zero. Each of its loops over bytes and bits is `Rounds` with what one
round makes of the value. `Checksums` runs the improved function beside the plain
one on any words; the program itself passes it ten (`Packet.cpp:7`), so that its block of 360
is a matter of the function and its other callers.

**Abstractions.** A key is the set of the two key pairs it comes from; a packet is
a record with its seal, and is accepted exactly under its own seal (no collisions
of checksums; that a CRC notices what it must is `DetectsBursts`). In the modules above
`Wire` contents and sizes of game data are left out, and with them the two "Buffer too
small" branches (what they change, `m_ack`, is as in the accepting branch); `Wire` has
both. `m_lastReceivedPacket` is left out: a timeout may fire whenever
`m_activeTimeout` is set, the client is connected and the call received nothing
valid. Failing `Send`s look like loss. `network` is a set: a datagram may be
overtaken by any other; with `MayDuplicate` it stays when it is received, so that
it may arrive any number of times; one that is never received was lost.
`RemoveClient`'s last work in the destructor dies with the object and is not shown.

**History.** `GameNetwork` remembers admissions, the calls of `SendGameData` and
what either `Listen` handed over, `ServerThreads` admissions and what was sent,
`ClientThreads` admissions, `Sockets` what a sender asked for and where a datagram came
from. No action reads these; the properties do.

## 3. Runs

| Run | Instance | Shows | Distinct states |
| --- | --- | --- | --- |
| `data_stream` | a counter of eight that turns three times, packets lost, repeated and overtaken by up to `MaxLag` | data is accepted in order, once, and exactly when newer; the counters are those of the true counts | 1 474 |
| `server` | the code's four slots, four clients that send any packet under any key | the host's slot is held, pending handshakes are removable, addresses are unique, freed slots blank, the count never too high, admission is by handshake | 25 718 |
| `sessions` | two clients, three slots, repetition and loss; six scenarios (below) | whoever is connected was admitted under that key and index; no key twice; data is attributed to its sender; a key in use is given up for one of three reasons (below); `Sessions` is implemented | 597 889 |
| `join_liveness` | two clients one after the other, data both ways, repetition, no loss | every attempt to connect succeeds | 17 037 |
| `leave_liveness` | two clients, one of which joins again, two slots for them, two DISCONNECTs each, no loss | the first slot becomes free when its client has left | 201 685 |
| `server_threads` | two clients, two slots for them; two threads with a callback that propagates, one loop with it and without | entries are whole, no message goes to an earlier owner of a slot; in one loop each message has its own number, and without the callback CONNECTION_ACCEPTED comes first | 1 596 462 |
| `client_threads` | two hosts that answer one request, one of which may be destroyed, and two responding threads; or one of each, two handshakes and SendDisconnect at any time | the client is connected to a host that admitted it under its key; without SendDisconnect the key pair is read whole | 2 042 035 |
| `packets` | the bytes, the sockets, the CRC and Fletcher32, one at a time | packets are read as written and valid ones arrive; `Listen` throws at strays only; messages are given whole or reported; handles are their objects' own; datagrams go where they were meant to; the CRC by a table that its thread has filled is the usual one and detects bursts; no sum overflows | 150 110 |
| `slot_stolen`, `early_data`, `stale_ack`, `challenge_overwritten` | one scenario each | findings 1 to 4: a property of the program that TLC finds violated | |

The scenarios of `sessions`, in `MCGameNetwork`: `Handshake` (two clients connect and
leave, one rejoins, and a key task may read garbage), `Restart` (the server is destroyed
and created again and clients are destroyed while data goes both ways),
`RestartAndTimeout` (the same for one client that may time out), `Timeouts` (two clients
that time out in the middle of a game), `Rejoin` (one client in two sessions, with two
threads of `RespondChallenge`) and `TakenBack` (one connected client that its second such
thread takes back to `SENDING_CHALLENGE_RESPONSE`, where game data disconnects it). A behaviour belongs to one of them, and every property is
checked in all. The reasons of `SessionEndsForReason` are a call or timeout of the client
itself, a DISCONNECT of a host that has no slot under that key any more, and, only while the
client is not `CONNECTED`, game data. In `packets` a behaviour runs one of four machines that share no state,
while the others rest.

**Bounds and why they are enough.** The server's behaviour towards a client
depends on whether its address is in either table, in which slot, and on the key;
three slots and two clients make every pair of those meet in the composed runs
(the wrong slot cleared, slot 1 and slot 2, a handshake during another's session),
and the server alone is checked with the code's own four slots and one client more
than fit. A scenario bounds the handshakes begun (`keyPairs`) and the calls of `Connect`
(`connects`): two are needed for packets of an old session to meet a new one.
`MaxDeficit` bounds how far the count falls below zero, which it may without limit.
`data` bounds the numbers given to messages; wrap-around is the business of `data_stream`, whose
counter of eight turns three times. `DisconnectCopies` is 1 where every datagram
may repeat anyway and 2 in `leave_liveness`, whose `MaxDeficit` no behaviour can reach. `SeqModulus` 3 in `server` lets
the counters of `PropagateGameData` wrap.

In the runs on threads two clients and three slots let a slot change hands while a
message is on its way through it, and `MaxMessages` 2 lets two increments meet; two
hosts that begin one handshake each let both answer one broadcast; where main() disconnects,
`MaxPairs` 2 lets the one host begin again after an attempt that was given up, and `MaxConnects`
2 lets an old attempt's packets and threads meet the next key pair. There messages are sent
in the first session only, and main() stops disconnecting with its last `Connect`. In `packets`, `Wire` has game data of every length up to
the first that makes a datagram too long for `ReceiveBytes`, application buffers of every
size around each test, and stray datagrams around every size the code reads. `Sockets` has
two objects and two handles, so that a handle can go from one to the other, and an
address that reads differently backwards. The constants of `Checksums` keep the code's
proportion: with sums of 8 bits over words of 4 a block of 4 is the longest that fits,
as 360 is for 32 and 16 (`MCPackets` assumes the first, the theorem `BlockOf360` is
the second), and the sizes are those around one and two blocks. `CRC` has every message
of one and two bytes and one longer than the checksum is wide. Its width divides evenly
into bytes, as 32 does into 8.

Clients, hosts and the names of threads are symmetric in the safety runs that say so; the
liveness runs use no symmetry.

**Deadlock** is checked except in `data_stream` (the sender may stop), `join_liveness`
(everybody is connected and all messages are sent) and `packets` (the checksum functions
return).

**Fairness** (`MCFairness`). Weakly fair are the server's receiving loop, each
client's receiving loop and its `RespondChallenge` threads: `main.cpp` runs both
loops as long as the program runs, and threads are scheduled. No call of an
application is fair. A datagram that would change something is therefore received
in the end: *no loss* is an assumption of the two liveness runs, and a necessary
one, as nothing is retransmitted. Both also assume *patient* applications
(`patient`): clients connect one at a time, or the second request would overwrite
the first one's handshake (finding 2); the host does not propagate while someone is
connecting (finding 3); a client leaves only when its thread has sent its answer.
That last restriction is not idle: without it TLC finds that a `SendDisconnect`
between the thread's store and its send, followed by any late datagram that sets
`m_serverAddress` again, lets the thread complete the handshake of a client that
has gone, and its slot is never released. `FirstSlotIsReleased` is about slot 1 alone: said of
slot 2 TLC finds it false on the same instance, as `RemoveClient` clears slot 1 for the client in
slot 2, too (finding 1). `ConnectSucceeds` also assumes that the
key task reads an intact index (`GarbageKeys = {}`).

## 4. Proofs

`SequenceNumbersProofs`: for every width, of two different numbers exactly one is
greater (`SequenceTrichotomy`), and two counts at most half a turn apart compare
after reduction as they do themselves (`SequenceOrder`; the lemma `DistanceModulo`
says which difference the remainders have).

`DataStreamProofs`: `Inv`, which is `TypeOK` and `CountersAgree`, is inductive:
every 16-bit number in the system is its true number modulo `SeqModulus`, and all
that can meet is within `MaxLag`. With `SequenceOrder` the receiver's comparison
is the comparison of true numbers, from which `DecisionIsByTrueOrder` and the refinement
`StreamIsInOrder` follow (and the types, `CountersAreTyped`), for every width and every `MaxLag` with
`2 * MaxLag <= SeqModulus - 1`. That bound is assumed of the network: the code has
no way to enforce it.

`ServerLemmas` and `ServerProofs`: for every set of clients, every `MAX_CLIENTS >= 2`,
every key and every packet a client can form, in any order (`ServerAlone`). None of the
server's properties is inductive alone. `IInv` joins them and adds that the tables are
blank while there is no server (`BlankWhenDown`), without which a new server's
tables would not be those of the constructor. `OneEntryPerAddress` needs `PendingHandshakeRemovable`
(one pending handshake at most, so an admission takes away the only other entry
of its address) and the look-ups' lemmas (a `REQUEST` reaches the handler for
strangers only, as any other sender's packets must be sealed with a key).
`CountNeverAbove` is an argument on cardinalities: a freed slot may have been
free already, so that the count only falls behind. `AdmissionIsByHandshake` is the action
property, from the same invariant. The lemmas hold for any `rest`, so that the
composition uses them as they are.

`GameNetworkProofs`: host, clients and network together, for any number of clients,
slots, threads, handshakes, messages and repetitions. The inductive invariant `GInv` has
four parts, and says of everything in flight that its sender had reason to write it:

- `NetworkOK`: a packet of a client is sealed with a key that a client may hold, and its
  game data were said in a session that was admitted; a CHALLENGE carries a pair that the
  server has generated; a CONNECTION_ACCEPTED tells an admitted client its own key and slot;
- `ClientsOK`: a key that a client or one of its threads holds is agreed with a generated
  pair, or is the blank key; a connected client's session is among the admissions;
- `HostOK`: the server's own `IInv`; a pending handshake has a generated pair that no
  admitted key contains; whoever is seated was admitted;
- `HistoryOK`: `KeyAdmittedOnce`, `HostAttribution`.

The crux is `HostOK`: that a pending pair is in no admitted key makes the next admission's
key new. Every REQUEST generates a pair, and ending a handshake forgets its pair, so that
a repeated CHALLENGE_RESPONSE finds none. A garbage key admits nobody, because no client
can seal with it: `GarbageAssumption`, that a key task's garbage contains no pair of the
server's, is what the code's luck amounts to there. From `GInv` follow `TypeOK`, `ConnectedIsAdmitted`,
`KeyAdmittedOnce`, `HostAttribution` and `ImplementsSessions`:
each action is a step of `Sessions` or changes nothing it sees. `Sessions` promises
little where the code keeps little: a seat may be vacated at any time (finding 1), and a
client may join a session that has lost its seat.

`SessionEndsForReason` needs one more invariant, `DismissalsOK`: a DISCONNECT from the host
that is in flight is under a key that no slot has and that no pending handshake will give
(`GivenUp`). The destructor sends it, under the keys of the entries that end with it; that no later
entry gets such a key again follows from the newness of the pairs, as in `HostOK`.
A client that answers with the blank key is left out (`UnderKey`).

`ServerThreadsProofs`: `Listen` and `PropagateGameData` field by field, for any clients,
slots, messages and kinds of application. `ThreadsInv` has six layers, each proved from
those before it, because a step of one thread meets a half-done step of the other:

- `PlacesOK`: where each thread is, which loops can be under way then, and what a pending
  handshake holds;
- `KeysOK`: no two owners of slots have the same key, and the pending handshake, unless it
  is just being admitted, has a key pair that is in no owner's key;
- `EntriesOK`: an occupied slot holds the address and key of its latest owner, except for
  the fields that `Listen` has yet to store in the admission or removal it is in; each
  field is the old one or the new one, and which is told by what is left to store;
- `SentOK`: game data that were sent, or that a thread is about to send, are sealed with the
  blank key or with that of an owner of the slot, and go to it or to a later one
  (`NeverToAnEarlierOwner`);
- `WelcomeOK`: every owner but the one being admitted has been sent its CONNECTION_ACCEPTED;
  in one loop whose callback propagates nothing, before any message (`AcceptedFirst`);
- `NumbersOK`: in one loop, the slot's counter says how many messages there were since its
  owner's session began, and those sent to it have these numbers, modulo `SeqModulus`.

`EntriesAreWhole`, `NeverToAnEarlierOwner`, `OneNumberPerMessage` and `AcceptedFirst`
follow. The last two are only true of one loop, as findings 7 and 8 show, and say so.
`OneNumberPerMessage` is up to turns of the counter: numbers repeat after `SeqModulus`
messages. The packets a client may send are sealed with keys it can compute, so with none
of the garbage of a key task.

`ClientThreadsProofs`: the client's threads, for any hosts, responding threads and calls.
`HostInv` says of every CONNECTION_ACCEPTED under way, and of a client between reading one
and storing `CONNECTED`, that the host which sealed it has admitted the client under that
key and index, and that only `Listen` stores `CONNECTED`; `ConnectedToOneHost` follows, with
`SendDisconnect` called in every state and hosts that begin again.
`PairInv` says where the caller may be in each state: without `SendDisconnect` a request
that is out keeps `Connect` away from the key pair until `Listen` itself disconnects;
`KeyPairComplete` follows.

`PacketsProofs` begins with numbers as bytes: division by the powers of a base, from which
`ntohl` undoes `htonl`, `ntohs` undoes `htons`, and the octets of an address are found
again. On these rest:

- *Wire*. A sequence is named by its cells (`Cells`), and each operation of `Buffer` becomes
  a statement about cells (`Patch` for a write). `WriteIs` says what datagram `Write` makes
  of any packet: nothing thrown, header and fields in their places, the seal over or
  behind them, nothing left over. `HmacOfPacket` and `CrcOfPacket` say that each `Verify`
  function finds exactly that packet in a datagram of its kind and key, index in front of
  the fields, and nothing in any other, `NothingInZeros` that stray bytes are none. Hence
  `WireInv`: what is in flight is nothing, a written packet or a stray; and all six
  properties of `Wire`, for every base of bytes, size of key, HMAC and buffer, and any set
  of packets, strays and application buffers. Checksums and HMACs are symbolic here:
  equal only of equal bytes and, for HMACs, under equal keys.
- *Sockets*. `SocketsInv` joins `HandlesAreOwn` with what makes it inductive: Winsock is never
  shut down (`NeverInitialized`), an object that says it is open has a bound socket that
  does not block (`ReadyOnceOpened`), a datagram comes from the host (`FromHost`) and its
  sender, once written to an `Address`, spells it (`SendersWritten`). The four properties
  of `Sockets` follow, for any objects, handles, ports and texts.
- *CRC*. `FilledOK`: the entries a thread has filled stay filled, whatever other threads
  store, and every entry is zero or right. So no thread computes by a torn entry
  (`NoTornEntry`), and one that has filled the table itself finds all of it from then on
  (`FillersFindItWhole`). Of a thread that only saw the flag nothing is claimed: finding 14.
  What that table gives is the other half, for every width, every polynomial
  with its lowest bit set, and messages of any length. `RoundsAre` says of the loops what each
  round leaves of the one before, by an induction over the members of a set (`Induction`:
  the least number outside of it). A division step goes through exclusive or
  (`DivideByByteLinear`), so that a byte's table entry and the bits it only shifts can be
  divided apart (`LookUpDivides`), and `InitTable` counts through every byte
  (`EveryByteIsCounted`): hence `FillersAgree`. Dividing is dividing from the
  lowest bit on in the mirror (`LowestOutIs`), byte by byte (`DivideInMirrors`), and so to
  the end (`GetCRCIsUsual`): hence `IsTheUsualCRC`. For `DetectsBursts` the difference of two
  messages is divided on its own (`LowDividedLinear`). `LeftOf` is the invariant, bit by
  bit: once the burst has begun, what is left never equals what is still to come of it,
  since no division step makes zero of anything else (`LowestOutNonzero`, where the
  polynomial's lowest bit is needed) and only `Width` bits are to come.
- *Checksums*. For words and sums of any width and a block that is short enough, the
  improved function's sums never wrap around and are congruent to the plain function's
  (`NoSumWrapsAround`), and so both return the same (`FletcherImproved`). The inductive
  invariant bounds each sum by the number of words since the last remainder: `sumA`
  linearly, `sumB` by a square. `BlockOf360` shows that the code's 360 is short enough and
  361 is not.

TLC finds these invariants true on the runs' instances as well: `ThreadsInv` on
`server_threads`, `ClientInv` on `client_threads`, those of `PacketsProofs` on `packets`.

Assumptions are those named in the modules: `SeqModulusAssumption`, `MaxLagAssumption`,
`AddressAssumption` (server, clients and blank addresses differ), `CopiesAssumption`,
`ServerAssumption`, `NetworkAssumption`, `GarbageAssumption`, `ApplicationsAssumption`,
`ThreadsAssumption` (hosts are neither the client nor the blank address), `ByteAssumption`,
`WireAssumption` (sequence numbers have two bytes, packet types fit one, packets are as
`IsPacket` says), `SocketsAssumption`, `CRCAssumption`, `ChecksumsAssumption`.

**Only model-checked.** Whatever assumes fairness (`ConnectSucceeds`, `FirstSlotIsReleased`):
liveness is out of the prover's reach. Every invariant and action property of the passing
runs, and every abstract specification they name, is proved. The properties of the violation runs
are false of the code.

## 5. Findings

The first four are runs, each of which shows a property violated.

1. `slot_stolen`: `RemoveClient` clears slot 1 whoever leaves (`Server.cpp:388`).
2. `challenge_overwritten`: every handshake is kept in slot 1, over a pending one,
   and "Server full" is not said (`Server.cpp:262`).
3. `early_data`: game data that overtakes CONNECTION_ACCEPTED disconnects the
   client as if it were a DISCONNECT packet (`Client.cpp:212`). So does game data that reaches
   a connected client which a repeated CHALLENGE's thread has taken back to
   `SENDING_CHALLENGE_RESPONSE` (`Client.cpp:77`; scenario `TakenBack`).
4. `stale_ack`: a client that reconnects drops the new session's messages until
   their numbers pass the old session's last (`Client.cpp:143-148`).

The others are properties that the modules state with the words *False of the code*, and
that are in no run; to see the counterexample, make the property the only one of the
configuration named.

5. A datagram of fewer than four bytes makes `Client::Listen` throw at the application, as
   nothing catches `ReadInteger`'s exception (`Client.cpp:158`). `ThrowsOnlyAtStrays`
   shows that nothing else does.
6. The host is told that its buffer is too small when index and message fit, because the
   test counts header and HMAC too (`Server.cpp:173`): `TooSmallOnlyIfItIs`, `Packets.cfg`.
7. A message that another thread propagates while `Listen` admits a client takes a number
   that the admission then resets; the next message has it again and is dropped
   (`Server.cpp:309`): `OneNumberPerMessage` without its `~TwoThreads`, `ServerThreads.cfg`.
8. A message that the connect callback propagates is sent before CONNECTION_ACCEPTED, and
   so disconnects the client by finding 3 (`Server.cpp:319`): `AcceptedFirst` without its
   `~FromCallback`, `ServerThreads.cfg`.
9. `SendDisconnect` between `Listen`'s test of the state and its store leaves a client
   connected without a key (`Client.cpp:183`): `ConnectedHoldsKey`, `ClientThreads.cfg`.
10. A discarded datagram redirects a connected client's own to whoever sent it
    (`Client.cpp:153`): `ServerIsPartner`, `ClientThreads.cfg`.
11. `SendDisconnect` and `Connect` between `Listen`'s test of the state and
    `HandlePacket` let a key be computed from half a key pair (`Client.cpp:39`, `131`):
    `KeyPairComplete` without its `~mayDisconnect`, `ClientThreads.cfg`.
12. A socket whose `Open` failed says it is open (`Socket.cpp:39`): `FailedOpenIsClosed`,
    `Packets.cfg`.
13. `Send` to a text that is no address sends to whatever address was in memory
    (`Socket.cpp:127`): `InvalidTextReachesNobody`, `Packets.cfg`.
14. A thread that writes or verifies a packet may see the flag that another one has stored
    and not yet its entries, and compute a checksum by entries that are zero: the packet is
    dropped, or dropped at the other end (`CRC.h:35`, `50`): `EveryThreadAgrees`, `Packets.cfg`.

The properties that pass are stated of the code as it is: that a pending handshake
is always removable holds *because* requests, too, go to slot 1, and that no socket is
closed under its object holds *because* `ShutdownSockets` does nothing. Where a hazard in
`PROJECT.json` has no property, its note says why.

## 6. Not modelled

- NGCrypto and NGMP are git submodules that are not in the tree; keys and HMACs are
  symbolic, as the code in `src/` uses them.
- `CheckForTimeouts`, which `Server::Listen` calls, has its body commented out: there is
  nothing to model but that a vanished client keeps its slot.
- Functions that nothing calls: `Adler32`, `IsClientConnected`, and `Buffer`'s reads
  and writes of `long long` and `float` (which convert numbers they should copy: see
  `hazards`).
- `Address::ToString` and everything else that formats or logs.
- A `RespondChallenge` thread that outlives its `Client`: undefined behaviour with no
  outcome to state. Destruction waits for the thread in the models.
- The C exports' checks of the pointer they are given; the calls they forward are the
  actions.
- `AllowBroadcast`: an option of the operating system's socket, without which the first
  request is not sent, which looks like loss.

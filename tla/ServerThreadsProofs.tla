------------------------- MODULE ServerThreadsProofs -------------------------
(***************************************************************************)
(* Proofs about ServerThreads for every number of clients, slots,           *)
(* handshakes and messages, on two threads or in one loop, and for whatever *)
(* the clients send: which session's fields a slot holds while it changes   *)
(* hands, whose key and whose address a message meets, and, in one loop,    *)
(* its number and its place behind CONNECTION_ACCEPTED.                     *)
(***************************************************************************)
EXTENDS ServerThreads, ServerLemmas, SequenceNumbersProofs

------------------------------------------------------------------------------
(* The inductive invariant, in layers.  A layer relies on those above it. *)

ClientSlots == Slots \ {0}

Listeners ==
    [pc : {"idle", "store", "callback", "accept"}, slot : Slots, stores : SUBSET Fields,
     flag : BOOLEAN, entry : ConnectionInfos, then : {"removed", "admitted"}]

Propagations ==
    [pc : {"idle", "test", "load", "store", "write", "send"}, slot : Slots, message : Nat,
     number : SeqNumbers, key : Keys]

OwnerRecords == [client : Clients, key : Keys, slot : ClientSlots]
SentRecords  == [dst : Addresses \ {NoAddress}, message : Nat, packet :
                     {ConnectionDataPacket(k, n) : k \in Keys, n \in SeqNumbers}
                     \cup {ConnectionAcceptedPacket(k, i) : k \in Keys, i \in ClientSlots}]

ThreadsTypeOK ==
    /\ ServerTypeOK
    /\ application \in [twoThreads : BOOLEAN, fromCallback : BOOLEAN]
    /\ listener \in Listeners
    /\ propagation \in [Threads -> Propagations]
    /\ messages \in Nat
    /\ owners \in Seq(OwnerRecords)
    /\ sent \in Seq(SentRecords)

\* A handshake, while it is pending in slot 1.
Pending(j) ==
    /\ challenges[j].clientAddress \in Clients
    /\ challenges[j].clientPublicKey \in Clients \X Nat
    /\ challenges[j].serverKeyPair \in GeneratedPairs
    /\ SettledKey(challenges[j]) \in KeyTaskResults(challenges[j])

HandshakesOK ==
    /\ serverUp
    /\ connected[0]
    /\ PendingHandshakeRemovable
    /\ \A j \in Slots : ~challenged[j] => challenges[j] = NoChallenge
    /\ \A j \in Slots : challenged[j] => Pending(j)

\* Where Listen is between two of its steps, and which loops can be under way then.
Admitting == listener.pc # "idle" /\ listener.then = "admitted"
Latest    == owners[Len(owners)]

ListenerOK ==
    /\ listener.pc # "idle" => listener.slot # 0
    /\ listener.pc \in {"callback", "accept"} => Admitting
    /\ Admitting =>
          /\ Len(owners) > 0
          /\ listener.slot = Latest.slot
          /\ listener.entry = ConnectionInfo(Latest.client, Latest.key)
          /\ listener.flag = TRUE
    /\ listener.pc # "idle" /\ ~Admitting => listener.entry = NoConnection /\ listener.flag = FALSE
    /\ Admitting /\ listener.pc = "store" =>
          challenged[1] /\ challenges[1].clientAddress = listener.entry.clientAddress

LoopsOK ==
    /\ \A t \in Threads : propagation[t].pc # "idle" => propagation[t].slot # 0
    /\ propagation["listener"].pc # "idle" => listener.pc = "accept" /\ FromCallback
    /\ ~TwoThreads /\ propagation["main"].pc # "idle" => listener.pc = "idle"

\* The first layer: where everything is.
PlacesOK == ThreadsTypeOK /\ HandshakesOK /\ ListenerOK /\ LoopsOK

\* The second layer: no two owners have the same key, and the pending handshake, unless it is
\* just being admitted, has a key pair that no owner's key is made from.
KeysOK ==
    /\ \A n \in DOMAIN owners : owners[n].key \in AgreedKeys
    /\ \A m, n \in DOMAIN owners : owners[m].key = owners[n].key => m = n
    /\ \A j \in Slots, n \in DOMAIN owners :
          challenged[j] /\ challenges[j].serverKeyPair \in owners[n].key =>
              Admitting /\ listener.pc = "store" /\ n = Len(owners)

\* The third layer: whose fields a slot holds.  Outside the stores both are blank, or both
\* those of the slot's latest owner; in between, each is one or the other.
LatestOwner(i, n) ==
    /\ owners[n].slot = i
    /\ \A m \in DOMAIN owners : owners[m].slot = i => m <= n

StoringInto(i)    == listener.pc = "store" /\ listener.slot = i
Stored(field) == field \notin listener.stores

AddressOfOwner(i) ==
    \E n \in DOMAIN owners : LatestOwner(i, n) /\ owners[n].client = connections[i].clientAddress
KeyOfOwner(i) ==
    \E n \in DOMAIN owners : LatestOwner(i, n) /\ owners[n].key = connections[i].sharedKey

EntryOK(i) ==
    /\ connections[i].clientAddress # NoAddress => AddressOfOwner(i)
    /\ connections[i].sharedKey # ZeroKey => KeyOfOwner(i)
    /\ ~StoringInto(i) /\ connected[i] =>
          connections[i].clientAddress # NoAddress /\ connections[i].sharedKey # ZeroKey
    /\ ~StoringInto(i) /\ ~connected[i] =>
          connections[i].clientAddress = NoAddress /\ connections[i].sharedKey = ZeroKey
    /\ StoringInto(i) =>
          /\ Stored("flag") => connected[i] = listener.flag
          /\ Stored("clientAddress") => connections[i].clientAddress = listener.entry.clientAddress
          /\ Stored("sharedKey") => connections[i].sharedKey = listener.entry.sharedKey

EntriesOK == \A i \in ClientSlots : EntryOK(i)

\* The fourth layer: what is sent, or about to be.
OwnerKeys == {owners[n].key : n \in DOMAIN owners}

SentOK ==
    /\ \A j \in DOMAIN sent : IsData(sent[j]) =>
          \E k \in OwnerKeys \cup {ZeroKey} : SealedWith(sent[j], k)
    /\ \A t \in Threads : propagation[t].pc = "send" /\ propagation[t].key # ZeroKey =>
          \E n \in DOMAIN owners : /\ owners[n].slot = propagation[t].slot
                                   /\ owners[n].key = propagation[t].key
    /\ NeverToAnEarlierOwner

Accepted(n) == ConnectionAcceptedPacket(owners[n].key, owners[n].slot)

WelcomeOK ==
    /\ listener.pc \in {"callback", "accept"} => connected[listener.slot]
    /\ \A n \in DOMAIN owners :
          \/ Admitting /\ n = Len(owners)
          \/ \E i \in DOMAIN sent : sent[i].packet = Accepted(n)
    /\ AcceptedFirst

\* The fifth layer: in one loop, every message is given to every occupied slot.  Of the
\* messages so far, a slot that the loop p has still to reach has not been given the last.
Awaits(i, p) ==
    /\ p.pc # "idle"
    /\ \/ p.slot < i
       \/ p.slot = i /\ p.pc \in {"test", "load", "store"}

Given(i) == messages - (IF \E t \in Threads : Awaits(i, propagation[t]) THEN 1 ELSE 0)

\* The session of owner n began after "since" messages: what this means while it begins,
\* for the number in its entry, and for the numbers of the messages that it was sent.
Begins(n, since) ==
    Admitting /\ n = Len(owners) =>
        /\ listener.pc \in {"store", "callback"} => since = messages
        /\ listener.pc = "store" /\ Stored("sequence") => connections[listener.slot].sequence = 0

Counts(n, since) ==
    LET i == owners[n].slot
    IN  ~StoringInto(i) /\ connected[i] /\ LatestOwner(i, n) =>
            /\ since <= Given(i)
            /\ connections[i].sequence = (Given(i) - since) % SeqModulus

Numbers(n, since) ==
    \A j \in DOMAIN sent : IsData(sent[j]) /\ SealedWith(sent[j], owners[n].key) =>
        /\ sent[j].message >= since
        /\ sent[j].packet.sequence = (sent[j].message - since) % SeqModulus

Session(n, since) == Begins(n, since) /\ Counts(n, since) /\ Numbers(n, since)

LoopOK(t) ==
    LET p == propagation[t]
    IN  /\ p.pc # "idle" => p.message = messages
        /\ p.pc \in {"load", "store", "write", "send"} => connected[p.slot]
        /\ p.pc = "store" => p.number = NextSequence(connections[p.slot].sequence)
        /\ p.pc \in {"write", "send"} => p.number = connections[p.slot].sequence
        /\ p.pc = "send" => p.key = connections[p.slot].sharedKey

NumbersOK ==
    ~TwoThreads =>
        /\ \A n \in DOMAIN owners : \E since \in 0 .. messages : Session(n, since)
        /\ \A t \in Threads : LoopOK(t)

ThreadsInv ==
    PlacesOK /\ KeysOK /\ EntriesOK /\ SentOK /\ WelcomeOK /\ NumbersOK

------------------------------------------------------------------------------
(* The first layer *)

\* What Listen may do to the pending handshakes without admitting their client: forget one,
\* leave it (its key may be waited for), or begin another with a key pair of its own.
HandshakesMove ==
    /\ challenged' \in [Slots -> BOOLEAN]
    /\ challenges' \in [Slots -> ChallengeInfos]
    /\ serverKeyPairs' \in Nat /\ serverKeyPairs <= serverKeyPairs'
    /\ \A j \in Slots : ~challenged'[j] => challenges'[j] = NoChallenge
    /\ \A j \in Slots : challenged'[j] =>
          /\ j = 1
          /\ \/ /\ challenged[j]
                /\ challenges'[j].clientAddress = challenges[j].clientAddress
                /\ challenges'[j].clientPublicKey = challenges[j].clientPublicKey
                /\ challenges'[j].serverKeyPair = challenges[j].serverKeyPair
                /\ SettledKey(challenges'[j]) = SettledKey(challenges[j])
             \/ /\ challenges'[j].clientAddress \in Clients
                /\ challenges'[j].clientPublicKey \in Clients \X Nat
                /\ challenges'[j].serverKeyPair = KeyPair(ServerAddress, serverKeyPairs)
                /\ SettledKey(challenges'[j]) \in KeyTaskResults(challenges'[j])
                /\ serverKeyPairs' = serverKeyPairs + 1

LEMMA SlotFacts ==
    /\ 0 \in Slots /\ 1 \in Slots /\ 1 \in ClientSlots
    /\ Slots \subseteq Nat
    /\ \A i \in Slots : i \in Nat /\ i + 1 # 0
    /\ \A i \in ClientSlots : i \in Slots /\ i # 0 /\ i \in Nat /\ i >= 1
BY ServerAssumption DEF Slots, ClientSlots

LEMMA HandshakeFacts ==
    ASSUME ServerTypeOK, HandshakesOK
    PROVE  /\ SameHandshakes(challenges)
           /\ \A i \in Slots : challenged[i] =>
                 SameHandshakes([challenges EXCEPT ![i] = Settle(challenges[i])])
           /\ \A j \in Slots : challenged[j] => j = 1
BY SettledTable DEF HandshakesOK, PendingHandshakeRemovable, AsInt

LEMMA TableMoves ==
    ASSUME ServerTypeOK, HandshakesOK, NEW table, SameHandshakes(table),
           UNCHANGED serverKeyPairs,
           \/ challenges' = table /\ UNCHANGED challenged
           \/ ForgetChallenge(1, table)
    PROVE  HandshakesMove
<1>1. /\ challenged \in [Slots -> BOOLEAN] /\ serverKeyPairs \in Nat
      /\ table \in [Slots -> ChallengeInfos]
      /\ \A j \in Slots : challenged[j] => j = 1
  BY HandshakeFacts DEF ServerTypeOK, SameHandshakes
<1>2. CASE challenges' = table /\ UNCHANGED challenged
  BY <1>1, <1>2 DEF HandshakesMove, SameHandshakes
<1>3. CASE ForgetChallenge(1, table)
  <2>1. /\ challenged' = [challenged EXCEPT ![1] = FALSE]
        /\ challenges' = [table EXCEPT ![1] = NoChallenge]
    BY <1>3 DEF ForgetChallenge
  <2>2. \A j \in Slots : ~challenged'[j]
    BY <1>1, <2>1, SlotFacts
  <2>3. \A j \in Slots : challenges'[j] = NoChallenge
    BY <1>1, <2>1, SlotFacts DEF SameHandshakes
  <2>4. challenges' \in [Slots -> ChallengeInfos]
    BY <1>1, <2>1, BlankEntries
  <2>. QED
    BY <1>1, <2>1, <2>2, <2>3, <2>4 DEF HandshakesMove
<1>. QED
  BY <1>2, <1>3

\* Dispatch, when it leaves the connections as they are.
LEMMA DispatchMoves ==
    ASSUME ServerTypeOK, HandshakesOK, NEW table, SameHandshakes(table), NEW rest, NEW d,
           NEW packetType, packetType # "CONNECTION_REQUEST",
           Dispatch(packetType, d, table, rest),
           UNCHANGED <<connected, numConnections>>
    PROVE  HandshakesMove
<1>1. numConnections \in Int /\ connected \in [Slots -> BOOLEAN]
  BY DEF ServerTypeOK
<1>2. CASE HandleChallengeResponse(d.src, table, rest) /\ UNCHANGED serverKeyPairs
  <2>1. numConnections' # numConnections + 1
    BY <1>1
  <2>2. challenges' = table /\ UNCHANGED challenged
    BY <1>2, <2>1 DEF HandleChallengeResponse
  <2>. QED
    BY <1>2, <2>2, TableMoves
<1>3. CASE RemoveClient(d.src, table) /\ UNCHANGED serverKeyPairs
  <2>1. numConnections' # numConnections - 1
    BY <1>1
  <2>2. ForgetChallenge(1, table)
    BY <1>3, <2>1 DEF RemoveClient, ForgetConnection, AsInt
  <2>. QED
    BY <1>3, <2>2, TableMoves
<1>4. CASE challenges' = table /\ UNCHANGED <<challenged, serverKeyPairs>>
  BY <1>4, TableMoves
<1>. QED
  BY <1>2, <1>3, <1>4 DEF Dispatch

LEMMA RequestMoves ==
    ASSUME ServerTypeOK, HandshakesOK, NEW c \in Clients, NEW pk \in Clients \X Nat, NEW rest,
           FindExistingChallengeIndex(c) < 0,
           HandleConnectionRequest(c, pk, challenges, rest)
    PROVE  HandshakesMove
<1>. DEFINE fresh == Fresh(c, pk)
<1>1. PICK k \in KeyTaskResults(fresh) :
         challenges' = [challenges EXCEPT ![1] = [fresh EXCEPT !.future = {k}]]
  BY RequestEffect DEF HandshakesOK
<1>2. /\ challenged' = [challenged EXCEPT ![1] = TRUE]
      /\ serverKeyPairs' = serverKeyPairs + 1
  BY RequestEffect DEF HandshakesOK
<1>. DEFINE entry == [fresh EXCEPT !.future = {k}]
<1>3. /\ fresh \in ChallengeInfos
      /\ fresh.clientPublicKey = pk
      /\ fresh.serverKeyPair = KeyPair(ServerAddress, serverKeyPairs)
  <2>1. KeyPair(ServerAddress, serverKeyPairs) \in KeyPairs /\ pk \in KeyPairs
    BY DEF ServerTypeOK, KeyPair, KeyPairs, Owners
  <2>2. c \in Addresses
    BY DEF Addresses
  <2>. QED
    BY <2>1, <2>2, BlankEntries DEF ChallengeInfos, NoChallenge, Fresh
<1>4. k \in Keys
  BY <1>3, KeyTaskType
<1>5. /\ entry \in ChallengeInfos
      /\ entry.clientAddress = c
      /\ entry.clientPublicKey = pk
      /\ entry.serverKeyPair = KeyPair(ServerAddress, serverKeyPairs)
      /\ SettledKey(entry) = k
  <2>1. /\ entry.clientAddress = c
        /\ entry.clientPublicKey = pk
        /\ entry.serverKeyPair = KeyPair(ServerAddress, serverKeyPairs)
        /\ entry.future = {k}
    BY DEF Fresh, NoChallenge
  <2>2. SettledKey(entry) = k
    BY <2>1 DEF SettledKey
  <2>3. entry \in ChallengeInfos
    <3>. HIDE DEF fresh
    <3>. QED
      BY <1>3, <1>4 DEF ChallengeInfos
  <2>. QED
    BY <2>1, <2>2, <2>3
<1>6. k \in KeyTaskResults(entry)
  BY <1>1, <1>3, <1>5 DEF KeyTaskResults
<1>. HIDE DEF entry, fresh
<1>7. challenges' = [challenges EXCEPT ![1] = entry]
  BY <1>1 DEF entry
<1>8. /\ challenged \in [Slots -> BOOLEAN] /\ serverKeyPairs \in Nat
      /\ challenges \in [Slots -> ChallengeInfos]
      /\ \A j \in Slots : challenged[j] => j = 1
  BY HandshakeFacts DEF ServerTypeOK
<1>9. \A j \in Slots : ~challenged'[j] => challenges'[j] = NoChallenge
  BY <1>2, <1>7, <1>8, SlotFacts DEF HandshakesOK
<1>. QED
  BY <1>2, <1>5, <1>6, <1>7, <1>8, <1>9, SlotFacts DEF HandshakesMove

LEMMA ElseMoves ==
    ASSUME ServerTypeOK, HandshakesOK, NEW c \in Clients, NEW p \in Packets,
           NEW d, d.src = c, d.packet = p, ListenElse(d)
    PROVE  /\ HandshakesMove
           /\ UNCHANGED <<serverUp, serverState, connected, connections, numConnections>>
           /\ UNCHANGED threadVars
<1>1. /\ ServerListen(d, {})
      /\ UNCHANGED <<connected, connections, numConnections>> /\ UNCHANGED threadVars
  BY DEF ListenElse
<1>2. UNCHANGED <<serverUp, serverState>>
  BY <1>1 DEF ServerListen
<1>3. p \in ClientPackets
  BY DEF Packets
<1>4. CASE ListenToConnected(d, {})
  <2>. DEFINE t == VerifyPacketHMAC(connections[FindExistingConnectionIndex(c)].sharedKey, p)
  <2>1. Dispatch(t, d, challenges, {})
    BY <1>4 DEF ListenToConnected
  <2>2. t # "CONNECTION_REQUEST"
    BY <1>3, SealedIsNoRequest
  <2>. HIDE DEF t
  <2>. QED
    BY <1>1, <1>2, <2>1, <2>2, HandshakeFacts, DispatchMoves
<1>5. CASE ListenToStranger(d, {})
  <2>1. FindExistingChallengeIndex(c) < 0
    BY <1>5 DEF ListenToStranger
  <2>2. CASE /\ VerifyPacketCRC(p) = "CONNECTION_REQUEST"
             /\ HandleConnectionRequest(c, p.publicKey, challenges, {})
    <3>1. p.publicKey \in Clients \X Nat
      <4>1. CASE \E pk \in Clients \X Nat : p = ConnectionRequestPacket(pk)
        BY <4>1 DEF ConnectionRequestPacket
      <4>2. CASE \E h \in Keys : p = ChallengeResponsePacket(h) \/ p = DisconnectPacket(h)
        BY <2>2, <4>2 DEF VerifyPacketCRC, ChallengeResponsePacket, DisconnectPacket
      <4>3. CASE \E h \in Keys, s \in SeqNumbers : p = ConnectionDataPacket(h, s)
        BY <2>2, <4>3 DEF VerifyPacketCRC, ConnectionDataPacket
      <4>. QED
        BY <1>3, <4>1, <4>2, <4>3, ClientPacketForms
    <3>. QED
      BY <1>1, <1>2, <2>1, <2>2, <3>1, RequestMoves
  <2>3. CASE challenges' = challenges /\ UNCHANGED <<challenged, serverKeyPairs>>
    BY <1>1, <1>2, <2>3, HandshakeFacts, TableMoves
  <2>. QED
    BY <1>1, <1>2, <1>5, <2>2, <2>3 DEF ListenToStranger, Dispatch, serverTables
<1>6. CASE ListenToChallenged(d, {})
  <2>. DEFINE i == FindExistingChallengeIndex(c)
              table == [challenges EXCEPT ![i] = Settle(challenges[i])]
              t == VerifyPacketHMAC(table[i].sharedKey, p)
  <2>1. i >= 0 /\ Dispatch(t, d, table, {})
    BY <1>6 DEF ListenToChallenged
  <2>2. i \in Slots /\ challenged[i]
    BY <2>1, ChallengeLookup
  <2>3. SameHandshakes(table)
    BY <2>2, HandshakeFacts
  <2>4. t # "CONNECTION_REQUEST"
    BY <1>3, SealedIsNoRequest
  <2>. HIDE DEF t, table
  <2>. QED
    BY <1>1, <1>2, <2>1, <2>3, <2>4, DispatchMoves
<1>. QED
  BY <1>1, <1>4, <1>5, <1>6 DEF ServerListen

LEMMA MoveKeepsHandshakes ==
    ASSUME ServerTypeOK, HandshakesOK, HandshakesMove,
           UNCHANGED <<serverUp, connected>>
    PROVE  HandshakesOK'
<1>1. PendingHandshakeRemovable' /\ \A j \in Slots : ~challenged'[j] => challenges'[j] = NoChallenge
  BY DEF HandshakesMove, PendingHandshakeRemovable, AsInt
<1>2. \A j \in Slots : challenged'[j] => Pending(j)'
  <2>. SUFFICES ASSUME NEW j \in Slots, challenged'[j] PROVE Pending(j)'
    OBVIOUS
  <2>1. serverKeyPairs \in Nat
    BY DEF ServerTypeOK
  <2>2. GeneratedPairs \subseteq GeneratedPairs'
    BY <2>1, PairsGrow DEF HandshakesMove
  <2>3. CASE /\ challenged[j]
             /\ challenges'[j].clientAddress = challenges[j].clientAddress
             /\ challenges'[j].clientPublicKey = challenges[j].clientPublicKey
             /\ challenges'[j].serverKeyPair = challenges[j].serverKeyPair
             /\ SettledKey(challenges'[j]) = SettledKey(challenges[j])
    BY <2>2, <2>3 DEF HandshakesOK, Pending, KeyTaskResults
  <2>4. CASE /\ challenges'[j].clientAddress \in Clients
             /\ challenges'[j].clientPublicKey \in Clients \X Nat
             /\ challenges'[j].serverKeyPair = KeyPair(ServerAddress, serverKeyPairs)
             /\ SettledKey(challenges'[j]) \in KeyTaskResults(challenges'[j])
             /\ serverKeyPairs' = serverKeyPairs + 1
    <3>1. KeyPair(ServerAddress, serverKeyPairs) \in GeneratedPairs'
      BY <2>1, <2>4 DEF GeneratedPairs
    <3>. QED
      BY <2>4, <3>1 DEF Pending
  <2>. QED
    BY <2>3, <2>4 DEF HandshakesMove
<1>. QED
  BY <1>1, <1>2 DEF HandshakesOK

LEMMA HandshakesStay ==
    ASSUME HandshakesOK, UNCHANGED <<serverUp, challenged, challenges, serverKeyPairs>>, connected'[0]
    PROVE  HandshakesOK'
BY DEF HandshakesOK, PendingHandshakeRemovable, Pending, GeneratedPairs, KeyTaskResults

LEMMA IdleFacts ==
    /\ IdleListener \in Listeners
    /\ IdlePropagation \in Propagations
    /\ \A n \in Nat :
          [IdlePropagation EXCEPT !.pc = "test", !.slot = 1, !.message = n] \in Propagations
<1>1. 0 \in SeqNumbers
  BY SeqModulusAssumption DEF SeqNumbers
<1>. QED
  BY <1>1, SlotFacts, BlankEntries DEF IdleListener, Listeners, IdlePropagation, Propagations

LEMMA NextSlotFacts ==
    ASSUME NEW p \in Propagations
    PROVE  \/ p.slot + 1 \notin Slots /\ NextSlot(p) = IdlePropagation
           \/ /\ p.slot + 1 \in Slots /\ NextSlot(p) \in Propagations
              /\ NextSlot(p).pc = "test" /\ NextSlot(p).slot = p.slot + 1
              /\ NextSlot(p).message = p.message
<1>. DEFINE next == [p EXCEPT !.pc = "test", !.slot = @ + 1]
<1>1. CASE p.slot + 1 \in Slots
  <2>1. /\ next \in Propagations
        /\ next.pc = "test" /\ next.slot = p.slot + 1 /\ next.message = p.message
    BY <1>1 DEF Propagations
  <2>. QED
    BY <1>1, <2>1 DEF NextSlot
<1>2. CASE p.slot + 1 \notin Slots
  BY <1>2 DEF NextSlot
<1>. QED
  BY <1>1, <1>2

\* A thread's next step in PropagateGameData, if it leaves the thread in a place it can be.
LEMMA LoopStepKeepsPlaces ==
    ASSUME PlacesOK, NEW t \in Threads, propagation[t].pc # "idle",
           NEW next \in Propagations, next.pc # "idle" => next.slot # 0,
           propagation' = [propagation EXCEPT ![t] = next],
           UNCHANGED <<serverUp, connected, challenged, challenges, numConnections, serverState,
                       serverKeyPairs, listener, messages, owners, application>>,
           connections' \in [Slots -> ConnectionInfos], sent' \in Seq(SentRecords)
    PROVE  PlacesOK'
<1>1. propagation \in [Threads -> Propagations]
  BY DEF PlacesOK, ThreadsTypeOK
<1>2. ThreadsTypeOK'
  BY <1>1 DEF PlacesOK, ThreadsTypeOK, ServerTypeOK
<1>3. HandshakesOK'
  BY HandshakesStay DEF PlacesOK, HandshakesOK
<1>4. ListenerOK'
  BY DEF PlacesOK, ListenerOK, Admitting, Latest
<1>5. LoopsOK'
  BY <1>1 DEF PlacesOK, LoopsOK, TwoThreads, FromCallback, Threads
<1>. QED
  BY <1>2, <1>3, <1>4, <1>5 DEF PlacesOK

SentPackets ==
    {ConnectionDataPacket(k, n) : k \in Keys, n \in SeqNumbers}
    \cup {ConnectionAcceptedPacket(k, i) : k \in Keys, i \in ClientSlots}

\* What SendTo adds to the history.
LEMMA SendToEffect ==
    ASSUME sent \in Seq(SentRecords), NEW a \in Addresses, NEW n \in Nat,
           NEW packet \in SentPackets, SendTo(a, packet, n)
    PROVE  /\ sent' \in Seq(SentRecords)
           /\ Len(sent) \in Nat /\ DOMAIN sent = 1 .. Len(sent) /\ Len(sent) + 1 \notin DOMAIN sent
           /\ \/ a = NoAddress /\ sent' = sent
              \/ /\ a # NoAddress
                 /\ DOMAIN sent' = DOMAIN sent \cup {Len(sent) + 1}
                 /\ \A j \in DOMAIN sent : sent'[j] = sent[j]
                 /\ sent'[Len(sent) + 1] = [dst |-> a, packet |-> packet, message |-> n]
<1>0. Len(sent) \in Nat /\ DOMAIN sent = 1 .. Len(sent) /\ Len(sent) + 1 \notin DOMAIN sent
  OBVIOUS
<1>1. CASE a = NoAddress
  BY <1>0, <1>1 DEF SendTo
<1>2. CASE a # NoAddress
  <2>. DEFINE e == [dst |-> a, packet |-> packet, message |-> n]
  <2>1. e \in SentRecords
    BY <1>2 DEF SentRecords, SentPackets
  <2>2. sent' = Append(sent, e)
    BY <1>2 DEF SendTo
  <2>3. e = [dst |-> a, packet |-> packet, message |-> n]
    OBVIOUS
  <2>. HIDE DEF e
  <2>4. /\ sent' \in Seq(SentRecords)
        /\ DOMAIN sent' = DOMAIN sent \cup {Len(sent) + 1}
        /\ \A j \in DOMAIN sent : sent'[j] = sent[j]
        /\ sent'[Len(sent) + 1] = e
    BY <2>1, <2>2, AppendFacts
  <2>. QED
    BY <1>0, <1>2, <2>3, <2>4, Zenon
<1>. QED
  BY <1>1, <1>2

LEMMA PropagatesKeepsPlaces ==
    ASSUME PlacesOK, NEW t \in Threads, Propagates(t), UNCHANGED application
    PROVE  PlacesOK'
<1>. DEFINE p == propagation[t]
<1>1. /\ p \in Propagations /\ p.slot \in Slots /\ p.number \in SeqNumbers /\ p.key \in Keys
      /\ p.message \in Nat
  BY DEF PlacesOK, ThreadsTypeOK, Propagations
<1>2. p.pc # "idle" => p.slot # 0
  BY DEF PlacesOK, LoopsOK
<1>3. /\ connections \in [Slots -> ConnectionInfos] /\ sent \in Seq(SentRecords)
      /\ propagation \in [Threads -> Propagations]
  BY DEF PlacesOK, ThreadsTypeOK, ServerTypeOK
<1>4. /\ connections[p.slot].sequence \in SeqNumbers
      /\ connections[p.slot].sharedKey \in Keys
      /\ connections[p.slot].clientAddress \in Addresses
  BY <1>1, <1>3 DEF ConnectionInfos
<1>5. /\ NextSlot(p) \in Propagations
      /\ NextSlot(p).pc # "idle" => NextSlot(p).slot # 0
  <2>. HIDE DEF p
  <2>1. p.slot + 1 # 0
    BY <1>1, SlotFacts
  <2>2. IdlePropagation.pc = "idle"
    BY DEF IdlePropagation
  <2>. QED
    BY <1>1, <2>1, <2>2, NextSlotFacts, IdleFacts
<1>. HIDE DEF p
<1>6. CASE Test(t)
  <2>1. /\ p.pc = "test"
        /\ propagation' = [propagation EXCEPT ![t] =
               IF connected[p.slot] THEN [p EXCEPT !.pc = "load"] ELSE NextSlot(p)]
        /\ UNCHANGED <<serverUp, connected, challenged, challenges, numConnections, serverState,
                       serverKeyPairs, listener, messages, owners, connections, sent>>
    BY <1>6 DEF Test, Goes, p
  <2>2. [p EXCEPT !.pc = "load"] \in Propagations /\ [p EXCEPT !.pc = "load"].slot = p.slot
    BY <1>1 DEF Propagations
  <2>. DEFINE next == IF connected[p.slot] THEN [p EXCEPT !.pc = "load"] ELSE NextSlot(p)
  <2>3. next \in Propagations /\ (next.pc # "idle" => next.slot # 0)
    BY <1>2, <1>5, <2>1, <2>2
  <2>. HIDE DEF next
  <2>. QED
    BY <1>3, <2>1, <2>3, LoopStepKeepsPlaces DEF p, next
<1>7. CASE Load(t)
  <2>. DEFINE next == [p EXCEPT !.pc = "store", !.number = NextSequence(connections[p.slot].sequence)]
  <2>1. /\ p.pc = "load"
        /\ propagation' = [propagation EXCEPT ![t] = next]
        /\ UNCHANGED <<serverUp, connected, challenged, challenges, numConnections, serverState,
                       serverKeyPairs, listener, messages, owners, connections, sent>>
    BY <1>7 DEF Load, Goes, p
  <2>2. NextSequence(connections[p.slot].sequence) \in SeqNumbers
    BY <1>4, SeqModulusAssumption DEF NextSequence, SeqNumbers
  <2>3. next \in Propagations /\ (next.pc # "idle" => next.slot # 0)
    BY <1>1, <1>2, <2>1, <2>2 DEF Propagations
  <2>. HIDE DEF next
  <2>. QED
    BY <1>3, <2>1, <2>3, LoopStepKeepsPlaces DEF p
<1>8. CASE StoreNumber(t)
  <2>. DEFINE next == [p EXCEPT !.pc = "write"]
  <2>1. /\ p.pc = "store"
        /\ propagation' = [propagation EXCEPT ![t] = next]
        /\ connections' = [connections EXCEPT ![p.slot].sequence = p.number]
        /\ UNCHANGED <<serverUp, connected, challenged, challenges, numConnections, serverState,
                       serverKeyPairs, listener, messages, owners, sent>>
    BY <1>8 DEF StoreNumber, Goes, p
  <2>2. next \in Propagations /\ (next.pc # "idle" => next.slot # 0)
    BY <1>1, <1>2, <2>1 DEF Propagations
  <2>3. connections' \in [Slots -> ConnectionInfos]
    BY <1>1, <1>3, <2>1 DEF ConnectionInfos
  <2>. HIDE DEF next
  <2>. QED
    BY <1>3, <2>1, <2>2, <2>3, LoopStepKeepsPlaces DEF p
<1>9. CASE WritePacket(t)
  <2>. DEFINE next == [p EXCEPT !.pc = "send", !.key = connections[p.slot].sharedKey]
  <2>1. /\ p.pc = "write"
        /\ propagation' = [propagation EXCEPT ![t] = next]
        /\ UNCHANGED <<serverUp, connected, challenged, challenges, numConnections, serverState,
                       serverKeyPairs, listener, messages, owners, connections, sent>>
    BY <1>9 DEF WritePacket, Goes, p
  <2>2. next \in Propagations /\ (next.pc # "idle" => next.slot # 0)
    BY <1>1, <1>2, <1>4, <2>1 DEF Propagations
  <2>. HIDE DEF next
  <2>. QED
    BY <1>3, <2>1, <2>2, LoopStepKeepsPlaces DEF p
<1>10. CASE SendPacket(t)
  <2>1. /\ p.pc = "send"
        /\ propagation' = [propagation EXCEPT ![t] = NextSlot(p)]
        /\ SendTo(connections[p.slot].clientAddress, ConnectionDataPacket(p.key, p.number), p.message)
        /\ UNCHANGED <<serverUp, connected, challenged, challenges, numConnections, serverState,
                       serverKeyPairs, listener, messages, owners, connections>>
    BY <1>10 DEF SendPacket, Goes, p
  <2>2. ConnectionDataPacket(p.key, p.number) \in SentPackets
    BY <1>1 DEF SentPackets
  <2>3. sent' \in Seq(SentRecords)
    BY <1>1, <1>3, <1>4, <2>1, <2>2, SendToEffect
  <2>. QED
    BY <1>3, <1>5, <2>1, <2>3, LoopStepKeepsPlaces DEF p
<1>. QED
  BY <1>6, <1>7, <1>8, <1>9, <1>10 DEF Propagates

LEMMA PropagateKeepsPlaces ==
    ASSUME PlacesOK, Propagate, UNCHANGED application
    PROVE  PlacesOK'
<1>1. /\ messages \in Nat /\ propagation \in [Threads -> Propagations]
      /\ propagation' = [propagation EXCEPT !["main"] =
             [IdlePropagation EXCEPT !.pc = "test", !.slot = 1, !.message = messages + 1]]
      /\ messages' = messages + 1
      /\ UNCHANGED <<serverUp, connected, connections, challenged, challenges, numConnections,
                     serverState, serverKeyPairs, listener, owners, sent, application>>
  BY DEF PlacesOK, ThreadsTypeOK, Propagate, serverVars, serverTables
<1>2. ThreadsTypeOK'
  <2>1. messages' \in Nat
    BY <1>1
  <2>2. [IdlePropagation EXCEPT !.pc = "test", !.slot = 1, !.message = messages + 1] \in Propagations
    BY <1>1, <2>1, IdleFacts
  <2>3. propagation' \in [Threads -> Propagations]
    BY <1>1, <2>2
  <2>. QED
    BY <1>1, <2>1, <2>3 DEF PlacesOK, ThreadsTypeOK, ServerTypeOK
<1>3. HandshakesOK'
  BY <1>1, HandshakesStay DEF PlacesOK, HandshakesOK
<1>4. ListenerOK'
  BY <1>1 DEF PlacesOK, ListenerOK, Admitting, Latest
<1>5. LoopsOK'
  <2>1. ~TwoThreads => listener.pc = "idle"
    BY DEF Propagate
  <2>2. propagation'["main"].slot = 1 /\ propagation'["listener"] = propagation["listener"]
    BY <1>1 DEF Threads, IdlePropagation
  <2>. QED
    BY <1>1, <2>1, <2>2 DEF PlacesOK, LoopsOK, TwoThreads, FromCallback, Threads
<1>. QED
  BY <1>2, <1>3, <1>4, <1>5 DEF PlacesOK

LEMMA SwitchKeepsPlaces ==
    ASSUME PlacesOK, Switch, UNCHANGED application
    PROVE  PlacesOK'
<1>1. /\ serverState' \in {"LOBBY", "GAME"}
      /\ UNCHANGED <<serverUp, connected, connections, challenged, challenges, numConnections,
                     serverKeyPairs, listener, propagation, messages, owners, sent, application>>
  BY DEF Switch, SwitchToLobby, SwitchToGame, SwitchTo, serverTables, threadVars
<1>2. ThreadsTypeOK'
  BY <1>1 DEF PlacesOK, ThreadsTypeOK, ServerTypeOK
<1>3. HandshakesOK'
  BY <1>1, HandshakesStay DEF PlacesOK, HandshakesOK
<1>4. ListenerOK'
  BY <1>1 DEF PlacesOK, ListenerOK, Admitting, Latest
<1>5. LoopsOK'
  BY <1>1 DEF PlacesOK, LoopsOK, TwoThreads, FromCallback
<1>. QED
  BY <1>2, <1>3, <1>4, <1>5 DEF PlacesOK

LEMMA ElseKeepsPlaces ==
    ASSUME PlacesOK, NEW c \in Clients, NEW p \in Packets,
           NEW d, d.src = c, d.packet = p, ListenElse(d), UNCHANGED application
    PROVE  PlacesOK'
<1>1. /\ HandshakesMove
      /\ UNCHANGED <<serverUp, serverState, connected, connections, numConnections>>
      /\ UNCHANGED threadVars
  BY ElseMoves DEF PlacesOK, ThreadsTypeOK
<1>2. ThreadsTypeOK'
  BY <1>1 DEF PlacesOK, ThreadsTypeOK, ServerTypeOK, HandshakesMove, threadVars
<1>3. HandshakesOK'
  BY <1>1, MoveKeepsHandshakes DEF PlacesOK, ThreadsTypeOK
<1>4. ListenerOK'
  BY <1>1 DEF ListenElse, ListenerOK, Admitting, threadVars
<1>5. LoopsOK'
  BY <1>1 DEF PlacesOK, LoopsOK, TwoThreads, FromCallback, threadVars
<1>. QED
  BY <1>2, <1>3, <1>4, <1>5 DEF PlacesOK

\* What the acceptance of a CHALLENGE_RESPONSE does before the entry is stored.  The packet
\* is sealed with the key of the handshake, which is therefore no key task's garbage.
LEMMA AdmissionBegins ==
    ASSUME PlacesOK, NEW c \in Clients, NEW p \in Packets,
           NEW d, d.src = c, d.packet = p, BeginAdmission(d)
    PROVE  \E slot \in ClientSlots, key \in AgreedKeys :
              /\ listener.pc = "idle" /\ ListenerRuns
              /\ ~connected[slot]
              /\ challenged[1] /\ challenges[1].clientAddress = c
              /\ key = SharedKey(challenges[1].serverKeyPair, challenges[1].clientPublicKey)
              /\ SameHandshakes(challenges')
              /\ listener' = Storing(slot, TRUE, ConnectionInfo(c, key), "admitted")
              /\ owners' = Append(owners, [client |-> c, key |-> key, slot |-> slot])
              /\ UNCHANGED <<serverUp, connected, connections, challenged, numConnections,
                             serverState, serverKeyPairs, network, propagation, messages, sent>>
<1>. DEFINE i    == FindExistingChallengeIndex(c)
            slot == FindFreeConnectionIndex
            key  == SettledKey(challenges[1])
            table == [challenges EXCEPT ![i] = Settle(challenges[i])]
<1>1. ServerTypeOK /\ HandshakesOK
  BY DEF PlacesOK, ThreadsTypeOK
<1>2. /\ i >= 0 /\ slot > -1
      /\ listener.pc = "idle" /\ ListenerRuns
      /\ VerifyPacketHMAC(table[i].sharedKey, p) = "CHALLENGE_RESPONSE"
      /\ listener' = Storing(slot, TRUE, ConnectionInfo(c, table[i].sharedKey), "admitted")
      /\ challenges' = table
      /\ owners' = Append(owners, [client |-> c, key |-> table[i].sharedKey, slot |-> slot])
      /\ UNCHANGED <<serverUp, connected, challenged, connections, numConnections, serverState,
                     serverKeyPairs, network, propagation, messages, sent>>
  BY DEF BeginAdmission
<1>. HIDE DEF i, slot
<1>3. i = 1 /\ challenged[1] /\ challenges[1].clientAddress = c
  <2>1. i \in Slots /\ challenged[i] /\ challenges[i].clientAddress = c
    BY <1>2, ChallengeLookup DEF i
  <2>2. i = 1
    BY <1>1, <2>1, HandshakeFacts
  <2>. QED
    BY <2>1, <2>2
<1>4. slot \in ClientSlots /\ ~connected[slot]
  <2>1. slot \in Slots /\ ~connected[slot]
    BY <1>2, FreeLookup DEF slot
  <2>2. slot # 0
    BY <1>1, <2>1 DEF HandshakesOK
  <2>. QED
    BY <2>1, <2>2 DEF ClientSlots
<1>5. /\ challenges \in [Slots -> ChallengeInfos]
      /\ 1 \in Slots /\ challenges[1] \in ChallengeInfos
  BY <1>1, SlotFacts DEF ServerTypeOK
<1>6. table[1].sharedKey = key /\ SameHandshakes(table)
  BY <1>1, <1>3, <1>5, SettleFacts, HandshakeFacts
<1>7. key \notin GarbageKeys
  <2>1. p.seal = HMAC(key)
    BY <1>2, <1>3, <1>6 DEF VerifyPacketHMAC
  <2>. QED
    BY <2>1 DEF Packets
<1>8. Pending(1)
  BY <1>1, <1>3, <1>5 DEF HandshakesOK
<1>9. key = SharedKey(challenges[1].serverKeyPair, challenges[1].clientPublicKey)
  BY <1>7, <1>8 DEF Pending, KeyTaskResults, SharedKey
<1>10. key \in AgreedKeys
  BY <1>8, <1>9 DEF Pending, AgreedKeys
<1>. HIDE DEF key, table
<1>. QED
  BY <1>2, <1>3, <1>4, <1>6, <1>9, <1>10

LEMMA StoringFacts ==
    ASSUME NEW slot \in ClientSlots, NEW flag \in BOOLEAN, NEW entry \in ConnectionInfos,
           NEW then \in {"removed", "admitted"}
    PROVE  Storing(slot, flag, entry, then) \in Listeners
BY SlotFacts DEF Storing, Listeners

LEMMA AdmissionKeepsPlaces ==
    ASSUME PlacesOK, NEW c \in Clients, NEW p \in Packets,
           NEW d, d.src = c, d.packet = p, BeginAdmission(d), UNCHANGED application
    PROVE  PlacesOK'
<1>1. PICK slot \in ClientSlots, key \in AgreedKeys :
              /\ listener.pc = "idle" /\ ListenerRuns
              /\ ~connected[slot]
              /\ challenged[1] /\ challenges[1].clientAddress = c
              /\ key = SharedKey(challenges[1].serverKeyPair, challenges[1].clientPublicKey)
              /\ SameHandshakes(challenges')
              /\ listener' = Storing(slot, TRUE, ConnectionInfo(c, key), "admitted")
              /\ owners' = Append(owners, [client |-> c, key |-> key, slot |-> slot])
              /\ UNCHANGED <<serverUp, connected, connections, challenged, numConnections,
                             serverState, serverKeyPairs, network, propagation, messages, sent>>
  BY AdmissionBegins
<1>. DEFINE entry == ConnectionInfo(c, key)
            owner == [client |-> c, key |-> key, slot |-> slot]
<1>2. ServerTypeOK /\ HandshakesOK
  BY DEF PlacesOK, ThreadsTypeOK
<1>3. key \in Keys /\ c \in Addresses
  BY <1>2, AgreedKeysTyped DEF ServerTypeOK, Addresses
<1>4. entry \in ConnectionInfos /\ owner \in OwnerRecords
  BY <1>3, BlankEntries DEF OwnerRecords
<1>5. /\ owners \in Seq(OwnerRecords) /\ owners' = Append(owners, owner)
      /\ listener' = Storing(slot, TRUE, entry, "admitted")
  BY <1>1 DEF PlacesOK, ThreadsTypeOK
<1>6. entry.clientAddress = c
  BY DEF ConnectionInfo
<1>7. owner.client = c /\ owner.key = key /\ owner.slot = slot
  OBVIOUS
<1>. HIDE DEF entry, owner
<1>8. /\ owners' \in Seq(OwnerRecords)
      /\ Len(owners') = Len(owners) + 1 /\ Len(owners) \in Nat
      /\ owners'[Len(owners')] = owner
  BY <1>4, <1>5, AppendFacts
<1>9. ThreadsTypeOK'
  <2>1. listener' \in Listeners
    BY <1>4, <1>5, StoringFacts
  <2>2. ServerTypeOK'
    BY <1>1 DEF PlacesOK, ThreadsTypeOK, ServerTypeOK, SameHandshakes
  <2>. QED
    BY <1>1, <1>8, <2>1, <2>2 DEF PlacesOK, ThreadsTypeOK
<1>10. HandshakesOK'
  <2>1. HandshakesMove
    BY <1>1, <1>2, TableMoves
  <2>. QED
    BY <1>1, <1>2, <2>1, MoveKeepsHandshakes
<1>11. ListenerOK'
  <2>1. challenged'[1] /\ challenges'[1].clientAddress = c
    BY <1>1, SlotFacts DEF SameHandshakes
  <2>2. /\ listener'.pc = "store" /\ listener'.slot = slot /\ listener'.then = "admitted"
        /\ listener'.entry = entry /\ listener'.flag = TRUE
    BY <1>5 DEF Storing
  <2>3. slot # 0
    BY DEF ClientSlots
  <2>. QED
    BY <1>6, <1>7, <1>8, <2>1, <2>2, <2>3 DEF ListenerOK, Admitting, Latest, entry
<1>12. LoopsOK'
  <2>1. /\ propagation["listener"].pc = "idle"
        /\ ~TwoThreads => propagation["main"].pc = "idle"
    BY <1>1 DEF ListenerRuns
  <2>. QED
    BY <1>1, <2>1 DEF PlacesOK, LoopsOK, TwoThreads, FromCallback
<1>. QED
  BY <1>9, <1>10, <1>11, <1>12 DEF PlacesOK

LEMMA RemovalKeepsPlaces ==
    ASSUME PlacesOK, NEW d, BeginRemoval(d), UNCHANGED application
    PROVE  PlacesOK'
<1>1. /\ listener.pc = "idle" /\ ListenerRuns
      /\ listener' = Storing(1, FALSE, NoConnection, "removed")
      /\ UNCHANGED <<serverUp, connected, connections, challenged, challenges, numConnections,
                     serverState, serverKeyPairs, network, propagation, messages, owners, sent>>
  BY DEF BeginRemoval, AsInt, serverVars, serverTables
<1>2. listener' \in Listeners
  BY <1>1, SlotFacts, BlankEntries, StoringFacts
<1>3. ThreadsTypeOK'
  BY <1>1, <1>2 DEF PlacesOK, ThreadsTypeOK, ServerTypeOK
<1>4. HandshakesOK'
  BY <1>1, HandshakesStay DEF PlacesOK, HandshakesOK
<1>5. ListenerOK'
  <2>1. /\ listener'.pc = "store" /\ listener'.slot = 1 /\ listener'.then = "removed"
        /\ listener'.entry = NoConnection /\ listener'.flag = FALSE
    BY <1>1 DEF Storing
  <2>. QED
    BY <2>1 DEF ListenerOK, Admitting
<1>6. LoopsOK'
  <2>1. /\ propagation["listener"].pc = "idle"
        /\ ~TwoThreads => propagation["main"].pc = "idle"
    BY <1>1 DEF ListenerRuns
  <2>. QED
    BY <1>1, <2>1 DEF PlacesOK, LoopsOK, TwoThreads, FromCallback
<1>. QED
  BY <1>3, <1>4, <1>5, <1>6 DEF PlacesOK

\* What the store of one field changes.
LEMMA StoreEffect ==
    ASSUME PlacesOK, NEW field \in Fields, StoreOf(field)
    PROVE  LET s == listener.slot
               e == listener.entry
           IN  /\ s \in Slots /\ listener \in Listeners
               /\ connected' \in [Slots -> BOOLEAN]
               /\ connections' \in [Slots -> ConnectionInfos]
               /\ \A i \in Slots : i # s =>
                     connected'[i] = connected[i] /\ connections'[i] = connections[i]
               /\ connected'[s] = (IF field = "flag" THEN listener.flag ELSE connected[s])
               /\ connections'[s].clientAddress =
                      (IF field = "clientAddress" THEN e.clientAddress ELSE connections[s].clientAddress)
               /\ connections'[s].sharedKey =
                      (IF field = "sharedKey" THEN e.sharedKey ELSE connections[s].sharedKey)
               /\ connections'[s].sequence =
                      (IF field = "sequence" THEN e.sequence ELSE connections[s].sequence)
<1>. DEFINE s == listener.slot
            e == listener.entry
            old == connections[s]
            new == CASE field = "flag"          -> old
                     [] field = "clientAddress" -> [old EXCEPT !.clientAddress = e.clientAddress]
                     [] field = "sharedKey"     -> [old EXCEPT !.sharedKey = e.sharedKey]
                     [] field = "sequence"      -> [old EXCEPT !.sequence = e.sequence]
<1>1. /\ listener \in Listeners /\ s \in Slots /\ e \in ConnectionInfos /\ listener.flag \in BOOLEAN
      /\ connected \in [Slots -> BOOLEAN] /\ connections \in [Slots -> ConnectionInfos]
      /\ old \in ConnectionInfos
  BY DEF PlacesOK, ThreadsTypeOK, ServerTypeOK, Listeners
<1>2. /\ connected' = [connected EXCEPT ![s] = IF field = "flag" THEN listener.flag ELSE connected[s]]
      /\ connections' = [connections EXCEPT ![s] = new]
  BY <1>1 DEF StoreOf
<1>3. /\ new \in ConnectionInfos
      /\ new.clientAddress = (IF field = "clientAddress" THEN e.clientAddress ELSE old.clientAddress)
      /\ new.sharedKey = (IF field = "sharedKey" THEN e.sharedKey ELSE old.sharedKey)
      /\ new.sequence = (IF field = "sequence" THEN e.sequence ELSE old.sequence)
  <2>. HIDE DEF s, e, old
  <2>. QED
    BY <1>1 DEF Fields, ConnectionInfos
<1>. HIDE DEF new
<1>. QED
  BY <1>1, <1>2, <1>3

LEMMA StoreKeepsPlaces ==
    ASSUME PlacesOK, NEW field \in Fields, Store(field), UNCHANGED application
    PROVE  PlacesOK'
<1>1. /\ listener.pc = "store" /\ StoreOf(field) /\ ListenerRuns
      /\ listener' = [listener EXCEPT !.stores = @ \ {field}]
      /\ UNCHANGED <<serverUp, challenged, challenges, numConnections, serverState, serverKeyPairs,
                     network, propagation, messages, owners, sent>>
  BY DEF Store
<1>2. listener \in Listeners /\ listener.slot # 0
  BY <1>1 DEF PlacesOK, ThreadsTypeOK, ListenerOK
<1>3. /\ listener' \in Listeners
      /\ listener'.pc = "store" /\ listener'.slot = listener.slot
      /\ listener'.then = listener.then /\ listener'.entry = listener.entry
      /\ listener'.flag = listener.flag
  BY <1>1, <1>2 DEF Listeners
<1>4. ThreadsTypeOK'
  BY <1>1, <1>3, StoreEffect DEF PlacesOK, ThreadsTypeOK, ServerTypeOK
<1>5. HandshakesOK'
  <2>1. connected'[0]
    BY <1>1, <1>2, SlotFacts, StoreEffect DEF PlacesOK, HandshakesOK
  <2>. QED
    BY <1>1, <2>1, HandshakesStay DEF PlacesOK
<1>6. ListenerOK'
  BY <1>1, <1>3 DEF PlacesOK, ListenerOK, Admitting, Latest
<1>7. LoopsOK'
  <2>1. /\ propagation["listener"].pc = "idle"
        /\ ~TwoThreads => propagation["main"].pc = "idle"
    BY <1>1 DEF ListenerRuns
  <2>. QED
    BY <1>1, <2>1 DEF PlacesOK, LoopsOK, TwoThreads, FromCallback
<1>. QED
  BY <1>4, <1>5, <1>6, <1>7 DEF PlacesOK

\* EndAdmission forgets the handshake that has been completed, the only one there is.
LEMMA AdmissionEnds ==
    ASSUME PlacesOK, EndAdmission
    PROVE  /\ listener.pc = "store" /\ listener.stores = {} /\ Admitting
           /\ ListenerRuns
           /\ ForgetChallenge(1, challenges)
           /\ listener' = [listener EXCEPT !.pc = "callback"]
           /\ numConnections' = numConnections + 1
           /\ UNCHANGED <<serverUp, connected, connections, serverState, serverKeyPairs, network,
                          propagation, messages, owners, sent>>
<1>1. /\ listener.pc = "store" /\ listener.then = "admitted" /\ Admitting
      /\ ForgetChallenge(FindExistingChallengeIndex(listener.entry.clientAddress), challenges)
  BY DEF EndAdmission, Admitting
<1>2. challenged[1] /\ challenges[1].clientAddress = listener.entry.clientAddress
  BY <1>1 DEF PlacesOK, ListenerOK
<1>3. FindExistingChallengeIndex(listener.entry.clientAddress) \in Slots
  BY <1>2, SlotFacts, ChallengeLookup
<1>4. challenged[FindExistingChallengeIndex(listener.entry.clientAddress)]
  BY <1>3, ChallengeLookup, SlotFacts
<1>5. FindExistingChallengeIndex(listener.entry.clientAddress) = 1
  BY <1>3, <1>4, HandshakeFacts DEF PlacesOK, ThreadsTypeOK
<1>. QED
  BY <1>1, <1>5 DEF EndAdmission

LEMMA EndAdmissionKeepsPlaces ==
    ASSUME PlacesOK, EndAdmission, UNCHANGED application
    PROVE  PlacesOK'
<1>1. /\ listener.pc = "store" /\ Admitting /\ ListenerRuns
      /\ ForgetChallenge(1, challenges)
      /\ listener' = [listener EXCEPT !.pc = "callback"]
      /\ numConnections' = numConnections + 1
      /\ UNCHANGED <<serverUp, connected, connections, serverState, serverKeyPairs, network,
                     propagation, messages, owners, sent>>
  BY AdmissionEnds
<1>2. ServerTypeOK /\ HandshakesOK /\ listener \in Listeners
  BY DEF PlacesOK, ThreadsTypeOK
<1>3. HandshakesMove
  BY <1>1, <1>2, HandshakeFacts, TableMoves
<1>4. HandshakesOK'
  BY <1>1, <1>2, <1>3, MoveKeepsHandshakes
<1>5. /\ listener' \in Listeners
      /\ listener'.pc = "callback" /\ listener'.slot = listener.slot
      /\ listener'.then = listener.then /\ listener'.entry = listener.entry
      /\ listener'.flag = listener.flag
  BY <1>1, <1>2 DEF Listeners
<1>6. ThreadsTypeOK'
  <2>1. numConnections' \in Int
    BY <1>1, <1>2 DEF ServerTypeOK
  <2>. QED
    BY <1>1, <1>3, <1>5, <2>1 DEF PlacesOK, ThreadsTypeOK, ServerTypeOK, HandshakesMove
<1>7. ListenerOK'
  BY <1>1, <1>5 DEF PlacesOK, ListenerOK, Admitting, Latest
<1>8. LoopsOK'
  <2>1. /\ propagation["listener"].pc = "idle"
        /\ ~TwoThreads => propagation["main"].pc = "idle"
    BY <1>1 DEF ListenerRuns
  <2>. QED
    BY <1>1, <2>1 DEF PlacesOK, LoopsOK, TwoThreads, FromCallback
<1>. QED
  BY <1>4, <1>6, <1>7, <1>8 DEF PlacesOK

LEMMA EndRemovalKeepsPlaces ==
    ASSUME PlacesOK, EndRemoval, UNCHANGED application
    PROVE  PlacesOK'
<1>1. /\ ListenerRuns /\ listener' = IdleListener /\ numConnections' = numConnections - 1
      /\ UNCHANGED <<serverUp, connected, connections, challenged, challenges, serverState,
                     serverKeyPairs, network, propagation, messages, owners, sent>>
  BY DEF EndRemoval
<1>2. ThreadsTypeOK'
  <2>1. numConnections' \in Int
    BY <1>1 DEF PlacesOK, ThreadsTypeOK, ServerTypeOK
  <2>. QED
    BY <1>1, <2>1, IdleFacts DEF PlacesOK, ThreadsTypeOK, ServerTypeOK
<1>3. HandshakesOK'
  BY <1>1, HandshakesStay DEF PlacesOK, HandshakesOK
<1>4. ListenerOK'
  BY <1>1 DEF ListenerOK, Admitting, IdleListener
<1>5. LoopsOK'
  BY <1>1 DEF PlacesOK, LoopsOK, ListenerRuns, TwoThreads, FromCallback
<1>. QED
  BY <1>2, <1>3, <1>4, <1>5 DEF PlacesOK

LEMMA CallbackKeepsPlaces ==
    ASSUME PlacesOK, Callback, UNCHANGED application
    PROVE  PlacesOK'
<1>1. /\ ListenerRuns /\ listener.pc = "callback" /\ Admitting
      /\ listener' = [listener EXCEPT !.pc = "accept"]
      /\ UNCHANGED <<serverUp, connected, connections, challenged, challenges, numConnections,
                     serverState, serverKeyPairs, network, owners, sent>>
  BY DEF Callback, serverVars, serverTables, PlacesOK, ListenerOK
<1>2. /\ listener \in Listeners /\ messages \in Nat /\ propagation \in [Threads -> Propagations]
  BY DEF PlacesOK, ThreadsTypeOK
<1>. DEFINE start == [IdlePropagation EXCEPT !.pc = "test", !.slot = 1, !.message = messages + 1]
<1>3. start \in Propagations /\ start.slot = 1
  <2>1. messages + 1 \in Nat
    BY <1>2
  <2>. QED
    BY <2>1, IdleFacts DEF IdlePropagation
<1>4. \/ /\ FromCallback /\ messages' = messages + 1
         /\ propagation' = [propagation EXCEPT !["listener"] = start]
      \/ ~FromCallback /\ UNCHANGED <<propagation, messages>>
  BY DEF Callback
<1>. HIDE DEF start
<1>5. /\ listener' \in Listeners
      /\ listener'.pc = "accept" /\ listener'.slot = listener.slot
      /\ listener'.then = listener.then /\ listener'.entry = listener.entry
      /\ listener'.flag = listener.flag
  BY <1>1, <1>2 DEF Listeners
<1>6. ThreadsTypeOK'
  <2>1. messages' \in Nat /\ propagation' \in [Threads -> Propagations]
    BY <1>2, <1>3, <1>4
  <2>. QED
    BY <1>1, <1>5, <2>1 DEF PlacesOK, ThreadsTypeOK, ServerTypeOK
<1>7. HandshakesOK'
  BY <1>1, HandshakesStay DEF PlacesOK, HandshakesOK
<1>8. ListenerOK'
  BY <1>1, <1>5 DEF PlacesOK, ListenerOK, Admitting, Latest
<1>9. LoopsOK'
  BY <1>1, <1>2, <1>3, <1>4, <1>5 DEF PlacesOK, LoopsOK, ListenerRuns, TwoThreads, FromCallback, Threads
<1>. QED
  BY <1>6, <1>7, <1>8, <1>9 DEF PlacesOK

LEMMA AcceptKeepsPlaces ==
    ASSUME PlacesOK, Accept, UNCHANGED application
    PROVE  PlacesOK'
<1>. DEFINE packet == ConnectionAcceptedPacket(connections[listener.slot].sharedKey, listener.slot)
<1>1. /\ ListenerRuns /\ listener.pc = "accept" /\ listener' = IdleListener
      /\ SendTo(listener.entry.clientAddress, packet, 0)
      /\ UNCHANGED <<serverUp, connected, connections, challenged, challenges, numConnections,
                     serverState, serverKeyPairs, network, propagation, messages, owners>>
  BY DEF Accept, serverVars, serverTables
<1>2. sent' \in Seq(SentRecords)
  <2>1. /\ listener \in Listeners /\ connections \in [Slots -> ConnectionInfos]
        /\ listener.slot # 0 /\ sent \in Seq(SentRecords)
    BY <1>1 DEF PlacesOK, ThreadsTypeOK, ServerTypeOK, ListenerOK
  <2>2. /\ listener.slot \in ClientSlots /\ listener.entry.clientAddress \in Addresses
        /\ connections[listener.slot].sharedKey \in Keys
    BY <2>1 DEF Listeners, ClientSlots, ConnectionInfos
  <2>. HIDE DEF packet
  <2>3. packet \in SentPackets
    BY <2>2 DEF packet, SentPackets
  <2>. QED
    BY <1>1, <2>1, <2>2, <2>3, SendToEffect
<1>3. ThreadsTypeOK'
  BY <1>1, <1>2, IdleFacts DEF PlacesOK, ThreadsTypeOK, ServerTypeOK
<1>4. HandshakesOK'
  BY <1>1, HandshakesStay DEF PlacesOK, HandshakesOK
<1>5. ListenerOK'
  BY <1>1 DEF ListenerOK, Admitting, IdleListener
<1>6. LoopsOK'
  BY <1>1 DEF PlacesOK, LoopsOK, ListenerRuns, TwoThreads, FromCallback
<1>. QED
  BY <1>2, <1>3, <1>4, <1>5, <1>6 DEF PlacesOK

LEMMA InitPlaces == Init => PlacesOK
<1>. SUFFICES ASSUME Init PROVE PlacesOK
  OBVIOUS
<1>1. ServerInit /\ application \in Applications
      /\ listener = IdleListener /\ propagation = [t \in Threads |-> IdlePropagation]
      /\ messages = 0 /\ owners = <<>> /\ sent = <<>>
  BY DEF Init
<1>2. ThreadsTypeOK
  <2>1. ServerTypeOK /\ application \in [twoThreads : BOOLEAN, fromCallback : BOOLEAN]
    BY <1>1, ApplicationsAssumption, InitInv DEF IInv
  <2>2. listener \in Listeners /\ propagation \in [Threads -> Propagations]
    BY <1>1, IdleFacts
  <2>3. messages \in Nat /\ owners \in Seq(OwnerRecords) /\ sent \in Seq(SentRecords)
    BY <1>1
  <2>. QED
    BY <2>1, <2>2, <2>3 DEF ThreadsTypeOK
<1>3. HandshakesOK
  BY <1>1, SlotFacts DEF ServerInit, HandshakesOK, HostConnected, PendingHandshakeRemovable
<1>4. ListenerOK
  BY <1>1 DEF ListenerOK, Admitting, IdleListener
<1>5. LoopsOK
  BY <1>1 DEF LoopsOK, IdlePropagation, Threads
<1>. QED
  BY <1>2, <1>3, <1>4, <1>5 DEF PlacesOK

LEMMA StepKeepsPlaces == PlacesOK /\ [Next]_vars => PlacesOK'
<1>. SUFFICES ASSUME PlacesOK, [Next]_vars PROVE PlacesOK'
  OBVIOUS
<1>1. ASSUME NEW c \in Clients, NEW p \in Packets, Listens(Datagram(c, ServerAddress, p, 1)),
             UNCHANGED application
      PROVE  PlacesOK'
  <2>. DEFINE d == Datagram(c, ServerAddress, p, 1)
  <2>1. d.src = c /\ d.packet = p
    BY DEF Datagram
  <2>2. ListenElse(d) \/ BeginAdmission(d) \/ BeginRemoval(d)
    BY <1>1 DEF Listens
  <2>. HIDE DEF d
  <2>. QED
    BY <1>1, <2>1, <2>2, ElseKeepsPlaces, AdmissionKeepsPlaces, RemovalKeepsPlaces
<1>2. ASSUME ListenGoesOn, UNCHANGED application PROVE PlacesOK'
  BY <1>2, StoreKeepsPlaces, EndAdmissionKeepsPlaces, EndRemovalKeepsPlaces, CallbackKeepsPlaces,
     AcceptKeepsPlaces DEF ListenGoesOn
<1>3. CASE UNCHANGED vars
  <2>1. UNCHANGED <<serverUp, connected, connections, challenged, challenges, numConnections,
                    serverState, serverKeyPairs, listener, propagation, messages, owners, sent,
                    application>>
    BY <1>3 DEF vars, serverVars, serverTables, threadVars
  <2>2. ThreadsTypeOK'
    BY <2>1 DEF PlacesOK, ThreadsTypeOK, ServerTypeOK
  <2>3. HandshakesOK'
    BY <2>1, HandshakesStay DEF PlacesOK, HandshakesOK
  <2>4. ListenerOK'
    BY <2>1 DEF PlacesOK, ListenerOK, Admitting, Latest
  <2>5. LoopsOK'
    BY <2>1 DEF PlacesOK, LoopsOK, TwoThreads, FromCallback
  <2>. QED
    BY <2>2, <2>3, <2>4, <2>5 DEF PlacesOK
<1>. QED
  BY <1>1, <1>2, <1>3, PropagateKeepsPlaces, SwitchKeepsPlaces, PropagatesKeepsPlaces DEF Next

------------------------------------------------------------------------------
(* The second layer *)

\* The steps of PropagateGameData and of Switch touch neither table but for the numbers.
LEMMA LoopSteps ==
    ASSUME PlacesOK, Propagate \/ Switch \/ \E t \in Threads : Propagates(t)
    PROVE  /\ UNCHANGED <<serverUp, connected, challenged, challenges, numConnections,
                          serverKeyPairs, listener, owners>>
           /\ \A i \in Slots :
                 /\ connections'[i].clientAddress = connections[i].clientAddress
                 /\ connections'[i].sharedKey = connections[i].sharedKey
<1>1. connections \in [Slots -> ConnectionInfos]
  BY DEF PlacesOK, ThreadsTypeOK, ServerTypeOK
<1>2. CASE Propagate \/ Switch
  BY <1>2 DEF Propagate, Switch, SwitchToLobby, SwitchToGame, SwitchTo, serverVars, serverTables,
              threadVars
<1>3. ASSUME NEW t \in Threads, Propagates(t)
      PROVE  /\ UNCHANGED <<serverUp, connected, challenged, challenges, numConnections,
                            serverKeyPairs, listener, owners>>
             /\ \A i \in Slots :
                   /\ connections'[i].clientAddress = connections[i].clientAddress
                   /\ connections'[i].sharedKey = connections[i].sharedKey
  <2>1. CASE UNCHANGED connections /\ (Test(t) \/ Load(t) \/ WritePacket(t) \/ SendPacket(t))
    BY <2>1 DEF Test, Load, WritePacket, SendPacket, Goes
  <2>2. CASE StoreNumber(t)
    <3>1. connections' = [connections EXCEPT ![propagation[t].slot].sequence = propagation[t].number]
      BY <2>2 DEF StoreNumber
    <3>2. \A i \in Slots : connections[i] \in ConnectionInfos
      BY <1>1
    <3>. QED
      BY <1>1, <2>2, <3>1, <3>2 DEF StoreNumber, Goes, ConnectionInfos
  <2>. QED
    BY <1>3, <2>1, <2>2 DEF Propagates, Test, Load, WritePacket, SendPacket
<1>. QED
  BY <1>2, <1>3

LEMMA QuietMoves ==
    ASSUME PlacesOK, UNCHANGED <<challenged, challenges, serverKeyPairs>>
    PROVE  HandshakesMove
BY HandshakeFacts, TableMoves DEF PlacesOK, ThreadsTypeOK

LEMMA KeysStay ==
    ASSUME PlacesOK, KeysOK, HandshakesMove, UNCHANGED owners,
           Admitting /\ listener.pc = "store" => Admitting' /\ listener'.pc = "store"
    PROVE  KeysOK'
<1>1. /\ serverKeyPairs \in Nat /\ serverKeyPairs' \in Nat /\ serverKeyPairs <= serverKeyPairs'
      /\ owners' = owners
  BY DEF HandshakesMove, PlacesOK, ThreadsTypeOK, ServerTypeOK
<1>2. \A n \in DOMAIN owners : owners'[n].key \in AgreedKeys'
  BY <1>1, PairsGrow DEF KeysOK
<1>3. ASSUME NEW j \in Slots, NEW n \in DOMAIN owners,
             challenged'[j], challenges'[j].serverKeyPair \in owners[n].key
      PROVE  Admitting' /\ listener'.pc = "store" /\ n = Len(owners)
  <2>1. challenges'[j].serverKeyPair # KeyPair(ServerAddress, serverKeyPairs)
    BY <1>1, <1>3, AgreedKeysTyped DEF KeysOK
  <2>2. challenged[j] /\ challenges'[j].serverKeyPair = challenges[j].serverKeyPair
    BY <1>3, <2>1 DEF HandshakesMove
  <2>. QED
    BY <1>3, <2>2 DEF KeysOK
<1>. QED
  BY <1>1, <1>2, <1>3 DEF KeysOK

LEMMA AdmissionKeepsKeys ==
    ASSUME PlacesOK, KeysOK, NEW c \in Clients, NEW p \in Packets,
           NEW d, d.src = c, d.packet = p, BeginAdmission(d)
    PROVE  KeysOK'
<1>1. PICK slot \in ClientSlots, key \in AgreedKeys :
              /\ listener.pc = "idle" /\ ListenerRuns
              /\ ~connected[slot]
              /\ challenged[1] /\ challenges[1].clientAddress = c
              /\ key = SharedKey(challenges[1].serverKeyPair, challenges[1].clientPublicKey)
              /\ SameHandshakes(challenges')
              /\ listener' = Storing(slot, TRUE, ConnectionInfo(c, key), "admitted")
              /\ owners' = Append(owners, [client |-> c, key |-> key, slot |-> slot])
              /\ UNCHANGED <<serverUp, connected, connections, challenged, numConnections,
                             serverState, serverKeyPairs, network, propagation, messages, sent>>
  BY AdmissionBegins
<1>. DEFINE owner == [client |-> c, key |-> key, slot |-> slot]
<1>2. owner.key = key
  OBVIOUS
<1>3. owner \in OwnerRecords
  BY AgreedKeysTyped DEF OwnerRecords, PlacesOK, ThreadsTypeOK, ServerTypeOK
<1>. HIDE DEF owner
<1>4. /\ owners \in Seq(OwnerRecords) /\ owners' = Append(owners, owner)
      /\ serverKeyPairs' = serverKeyPairs
  BY <1>1 DEF PlacesOK, ThreadsTypeOK, owner
<1>5. /\ Len(owners') = Len(owners) + 1
      /\ DOMAIN owners' = DOMAIN owners \cup {Len(owners) + 1}
      /\ Len(owners) + 1 \notin DOMAIN owners
      /\ \A n \in DOMAIN owners : owners'[n] = owners[n]
      /\ owners'[Len(owners) + 1] = owner
  BY <1>3, <1>4, AppendFacts
<1>6. \A n \in DOMAIN owners' : owners'[n].key \in AgreedKeys'
  <2>1. AgreedKeys' = AgreedKeys
    BY <1>4 DEF AgreedKeys, GeneratedPairs
  <2>. QED
    BY <1>2, <1>5, <2>1 DEF KeysOK
<1>7. \A n \in DOMAIN owners : challenges[1].serverKeyPair \notin owners[n].key
  BY <1>1, SlotFacts DEF KeysOK
<1>8. challenges[1].serverKeyPair \in key
  BY <1>1 DEF SharedKey
<1>9. \A m, n \in DOMAIN owners' : owners'[m].key = owners'[n].key => m = n
  BY <1>2, <1>5, <1>7, <1>8 DEF KeysOK
<1>10. ASSUME NEW j \in Slots, NEW n \in DOMAIN owners',
              challenged'[j], challenges'[j].serverKeyPair \in owners'[n].key
       PROVE  Admitting' /\ listener'.pc = "store" /\ n = Len(owners')
  <2>1. challenged[j] /\ challenges'[j].serverKeyPair = challenges[j].serverKeyPair
    BY <1>1, <1>10 DEF SameHandshakes
  <2>2. n \notin DOMAIN owners
    BY <1>1, <1>5, <1>10, <2>1 DEF KeysOK
  <2>. QED
    BY <1>1, <1>5, <2>2 DEF Admitting, Storing
<1>. QED
  BY <1>6, <1>9, <1>10 DEF KeysOK

LEMMA EndAdmissionKeepsKeys ==
    ASSUME PlacesOK, KeysOK, EndAdmission
    PROVE  KeysOK'
<1>1. ForgetChallenge(1, challenges) /\ UNCHANGED <<serverKeyPairs, owners>>
  BY AdmissionEnds
<1>2. \A j \in Slots : challenged[j] => j = 1
  BY HandshakeFacts DEF PlacesOK, ThreadsTypeOK
<1>3. \A j \in Slots : ~challenged'[j]
  BY <1>1, <1>2 DEF ForgetChallenge, PlacesOK, ThreadsTypeOK, ServerTypeOK
<1>4. AgreedKeys' = AgreedKeys
  BY <1>1 DEF AgreedKeys, GeneratedPairs
<1>. QED
  BY <1>1, <1>3, <1>4 DEF KeysOK

LEMMA StepKeepsKeys == PlacesOK /\ KeysOK /\ [Next]_vars => KeysOK'
<1>. SUFFICES ASSUME PlacesOK, KeysOK, [Next]_vars PROVE KeysOK'
  OBVIOUS
<1>1. ASSUME NEW c \in Clients, NEW p \in Packets, Listens(Datagram(c, ServerAddress, p, 1))
      PROVE  KeysOK'
  <2>. DEFINE d == Datagram(c, ServerAddress, p, 1)
  <2>1. d.src = c /\ d.packet = p
    BY DEF Datagram
  <2>2. ListenElse(d) \/ BeginAdmission(d) \/ BeginRemoval(d)
    BY <1>1 DEF Listens
  <2>. HIDE DEF d
  <2>3. CASE ListenElse(d)
    <3>1. HandshakesMove /\ UNCHANGED threadVars
      BY <2>1, <2>3, ElseMoves DEF PlacesOK, ThreadsTypeOK
    <3>. QED
      BY <3>1, KeysStay DEF threadVars, Admitting
  <2>4. CASE BeginAdmission(d)
    BY <2>1, <2>4, AdmissionKeepsKeys
  <2>5. CASE BeginRemoval(d)
    <3>1. /\ UNCHANGED <<challenged, challenges, serverKeyPairs, owners>>
          /\ listener.pc = "idle"
      BY <2>5 DEF BeginRemoval, serverVars, serverTables
    <3>. QED
      BY <3>1, QuietMoves, KeysStay
  <2>. QED
    BY <2>2, <2>3, <2>4, <2>5
<1>2. ASSUME NEW field \in Fields, Store(field) PROVE KeysOK'
  <2>1. /\ UNCHANGED <<challenged, challenges, serverKeyPairs, owners>>
        /\ listener \in Listeners /\ listener' = [listener EXCEPT !.stores = @ \ {field}]
    BY <1>2 DEF Store, PlacesOK, ThreadsTypeOK
  <2>2. listener'.pc = listener.pc /\ listener'.then = listener.then
    BY <2>1 DEF Listeners
  <2>. QED
    BY <2>1, <2>2, QuietMoves, KeysStay DEF Admitting
<1>3. CASE EndRemoval \/ Callback \/ Accept
  <2>1. /\ UNCHANGED <<challenged, challenges, serverKeyPairs, owners>>
        /\ ~ (Admitting /\ listener.pc = "store")
    BY <1>3 DEF EndRemoval, Callback, Accept, Admitting, serverVars, serverTables
  <2>. QED
    BY <2>1, QuietMoves, KeysStay
<1>4. CASE Propagate \/ Switch \/ \E t \in Threads : Propagates(t)
  BY <1>4, LoopSteps, QuietMoves, KeysStay DEF Admitting
<1>5. CASE UNCHANGED vars
  BY <1>5, QuietMoves, KeysStay DEF vars, serverVars, serverTables, threadVars, Admitting
<1>. QED
  BY <1>1, <1>2, <1>3, <1>4, <1>5, EndAdmissionKeepsKeys DEF Next, ListenGoesOn

------------------------------------------------------------------------------
(* The third layer *)

LEMMA OwnerFacts ==
    ASSUME PlacesOK, KeysOK
    PROVE  /\ owners \in Seq(OwnerRecords) /\ Len(owners) \in Nat
           /\ DOMAIN owners = 1 .. Len(owners)
           /\ \A n \in DOMAIN owners :
                 /\ owners[n] \in OwnerRecords /\ n \in Nat /\ n <= Len(owners)
                 /\ owners[n].client \in Clients /\ owners[n].client # NoAddress
                 /\ owners[n].key # ZeroKey /\ owners[n].slot \in ClientSlots
<1>1. owners \in Seq(OwnerRecords) /\ serverKeyPairs \in Nat
  BY DEF PlacesOK, ThreadsTypeOK, ServerTypeOK
<1>2. Len(owners) \in Nat /\ DOMAIN owners = 1 .. Len(owners)
  BY <1>1
<1>. SUFFICES ASSUME NEW n \in DOMAIN owners
     PROVE  /\ owners[n] \in OwnerRecords /\ n \in Nat /\ n <= Len(owners)
            /\ owners[n].client \in Clients /\ owners[n].client # NoAddress
            /\ owners[n].key # ZeroKey /\ owners[n].slot \in ClientSlots
  BY <1>1, <1>2
<1>3. owners[n] \in OwnerRecords /\ n \in Nat /\ n <= Len(owners)
  BY <1>1, <1>2
<1>4. owners[n].key # ZeroKey
  BY <1>1, AgreedKeysTyped DEF KeysOK
<1>. QED
  BY <1>3, <1>4, AddressAssumption DEF OwnerRecords

\* While a client is admitted, its slot's latest owner is the latest of all.
LEMMA AdmittedIsLatest ==
    ASSUME PlacesOK, KeysOK, Admitting
    PROVE  /\ Len(owners) \in DOMAIN owners
           /\ LatestOwner(listener.slot, Len(owners))
           /\ listener.slot \in ClientSlots
           /\ listener.flag = TRUE
           /\ listener.entry.clientAddress = Latest.client /\ Latest.client # NoAddress
           /\ listener.entry.sharedKey = Latest.key /\ Latest.key # ZeroKey
<1>1. /\ Len(owners) > 0 /\ listener.slot = Latest.slot /\ listener.flag = TRUE
      /\ listener.entry = ConnectionInfo(Latest.client, Latest.key)
  BY DEF PlacesOK, ListenerOK
<1>2. Len(owners) \in DOMAIN owners
  BY <1>1, OwnerFacts
<1>. QED
  BY <1>1, <1>2, OwnerFacts DEF LatestOwner, Latest, ConnectionInfo

LEMMA EntryStays ==
    ASSUME NEW i \in ClientSlots, EntryOK(i), UNCHANGED owners, connected'[i] = connected[i],
           connections'[i].clientAddress = connections[i].clientAddress,
           connections'[i].sharedKey = connections[i].sharedKey,
           StoringInto(i) \/ StoringInto(i)' => UNCHANGED listener
    PROVE  EntryOK(i)'
<1>1. /\ AddressOfOwner(i) => AddressOfOwner(i)'
      /\ KeyOfOwner(i) => KeyOfOwner(i)'
  BY DEF AddressOfOwner, KeyOfOwner, LatestOwner
<1>2. StoringInto(i)' = StoringInto(i)
  BY DEF StoringInto
<1>. QED
  BY <1>1, <1>2 DEF EntryOK, Stored

LEMMA AdmissionKeepsEntries ==
    ASSUME PlacesOK, KeysOK, EntriesOK, NEW c \in Clients, NEW p \in Packets,
           NEW d, d.src = c, d.packet = p, BeginAdmission(d)
    PROVE  EntriesOK'
<1>1. PICK slot \in ClientSlots, key \in AgreedKeys :
              /\ listener.pc = "idle"
              /\ ~connected[slot]
              /\ listener' = Storing(slot, TRUE, ConnectionInfo(c, key), "admitted")
              /\ owners' = Append(owners, [client |-> c, key |-> key, slot |-> slot])
              /\ UNCHANGED <<connected, connections>>
  BY AdmissionBegins
<1>. DEFINE owner == [client |-> c, key |-> key, slot |-> slot]
<1>2. owner.slot = slot
  OBVIOUS
<1>3. owner \in OwnerRecords
  BY AgreedKeysTyped DEF OwnerRecords, PlacesOK, ThreadsTypeOK, ServerTypeOK
<1>. HIDE DEF owner
<1>4. owners \in Seq(OwnerRecords) /\ owners' = Append(owners, owner)
  BY <1>1 DEF PlacesOK, ThreadsTypeOK, owner
<1>5. /\ DOMAIN owners' = DOMAIN owners \cup {Len(owners) + 1}
      /\ \A n \in DOMAIN owners : owners'[n] = owners[n]
      /\ owners'[Len(owners) + 1] = owner
  BY <1>3, <1>4, AppendFacts
<1>6. ASSUME NEW i \in ClientSlots, i # slot PROVE EntryOK(i)'
  <2>1. \A n \in DOMAIN owners : LatestOwner(i, n) => LatestOwner(i, n)'
    BY <1>2, <1>5, <1>6 DEF LatestOwner
  <2>2. /\ AddressOfOwner(i) => AddressOfOwner(i)'
        /\ KeyOfOwner(i) => KeyOfOwner(i)'
    BY <1>1, <1>5, <2>1 DEF AddressOfOwner, KeyOfOwner
  <2>3. ~StoringInto(i) /\ ~StoringInto(i)'
    BY <1>1, <1>6 DEF StoringInto, Storing
  <2>. QED
    BY <1>1, <2>2, <2>3 DEF EntriesOK, EntryOK
<1>7. EntryOK(slot)'
  <2>1. connections[slot].clientAddress = NoAddress /\ connections[slot].sharedKey = ZeroKey
    BY <1>1 DEF EntriesOK, EntryOK, StoringInto
  <2>2. StoringInto(slot)' /\ listener'.stores = Fields
    BY <1>1 DEF StoringInto, Storing
  <2>. QED
    BY <1>1, <2>1, <2>2 DEF EntryOK, Stored, Fields
<1>. QED
  BY <1>6, <1>7 DEF EntriesOK

LEMMA RemovalKeepsEntries ==
    ASSUME PlacesOK, EntriesOK, NEW d, BeginRemoval(d)
    PROVE  EntriesOK'
<1>1. /\ listener.pc = "idle"
      /\ listener' = Storing(1, FALSE, NoConnection, "removed")
      /\ UNCHANGED <<owners, connected, connections>>
  BY DEF BeginRemoval, AsInt, serverVars, serverTables
<1>2. ASSUME NEW i \in ClientSlots, i # 1 PROVE EntryOK(i)'
  <2>1. ~StoringInto(i) /\ ~StoringInto(i)'
    BY <1>1, <1>2 DEF StoringInto, Storing
  <2>. QED
    BY <1>1, <2>1, EntryStays DEF EntriesOK
<1>3. EntryOK(1)'
  <2>1. /\ AddressOfOwner(1) => AddressOfOwner(1)'
        /\ KeyOfOwner(1) => KeyOfOwner(1)'
    BY <1>1 DEF AddressOfOwner, KeyOfOwner, LatestOwner
  <2>2. StoringInto(1)' /\ listener'.stores = Fields
    BY <1>1 DEF StoringInto, Storing
  <2>. QED
    BY <1>1, <2>1, <2>2, SlotFacts DEF EntriesOK, EntryOK, Stored, Fields
<1>. QED
  BY <1>2, <1>3 DEF EntriesOK

LEMMA StoreKeepsEntries ==
    ASSUME PlacesOK, KeysOK, EntriesOK, NEW field \in Fields, Store(field)
    PROVE  EntriesOK'
<1>. DEFINE e == listener.entry
<1>1. /\ listener.pc = "store" /\ StoreOf(field)
      /\ listener' = [listener EXCEPT !.stores = @ \ {field}]
      /\ UNCHANGED owners
  BY DEF Store
<1>0. listener \in Listeners /\ listener.slot \in ClientSlots
  BY <1>1 DEF PlacesOK, ThreadsTypeOK, ListenerOK, Listeners, ClientSlots
<1>2. PICK s \in ClientSlots : s = listener.slot
  BY <1>0
<1>3. /\ listener'.pc = "store" /\ listener'.slot = s /\ listener'.entry = e
      /\ listener'.flag = listener.flag
      /\ \A f : Stored(f)' => Stored(f) \/ f = field
  BY <1>0, <1>1, <1>2 DEF Listeners, Stored
<1>4. /\ \A i \in Slots : i # s => connected'[i] = connected[i] /\ connections'[i] = connections[i]
      /\ connected'[s] = (IF field = "flag" THEN listener.flag ELSE connected[s])
      /\ connections'[s].clientAddress =
             (IF field = "clientAddress" THEN e.clientAddress ELSE connections[s].clientAddress)
      /\ connections'[s].sharedKey =
             (IF field = "sharedKey" THEN e.sharedKey ELSE connections[s].sharedKey)
  BY <1>1, <1>2, StoreEffect
<1>5. ASSUME NEW i \in ClientSlots, i # s PROVE EntryOK(i)'
  <2>1. ~StoringInto(i) /\ ~StoringInto(i)'
    BY <1>2, <1>3, <1>5 DEF StoringInto
  <2>. QED
    BY <1>1, <1>4, <1>5, <2>1, EntryStays, SlotFacts DEF EntriesOK
<1>6. EntryOK(s)'
  <2>1. EntryOK(s) /\ StoringInto(s) /\ StoringInto(s)'
    BY <1>1, <1>2, <1>3 DEF EntriesOK, StoringInto
  <2>2. \A n \in DOMAIN owners : LatestOwner(s, n) <=> LatestOwner(s, n)'
    BY <1>1 DEF LatestOwner
  <2>3. CASE Admitting
    <3>0. PICK n \in DOMAIN owners : n = Len(owners)
      BY <2>3, AdmittedIsLatest
    <3>1. /\ LatestOwner(s, n)'
          /\ e.clientAddress = owners[n].client
          /\ e.sharedKey = owners[n].key
      BY <1>2, <2>2, <2>3, <3>0, AdmittedIsLatest DEF Latest
    <3>2. connections'[s].clientAddress # NoAddress => AddressOfOwner(s)'
      BY <1>1, <1>4, <2>1, <2>2, <3>1 DEF EntryOK, AddressOfOwner
    <3>3. connections'[s].sharedKey # ZeroKey => KeyOfOwner(s)'
      BY <1>1, <1>4, <2>1, <2>2, <3>1 DEF EntryOK, KeyOfOwner
    <3>. QED
      BY <1>3, <1>4, <2>1, <3>2, <3>3 DEF EntryOK, Stored
  <2>4. CASE ~Admitting
    <3>1. e.clientAddress = NoAddress /\ e.sharedKey = ZeroKey
      BY <1>1, <2>4 DEF PlacesOK, ListenerOK, NoConnection, ConnectionInfo
    <3>2. connections'[s].clientAddress # NoAddress => AddressOfOwner(s)'
      BY <1>1, <1>4, <2>1, <2>2, <3>1 DEF EntryOK, AddressOfOwner
    <3>3. connections'[s].sharedKey # ZeroKey => KeyOfOwner(s)'
      BY <1>1, <1>4, <2>1, <2>2, <3>1 DEF EntryOK, KeyOfOwner
    <3>. QED
      BY <1>3, <1>4, <2>1, <3>2, <3>3 DEF EntryOK, Stored
  <2>. QED
    BY <2>3, <2>4
<1>. QED
  BY <1>5, <1>6 DEF EntriesOK

\* The end of an admission or of a removal: every field has been stored.
LEMMA EndKeepsEntries ==
    ASSUME PlacesOK, KeysOK, EntriesOK, listener.pc = "store", listener.stores = {},
           listener'.pc # "store", UNCHANGED <<owners, connected, connections>>
    PROVE  EntriesOK'
<1>1. listener.slot \in ClientSlots
  BY DEF PlacesOK, ThreadsTypeOK, ListenerOK, Listeners, ClientSlots
<1>. PICK s \in ClientSlots : s = listener.slot
  BY <1>1
<1>2. ASSUME NEW i \in ClientSlots, i # s PROVE EntryOK(i)'
  <2>1. ~StoringInto(i) /\ ~StoringInto(i)'
    BY <1>2 DEF StoringInto
  <2>. QED
    BY <2>1, EntryStays DEF EntriesOK
<1>3. EntryOK(s)'
  <2>1. /\ EntryOK(s) /\ StoringInto(s) /\ ~StoringInto(s)'
        /\ connected[s] = listener.flag
        /\ connections[s].clientAddress = listener.entry.clientAddress
        /\ connections[s].sharedKey = listener.entry.sharedKey
    BY <1>1 DEF EntriesOK, EntryOK, StoringInto, Stored
  <2>2. /\ AddressOfOwner(s) => AddressOfOwner(s)'
        /\ KeyOfOwner(s) => KeyOfOwner(s)'
    BY DEF AddressOfOwner, KeyOfOwner, LatestOwner
  <2>3. CASE Admitting
    BY <2>1, <2>2, <2>3, AdmittedIsLatest DEF EntryOK
  <2>4. CASE ~Admitting
    <3>1. /\ listener.flag = FALSE
          /\ listener.entry.clientAddress = NoAddress /\ listener.entry.sharedKey = ZeroKey
      BY <2>4 DEF PlacesOK, ListenerOK, NoConnection, ConnectionInfo
    <3>. QED
      BY <2>1, <3>1 DEF EntryOK
  <2>. QED
    BY <2>3, <2>4
<1>. QED
  BY <1>2, <1>3 DEF EntriesOK

LEMMA EntriesStay ==
    ASSUME EntriesOK, UNCHANGED <<owners, connected>>,
           \A i \in ClientSlots : /\ connections'[i].clientAddress = connections[i].clientAddress
                                  /\ connections'[i].sharedKey = connections[i].sharedKey,
           listener.pc = "store" \/ listener'.pc = "store" => UNCHANGED listener
    PROVE  EntriesOK'
BY EntryStays DEF EntriesOK, StoringInto

LEMMA StepKeepsEntries == PlacesOK /\ KeysOK /\ EntriesOK /\ [Next]_vars => EntriesOK'
<1>. SUFFICES ASSUME PlacesOK, KeysOK, EntriesOK, [Next]_vars PROVE EntriesOK'
  OBVIOUS
<1>1. ASSUME NEW c \in Clients, NEW p \in Packets, Listens(Datagram(c, ServerAddress, p, 1))
      PROVE  EntriesOK'
  <2>. DEFINE d == Datagram(c, ServerAddress, p, 1)
  <2>1. d.src = c /\ d.packet = p
    BY DEF Datagram
  <2>2. ListenElse(d) \/ BeginAdmission(d) \/ BeginRemoval(d)
    BY <1>1 DEF Listens
  <2>. HIDE DEF d
  <2>3. CASE ListenElse(d)
    BY <2>3, EntriesStay DEF ListenElse, threadVars
  <2>. QED
    BY <2>1, <2>2, <2>3, AdmissionKeepsEntries, RemovalKeepsEntries
<1>2. CASE EndAdmission \/ EndRemoval
  <2>1. /\ listener.pc = "store" /\ listener.stores = {}
        /\ UNCHANGED <<owners, connected, connections>>
    BY <1>2 DEF EndAdmission, EndRemoval
  <2>2. listener'.pc # "store"
    BY <1>2 DEF EndAdmission, EndRemoval, IdleListener, PlacesOK, ThreadsTypeOK, Listeners
  <2>. QED
    BY <2>1, <2>2, EndKeepsEntries
<1>3. CASE Callback \/ Accept
  <2>1. listener.pc # "store" /\ UNCHANGED <<owners, connected, connections>>
    BY <1>3 DEF Callback, Accept, serverVars, serverTables
  <2>2. listener'.pc # "store"
    BY <1>3 DEF Callback, Accept, IdleListener, PlacesOK, ThreadsTypeOK, Listeners
  <2>. QED
    BY <2>1, <2>2, EntriesStay
<1>4. CASE Propagate \/ Switch \/ \E t \in Threads : Propagates(t)
  BY <1>4, LoopSteps, EntriesStay, SlotFacts
<1>5. CASE UNCHANGED vars
  BY <1>5, EntriesStay DEF vars, serverVars, serverTables, threadVars
<1>. QED
  BY <1>1, <1>2, <1>3, <1>4, <1>5, StoreKeepsEntries DEF Next, ListenGoesOn

LEMMA WholeEntries == PlacesOK /\ KeysOK /\ EntriesOK => EntriesAreWhole
<1>. SUFFICES ASSUME PlacesOK, KeysOK, EntriesOK, listener.pc = "idle",
                     NEW i \in ClientSlots, connected[i]
              PROVE  \E n \in DOMAIN owners : /\ LatestOwner(i, n)
                                              /\ owners[n].client = connections[i].clientAddress
                                              /\ owners[n].key = connections[i].sharedKey
  BY DEF EntriesAreWhole, LatestOwner, ClientSlots
<1>1. AddressOfOwner(i) /\ KeyOfOwner(i)
  BY DEF EntriesOK, EntryOK, StoringInto
<1>2. PICK n \in DOMAIN owners : LatestOwner(i, n) /\ owners[n].client = connections[i].clientAddress
  BY <1>1 DEF AddressOfOwner
<1>3. PICK m \in DOMAIN owners : LatestOwner(i, m) /\ owners[m].key = connections[i].sharedKey
  BY <1>1 DEF KeyOfOwner
<1>4. m <= n /\ n <= m /\ m \in Nat /\ n \in Nat
  BY <1>2, <1>3, OwnerFacts DEF LatestOwner
<1>5. m = n
  BY <1>4
<1>. QED
  BY <1>2, <1>3, <1>5

------------------------------------------------------------------------------
(* The fourth layer *)

\* What a step of the loop does that sends nothing.
LEMMA QuietLoopStep ==
    ASSUME PlacesOK, NEW t \in Threads, Test(t) \/ Load(t) \/ StoreNumber(t) \/ WritePacket(t)
    PROVE  /\ UNCHANGED <<owners, sent, listener, messages, connected>>
           /\ \A u \in Threads : u # t => propagation'[u] = propagation[u]
           /\ propagation'[t].pc = "send" =>
                 /\ WritePacket(t)
                 /\ propagation'[t].slot = propagation[t].slot
                 /\ propagation'[t].key = connections[propagation[t].slot].sharedKey
<1>1. /\ propagation \in [Threads -> Propagations] /\ propagation[t] \in Propagations
  BY DEF PlacesOK, ThreadsTypeOK
<1>2. NextSlot(propagation[t]).pc # "send"
  BY <1>1, NextSlotFacts DEF IdlePropagation
<1>3. CASE Test(t)
  BY <1>1, <1>2, <1>3 DEF Test, Goes, Propagations
<1>4. CASE Load(t)
  BY <1>1, <1>4 DEF Load, Goes, Propagations
<1>5. CASE StoreNumber(t)
  BY <1>1, <1>5 DEF StoreNumber, Goes, Propagations
<1>6. CASE WritePacket(t)
  BY <1>1, <1>6 DEF WritePacket, Goes, Propagations
<1>. QED
  BY <1>3, <1>4, <1>5, <1>6

\* What the step that sends does.
LEMMA SendingStep ==
    ASSUME PlacesOK, NEW t \in Threads, SendPacket(t)
    PROVE  LET p == propagation[t]
               a == connections[p.slot].clientAddress
           IN  /\ UNCHANGED <<owners, listener, messages, connected, connections>>
               /\ propagation' = [propagation EXCEPT ![t] = NextSlot(p)]
               /\ propagation'[t].pc # "send"
               /\ \A u \in Threads : u # t => propagation'[u] = propagation[u]
               /\ p.pc = "send" /\ p \in Propagations /\ p.slot \in ClientSlots
               /\ Len(sent) \in Nat /\ DOMAIN sent = 1 .. Len(sent) /\ Len(sent) + 1 \notin DOMAIN sent
               /\ \/ a = NoAddress /\ sent' = sent
                  \/ /\ a # NoAddress
                     /\ DOMAIN sent' = DOMAIN sent \cup {Len(sent) + 1}
                     /\ \A j \in DOMAIN sent : sent'[j] = sent[j]
                     /\ sent'[Len(sent) + 1] =
                           [dst |-> a, packet |-> ConnectionDataPacket(p.key, p.number),
                            message |-> p.message]
<1>. DEFINE p == propagation[t]
            a == connections[p.slot].clientAddress
            packet == ConnectionDataPacket(p.key, p.number)
<1>1. /\ UNCHANGED <<owners, listener, messages, connected, connections>>
      /\ propagation' = [propagation EXCEPT ![t] = NextSlot(p)]
      /\ p.pc = "send"
      /\ SendTo(a, packet, p.message)
  BY DEF SendPacket, Goes
<1>2. /\ p \in Propagations /\ propagation \in [Threads -> Propagations]
      /\ connections \in [Slots -> ConnectionInfos] /\ sent \in Seq(SentRecords)
  BY DEF PlacesOK, ThreadsTypeOK, ServerTypeOK
<1>3. p.slot \in ClientSlots /\ p.slot \in Slots
  BY <1>1, <1>2 DEF PlacesOK, LoopsOK, ClientSlots, Propagations
<1>4. NextSlot(p).pc # "send"
  BY <1>2, NextSlotFacts DEF IdlePropagation
<1>5. a \in Addresses /\ p.message \in Nat
  BY <1>2, <1>3 DEF ConnectionInfos, Propagations
<1>6. packet \in SentPackets
  BY <1>2 DEF SentPackets, Propagations
<1>. HIDE DEF p, a, packet
<1>7. /\ Len(sent) \in Nat /\ DOMAIN sent = 1 .. Len(sent) /\ Len(sent) + 1 \notin DOMAIN sent
      /\ \/ a = NoAddress /\ sent' = sent
         \/ /\ a # NoAddress
            /\ DOMAIN sent' = DOMAIN sent \cup {Len(sent) + 1}
            /\ \A j \in DOMAIN sent : sent'[j] = sent[j]
            /\ sent'[Len(sent) + 1] = [dst |-> a, packet |-> packet, message |-> p.message]
  BY <1>1, <1>2, <1>5, <1>6, SendToEffect
<1>8. propagation'[t].pc # "send" /\ \A u \in Threads : u # t => propagation'[u] = propagation[u]
  BY <1>1, <1>2, <1>4
<1>. QED
  BY <1>1, <1>2, <1>3, <1>7, <1>8 DEF p, a, packet

LEMMA DataFacts ==
    /\ \A k, n, d, m : LET s == [dst |-> d, packet |-> ConnectionDataPacket(k, n), message |-> m]
                       IN  IsData(s) /\ \A h : SealedWith(s, h) <=> h = k
    /\ \A k, i, d, m : ~IsData([dst |-> d, packet |-> ConnectionAcceptedPacket(k, i), message |-> m])
BY SealFacts DEF IsData, SealedWith, ConnectionDataPacket, ConnectionAcceptedPacket

LEMMA SentStays ==
    ASSUME SentOK, UNCHANGED <<owners, sent>>,
           \A t \in Threads : propagation'[t].pc = "send" => propagation'[t] = propagation[t]
    PROVE  SentOK'
BY DEF SentOK, OwnerKeys, NeverToAnEarlierOwner

LEMMA AdmissionKeepsSent ==
    ASSUME PlacesOK, KeysOK, KeysOK', SentOK, NEW c \in Clients, NEW p \in Packets,
           NEW d, d.src = c, d.packet = p, BeginAdmission(d)
    PROVE  SentOK'
<1>1. PICK slot \in ClientSlots, key \in AgreedKeys :
         /\ owners' = Append(owners, [client |-> c, key |-> key, slot |-> slot])
         /\ UNCHANGED <<propagation, sent>>
  BY AdmissionBegins
<1>. DEFINE owner == [client |-> c, key |-> key, slot |-> slot]
<1>2. owner \in OwnerRecords /\ owner.key = key /\ key # ZeroKey
  BY AgreedKeysTyped DEF OwnerRecords, PlacesOK, ThreadsTypeOK, ServerTypeOK
<1>3. owners \in Seq(OwnerRecords)
  BY DEF PlacesOK, ThreadsTypeOK
<1>. HIDE DEF owner
<1>4. PICK last : last = Len(owners) + 1
  OBVIOUS
<1>5. /\ DOMAIN owners' = DOMAIN owners \cup {last} /\ last \notin DOMAIN owners
      /\ \A n \in DOMAIN owners : owners'[n] = owners[n]
      /\ owners'[last] = owner
  BY <1>1, <1>2, <1>3, <1>4, AppendFacts DEF owner
<1>6. \A n \in DOMAIN owners : owners[n].key # key
  BY <1>2, <1>5 DEF KeysOK
<1>7. \A j \in DOMAIN sent : IsData(sent[j]) => ~SealedWith(sent[j], key)
  BY <1>2, <1>6, SealFacts DEF SentOK, OwnerKeys, SealedWith
<1>8. OwnerKeys \subseteq OwnerKeys'
  BY <1>5 DEF OwnerKeys
<1>9. \A j \in DOMAIN sent' : IsData(sent'[j]) =>
         \E k \in OwnerKeys' \cup {ZeroKey} : SealedWith(sent'[j], k)
  BY <1>1, <1>8 DEF SentOK
<1>10. \A t \in Threads : propagation'[t].pc = "send" /\ propagation'[t].key # ZeroKey =>
          \E n \in DOMAIN owners' : /\ owners'[n].slot = propagation'[t].slot
                                    /\ owners'[n].key = propagation'[t].key
  BY <1>1, <1>5 DEF SentOK
<1>11. NeverToAnEarlierOwner'
  <2>. SUFFICES ASSUME NEW j \in DOMAIN sent, IsData(sent[j]), NEW n \in DOMAIN owners',
                       SealedWith(sent[j], owners'[n].key)
                PROVE  \E m \in DOMAIN owners' : m >= n /\ owners'[m].client = sent[j].dst
    BY <1>1 DEF NeverToAnEarlierOwner
  <2>1. n \in DOMAIN owners
    BY <1>2, <1>5, <1>7
  <2>. QED
    BY <1>5, <2>1 DEF SentOK, NeverToAnEarlierOwner
<1>. QED
  BY <1>9, <1>10, <1>11 DEF SentOK

LEMMA WriteKeepsSent ==
    ASSUME PlacesOK, EntriesOK, SentOK, NEW t \in Threads,
           Test(t) \/ Load(t) \/ StoreNumber(t) \/ WritePacket(t)
    PROVE  SentOK'
<1>1. /\ UNCHANGED <<owners, sent>>
      /\ \A u \in Threads : u # t => propagation'[u] = propagation[u]
      /\ propagation'[t].pc = "send" =>
                 /\ WritePacket(t)
                 /\ propagation'[t].slot = propagation[t].slot
                 /\ propagation'[t].key = connections[propagation[t].slot].sharedKey
  BY QuietLoopStep
<1>2. ASSUME NEW u \in Threads, propagation'[u].pc = "send", propagation'[u].key # ZeroKey
      PROVE  \E n \in DOMAIN owners : /\ owners[n].slot = propagation'[u].slot
                                      /\ owners[n].key = propagation'[u].key
  <2>1. CASE u # t
    BY <1>1, <1>2, <2>1 DEF SentOK
  <2>2. CASE u = t
    <3>1. propagation[t].slot \in ClientSlots
      BY <1>1, <1>2, <2>2 DEF WritePacket, Goes, PlacesOK, ThreadsTypeOK, LoopsOK, Propagations, ClientSlots
    <3>2. KeyOfOwner(propagation[t].slot)
      BY <1>1, <1>2, <2>2, <3>1 DEF EntriesOK, EntryOK
    <3>. QED
      BY <1>1, <1>2, <2>2, <3>2 DEF KeyOfOwner, LatestOwner
  <2>. QED
    BY <2>1, <2>2
<1>. QED
  BY <1>1, <1>2 DEF SentOK, OwnerKeys, NeverToAnEarlierOwner

LEMMA SendKeepsSent ==
    ASSUME PlacesOK, KeysOK, EntriesOK, SentOK, NEW t \in Threads, SendPacket(t)
    PROVE  SentOK'
<1>. DEFINE p == propagation[t]
            a == connections[p.slot].clientAddress
            new == [dst |-> a, packet |-> ConnectionDataPacket(p.key, p.number),
                            message |-> p.message]
<1>1. /\ owners' = owners
      /\ propagation'[t].pc # "send"
      /\ \A u \in Threads : u # t => propagation'[u] = propagation[u]
      /\ p.pc = "send" /\ p.slot \in ClientSlots
      /\ \/ a = NoAddress /\ sent' = sent
         \/ /\ a # NoAddress
            /\ DOMAIN sent' = DOMAIN sent \cup {Len(sent) + 1}
            /\ \A j \in DOMAIN sent : sent'[j] = sent[j]
            /\ sent'[Len(sent) + 1] = new
  BY SendingStep
<1>2. \A u \in Threads : propagation'[u].pc = "send" => propagation'[u] = propagation[u]
  BY <1>1
<1>3. CASE sent' = sent
  BY <1>1, <1>2, <1>3, SentStays
<1>4. CASE sent' # sent
  <2>0. PICK last : last = Len(sent) + 1
    OBVIOUS
  <2>1. /\ a # NoAddress
        /\ \A j \in DOMAIN sent' : (j \in DOMAIN sent /\ sent'[j] = sent[j]) \/ sent'[j] = new
    BY <1>1, <1>4
  <2>2. p.key = ZeroKey \/ p.key \in OwnerKeys
    BY <1>1 DEF SentOK, OwnerKeys
  <2>3. IsData(new) /\ new.dst = a /\ \A h : SealedWith(new, h) <=> h = p.key
    BY DataFacts
  <2>4. AddressOfOwner(p.slot)
    BY <1>1, <2>1 DEF EntriesOK, EntryOK
  <2>5. PICK m \in DOMAIN owners : LatestOwner(p.slot, m) /\ owners[m].client = a
    BY <2>4 DEF AddressOfOwner
  <2>6. \A n \in DOMAIN owners : owners[n].key = p.key => n <= m
    BY <1>1, <2>5, OwnerFacts DEF SentOK, KeysOK, LatestOwner
  <2>7. \A n \in DOMAIN owners : owners[n].key = p.key => m >= n
    BY <2>6, OwnerFacts
  <2>. HIDE DEF new, a, p
  <2>8. \A j \in DOMAIN sent' : IsData(sent'[j]) =>
           \E k \in OwnerKeys \cup {ZeroKey} : SealedWith(sent'[j], k)
    BY <2>1, <2>2, <2>3 DEF SentOK
  <2>9. ASSUME NEW j \in DOMAIN sent', IsData(sent'[j]), NEW n \in DOMAIN owners,
               SealedWith(sent'[j], owners[n].key)
        PROVE  \E i \in DOMAIN owners : i >= n /\ owners[i].client = sent'[j].dst
    BY <2>1, <2>3, <2>5, <2>7, <2>9 DEF SentOK, NeverToAnEarlierOwner
  <2>10. NeverToAnEarlierOwner'
    BY <1>1, <2>9 DEF NeverToAnEarlierOwner
  <2>11. OwnerKeys' = OwnerKeys
    BY <1>1 DEF OwnerKeys
  <2>. QED
    BY <1>1, <1>2, <2>8, <2>10, <2>11 DEF SentOK
<1>. QED
  BY <1>3, <1>4

LEMMA AcceptEffect ==
    ASSUME PlacesOK, KeysOK, EntriesOK, Accept
    PROVE  LET s == listener.slot
               a == listener.entry.clientAddress
           IN  /\ UNCHANGED <<owners, propagation, messages, connected, connections>>
               /\ ListenerRuns /\ Admitting /\ listener.pc = "accept" /\ listener' = IdleListener
               /\ Len(sent) \in Nat /\ DOMAIN sent = 1 .. Len(sent) /\ Len(sent) + 1 \notin DOMAIN sent
               /\ DOMAIN sent' = DOMAIN sent \cup {Len(sent) + 1}
               /\ \A j \in DOMAIN sent : sent'[j] = sent[j]
               /\ sent'[Len(sent) + 1] =
                    [dst |-> a, packet |-> ConnectionAcceptedPacket(connections[s].sharedKey, s),
                     message |-> 0]
<1>. DEFINE s == listener.slot
            a == listener.entry.clientAddress
            packet == ConnectionAcceptedPacket(connections[s].sharedKey, s)
<1>1. /\ UNCHANGED <<owners, propagation, messages, connected, connections>>
      /\ ListenerRuns /\ listener.pc = "accept" /\ listener' = IdleListener
      /\ SendTo(a, packet, 0)
  BY DEF Accept, serverVars, serverTables
<1>2. Admitting
  BY <1>1 DEF PlacesOK, ListenerOK
<1>3. /\ a # NoAddress /\ s \in ClientSlots
  BY <1>2, AdmittedIsLatest
<1>4. /\ listener \in Listeners /\ connections \in [Slots -> ConnectionInfos]
      /\ sent \in Seq(SentRecords)
  BY DEF PlacesOK, ThreadsTypeOK, ServerTypeOK
<1>5. a \in Addresses /\ packet \in SentPackets
  BY <1>3, <1>4 DEF SentPackets, Listeners, ConnectionInfos, ClientSlots
<1>. HIDE DEF packet, a, s
<1>. QED
  BY <1>1, <1>2, <1>3, <1>4, <1>5, SendToEffect DEF packet, a, s

LEMMA AcceptKeepsSent ==
    ASSUME PlacesOK, KeysOK, EntriesOK, SentOK, Accept
    PROVE  SentOK'
<1>1. /\ owners' = owners /\ propagation' = propagation
      /\ \A j \in DOMAIN sent' : (j \in DOMAIN sent /\ sent'[j] = sent[j]) \/ ~IsData(sent'[j])
  BY AcceptEffect, DataFacts
<1>2. OwnerKeys' = OwnerKeys
  BY <1>1 DEF OwnerKeys
<1>3. NeverToAnEarlierOwner'
  BY <1>1 DEF SentOK, NeverToAnEarlierOwner
<1>. QED
  BY <1>1, <1>2, <1>3 DEF SentOK

LEMMA StepKeepsSent ==
    PlacesOK /\ KeysOK /\ KeysOK' /\ EntriesOK /\ SentOK /\ [Next]_vars => SentOK'
<1>. SUFFICES ASSUME PlacesOK, KeysOK, KeysOK', EntriesOK, SentOK, [Next]_vars PROVE SentOK'
  OBVIOUS
<1>1. ASSUME NEW c \in Clients, NEW p \in Packets, Listens(Datagram(c, ServerAddress, p, 1))
      PROVE  SentOK'
  <2>. DEFINE d == Datagram(c, ServerAddress, p, 1)
  <2>1. d.src = c /\ d.packet = p
    BY DEF Datagram
  <2>2. ListenElse(d) \/ BeginAdmission(d) \/ BeginRemoval(d)
    BY <1>1 DEF Listens
  <2>. HIDE DEF d
  <2>3. CASE ListenElse(d) \/ BeginRemoval(d)
    BY <2>3, SentStays DEF ListenElse, BeginRemoval, threadVars
  <2>. QED
    BY <2>1, <2>2, <2>3, AdmissionKeepsSent
<1>2. CASE (\E field \in Fields : Store(field)) \/ EndAdmission \/ EndRemoval
  BY <1>2, SentStays DEF Store, EndAdmission, EndRemoval
<1>3. CASE Callback \/ Propagate
  <2>1. /\ propagation \in [Threads -> Propagations]
        /\ UNCHANGED <<owners, sent>>
    BY <1>3 DEF Callback, Propagate, PlacesOK, ThreadsTypeOK
  <2>2. \A t \in Threads : propagation'[t].pc = "send" => propagation'[t] = propagation[t]
    BY <1>3, <2>1 DEF Callback, Propagate, IdlePropagation
  <2>. QED
    BY <2>1, <2>2, SentStays
<1>4. CASE Switch
  BY <1>4, SentStays DEF Switch, threadVars
<1>5. ASSUME NEW t \in Threads, Propagates(t) PROVE SentOK'
  BY <1>5, WriteKeepsSent, SendKeepsSent DEF Propagates
<1>6. CASE UNCHANGED vars
  BY <1>6, SentStays DEF vars, threadVars
<1>. QED
  BY <1>1, <1>2, <1>3, <1>4, <1>5, <1>6, AcceptKeepsSent DEF Next, ListenGoesOn

\* Steps that send nothing and admit nobody.
LEMMA WelcomeStays ==
    ASSUME WelcomeOK, UNCHANGED <<owners, sent, application>>, Admitting => Admitting',
           listener'.pc \in {"callback", "accept"} => connected'[listener'.slot]
    PROVE  WelcomeOK'
BY DEF WelcomeOK, AcceptedFirst, Accepted, TwoThreads, FromCallback

LEMMA AdmissionKeepsWelcome ==
    ASSUME PlacesOK, KeysOK, KeysOK', SentOK, WelcomeOK, UNCHANGED application,
           NEW c \in Clients, NEW p \in Packets,
           NEW d, d.src = c, d.packet = p, BeginAdmission(d)
    PROVE  WelcomeOK'
<1>1. PICK slot \in ClientSlots, key \in AgreedKeys :
         /\ listener.pc = "idle"
         /\ listener' = Storing(slot, TRUE, ConnectionInfo(c, key), "admitted")
         /\ owners' = Append(owners, [client |-> c, key |-> key, slot |-> slot])
         /\ sent' = sent
  BY AdmissionBegins
<1>. DEFINE owner == [client |-> c, key |-> key, slot |-> slot]
<1>2. owner \in OwnerRecords /\ owner.key = key /\ key # ZeroKey
  BY AgreedKeysTyped DEF OwnerRecords, PlacesOK, ThreadsTypeOK, ServerTypeOK
<1>3. owners \in Seq(OwnerRecords)
  BY DEF PlacesOK, ThreadsTypeOK
<1>. HIDE DEF owner
<1>4. PICK last : last = Len(owners) + 1
  OBVIOUS
<1>5. /\ DOMAIN owners' = DOMAIN owners \cup {last} /\ last \notin DOMAIN owners
      /\ \A n \in DOMAIN owners : owners'[n] = owners[n]
      /\ owners'[last] = owner /\ Len(owners') = last
  BY <1>1, <1>2, <1>3, <1>4, AppendFacts DEF owner
<1>6. \A n \in DOMAIN owners : owners[n].key # key
  BY <1>2, <1>5 DEF KeysOK
<1>7. \A j \in DOMAIN sent : IsData(sent[j]) => ~SealedWith(sent[j], key)
  BY <1>2, <1>6, SealFacts DEF SentOK, OwnerKeys, SealedWith
<1>8. Admitting' /\ listener'.pc = "store"
  BY <1>1 DEF Admitting, Storing
<1>9. ASSUME NEW n \in DOMAIN owners'
      PROVE  \/ Admitting' /\ n = Len(owners')
             \/ \E i \in DOMAIN sent : sent[i].packet = Accepted(n)'
  <2>1. CASE n \in DOMAIN owners
    <3>1. ~Admitting
      BY <1>1 DEF Admitting
    <3>2. \E i \in DOMAIN sent : sent[i].packet = Accepted(n)
      BY <2>1, <3>1 DEF WelcomeOK
    <3>3. Accepted(n)' = Accepted(n)
      BY <1>5, <2>1 DEF Accepted
    <3>. QED
      BY <3>2, <3>3
  <2>2. CASE n = last
    <3>1. n = Len(owners')
      BY <1>5, <2>2
    <3>. QED
      BY <1>8, <3>1
  <2>3. n \in DOMAIN owners \/ n = last
    BY <1>5, <1>9
  <2>. QED
    BY <2>1, <2>2, <2>3
<1>10. AcceptedFirst'
  <2>. SUFFICES ASSUME ~TwoThreads /\ ~FromCallback, NEW j \in DOMAIN sent, IsData(sent[j]),
                       NEW n \in DOMAIN owners',
                       SealedWith(sent[j], owners'[n].key), sent[j].dst = owners'[n].client
                PROVE  \E i \in 1 .. j - 1 : sent[i].packet =
                           ConnectionAcceptedPacket(owners'[n].key, owners'[n].slot)
    BY <1>1 DEF AcceptedFirst, TwoThreads, FromCallback
  <2>1. n \in DOMAIN owners
    BY <1>2, <1>5, <1>7
  <2>. QED
    BY <1>5, <2>1 DEF WelcomeOK, AcceptedFirst
<1>. QED
  BY <1>1, <1>8, <1>9, <1>10 DEF WelcomeOK

\* At Accept the slot still holds the entry of the client that is told of it.
LEMMA SeatAtAccept ==
    ASSUME PlacesOK, KeysOK, EntriesOK, WelcomeOK, listener.pc = "accept"
    PROVE  connections[listener.slot].sharedKey = Latest.key /\ listener.slot = Latest.slot
<1>1. Admitting
  BY DEF PlacesOK, ListenerOK
<1>2. /\ Len(owners) \in DOMAIN owners /\ LatestOwner(listener.slot, Len(owners))
      /\ listener.slot \in ClientSlots /\ listener.slot = Latest.slot
  BY <1>1, AdmittedIsLatest DEF LatestOwner, Latest
<1>3. KeyOfOwner(listener.slot)
  BY <1>2 DEF WelcomeOK, EntriesOK, EntryOK, StoringInto
<1>4. PICK n \in DOMAIN owners : /\ LatestOwner(listener.slot, n)
                                 /\ owners[n].key = connections[listener.slot].sharedKey
  BY <1>3 DEF KeyOfOwner
<1>5. n <= Len(owners) /\ Len(owners) <= n /\ n \in Nat /\ Len(owners) \in Nat
  BY <1>2, <1>4, OwnerFacts DEF LatestOwner
<1>. QED
  BY <1>2, <1>4, <1>5 DEF Latest

LEMMA AcceptKeepsWelcome ==
    ASSUME PlacesOK, KeysOK, EntriesOK, WelcomeOK, Accept, UNCHANGED application
    PROVE  WelcomeOK'
<1>. DEFINE new == [dst |-> listener.entry.clientAddress,
                    packet |-> ConnectionAcceptedPacket(connections[listener.slot].sharedKey,
                                                        listener.slot), message |-> 0]
<1>1. /\ owners' = owners /\ listener' = IdleListener
      /\ listener.pc = "accept" /\ Admitting
      /\ Len(sent) \in Nat /\ DOMAIN sent = 1 .. Len(sent)
      /\ DOMAIN sent' = DOMAIN sent \cup {Len(sent) + 1}
      /\ \A j \in DOMAIN sent : sent'[j] = sent[j]
      /\ sent'[Len(sent) + 1] = new
  BY AcceptEffect
<1>2. ~IsData(new)
  BY DataFacts
<1>3. new.packet = Accepted(Len(owners))
  BY <1>1, SeatAtAccept DEF Accepted, Latest
<1>. HIDE DEF new
<1>4. ASSUME NEW n \in DOMAIN owners
      PROVE  \E i \in DOMAIN sent' : sent'[i].packet = Accepted(n)
  <2>1. CASE n = Len(owners)
    BY <1>1, <1>3, <2>1
  <2>2. CASE n # Len(owners)
    BY <1>1, <2>2 DEF WelcomeOK
  <2>. QED
    BY <2>1, <2>2
<1>5. AcceptedFirst'
  <2>. SUFFICES ASSUME ~TwoThreads /\ ~FromCallback, NEW j \in DOMAIN sent', IsData(sent'[j]),
                       NEW n \in DOMAIN owners,
                       SealedWith(sent'[j], owners[n].key), sent'[j].dst = owners[n].client
                PROVE  \E i \in 1 .. j - 1 : sent'[i].packet =
                           ConnectionAcceptedPacket(owners[n].key, owners[n].slot)
    BY <1>1 DEF AcceptedFirst, TwoThreads, FromCallback
  <2>1. j \in DOMAIN sent /\ sent'[j] = sent[j]
    BY <1>1, <1>2
  <2>2. PICK i \in 1 .. j - 1 : sent[i].packet =
                           ConnectionAcceptedPacket(owners[n].key, owners[n].slot)
    BY <2>1 DEF WelcomeOK, AcceptedFirst
  <2>3. i \in DOMAIN sent
    BY <1>1, <2>1
  <2>. QED
    BY <1>1, <2>2, <2>3
<1>6. \A n \in DOMAIN owners : Accepted(n)' = Accepted(n)
  BY <1>1 DEF Accepted
<1>7. listener'.pc = "idle"
  BY <1>1 DEF IdleListener
<1>. QED
  BY <1>1, <1>4, <1>5, <1>6, <1>7 DEF WelcomeOK

LEMMA SendKeepsWelcome ==
    ASSUME PlacesOK, KeysOK, EntriesOK, SentOK, WelcomeOK, NEW t \in Threads, SendPacket(t),
           UNCHANGED application
    PROVE  WelcomeOK'
<1>. DEFINE p == propagation[t]
            a == connections[p.slot].clientAddress
            new == [dst |-> a, packet |-> ConnectionDataPacket(p.key, p.number),
                    message |-> p.message]
<1>1. /\ UNCHANGED <<owners, listener, connected>>
      /\ p.pc = "send"
      /\ Len(sent) \in Nat /\ DOMAIN sent = 1 .. Len(sent)
      /\ \/ sent' = sent
         \/ /\ DOMAIN sent' = DOMAIN sent \cup {Len(sent) + 1}
            /\ \A j \in DOMAIN sent : sent'[j] = sent[j]
            /\ sent'[Len(sent) + 1] = new
  BY SendingStep
<1>2. CASE sent' = sent
  BY <1>1, <1>2, WelcomeStays DEF Admitting, WelcomeOK
<1>3. CASE sent' # sent
  <2>1. /\ DOMAIN sent' = DOMAIN sent \cup {Len(sent) + 1}
        /\ \A j \in DOMAIN sent : sent'[j] = sent[j]
    BY <1>1, <1>3
  <2>2. ~TwoThreads /\ ~FromCallback => listener.pc = "idle"
    BY <1>1 DEF PlacesOK, LoopsOK, Threads
  <2>3. \A n \in DOMAIN owners : Accepted(n)' = Accepted(n)
    BY <1>1 DEF Accepted
  <2>4. \A n \in DOMAIN owners :
          \/ Admitting /\ n = Len(owners)
          \/ \E i \in DOMAIN sent : sent[i].packet = Accepted(n)
    BY DEF WelcomeOK
  <2>5. AcceptedFirst'
    <3>. SUFFICES ASSUME ~TwoThreads /\ ~FromCallback, NEW j \in DOMAIN sent', IsData(sent'[j]),
                         NEW n \in DOMAIN owners,
                         SealedWith(sent'[j], owners[n].key), sent'[j].dst = owners[n].client
                  PROVE  \E i \in 1 .. j - 1 : sent'[i].packet = Accepted(n)
      BY <1>1 DEF AcceptedFirst, TwoThreads, FromCallback, Accepted
    <3>1. CASE j \in DOMAIN sent
      <4>1. PICK i \in 1 .. j - 1 : sent[i].packet = Accepted(n)
        BY <2>1, <3>1 DEF WelcomeOK, AcceptedFirst, Accepted
      <4>2. i \in DOMAIN sent
        BY <1>1, <3>1
      <4>. QED
        BY <2>1, <4>1, <4>2
    <3>2. CASE j \notin DOMAIN sent
      <4>1. j = Len(sent) + 1 /\ 1 .. j - 1 = DOMAIN sent
        BY <1>1, <2>1, <3>2
      <4>2. \E i \in DOMAIN sent : sent[i].packet = Accepted(n)
        BY <2>2, <2>4 DEF Admitting
      <4>. QED
        BY <2>1, <4>1, <4>2
    <3>. QED
      BY <3>1, <3>2
  <2>6. Admitting' = Admitting
    BY <1>1 DEF Admitting
  <2>7. ASSUME NEW n \in DOMAIN owners, ~(Admitting /\ n = Len(owners))
        PROVE  \E i \in DOMAIN sent' : sent'[i].packet = Accepted(n)'
    BY <2>1, <2>3, <2>4, <2>7
  <2>8. listener'.pc \in {"callback", "accept"} => connected'[listener'.slot]
    BY <1>1 DEF WelcomeOK
  <2>. QED
    BY <1>1, <2>5, <2>6, <2>7, <2>8 DEF WelcomeOK
<1>. QED
  BY <1>2, <1>3

LEMMA StepKeepsWelcome ==
    /\ PlacesOK /\ KeysOK /\ KeysOK' /\ EntriesOK /\ SentOK /\ WelcomeOK /\ [Next]_vars
    => WelcomeOK'
<1>. SUFFICES ASSUME PlacesOK, KeysOK, KeysOK', EntriesOK, SentOK, WelcomeOK, [Next]_vars
     PROVE  WelcomeOK'
  OBVIOUS
<1>0. listener \in Listeners /\ UNCHANGED application
  BY DEF PlacesOK, ThreadsTypeOK, Next, vars, threadVars
<1>1. ASSUME NEW c \in Clients, NEW p \in Packets, Listens(Datagram(c, ServerAddress, p, 1))
      PROVE  WelcomeOK'
  <2>. DEFINE d == Datagram(c, ServerAddress, p, 1)
  <2>1. d.src = c /\ d.packet = p
    BY DEF Datagram
  <2>2. ListenElse(d) \/ BeginAdmission(d) \/ BeginRemoval(d)
    BY <1>1 DEF Listens
  <2>. HIDE DEF d
  <2>3. CASE ListenElse(d)
    BY <2>3, WelcomeStays DEF ListenElse, threadVars, Admitting
  <2>4. CASE BeginRemoval(d)
    BY <1>0, <2>4, WelcomeStays DEF BeginRemoval, Admitting, Storing
  <2>. QED
    BY <1>0, <2>1, <2>2, <2>3, <2>4, AdmissionKeepsWelcome
<1>2. ASSUME NEW field \in Fields, Store(field) PROVE WelcomeOK'
  <2>1. listener'.pc = "store" /\ (Admitting => Admitting')
    BY <1>0, <1>2 DEF Store, Admitting, Listeners
  <2>. QED
    BY <1>0, <1>2, <2>1, WelcomeStays DEF Store
<1>3. CASE EndAdmission
  <2>1. /\ listener.pc = "store" /\ listener.stores = {} /\ Admitting
        /\ listener' = [listener EXCEPT !.pc = "callback"]
        /\ UNCHANGED <<connected, owners, sent>>
    BY <1>3, AdmissionEnds
  <2>2. Admitting' /\ listener'.slot = listener.slot
    BY <1>0, <2>1 DEF Admitting, Listeners
  <2>3. listener.slot \in ClientSlots /\ listener.flag = TRUE
    BY <2>1, AdmittedIsLatest
  <2>4. connected[listener.slot]
    BY <2>1, <2>3 DEF EntriesOK, EntryOK, StoringInto, Stored
  <2>. QED
    BY <1>0, <2>1, <2>2, <2>4, WelcomeStays
<1>4. CASE EndRemoval
  <2>1. ~Admitting /\ UNCHANGED <<owners, sent>> /\ listener'.pc = "idle"
    BY <1>4 DEF EndRemoval, Admitting, IdleListener
  <2>. QED
    BY <1>0, <2>1, WelcomeStays
<1>5. CASE Callback
  <2>1. /\ listener.pc = "callback" /\ listener' = [listener EXCEPT !.pc = "accept"]
        /\ UNCHANGED <<owners, sent, connected>>
    BY <1>5 DEF Callback, serverVars, serverTables
  <2>2. (Admitting => Admitting') /\ connected'[listener'.slot]
    BY <1>0, <2>1 DEF Admitting, Listeners, WelcomeOK
  <2>. QED
    BY <1>0, <2>1, <2>2, WelcomeStays
<1>6. CASE Propagate \/ Switch
  <2>1. UNCHANGED <<listener, connected, owners, sent>>
    BY <1>6 DEF Propagate, Switch, SwitchToLobby, SwitchToGame, SwitchTo, serverVars, serverTables,
                threadVars
  <2>. QED
    BY <1>0, <2>1, WelcomeStays DEF Admitting, WelcomeOK
<1>7. ASSUME NEW t \in Threads, Propagates(t) PROVE WelcomeOK'
  <2>1. CASE Test(t) \/ Load(t) \/ StoreNumber(t) \/ WritePacket(t)
    <3>1. UNCHANGED <<listener, connected, owners, sent>>
      BY <2>1, QuietLoopStep
    <3>. QED
      BY <1>0, <3>1, WelcomeStays DEF Admitting, WelcomeOK
  <2>. QED
    BY <1>0, <1>7, <2>1, SendKeepsWelcome DEF Propagates
<1>8. CASE UNCHANGED vars
  BY <1>0, <1>8, WelcomeStays DEF vars, serverVars, serverTables, threadVars, Admitting, WelcomeOK
<1>. QED
  BY <1>0, <1>1, <1>2, <1>3, <1>4, <1>5, <1>6, <1>7, <1>8, AcceptKeepsWelcome DEF Next, ListenGoesOn

------------------------------------------------------------------------------
(* The fifth layer *)

\* With one loop, PropagateGameData is under way on one thread at most, and then no entry
\* is being stored.
LEMMA OneLoop ==
    ASSUME PlacesOK, ~TwoThreads, NEW t \in Threads, propagation[t].pc # "idle"
    PROVE  /\ \A u \in Threads : u # t => propagation[u].pc = "idle"
           /\ listener.pc \notin {"store", "callback"}
BY DEF PlacesOK, LoopsOK, Threads

LEMMA NoLoop ==
    ASSUME ~TwoThreads, ListenerRuns
    PROVE  \A t \in Threads : propagation[t].pc = "idle"
BY DEF ListenerRuns, Threads

LEMMA GivenFacts ==
    ASSUME PlacesOK
    PROVE  /\ \A i \in Slots : Given(i) \in Int /\ Given(i) <= messages
           /\ (\A t \in Threads : propagation[t].pc = "idle") => \A i : Given(i) = messages
<1>1. messages \in Nat
  BY DEF PlacesOK, ThreadsTypeOK
<1>. QED
  BY <1>1 DEF Given, Awaits

\* A new loop awaits every slot.
LEMMA StartAwaits ==
    ASSUME NEW i \in ClientSlots, NEW n
    PROVE  Awaits(i, [IdlePropagation EXCEPT !.pc = "test", !.slot = 1, !.message = n])
BY SlotFacts DEF Awaits, IdlePropagation

\* The loop moves on to the slot after its own.
LEMMA NextAwaits ==
    ASSUME NEW p \in Propagations, NEW i \in Slots, p.pc # "idle"
    PROVE  Awaits(i, NextSlot(p)) <=> p.slot < i
<1>1. p.slot \in Slots /\ p.slot \in Nat /\ i \in Nat
  BY SlotFacts DEF Propagations
<1>2. CASE p.slot + 1 \notin Slots /\ NextSlot(p) = IdlePropagation
  BY <1>1, <1>2, ServerAssumption DEF Slots, Awaits, IdlePropagation
<1>3. CASE NextSlot(p).pc = "test" /\ NextSlot(p).slot = p.slot + 1
  BY <1>1, <1>3 DEF Awaits
<1>. QED
  BY <1>2, <1>3, NextSlotFacts

\* Steps that leave the messages, the loops and what the sessions are given alone.
LEMMA SessionStays ==
    ASSUME NEW n \in DOMAIN owners, NEW since, Session(n, since),
           owners'[n] = owners[n], UNCHANGED <<messages, propagation>>,
           \A j \in DOMAIN sent' : IsData(sent'[j]) => j \in DOMAIN sent /\ sent'[j] = sent[j],
           Begins(n, since)',
           LET i == owners[n].slot
           IN  ~StoringInto(i)' /\ connected'[i] /\ LatestOwner(i, n)' =>
                   /\ ~StoringInto(i) /\ connected[i] /\ LatestOwner(i, n)
                   /\ connections'[i].sequence = connections[i].sequence
    PROVE  Session(n, since)'
<1>1. PICK i : i = owners[n].slot
  OBVIOUS
<1>2. Given(i)' = Given(i)
  BY DEF Given
<1>3. StoringInto(owners[n].slot)' = StoringInto(i)' /\ LatestOwner(owners[n].slot, n)' = LatestOwner(i, n)'
  BY <1>1 DEF StoringInto, LatestOwner
<1>4. Counts(n, since)'
  BY <1>1, <1>2, <1>3 DEF Session, Counts
<1>5. Numbers(n, since)'
  BY DEF Session, Numbers
<1>. QED
  BY <1>4, <1>5 DEF Session

\* The steps of Listen, during which no loop is under way.
LEMMA ListenNumbers ==
    ASSUME ListenerRuns, UNCHANGED <<messages, propagation, application>>,
           ~TwoThreads => \A n \in DOMAIN owners' : \E since \in 0 .. messages : Session(n, since)'
    PROVE  NumbersOK'
<1>. SUFFICES ASSUME ~TwoThreads PROVE NumbersOK'
  BY DEF NumbersOK, TwoThreads
<1>1. \A t \in Threads : propagation'[t].pc = "idle"
  BY NoLoop
<1>2. \A t \in Threads : LoopOK(t)'
  BY <1>1 DEF LoopOK
<1>. QED
  BY <1>2 DEF NumbersOK

LEMMA AdmissionKeepsNumbers ==
    ASSUME PlacesOK, KeysOK, KeysOK', SentOK, NumbersOK, UNCHANGED application,
           NEW c \in Clients, NEW p \in Packets,
           NEW d, d.src = c, d.packet = p, BeginAdmission(d)
    PROVE  NumbersOK'
<1>1. PICK slot \in ClientSlots, key \in AgreedKeys :
         /\ listener.pc = "idle" /\ ListenerRuns
         /\ listener' = Storing(slot, TRUE, ConnectionInfo(c, key), "admitted")
         /\ owners' = Append(owners, [client |-> c, key |-> key, slot |-> slot])
         /\ UNCHANGED <<connected, connections, propagation, messages, sent>>
  BY AdmissionBegins
<1>. DEFINE owner == [client |-> c, key |-> key, slot |-> slot]
<1>2. /\ owner \in OwnerRecords /\ owner.key = key /\ owner.slot = slot /\ key # ZeroKey
  BY AgreedKeysTyped DEF OwnerRecords, PlacesOK, ThreadsTypeOK, ServerTypeOK
<1>3. owners \in Seq(OwnerRecords) /\ messages \in Nat
  BY DEF PlacesOK, ThreadsTypeOK
<1>. HIDE DEF owner
<1>4. PICK last : last = Len(owners) + 1
  OBVIOUS
<1>5. /\ DOMAIN owners' = DOMAIN owners \cup {last} /\ last \notin DOMAIN owners
      /\ \A n \in DOMAIN owners : owners'[n] = owners[n] /\ n < last
      /\ owners'[last] = owner /\ Len(owners') = last
  BY <1>1, <1>2, <1>3, <1>4, AppendFacts DEF owner
<1>6. \A n \in DOMAIN owners : owners[n].key # key
  BY <1>2, <1>5 DEF KeysOK
<1>7. \A j \in DOMAIN sent : IsData(sent[j]) => ~SealedWith(sent[j], key)
  BY <1>2, <1>6, SealFacts DEF SentOK, OwnerKeys, SealedWith
<1>8. /\ listener'.pc = "store" /\ listener'.slot = slot /\ listener'.stores = Fields
      /\ StoringInto(slot)'
  BY <1>1 DEF Storing, StoringInto
<1>9. Session(last, messages)'
  <2>1. Begins(last, messages)'
    BY <1>1, <1>8 DEF Begins, Stored, Fields
  <2>2. Counts(last, messages)'
    BY <1>2, <1>5, <1>8 DEF Counts
  <2>3. Numbers(last, messages)'
    BY <1>1, <1>2, <1>5, <1>7 DEF Numbers
  <2>. QED
    BY <2>1, <2>2, <2>3 DEF Session
<1>10. ASSUME NEW n \in DOMAIN owners, NEW since, Session(n, since)
       PROVE  Session(n, since)'
  <2>1. Begins(n, since)'
    BY <1>5 DEF Begins
  <2>2. ASSUME NEW i, i = owners[n].slot, ~StoringInto(i)', LatestOwner(i, n)'
        PROVE  ~StoringInto(i) /\ LatestOwner(i, n)
    BY <1>1, <1>5, <2>2 DEF StoringInto, LatestOwner
  <2>. QED
    BY <1>1, <1>5, <1>10, <2>1, <2>2, SessionStays
<1>11. ~TwoThreads => \A n \in DOMAIN owners : \E since \in 0 .. messages : Session(n, since)'
  BY <1>10 DEF NumbersOK
<1>12. messages \in 0 .. messages
  BY <1>3
<1>. QED
  BY <1>1, <1>5, <1>9, <1>11, <1>12, ListenNumbers

LEMMA RemovalKeepsNumbers ==
    ASSUME PlacesOK, NumbersOK, NEW d, BeginRemoval(d), UNCHANGED application
    PROVE  NumbersOK'
<1>1. /\ listener.pc = "idle" /\ ListenerRuns
      /\ listener' = Storing(1, FALSE, NoConnection, "removed")
      /\ UNCHANGED <<owners, connected, connections, propagation, messages, sent>>
  BY DEF BeginRemoval, AsInt, serverVars, serverTables
<1>2. ASSUME NEW n \in DOMAIN owners, NEW since, Session(n, since)
      PROVE  Session(n, since)'
  <2>1. Begins(n, since)'
    BY <1>1 DEF Begins, Admitting, Storing
  <2>2. \A i : ~StoringInto(i) /\ (LatestOwner(i, n)' => LatestOwner(i, n))
    BY <1>1 DEF StoringInto, LatestOwner
  <2>. QED
    BY <1>1, <1>2, <2>1, <2>2, SessionStays
<1>. QED
  BY <1>1, <1>2, ListenNumbers DEF NumbersOK

LEMMA StoreKeepsNumbers ==
    ASSUME PlacesOK, KeysOK, NumbersOK, NEW field \in Fields, Store(field), UNCHANGED application
    PROVE  NumbersOK'
<1>1. /\ listener.pc = "store" /\ StoreOf(field) /\ ListenerRuns
      /\ listener' = [listener EXCEPT !.stores = @ \ {field}]
      /\ UNCHANGED <<owners, sent, messages, propagation>>
  BY DEF Store
<1>2. listener \in Listeners /\ listener.slot \in ClientSlots
  BY <1>1 DEF PlacesOK, ThreadsTypeOK, ListenerOK, Listeners, ClientSlots
<1>3. PICK s \in ClientSlots : s = listener.slot
  BY <1>2
<1>4. /\ listener'.pc = "store" /\ listener'.slot = s /\ listener'.then = listener.then
      /\ Stored("sequence")' => Stored("sequence") \/ field = "sequence"
  BY <1>1, <1>2, <1>3 DEF Listeners, Stored
<1>5. /\ \A i \in Slots : i # s => connected'[i] = connected[i] /\ connections'[i] = connections[i]
      /\ connections'[s].sequence =
             (IF field = "sequence" THEN listener.entry.sequence ELSE connections[s].sequence)
  BY <1>1, <1>3, StoreEffect
<1>6. ASSUME NEW n \in DOMAIN owners, NEW since, Session(n, since)
      PROVE  Session(n, since)'
  <2>1. Begins(n, since)'
    <3>. SUFFICES ASSUME Admitting', n = Len(owners)
                  PROVE  /\ since = messages
                         /\ Stored("sequence")' => connections'[s].sequence = 0
      BY <1>1, <1>4 DEF Begins
    <3>1. Admitting
      BY <1>1, <1>4 DEF Admitting
    <3>2. listener.entry.sequence = 0
      BY <3>1 DEF PlacesOK, ListenerOK, ConnectionInfo
    <3>3. since = messages /\ (Stored("sequence") => connections[s].sequence = 0)
      BY <1>1, <1>3, <1>6, <3>1 DEF Session, Begins
    <3>. QED
      BY <1>4, <1>5, <3>2, <3>3
  <2>2. ASSUME NEW i \in ClientSlots, ~StoringInto(i)', LatestOwner(i, n)'
        PROVE  /\ ~StoringInto(i) /\ LatestOwner(i, n) /\ connected'[i] = connected[i]
               /\ connections'[i] = connections[i]
    <3>1. i # s
      BY <1>4, <2>2 DEF StoringInto
    <3>. QED
      BY <1>1, <1>3, <1>5, <2>2, <3>1, SlotFacts DEF StoringInto, LatestOwner
  <2>3. owners[n].slot \in ClientSlots
    BY OwnerFacts
  <2>. QED
    BY <1>1, <1>6, <2>1, <2>2, <2>3, SessionStays
<1>. QED
  BY <1>1, <1>6, ListenNumbers DEF NumbersOK

LEMMA EndAdmissionKeepsNumbers ==
    ASSUME PlacesOK, KeysOK, NumbersOK, EndAdmission, UNCHANGED application
    PROVE  NumbersOK'
<1>1. /\ listener.pc = "store" /\ listener.stores = {} /\ Admitting /\ ListenerRuns
      /\ listener' = [listener EXCEPT !.pc = "callback"]
      /\ UNCHANGED <<connected, connections, propagation, messages, owners, sent>>
  BY AdmissionEnds
<1>2. listener \in Listeners /\ messages \in Nat
  BY DEF PlacesOK, ThreadsTypeOK
<1>3. listener'.pc = "callback"
  BY <1>1, <1>2 DEF Listeners
<1>4. /\ Len(owners) \in DOMAIN owners /\ LatestOwner(listener.slot, Len(owners))
      /\ listener.slot \in ClientSlots
  BY <1>1, AdmittedIsLatest
<1>5. ASSUME NEW n \in DOMAIN owners, NEW since, since \in 0 .. messages, Session(n, since),
             ~TwoThreads
      PROVE  Session(n, since)'
  <2>1. Begins(n, since)'
    BY <1>1, <1>3, <1>5 DEF Session, Begins
  <2>2. CASE owners[n].slot = listener.slot /\ LatestOwner(listener.slot, n)
    <3>1. n = Len(owners)
      <4>1. n <= Len(owners) /\ Len(owners) <= n
        BY <1>4, <2>2, OwnerFacts DEF LatestOwner
      <4>. QED
        BY <4>1, OwnerFacts
    <3>2. since = messages /\ connections[listener.slot].sequence = 0
      BY <1>1, <1>5, <3>1 DEF Session, Begins, Stored
    <3>3. PICK i : i = listener.slot
      OBVIOUS
    <3>4. Given(i)' = messages
      <4>1. \A t \in Threads : propagation[t].pc = "idle"
        BY <1>1, <1>5, NoLoop
      <4>. QED
        BY <1>1, <1>2, <4>1 DEF Given, Awaits
    <3>5. (messages - messages) % SeqModulus = 0
      BY <1>2, SeqModulusAssumption
    <3>6. Counts(n, since)'
      BY <1>1, <1>2, <2>2, <3>2, <3>3, <3>4, <3>5 DEF Counts
    <3>7. Numbers(n, since)'
      BY <1>1, <1>5 DEF Session, Numbers
    <3>. QED
      BY <2>1, <3>6, <3>7 DEF Session
  <2>3. CASE ~ (owners[n].slot = listener.slot /\ LatestOwner(listener.slot, n))
    <3>1. ASSUME NEW i, i = owners[n].slot, LatestOwner(i, n)'
          PROVE  ~StoringInto(i) /\ LatestOwner(i, n)
      BY <1>1, <2>3, <3>1 DEF StoringInto, LatestOwner
    <3>. QED
      BY <1>1, <1>5, <2>1, <3>1, SessionStays
  <2>. QED
    BY <2>2, <2>3
<1>. QED
  BY <1>1, <1>5, ListenNumbers DEF NumbersOK

LEMMA EndRemovalKeepsNumbers ==
    ASSUME PlacesOK, KeysOK, EntriesOK, NumbersOK, EndRemoval, UNCHANGED application
    PROVE  NumbersOK'
<1>1. /\ listener.pc = "store" /\ listener.stores = {} /\ ~Admitting /\ ListenerRuns
      /\ listener'.pc = "idle"
      /\ UNCHANGED <<connected, connections, propagation, messages, owners, sent>>
  BY DEF EndRemoval, IdleListener, Admitting
<1>2. listener.slot \in ClientSlots
  BY <1>1 DEF PlacesOK, ThreadsTypeOK, ListenerOK, Listeners, ClientSlots
<1>3. listener.flag = FALSE
  BY <1>1 DEF PlacesOK, ListenerOK
<1>4. connected[listener.slot] = FALSE
  BY <1>1, <1>2, <1>3 DEF EntriesOK, EntryOK, StoringInto, Stored
<1>5. ASSUME NEW n \in DOMAIN owners, NEW since, Session(n, since)
      PROVE  Session(n, since)'
  <2>1. Begins(n, since)'
    BY <1>1 DEF Begins, Admitting
  <2>2. ASSUME NEW i, connected'[i], LatestOwner(i, n)'
        PROVE  ~StoringInto(i) /\ LatestOwner(i, n)
    BY <1>1, <1>4, <2>2 DEF StoringInto, LatestOwner
  <2>. QED
    BY <1>1, <1>5, <2>1, <2>2, SessionStays
<1>. QED
  BY <1>1, <1>5, ListenNumbers DEF NumbersOK

LEMMA AcceptKeepsNumbers ==
    ASSUME PlacesOK, KeysOK, EntriesOK, NumbersOK, Accept, UNCHANGED application
    PROVE  NumbersOK'
<1>1. /\ UNCHANGED <<owners, propagation, messages, connected, connections>>
      /\ ListenerRuns /\ listener.pc = "accept" /\ listener'.pc = "idle"
      /\ \A j \in DOMAIN sent' : (j \in DOMAIN sent /\ sent'[j] = sent[j]) \/ ~IsData(sent'[j])
  BY AcceptEffect, DataFacts DEF IdleListener
<1>2. ASSUME NEW n \in DOMAIN owners, NEW since, Session(n, since)
      PROVE  Session(n, since)'
  <2>1. Begins(n, since)'
    BY <1>1 DEF Begins, Admitting
  <2>2. \A i : ~StoringInto(i) /\ (LatestOwner(i, n)' => LatestOwner(i, n))
    BY <1>1 DEF StoringInto, LatestOwner
  <2>. QED
    BY <1>1, <1>2, <2>1, <2>2, SessionStays
<1>. QED
  BY <1>1, <1>2, ListenNumbers DEF NumbersOK

\* Steps that change neither table, nor messages, loops and what is sent.
LEMMA NumbersStay ==
    ASSUME NumbersOK, UNCHANGED <<connected, connections, listener, propagation, messages,
                                  owners, sent, application>>
    PROVE  NumbersOK'
<1>1. \A n, since : Session(n, since)' = Session(n, since)
  BY DEF Session, Begins, Counts, Numbers, Admitting, Stored, StoringInto, LatestOwner, Given
<1>2. \A t : LoopOK(t)' = LoopOK(t)
  BY DEF LoopOK
<1>. QED
  BY <1>1, <1>2 DEF NumbersOK, TwoThreads

\* A call of PropagateGameData begins: what the slots have been given is what it was.
LEMMA StartKeepsNumbers ==
    ASSUME PlacesOK, KeysOK, NumbersOK,
           ~TwoThreads => \A t \in Threads : propagation[t].pc = "idle",
           NEW t \in Threads, messages' = messages + 1,
           propagation' = [propagation EXCEPT ![t] =
               [IdlePropagation EXCEPT !.pc = "test", !.slot = 1, !.message = messages + 1]],
           UNCHANGED <<connected, connections, owners, sent, application>>,
           listener.pc # "store", listener'.pc \notin {"store", "callback"}
    PROVE  NumbersOK'
<1>. SUFFICES ASSUME ~TwoThreads PROVE NumbersOK'
  BY DEF NumbersOK, TwoThreads
<1>. DEFINE start == [IdlePropagation EXCEPT !.pc = "test", !.slot = 1, !.message = messages + 1]
<1>1. /\ propagation \in [Threads -> Propagations] /\ messages \in Nat
      /\ \A u \in Threads : propagation[u].pc = "idle"
  BY DEF PlacesOK, ThreadsTypeOK
<1>2. start.pc = "test" /\ start.message = messages + 1
  BY DEF IdlePropagation
<1>3. \A i \in ClientSlots : Awaits(i, start)
  BY StartAwaits
<1>. HIDE DEF start
<1>4. propagation'[t] = start /\ \A u \in Threads : u # t => propagation'[u] = propagation[u]
  BY <1>1 DEF start
<1>5. \A i \in ClientSlots : Given(i)' = messages /\ Given(i) = messages
  <2>. SUFFICES ASSUME NEW i \in ClientSlots PROVE Given(i)' = messages
    BY <1>1, GivenFacts
  <2>1. \E u \in Threads : Awaits(i, propagation'[u])
    BY <1>3, <1>4
  <2>. QED
    BY <1>1, <2>1 DEF Given
<1>6. ASSUME NEW n \in DOMAIN owners, NEW since, Session(n, since)
      PROVE  Session(n, since)'
  <2>1. Begins(n, since)'
    BY DEF Begins
  <2>2. PICK i \in ClientSlots : i = owners[n].slot
    BY OwnerFacts
  <2>3. Counts(n, since)'
    BY <1>5, <1>6, <2>2 DEF Session, Counts, StoringInto, LatestOwner
  <2>4. Numbers(n, since)'
    BY <1>6 DEF Session, Numbers
  <2>. QED
    BY <2>1, <2>3, <2>4 DEF Session
<1>7. \A u \in Threads : LoopOK(u)'
  BY <1>1, <1>2, <1>4 DEF LoopOK
<1>8. \A since \in 0 .. messages : since \in 0 .. messages'
  BY <1>1
<1>. QED
  BY <1>6, <1>7, <1>8 DEF NumbersOK

LEMMA CallbackKeepsNumbers ==
    ASSUME PlacesOK, KeysOK, NumbersOK, Callback, UNCHANGED application
    PROVE  NumbersOK'
<1>1. /\ ListenerRuns /\ listener.pc = "callback" /\ listener' = [listener EXCEPT !.pc = "accept"]
      /\ UNCHANGED <<connected, connections, owners, sent>>
      /\ listener \in Listeners
  BY DEF Callback, serverVars, serverTables, PlacesOK, ThreadsTypeOK
<1>2. listener'.pc = "accept"
  BY <1>1 DEF Listeners
<1>3. CASE FromCallback
  <2>1. ~TwoThreads => \A t \in Threads : propagation[t].pc = "idle"
    BY <1>1, NoLoop
  <2>2. /\ propagation' = [propagation EXCEPT !["listener"] =
               [IdlePropagation EXCEPT !.pc = "test", !.slot = 1, !.message = messages + 1]]
        /\ messages' = messages + 1 /\ "listener" \in Threads
    BY <1>3 DEF Callback, Threads
  <2>. QED
    BY <1>1, <1>2, <2>1, <2>2, StartKeepsNumbers
<1>4. CASE ~FromCallback
  <2>1. UNCHANGED <<propagation, messages>>
    BY <1>4 DEF Callback
  <2>2. ASSUME NEW n \in DOMAIN owners, NEW since, Session(n, since)
        PROVE  Session(n, since)'
    <3>1. Begins(n, since)'
      BY <1>2 DEF Begins
    <3>2. \A i : ~StoringInto(i) /\ (LatestOwner(i, n)' => LatestOwner(i, n))
      BY <1>1 DEF StoringInto, LatestOwner
    <3>. QED
      BY <1>1, <2>1, <2>2, <3>1, <3>2, SessionStays
  <2>. QED
    BY <1>1, <2>1, <2>2, ListenNumbers DEF NumbersOK
<1>. QED
  BY <1>3, <1>4

LEMMA PropagateKeepsNumbers ==
    ASSUME PlacesOK, KeysOK, NumbersOK, Propagate, UNCHANGED application
    PROVE  NumbersOK'
<1>1. /\ UNCHANGED <<connected, connections, owners, sent, listener>>
      /\ propagation' = [propagation EXCEPT !["main"] =
               [IdlePropagation EXCEPT !.pc = "test", !.slot = 1, !.message = messages + 1]]
      /\ messages' = messages + 1
  BY DEF Propagate, serverVars, serverTables
<1>2. CASE ~TwoThreads
  <2>1. listener.pc = "idle" /\ \A t \in Threads : propagation[t].pc = "idle"
    BY <1>2 DEF Propagate, Threads
  <2>2. "main" \in Threads
    BY DEF Threads
  <2>. QED
    BY <1>1, <2>1, <2>2, StartKeepsNumbers
<1>. QED
  BY <1>2 DEF NumbersOK, TwoThreads

------------------------------------------------------------------------------
(* The steps of a loop *)

\* What the slots have been given, for the only loop there is.
LEMMA GivenByLoop ==
    ASSUME PlacesOK, ~TwoThreads, NEW t \in Threads, propagation[t].pc # "idle",
           NEW next \in Propagations, propagation' = [propagation EXCEPT ![t] = next],
           UNCHANGED messages
    PROVE  /\ \A u \in Threads : u # t => propagation[u].pc = "idle" /\ propagation'[u].pc = "idle"
           /\ propagation'[t] = next
           /\ \A i \in ClientSlots :
                 /\ Given(i) = messages - (IF Awaits(i, propagation[t]) THEN 1 ELSE 0)
                 /\ Given(i)' = messages - (IF Awaits(i, next) THEN 1 ELSE 0)
<1>1. propagation \in [Threads -> Propagations]
  BY DEF PlacesOK, ThreadsTypeOK
<1>2. /\ \A u \in Threads : u # t => propagation[u].pc = "idle" /\ propagation'[u].pc = "idle"
      /\ propagation'[t] = next
  BY <1>1, OneLoop
<1>. SUFFICES ASSUME NEW i \in ClientSlots
     PROVE  /\ Given(i) = messages - (IF Awaits(i, propagation[t]) THEN 1 ELSE 0)
            /\ Given(i)' = messages - (IF Awaits(i, next) THEN 1 ELSE 0)
  BY <1>2
<1>3. (\E u \in Threads : Awaits(i, propagation[u])) <=> Awaits(i, propagation[t])
  BY <1>2 DEF Awaits
<1>4. (\E u \in Threads : Awaits(i, propagation'[u])) <=> Awaits(i, next)
  BY <1>2 DEF Awaits
<1>. QED
  BY <1>3, <1>4 DEF Given

\* A step that sends nothing and leaves the numbers in the entries, unless it is StoreNumber.
LEMMA LoopStepNumbers ==
    ASSUME PlacesOK, KeysOK, NumbersOK, ~TwoThreads, NEW t \in Threads, propagation[t].pc # "idle",
           NEW next \in Propagations, propagation' = [propagation EXCEPT ![t] = next],
           UNCHANGED <<connected, listener, messages, owners, application>>,
           \A n \in DOMAIN owners, since \in 0 .. messages :
               Session(n, since) => Numbers(n, since)',
           \A i \in ClientSlots : connected[i] =>
               \/ /\ Awaits(i, next) <=> Awaits(i, propagation[t])
                  /\ connections'[i].sequence = connections[i].sequence
               \/ /\ Awaits(i, propagation[t]) /\ ~Awaits(i, next)
                  /\ connections'[i].sequence = NextSequence(connections[i].sequence),
           LoopOK(t)'
    PROVE  NumbersOK'
<1>1. /\ \A u \in Threads : u # t => propagation[u].pc = "idle" /\ propagation'[u].pc = "idle"
      /\ propagation'[t] = next
      /\ \A i \in ClientSlots :
            /\ Given(i) = messages - (IF Awaits(i, propagation[t]) THEN 1 ELSE 0)
            /\ Given(i)' = messages - (IF Awaits(i, next) THEN 1 ELSE 0)
  BY GivenByLoop
<1>2. listener.pc \notin {"store", "callback"} /\ messages \in Nat
  BY OneLoop DEF PlacesOK, ThreadsTypeOK
<1>3. ASSUME NEW n \in DOMAIN owners, NEW since \in 0 .. messages, Session(n, since)
      PROVE  Session(n, since)'
  <2>1. Begins(n, since)'
    BY <1>2 DEF Begins
  <2>2. PICK i \in ClientSlots : i = owners[n].slot
    BY OwnerFacts
  <2>3. ASSUME connected[i], LatestOwner(i, n)
        PROVE  since <= Given(i)' /\ connections'[i].sequence = (Given(i)' - since) % SeqModulus
    <3>1. /\ since <= Given(i) /\ connections[i].sequence = (Given(i) - since) % SeqModulus
          /\ Given(i) \in Int
      BY <1>2, <1>3, <2>2, <2>3, GivenFacts, SlotFacts DEF Session, Counts, StoringInto
    <3>2. CASE /\ Awaits(i, next) <=> Awaits(i, propagation[t])
               /\ connections'[i].sequence = connections[i].sequence
      BY <1>1, <3>1, <3>2
    <3>3. CASE /\ Awaits(i, propagation[t]) /\ ~Awaits(i, next)
               /\ connections'[i].sequence = NextSequence(connections[i].sequence)
      <4>1. Given(i)' = Given(i) + 1
        BY <1>1, <1>2, <3>3
      <4>2. Given(i) - since \in Nat /\ (Given(i) - since) + 1 = (Given(i) + 1) - since
        BY <3>1
      <4>3. NextSequence((Given(i) - since) % SeqModulus) = ((Given(i) - since) + 1) % SeqModulus
        BY <4>2, NextModulo
      <4>. QED
        BY <3>1, <3>3, <4>1, <4>2, <4>3
    <3>. QED
      BY <2>3, <3>2, <3>3
  <2>4. Counts(n, since)'
    BY <2>2, <2>3 DEF Counts, LatestOwner
  <2>. QED
    BY <1>3, <2>1, <2>4 DEF Session
<1>4. \A u \in Threads : LoopOK(u)'
  BY <1>1 DEF LoopOK
<1>. QED
  BY <1>3, <1>4 DEF NumbersOK

\* The slots that a loop on its way past slot p.slot awaits.
LEMMA AwaitsPast ==
    ASSUME NEW p \in Propagations, p.pc # "idle", NEW i \in Slots
    PROVE  /\ i # p.slot => (Awaits(i, NextSlot(p)) <=> Awaits(i, p))
           /\ ~Awaits(p.slot, NextSlot(p))
<1>1. p.slot \in Slots /\ p.slot \in Nat /\ i \in Nat
  BY SlotFacts DEF Propagations
<1>. QED
  BY <1>1, NextAwaits DEF Awaits

LEMMA QuietKeepsNumbers ==
    ASSUME PlacesOK, KeysOK, NumbersOK, NEW t \in Threads, UNCHANGED application,
           Test(t) \/ Load(t) \/ StoreNumber(t) \/ WritePacket(t)
    PROVE  NumbersOK'
<1>. SUFFICES ASSUME ~TwoThreads PROVE NumbersOK'
  BY DEF NumbersOK, TwoThreads
<1>. DEFINE p == propagation[t]
<1>1. /\ p \in Propagations /\ propagation \in [Threads -> Propagations]
      /\ connections \in [Slots -> ConnectionInfos] /\ LoopOK(t)
  BY DEF PlacesOK, ThreadsTypeOK, ServerTypeOK, NumbersOK
<1>2. p.pc # "idle" /\ p.slot \in ClientSlots /\ p.slot \in Slots
  BY <1>1 DEF Test, Load, StoreNumber, WritePacket, Goes, PlacesOK, LoopsOK, ClientSlots, Propagations
<1>3. /\ UNCHANGED <<owners, sent, listener, messages, connected>>
      /\ propagation'[t] \in Propagations
      /\ propagation' = [propagation EXCEPT ![t] = propagation'[t]]
  <2>1. PlacesOK'
    BY PropagatesKeepsPlaces DEF Propagates
  <2>2. propagation' \in [Threads -> Propagations]
    BY <2>1 DEF PlacesOK, ThreadsTypeOK
  <2>. QED
    BY <1>1, <2>2, QuietLoopStep
<1>4. \A n, since : Session(n, since) => Numbers(n, since)'
  BY <1>3 DEF Session, Numbers
<1>5. /\ connections[p.slot].sequence \in SeqNumbers
  BY <1>1, <1>2 DEF ConnectionInfos
<1>. DEFINE next == propagation'[t]
            Moves(i) == \/ /\ Awaits(i, next) <=> Awaits(i, p)
                           /\ connections'[i].sequence = connections[i].sequence
                        \/ /\ Awaits(i, p) /\ ~Awaits(i, next)
                           /\ connections'[i].sequence = NextSequence(connections[i].sequence)
<1>6. CASE Test(t) /\ connected[p.slot]
  <2>1. p.pc = "test" /\ next = [p EXCEPT !.pc = "load"] /\ connections' = connections
    BY <1>1, <1>6 DEF Test, Goes
  <2>2. next.pc = "load" /\ next.slot = p.slot /\ next.message = p.message
    BY <1>1, <2>1 DEF Propagations
  <2>3. \A i \in ClientSlots : Moves(i)
    BY <2>1, <2>2 DEF Awaits
  <2>4. LoopOK(t)'
    BY <1>1, <1>3, <1>6, <2>1, <2>2 DEF LoopOK
  <2>. QED
    BY <1>2, <1>3, <1>4, <2>3, <2>4, LoopStepNumbers
<1>7. CASE Test(t) /\ ~connected[p.slot]
  <2>1. p.pc = "test" /\ next = NextSlot(p) /\ connections' = connections
    BY <1>1, <1>7 DEF Test, Goes
  <2>2. \A i \in ClientSlots : connected[i] => Moves(i)
    BY <1>1, <1>2, <1>7, <2>1, AwaitsPast, SlotFacts
  <2>3. next.pc = "idle" \/ (next.pc = "test" /\ next.message = p.message)
    <3>1. IdlePropagation.pc = "idle"
      BY DEF IdlePropagation
    <3>2. NextSlot(p).pc = "idle" \/ (NextSlot(p).pc = "test" /\ NextSlot(p).message = p.message)
      <4>. HIDE DEF p, next
      <4>. QED
        BY <1>1, <3>1, NextSlotFacts
    <3>. HIDE DEF p, next
    <3>. QED
      BY <2>1, <3>2
  <2>4. LoopOK(t)'
    BY <1>1, <1>3, <2>1, <2>3 DEF LoopOK
  <2>. QED
    BY <1>2, <1>3, <1>4, <2>2, <2>4, LoopStepNumbers
<1>8. CASE Load(t)
  <2>1. /\ p.pc = "load" /\ connections' = connections
        /\ next = [p EXCEPT !.pc = "store", !.number = NextSequence(connections[p.slot].sequence)]
    BY <1>1, <1>8 DEF Load, Goes
  <2>2. /\ next.pc = "store" /\ next.slot = p.slot /\ next.message = p.message
        /\ next.number = NextSequence(connections[p.slot].sequence)
    BY <1>1, <2>1 DEF Propagations
  <2>3. \A i \in ClientSlots : Moves(i)
    BY <2>1, <2>2 DEF Awaits
  <2>4. LoopOK(t)'
    BY <1>1, <1>3, <2>1, <2>2 DEF LoopOK
  <2>. QED
    BY <1>2, <1>3, <1>4, <2>3, <2>4, LoopStepNumbers
<1>9. CASE StoreNumber(t)
  <2>1. /\ p.pc = "store" /\ connections' = [connections EXCEPT ![p.slot].sequence = p.number]
        /\ next = [p EXCEPT !.pc = "write"]
    BY <1>1, <1>9 DEF StoreNumber, Goes
  <2>2. /\ next.pc = "write" /\ next.slot = p.slot /\ next.message = p.message
        /\ next.number = p.number
    BY <1>1, <2>1 DEF Propagations
  <2>3. p.number = NextSequence(connections[p.slot].sequence)
    BY <1>1, <2>1 DEF LoopOK
  <2>4. /\ connections'[p.slot].sequence = p.number
        /\ \A i \in ClientSlots : i # p.slot => connections'[i].sequence = connections[i].sequence
    BY <1>1, <1>2, <2>1 DEF ConnectionInfos, ClientSlots
  <2>5. ASSUME NEW i \in ClientSlots PROVE Moves(i)
    <3>1. CASE i = p.slot
      <4>1. Awaits(i, p)
        BY <2>1, <3>1 DEF Awaits
      <4>2. p.slot \in Nat
        BY <1>2, SlotFacts
      <4>3. ~Awaits(i, next)
        <5>. HIDE DEF p, next
        <5>. QED
          BY <2>2, <3>1, <4>2 DEF Awaits
      <4>4. connections'[i].sequence = NextSequence(connections[i].sequence)
        <5>. HIDE DEF p, next
        <5>. QED
          BY <2>3, <2>4, <3>1
      <4>. QED
        BY <4>1, <4>3, <4>4
    <3>2. CASE i # p.slot
      BY <2>1, <2>2, <2>4, <3>2 DEF Awaits
    <3>. QED
      BY <3>1, <3>2
  <2>6. LoopOK(t)'
    BY <1>1, <1>3, <2>1, <2>2, <2>4 DEF LoopOK
  <2>. QED
    BY <1>2, <1>3, <1>4, <2>5, <2>6, LoopStepNumbers
<1>10. CASE WritePacket(t)
  <2>1. /\ p.pc = "write" /\ connections' = connections
        /\ next = [p EXCEPT !.pc = "send", !.key = connections[p.slot].sharedKey]
    BY <1>1, <1>10 DEF WritePacket, Goes
  <2>2. /\ next.pc = "send" /\ next.slot = p.slot /\ next.message = p.message
        /\ next.number = p.number /\ next.key = connections[p.slot].sharedKey
    BY <1>1, <2>1 DEF Propagations
  <2>3. \A i \in ClientSlots : Moves(i)
    BY <2>1, <2>2 DEF Awaits
  <2>4. LoopOK(t)'
    BY <1>1, <1>3, <2>1, <2>2 DEF LoopOK
  <2>. QED
    BY <1>2, <1>3, <1>4, <2>3, <2>4, LoopStepNumbers
<1>. QED
  BY <1>6, <1>7, <1>8, <1>9, <1>10

LEMMA SendKeepsNumbers ==
    ASSUME PlacesOK, KeysOK, EntriesOK, NumbersOK, NEW t \in Threads, UNCHANGED application,
           SendPacket(t)
    PROVE  NumbersOK'
<1>. SUFFICES ASSUME ~TwoThreads PROVE NumbersOK'
  BY DEF NumbersOK, TwoThreads
<1>. DEFINE p == propagation[t]
            next == NextSlot(p)
            new == [dst |-> connections[p.slot].clientAddress,
                    packet |-> ConnectionDataPacket(p.key, p.number), message |-> p.message]
<1>1. /\ UNCHANGED <<owners, listener, messages, connected, connections>>
      /\ propagation' = [propagation EXCEPT ![t] = next]
      /\ p.pc = "send" /\ p \in Propagations /\ p.slot \in ClientSlots
      /\ \/ sent' = sent
         \/ /\ DOMAIN sent' = DOMAIN sent \cup {Len(sent) + 1}
            /\ \A j \in DOMAIN sent : sent'[j] = sent[j]
            /\ sent'[Len(sent) + 1] = new
  BY SendingStep
<1>2. \A j \in DOMAIN sent' : (j \in DOMAIN sent /\ sent'[j] = sent[j]) \/ sent'[j] = new
  BY <1>1
<1>3. /\ new.message = p.message /\ new.packet.sequence = p.number
      /\ \A h : SealedWith(new, h) <=> h = p.key
  BY DataFacts DEF ConnectionDataPacket
<1>4. /\ connected[p.slot] /\ p.message = messages
      /\ p.number = connections[p.slot].sequence /\ p.key = connections[p.slot].sharedKey
  BY <1>1 DEF NumbersOK, LoopOK
<1>5. /\ next \in Propagations
      /\ next.pc = "idle" \/ (next.pc = "test" /\ next.message = p.message)
  <2>1. IdlePropagation.pc = "idle" /\ IdlePropagation \in Propagations
    BY IdleFacts DEF IdlePropagation
  <2>. HIDE DEF p
  <2>. QED
    BY <1>1, <2>1, NextSlotFacts
<1>6. /\ propagation'[t] = next
      /\ \A i \in ClientSlots :
            Given(i) = messages - (IF Awaits(i, propagation[t]) THEN 1 ELSE 0)
  BY <1>1, <1>5, GivenByLoop
<1>7. listener.pc \notin {"store", "callback"} /\ messages \in Nat
  BY <1>1, OneLoop DEF PlacesOK, ThreadsTypeOK
<1>. HIDE DEF new, next
<1>8. ASSUME NEW n \in DOMAIN owners, NEW since \in 0 .. messages, Session(n, since)
      PROVE  Numbers(n, since)'
  <2>1. ASSUME owners[n].key = p.key
        PROVE  p.message >= since /\ p.number = (p.message - since) % SeqModulus
    <3>1. KeyOfOwner(p.slot)
      BY <1>1, <1>4, <1>7 DEF EntriesOK, EntryOK, StoringInto
    <3>2. LatestOwner(p.slot, n) /\ owners[n].slot = p.slot
      BY <1>4, <2>1, <3>1 DEF KeyOfOwner, KeysOK, LatestOwner
    <3>3. /\ since <= Given(p.slot)
          /\ connections[p.slot].sequence = (Given(p.slot) - since) % SeqModulus
      BY <1>4, <1>7, <1>8, <3>2 DEF Session, Counts, StoringInto
    <3>4. Given(p.slot) = messages
      <4>1. ~Awaits(p.slot, p)
        BY <1>1, SlotFacts DEF Awaits
      <4>. QED
        BY <1>1, <1>6, <1>7, <4>1
    <3>. QED
      BY <1>4, <1>7, <3>3, <3>4
  <2>2. ASSUME NEW j \in DOMAIN sent', IsData(sent'[j]), SealedWith(sent'[j], owners[n].key)
        PROVE  /\ sent'[j].message >= since
               /\ sent'[j].packet.sequence = (sent'[j].message - since) % SeqModulus
    BY <1>2, <1>3, <1>8, <2>1, <2>2 DEF Session, Numbers
  <2>. QED
    BY <1>1, <2>2 DEF Numbers
<1>9. \A i \in ClientSlots : Awaits(i, next) <=> Awaits(i, p)
  <2>1. ~Awaits(p.slot, p)
    BY <1>1, SlotFacts DEF Awaits
  <2>. QED
    BY <1>1, <2>1, AwaitsPast, SlotFacts DEF next
<1>10. LoopOK(t)'
  BY <1>1, <1>4, <1>5, <1>6 DEF LoopOK
<1>. QED
  BY <1>1, <1>5, <1>8, <1>9, <1>10, LoopStepNumbers

LEMMA StepKeepsNumbers ==
    /\ PlacesOK /\ KeysOK /\ KeysOK' /\ EntriesOK /\ SentOK /\ NumbersOK /\ [Next]_vars
    => NumbersOK'
<1>. SUFFICES ASSUME PlacesOK, KeysOK, KeysOK', EntriesOK, SentOK, NumbersOK, [Next]_vars
     PROVE  NumbersOK'
  OBVIOUS
<1>0. UNCHANGED application
  BY DEF Next, vars, threadVars
<1>1. ASSUME NEW c \in Clients, NEW p \in Packets, Listens(Datagram(c, ServerAddress, p, 1))
      PROVE  NumbersOK'
  <2>. DEFINE d == Datagram(c, ServerAddress, p, 1)
  <2>1. d.src = c /\ d.packet = p
    BY DEF Datagram
  <2>2. ListenElse(d) \/ BeginAdmission(d) \/ BeginRemoval(d)
    BY <1>1 DEF Listens
  <2>. HIDE DEF d
  <2>3. CASE ListenElse(d)
    BY <1>0, <2>3, NumbersStay DEF ListenElse, threadVars
  <2>. QED
    BY <1>0, <2>1, <2>2, <2>3, AdmissionKeepsNumbers, RemovalKeepsNumbers
<1>2. CASE Switch \/ UNCHANGED vars
  BY <1>2, NumbersStay DEF Switch, SwitchToLobby, SwitchToGame, SwitchTo, vars, serverVars,
                           serverTables, threadVars
<1>3. ASSUME NEW t \in Threads, Propagates(t) PROVE NumbersOK'
  BY <1>0, <1>3, QuietKeepsNumbers, SendKeepsNumbers DEF Propagates
<1>. QED
  BY <1>0, <1>1, <1>2, <1>3, StoreKeepsNumbers, EndAdmissionKeepsNumbers, EndRemovalKeepsNumbers,
     CallbackKeepsNumbers, AcceptKeepsNumbers, PropagateKeepsNumbers DEF Next, ListenGoesOn

------------------------------------------------------------------------------
(* The theorems *)

LEMMA InitThreads == Init => ThreadsInv
<1>. SUFFICES ASSUME Init PROVE ThreadsInv
  OBVIOUS
<1>1. PlacesOK
  BY InitPlaces
<1>2. /\ owners = <<>> /\ sent = <<>> /\ messages = 0 /\ listener.pc = "idle"
      /\ \A t \in Threads : propagation[t].pc = "idle"
  BY DEF Init, IdleListener, IdlePropagation
<1>3. DOMAIN owners = {} /\ DOMAIN sent = {}
  BY <1>2
<1>4. \A i \in ClientSlots : ~connected[i] /\ connections[i] = NoConnection
  BY SlotFacts DEF Init, ServerInit, HostConnected, HostConnections
<1>5. KeysOK
  BY <1>3 DEF KeysOK
<1>6. EntriesOK
  <2>1. NoConnection.clientAddress = NoAddress /\ NoConnection.sharedKey = ZeroKey
    BY DEF NoConnection, ConnectionInfo
  <2>. QED
    BY <1>2, <1>4, <2>1 DEF EntriesOK, EntryOK, StoringInto
<1>7. SentOK
  BY <1>2, <1>3 DEF SentOK, NeverToAnEarlierOwner
<1>8. WelcomeOK
  BY <1>2, <1>3 DEF WelcomeOK, AcceptedFirst
<1>9. NumbersOK
  BY <1>2, <1>3 DEF NumbersOK, LoopOK
<1>. QED
  BY <1>1, <1>5, <1>6, <1>7, <1>8, <1>9 DEF ThreadsInv

LEMMA StepKeepsThreads == ThreadsInv /\ [Next]_vars => ThreadsInv'
<1>. SUFFICES ASSUME ThreadsInv, [Next]_vars PROVE ThreadsInv'
  OBVIOUS
<1>1. PlacesOK /\ KeysOK /\ EntriesOK /\ SentOK /\ WelcomeOK /\ NumbersOK
  BY DEF ThreadsInv
<1>2. PlacesOK' /\ KeysOK'
  BY <1>1, StepKeepsPlaces, StepKeepsKeys
<1>3. EntriesOK' /\ SentOK' /\ WelcomeOK' /\ NumbersOK'
  BY <1>1, <1>2, StepKeepsEntries, StepKeepsSent, StepKeepsWelcome, StepKeepsNumbers
<1>. QED
  BY <1>2, <1>3 DEF ThreadsInv

\* What NumbersOK comes to: two packets to a client, sealed with one key and with the same
\* number, are of the same message but for whole turns of the counter.
LEMMA NumbersTellMessagesApart ==
    PlacesOK /\ KeysOK /\ SentOK /\ NumbersOK => OneNumberPerMessage
<1>. SUFFICES ASSUME PlacesOK, SentOK, NumbersOK, ~TwoThreads,
                     NEW i \in DOMAIN sent, NEW j \in DOMAIN sent,
                     IsData(sent[i]), IsData(sent[j]),
                     sent[i].packet = sent[j].packet,
                     ~SealedWith(sent[i], ZeroKey)
              PROVE  (sent[i].message - sent[j].message) % SeqModulus = 0
  BY DEF OneNumberPerMessage
<1>1. sent[i].message \in Nat /\ sent[j].message \in Nat
  <2>1. sent[i] \in SentRecords /\ sent[j] \in SentRecords
    BY DEF PlacesOK, ThreadsTypeOK
  <2>. QED
    BY <2>1 DEF SentRecords
<1>2. PICK n \in DOMAIN owners : SealedWith(sent[i], owners[n].key)
  BY DEF SentOK, OwnerKeys
<1>3. SealedWith(sent[j], owners[n].key)
  BY <1>2 DEF SealedWith
<1>4. PICK since \in 0 .. messages : Session(n, since)
  BY DEF NumbersOK
<1>5. since \in Nat /\ messages \in Nat
  BY DEF PlacesOK, ThreadsTypeOK
<1>6. (sent[i].message - since) % SeqModulus = (sent[j].message - since) % SeqModulus
  BY <1>2, <1>3, <1>4 DEF Session, Numbers
<1>7. sent[i].message >= since /\ sent[j].message >= since
  BY <1>2, <1>3, <1>4 DEF Session, Numbers
<1>8. ((sent[i].message - since) - (sent[j].message - since)) % SeqModulus = 0
  BY <1>1, <1>5, <1>6, <1>7, SameRemainder
<1>9. (sent[i].message - since) - (sent[j].message - since) = sent[i].message - sent[j].message
  BY <1>1, <1>5
<1>. QED
  BY <1>8, <1>9

\* Whatever the clients send and however the two threads' loads and stores interleave, the
\* slots, the handshake, Listen and the loops are where ThreadsInv says.
THEOREM ThreadsKeepInvariant == Spec => []ThreadsInv
<1>1. Init => ThreadsInv
  BY InitThreads
<1>2. ThreadsInv /\ [Next]_vars => ThreadsInv'
  BY StepKeepsThreads
<1>. QED
  BY <1>1, <1>2, PTL DEF Spec

\* Between two calls of Listen, a slot has the address and the key of its latest admission.
THEOREM EntriesStayWhole == Spec => []EntriesAreWhole
<1>1. ThreadsInv => EntriesAreWhole
  BY WholeEntries DEF ThreadsInv
<1>. QED
  BY <1>1, ThreadsKeepInvariant, PTL

\* Data sealed for a client is never sent to an earlier owner of its slot, although
\* PropagateGameData reads the entry while Listen is storing it.
THEOREM NothingToAnEarlierOwner == Spec => []NeverToAnEarlierOwner
<1>1. ThreadsInv => NeverToAnEarlierOwner
  BY DEF ThreadsInv, SentOK
<1>. QED
  BY <1>1, ThreadsKeepInvariant, PTL

\* In one loop, the messages of a session have numbers of their own, up to whole turns of
\* the counter.
THEOREM MessagesHaveTheirNumbers == Spec => []OneNumberPerMessage
<1>1. ThreadsInv => OneNumberPerMessage
  BY NumbersTellMessagesApart DEF ThreadsInv
<1>. QED
  BY <1>1, ThreadsKeepInvariant, PTL

\* In one loop whose connect callback sends nothing, CONNECTION_ACCEPTED is sent before any
\* data of its session.
THEOREM AcceptedComesFirst == Spec => []AcceptedFirst
<1>1. ThreadsInv => AcceptedFirst
  BY DEF ThreadsInv, WelcomeOK
<1>. QED
  BY <1>1, ThreadsKeepInvariant, PTL
=============================================================================

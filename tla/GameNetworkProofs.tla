-------------------------- MODULE GameNetworkProofs --------------------------
(***************************************************************************)
(* Proofs about GameNetwork for every number of clients, slots, handshakes  *)
(* and messages, and for a network that loses, delays, reorders and repeats *)
(* datagrams: that host and clients agree on their sessions, and that they  *)
(* implement Sessions.                                                      *)
(***************************************************************************)
EXTENDS GameNetwork, ServerLemmas

------------------------------------------------------------------------------
(***************************************************************************)
(* The inductive invariant.  The properties speak of keys and of indices,   *)
(* and hold because of what may be in flight: each datagram is one that its *)
(* sender had reason to write.  A client holds no key but one agreed on     *)
(* with a pair that the server generated; a pending handshake has a pair    *)
(* that no admitted key is made from, so that ending it admits a new key.   *)
(***************************************************************************)

\* The keys a client may hold.
HeldKeys == AgreedKeys \cup {ZeroKey}

Message(e, n) == [key |-> e.key, slot |-> e.slot, sequence |-> n]

ClientDatagram(d) ==
    /\ d.src \in Clients /\ d.dst = ServerAddress
    /\ \/ \E pk \in Clients \X Nat : d.packet = ConnectionRequestPacket(pk)
       \/ \E k \in HeldKeys : d.packet \in {ChallengeResponsePacket(k), DisconnectPacket(k)}
       \/ \E e \in Admissions, n \in SeqNumbers :
             d.packet = ConnectionDataPacket(e.key, n) /\ Message(e, n) \in dataSent

ServerDatagram(d) ==
    /\ d.src = ServerAddress /\ d.dst \in Clients
    /\ \/ \E pk \in GeneratedPairs : d.packet = ChallengePacket(pk)
       \/ \E e \in Admissions :
             d.packet = ConnectionAcceptedPacket(e.key, e.slot) /\ e.client = d.dst
       \/ \E k \in Keys, n \in SeqNumbers : d.packet = ConnectionDataPacket(k, n)
       \/ \E k \in Keys : d.packet = DisconnectPacket(k)

NetworkOK == \A d \in network : ClientDatagram(d) \/ ServerDatagram(d)

ClientOK(c) ==
    /\ client[c].index \in Slots \cup {-1}
    /\ client[c].key \in HeldKeys
    /\ \A r \in Responders : responder[c][r].key \in HeldKeys
    /\ client[c].state = "CONNECTED" =>
          /\ client[c].server = ServerAddress
          /\ Session(c, client[c].key, client[c].index) \in Admissions

ClientsOK == ClientTypeOK /\ \A c \in Clients : ClientOK(c)

Pending(j) ==
    /\ challenges[j].clientAddress \in Clients
    /\ challenges[j].serverKeyPair \in GeneratedPairs
    /\ challenges[j].clientPublicKey \in Clients \X Nat
    /\ SettledKey(challenges[j]) \in KeyTaskResults(challenges[j])
    /\ \A e \in Admissions : challenges[j].serverKeyPair \notin e.key

HostOK ==
    /\ IInv
    /\ \A j \in Slots : challenged[j] => Pending(j)
    /\ Seated \subseteq Admissions

AgreedSessions == [client : Clients, key : AgreedKeys, slot : Slots \ {0}]

HistoryOK ==
    /\ admitted \in Seq(AgreedSessions)
    /\ KeyAdmittedOnce
    /\ HostAttribution

GInv == NetworkOK /\ ClientsOK /\ HostOK /\ HistoryOK

------------------------------------------------------------------------------
(* Keys, pairs and seals *)

LEMMA HeldKeysTyped ==
    ASSUME serverKeyPairs \in Nat
    PROVE  /\ GeneratedPairs \subseteq {ServerAddress} \X Nat
           /\ AgreedKeys \subseteq Keys /\ HeldKeys \subseteq Keys
           /\ ZeroKey \in HeldKeys
           /\ \A p \in GeneratedPairs, q \in Clients \X Nat : SharedKey(p, q) \in HeldKeys
BY AgreedKeysTyped, BlankEntries DEF HeldKeys, AgreedKeys

\* No key task's garbage is a key that a client may hold.
LEMMA AgreedKeyFacts ==
    ASSUME serverKeyPairs \in Nat, NEW k \in AgreedKeys
    PROVE  /\ k \notin GarbageKeys
           /\ k # ZeroKey
           /\ KeyPair(ServerAddress, serverKeyPairs) \notin k
<1>1. PICK p \in GeneratedPairs : p \in k /\ p[1] = ServerAddress
  BY AgreedKeysTyped
<1>. QED
  BY <1>1, AgreedKeysTyped, GarbageAssumption

------------------------------------------------------------------------------
(* What a step that only adds to the history leaves true *)

Grows ==
    /\ serverKeyPairs \in Nat /\ serverKeyPairs' \in Nat
    /\ serverKeyPairs <= serverKeyPairs'
    /\ Admissions \subseteq Admissions'
    /\ dataSent \subseteq dataSent'

LEMMA KeysGrow ==
    ASSUME Grows
    PROVE  /\ GeneratedPairs \subseteq GeneratedPairs'
           /\ AgreedKeys \subseteq AgreedKeys' /\ HeldKeys \subseteq HeldKeys'
BY PairsGrow DEF Grows, HeldKeys

LEMMA DatagramsStay ==
    ASSUME Grows, NEW d, ClientDatagram(d) \/ ServerDatagram(d)
    PROVE  ClientDatagram(d)' \/ ServerDatagram(d)'
<1>1. ASSUME ClientDatagram(d) PROVE ClientDatagram(d)'
  <2>1. CASE \E e \in Admissions, n \in SeqNumbers :
                d.packet = ConnectionDataPacket(e.key, n) /\ Message(e, n) \in dataSent
    <3>1. \E e \in Admissions', n \in SeqNumbers :
             d.packet = ConnectionDataPacket(e.key, n) /\ Message(e, n) \in dataSent'
      BY <2>1 DEF Grows
    <3>. QED
      BY <1>1, <3>1 DEF ClientDatagram
  <2>. QED
    BY <1>1, <2>1, KeysGrow DEF ClientDatagram
<1>2. ASSUME ServerDatagram(d) PROVE ServerDatagram(d)'
  <2>1. CASE \E e \in Admissions :
                d.packet = ConnectionAcceptedPacket(e.key, e.slot) /\ e.client = d.dst
    BY <1>2, <2>1 DEF ServerDatagram, Grows
  <2>. QED
    BY <1>2, <2>1, KeysGrow DEF ServerDatagram
<1>. QED
  BY <1>1, <1>2

\* What an operation may put into the network.
LEMMA NetworkStays ==
    ASSUME Grows, NetworkOK,
           NEW sent, network' \subseteq network \cup sent,
           \A d \in sent : ClientDatagram(d)' \/ ServerDatagram(d)'
    PROVE  NetworkOK'
BY DatagramsStay DEF NetworkOK

LEMMA ClientsStay ==
    ASSUME Grows, ClientsOK, UNCHANGED clientVars
    PROVE  ClientsOK'
<1>1. ClientTypeOK'
  BY DEF ClientsOK, ClientTypeOK, clientVars
<1>2. ASSUME NEW c \in Clients PROVE ClientOK(c)'
  BY KeysGrow DEF ClientsOK, ClientOK, clientVars, Grows
<1>. QED
  BY <1>1, <1>2 DEF ClientsOK

LEMMA AdmissionsTyped ==
    ASSUME HistoryOK
    PROVE  /\ Admissions \subseteq AgreedSessions
           /\ \A e \in Admissions : e = Session(e.client, e.key, e.slot)
<1>1. \A i \in DOMAIN admitted : admitted[i] \in AgreedSessions
  BY DEF HistoryOK
<1>2. Admissions \subseteq AgreedSessions
  BY <1>1 DEF Admissions
<1>. QED
  BY <1>2 DEF AgreedSessions, Session

------------------------------------------------------------------------------
(* What a client reads out of a datagram *)

LEMMA ServerPacketFacts ==
    ASSUME HistoryOK, NEW d, ServerDatagram(d)
    PROVE  /\ VerifyPacketCRC(d.packet) = "CHALLENGE" => d.packet.publicKey \in GeneratedPairs
           /\ VerifyPacketCRC(d.packet) \in {"CHALLENGE", "INVALID_PACKET"}
           /\ \A k :
                 LET type == VerifyPacketHMAC(k, d.packet)
                 IN  /\ type \in {"CONNECTION_ACCEPTED", "CONNECTION_DATA", "DISCONNECT",
                                  "INVALID_PACKET"}
                     /\ type = "CONNECTION_ACCEPTED" =>
                           /\ Session(d.dst, k, d.packet.clientID) \in Admissions
                           /\ d.packet.clientID \in Slots
                     /\ type = "CONNECTION_DATA" => d.packet.sequence \in SeqNumbers
                     /\ type = "DISCONNECT" => d.packet = DisconnectPacket(k)
<1>. USE SealFacts DEF VerifyPacketCRC, VerifyPacketHMAC
<1>1. CASE \E pk \in GeneratedPairs : d.packet = ChallengePacket(pk)
  BY <1>1 DEF ChallengePacket
<1>2. CASE \E e \in Admissions :
              d.packet = ConnectionAcceptedPacket(e.key, e.slot) /\ e.client = d.dst
  <2>1. PICK e \in Admissions :
              d.packet = ConnectionAcceptedPacket(e.key, e.slot) /\ e.client = d.dst
    BY <1>2
  <2>2. e = Session(d.dst, e.key, e.slot) /\ e.slot \in Slots
    BY <2>1, AdmissionsTyped DEF AgreedSessions
  <2>3. /\ d.packet.type = "CONNECTION_ACCEPTED" /\ d.packet.seal = HMAC(e.key)
        /\ d.packet.clientID = e.slot
    BY <2>1 DEF ConnectionAcceptedPacket
  <2>. QED
    BY <2>2, <2>3
<1>3. CASE \E k \in Keys, n \in SeqNumbers : d.packet = ConnectionDataPacket(k, n)
  BY <1>3 DEF ConnectionDataPacket
<1>4. CASE \E k \in Keys : d.packet = DisconnectPacket(k)
  BY <1>4 DEF DisconnectPacket
<1>. QED
  BY <1>1, <1>2, <1>3, <1>4 DEF ServerDatagram

------------------------------------------------------------------------------
(* The clients' steps *)

\* What every operation of client c leaves behind: the object it makes of client[c], and
\* what it sends.
ClientStep(c, o, sent) ==
    /\ client' = [client EXCEPT ![c] = o]
    /\ o \in ClientObjects
    /\ o.index \in Slots \cup {-1}
    /\ o.key \in HeldKeys
    /\ o.state = "CONNECTED" =>
          /\ o.server = ServerAddress
          /\ Session(c, o.key, o.index) \in Admissions
          /\ client[c].state = "CONNECTED" =>
                o.key = client[c].key /\ o.index = client[c].index
    /\ responder' \in [Clients -> [Responders -> ResponderThreads]]
    /\ \A x \in Clients, r \in Responders : responder'[x][r].key \in HeldKeys
    /\ network' \subseteq network \cup sent
    /\ \A d \in sent : ClientDatagram(d)'

LEMMA ClientStepKeepsInv ==
    ASSUME GInv, NEW c \in Clients, NEW o, NEW sent, ClientStep(c, o, sent),
           UNCHANGED <<serverVars, admitted, serverInbox>>, dataSent \subseteq dataSent'
    PROVE  GInv'
<1>1. Grows /\ serverKeyPairs' = serverKeyPairs /\ Admissions' = Admissions
  BY DEF Grows, GInv, HostOK, IInv, ServerTypeOK, serverVars, Admissions
<1>2. NetworkOK'
  BY <1>1, NetworkStays DEF ClientStep, GInv
<1>3. HostOK'
  <2>1. IInv'
    BY UnchangedKeepsInv DEF GInv, HostOK
  <2>2. GeneratedPairs' = GeneratedPairs
    BY <1>1 DEF GeneratedPairs
  <2>. QED
    BY <1>1, <2>1, <2>2 DEF GInv, HostOK, Pending, Seated, serverVars, serverTables
<1>4. ClientsOK'
  <2>1. ClientTypeOK'
    BY DEF ClientStep, GInv, ClientsOK, ClientTypeOK
  <2>2. ASSUME NEW x \in Clients PROVE ClientOK(x)'
    <3>1. client'[x] = IF x = c THEN o ELSE client[x]
      BY DEF ClientStep, GInv, ClientsOK, ClientTypeOK
    <3>2. \A r \in Responders : responder'[x][r].key \in HeldKeys'
      BY <1>1, KeysGrow DEF ClientStep
    <3>3. CASE x = c
      BY <1>1, <3>1, <3>2, <3>3, KeysGrow DEF ClientStep, ClientOK
    <3>4. CASE x # c
      BY <1>1, <3>1, <3>2, <3>4, KeysGrow DEF ClientOK, GInv, ClientsOK
    <3>. QED
      BY <3>3, <3>4
  <2>. QED
    BY <2>1, <2>2 DEF ClientsOK
<1>5. HistoryOK'
  <2>1. AgreedSessions' = AgreedSessions
    BY <1>1 DEF AgreedSessions, AgreedKeys, GeneratedPairs
  <2>. QED
    BY <2>1 DEF GInv, HistoryOK, KeyAdmittedOnce, HostAttribution
<1>. QED
  BY <1>2, <1>3, <1>4, <1>5 DEF GInv

\* What the invariant says of one client.
LEMMA ClientFacts ==
    ASSUME GInv, NEW c \in Clients
    PROVE  /\ client \in [Clients -> ClientObjects] /\ client[c] \in ClientObjects
           /\ ClientOK(c)
           /\ responder \in [Clients -> [Responders -> ResponderThreads]]
           /\ \A x \in Clients, r \in Responders : responder[x][r].key \in HeldKeys
           /\ serverKeyPairs \in Nat /\ HeldKeys \subseteq Keys /\ ZeroKey \in HeldKeys
           /\ \A p \in GeneratedPairs, q \in Clients \X Nat : SharedKey(p, q) \in HeldKeys
<1>1. serverKeyPairs \in Nat
  BY DEF GInv, HostOK, IInv, ServerTypeOK
<1>. QED
  BY <1>1, HeldKeysTyped DEF GInv, ClientsOK, ClientTypeOK, ClientOK

LEMMA SameKnowledge ==
    ASSUME GInv, UNCHANGED <<serverVars, admitted>>, dataSent \subseteq dataSent'
    PROVE  /\ \A d : ClientDatagram(d) => ClientDatagram(d)'
           /\ Admissions' = Admissions
<1>. DEFINE S == dataSent'
<1>1. Admissions' = Admissions /\ HeldKeys' = HeldKeys
  BY DEF Admissions, HeldKeys, AgreedKeys, GeneratedPairs, serverVars
<1>2. ASSUME NEW d, ClientDatagram(d) PROVE ClientDatagram(d)'
  BY <1>1, <1>2 DEF ClientDatagram
<1>. QED
  BY <1>1, <1>2

\* The ten DISCONNECT datagrams: what they are, and that there is one when there is a key
\* to end the session of.
LEMMA FarewellFacts ==
    ASSUME GInv, NEW c \in Clients, NEW server \in {ServerAddress, NoAddress}
    PROVE  /\ \A d \in Farewell(c, server) : ClientDatagram(d)
           /\ client[c].state = "CONNECTED" /\ server = ServerAddress =>
                 \E d \in Farewell(c, server) :
                    /\ d.src = c /\ d.dst = ServerAddress
                    /\ d.packet = DisconnectPacket(client[c].key)
<1>1. client[c].key \in HeldKeys
  BY ClientFacts DEF ClientOK
<1>2. ASSUME NEW d \in Farewell(c, server) PROVE ClientDatagram(d)
  <2>1. /\ server = ServerAddress
        /\ \E i \in 1 .. DisconnectCopies :
              d = Datagram(c, server, DisconnectPacket(client[c].key), i)
    BY <1>2 DEF Farewell, SentTimes
  <2>. QED
    BY <1>1, <2>1 DEF ClientDatagram, Datagram
<1>3. ASSUME client[c].state = "CONNECTED", server = ServerAddress
      PROVE  \E d \in Farewell(c, server) :
                    /\ d.src = c /\ d.dst = ServerAddress
                    /\ d.packet = DisconnectPacket(client[c].key)
  <2>. DEFINE d == Datagram(c, server, DisconnectPacket(client[c].key), 1)
  <2>1. 1 \in 1 .. DisconnectCopies
    BY CopiesAssumption
  <2>2. d \in Farewell(c, server)
    BY <1>3, <2>1, AddressAssumption DEF Farewell, SentTimes
  <2>. QED
    BY <1>3, <2>2 DEF Datagram
<1>. QED
  BY <1>2, <1>3

LEMMA ConnectStep ==
    ASSUME GInv, NEW c \in Clients, Connect(c, network), UNCHANGED <<serverVars, history>>
    PROVE  \E o, sent : ClientStep(c, o, sent)
<1>. DEFINE o == [client[c] EXCEPT !.keyPair = @ + 1, !.state = "SENDING_REQUEST"]
            sent == Sent(c, ServerAddress, ConnectionRequestPacket(KeyPair(c, o.keyPair)))
<1>1. /\ o \in ClientObjects /\ o.state = "SENDING_REQUEST"
      /\ o.key = client[c].key /\ o.index = client[c].index
  <2>1. client[c] \in ClientObjects /\ client[c].keyPair + 1 \in Nat
    BY ClientFacts DEF ClientObjects
  <2>2. ASSUME NEW n \in Nat, NEW x \in ClientObjects
        PROVE  [x EXCEPT !.keyPair = n, !.state = "SENDING_REQUEST"] \in ClientObjects
    BY DEF ClientObjects, ClientStates
  <2>3. o \in ClientObjects
    BY <2>1, <2>2
  <2>. QED
    BY <2>1, <2>3 DEF ClientObjects
<1>2. client' = [client EXCEPT ![c] = o]
  BY ClientFacts DEF Connect
<1>3. network' = network \cup sent
  BY <1>2, ClientFacts DEF Connect
<1>4. \A d \in sent : ClientDatagram(d)'
  <2>1. KeyPair(c, o.keyPair) \in Clients \X Nat
    BY <1>1 DEF KeyPair, ClientObjects
  <2>. HIDE DEF o
  <2>. QED
    BY <2>1 DEF Sent, Datagram, ClientDatagram
<1>. HIDE DEF o, sent
<1>5. ClientStep(c, o, sent)
  BY <1>1, <1>2, <1>3, <1>4, ClientFacts DEF ClientStep, ClientOK, Connect
<1>. QED
  BY <1>5

LEMMA DisconnectedFacts ==
    ASSUME GInv, NEW c \in Clients, NEW object \in ClientObjects
    PROVE  /\ Disconnected(object) \in ClientObjects
           /\ Disconnected(object).state = "DISCONNECTED"
           /\ Disconnected(object).key \in HeldKeys
           /\ Disconnected(object).index = object.index
<1>1. ZeroKey \in HeldKeys /\ ZeroKey \in Keys
  BY ClientFacts
<1>. QED
  BY <1>1 DEF Disconnected, ClientObjects, ClientStates

\* SendDisconnect, and Listen when the client times out, leave in the same way.
LEMMA GoodbyeStep ==
    ASSUME GInv, NEW c \in Clients, UNCHANGED <<serverVars, admitted>>,
           dataSent \subseteq dataSent', UNCHANGED responder,
           NEW object \in ClientObjects, object.index = client[c].index,
           client[c].state = "CONNECTED" => object.server = ServerAddress,
           client' = [client EXCEPT ![c] = Disconnected(object)],
           NEW rest, rest \subseteq network,
           network' = rest \cup Farewell(c, object.server)
    PROVE  \E o, sent : ClientStep(c, o, sent)
<1>. DEFINE o == Disconnected(object)
            sent == Farewell(c, object.server)
<1>0. object.server \in {ServerAddress, NoAddress}
  BY DEF ClientObjects
<1>1. \A d \in sent : ClientDatagram(d)'
  BY <1>0, FarewellFacts, SameKnowledge
<1>3. network' \subseteq network \cup sent
  OBVIOUS
<1>4. /\ o \in ClientObjects /\ o.state = "DISCONNECTED" /\ o.key \in HeldKeys
      /\ o.index = client[c].index /\ client' = [client EXCEPT ![c] = o]
  BY DisconnectedFacts
<1>. HIDE DEF o, sent
<1>5. ClientStep(c, o, sent)
  BY <1>1, <1>3, <1>4, ClientFacts DEF ClientStep, ClientOK
<1>. QED
  BY <1>5

LEMMA SendDisconnectStep ==
    ASSUME GInv, NEW c \in Clients, SendDisconnect(c, network), UNCHANGED <<serverVars, history>>
    PROVE  \E o, sent : ClientStep(c, o, sent)
<1>1. client[c].state = "CONNECTED" => client[c].server = ServerAddress
  BY ClientFacts DEF ClientOK
<1>2. client' = [client EXCEPT ![c] = Disconnected(client[c])]
  BY DEF SendDisconnect
<1>3. /\ network' = network \cup Farewell(c, client[c].server)
      /\ UNCHANGED responder
  BY DEF SendDisconnect
<1>. QED
  BY <1>1, <1>2, <1>3, ClientFacts, GoodbyeStep DEF history

LEMMA SetActiveTimeoutStep ==
    ASSUME GInv, NEW c \in Clients, NEW value \in BOOLEAN, SetActiveTimeout(c, value, network)
    PROVE  \E o, sent : ClientStep(c, o, sent)
<1>. DEFINE o == [client[c] EXCEPT !.activeTimeout = value]
<1>1. /\ o \in ClientObjects /\ o.state = client[c].state /\ o.server = client[c].server
      /\ o.key = client[c].key /\ o.index = client[c].index
  BY ClientFacts DEF ClientObjects
<1>2. client' = [client EXCEPT ![c] = o] /\ network' = network /\ UNCHANGED responder
  BY ClientFacts DEF SetActiveTimeout
<1>. HIDE DEF o
<1>5. ClientStep(c, o, {})
  BY <1>1, <1>2, ClientFacts DEF ClientStep, ClientOK
<1>. QED
  BY <1>5

LEMMA DestroyStep ==
    ASSUME GInv, NEW c \in Clients, ClientDestroy(c, network), UNCHANGED <<serverVars, history>>
    PROVE  \E o, sent : ClientStep(c, o, sent)
<1>. DEFINE o == [NewClient EXCEPT !.alive = FALSE, !.keyPair = client[c].keyPair]
            sent == IF client[c].state = "CONNECTED" THEN Farewell(c, client[c].server) ELSE {}
<1>1. /\ o \in ClientObjects /\ o.state = "DISCONNECTED" /\ o.key \in HeldKeys
      /\ o.index \in Slots \cup {-1}
  <2>1. ZeroKey \in HeldKeys /\ ZeroKey \in Keys /\ 0 \in SeqNumbers
    BY ClientFacts, SeqModulusAssumption DEF SeqNumbers
  <2>2. NewClient \in ClientObjects
    BY <2>1 DEF ClientObjects, NewClient, ClientStates
  <2>3. client[c].keyPair \in Nat
    BY ClientFacts DEF ClientObjects
  <2>4. o \in ClientObjects
    BY <2>2, <2>3 DEF ClientObjects
  <2>5. o.state = "DISCONNECTED" /\ o.key = ZeroKey /\ o.index = -1
    BY DEF NewClient
  <2>. QED
    BY <2>1, <2>4, <2>5
<1>2. /\ client' = [client EXCEPT ![c] = o] /\ network' = network \cup sent
      /\ UNCHANGED responder
  BY DEF ClientDestroy
<1>3. client[c].server \in {ServerAddress, NoAddress}
  BY ClientFacts DEF ClientObjects
<1>4. \A d \in sent : ClientDatagram(d)'
  BY <1>3, FarewellFacts, SameKnowledge DEF history
<1>. HIDE DEF o, sent
<1>6. ClientStep(c, o, sent)
  BY <1>1, <1>2, <1>4, ClientFacts DEF ClientStep, ClientOK
<1>. QED
  BY <1>6

\* A client whose object changes in nothing that a session depends on.
LEMMA SameSession ==
    ASSUME GInv, NEW c \in Clients, NEW o \in ClientObjects,
           client' = [client EXCEPT ![c] = o],
           o.key = client[c].key, o.index = client[c].index,
           o.state = "CONNECTED" => client[c].state = "CONNECTED" /\ o.server = ServerAddress,
           responder' \in [Clients -> [Responders -> ResponderThreads]],
           \A x \in Clients, r \in Responders : responder'[x][r].key \in HeldKeys,
           NEW sent, network' \subseteq network \cup sent,
           \A d \in sent : ClientDatagram(d)'
    PROVE  ClientStep(c, o, sent)
BY ClientFacts DEF ClientStep, ClientOK

LEMMA RespondersTyped ==
    ASSUME GInv, NEW c \in Clients, NEW r \in Responders,
           NEW next \in ResponderThreads, next.key \in HeldKeys,
           responder' = [responder EXCEPT ![c][r] = next]
    PROVE  /\ responder' \in [Clients -> [Responders -> ResponderThreads]]
           /\ \A x \in Clients, q \in Responders : responder'[x][q].key \in HeldKeys
<1>1. responder' \in [Clients -> [Responders -> ResponderThreads]]
  BY ClientFacts
<1>2. ASSUME NEW x \in Clients, NEW q \in Responders
      PROVE  responder'[x][q] = IF x = c /\ q = r THEN next ELSE responder[x][q]
  BY ClientFacts
<1>. QED
  BY <1>1, <1>2, ClientFacts

LEMMA SameClient ==
    ASSUME GInv, NEW c \in Clients, UNCHANGED client
    PROVE  client' = [client EXCEPT ![c] = client[c]]
BY ClientFacts

LEMMA RespondWriteStep ==
    ASSUME GInv, NEW c \in Clients, NEW r \in Responders, RespondWrite(c, r, network)
    PROVE  \E o, sent : ClientStep(c, o, sent)
<1>. DEFINE next == [pc |-> "store", key |-> client[c].key]
<1>1. next \in ResponderThreads /\ next.key \in HeldKeys
  BY ClientFacts DEF ClientOK, ResponderThreads
<1>2. responder' = [responder EXCEPT ![c][r] = next] /\ network' = network /\ UNCHANGED client
  BY DEF RespondWrite, Responding
<1>. HIDE DEF next
<1>3. ClientStep(c, client[c], {})
  <2>1. /\ responder' \in [Clients -> [Responders -> ResponderThreads]]
        /\ \A x \in Clients, q \in Responders : responder'[x][q].key \in HeldKeys
    BY <1>1, <1>2, RespondersTyped
  <2>. QED
    BY <1>2, <2>1, SameClient, SameSession, ClientFacts DEF ClientOK
<1>. QED
  BY <1>3

LEMMA RespondStoreStep ==
    ASSUME GInv, NEW c \in Clients, NEW r \in Responders, RespondStore(c, r, network)
    PROVE  \E o, sent : ClientStep(c, o, sent)
<1>. DEFINE next == [responder[c][r] EXCEPT !.pc = "send"]
            o    == [client[c] EXCEPT !.state = "SENDING_CHALLENGE_RESPONSE"]
<1>1. next \in ResponderThreads /\ next.key \in HeldKeys
  <2>1. responder[c][r] \in ResponderThreads /\ responder[c][r].key \in HeldKeys
    BY ClientFacts
  <2>. QED
    BY <2>1 DEF ResponderThreads
<1>2. /\ responder' = [responder EXCEPT ![c][r] = next] /\ network' = network
      /\ client' = [client EXCEPT ![c] = o]
  BY ClientFacts DEF RespondStore, Responding
<1>3. o \in ClientObjects /\ o.state = "SENDING_CHALLENGE_RESPONSE"
      /\ o.key = client[c].key /\ o.index = client[c].index
  <2>1. client[c] \in ClientObjects
    BY ClientFacts
  <2>. QED
    BY <2>1 DEF ClientObjects, ClientStates
<1>. HIDE DEF next, o
<1>4. ClientStep(c, o, {})
  <2>1. /\ responder' \in [Clients -> [Responders -> ResponderThreads]]
        /\ \A x \in Clients, q \in Responders : responder'[x][q].key \in HeldKeys
    BY <1>1, <1>2, RespondersTyped
  <2>. QED
    BY <1>2, <1>3, <2>1, SameSession
<1>. QED
  BY <1>4

LEMMA RespondSendStep ==
    ASSUME GInv, NEW c \in Clients, NEW r \in Responders, RespondSend(c, r, network),
           UNCHANGED <<serverVars, history>>
    PROVE  \E o, sent : ClientStep(c, o, sent)
<1>. DEFINE sent == Sent(c, client[c].server, ChallengeResponsePacket(responder[c][r].key))
<1>1. IdleResponder \in ResponderThreads /\ IdleResponder.key \in HeldKeys
  BY ClientFacts DEF ResponderThreads, IdleResponder
<1>2. /\ responder' = [responder EXCEPT ![c][r] = IdleResponder]
      /\ network' = network \cup sent /\ UNCHANGED client
  BY DEF RespondSend, Responding
<1>3. \A d \in sent : ClientDatagram(d)'
  <2>1. client[c].server \in {ServerAddress, NoAddress}
    BY ClientFacts DEF ClientObjects
  <2>2. responder[c][r].key \in HeldKeys
    BY ClientFacts
  <2>3. \A d \in sent : ClientDatagram(d)
    BY <2>1, <2>2 DEF Sent, Datagram, ClientDatagram
  <2>. QED
    BY <2>3, SameKnowledge DEF history
<1>. HIDE DEF sent
<1>4. ClientStep(c, client[c], sent)
  <2>1. /\ responder' \in [Clients -> [Responders -> ResponderThreads]]
        /\ \A x \in Clients, q \in Responders : responder'[x][q].key \in HeldKeys
    BY <1>1, <1>2, RespondersTyped
  <2>. QED
    BY <1>2, <1>3, <2>1, SameClient, SameSession, ClientFacts DEF ClientOK
<1>. QED
  BY <1>4

LEMMA SendGameDataStep ==
    ASSUME GInv, NEW c \in Clients, ClientSendsData(c)
    PROVE  /\ \E o, sent : ClientStep(c, o, sent)
           /\ dataSent \subseteq dataSent'
           /\ Session(c, client[c].key, client[c].index) \in Joined
           /\ \E n \in SeqNumbers : dataSent' = dataSent \cup
                 {Message(Session(c, client[c].key, client[c].index), n)}
<1>. DEFINE n    == NextSequence(client[c].sequence)
            o    == [client[c] EXCEPT !.sequence = n]
            e    == Session(c, client[c].key, client[c].index)
            sent == Sent(c, client[c].server, ConnectionDataPacket(client[c].key, n))
<1>1. n \in SeqNumbers
  <2>1. client[c].sequence \in SeqNumbers
    BY ClientFacts DEF ClientObjects
  <2>. QED
    BY <2>1, SeqModulusAssumption DEF SeqNumbers, NextSequence
<1>2. /\ client[c].state = "CONNECTED" /\ client' = [client EXCEPT ![c] = o]
      /\ UNCHANGED responder
  BY ClientFacts DEF ClientSendsData, SendGameData
<1>3. client'[c].sequence = n /\ network' = network \cup sent
  BY <1>2, ClientFacts DEF ClientSendsData, SendGameData, ClientObjects
<1>4. dataSent' = dataSent \cup {Message(e, n)}
  BY <1>3 DEF ClientSendsData, Message, Session
<1>5. e \in Admissions /\ e \in Joined
  BY <1>2, ClientFacts DEF ClientOK, Joined
<1>6. \A d \in sent : ClientDatagram(d)'
  <2>1. client[c].server = ServerAddress
    BY <1>2, ClientFacts DEF ClientOK
  <2>2. Admissions' = Admissions
    BY DEF ClientSendsData, Admissions
  <2>3. e.key = client[c].key
    BY DEF Session
  <2>. HIDE DEF n, e
  <2>4. ASSUME NEW d \in sent PROVE ClientDatagram(d)'
    <3>1. d.src = c /\ d.dst = ServerAddress /\ d.packet = ConnectionDataPacket(e.key, n)
      BY <2>1, <2>3, <2>4 DEF Sent, Datagram
    <3>. QED
      BY <1>1, <1>4, <1>5, <2>2, <3>1 DEF ClientDatagram
  <2>. QED
    BY <2>4
<1>7. o \in ClientObjects /\ o.state = client[c].state /\ o.server = client[c].server
      /\ o.key = client[c].key /\ o.index = client[c].index
  <2>1. client[c] \in ClientObjects
    BY ClientFacts
  <2>. HIDE DEF n
  <2>. QED
    BY <1>1, <2>1 DEF ClientObjects
<1>. HIDE DEF n, o, sent
<1>8. ClientStep(c, o, sent)
  BY <1>2, <1>3, <1>6, <1>7, SameSession, ClientFacts DEF ClientOK
<1>. QED
  BY <1>1, <1>4, <1>5, <1>8

LEMMA RestFacts ==
    ASSUME NEW d
    PROVE  AfterReceive(d) \subseteq network
BY DEF AfterReceive

\* Listen: a datagram for a client is one of the server's, whatever it makes of it.
LEMMA ListenStep ==
    ASSUME GInv, NEW c \in Clients, NEW d \in network,
           ClientListen(c, d, AfterReceive(d)),
           UNCHANGED <<serverVars, admitted, dataSent>>
    PROVE  \E o, sent : ClientStep(c, o, sent)
<1>. DEFINE object == [client[c] EXCEPT !.server = d.src]
            type   == VerifyPacket(object, d.packet)
<1>1. d.dst = c /\ d.src = ServerAddress /\ ServerDatagram(d)
  BY AddressAssumption DEF ClientListen, GInv, NetworkOK, ClientDatagram, ServerDatagram
<1>2. /\ object \in ClientObjects /\ object.server = ServerAddress
      /\ object.state = client[c].state /\ object.key = client[c].key
      /\ object.index = client[c].index /\ object.keyPair = client[c].keyPair
      /\ object.ack = client[c].ack
  <2>1. client[c] \in ClientObjects
    BY ClientFacts
  <2>. QED
    BY <1>1, <2>1 DEF ClientObjects
<1>3. AfterReceive(d) \subseteq network
  BY RestFacts
<1>4. /\ type \in {"CHALLENGE", "CONNECTION_ACCEPTED", "CONNECTION_DATA", "DISCONNECT",
                   "INVALID_PACKET"}
      /\ type = "CHALLENGE" => d.packet.publicKey \in GeneratedPairs
      /\ type = "CONNECTION_ACCEPTED" =>
            /\ Session(c, client[c].key, d.packet.clientID) \in Admissions
            /\ d.packet.clientID \in Slots
      /\ type = "CONNECTION_DATA" => d.packet.sequence \in SeqNumbers
  BY <1>1, <1>2, ServerPacketFacts DEF GInv, VerifyPacket
<1>. HIDE DEF object, type
<1>5. ASSUME HandleChallenge(c, object, d.packet.publicKey), type = "CHALLENGE",
             network' = AfterReceive(d)
      PROVE  \E o, sent : ClientStep(c, o, sent)
  <2>. DEFINE k == SharedKey(d.packet.publicKey, KeyPair(c, object.keyPair))
              o == [object EXCEPT !.key = k]
  <2>1. k \in HeldKeys /\ k \in Keys
    <3>1. KeyPair(c, object.keyPair) \in Clients \X Nat
      BY <1>2 DEF KeyPair, ClientObjects
    <3>. QED
      BY <1>4, <1>5, <3>1, ClientFacts
  <2>2. client' = [client EXCEPT ![c] = o] /\ object.state = "SENDING_REQUEST"
    BY <1>5 DEF HandleChallenge
  <2>. HIDE DEF k
  <2>3. /\ o \in ClientObjects /\ o.state = "SENDING_REQUEST" /\ o.key \in HeldKeys
        /\ o.index = client[c].index
    BY <1>2, <2>1, <2>2 DEF ClientObjects
  <2>. HIDE DEF o
  <2>4. PICK r \in Responders : responder' = [responder EXCEPT ![c][r].pc = "write"]
    BY <1>5 DEF HandleChallenge
  <2>5. /\ responder' \in [Clients -> [Responders -> ResponderThreads]]
        /\ \A x \in Clients, q \in Responders : responder'[x][q].key \in HeldKeys
    <3>. DEFINE next == [responder[c][r] EXCEPT !.pc = "write"]
    <3>1. responder[c][r] \in ResponderThreads /\ responder[c][r].key \in HeldKeys
      BY ClientFacts
    <3>2. next \in ResponderThreads /\ next.key \in HeldKeys
      BY <3>1 DEF ResponderThreads
    <3>3. responder' = [responder EXCEPT ![c][r] = next]
      BY <2>4
    <3>. HIDE DEF next
    <3>. QED
      BY <3>2, <3>3, RespondersTyped
  <2>6. ClientStep(c, o, {})
    BY <1>2, <1>3, <1>5, <2>2, <2>3, <2>5, ClientFacts DEF ClientStep, ClientOK
  <2>. QED
    BY <2>6
<1>6. ASSUME HandleAccepted(c, object, d.packet.clientID), type = "CONNECTION_ACCEPTED",
             network' = AfterReceive(d)
      PROVE  \E o, sent : ClientStep(c, o, sent)
  <2>. DEFINE o == [object EXCEPT !.index = d.packet.clientID, !.state = "CONNECTED"]
  <2>1. d.packet.clientID \in Slots /\ d.packet.clientID \in Int
    BY <1>4, <1>6 DEF Slots
  <2>2. /\ o \in ClientObjects /\ o.state = "CONNECTED" /\ o.key = client[c].key
        /\ o.index = d.packet.clientID /\ o.server = ServerAddress
    BY <1>2, <2>1 DEF ClientObjects, ClientStates
  <2>3. /\ client' = [client EXCEPT ![c] = o] /\ UNCHANGED responder
        /\ object.state = "SENDING_CHALLENGE_RESPONSE"
    BY <1>6 DEF HandleAccepted
  <2>. HIDE DEF o
  <2>4. ClientStep(c, o, {})
    BY <1>2, <1>3, <1>4, <1>6, <2>1, <2>2, <2>3, ClientFacts DEF ClientStep, ClientOK
  <2>. QED
    BY <2>4
<1>7. ASSUME HandleData(c, object, d.packet), type = "CONNECTION_DATA",
             network' = AfterReceive(d)
      PROVE  \E o, sent : ClientStep(c, o, sent)
  <2>. DEFINE o == IF SequenceGreaterThan(d.packet.sequence, object.ack)
                   THEN [object EXCEPT !.ack = d.packet.sequence] ELSE object
  <2>1. /\ o \in ClientObjects /\ o.state = client[c].state /\ o.key = client[c].key
        /\ o.index = client[c].index /\ o.server = ServerAddress
    BY <1>2, <1>4, <1>7 DEF ClientObjects
  <2>2. client' = [client EXCEPT ![c] = o] /\ UNCHANGED responder
    BY <1>7 DEF HandleData
  <2>. HIDE DEF o
  <2>3. ClientStep(c, o, {})
    BY <1>3, <1>7, <2>1, <2>2, SameSession, ClientFacts
  <2>. QED
    BY <2>3
<1>8. ASSUME HandleDisconnect(c, object), network' = AfterReceive(d),
             \/ type = "DISCONNECT"
             \/ type = "CONNECTION_DATA" /\ object.state # "CONNECTED"
      PROVE  \E o, sent : ClientStep(c, o, sent)
  <2>. DEFINE o == Disconnected(object)
  <2>1. /\ o \in ClientObjects /\ o.state = "DISCONNECTED" /\ o.key \in HeldKeys
        /\ o.index = client[c].index
    BY <1>2, DisconnectedFacts
  <2>2. client' = [client EXCEPT ![c] = o] /\ UNCHANGED responder
    BY <1>8 DEF HandleDisconnect
  <2>. HIDE DEF o
  <2>4. ClientStep(c, o, {})
    BY <1>3, <1>8, <2>1, <2>2, ClientFacts DEF ClientStep, ClientOK
  <2>. QED
    BY <2>4
<1>9. ASSUME client' = [client EXCEPT ![c] = object], UNCHANGED responder,
             network' = AfterReceive(d)
      PROVE  \E o, sent : ClientStep(c, o, sent)
  <2>1. ClientStep(c, object, {})
    BY <1>2, <1>3, <1>9, SameSession, ClientFacts
  <2>. QED
    BY <2>1
<1>10. ASSUME TimeOut(c, object, AfterReceive(d)), UNCHANGED responder
       PROVE  \E o, sent : ClientStep(c, o, sent)
  <2>1. /\ network' = AfterReceive(d) \cup Farewell(c, object.server)
        /\ client' = [client EXCEPT ![c] = Disconnected(object)]
    BY <1>10 DEF TimeOut
  <2>. QED
    BY <1>2, <1>3, <1>10, <2>1, GoodbyeStep
<1>. QED
  BY <1>5, <1>6, <1>7, <1>8, <1>9, <1>10 DEF ClientListen, object, type

LEMMA ListenIdleStep ==
    ASSUME GInv, NEW c \in Clients, ClientListenIdle(c, network), UNCHANGED <<serverVars, history>>
    PROVE  \E o, sent : ClientStep(c, o, sent)
<1>1. /\ network' = network \cup Farewell(c, client[c].server)
      /\ client' = [client EXCEPT ![c] = Disconnected(client[c])]
      /\ UNCHANGED responder
  BY DEF ClientListenIdle, TimeOut
<1>2. client[c].state = "CONNECTED" => client[c].server = ServerAddress
  BY ClientFacts DEF ClientOK
<1>. QED
  BY <1>1, <1>2, ClientFacts, GoodbyeStep DEF history

------------------------------------------------------------------------------
(* The server's steps *)

\* A client's datagram is one that ServerLemmas allows it, and is sealed with a key that
\* the client may hold, if with any.
LEMMA ClientPacketFacts ==
    ASSUME GInv, NEW d, ClientDatagram(d)
    PROVE  /\ d.packet \in ClientPackets
           /\ VerifyPacketCRC(d.packet) = "CONNECTION_REQUEST" =>
                 d.packet.publicKey \in Clients \X Nat
           /\ \A k : VerifyPacketHMAC(k, d.packet) # "INVALID_PACKET" => k \in HeldKeys
           /\ \A k : VerifyPacketHMAC(k, d.packet) = "CONNECTION_DATA" =>
                 \E e \in Admissions :
                    /\ e.key = k /\ d.packet.sequence \in SeqNumbers
                    /\ Message(e, d.packet.sequence) \in dataSent
<1>. USE SealFacts DEF VerifyPacketCRC, VerifyPacketHMAC
<1>0. serverKeyPairs \in Nat
  BY DEF GInv, HostOK, IInv, ServerTypeOK
<1>1. HeldKeys \subseteq Keys /\ AgreedKeys \subseteq HeldKeys
  BY <1>0, HeldKeysTyped DEF HeldKeys
<1>2. CASE \E pk \in Clients \X Nat : d.packet = ConnectionRequestPacket(pk)
  <2>1. d.packet \in ClientPackets
    BY <1>2 DEF ClientPackets
  <2>. QED
    BY <1>2, <2>1 DEF ConnectionRequestPacket
<1>3. CASE \E k \in HeldKeys : d.packet \in {ChallengeResponsePacket(k), DisconnectPacket(k)}
  <2>1. d.packet \in ClientPackets
    BY <1>1, <1>3 DEF ClientPackets
  <2>. QED
    BY <1>3, <2>1 DEF ChallengeResponsePacket, DisconnectPacket
<1>4. CASE \E e \in Admissions, n \in SeqNumbers :
              d.packet = ConnectionDataPacket(e.key, n) /\ Message(e, n) \in dataSent
  <2>1. PICK e \in Admissions, n \in SeqNumbers :
              d.packet = ConnectionDataPacket(e.key, n) /\ Message(e, n) \in dataSent
    BY <1>4
  <2>2. e.key \in HeldKeys
    BY <1>1, AdmissionsTyped DEF GInv, AgreedSessions
  <2>3. d.packet \in ClientPackets
    BY <1>1, <2>1, <2>2 DEF ClientPackets
  <2>4. /\ d.packet.type = "CONNECTION_DATA" /\ d.packet.seal = HMAC(e.key)
        /\ d.packet.sequence = n
    BY <2>1 DEF ConnectionDataPacket
  <2>. QED
    BY <2>1, <2>2, <2>3, <2>4
<1>. QED
  BY <1>2, <1>3, <1>4 DEF ClientDatagram

\* The three things an operation of the server may do to its tables: nothing new, a
\* handshake begun, a client admitted.
Quiet ==
    /\ UNCHANGED serverKeyPairs
    /\ \A j \in Slots : challenged'[j] =>
          /\ challenged[j]
          /\ challenges'[j].clientAddress = challenges[j].clientAddress
          /\ challenges'[j].serverKeyPair = challenges[j].serverKeyPair
          /\ challenges'[j].clientPublicKey = challenges[j].clientPublicKey
          /\ SettledKey(challenges'[j]) = SettledKey(challenges[j])
    /\ \A i \in Slots \ {0} : connected'[i] =>
          /\ connected[i]
          /\ connections'[i].clientAddress = connections[i].clientAddress
          /\ connections'[i].sharedKey = connections[i].sharedKey

Challenges(sender, publicKey, rest) ==
    /\ serverKeyPairs' = serverKeyPairs + 1
    /\ \A j \in Slots : challenged'[j] =>
          /\ challenges'[j].clientAddress = sender
          /\ challenges'[j].serverKeyPair = KeyPair(ServerAddress, serverKeyPairs)
          /\ challenges'[j].clientPublicKey = publicKey
          /\ SettledKey(challenges'[j]) \in KeyTaskResults(challenges'[j])
    /\ network' = rest \cup Sent(ServerAddress, sender,
                     ChallengePacket(KeyPair(ServerAddress, serverKeyPairs)))
    /\ UNCHANGED <<connected, connections>>

Admits(i, j, sender, rest) ==
    LET k == SettledKey(challenges[j])
    IN  /\ ~connected[i] /\ challenged[j]
        /\ k \in HeldKeys
        /\ connected' = [connected EXCEPT ![i] = TRUE]
        /\ connections' = [connections EXCEPT ![i] = ConnectionInfo(sender, k)]
        /\ \A m \in Slots : ~challenged'[m]
        /\ network' = rest \cup Sent(ServerAddress, sender, ConnectionAcceptedPacket(k, i))
        /\ UNCHANGED serverKeyPairs

LEMMA SettledTableIsQuiet ==
    ASSUME IInv, NEW table, SameHandshakes(table), challenges' = table,
           UNCHANGED <<connected, connections, challenged, serverKeyPairs>>
    PROVE  Quiet
BY DEF Quiet, SameHandshakes

LEMMA RemoveIsQuiet ==
    ASSUME IInv, NEW table, SameHandshakes(table), NEW address,
           RemoveClient(address, table), UNCHANGED serverKeyPairs
    PROVE  Quiet
<1>1. 1 \in Slots
  BY ServerAssumption DEF Slots
<1>2. CASE ForgetConnection(1) /\ challenges' = table /\ UNCHANGED challenged
  BY <1>1, <1>2 DEF ForgetConnection, Quiet, SameHandshakes, IInv, ServerTypeOK
<1>3. CASE ForgetChallenge(1, table) /\ UNCHANGED <<connected, connections, numConnections>>
  BY <1>1, <1>3 DEF ForgetChallenge, Quiet, SameHandshakes, IInv, ServerTypeOK
<1>. QED
  BY <1>2, <1>3 DEF RemoveClient, AsInt

\* HandleChallengeResponse, when the response was sealed with the handshake's key.
LEMMA ResponseIsAdmission ==
    ASSUME IInv, serverUp, NEW sender \in Clients, NEW rest, NEW table, SameHandshakes(table),
           UNCHANGED serverKeyPairs,
           HandleChallengeResponse(sender, table, rest),
           \A j \in Slots : challenged[j] /\ challenges[j].clientAddress = sender =>
               SettledKey(challenges[j]) \in HeldKeys
    PROVE  \/ Quiet /\ network' = rest /\ connected' = connected
           \/ \E i \in Slots \ {0}, j \in Slots : Admits(i, j, sender, rest)
<1>1. CASE ~ (FindExistingChallengeIndex(sender) >= 0 /\ FindFreeConnectionIndex > -1)
  BY <1>1, SettledTableIsQuiet DEF HandleChallengeResponse
<1>2. CASE FindExistingChallengeIndex(sender) >= 0 /\ FindFreeConnectionIndex > -1
  <2>1. PICK i \in Slots \ {0}, j \in Slots :
            LET new == ConnectionInfo(sender, SettledKey(challenges[j]))
            IN  /\ ~connected[i] /\ challenged[j]
                /\ challenges[j].clientAddress = sender
                /\ new \in ConnectionInfos
                /\ connected' = [connected EXCEPT ![i] = TRUE]
                /\ connections' = [connections EXCEPT ![i] = new]
                /\ numConnections' = numConnections + 1
                /\ ForgetChallenge(j, table)
    BY <1>2, ResponseEffect
  <2>2. \A m \in Slots : ~challenged'[m]
    <3>1. \A m \in Slots : challenged[m] => m = 1
      BY DEF IInv, PendingHandshakeRemovable, AsInt
    <3>. QED
      BY <2>1, <3>1 DEF ForgetChallenge, IInv, ServerTypeOK
  <2>3. \E f \in Slots : /\ connected' = [connected EXCEPT ![f] = TRUE]
                         /\ ~connected[f]
                         /\ \E k : /\ connections' = [connections EXCEPT ![f] = k]
                                   /\ network' = rest \cup Sent(ServerAddress, sender,
                                         ConnectionAcceptedPacket(k.sharedKey, f))
    <3>. DEFINE jj == FindExistingChallengeIndex(sender)
                f  == FindFreeConnectionIndex
                ch == Settle(table[jj])
                k  == ConnectionInfo(ch.clientAddress, ch.sharedKey)
    <3>1. jj >= 0 /\ f > -1 /\ ~(jj < 0 \/ f = -1)
      BY <1>2, ChallengeLookup, FreeLookup, ServerAssumption DEF Slots
    <3>2. f \in Slots /\ ~connected[f]
      BY <3>1, FreeLookup
    <3>3. k.sharedKey = ch.sharedKey
      BY DEF ConnectionInfo
    <3>4. /\ connected' = [connected EXCEPT ![f] = TRUE]
          /\ connections' = [connections EXCEPT ![f] = k]
          /\ network' = rest \cup Sent(ServerAddress, sender,
                           ConnectionAcceptedPacket(ch.sharedKey, f))
      BY <3>1 DEF HandleChallengeResponse
    <3>. HIDE DEF f, k, ch
    <3>. QED
      BY <3>2, <3>3, <3>4
  <2>. DEFINE new == ConnectionInfo(sender, SettledKey(challenges[j]))
  <2>4. network' = rest \cup Sent(ServerAddress, sender,
                      ConnectionAcceptedPacket(SettledKey(challenges[j]), i))
    <3>1. PICK f \in Slots : /\ connected' = [connected EXCEPT ![f] = TRUE]
                         /\ ~connected[f]
                         /\ \E k : /\ connections' = [connections EXCEPT ![f] = k]
                                   /\ network' = rest \cup Sent(ServerAddress, sender,
                                         ConnectionAcceptedPacket(k.sharedKey, f))
      BY <2>3
    <3>2. PICK k : /\ connections' = [connections EXCEPT ![f] = k]
                   /\ network' = rest \cup Sent(ServerAddress, sender,
                                         ConnectionAcceptedPacket(k.sharedKey, f))
      BY <3>1
    <3>3. connected'[f] /\ connected'[i] /\ f = i
      BY <2>1, <3>1 DEF IInv, ServerTypeOK
    <3>4. connections'[i] = k /\ connections'[i] = new
      <4>. HIDE DEF new
      <4>1. connections' = [connections EXCEPT ![i] = new]
        BY <2>1 DEF new
      <4>. QED
        BY <4>1, <3>2, <3>3 DEF IInv, ServerTypeOK
    <3>5. k.sharedKey = SettledKey(challenges[j])
      BY <3>4 DEF ConnectionInfo
    <3>. QED
      BY <3>2, <3>3, <3>5
  <2>5. Admits(i, j, sender, rest)
    BY <2>1, <2>2, <2>4 DEF Admits
  <2>. QED
    BY <2>5
<1>. QED
  BY <1>1, <1>2

LEMMA DispatchOutcome ==
    ASSUME IInv, serverUp, NEW packetType, packetType # "CONNECTION_REQUEST",
           NEW d, d.src \in Clients, NEW rest, NEW table, SameHandshakes(table),
           packetType # "INVALID_PACKET" =>
              \A j \in Slots : challenged[j] /\ challenges[j].clientAddress = d.src =>
                  SettledKey(challenges[j]) \in HeldKeys,
           Dispatch(packetType, d, table, rest)
    PROVE  /\ \/ Quiet /\ network' = rest /\ \A i \in Slots : connected'[i] => connected[i]
              \/ \E i \in Slots \ {0}, j \in Slots : Admits(i, j, d.src, rest)
           /\ packetType = "CONNECTION_DATA" => UNCHANGED <<connected, connections>>
<1>1. CASE /\ packetType = "CHALLENGE_RESPONSE"
           /\ HandleChallengeResponse(d.src, table, rest)
           /\ UNCHANGED serverKeyPairs
  BY <1>1, ResponseIsAdmission
<1>2. CASE /\ packetType = "DISCONNECT"
           /\ RemoveClient(d.src, table)
           /\ network' = rest
           /\ UNCHANGED serverKeyPairs
  <2>1. Quiet
    BY <1>2, RemoveIsQuiet
  <2>2. 1 \in Slots
    BY ServerAssumption DEF Slots
  <2>3. UNCHANGED connected \/ connected' = [connected EXCEPT ![1] = FALSE]
    BY <1>2 DEF RemoveClient, AsInt, ForgetConnection
  <2>4. \A i \in Slots : connected'[i] => connected[i]
    BY <2>2, <2>3 DEF IInv, ServerTypeOK
  <2>. QED
    BY <1>2, <2>1, <2>4
<1>3. CASE /\ challenges' = table
           /\ network' = rest
           /\ UNCHANGED <<connected, connections, challenged, numConnections, serverKeyPairs>>
  BY <1>3, SettledTableIsQuiet
<1>. QED
  BY <1>1, <1>2, <1>3 DEF Dispatch

\* One call of Listen.
LEMMA ListenOutcome ==
    ASSUME GInv, NEW d, ClientDatagram(d), NEW rest, ServerListen(d, rest)
    PROVE  /\ \/ Quiet /\ network' = rest /\ \A i \in Slots : connected'[i] => connected[i]
              \/ \E pk \in Clients \X Nat : Challenges(d.src, pk, rest)
              \/ \E i \in Slots \ {0}, j \in Slots : Admits(i, j, d.src, rest)
           /\ HandsGameData(d) => UNCHANGED <<connected, connections>>
<1>. DEFINE c == d.src
<1>1. /\ IInv /\ serverUp /\ c \in Clients
      /\ SameHandshakes(challenges)
      /\ d.packet \in ClientPackets
  BY SettledTable, ClientPacketFacts
     DEF GInv, HostOK, IInv, FreedSlotsBlank, ServerListen, ClientDatagram
<1>2. ASSUME ListenToConnected(d, rest)
      PROVE  /\ \/ Quiet /\ network' = rest /\ \A i \in Slots : connected'[i] => connected[i]
                \/ \E i \in Slots \ {0}, j \in Slots : Admits(i, j, c, rest)
             /\ HandsGameData(d) => UNCHANGED <<connected, connections>>
  <2>. DEFINE i == FindExistingConnectionIndex(c)
              t == VerifyPacketHMAC(connections[i].sharedKey, d.packet)
  <2>1. i > 0 /\ Dispatch(t, d, challenges, rest)
    BY <1>2 DEF ListenToConnected
  <2>2. i \in Slots /\ connected[i] /\ connections[i].clientAddress = c
    BY <2>1, ConnectionLookup
  <2>3. \A j \in Slots : ~ (challenged[j] /\ challenges[j].clientAddress = c)
    BY <1>1, <2>2 DEF IInv, OneEntryPerAddress
  <2>4. t # "CONNECTION_REQUEST"
    BY <1>1, SealedIsNoRequest
  <2>5. HandsGameData(d) => t = "CONNECTION_DATA"
    BY DEF HandsGameData
  <2>. HIDE DEF t
  <2>. QED
    BY <1>1, <2>1, <2>3, <2>4, <2>5, DispatchOutcome
<1>3. ASSUME ListenToStranger(d, rest)
      PROVE  /\ \/ Quiet /\ network' = rest /\ \A i \in Slots : connected'[i] => connected[i]
                \/ \E pk \in Clients \X Nat : Challenges(c, pk, rest)
             /\ ~ HandsGameData(d)
  <2>0. /\ FindExistingChallengeIndex(c) < 0
        /\ FindExistingConnectionIndex(c) <= 0
    BY <1>3 DEF ListenToStranger
  <2>1. ~ HandsGameData(d)
    <3>1. ~ (FindExistingConnectionIndex(c) > 0)
      BY <2>0, ConnectionLookup, ServerAssumption DEF Slots
    <3>. QED
      BY <3>1 DEF HandsGameData
  <2>2. CASE /\ VerifyPacketCRC(d.packet) = "CONNECTION_REQUEST"
             /\ HandleConnectionRequest(c, d.packet.publicKey, challenges, rest)
    <3>. DEFINE pk    == d.packet.publicKey
                fresh == Fresh(c, pk)
    <3>1. pk \in Clients \X Nat
      BY <2>2, ClientPacketFacts
    <3>2. PICK k \in KeyTaskResults(fresh) :
             challenges' = [challenges EXCEPT ![1] = [fresh EXCEPT !.future = {k}]]
      BY <1>1, <2>0, <2>2, RequestEffect DEF IInv
    <3>3. /\ challenged' = [challenged EXCEPT ![1] = TRUE]
          /\ serverKeyPairs' = serverKeyPairs + 1
          /\ network' = rest \cup Sent(ServerAddress, c,
                            ChallengePacket(KeyPair(ServerAddress, serverKeyPairs)))
          /\ UNCHANGED <<connected, connections, numConnections>>
      BY <1>1, <2>0, <2>2, RequestEffect DEF IInv
    <3>4. \A j \in Slots : challenged'[j] => j = 1
      BY <1>1, <3>3 DEF IInv, PendingHandshakeRemovable, AsInt, ServerTypeOK
    <3>5. 1 \in Slots /\ challenges'[1] = [fresh EXCEPT !.future = {k}]
      BY <1>1, <3>2, ServerAssumption DEF Slots, IInv, ServerTypeOK
    <3>6. /\ challenges'[1].clientAddress = c
          /\ challenges'[1].serverKeyPair = KeyPair(ServerAddress, serverKeyPairs)
          /\ challenges'[1].clientPublicKey = pk
          /\ SettledKey(challenges'[1]) = k
      BY <3>5 DEF Fresh, NoChallenge, SettledKey
    <3>7. KeyTaskResults(challenges'[1]) = KeyTaskResults(fresh)
      <4>1. /\ fresh.clientPublicKey = pk
            /\ fresh.serverKeyPair = KeyPair(ServerAddress, serverKeyPairs)
        BY DEF Fresh, NoChallenge
      <4>. QED
        BY <3>6, <4>1 DEF KeyTaskResults
    <3>8. Challenges(c, pk, rest)
      BY <3>2, <3>3, <3>4, <3>6, <3>7 DEF Challenges
    <3>. QED
      BY <2>1, <3>1, <3>8
  <2>3. CASE network' = rest /\ UNCHANGED <<serverTables, serverKeyPairs>>
    BY <1>1, <2>1, <2>3, SettledTableIsQuiet DEF serverTables
  <2>4. CASE /\ challenges' = challenges /\ network' = rest
             /\ UNCHANGED <<connected, connections, challenged, numConnections, serverKeyPairs>>
    BY <1>1, <2>1, <2>4, SettledTableIsQuiet
  <2>. QED
    BY <1>3, <2>2, <2>3, <2>4 DEF ListenToStranger, Dispatch
<1>4. ASSUME ListenToChallenged(d, rest)
      PROVE  /\ \/ Quiet /\ network' = rest /\ \A i \in Slots : connected'[i] => connected[i]
                \/ \E i \in Slots \ {0}, j \in Slots : Admits(i, j, c, rest)
             /\ ~ HandsGameData(d)
  <2>. DEFINE i     == FindExistingChallengeIndex(c)
              table == [challenges EXCEPT ![i] = Settle(challenges[i])]
              t     == VerifyPacketHMAC(table[i].sharedKey, d.packet)
  <2>1. /\ i >= 0 /\ Dispatch(t, d, table, rest)
        /\ FindExistingConnectionIndex(c) <= 0
    BY <1>4 DEF ListenToChallenged
  <2>2. i \in Slots /\ challenged[i] /\ challenges[i].clientAddress = c
    BY <2>1, ChallengeLookup
  <2>3. SameHandshakes(table)
    BY <1>1, <2>2, SettledTable DEF IInv, FreedSlotsBlank
  <2>4. t # "CONNECTION_REQUEST"
    BY <1>1, SealedIsNoRequest
  <2>5. table[i].sharedKey = SettledKey(challenges[i])
    BY <1>1, <2>2, SettleFacts DEF IInv, ServerTypeOK
  <2>6. t # "INVALID_PACKET" => SettledKey(challenges[i]) \in HeldKeys
    BY <2>5, ClientPacketFacts
  <2>7. \A j \in Slots : challenged[j] => j = i
    BY <1>1, <2>2 DEF IInv, PendingHandshakeRemovable
  <2>8. ~ HandsGameData(d)
    <3>1. ~ (FindExistingConnectionIndex(c) > 0)
      BY <2>1, ConnectionLookup, ServerAssumption DEF Slots
    <3>. QED
      BY <3>1 DEF HandsGameData
  <2>. HIDE DEF t, table
  <2>. QED
    BY <1>1, <2>1, <2>3, <2>4, <2>6, <2>7, <2>8, DispatchOutcome
<1>. QED
  BY <1>2, <1>3, <1>4 DEF ServerListen

LEMMA HostFacts ==
    ASSUME GInv
    PROVE  /\ serverKeyPairs \in Nat /\ IInv
           /\ connected \in [Slots -> BOOLEAN]
           /\ connections \in [Slots -> ConnectionInfos]
           /\ challenged \in [Slots -> BOOLEAN]
           /\ \A i \in Slots \ {0} : connected[i] =>
                 Session(connections[i].clientAddress, connections[i].sharedKey, i) \in Admissions
           /\ Admissions \subseteq AgreedSessions
           /\ \A e \in Admissions : e = Session(e.client, e.key, e.slot)
BY AdmissionsTyped DEF GInv, HostOK, IInv, ServerTypeOK, Seated

\* Game data was said in the session that has the slot: the key tells the session.
LEMMA DataIsAttributed ==
    ASSUME GInv, NEW d, ClientDatagram(d), HandsGameData(d)
    PROVE  LET i == FindExistingConnectionIndex(d.src)
           IN  /\ i \in Slots \ {0} /\ connected[i]
               /\ d.packet.sequence \in SeqNumbers
               /\ [key |-> connections[i].sharedKey, slot |-> i,
                   sequence |-> d.packet.sequence] \in dataSent
<1>. DEFINE i == FindExistingConnectionIndex(d.src)
            k == connections[i].sharedKey
<1>1. i \in Slots \ {0} /\ connected[i]
  BY ConnectionLookup, ServerAssumption DEF HandsGameData, Slots
<1>2. VerifyPacketHMAC(k, d.packet) = "CONNECTION_DATA"
  BY DEF HandsGameData
<1>3. PICK e \in Admissions : /\ e.key = k /\ d.packet.sequence \in SeqNumbers
                              /\ Message(e, d.packet.sequence) \in dataSent
  BY <1>2, ClientPacketFacts
<1>4. Session(connections[i].clientAddress, k, i) \in Admissions
  BY <1>1, HostFacts
<1>. DEFINE s == Session(connections[i].clientAddress, k, i)
<1>5. s.key = k /\ s.slot = i
  BY DEF Session
<1>6. e.slot = i
  <2>1. PICK m, n \in DOMAIN admitted : admitted[m] = e /\ admitted[n] = s
    BY <1>3, <1>4 DEF Admissions
  <2>2. m = n
    BY <1>3, <1>5, <2>1 DEF GInv, HistoryOK, KeyAdmittedOnce
  <2>. QED
    BY <1>5, <2>1, <2>2
<1>7. Message(e, d.packet.sequence) = [key |-> k, slot |-> i, sequence |-> d.packet.sequence]
  BY <1>3, <1>6 DEF Message
<1>. HIDE DEF i, k
<1>. QED
  BY <1>1, <1>3, <1>7 DEF i, k

\* The packets a step adds to the network, if any, are the server's.
Announces ==
    \E sent : /\ network' \subseteq network \cup sent
              /\ \A d \in sent : ServerDatagram(d)'

LEMMA AnnouncesNothing ==
    ASSUME network' \subseteq network PROVE Announces
<1>. DEFINE sent == {}
<1>1. network' \subseteq network \cup sent /\ \A d \in sent : ServerDatagram(d)'
  OBVIOUS
<1>. HIDE DEF sent
<1>. QED
  BY <1>1 DEF Announces

LEMMA QuietKeepsInv ==
    ASSUME GInv, IInv', Quiet, UNCHANGED <<clientVars, admitted, dataSent>>, HostAttribution',
           Announces
    PROVE  GInv'
<1>. PICK sent : network' \subseteq network \cup sent /\ \A d \in sent : ServerDatagram(d)'
  BY DEF Announces
<1>1. Grows /\ serverKeyPairs' = serverKeyPairs /\ Admissions' = Admissions
  BY HostFacts DEF Grows, Quiet, Admissions
<1>2. NetworkOK' /\ ClientsOK'
  BY <1>1, NetworkStays, ClientsStay DEF GInv
<1>3. GeneratedPairs' = GeneratedPairs /\ AgreedSessions' = AgreedSessions
  BY <1>1 DEF GeneratedPairs, AgreedSessions, AgreedKeys
<1>4. HistoryOK'
  BY <1>3 DEF GInv, HistoryOK, KeyAdmittedOnce
<1>5. \A j \in Slots : challenged'[j] => Pending(j)'
  BY <1>1, <1>3 DEF GInv, HostOK, Quiet, Pending, KeyTaskResults
<1>6. Seated' \subseteq Admissions'
  <2>1. \A i \in Slots \ {0} : connected'[i] =>
           Session(connections'[i].clientAddress, connections'[i].sharedKey, i) \in Admissions'
    BY <1>1, HostFacts DEF Quiet
  <2>. QED
    BY <2>1 DEF Seated
<1>. QED
  BY <1>2, <1>4, <1>5, <1>6 DEF GInv, HostOK

\* A handshake begins with a pair of its own.
LEMMA ChallengesKeepsInv ==
    ASSUME GInv, IInv', UNCHANGED <<clientVars, admitted, dataSent>>, HostAttribution',
           NEW sender \in Clients, NEW pk \in Clients \X Nat,
           NEW rest, rest \subseteq network, Challenges(sender, pk, rest)
    PROVE  GInv'
<1>. DEFINE fresh == KeyPair(ServerAddress, serverKeyPairs)
            sent  == Sent(ServerAddress, sender, ChallengePacket(fresh))
<1>1. /\ serverKeyPairs' = serverKeyPairs + 1 /\ serverKeyPairs \in Nat
      /\ Admissions' = Admissions
  BY HostFacts DEF Challenges, Admissions
<1>2. Grows
  BY <1>1 DEF Grows
<1>3. fresh \in GeneratedPairs'
  <2>1. serverKeyPairs \in 0 .. serverKeyPairs + 1 - 1
    BY <1>1
  <2>2. serverKeyPairs \in (0 .. serverKeyPairs - 1)'
    BY <1>1, <2>1
  <2>. QED
    BY <2>2 DEF GeneratedPairs
<1>4. NetworkOK' /\ ClientsOK'
  <2>1. network' \subseteq network \cup sent
    BY DEF Challenges
  <2>2. \A d \in sent : ServerDatagram(d)'
    <3>. HIDE DEF fresh
    <3>. QED
      BY <1>3 DEF Sent, Datagram, ServerDatagram
  <2>. QED
    BY <1>2, <2>1, <2>2, NetworkStays, ClientsStay DEF GInv
<1>5. HistoryOK'
  <2>1. AgreedSessions \subseteq AgreedSessions'
    BY <1>2, KeysGrow DEF AgreedSessions
  <2>2. admitted' \in Seq(AgreedSessions')
    <3>1. admitted \in Seq(AgreedSessions)
      BY DEF GInv, HistoryOK
    <3>. HIDE DEF AgreedSessions
    <3>. QED
      BY <2>1, <3>1
  <2>. QED
    BY <2>2 DEF GInv, HistoryOK, KeyAdmittedOnce
<1>6. ASSUME NEW j \in Slots, challenged'[j] PROVE Pending(j)'
  <2>1. /\ challenges'[j].clientAddress = sender
        /\ challenges'[j].serverKeyPair = fresh
        /\ challenges'[j].clientPublicKey = pk
        /\ SettledKey(challenges'[j]) \in KeyTaskResults(challenges'[j])
    BY <1>6 DEF Challenges
  <2>2. \A e \in Admissions : fresh \notin e.key
    BY <1>1, HostFacts, AgreedKeyFacts DEF AgreedSessions
  <2>. HIDE DEF fresh
  <2>. QED
    BY <1>1, <1>3, <2>1, <2>2 DEF Pending
<1>7. Seated' \subseteq Admissions'
  BY <1>1 DEF Challenges, Seated, GInv, HostOK
<1>. QED
  BY <1>4, <1>5, <1>6, <1>7 DEF GInv, HostOK

\* A client is admitted with a key that nobody was admitted with.
LEMMA AdmittedKeyIsNew ==
    ASSUME GInv, NEW i \in Slots \ {0}, NEW j \in Slots, NEW sender, NEW rest,
           Admits(i, j, sender, rest)
    PROVE  /\ SettledKey(challenges[j]) \in AgreedKeys
           /\ challenges[j].serverKeyPair \in SettledKey(challenges[j])
           /\ \A e \in Admissions : e.key # SettledKey(challenges[j])
<1>. DEFINE k == SettledKey(challenges[j])
<1>1. /\ k \in HeldKeys /\ k \in KeyTaskResults(challenges[j])
      /\ challenges[j].serverKeyPair \in GeneratedPairs
      /\ \A e \in Admissions : challenges[j].serverKeyPair \notin e.key
  BY DEF Admits, GInv, HostOK, Pending
<1>2. k = SharedKey(challenges[j].clientPublicKey, challenges[j].serverKeyPair)
  <2>1. k \in GarbageKeys => k # ZeroKey /\ k \notin AgreedKeys
    BY HostFacts, AgreedKeyFacts, GarbageAssumption
  <2>. QED
    BY <1>1, <2>1 DEF KeyTaskResults, HeldKeys
<1>3. challenges[j].serverKeyPair \in k
  BY <1>2 DEF SharedKey
<1>4. k # ZeroKey
  BY <1>3 DEF ZeroKey
<1>. HIDE DEF k
<1>. QED
  BY <1>1, <1>3, <1>4 DEF HeldKeys, k

LEMMA AdmissionRecorded ==
    ASSUME NEW S, admitted \in Seq(S), NEW e \in S, admitted' = Append(admitted, e)
    PROVE  /\ admitted' \in Seq(S)
           /\ Admissions' = Admissions \cup {e}
           /\ KeyAdmittedOnce /\ (\A x \in Admissions : x.key # e.key) => KeyAdmittedOnce'
<1>1. /\ admitted' \in Seq(S)
      /\ DOMAIN admitted' = DOMAIN admitted \cup {Len(admitted) + 1}
      /\ \A n \in DOMAIN admitted : admitted'[n] = admitted[n]
      /\ admitted'[Len(admitted) + 1] = e
      /\ Len(admitted) + 1 \notin DOMAIN admitted
  BY AppendFacts
<1>2. Admissions' = Admissions \cup {e}
  BY <1>1 DEF Admissions
<1>3. ASSUME KeyAdmittedOnce, \A x \in Admissions : x.key # e.key PROVE KeyAdmittedOnce'
  BY <1>1, <1>3 DEF KeyAdmittedOnce, Admissions
<1>. QED
  BY <1>1, <1>2, <1>3

LEMMA AdmitsKeepsInv ==
    ASSUME GInv, IInv', UNCHANGED <<clientVars, dataSent, serverInbox>>,
           NEW i \in Slots \ {0}, NEW j \in Slots, NEW sender \in Clients,
           NEW rest, rest \subseteq network, Admits(i, j, sender, rest),
           admitted' = Append(admitted, Session(sender, SettledKey(challenges[j]), i))
    PROVE  GInv'
<1>. DEFINE k    == SettledKey(challenges[j])
            e    == Session(sender, k, i)
            sent == Sent(ServerAddress, sender, ConnectionAcceptedPacket(k, i))
<1>1. k \in AgreedKeys /\ \A x \in Admissions : x.key # k
  BY AdmittedKeyIsNew
<1>2. e.key = k /\ e.slot = i /\ e.client = sender /\ e \in AgreedSessions
  BY <1>1 DEF Session, AgreedSessions
<1>3. serverKeyPairs' = serverKeyPairs /\ serverKeyPairs \in Nat
  BY HostFacts DEF Admits
<1>4. AgreedSessions' = AgreedSessions /\ GeneratedPairs' = GeneratedPairs
  BY <1>3 DEF AgreedSessions, AgreedKeys, GeneratedPairs
<1>5. /\ admitted' \in Seq(AgreedSessions)
      /\ Admissions' = Admissions \cup {e}
      /\ KeyAdmittedOnce'
  BY <1>1, <1>2, AdmissionRecorded DEF GInv, HistoryOK
<1>6. Grows
  BY <1>3, <1>5 DEF Grows
<1>. HIDE DEF k
<1>7. NetworkOK' /\ ClientsOK'
  <2>1. network' \subseteq network \cup sent
    BY DEF Admits, k
  <2>. HIDE DEF e
  <2>2. \A d \in sent : ServerDatagram(d)'
    <3>1. ASSUME NEW d \in sent
          PROVE  /\ d.src = ServerAddress /\ d.dst = sender
                 /\ d.packet = ConnectionAcceptedPacket(e.key, e.slot)
      BY <1>2, <3>1 DEF Sent, Datagram
    <3>2. e \in Admissions'
      BY <1>5
    <3>. QED
      BY <1>2, <3>1, <3>2 DEF ServerDatagram
  <2>. QED
    BY <1>6, <2>1, <2>2, NetworkStays, ClientsStay DEF GInv
<1>8. HistoryOK'
  BY <1>4, <1>5 DEF GInv, HistoryOK, HostAttribution
<1>9. \A m \in Slots : challenged'[m] => Pending(m)'
  BY DEF Admits
<1>10. Seated' \subseteq Admissions'
  <2>1. ASSUME NEW m \in Slots \ {0}, connected'[m]
        PROVE  Session(connections'[m].clientAddress, connections'[m].sharedKey, m) \in Admissions'
    <3>. DEFINE new == ConnectionInfo(sender, k)
    <3>1. new.clientAddress = sender /\ new.sharedKey = k
      BY DEF ConnectionInfo
    <3>. HIDE DEF new
    <3>2. /\ connected' = [connected EXCEPT ![i] = TRUE]
          /\ connections' = [connections EXCEPT ![i] = new]
      BY DEF Admits, k, new
    <3>3. CASE m = i
      BY <1>5, <3>1, <3>2, <3>3, HostFacts
    <3>4. CASE m # i
      <4>1. connected[m] /\ connections'[m] = connections[m]
        BY <2>1, <3>2, <3>4, HostFacts
      <4>. QED
        BY <1>5, <4>1, HostFacts
    <3>. QED
      BY <3>3, <3>4
  <2>. QED
    BY <2>1 DEF Seated
<1>. QED
  BY <1>7, <1>8, <1>9, <1>10 DEF GInv, HostOK

------------------------------------------------------------------------------
(* The steps of GameNetwork *)

\* What the host is handed in a step, in the session that has the slot.
Hears(i, n) ==
    /\ i \in Slots \ {0} /\ connected[i] /\ n \in SeqNumbers
    /\ LET e == Session(connections[i].clientAddress, connections[i].sharedKey, i)
       IN  Message(e, n) \in dataSent /\ serverInbox' = serverInbox \cup {Message(e, n)}
    /\ UNCHANGED <<connected, connections>>

\* What one call of Server::Listen does, the history included.
LEMMA ServerReceivesOutcome ==
    ASSUME GInv, NEW d \in network, ServerReceives(d)
    PROVE  /\ IInv' /\ d.src \in Clients /\ AfterReceive(d) \subseteq network
           /\ UNCHANGED <<clientVars, dataSent, clientInbox>>
           /\ \/ /\ Quiet /\ network' = AfterReceive(d) /\ UNCHANGED admitted
                 /\ UNCHANGED serverInbox \/ \E i, n : Hears(i, n)
              \/ /\ \E pk \in Clients \X Nat : Challenges(d.src, pk, AfterReceive(d))
                 /\ UNCHANGED admitted
                 /\ UNCHANGED serverInbox \/ \E i, n : Hears(i, n)
              \/ /\ \E i \in Slots \ {0}, j \in Slots :
                       /\ Admits(i, j, d.src, AfterReceive(d))
                       /\ admitted' = Append(admitted,
                                         Session(d.src, SettledKey(challenges[j]), i))
                 /\ UNCHANGED serverInbox
<1>. DEFINE rest  == AfterReceive(d)
            new   == {i \in Slots : connected'[i] /\ ~connected[i]}
            entry == {[client |-> connections'[i].clientAddress,
                       key    |-> connections'[i].sharedKey, slot |-> i] : i \in new}
            slot  == FindExistingConnectionIndex(d.src)
            heard == [key |-> connections[slot].sharedKey, slot |-> slot,
                      sequence |-> d.packet.sequence]
<1>1. /\ ServerListen(d, rest)
      /\ admitted' = IF new = {} THEN admitted ELSE Append(admitted, CHOOSE e \in entry : TRUE)
      /\ serverInbox' = IF HandsGameData(d) THEN serverInbox \cup {heard} ELSE serverInbox
      /\ UNCHANGED <<clientVars, dataSent, clientInbox>>
  BY Zenon DEF ServerReceives
<1>2. ClientDatagram(d) /\ d.src \in Clients
  BY <1>1, AddressAssumption DEF ServerListen, GInv, NetworkOK, ClientDatagram, ServerDatagram
<1>3. IInv'
  BY <1>1, <1>2, ClientPacketFacts, HostFacts, ListenKeepsInv
<1>4. rest \subseteq network
  BY RestFacts
<1>5. /\ \/ Quiet /\ network' = rest /\ \A i \in Slots : connected'[i] => connected[i]
         \/ \E pk \in Clients \X Nat : Challenges(d.src, pk, rest)
         \/ \E i \in Slots \ {0}, j \in Slots : Admits(i, j, d.src, rest)
      /\ HandsGameData(d) => UNCHANGED <<connected, connections>>
  BY <1>1, <1>2, ListenOutcome
<1>6. UNCHANGED serverInbox \/ \E i, n : Hears(i, n)
  <2>1. ASSUME HandsGameData(d) PROVE Hears(slot, d.packet.sequence)
    <3>1. /\ slot \in Slots \ {0} /\ connected[slot] /\ d.packet.sequence \in SeqNumbers
          /\ heard \in dataSent
      BY <1>2, <2>1, DataIsAttributed
    <3>2. Message(Session(connections[slot].clientAddress, connections[slot].sharedKey, slot),
                  d.packet.sequence) = heard
      BY DEF Message, Session
    <3>3. serverInbox' = serverInbox \cup {heard} /\ UNCHANGED <<connected, connections>>
      BY <1>1, <1>5, <2>1
    <3>. HIDE DEF heard, slot
    <3>. QED
      BY <3>1, <3>2, <3>3 DEF Hears
  <2>. QED
    BY <1>1, <2>1
<1>7. CASE Quiet /\ network' = rest /\ \A i \in Slots : connected'[i] => connected[i]
  <2>1. new = {}
    BY <1>7
  <2>. QED
    BY <1>1, <1>2, <1>3, <1>4, <1>6, <1>7, <2>1
<1>8. CASE \E pk \in Clients \X Nat : Challenges(d.src, pk, rest)
  <2>1. new = {}
    BY <1>8 DEF Challenges
  <2>. QED
    BY <1>1, <1>2, <1>3, <1>4, <1>6, <1>8, <2>1
<1>9. ASSUME NEW i \in Slots \ {0}, NEW j \in Slots, Admits(i, j, d.src, rest)
      PROVE  /\ admitted' = Append(admitted, Session(d.src, SettledKey(challenges[j]), i))
             /\ UNCHANGED serverInbox
  <2>. DEFINE k  == SettledKey(challenges[j])
              cn == ConnectionInfo(d.src, k)
  <2>1. cn.clientAddress = d.src /\ cn.sharedKey = k
    BY DEF ConnectionInfo
  <2>. HIDE DEF cn
  <2>2. /\ ~connected[i]
        /\ connected' = [connected EXCEPT ![i] = TRUE]
        /\ connections' = [connections EXCEPT ![i] = cn]
    BY <1>9 DEF Admits, cn
  <2>3. connected'[i] /\ connections'[i] = cn /\ connected' # connected
    BY <2>2, HostFacts
  <2>4. new = {i}
    BY <2>2, HostFacts
  <2>5. entry = {Session(d.src, k, i)}
    BY <2>1, <2>3, <2>4 DEF Session
  <2>6. (CHOOSE e \in entry : TRUE) = Session(d.src, k, i)
    <3>. HIDE DEF entry
    <3>. QED
      BY <2>5
  <2>. QED
    BY <1>1, <1>5, <2>3, <2>4, <2>6
<1>. HIDE DEF new, entry, slot, heard
<1>10. CASE \E i \in Slots \ {0}, j \in Slots : Admits(i, j, d.src, rest)
  BY <1>1, <1>2, <1>3, <1>4, <1>9, <1>10
<1>. QED
  BY <1>5, <1>7, <1>8, <1>10

LEMMA HearingIsAttributed ==
    ASSUME GInv, UNCHANGED dataSent, UNCHANGED serverInbox \/ \E i, n : Hears(i, n)
    PROVE  HostAttribution'
BY DEF GInv, HistoryOK, HostAttribution, Hears

LEMMA ServerReceivesKeepsInv ==
    ASSUME GInv, NEW d \in network, ServerReceives(d)
    PROVE  GInv'
<1>. DEFINE rest == AfterReceive(d)
<1>1. /\ IInv' /\ d.src \in Clients /\ rest \subseteq network
      /\ UNCHANGED <<clientVars, dataSent, clientInbox>>
  BY ServerReceivesOutcome
<1>2. CASE /\ Quiet /\ network' = rest /\ UNCHANGED admitted
           /\ UNCHANGED serverInbox \/ \E i, n : Hears(i, n)
  <2>1. HostAttribution'
    BY <1>1, <1>2, HearingIsAttributed
  <2>2. Announces
    BY <1>1, <1>2, AnnouncesNothing
  <2>. QED
    BY <1>1, <1>2, <2>1, <2>2, QuietKeepsInv
<1>3. CASE /\ \E pk \in Clients \X Nat : Challenges(d.src, pk, rest)
           /\ UNCHANGED admitted
           /\ UNCHANGED serverInbox \/ \E i, n : Hears(i, n)
  <2>1. HostAttribution'
    BY <1>1, <1>3, HearingIsAttributed
  <2>. QED
    BY <1>1, <1>3, <2>1, ChallengesKeepsInv
<1>4. CASE /\ \E i \in Slots \ {0}, j \in Slots :
                 /\ Admits(i, j, d.src, rest)
                 /\ admitted' = Append(admitted, Session(d.src, SettledKey(challenges[j]), i))
           /\ UNCHANGED serverInbox
  <2>1. PICK i \in Slots \ {0}, j \in Slots :
           /\ Admits(i, j, d.src, rest)
           /\ admitted' = Append(admitted, Session(d.src, SettledKey(challenges[j]), i))
    BY <1>4
  <2>. HIDE DEF rest
  <2>. QED
    BY <1>1, <1>4, <2>1, AdmitsKeepsInv
<1>. QED
  BY <1>2, <1>3, <1>4, ServerReceivesOutcome

\* The host application's calls admit nobody.
LEMMA ServerCallsOutcome ==
    ASSUME GInv, ServerCalls
    PROVE  /\ IInv' /\ Quiet /\ UNCHANGED <<clientVars, history>>
           /\ Announces
<1>1. IInv /\ UNCHANGED <<clientVars, history>>
  BY HostFacts DEF ServerCalls
<1>2. ASSUME NEW d, ServerDatagram(d), UNCHANGED serverKeyPairs PROVE ServerDatagram(d)'
  <2>1. GeneratedPairs' = GeneratedPairs /\ Admissions' = Admissions
    BY <1>1, <1>2 DEF GeneratedPairs, Admissions, history
  <2>. QED
    BY <1>2, <2>1 DEF ServerDatagram
<1>3. ASSUME NEW i \in Slots \ {0}, connected[i]
      PROVE  connections[i].clientAddress \in Clients /\ connections[i].sharedKey \in Keys
  <2>. DEFINE e == Session(connections[i].clientAddress, connections[i].sharedKey, i)
  <2>1. e \in AgreedSessions
    BY <1>3, HostFacts
  <2>2. e.client = connections[i].clientAddress /\ e.key = connections[i].sharedKey
    BY DEF Session
  <2>3. AgreedKeys \subseteq Keys
    BY HostFacts, HeldKeysTyped
  <2>. HIDE DEF e
  <2>. QED
    BY <2>1, <2>2, <2>3 DEF AgreedSessions
<1>4. CASE PropagateGameData(network)
  <2>. DEFINE receivers == {i \in Slots : i >= 1 /\ connected[i]}
              next(i)   == NextSequence(connections[i].sequence)
              sent == UNION {Sent(ServerAddress, connections[i].clientAddress,
                        ConnectionDataPacket(connections[i].sharedKey, next(i))) : i \in receivers}
  <2>1. IInv'
    BY <1>1, <1>4, PropagateKeepsInv
  <2>2. /\ UNCHANGED <<connected, challenged, challenges, serverKeyPairs>>
        /\ network' = network \cup sent
    BY <1>4 DEF PropagateGameData
  <2>3. \A i \in Slots : /\ connections'[i].clientAddress = connections[i].clientAddress
                         /\ connections'[i].sharedKey = connections[i].sharedKey
    BY <1>4, HostFacts DEF PropagateGameData, ConnectionInfos
  <2>4. Quiet
    BY <2>2, <2>3 DEF Quiet
  <2>5. ASSUME NEW i \in receivers PROVE next(i) \in SeqNumbers /\ i \in Slots \ {0}
    BY HostFacts, SeqModulusAssumption DEF ConnectionInfos, SeqNumbers, NextSequence
  <2>6. ASSUME NEW d \in sent PROVE ServerDatagram(d)
    <3>. HIDE DEF next
    <3>1. PICK i \in receivers : d \in Sent(ServerAddress, connections[i].clientAddress,
                        ConnectionDataPacket(connections[i].sharedKey, next(i)))
      BY <2>6
    <3>2. /\ i \in Slots \ {0} /\ connected[i] /\ next(i) \in SeqNumbers
          /\ connections[i].clientAddress \in Clients /\ connections[i].sharedKey \in Keys
      BY <1>3, <2>5
    <3>3. /\ d.src = ServerAddress /\ d.dst = connections[i].clientAddress
          /\ d.packet = ConnectionDataPacket(connections[i].sharedKey, next(i))
      BY <3>1 DEF Sent, Datagram
    <3>. QED
      BY <3>2, <3>3 DEF ServerDatagram
  <2>. HIDE DEF sent
  <2>7. \A d \in sent : ServerDatagram(d)'
    BY <1>2, <2>2, <2>6
  <2>8. network' \subseteq network \cup sent
    BY <2>2
  <2>9. Announces
    BY <2>7, <2>8 DEF Announces
  <2>. QED
    BY <1>1, <2>1, <2>4, <2>9
<1>5. CASE SwitchToLobby(network) \/ SwitchToGame(network)
  <2>1. IInv'
    BY <1>1, <1>5, SwitchKeepsInv DEF SwitchToLobby, SwitchToGame
  <2>2. Quiet /\ network' = network
    BY <1>5 DEF SwitchToLobby, SwitchToGame, SwitchTo, serverTables, Quiet
  <2>3. Announces
    BY <2>2, AnnouncesNothing
  <2>. QED
    BY <1>1, <2>1, <2>2, <2>3
<1>6. CASE ServerDestroy(network)
  <2>1. IInv'
    BY <1>1, <1>6, DestroyKeepsInv
  <2>2. Quiet
    BY <1>6 DEF ServerDestroy, EmptyTables, Quiet
  <2>3. network' = network \cup KickedDatagrams /\ UNCHANGED serverKeyPairs
    BY <1>6 DEF ServerDestroy
  <2>4. ASSUME NEW d \in KickedDatagrams PROVE ServerDatagram(d)
    <3>1. \A i \in Slots : challenged[i] =>
             challenges[i].clientAddress \in Clients /\ SettledKey(challenges[i]) \in Keys
      BY HostFacts, SettleFacts DEF GInv, HostOK, Pending, IInv, ServerTypeOK
    <3>2. PICK address \in Clients, k \in Keys :
             d \in SentTimes(ServerAddress, address, DisconnectPacket(k), DisconnectCopies)
      <4>1. \A i \in Slots : i >= 1 <=> i # 0
        BY DEF Slots
      <4>2. CASE \E i \in Slots : i >= 1 /\ connected[i] /\
                    d \in SentTimes(ServerAddress, connections[i].clientAddress,
                             DisconnectPacket(connections[i].sharedKey), DisconnectCopies)
        BY <1>3, <4>1, <4>2
      <4>3. CASE \E i \in Slots : i >= 1 /\ challenged[i] /\
                    d \in SentTimes(ServerAddress, challenges[i].clientAddress,
                             DisconnectPacket(SettledKey(challenges[i])), DisconnectCopies)
        BY <3>1, <4>3
      <4>. QED
        BY <2>4, <4>2, <4>3 DEF KickedDatagrams
    <3>3. d.src = ServerAddress /\ d.dst = address /\ d.packet = DisconnectPacket(k)
      BY <3>2 DEF SentTimes, Datagram
    <3>. QED
      BY <3>2, <3>3 DEF ServerDatagram
  <2>5. /\ network' \subseteq network \cup KickedDatagrams
        /\ \A d \in KickedDatagrams : ServerDatagram(d)'
    BY <1>2, <2>3, <2>4
  <2>6. Announces
    BY <2>5 DEF Announces
  <2>. QED
    BY <1>1, <2>1, <2>2, <2>6
<1>7. CASE ServerCreate(network)
  <2>1. IInv'
    BY <1>1, <1>7, CreateKeepsInv
  <2>2. Quiet /\ network' = network
    BY <1>7 DEF ServerCreate, HostConnected, Quiet
  <2>3. Announces
    BY <2>2, AnnouncesNothing
  <2>. QED
    BY <1>1, <2>1, <2>2, <2>3
<1>. QED
  BY <1>4, <1>5, <1>6, <1>7 DEF ServerCalls

------------------------------------------------------------------------------
(* Every step *)

ClientActs(c) ==
    \/ \E d \in network : ClientReceives(c, d)
    \/ ClientCalls(c)
    \/ Responds(c)

\* What a client does by itself, calls of SendGameData aside.
LEMMA ClientActsStep ==
    ASSUME GInv, NEW c \in Clients, ClientActs(c)
    PROVE  /\ \E o, sent : ClientStep(c, o, sent)
           /\ UNCHANGED <<serverVars, admitted, dataSent, serverInbox>>
<1>1. CASE \E d \in network : ClientReceives(c, d)
  <2>1. PICK d \in network : ClientReceives(c, d)
    BY <1>1
  <2>2. /\ ClientListen(c, d, AfterReceive(d))
        /\ UNCHANGED <<serverVars, admitted, dataSent, serverInbox>>
    BY <2>1 DEF ClientReceives
  <2>. QED
    BY <2>2, ListenStep
<1>2. CASE ClientCalls(c)
  <2>1. UNCHANGED <<serverVars, history>>
    BY <1>2 DEF ClientCalls
  <2>2. \E o, sent : ClientStep(c, o, sent)
    <3>1. CASE Connect(c, network)
      BY <2>1, <3>1, ConnectStep
    <3>2. CASE SendDisconnect(c, network)
      BY <2>1, <3>2, SendDisconnectStep
    <3>3. CASE \E value \in BOOLEAN : SetActiveTimeout(c, value, network)
      BY <2>1, <3>3, SetActiveTimeoutStep
    <3>4. CASE ClientListenIdle(c, network)
      BY <2>1, <3>4, ListenIdleStep
    <3>5. CASE ClientDestroy(c, network)
      BY <2>1, <3>5, DestroyStep
    <3>. QED
      BY <1>2, <3>1, <3>2, <3>3, <3>4, <3>5 DEF ClientCalls
  <2>. QED
    BY <2>1, <2>2 DEF history
<1>3. CASE Responds(c)
  <2>1. UNCHANGED <<serverVars, history>>
    BY <1>3 DEF Responds
  <2>2. PICK r \in Responders : \/ RespondWrite(c, r, network)
                                \/ RespondStore(c, r, network)
                                \/ RespondSend(c, r, network)
    BY <1>3 DEF Responds
  <2>3. \E o, sent : ClientStep(c, o, sent)
    BY <2>1, <2>2, RespondWriteStep, RespondStoreStep, RespondSendStep
  <2>. QED
    BY <2>1, <2>3 DEF history
<1>. QED
  BY <1>1, <1>2, <1>3 DEF ClientActs

LEMMA SendsDataStep ==
    ASSUME GInv, NEW c \in Clients, ClientSendsData(c)
    PROVE  /\ \E o, sent : ClientStep(c, o, sent)
           /\ UNCHANGED <<serverVars, admitted, serverInbox>>
           /\ dataSent \subseteq dataSent'
BY SendGameDataStep DEF ClientSendsData

LEMMA DropIsQuiet ==
    ASSUME GInv, NEW d, DropAtClosedSocket(d)
    PROVE  /\ IInv' /\ Quiet /\ Announces
           /\ UNCHANGED <<clientVars, serverVars, history>>
<1>1. network' \subseteq network /\ UNCHANGED <<clientVars, serverVars, history>>
  BY RestFacts DEF DropAtClosedSocket
<1>2. IInv'
  BY <1>1, HostFacts, UnchangedKeepsInv
<1>3. Quiet
  BY <1>1 DEF Quiet, serverVars, serverTables
<1>. QED
  BY <1>1, <1>2, <1>3, AnnouncesNothing

\* The five kinds of steps.
LEMMA NextKinds ==
    ASSUME Next
    PROVE  \/ \E d \in network : ServerReceives(d)
           \/ \E d \in network : DropAtClosedSocket(d)
           \/ \E c \in Clients : ClientActs(c)
           \/ \E c \in Clients : ClientSendsData(c)
           \/ ServerCalls
BY DEF Next, ClientActs

LEMMA NextKeepsInv == GInv /\ [Next]_vars => GInv'
<1>. SUFFICES ASSUME GInv, [Next]_vars PROVE GInv'
  OBVIOUS
<1>1. CASE \E d \in network : ServerReceives(d)
  BY <1>1, ServerReceivesKeepsInv
<1>2. CASE \E d \in network : DropAtClosedSocket(d)
  <2>1. /\ IInv' /\ Quiet /\ Announces
        /\ UNCHANGED <<clientVars, serverVars, history>>
    BY <1>2, DropIsQuiet
  <2>2. HostAttribution' /\ UNCHANGED <<admitted, dataSent>>
    BY <2>1, HearingIsAttributed DEF history
  <2>. QED
    BY <2>1, <2>2, QuietKeepsInv
<1>3. CASE \E c \in Clients : ClientActs(c)
  <2>1. PICK c \in Clients : ClientActs(c)
    BY <1>3
  <2>2. PICK o, sent : ClientStep(c, o, sent)
    BY <2>1, ClientActsStep
  <2>3. /\ UNCHANGED <<serverVars, admitted, serverInbox>>
        /\ dataSent \subseteq dataSent'
    BY <2>1, ClientActsStep
  <2>. QED
    BY <2>2, <2>3, ClientStepKeepsInv
<1>4. CASE \E c \in Clients : ClientSendsData(c)
  <2>1. PICK c \in Clients : ClientSendsData(c)
    BY <1>4
  <2>2. PICK o, sent : ClientStep(c, o, sent)
    BY <2>1, SendsDataStep
  <2>3. /\ UNCHANGED <<serverVars, admitted, serverInbox>>
        /\ dataSent \subseteq dataSent'
    BY <2>1, SendsDataStep
  <2>. QED
    BY <2>2, <2>3, ClientStepKeepsInv
<1>5. CASE ServerCalls
  <2>1. IInv' /\ Quiet /\ UNCHANGED <<clientVars, history>> /\ Announces
    BY <1>5, ServerCallsOutcome
  <2>2. HostAttribution' /\ UNCHANGED <<admitted, dataSent>>
    BY <2>1, HearingIsAttributed DEF history
  <2>. QED
    BY <2>1, <2>2, QuietKeepsInv
<1>6. CASE UNCHANGED vars
  <2>1. UNCHANGED <<clientVars, serverVars, history>> /\ network' \subseteq network
    BY <1>6 DEF vars
  <2>2. IInv' /\ Quiet
    BY <2>1, HostFacts, UnchangedKeepsInv DEF Quiet, serverVars, serverTables
  <2>3. HostAttribution' /\ UNCHANGED <<admitted, dataSent>>
    BY <2>1, HearingIsAttributed DEF history
  <2>. QED
    BY <2>1, <2>2, <2>3, AnnouncesNothing, QuietKeepsInv
<1>. QED
  BY <1>1, <1>2, <1>3, <1>4, <1>5, <1>6, NextKinds

LEMMA InitGInv == Init => GInv
<1>. SUFFICES ASSUME Init PROVE GInv
  OBVIOUS
<1>1. NetworkOK
  BY DEF Init, NetworkOK
<1>2. IInv /\ serverKeyPairs \in Nat
  BY InitInv DEF Init, ServerInit
<1>3. ClientsOK
  <2>1. ZeroKey \in HeldKeys /\ ZeroKey \in Keys
    BY <1>2, HeldKeysTyped
  <2>2. NewClient \in ClientObjects
    BY <2>1, SeqModulusAssumption DEF NewClient, ClientObjects, ClientStates, SeqNumbers
  <2>3. IdleResponder \in ResponderThreads
    BY <2>1 DEF IdleResponder, ResponderThreads
  <2>4. /\ client = [c \in Clients |-> NewClient]
        /\ responder = [c \in Clients |-> [r \in Responders |-> IdleResponder]]
    BY DEF Init, ClientInit
  <2>5. ClientTypeOK
    BY <2>2, <2>3, <2>4 DEF ClientTypeOK
  <2>6. ASSUME NEW c \in Clients PROVE ClientOK(c)
    BY <2>1, <2>4 DEF ClientOK, NewClient, IdleResponder
  <2>. QED
    BY <2>5, <2>6 DEF ClientsOK
<1>4. HostOK
  <2>1. \A j \in Slots : ~challenged[j] /\ (connected[j] <=> j = 0)
    BY DEF Init, ServerInit, HostConnected
  <2>. QED
    BY <1>2, <2>1 DEF HostOK, Seated
<1>5. HistoryOK
  BY DEF Init, HistoryOK, KeyAdmittedOnce, HostAttribution
<1>. QED
  BY <1>1, <1>3, <1>4, <1>5 DEF GInv

------------------------------------------------------------------------------
(* The theorems *)

\* The inductive invariant holds in every reachable state of the whole system.
THEOREM GameNetworkInvariant == Spec => []GInv
BY InitGInv, NextKeepsInv, PTL DEF Spec

\* Both ends, the network and the history keep their types, with every index a slot's.
THEOREM GameNetworkTypeCorrect == Spec => []TypeOK
<1>1. GInv => TypeOK
  <2>. SUFFICES ASSUME GInv PROVE TypeOK
    OBVIOUS
  <2>1. ClientTypeOK /\ ServerTypeOK /\ serverKeyPairs \in Nat
    BY DEF GInv, ClientsOK, HostOK, IInv, ServerTypeOK
  <2>2. \A c \in Clients : client[c].index \in Slots \cup {-1}
    BY DEF GInv, ClientsOK, ClientOK
  <2>3. ASSUME NEW d \in network
        PROVE  /\ d.src \in Clients \cup {ServerAddress}
               /\ d.dst \in Clients \cup {ServerAddress}
               /\ IsSeal(d.packet.seal)
    <3>1. IsSeal(CRC) /\ \A k \in Keys : IsSeal(HMAC(k))
      BY SealFacts DEF IsSeal
    <3>2. HeldKeys \subseteq Keys
      BY <2>1, HeldKeysTyped
    <3>3. CASE ClientDatagram(d)
      <4>1. d.packet.seal = CRC \/ \E k \in HeldKeys : d.packet.seal = HMAC(k)
        <5>1. \A pk : ConnectionRequestPacket(pk).seal = CRC
          BY DEF ConnectionRequestPacket
        <5>2. \A k, n : /\ ChallengeResponsePacket(k).seal = HMAC(k)
                        /\ DisconnectPacket(k).seal = HMAC(k)
                        /\ ConnectionDataPacket(k, n).seal = HMAC(k)
          BY DEF ChallengeResponsePacket, DisconnectPacket, ConnectionDataPacket
        <5>3. \A e \in Admissions : e.key \in HeldKeys
          BY HostFacts DEF AgreedSessions, HeldKeys
        <5>. QED
          BY <3>3, <5>1, <5>2, <5>3 DEF ClientDatagram
      <4>. QED
        BY <3>1, <3>2, <3>3, <4>1 DEF ClientDatagram
    <3>4. CASE ServerDatagram(d)
      <4>1. AgreedKeys \subseteq Keys
        BY <2>1, HeldKeysTyped
      <4>2. d.packet.seal = CRC \/ \E k \in Keys : d.packet.seal = HMAC(k)
        <5>1. \A pk : ChallengePacket(pk).seal = CRC
          BY DEF ChallengePacket
        <5>2. \A k, n : /\ ConnectionAcceptedPacket(k, n).seal = HMAC(k)
                        /\ DisconnectPacket(k).seal = HMAC(k)
                        /\ ConnectionDataPacket(k, n).seal = HMAC(k)
          BY DEF ConnectionAcceptedPacket, DisconnectPacket, ConnectionDataPacket
        <5>3. \A e \in Admissions : e.key \in Keys
          BY <4>1, HostFacts DEF AgreedSessions
        <5>. QED
          BY <3>4, <5>1, <5>2, <5>3 DEF ServerDatagram
      <4>. QED
        BY <3>1, <3>4, <4>2 DEF ServerDatagram
    <3>. QED
      BY <3>3, <3>4 DEF GInv, NetworkOK
  <2>. QED
    BY <2>1, <2>2, <2>3 DEF TypeOK
<1>. QED
  BY <1>1, GameNetworkInvariant, PTL

\* Whatever the network does, and however handshakes overlap: a client that believes to be
\* connected was admitted with its key under its index.
THEOREM ConnectedClientsAreAdmitted == Spec => []ConnectedIsAdmitted
<1>1. GInv => ConnectedIsAdmitted
  <2>. SUFFICES ASSUME GInv, NEW c \in Clients, client[c].state = "CONNECTED"
                PROVE  \E i \in DOMAIN admitted : admitted[i] =
                          [client |-> c, key |-> client[c].key, slot |-> client[c].index]
    BY DEF ConnectedIsAdmitted
  <2>1. Session(c, client[c].key, client[c].index) \in Admissions
    BY ClientFacts DEF ClientOK
  <2>. QED
    BY <2>1 DEF Admissions, Session
<1>. QED
  BY <1>1, GameNetworkInvariant, PTL

\* No key is admitted a second time.
THEOREM KeysAreAdmittedOnce == Spec => []KeyAdmittedOnce
<1>1. GInv => KeyAdmittedOnce
  BY DEF GInv, HistoryOK
<1>. QED
  BY <1>1, GameNetworkInvariant, PTL

\* What the host is handed under a slot was sent in that slot's session.
THEOREM HostAttributesData == Spec => []HostAttribution
<1>1. GInv => HostAttribution
  BY DEF GInv, HistoryOK
<1>. QED
  BY <1>1, GameNetworkInvariant, PTL

\* The server's invariants hold in the composition too, where clients send only what
\* their own state lets them.
THEOREM ServerKeepsItsInvariant == Spec => []IInv
<1>1. GInv => IInv
  BY DEF GInv, HostOK
<1>. QED
  BY <1>1, GameNetworkInvariant, PTL

------------------------------------------------------------------------------
(* How a session ends *)

\* A host sends DISCONNECT to whoever is in its tables, and forgets the tables.  That the
\* key never comes back into them takes two more facts: it is one that the host computed, so
\* that no pair it has yet to generate is in it, and no pending handshake has a pair that is.
GivenUp(k) ==
    /\ \A i \in Slots \ {0} : connected[i] => connections[i].sharedKey # k
    /\ \A j \in Slots : challenged[j] => challenges[j].serverKeyPair \notin k

Dismissals(d) == d.src = ServerAddress /\ d.packet.type = "DISCONNECT"

DismissalsOK ==
    \A d \in network : Dismissals(d) =>
        \E k \in AgreedKeys \cup GarbageKeys : d.packet = DisconnectPacket(k) /\ GivenUp(k)

LEMMA ComputedKeyFacts ==
    ASSUME GInv, NEW k \in AgreedKeys \cup GarbageKeys
    PROVE  KeyPair(ServerAddress, serverKeyPairs) \notin k
BY HostFacts, AgreedKeyFacts, GarbageAssumption DEF KeyPair

\* A step that dismisses nobody.
LEMMA DismissalsStay ==
    ASSUME GInv, DismissalsOK, AgreedKeys \subseteq AgreedKeys',
           \A d \in network' : d \in network \/ ~Dismissals(d),
           \A k \in AgreedKeys \cup GarbageKeys : GivenUp(k) => GivenUp(k)'
    PROVE  DismissalsOK'
<1>1. ASSUME NEW d \in network', Dismissals(d)
      PROVE  \E k \in AgreedKeys' \cup GarbageKeys : d.packet = DisconnectPacket(k) /\ GivenUp(k)'
  <2>1. PICK k \in AgreedKeys \cup GarbageKeys : d.packet = DisconnectPacket(k) /\ GivenUp(k)
    BY <1>1 DEF DismissalsOK
  <2>2. GivenUp(k)'
    BY <2>1
  <2>. QED
    BY <2>1, <2>2
<1>2. \A d : Dismissals(d)' <=> Dismissals(d)
  BY DEF Dismissals
<1>. QED
  BY <1>1, <1>2 DEF DismissalsOK

LEMMA QuietKeepsDismissals ==
    ASSUME GInv, DismissalsOK, Quiet,
           \A d \in network' : d \in network \/ ~Dismissals(d)
    PROVE  DismissalsOK'
<1>1. AgreedKeys' = AgreedKeys
  BY DEF Quiet, AgreedKeys, GeneratedPairs
<1>2. ASSUME NEW k, GivenUp(k) PROVE GivenUp(k)'
  BY <1>2 DEF GivenUp, Quiet
<1>. QED
  BY <1>1, <1>2, DismissalsStay

LEMMA ServerReceivesKeepsDismissals ==
    ASSUME GInv, DismissalsOK, NEW d \in network, ServerReceives(d)
    PROVE  DismissalsOK'
<1>. DEFINE rest == AfterReceive(d)
<1>0. rest \subseteq network
  BY ServerReceivesOutcome
<1>1. CASE Quiet /\ network' = rest
  BY <1>0, <1>1, QuietKeepsDismissals
<1>2. ASSUME NEW pk \in Clients \X Nat, Challenges(d.src, pk, rest) PROVE DismissalsOK'
  <2>. DEFINE fresh == KeyPair(ServerAddress, serverKeyPairs)
  <2>1. /\ serverKeyPairs' = serverKeyPairs + 1 /\ serverKeyPairs \in Nat
        /\ UNCHANGED <<connected, connections>>
        /\ \A j \in Slots : challenged'[j] => challenges'[j].serverKeyPair = fresh
        /\ network' = rest \cup Sent(ServerAddress, d.src, ChallengePacket(fresh))
    BY <1>2, HostFacts DEF Challenges
  <2>2. \A x \in network' : x \in network \/ ~Dismissals(x)
    BY <1>0, <2>1 DEF Sent, Datagram, ChallengePacket, Dismissals
  <2>3. AgreedKeys \subseteq AgreedKeys'
    BY <2>1, PairsGrow
  <2>4. ASSUME NEW k \in AgreedKeys \cup GarbageKeys, GivenUp(k) PROVE GivenUp(k)'
    <3>1. fresh \notin k
      BY ComputedKeyFacts
    <3>. HIDE DEF fresh
    <3>. QED
      BY <2>1, <2>4, <3>1 DEF GivenUp
  <2>. QED
    BY <2>2, <2>3, <2>4, DismissalsStay
<1>3. ASSUME NEW i \in Slots \ {0}, NEW j \in Slots, Admits(i, j, d.src, rest) PROVE DismissalsOK'
  <2>. DEFINE key == SettledKey(challenges[j])
              cn  == ConnectionInfo(d.src, key)
  <2>1. cn.sharedKey = key
    BY DEF ConnectionInfo
  <2>2. /\ challenged[j] /\ challenges[j].serverKeyPair \in key
    BY <1>3, AdmittedKeyIsNew DEF Admits
  <2>3. /\ connected' = [connected EXCEPT ![i] = TRUE]
        /\ connections' = [connections EXCEPT ![i] = cn]
        /\ \A m \in Slots : ~challenged'[m]
        /\ network' = rest \cup Sent(ServerAddress, d.src, ConnectionAcceptedPacket(key, i))
        /\ UNCHANGED serverKeyPairs
    BY <1>3 DEF Admits
  <2>. HIDE DEF key, cn
  <2>4. \A x \in network' : x \in network \/ ~Dismissals(x)
    BY <1>0, <2>3 DEF Sent, Datagram, ConnectionAcceptedPacket, Dismissals
  <2>5. AgreedKeys \subseteq AgreedKeys'
    BY <2>3 DEF AgreedKeys, GeneratedPairs
  <2>6. ASSUME NEW k, GivenUp(k) PROVE GivenUp(k)'
    <3>1. key # k
      BY <2>2, <2>6 DEF GivenUp
    <3>2. \A m \in Slots \ {0} : connected'[m] =>
             \/ m = i /\ connections'[m] = cn
             \/ connected[m] /\ connections'[m] = connections[m]
      BY <2>3, HostFacts
    <3>. QED
      BY <2>1, <2>3, <2>6, <3>1, <3>2 DEF GivenUp
  <2>. QED
    BY <2>4, <2>5, <2>6, DismissalsStay
<1>. HIDE DEF rest
<1>4. \/ Quiet /\ network' = rest
      \/ \E pk \in Clients \X Nat : Challenges(d.src, pk, rest)
      \/ \E i \in Slots \ {0}, j \in Slots : Admits(i, j, d.src, rest)
  BY ServerReceivesOutcome DEF rest
<1>. QED
  BY <1>1, <1>2, <1>3, <1>4

LEMMA KickedFacts ==
    ASSUME GInv, NEW d \in KickedDatagrams
    PROVE  \E k \in AgreedKeys \cup GarbageKeys : d.packet = DisconnectPacket(k)
<1>1. ASSUME NEW i \in Slots, i >= 1, connected[i] PROVE connections[i].sharedKey \in AgreedKeys
  <2>. DEFINE e == Session(connections[i].clientAddress, connections[i].sharedKey, i)
  <2>1. i \in Slots \ {0}
    BY <1>1 DEF Slots
  <2>2. e \in AgreedSessions /\ e.key = connections[i].sharedKey
    BY <1>1, <2>1, HostFacts DEF Session
  <2>. HIDE DEF e
  <2>. QED
    BY <2>2 DEF AgreedSessions
<1>2. ASSUME NEW i \in Slots, challenged[i]
      PROVE  SettledKey(challenges[i]) \in AgreedKeys \cup GarbageKeys
  <2>1. /\ SettledKey(challenges[i]) \in KeyTaskResults(challenges[i])
        /\ challenges[i].serverKeyPair \in GeneratedPairs
        /\ challenges[i].clientPublicKey \in Clients \X Nat
    BY <1>2 DEF GInv, HostOK, Pending
  <2>2. SharedKey(challenges[i].clientPublicKey, challenges[i].serverKeyPair) \in AgreedKeys
    BY <2>1 DEF AgreedKeys, SharedKey
  <2>. QED
    BY <2>1, <2>2 DEF KeyTaskResults
<1>3. PICK k \in AgreedKeys \cup GarbageKeys :
         \E a : d \in SentTimes(ServerAddress, a, DisconnectPacket(k), DisconnectCopies)
  <2>1. CASE \E i \in Slots : i >= 1 /\ connected[i] /\
                d \in SentTimes(ServerAddress, connections[i].clientAddress,
                         DisconnectPacket(connections[i].sharedKey), DisconnectCopies)
    BY <1>1, <2>1
  <2>2. CASE \E i \in Slots : i >= 1 /\ challenged[i] /\
                d \in SentTimes(ServerAddress, challenges[i].clientAddress,
                         DisconnectPacket(SettledKey(challenges[i])), DisconnectCopies)
    BY <1>2, <2>2
  <2>. QED
    BY <2>1, <2>2 DEF KickedDatagrams
<1>. QED
  BY <1>3 DEF SentTimes, Datagram

LEMMA ServerCallsKeepDismissals ==
    ASSUME GInv, DismissalsOK, ServerCalls
    PROVE  DismissalsOK'
<1>0. Quiet
  BY ServerCallsOutcome
<1>1. CASE ServerDestroy(network)
  <2>1. /\ network' = network \cup KickedDatagrams /\ UNCHANGED serverKeyPairs
        /\ \A k : GivenUp(k)'
    BY <1>1 DEF ServerDestroy, EmptyTables, GivenUp
  <2>2. ASSUME NEW d \in network', Dismissals(d)
        PROVE  \E k \in AgreedKeys \cup GarbageKeys : d.packet = DisconnectPacket(k)
    BY <2>1, <2>2, KickedFacts DEF DismissalsOK
  <2>3. AgreedKeys' = AgreedKeys /\ \A d : Dismissals(d)' <=> Dismissals(d)
    BY <2>1 DEF AgreedKeys, GeneratedPairs, Dismissals
  <2>. QED
    BY <2>1, <2>2, <2>3 DEF DismissalsOK
<1>2. CASE PropagateGameData(network)
  <2>. DEFINE receivers == {i \in Slots : i >= 1 /\ connected[i]}
              next(i)   == NextSequence(connections[i].sequence)
              sent == UNION {Sent(ServerAddress, connections[i].clientAddress,
                        ConnectionDataPacket(connections[i].sharedKey, next(i))) : i \in receivers}
  <2>1. network' = network \cup sent
    BY <1>2 DEF PropagateGameData
  <2>2. \A d \in sent : \E a, k, n : d \in Sent(ServerAddress, a, ConnectionDataPacket(k, n))
    OBVIOUS
  <2>3. \A a, k, n : \A d \in Sent(ServerAddress, a, ConnectionDataPacket(k, n)) : ~Dismissals(d)
    BY DEF Sent, Datagram, ConnectionDataPacket, Dismissals
  <2>. HIDE DEF sent
  <2>. QED
    BY <1>0, <2>1, <2>2, <2>3, QuietKeepsDismissals
<1>3. CASE SwitchToLobby(network) \/ SwitchToGame(network) \/ ServerCreate(network)
  BY <1>0, <1>3, QuietKeepsDismissals DEF SwitchToLobby, SwitchToGame, SwitchTo, ServerCreate
<1>. QED
  BY <1>1, <1>2, <1>3 DEF ServerCalls

LEMMA ClientStepKeepsDismissals ==
    ASSUME GInv, DismissalsOK, NEW c, NEW o, NEW sent, ClientStep(c, o, sent),
           UNCHANGED serverVars
    PROVE  DismissalsOK'
<1>1. Quiet
  BY DEF Quiet, serverVars, serverTables
<1>2. ASSUME NEW d \in network' PROVE d \in network \/ ~Dismissals(d)
  <2>1. CASE d \in sent
    <3>1. ClientDatagram(d)'
      BY <2>1 DEF ClientStep
    <3>2. d.src \in Clients
      BY <3>1 DEF ClientDatagram
    <3>. QED
      BY <3>2, AddressAssumption DEF Dismissals
  <2>. QED
    BY <1>2, <2>1 DEF ClientStep
<1>. QED
  BY <1>1, <1>2, QuietKeepsDismissals

LEMMA NextKeepsDismissals == GInv /\ DismissalsOK /\ [Next]_vars => DismissalsOK'
<1>. SUFFICES ASSUME GInv, DismissalsOK, [Next]_vars PROVE DismissalsOK'
  OBVIOUS
<1>1. CASE \E d \in network : ServerReceives(d)
  BY <1>1, ServerReceivesKeepsDismissals
<1>2. CASE (\E d \in network : DropAtClosedSocket(d)) \/ UNCHANGED vars
  <2>1. Quiet /\ network' \subseteq network
    BY <1>2, RestFacts DEF DropAtClosedSocket, vars, Quiet, serverVars, serverTables
  <2>. QED
    BY <2>1, QuietKeepsDismissals
<1>3. CASE \E c \in Clients : ClientActs(c) \/ ClientSendsData(c)
  <2>1. PICK c \in Clients : ClientActs(c) \/ ClientSendsData(c)
    BY <1>3
  <2>2. /\ \E o, sent : ClientStep(c, o, sent)
        /\ UNCHANGED serverVars
    BY <2>1, ClientActsStep, SendsDataStep
  <2>. QED
    BY <2>2, ClientStepKeepsDismissals
<1>4. CASE ServerCalls
  BY <1>4, ServerCallsKeepDismissals
<1>. QED
  BY <1>1, <1>2, <1>3, <1>4, NextKinds

\* The datagram that a client's Listen receives, by what it makes the client do.
LEMMA ReceivesForReason ==
    ASSUME GInv, NEW c \in Clients, NEW d \in network, ClientReceives(c, d),
           UnderKey(c), ~(UnderKey(c)' /\ client'[c].key = client[c].key)
    PROVE  \/ Leaves(c)
           \/ d.packet = DisconnectPacket(client[c].key) /\ Dismissals(d)
           \/ DataTooEarly(c)
<1>. DEFINE object == [client[c] EXCEPT !.server = d.src]
            type   == VerifyPacket(object, d.packet)
<1>0. ClientListen(c, d, AfterReceive(d))
  BY DEF ClientReceives
<1>1. d.dst = c /\ d.src = ServerAddress /\ ServerDatagram(d)
  BY <1>0, AddressAssumption DEF ClientListen, GInv, NetworkOK, ClientDatagram, ServerDatagram
<1>2. /\ object \in ClientObjects /\ object.server = ServerAddress
      /\ object.state = client[c].state /\ object.key = client[c].key
      /\ object.activeTimeout = client[c].activeTimeout
  <2>1. client[c] \in ClientObjects
    BY ClientFacts
  <2>. QED
    BY <1>1, <2>1 DEF ClientObjects
<1>3. /\ type = VerifyPacketHMAC(client[c].key, d.packet)
      /\ type = "DISCONNECT" => d.packet = DisconnectPacket(client[c].key)
      /\ type = "CONNECTION_ACCEPTED" => d.packet.clientID \in Slots
  BY <1>1, <1>2, ServerPacketFacts DEF GInv, VerifyPacket, UnderKey
<1>4. \A o \in ClientObjects : client' = [client EXCEPT ![c] = o] => client'[c] = o
  BY ClientFacts
<1>. HIDE DEF object, type
<1>5. ~HandleChallenge(c, object, d.packet.publicKey)
  BY <1>2 DEF HandleChallenge, UnderKey
<1>6. ASSUME HandleAccepted(c, object, d.packet.clientID), type = "CONNECTION_ACCEPTED"
      PROVE  FALSE
  <2>. DEFINE o == [object EXCEPT !.index = d.packet.clientID, !.state = "CONNECTED"]
  <2>1. d.packet.clientID \in Int
    BY <1>3, <1>6 DEF Slots
  <2>2. o \in ClientObjects /\ o.state = "CONNECTED" /\ o.key = client[c].key
    BY <1>2, <2>1 DEF ClientObjects, ClientStates
  <2>3. client' = [client EXCEPT ![c] = o]
    BY <1>6 DEF HandleAccepted
  <2>. HIDE DEF o
  <2>. QED
    BY <1>4, <2>2, <2>3 DEF UnderKey
<1>7. ASSUME HandleData(c, object, d.packet), type = "CONNECTION_DATA" PROVE FALSE
  <2>. DEFINE o == IF SequenceGreaterThan(d.packet.sequence, object.ack)
                   THEN [object EXCEPT !.ack = d.packet.sequence] ELSE object
  <2>1. d.packet.sequence \in SeqNumbers
    BY <1>1, <1>3, <1>7, ServerPacketFacts DEF GInv
  <2>2. o \in ClientObjects /\ o.state = client[c].state /\ o.key = client[c].key
    BY <1>2, <2>1 DEF ClientObjects
  <2>3. client' = [client EXCEPT ![c] = o]
    BY <1>7 DEF HandleData
  <2>. HIDE DEF o
  <2>. QED
    BY <1>4, <2>2, <2>3 DEF UnderKey
<1>8. ~ (client' = [client EXCEPT ![c] = object])
  BY <1>2, <1>4 DEF UnderKey
<1>9. CASE type = "DISCONNECT"
  BY <1>1, <1>3, <1>9 DEF Dismissals, DisconnectPacket
<1>10. CASE type = "CONNECTION_DATA" /\ object.state # "CONNECTED"
  BY <1>2, <1>3, <1>10 DEF DataTooEarly, UnderKey
<1>11. CASE type = "INVALID_PACKET" /\ TimeOut(c, object, AfterReceive(d))
  <2>1. /\ client[c].activeTimeout /\ client[c].state = "CONNECTED"
        /\ network' = AfterReceive(d) \cup Farewell(c, ServerAddress)
    BY <1>2, <1>11 DEF TimeOut
  <2>2. \E x \in Farewell(c, ServerAddress) :
           x.src = c /\ x.dst = ServerAddress /\ x.packet = DisconnectPacket(client[c].key)
    BY <2>1, FarewellFacts
  <2>. QED
    BY <1>3, <1>11, <2>1, <2>2 DEF Leaves
<1>. QED
  BY <1>0, <1>5, <1>6, <1>7, <1>8, <1>9, <1>10, <1>11 DEF ClientListen, object, type

LEMMA CallsForReason ==
    ASSUME GInv, NEW c \in Clients, ClientCalls(c),
           UnderKey(c), ~(UnderKey(c)' /\ client'[c].key = client[c].key)
    PROVE  Leaves(c)
<1>1. /\ client[c] \in ClientObjects
      /\ \A o : client' = [client EXCEPT ![c] = o] => client'[c] = o
      /\ client[c].state = "CONNECTED" => client[c].server = ServerAddress
  BY ClientFacts DEF ClientOK
<1>2. client[c].state = "CONNECTED" =>
         \E d \in Farewell(c, client[c].server) :
            /\ d.src = c /\ d.dst = ServerAddress
            /\ d.packet = DisconnectPacket(client[c].key)
  BY <1>1, FarewellFacts
<1>3. ~Connect(c, network)
  BY DEF Connect, UnderKey
<1>4. ASSUME NEW value \in BOOLEAN, SetActiveTimeout(c, value, network) PROVE FALSE
  <2>1. client'[c] = [client[c] EXCEPT !.activeTimeout = value]
    BY <1>1, <1>4 DEF SetActiveTimeout
  <2>2. client'[c].state = client[c].state /\ client'[c].key = client[c].key
    BY <1>1, <2>1 DEF ClientObjects
  <2>. QED
    BY <2>2 DEF UnderKey
<1>5. CASE SendDisconnect(c, network) \/ ClientListenIdle(c, network)
  <2>1. network' = network \cup Farewell(c, client[c].server)
    BY <1>5 DEF SendDisconnect, ClientListenIdle, TimeOut
  <2>. QED
    BY <1>2, <2>1 DEF Leaves
<1>6. CASE ClientDestroy(c, network)
  <2>1. client[c].state = "CONNECTED" => network' = network \cup Farewell(c, client[c].server)
    BY <1>6 DEF ClientDestroy
  <2>. QED
    BY <1>2, <2>1 DEF Leaves
<1>. QED
  BY <1>3, <1>4, <1>5, <1>6 DEF ClientCalls

LEMMA StepEndsForReason ==
    ASSUME GInv, DismissalsOK, Next, NEW c \in Clients,
           UnderKey(c), ~(UnderKey(c)' /\ client'[c].key = client[c].key)
    PROVE  Leaves(c) \/ Dismissed(c) \/ DataTooEarly(c)
<1>0. ~ (client'[c].state = client[c].state /\ client'[c].key = client[c].key)
  BY DEF UnderKey
<1>1. ASSUME NEW x \in Clients, ClientActs(x) \/ ClientSendsData(x) PROVE x = c
  <2>1. PICK o, sent : ClientStep(x, o, sent)
    BY <1>1, ClientActsStep, SendsDataStep
  <2>2. x # c => client'[c] = client[c]
    BY <2>1, ClientFacts DEF ClientStep
  <2>. QED
    BY <1>0, <2>2
<1>2. ASSUME NEW d \in network, ClientReceives(c, d)
      PROVE  Leaves(c) \/ Dismissed(c) \/ DataTooEarly(c)
  <2>1. ASSUME d.packet = DisconnectPacket(client[c].key), Dismissals(d) PROVE Dismissed(c)
    <3>1. PICK k \in AgreedKeys \cup GarbageKeys : d.packet = DisconnectPacket(k) /\ GivenUp(k)
      BY <2>1 DEF DismissalsOK
    <3>2. k = client[c].key
      BY <2>1, <3>1, SealFacts DEF DisconnectPacket
    <3>. QED
      BY <1>2, <2>1, <3>1, <3>2 DEF Dismissed, GivenUp
  <2>. QED
    BY <1>2, <2>1, ReceivesForReason
<1>3. ASSUME ClientCalls(c) PROVE Leaves(c)
  BY <1>3, CallsForReason
<1>4. ~Responds(c)
  <2>1. ASSUME NEW r \in Responders, RespondStore(c, r, network)
        PROVE  UnderKey(c)' /\ client'[c].key = client[c].key
    <3>1. client'[c] = [client[c] EXCEPT !.state = "SENDING_CHALLENGE_RESPONSE"]
      BY <2>1, ClientFacts DEF RespondStore
    <3>2. client'[c].state = "SENDING_CHALLENGE_RESPONSE" /\ client'[c].key = client[c].key
      BY <3>1, ClientFacts DEF ClientObjects
    <3>. QED
      BY <3>2 DEF UnderKey
  <2>2. ASSUME NEW r \in Responders, RespondWrite(c, r, network) \/ RespondSend(c, r, network)
        PROVE  UNCHANGED client
    BY <2>2 DEF RespondWrite, RespondSend
  <2>. QED
    BY <1>0, <2>1, <2>2 DEF Responds
<1>5. ~ClientSendsData(c)
  <2>1. ASSUME ClientSendsData(c)
        PROVE  client'[c].state = client[c].state /\ client'[c].key = client[c].key
    BY <2>1, ClientFacts DEF ClientSendsData, SendGameData, ClientObjects
  <2>. QED
    BY <1>0, <2>1
<1>6. ~UNCHANGED client
  BY <1>0
<1>7. \E x \in Clients : ClientActs(x) \/ ClientSendsData(x)
  BY <1>6, NextKinds DEF ServerReceives, DropAtClosedSocket, ServerCalls, clientVars
<1>. QED
  BY <1>1, <1>2, <1>3, <1>4, <1>5, <1>7 DEF ClientActs

\* A client that uses a key loses it only by leaving, when the host has given the session up
\* and tells it so, or to game data that comes before it is CONNECTED: that last way out is
\* never taken from CONNECTED itself, but also after a thread has taken the session back.
THEOREM SessionsEndForReason == Spec => SessionEndsForReason
<1>. DEFINE Ends(c) ==
              UnderKey(c) /\ ~(UnderKey(c)' /\ client'[c].key = client[c].key)
              => Leaves(c) \/ Dismissed(c) \/ DataTooEarly(c)
<1>1. Init => DismissalsOK
  BY DEF Init, DismissalsOK
<1>2. GInv /\ DismissalsOK /\ [Next]_vars => [\A c \in Clients : Ends(c)]_vars
  BY StepEndsForReason
<1>. QED
  BY <1>1, <1>2, NextKeepsDismissals, GameNetworkInvariant, PTL DEF Spec, SessionEndsForReason

------------------------------------------------------------------------------
(* Host and clients implement Sessions: every step is one of its, or changes nothing that *)
(* Sessions speaks of.                                                                    *)

Unseen == UNCHANGED <<Admissions, Seated, Joined, dataSent, serverInbox>>

\* A client's step leads it into one session it was admitted to, out of the one it is in,
\* or neither.
LEMMA ClientStepPromised ==
    ASSUME GInv, NEW c \in Clients, NEW o, NEW sent, ClientStep(c, o, sent),
           UNCHANGED <<serverVars, admitted, dataSent, serverInbox>>
    PROVE  Promised!Next \/ Unseen
<1>. DEFINE s == Session(c, client[c].key, client[c].index)
            t == Session(c, o.key, o.index)
<1>1. Admissions' = Admissions /\ Seated' = Seated /\ UNCHANGED <<dataSent, serverInbox>>
  BY DEF Admissions, Seated, serverVars, serverTables
<1>2. \A x \in Clients : client'[x] = IF x = c THEN o ELSE client[x]
  BY ClientFacts DEF ClientStep
<1>3. \A u \in Joined : u.client = c => client[c].state = "CONNECTED" /\ u = s
  BY DEF Joined, Session
<1>4. s.client = c /\ t.client = c
  BY DEF Session
<1>5. CASE client[c].state = "CONNECTED" /\ o.state = "CONNECTED"
  <2>1. o.key = client[c].key /\ o.index = client[c].index
    BY <1>5 DEF ClientStep
  <2>2. Joined' = Joined
    BY <1>2, <1>5, <2>1 DEF Joined
  <2>. QED
    BY <1>1, <2>2 DEF Unseen
<1>6. CASE client[c].state # "CONNECTED" /\ o.state # "CONNECTED"
  <2>1. Joined' = Joined
    BY <1>2, <1>6 DEF Joined
  <2>. QED
    BY <1>1, <2>1 DEF Unseen
<1>7. CASE client[c].state = "CONNECTED" /\ o.state # "CONNECTED"
  <2>1. s \in Joined
    BY <1>7 DEF Joined
  <2>2. Joined' = Joined \ {s}
    <3>1. \A u : u \in Joined' <=> \E x \in Clients \ {c} : client[x].state = "CONNECTED"
                                      /\ u = Session(x, client[x].key, client[x].index)
      BY <1>2, <1>7 DEF Joined
    <3>2. \A u : u \in Joined <=> \/ u = s
                                  \/ \E x \in Clients \ {c} : client[x].state = "CONNECTED"
                                      /\ u = Session(x, client[x].key, client[x].index)
      BY <1>7 DEF Joined
    <3>3. \A x \in Clients \ {c} : Session(x, client[x].key, client[x].index) # s
      BY DEF Session
    <3>. HIDE DEF s
    <3>. QED
      BY <3>1, <3>2, <3>3
  <2>3. Promised!Leave(s)
    BY <1>1, <2>2 DEF Promised!Leave
  <2>. HIDE DEF s
  <2>. QED
    BY <2>1, <2>3 DEF Promised!Next
<1>8. CASE client[c].state # "CONNECTED" /\ o.state = "CONNECTED"
  <2>1. t \in Admissions
    BY <1>8 DEF ClientStep
  <2>2. Joined' = Joined \cup {t}
    <3>1. \A u : u \in Joined' <=> \/ u = t
                                   \/ \E x \in Clients \ {c} : client[x].state = "CONNECTED"
                                      /\ u = Session(x, client[x].key, client[x].index)
      BY <1>2, <1>8 DEF Joined
    <3>2. \A u : u \in Joined <=> \E x \in Clients \ {c} : client[x].state = "CONNECTED"
                                      /\ u = Session(x, client[x].key, client[x].index)
      BY <1>8 DEF Joined
    <3>. HIDE DEF t
    <3>. QED
      BY <3>1, <3>2
  <2>3. \A u \in Joined : u.client # t.client
    BY <1>3, <1>4, <1>8
  <2>. HIDE DEF t
  <2>4. Promised!Join(t)
    BY <1>1, <2>1, <2>2, <2>3 DEF Promised!Join
  <2>. QED
    BY <2>1, <2>4 DEF Promised!Next
<1>. QED
  BY <1>5, <1>6, <1>7, <1>8

LEMMA SendsDataPromised ==
    ASSUME GInv, NEW c \in Clients, ClientSendsData(c)
    PROVE  Promised!Next
<1>. DEFINE s == Session(c, client[c].key, client[c].index)
<1>1. PICK n \in SeqNumbers : dataSent' = dataSent \cup {Message(s, n)}
  BY SendGameDataStep
<1>2. s \in Joined
  BY SendGameDataStep
<1>3. Admissions' = Admissions /\ Seated' = Seated /\ UNCHANGED serverInbox
  BY DEF ClientSendsData, Admissions, Seated, serverVars, serverTables
<1>4. Joined' = Joined
  <2>1. client' = [client EXCEPT ![c].sequence = NextSequence(@)]
    BY DEF ClientSendsData, SendGameData
  <2>2. \A x \in Clients : /\ client'[x].state = client[x].state
                           /\ client'[x].key = client[x].key
                           /\ client'[x].index = client[x].index
    BY <2>1, ClientFacts DEF ClientObjects
  <2>. QED
    BY <2>2 DEF Joined
<1>. HIDE DEF s
<1>5. Promised!Message(s, n) = Message(s, n)
  BY DEF Promised!Message, Message
<1>6. Promised!Say(s, n)
  BY <1>1, <1>3, <1>4, <1>5 DEF Promised!Say
<1>. QED
  BY <1>2, <1>6 DEF Promised!Next

LEMMA QuietPromised ==
    ASSUME GInv, Quiet, UNCHANGED <<clientVars, admitted, dataSent, serverInbox>>
    PROVE  Promised!Next
<1>1. Seated' \subseteq Seated
  BY DEF Quiet, Seated
<1>2. Admissions' = Admissions /\ Joined' = Joined
  BY DEF Admissions, Joined, clientVars
<1>3. Promised!Vacate
  BY <1>1, <1>2 DEF Promised!Vacate
<1>. QED
  BY <1>3 DEF Promised!Next

LEMMA HearsPromised ==
    ASSUME GInv, UNCHANGED <<clientVars, admitted, dataSent>>, NEW i, NEW n, Hears(i, n)
    PROVE  Promised!Next
<1>. DEFINE s == Session(connections[i].clientAddress, connections[i].sharedKey, i)
<1>1. s \in Seated /\ n \in SeqNumbers
  BY DEF Hears, Seated
<1>2. Message(s, n) \in dataSent /\ serverInbox' = serverInbox \cup {Message(s, n)}
  BY DEF Hears
<1>3. Seated' = Seated
  BY DEF Hears, Seated
<1>4. Admissions' = Admissions /\ Joined' = Joined
  BY DEF Admissions, Joined, clientVars
<1>. HIDE DEF s
<1>5. Promised!Message(s, n) = Message(s, n)
  BY DEF Promised!Message, Message
<1>6. Promised!Hear(s, n)
  BY <1>2, <1>3, <1>4, <1>5 DEF Promised!Hear
<1>. QED
  BY <1>1, <1>6 DEF Promised!Next

\* An admission begins a session: new key, free slot, a client without another slot.
LEMMA AdmitsPromised ==
    ASSUME GInv, IInv', UNCHANGED <<clientVars, dataSent, serverInbox>>,
           NEW i \in Slots \ {0}, NEW j \in Slots, NEW sender \in Clients,
           NEW rest, Admits(i, j, sender, rest),
           admitted' = Append(admitted, Session(sender, SettledKey(challenges[j]), i))
    PROVE  Promised!Next
<1>. DEFINE k == SettledKey(challenges[j])
            s == Session(sender, k, i)
<1>1. k \in AgreedKeys /\ \A x \in Admissions : x.key # k
  BY AdmittedKeyIsNew
<1>2. AgreedKeys \subseteq Keys
  BY HostFacts, HeldKeysTyped
<1>3. s \in AgreedSessions /\ s \in Promised!SessionType
  BY <1>1, <1>2 DEF Session, AgreedSessions, Promised!SessionType
<1>4. admitted \in Seq(AgreedSessions)
  BY DEF GInv, HistoryOK
<1>5. Admissions' = Admissions \cup {s}
  <2>. HIDE DEF s
  <2>1. admitted' = Append(admitted, s)
    BY DEF s
  <2>. QED
    BY <1>3, <1>4, <2>1, AdmissionRecorded
<1>6. /\ ~connected[i]
      /\ connected' = [connected EXCEPT ![i] = TRUE]
      /\ connections' = [connections EXCEPT ![i] = ConnectionInfo(sender, k)]
  BY DEF Admits
<1>7. ConnectionInfo(sender, k).clientAddress = sender /\ ConnectionInfo(sender, k).sharedKey = k
  BY DEF ConnectionInfo
<1>8. \A m \in Slots : /\ connected'[m] = IF m = i THEN TRUE ELSE connected[m]
                       /\ connections'[m] = IF m = i THEN ConnectionInfo(sender, k) ELSE connections[m]
  BY <1>6, HostFacts
<1>. HIDE DEF k
<1>9. \A u : u \in Seated' <=>
         \E m \in Slots \ {0} : /\ connected'[m]
            /\ u = Session(connections'[m].clientAddress, connections'[m].sharedKey, m)
  BY DEF Seated
<1>10. \A u : u \in Seated <=>
         \E m \in Slots \ {0} : /\ connected[m]
            /\ u = Session(connections[m].clientAddress, connections[m].sharedKey, m)
  BY DEF Seated
<1>11. Seated' = Seated \cup {s}
  <2>1. s \in Seated'
    BY <1>7, <1>8, <1>9
  <2>2. ASSUME NEW u \in Seated PROVE u \in Seated'
    <3>1. PICK m \in Slots \ {0} : /\ connected[m]
             /\ u = Session(connections[m].clientAddress, connections[m].sharedKey, m)
      BY <1>10
    <3>2. m # i
      BY <1>6, <3>1
    <3>. QED
      BY <1>8, <1>9, <3>1, <3>2
  <2>3. ASSUME NEW u \in Seated', u # s PROVE u \in Seated
    <3>1. PICK m \in Slots \ {0} : /\ connected'[m]
             /\ u = Session(connections'[m].clientAddress, connections'[m].sharedKey, m)
      BY <1>9
    <3>2. m # i
      BY <1>7, <1>8, <2>3, <3>1
    <3>. QED
      BY <1>8, <1>10, <3>1, <3>2
  <2>. HIDE DEF s
  <2>. QED
    BY <2>1, <2>2, <2>3
<1>12. ASSUME NEW u \in Seated PROVE u.slot # s.slot /\ u.client # s.client
  <2>1. PICK m \in Slots \ {0} : /\ connected[m]
            /\ u = Session(connections[m].clientAddress, connections[m].sharedKey, m)
    BY <1>10
  <2>2. m # i
    BY <1>6, <2>1
  <2>3. connections[m].clientAddress # sender
    <3>1. OneEntryPerAddress'
      BY DEF IInv
    <3>2. /\ connected'[m] /\ connected'[i]
          /\ connections'[m] = connections[m] /\ connections'[i].clientAddress = sender
      BY <1>7, <1>8, <2>1, <2>2
    <3>. QED
      BY <2>2, <3>1, <3>2 DEF OneEntryPerAddress
  <2>. QED
    BY <2>1, <2>2, <2>3 DEF Session
<1>13. Joined' = Joined
  BY DEF Joined, clientVars
<1>14. s.key = k
  BY DEF Session
<1>. HIDE DEF s
<1>15. Promised!Admit(s)
  BY <1>1, <1>3, <1>5, <1>11, <1>12, <1>13, <1>14 DEF Promised!Admit
<1>16. s \in Admissions'
  BY <1>5
<1>. QED
  BY <1>15, <1>16 DEF Promised!Next

LEMMA ServerReceivesPromised ==
    ASSUME GInv, NEW d \in network, ServerReceives(d)
    PROVE  Promised!Next \/ Unseen
<1>1. /\ IInv' /\ d.src \in Clients
      /\ UNCHANGED <<clientVars, dataSent, clientInbox>>
  BY ServerReceivesOutcome
<1>2. CASE UNCHANGED admitted /\ \E i, n : Hears(i, n)
  BY <1>1, <1>2, HearsPromised
<1>3. CASE Quiet /\ UNCHANGED <<admitted, serverInbox>>
  BY <1>1, <1>3, QuietPromised
<1>4. CASE /\ \E pk \in Clients \X Nat : Challenges(d.src, pk, AfterReceive(d))
           /\ UNCHANGED <<admitted, serverInbox>>
  <2>1. UNCHANGED <<connected, connections, admitted, serverInbox>>
    BY <1>4 DEF Challenges
  <2>. QED
    BY <1>1, <2>1 DEF Unseen, Admissions, Seated, Joined, clientVars
<1>5. CASE /\ \E i \in Slots \ {0}, j \in Slots :
                 /\ Admits(i, j, d.src, AfterReceive(d))
                 /\ admitted' = Append(admitted, Session(d.src, SettledKey(challenges[j]), i))
           /\ UNCHANGED serverInbox
  BY <1>1, <1>5, AdmitsPromised
<1>. QED
  BY <1>2, <1>3, <1>4, <1>5, ServerReceivesOutcome

LEMMA NextPromised ==
    GInv /\ [Next]_vars => [Promised!Next]_Promised!sessionVars
<1>. SUFFICES ASSUME GInv, [Next]_vars PROVE Promised!Next \/ Unseen
  BY DEF Unseen, Promised!sessionVars
<1>1. CASE \E d \in network : ServerReceives(d)
  BY <1>1, ServerReceivesPromised
<1>2. CASE \E d \in network : DropAtClosedSocket(d)
  <2>1. Quiet /\ UNCHANGED <<clientVars, history>>
    BY <1>2, DropIsQuiet
  <2>. QED
    BY <2>1, QuietPromised DEF history
<1>3. CASE \E c \in Clients : ClientActs(c)
  <2>1. PICK c \in Clients : ClientActs(c)
    BY <1>3
  <2>2. PICK o, sent : ClientStep(c, o, sent)
    BY <2>1, ClientActsStep
  <2>. QED
    BY <2>1, <2>2, ClientActsStep, ClientStepPromised
<1>4. CASE \E c \in Clients : ClientSendsData(c)
  BY <1>4, SendsDataPromised
<1>5. CASE ServerCalls
  <2>1. Quiet /\ UNCHANGED <<clientVars, history>>
    BY <1>5, ServerCallsOutcome
  <2>. QED
    BY <2>1, QuietPromised DEF history
<1>6. CASE UNCHANGED vars
  BY <1>6 DEF vars, Unseen, Admissions, Seated, Joined, clientVars, serverVars, serverTables, history
<1>. QED
  BY <1>1, <1>2, <1>3, <1>4, <1>5, <1>6, NextKinds

\* Host and clients implement Sessions, for every number of clients, slots and messages,
\* over a network that loses, reorders and repeats.
THEOREM ImplementsSessions == Spec => SessionsSpec
<1>1. Init => Promised!Init
  <2>. SUFFICES ASSUME Init PROVE Promised!Init
    OBVIOUS
  <2>1. Admissions = {}
    BY DEF Init, Admissions
  <2>2. Seated = {}
    BY DEF Init, ServerInit, HostConnected, Seated
  <2>3. Joined = {}
    BY DEF Init, ClientInit, NewClient, Joined
  <2>. QED
    BY <2>1, <2>2, <2>3 DEF Init, Promised!Init
<1>. QED
  BY <1>1, NextPromised, GameNetworkInvariant, PTL DEF Spec, SessionsSpec, Promised!Spec

==============================================================================

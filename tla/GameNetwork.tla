----------------------------- MODULE GameNetwork -----------------------------
(***************************************************************************)
(* A host and its clients over UDP.  Both ends are those of Server and      *)
(* Client; the network is a set, so that datagrams overtake each other, and *)
(* one that is never received is a lost one.                                *)
(***************************************************************************)
EXTENDS Client, Server, Sequences

CONSTANT MayDuplicate   \* whether a datagram may arrive more than once

ASSUME NetworkAssumption == MayDuplicate \in BOOLEAN

\* What a key task makes of a stale index is no key that a client could have agreed on:
\* the key pairs it reads are not those the server generated for a handshake.
ASSUME GarbageAssumption ==
    \A k \in GarbageKeys : k # ZeroKey /\ \A p \in k : p[1] # ServerAddress

(***************************************************************************)
(* What happened so far, as far as the properties speak of it.              *)
(***************************************************************************)
VARIABLES
    admitted,     \* the admissions, in order: which client, with which key, in which slot
    dataSent,     \* the calls of SendGameData: key and m_index of the client, number
    serverInbox,  \* what Server::Listen handed over: key of the slot, slot, number
    clientInbox   \* what Client::Listen accepted: client, key, number

history == <<admitted, dataSent, serverInbox, clientInbox>>
vars    == <<clientVars, serverVars, network, history>>

Init ==
    /\ ClientInit
    /\ ServerInit
    /\ network = {}
    /\ admitted = <<>>
    /\ dataSent = {} /\ serverInbox = {} /\ clientInbox = {}

------------------------------------------------------------------------------
AfterReceive(d) == IF MayDuplicate THEN network ELSE network \ {d}

\* One call of Server::Listen that receives d.
ServerReceives(d) ==
    /\ ServerListen(d, AfterReceive(d))
    /\ LET new   == {i \in Slots : connected'[i] /\ ~connected[i]}
           entry == {[client |-> connections'[i].clientAddress,
                      key    |-> connections'[i].sharedKey, slot |-> i] : i \in new}
           slot  == FindExistingConnectionIndex(d.src)
       IN  /\ admitted' = IF new = {} THEN admitted
                          ELSE Append(admitted, CHOOSE e \in entry : TRUE)
           /\ serverInbox' = IF HandsGameData(d)
                THEN serverInbox \cup {[key      |-> connections[slot].sharedKey,
                                        slot     |-> slot,
                                        sequence |-> d.packet.sequence]}
                ELSE serverInbox
    /\ UNCHANGED <<clientVars, dataSent, clientInbox>>

\* One call of Client::Listen that receives d.
ClientReceives(c, d) ==
    /\ ClientListen(c, d, AfterReceive(d))
    /\ clientInbox' = IF IsNewData(client[c], d.packet)
          THEN clientInbox \cup {[client   |-> c,
                                  key      |-> client[c].key,
                                  sequence |-> d.packet.sequence]}
          ELSE clientInbox
    /\ UNCHANGED <<serverVars, admitted, dataSent, serverInbox>>

\* A datagram for a socket that is closed.
DropAtClosedSocket(d) ==
    /\ IF d.dst = ServerAddress THEN ~serverUp ELSE ~client[d.dst].alive
    /\ network' = AfterReceive(d)
    /\ UNCHANGED <<clientVars, serverVars, history>>

ClientSendsData(c) ==
    /\ SendGameData(c, network)
    /\ dataSent' = dataSent \cup {[key      |-> client[c].key,
                                   slot     |-> client[c].index,
                                   sequence |-> client'[c].sequence]}
    /\ UNCHANGED <<serverVars, admitted, serverInbox, clientInbox>>

ClientCalls(c) ==
    /\ \/ Connect(c, network)
       \/ SendDisconnect(c, network)
       \/ \E value \in BOOLEAN : SetActiveTimeout(c, value, network)
       \/ ClientListenIdle(c, network)
       \/ ClientDestroy(c, network)
    /\ UNCHANGED <<serverVars, history>>

Responds(c) ==
    /\ \E r \in Responders :
          \/ RespondWrite(c, r, network)
          \/ RespondStore(c, r, network)
          \/ RespondSend(c, r, network)
    /\ UNCHANGED <<serverVars, history>>

ServerCalls ==
    /\ \/ PropagateGameData(network)
       \/ SwitchToLobby(network)
       \/ SwitchToGame(network)
       \/ ServerDestroy(network)
       \/ ServerCreate(network)
    /\ UNCHANGED <<clientVars, history>>

Next ==
    \/ \E d \in network : ServerReceives(d) \/ DropAtClosedSocket(d)
    \/ \E c \in Clients :
          \/ \E d \in network : ClientReceives(c, d)
          \/ ClientSendsData(c)
          \/ ClientCalls(c)
          \/ Responds(c)
    \/ ServerCalls

Spec == Init /\ [][Next]_vars

------------------------------------------------------------------------------
(***************************************************************************)
(* Refinement: the sessions that the host has admitted, has in its table,   *)
(* and that the clients are connected in, without the host's own slot.      *)
(***************************************************************************)
Session(c, k, i) == [client |-> c, key |-> k, slot |-> i]

Admissions == {admitted[i] : i \in DOMAIN admitted}
Seated ==
    {Session(connections[i].clientAddress, connections[i].sharedKey, i) :
        i \in {j \in Slots \ {0} : connected[j]}}
Joined ==
    {Session(c, client[c].key, client[c].index) :
        c \in {x \in Clients : client[x].state = "CONNECTED"}}

Promised == INSTANCE Sessions
    WITH Seats <- Slots \ {0}, Numbers <- SeqNumbers, admissions <- Admissions,
         seated <- Seated, joined <- Joined, said <- dataSent, heard <- serverInbox

------------------------------------------------------------------------------
(* Properties *)

\* Both components' state, the network's and the history are well typed.
TypeOK ==
    /\ ClientTypeOK
    /\ ServerTypeOK
    /\ \A c \in Clients : client[c].index \in Slots \cup {-1}
    /\ \A d \in network :
          /\ d.src \in Clients \cup {ServerAddress}
          /\ d.dst \in Clients \cup {ServerAddress}
          /\ IsSeal(d.packet.seal)

\* Host and clients keep the promise of Sessions, step by step: a session is admitted once,
\* in a free slot; only its client joins it, and what the host hears in a slot was said in
\* the session that has it.
SessionsSpec == Promised!Spec

\* A client that believes to be connected was admitted by the server with the very key
\* and under the very index it now holds: no ACCEPTED packet of an earlier session, of
\* another client or of a duplicate handshake leads it to a wrong one, and no thread of
\* RespondChallenge changes the key under it.
ConnectedIsAdmitted ==
    \A c \in Clients :
        client[c].state = "CONNECTED" =>
            \E i \in DOMAIN admitted :
                admitted[i] = [client |-> c, key |-> client[c].key, slot |-> client[c].index]

\* No key is admitted twice: a delayed or repeated CHALLENGE_RESPONSE neither takes a
\* second slot nor brings a finished session back.
KeyAdmittedOnce ==
    \A i, j \in DOMAIN admitted : admitted[i].key = admitted[j].key => i = j

\* What the host is handed under a client's index was sent by the client that knows
\* itself under that index, in the session the slot belongs to.
HostAttribution == serverInbox \subseteq dataSent

\* A client has a key and uses it: its session, or the handshake that leads to one.  A second
\* RespondChallenge may take a session back to the handshake, under the same key.
UnderKey(c) ==
    /\ client[c].state \in {"SENDING_CHALLENGE_RESPONSE", "CONNECTED"}
    /\ client[c].key # ZeroKey

\* The client leaves by a call of its own, or because Listen times out.  From a session it
\* does so with a DISCONNECT to the host.
Leaves(c) ==
    /\ \/ ClientCalls(c)
       \/ /\ client[c].activeTimeout /\ client[c].state = "CONNECTED"
          /\ \E d \in network :
                /\ ClientReceives(c, d)
                /\ VerifyPacketHMAC(client[c].key, d.packet) = "INVALID_PACKET"
    /\ client[c].state = "CONNECTED" =>
          \E d \in network' :
             /\ d.src = c /\ d.dst = ServerAddress
             /\ d.packet = DisconnectPacket(client[c].key)

\* The host has told it: it receives a DISCONNECT under its key, and no slot has that key.
Dismissed(c) ==
    /\ \E d \in network : ClientReceives(c, d) /\ d.packet = DisconnectPacket(client[c].key)
    /\ \A i \in Slots \ {0} : connected[i] => connections[i].sharedKey # client[c].key

\* Game data finds it in the state before CONNECTED, and falls through to DISCONNECT.
DataTooEarly(c) ==
    /\ client[c].state = "SENDING_CHALLENGE_RESPONSE"
    /\ \E d \in network :
          /\ ClientReceives(c, d)
          /\ VerifyPacketHMAC(client[c].key, d.packet) = "CONNECTION_DATA"

\* A client that uses a key goes on using that key until one of these three ends it: while it
\* is CONNECTED, only the client itself or a host that has given up the session; lost,
\* repeated, late or foreign packets do not, nor do the threads of RespondChallenge.
SessionEndsForReason ==
    [][\A c \in Clients :
          UnderKey(c) /\ ~(UnderKey(c)' /\ client'[c].key = client[c].key)
          => Leaves(c) \/ Dismissed(c) \/ DataTooEarly(c)]_vars

\* A connected client keeps its slot until it or the host ends its session: another
\* client's DISCONNECT does not take it away.
ConnectedKeepsSlot ==
    \A c \in Clients :
        client[c].state = "CONNECTED" =>
            \E i \in Slots : connected[i] /\ connections[i].sharedKey = client[c].key

\* Listen takes a client out of its session, or out of its handshake, for a DISCONNECT
\* packet only (timeouts aside), as its log says.
DisconnectedOnlyIfTold ==
    [][\A c \in Clients : \A d \in network :
          /\ ClientReceives(c, d)
          /\ client[c].state # "DISCONNECTED" /\ client'[c].state = "DISCONNECTED"
          => d.packet.type = "DISCONNECT"]_vars

\* The first message the host propagates to a session reaches the application when it
\* arrives, as does every one later than those of the session that were handed over.
NewMessages(c) ==
    {d \in network :
        /\ d.dst = c /\ client[c].state = "CONNECTED"
        /\ VerifyPacketHMAC(client[c].key, d.packet) = "CONNECTION_DATA"
        /\ \A m \in clientInbox :
              m.client = c /\ m.key = client[c].key =>
              SequenceGreaterThan(d.packet.sequence, m.sequence)}
NewMessagesReceived ==
    [][\A c \in Clients : \A d \in NewMessages(c) :
          ClientReceives(c, d) => client'[c].ack = d.packet.sequence]_vars
==============================================================================

------------------------------- MODULE Server -------------------------------
(***************************************************************************)
(* The host of a game: Server.cpp.  A table of connections (slot 0 is the   *)
(* host itself, never a socket), a table of pending handshakes, a count of  *)
(* connections and the LOBBY/GAME switch.  Listen handles one datagram per  *)
(* call; the other operations are the host application's calls.             *)
(*                                                                          *)
(* An operation that sends takes "rest", the datagrams in flight without    *)
(* the one it consumed, and leaves rest plus what it sent in network'.      *)
(***************************************************************************)
EXTENDS Datagrams

CONSTANTS
    MAX_CLIENTS,  \* 4 in the code: slots of either table, the host's one included
    LocalHost,    \* 127.0.0.1:SERVER_PORT, the address put in slot 0
    GarbageKeys   \* what the key task yields when challIndex is gone, see KeyTaskResults

ASSUME ServerAssumption ==
    /\ MAX_CLIENTS \in Nat /\ MAX_CLIENTS >= 2
    /\ LocalHost \notin Clients \cup {NoAddress}
    /\ GarbageKeys \subseteq Keys

VARIABLES
    serverUp,        \* a Server object exists
    connected,       \* m_connected
    connections,     \* m_connections
    challenged,      \* m_challenged
    challenges,      \* m_challenges
    numConnections,  \* m_numConnections
    serverState,     \* m_state
    serverKeyPairs   \* how many key pairs the server has generated

serverTables == <<connected, connections, challenged, challenges, numConnections>>
serverVars   == <<serverUp, serverTables, serverState, serverKeyPairs>>

------------------------------------------------------------------------------
Slots     == 0 .. MAX_CLIENTS - 1
Addresses == Clients \cup {ServerAddress, NoAddress, LocalHost}

ConnectionInfos ==
    [clientAddress : Addresses, sharedKey : Keys, sequence : SeqNumbers]

ChallengeInfos ==
    [clientAddress   : Addresses,
     clientPublicKey : KeyPairs,
     serverKeyPair   : KeyPairs,
     future          : SUBSET Keys,   \* the result of sharedKeyFuture, if valid()
     sharedKey       : Keys]

ConnectionInfo(address, k) ==
    [clientAddress |-> address, sharedKey |-> k, sequence |-> 0]

NoConnection == ConnectionInfo(NoAddress, ZeroKey)
NoKeyPair    == KeyPair(NoAddress, 0)
NoChallenge  ==
    [clientAddress |-> NoAddress, clientPublicKey |-> NoKeyPair,
     serverKeyPair |-> NoKeyPair, future |-> {}, sharedKey |-> ZeroKey]

HostConnected   == [i \in Slots |-> i = 0]
HostConnections == [i \in Slots |-> IF i = 0 THEN ConnectionInfo(LocalHost, ZeroKey)
                                             ELSE NoConnection]

------------------------------------------------------------------------------
(* Looking up the tables *)

\* The loops return the first index they find, or -1.
FirstIndex(S) ==
    IF S = {} THEN -1 ELSE CHOOSE i \in S : \A j \in S : i <= j

\* Variants: the test of m_connected, or of m_challenged, the wrong way round.
FindFreeConnectionIndexTaken == FirstIndex({i \in Slots : connected[i]})
FindFreeChallengeIndexTaken  == FirstIndex({i \in Slots : challenged[i]})

FindFreeConnectionIndex == FirstIndex({i \in Slots : ~connected[i]})
FindFreeChallengeIndex  == FirstIndex({i \in Slots : ~challenged[i]})

FindExistingConnectionIndex(address) ==
    FirstIndex({i \in Slots : connected[i] /\ connections[i].clientAddress = address})

FindExistingChallengeIndex(address) ==
    FirstIndex({i \in Slots : challenged[i] /\ challenges[i].clientAddress = address})

\* What an int holds after "int idx = Find...() >= 0" or "... > 0": the comparison
\* binds tighter than the initialisation, so the index is lost and 0 or 1 is left.
AsInt(b) == IF b THEN 1 ELSE 0

------------------------------------------------------------------------------
(* Changing the tables *)

\* What is the key of a pending handshake once its future is waited for.
SettledKey(c) ==
    IF c.future = {} THEN c.sharedKey ELSE CHOOSE k \in c.future : TRUE

Settle(c) == [c EXCEPT !.future = {}, !.sharedKey = SettledKey(c)]

\* Variants, of a handshake: nothing is forgotten.  Of a connection: the count, the table
\* entry or the flag is forgotten.
ForgetChallengeNot(i, table) ==
    /\ challenges' = table
    /\ UNCHANGED challenged
ForgetConnectionKeepCount(i) ==
    /\ connected'   = [connected EXCEPT ![i] = FALSE]
    /\ connections' = [connections EXCEPT ![i] = NoConnection]
    /\ UNCHANGED numConnections
ForgetConnectionKeepEntry(i) ==
    /\ connected' = [connected EXCEPT ![i] = FALSE]
    /\ numConnections' = numConnections - 1
    /\ UNCHANGED connections
ForgetConnectionKeepFlag(i) ==
    /\ connections' = [connections EXCEPT ![i] = NoConnection]
    /\ numConnections' = numConnections - 1
    /\ UNCHANGED connected

ForgetChallenge(i, table) ==
    /\ challenged' = [challenged EXCEPT ![i] = FALSE]
    /\ challenges' = [table EXCEPT ![i] = NoChallenge]

ForgetConnection(i) ==
    /\ connected'   = [connected EXCEPT ![i] = FALSE]
    /\ connections' = [connections EXCEPT ![i] = NoConnection]
    /\ numConnections' = numConnections - 1

(***************************************************************************)
(* RemoveClient.  Both indices are stored as the outcome of a comparison,   *)
(* so that slot 1 is what it clears, whoever is in it.  Its callers have    *)
(* checked that the address is in one of the tables.                        *)
(***************************************************************************)
RemoveClient(address, table) ==
    LET clientIdx == AsInt(FindExistingConnectionIndex(address) > 0)
        challIdx  == AsInt(FindExistingChallengeIndex(address) >= 0)
    IN  \/ /\ clientIdx # 0
           /\ ForgetConnection(clientIdx)
           /\ challenges' = table
           /\ UNCHANGED challenged
        \/ /\ clientIdx = 0 /\ challIdx # 0
           /\ ForgetChallenge(challIdx, table)
           /\ UNCHANGED <<connected, connections, numConnections>>

------------------------------------------------------------------------------
(* Handlers *)

(***************************************************************************)
(* The task that computes a handshake's key captures the local challIndex   *)
(* by reference and may run after HandlePacket has returned; it then reads  *)
(* whatever the stack slot holds.  The key it yields is the right one or,   *)
(* if so, one of GarbageKeys.                                               *)
(***************************************************************************)
KeyTaskResults(c) ==
    {SharedKey(c.clientPublicKey, c.serverKeyPair)} \cup GarbageKeys

\* Variant: the first slot that is free, leaving out the host's.
ChallengeSlotFree(sender) ==
    LET found == FindExistingChallengeIndex(sender)
        free  == {i \in Slots : i > 0 /\ ~challenged[i]}
    IN  IF found >= 0 THEN found ELSE IF free = {} THEN 0 ELSE FirstIndex(free)

\* Where a request is kept: 0 stands for "Server full" when nothing was found.
ChallengeSlot(sender) ==
    LET found == FindExistingChallengeIndex(sender)
    IN  IF found >= 0 THEN found ELSE AsInt(FindFreeChallengeIndex >= 0)

HandleConnectionRequest(sender, publicKey, table, rest) ==
    LET found == FindExistingChallengeIndex(sender)
        slot  == ChallengeSlot(sender)
        fresh == [NoChallenge EXCEPT
                     !.clientAddress   = sender,
                     !.clientPublicKey = publicKey,
                     !.serverKeyPair   = KeyPair(ServerAddress, serverKeyPairs)]
        challenge == IF found >= 0 THEN table[found] ELSE fresh
    IN  /\ IF found < 0 /\ slot = 0
           THEN /\ challenges' = table
                /\ network' = rest
                /\ UNCHANGED <<challenged, serverKeyPairs>>
           ELSE /\ \E k \in KeyTaskResults(challenge) :
                      challenges' = [table EXCEPT ![slot] = [challenge EXCEPT !.future = {k}]]
                /\ challenged' = [challenged EXCEPT ![slot] = TRUE]
                /\ serverKeyPairs' = serverKeyPairs + (IF found >= 0 THEN 0 ELSE 1)
                /\ network' = rest \cup Sent(ServerAddress, sender,
                                            ChallengePacket(challenge.serverKeyPair))
        /\ UNCHANGED <<connected, connections, numConnections>>

HandleChallengeResponse(sender, table, rest) ==
    LET challengeIndex == FindExistingChallengeIndex(sender)
        newClientIndex == FindFreeConnectionIndex
        challenge      == Settle(table[challengeIndex])
    IN  \/ /\ challengeIndex >= 0 /\ newClientIndex > -1
           /\ connected'   = [connected EXCEPT ![newClientIndex] = TRUE]
           /\ connections' = [connections EXCEPT ![newClientIndex] =
                                 ConnectionInfo(challenge.clientAddress, challenge.sharedKey)]
           /\ numConnections' = numConnections + 1
           /\ ForgetChallenge(challengeIndex, table)
           /\ network' = rest \cup Sent(ServerAddress, sender,
                 ConnectionAcceptedPacket(challenge.sharedKey, newClientIndex))
        \/ /\ challengeIndex < 0 \/ newClientIndex = -1
           /\ challenges' = table
           /\ network' = rest
           /\ UNCHANGED <<connected, connections, numConnections, challenged>>

------------------------------------------------------------------------------
(* Listen *)

\* Variant: handshakes go on during the game.
InLobbyOrGame == serverState \in {"LOBBY", "GAME"}

InLobby == serverState = "LOBBY"

\* The switch on the packet's type.  "table" is m_challenges after the key of the
\* sender's handshake, if it has one, has been waited for.
Dispatch(packetType, d, table, rest) ==
    LET known == \/ FindExistingConnectionIndex(d.src) > 0
                 \/ FindExistingChallengeIndex(d.src) > 0
        handled == \/ packetType \in {"CONNECTION_REQUEST", "CHALLENGE_RESPONSE"} /\ InLobby
                   \/ packetType = "DISCONNECT" /\ known
    IN  \/ /\ packetType = "CONNECTION_REQUEST" /\ InLobby
           /\ HandleConnectionRequest(d.src, d.packet.publicKey, table, rest)
        \/ /\ packetType = "CHALLENGE_RESPONSE" /\ InLobby
           /\ HandleChallengeResponse(d.src, table, rest)
           /\ UNCHANGED serverKeyPairs
        \/ /\ packetType = "DISCONNECT" /\ known
           /\ RemoveClient(d.src, table)
           /\ network' = rest
           /\ UNCHANGED serverKeyPairs
        \/ /\ ~handled     \* game data changes nothing here: see HandsGameData
           /\ challenges' = table
           /\ network' = rest
           /\ UNCHANGED <<connected, connections, challenged, numConnections, serverKeyPairs>>

ListenToConnected(d, rest) ==
    LET i == FindExistingConnectionIndex(d.src)
    IN  /\ i > 0
        /\ Dispatch(VerifyPacketHMAC(connections[i].sharedKey, d.packet), d, challenges, rest)

ListenToStranger(d, rest) ==
    /\ FindExistingConnectionIndex(d.src) <= 0
    /\ FindExistingChallengeIndex(d.src) < 0
    /\ \/ /\ VerifyPacketCRC(d.packet) = "CONNECTION_REQUEST"
          /\ Dispatch("CONNECTION_REQUEST", d, challenges, rest)
       \/ /\ VerifyPacketCRC(d.packet) # "CONNECTION_REQUEST"
          /\ network' = rest
          /\ UNCHANGED <<serverTables, serverKeyPairs>>

ListenToChallenged(d, rest) ==
    LET i     == FindExistingChallengeIndex(d.src)
        table == [challenges EXCEPT ![i] = Settle(challenges[i])]
    IN  /\ FindExistingConnectionIndex(d.src) <= 0
        /\ i >= 0
        /\ Dispatch(VerifyPacketHMAC(table[i].sharedKey, d.packet), d, table, rest)

ServerListen(d, rest) ==
    /\ serverUp
    /\ d.dst = ServerAddress
    /\ \/ ListenToConnected(d, rest)
       \/ ListenToStranger(d, rest)
       \/ ListenToChallenged(d, rest)
    /\ UNCHANGED <<serverUp, serverState>>

\* Listen copies the data of d to the host, under the index of a connected client.
HandsGameData(d) ==
    LET i == FindExistingConnectionIndex(d.src)
    IN  /\ serverUp /\ serverState = "GAME" /\ i > 0
        /\ VerifyPacketHMAC(connections[i].sharedKey, d.packet) = "CONNECTION_DATA"

------------------------------------------------------------------------------
(* The host application's calls *)

PropagateGameData(rest) ==
    LET receivers == {i \in Slots : i >= 1 /\ connected[i]}
        next(i)   == NextSequence(connections[i].sequence)
    IN  /\ serverUp
        /\ connections' = [i \in Slots |->
               IF i \in receivers THEN [connections[i] EXCEPT !.sequence = next(i)]
                                  ELSE connections[i]]
        /\ network' = rest \cup UNION
               {Sent(ServerAddress, connections[i].clientAddress,
                     ConnectionDataPacket(connections[i].sharedKey, next(i))) : i \in receivers}
        /\ UNCHANGED <<serverUp, connected, challenged, challenges, numConnections,
                       serverState, serverKeyPairs>>

SwitchTo(state, rest) ==
    /\ serverUp
    /\ serverState # state
    /\ serverState' = state
    /\ network' = rest
    /\ UNCHANGED <<serverUp, serverTables, serverKeyPairs>>

SwitchToLobby(rest) == SwitchTo("LOBBY", rest)
SwitchToGame(rest)  == SwitchTo("GAME", rest)

\* KickClient, for every client in a table: what it sends.  What RemoveClient then
\* does to the tables dies with the object.
KickedDatagrams ==
    LET kicked(address, k) ==
            SentTimes(ServerAddress, address, DisconnectPacket(k), DisconnectCopies)
    IN  UNION ({kicked(connections[i].clientAddress, connections[i].sharedKey) :
                   i \in {j \in Slots : j >= 1 /\ connected[j]}}
               \cup {kicked(challenges[i].clientAddress, SettledKey(challenges[i])) :
                   i \in {j \in Slots : j >= 1 /\ challenged[j]}})

EmptyTables ==
    /\ connected'      = [i \in Slots |-> FALSE]
    /\ connections'    = [i \in Slots |-> NoConnection]
    /\ challenged'     = [i \in Slots |-> FALSE]
    /\ challenges'     = [i \in Slots |-> NoChallenge]
    /\ numConnections' = 0

ServerDestroy(rest) ==
    /\ serverUp
    /\ serverUp' = FALSE
    /\ EmptyTables
    /\ network' = rest \cup KickedDatagrams
    /\ UNCHANGED <<serverState, serverKeyPairs>>

\* A new Server object: its tables are those of Init.
ServerCreate(rest) ==
    /\ ~serverUp
    /\ serverUp'       = TRUE
    /\ connected'      = HostConnected
    /\ connections'    = HostConnections
    /\ numConnections' = 1
    /\ serverState'    = "LOBBY"
    /\ network'        = rest
    /\ UNCHANGED <<challenged, challenges, serverKeyPairs>>

ServerInit ==
    /\ serverUp       = TRUE
    /\ connected      = HostConnected
    /\ connections    = HostConnections
    /\ challenged     = [i \in Slots |-> FALSE]
    /\ challenges     = [i \in Slots |-> NoChallenge]
    /\ numConnections = 1
    /\ serverState    = "LOBBY"
    /\ serverKeyPairs = 0

------------------------------------------------------------------------------
(* Properties *)

\* The tables, the count and the state have the types Server.h declares.
ServerTypeOK ==
    /\ serverUp \in BOOLEAN
    /\ connected \in [Slots -> BOOLEAN]
    /\ connections \in [Slots -> ConnectionInfos]
    /\ challenged \in [Slots -> BOOLEAN]
    /\ challenges \in [Slots -> ChallengeInfos]
    /\ numConnections \in Int
    /\ serverState \in {"LOBBY", "GAME"}
    /\ serverKeyPairs \in Nat

\* As long as there is a server its host keeps slot 0: no admission, disconnection
\* or restart gives "index 0", on which Listen's tests against 0 rely, to a client.
HostSlotHeld ==
    serverUp => connected[0] /\ connections[0].clientAddress = LocalHost

\* A handshake is only ever pending in the one slot that RemoveClient clears and
\* that the DISCONNECT case and KickClient ("> 0") can see: a client that gives up
\* during its handshake does not leave it behind.  It takes the request, the
\* disconnection and the lookup to agree on it.
PendingHandshakeRemovable ==
    \A i \in Slots : challenged[i] => i = AsInt(TRUE)

\* No address is in the tables twice: Listen picks the key that a packet must be
\* sealed with from the first entry it finds, so that a second entry of the same
\* client, in either table, could never be reached again.
OneEntryPerAddress ==
    /\ \A i, j \in Slots :
           connected[i] /\ connected[j] /\ connections[i].clientAddress = connections[j].clientAddress
           => i = j
    /\ \A i, j \in Slots :
           connected[i] /\ challenged[j]
           => connections[i].clientAddress # challenges[j].clientAddress

\* A slot that is given up keeps nothing of the client that had it: its next owner
\* starts without an address, with the zero key and with sequence number 0.
FreedSlotsBlank ==
    \A i \in Slots :
        /\ ~connected[i] => connections[i] = NoConnection
        /\ ~challenged[i] => challenges[i] = NoChallenge

\* GetConnectedClientCount never reports more clients than there are, however
\* requests, responses and repeated DISCONNECT packets interleave.
CountNeverAbove ==
    serverUp => numConnections <= Cardinality({i \in Slots : connected[i]})

\* A slot passes to a client only in the lobby, and only by ending a handshake that
\* was pending with that same address and that leaves its key to the connection.
Admission ==
    \A i \in Slots \ {0} :
        connected'[i] /\ ~connected[i] =>
            /\ serverState = "LOBBY"
            /\ \E j \in Slots :
                  /\ challenged[j] /\ ~challenged'[j]
                  /\ connections'[i] =
                        ConnectionInfo(challenges[j].clientAddress, SettledKey(challenges[j]))
==============================================================================

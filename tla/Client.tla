------------------------------- MODULE Client -------------------------------
(***************************************************************************)
(* The clients of a game: Client.cpp, one object per member of Clients.     *)
(* Listen handles one datagram per call; a CHALLENGE starts a detached      *)
(* thread that runs RespondChallenge, whose three effects are steps of      *)
(* their own; the other operations are the application's calls.             *)
(*                                                                          *)
(* As in Server, an operation that sends takes "rest", the datagrams in     *)
(* flight without the one it consumed.                                      *)
(***************************************************************************)
EXTENDS Datagrams

CONSTANT Responders   \* names for the detached threads one client may have at a time

VARIABLES
    client,     \* the fields of each Client object
    responder   \* each client's RespondChallenge threads

clientVars == <<client, responder>>

------------------------------------------------------------------------------
ClientStates ==
    {"DISCONNECTED", "SENDING_REQUEST", "SENDING_CHALLENGE_RESPONSE", "CONNECTED"}

ClientObjects ==
    [alive         : BOOLEAN,                \* constructed and not destroyed
     state         : ClientStates,           \* m_state
     keyPair       : Nat,                    \* m_publicKey and m_privateKey, the n-th pair
     key           : Keys,                   \* m_sharedKey
     server        : {ServerAddress, NoAddress},  \* m_serverAddress
     index         : Int,                    \* m_index
     sequence      : SeqNumbers,             \* m_sequence
     ack           : SeqNumbers,             \* m_ack
     activeTimeout : BOOLEAN]                \* m_activeTimeout

NewClient ==
    [alive |-> TRUE, state |-> "DISCONNECTED", keyPair |-> 0, key |-> ZeroKey,
     server |-> NoAddress, index |-> -1, sequence |-> 0, ack |-> 0, activeTimeout |-> FALSE]

\* Where a RespondChallenge thread is, and the key it sealed its packet with.
ResponderThreads == [pc : {"idle", "write", "store", "send"}, key : Keys]
IdleResponder    == [pc |-> "idle", key |-> ZeroKey]

ClientInit ==
    /\ client    = [c \in Clients |-> NewClient]
    /\ responder = [c \in Clients |-> [r \in Responders |-> IdleResponder]]

ClientTypeOK ==
    /\ client \in [Clients -> ClientObjects]
    /\ responder \in [Clients -> [Responders -> ResponderThreads]]

------------------------------------------------------------------------------
(* The application's calls *)

Connect(c, rest) ==
    /\ client[c].alive
    /\ client[c].state = "DISCONNECTED"
    /\ client' = [client EXCEPT ![c].keyPair = @ + 1, ![c].state = "SENDING_REQUEST"]
    /\ network' = rest \cup Sent(c, ServerAddress,
                     ConnectionRequestPacket(KeyPair(c, client'[c].keyPair)))
    /\ UNCHANGED responder

\* Disconnect.  The index and both sequence numbers stay as they are.
Disconnected(object) ==
    [object EXCEPT !.key = ZeroKey, !.server = NoAddress, !.state = "DISCONNECTED"]

\* The DISCONNECT packets of SendDisconnect, when m_serverAddress is "server".
Farewell(c, server) ==
    IF client[c].state \in {"SENDING_CHALLENGE_RESPONSE", "CONNECTED"}
    THEN SentTimes(c, server, DisconnectPacket(client[c].key), DisconnectCopies)
    ELSE {}

SendDisconnect(c, rest) ==
    /\ client[c].alive
    /\ network' = rest \cup Farewell(c, client[c].server)
    /\ client' = [client EXCEPT ![c] = Disconnected(@)]
    /\ UNCHANGED responder

SendGameData(c, rest) ==
    /\ client[c].alive
    /\ client[c].state = "CONNECTED"
    /\ client' = [client EXCEPT ![c].sequence = NextSequence(@)]
    /\ network' = rest \cup Sent(c, client[c].server,
                     ConnectionDataPacket(client[c].key, client'[c].sequence))
    /\ UNCHANGED responder

SetActiveTimeout(c, value, rest) ==
    /\ client[c].alive
    /\ client[c].activeTimeout # value
    /\ client' = [client EXCEPT ![c].activeTimeout = value]
    /\ network' = rest
    /\ UNCHANGED responder

\* The destructor: it says goodbye only when connected.  A responder that is still
\* running touches a destroyed object from then on; its steps are not modelled.
ClientDestroy(c, rest) ==
    /\ client[c].alive
    /\ network' = rest \cup (IF client[c].state = "CONNECTED"
                             THEN Farewell(c, client[c].server) ELSE {})
    /\ client' = [client EXCEPT ![c] = [NewClient EXCEPT !.alive = FALSE, !.keyPair = client[c].keyPair]]
    /\ UNCHANGED responder

------------------------------------------------------------------------------
(* RespondChallenge, on a detached thread *)

Responding(c, r, pc, next) ==
    /\ client[c].alive
    /\ responder[c][r].pc = pc
    /\ responder' = [responder EXCEPT ![c][r] = next]

\* The packet is written with whatever m_sharedKey holds by now.
RespondWrite(c, r, rest) ==
    /\ Responding(c, r, "write", [pc |-> "store", key |-> client[c].key])
    /\ network' = rest
    /\ UNCHANGED client

\* m_state is stored whatever it was.
RespondStore(c, r, rest) ==
    /\ Responding(c, r, "store", [responder[c][r] EXCEPT !.pc = "send"])
    /\ client' = [client EXCEPT ![c].state = "SENDING_CHALLENGE_RESPONSE"]
    /\ network' = rest

RespondSend(c, r, rest) ==
    /\ Responding(c, r, "send", IdleResponder)
    /\ network' = rest \cup Sent(c, client[c].server, ChallengeResponsePacket(responder[c][r].key))
    /\ UNCHANGED client

------------------------------------------------------------------------------
(* Listen.  "object" is the Client once Receive has stored the sender's address. *)

\* The end of Listen: five seconds without a valid packet may have gone by.
TimeOut(c, object, rest) ==
    /\ object.activeTimeout /\ object.state = "CONNECTED"
    /\ network' = rest \cup Farewell(c, object.server)
    /\ client' = [client EXCEPT ![c] = Disconnected(object)]

HandleChallenge(c, object, publicKey) ==
    /\ object.state = "SENDING_REQUEST"
    /\ client' = [client EXCEPT ![c] =
           [object EXCEPT !.key = SharedKey(publicKey, KeyPair(c, object.keyPair))]]
    /\ \E r \in Responders :
          /\ responder[c][r].pc = "idle"
          /\ responder' = [responder EXCEPT ![c][r].pc = "write"]

HandleAccepted(c, object, clientID) ==
    /\ object.state = "SENDING_CHALLENGE_RESPONSE"
    /\ client' = [client EXCEPT ![c] =
           [object EXCEPT !.index = clientID, !.state = "CONNECTED"]]
    /\ UNCHANGED responder

\* Whether a CONNECTION_DATA packet is handed to the application (if its buffer is large
\* enough: m_ack moves on either way).
IsNewData(object, packet) ==
    /\ object.state = "CONNECTED"
    /\ VerifyPacketHMAC(object.key, packet) = "CONNECTION_DATA"
    /\ SequenceGreaterThan(packet.sequence, object.ack)

\* Variant: data that is not new is not returned from, but falls into the next case.
HandleDataFallThrough(c, object, packet) ==
    /\ object.state = "CONNECTED"
    /\ client' = [client EXCEPT ![c] =
           IF SequenceGreaterThan(packet.sequence, object.ack)
           THEN [object EXCEPT !.ack = packet.sequence] ELSE Disconnected(object)]
    /\ UNCHANGED responder

HandleData(c, object, packet) ==
    /\ object.state = "CONNECTED"
    /\ client' = [client EXCEPT ![c] =
           IF SequenceGreaterThan(packet.sequence, object.ack)
           THEN [object EXCEPT !.ack = packet.sequence] ELSE object]
    /\ UNCHANGED responder

\* DISCONNECT, and the CONNECTION_DATA case when not connected, which has no break.
HandleDisconnect(c, object) ==
    /\ object.state # "DISCONNECTED"
    /\ client' = [client EXCEPT ![c] = Disconnected(object)]
    /\ UNCHANGED responder

VerifyPacket(object, packet) ==
    IF object.state \in {"DISCONNECTED", "SENDING_REQUEST"}
    THEN VerifyPacketCRC(packet) ELSE VerifyPacketHMAC(object.key, packet)

ClientListen(c, d, rest) ==
    LET object  == [client[c] EXCEPT !.server = d.src]
        type    == VerifyPacket(object, d.packet)
        handled == \/ type = "CHALLENGE" /\ object.state = "SENDING_REQUEST"
                   \/ type = "CONNECTION_ACCEPTED" /\ object.state = "SENDING_CHALLENGE_RESPONSE"
                   \/ type \in {"CONNECTION_DATA", "DISCONNECT"} /\ object.state # "DISCONNECTED"
    IN  /\ object.alive
        /\ d.dst = c
        /\ \/ /\ \/ /\ type = "CHALLENGE"
                    /\ HandleChallenge(c, object, d.packet.publicKey)
                 \/ /\ type = "CONNECTION_ACCEPTED"
                    /\ HandleAccepted(c, object, d.packet.clientID)
                 \/ /\ type = "CONNECTION_DATA"
                    /\ HandleData(c, object, d.packet)
                 \/ /\ \/ type = "DISCONNECT"
                       \/ type = "CONNECTION_DATA" /\ object.state # "CONNECTED"
                    /\ HandleDisconnect(c, object)
                 \/ /\ ~handled
                    /\ client' = [client EXCEPT ![c] = object]
                    /\ UNCHANGED responder
              /\ network' = rest
           \/ /\ type = "INVALID_PACKET"
              /\ TimeOut(c, object, rest)
              /\ UNCHANGED responder

\* Listen with nothing to receive.
ClientListenIdle(c, rest) ==
    /\ client[c].alive
    /\ TimeOut(c, client[c], rest)
    /\ UNCHANGED responder
=============================================================================

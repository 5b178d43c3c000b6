---------------------------- MODULE ClientThreads ----------------------------
(***************************************************************************)
(* One Client object and its threads, in finer steps than Client's: the     *)
(* loop that calls Listen, the thread of main() that calls Connect,         *)
(* SendDisconnect and SendGameData, and the detached threads that run       *)
(* RespondChallenge.  m_state is atomic, but Listen tests it and acts on it *)
(* in two steps, and nothing else is protected.                             *)
(*                                                                          *)
(* The request is a broadcast: any of Hosts may answer it.  A host is as    *)
(* much of a Server as one client can tell.  m_activeTimeout is not set.    *)
(***************************************************************************)
EXTENDS Datagrams

CONSTANTS
    Hosts,             \* the servers in the network
    Me,                \* the client's address
    Responders,        \* names for the threads of RespondChallenge
    Applications       \* BOOLEAN, or less: whether main() calls SendDisconnect

ASSUME ThreadsAssumption ==
    /\ Me \in Clients /\ NoAddress \notin Hosts /\ Me \notin Hosts
    /\ Applications \subseteq BOOLEAN

VARIABLES
    mayDisconnect,   \* whether it does
    state,      \* m_state
    keyPair,    \* m_publicKey and m_privateKey: the n-th pair
    halfKey,    \* GenerateKeyPair is running
    key,        \* m_sharedKey
    server,     \* m_serverAddress
    index,      \* m_index, the name of the host that gave it
    ack,        \* m_ack
    listener,   \* where Listen is, and the packet in its buffer
    caller,     \* where the call on main()'s thread is
    responder,  \* where the threads of RespondChallenge are
    hosts,      \* each host's entry for the client: its handshake, its connection
    admitted,   \* which host admitted the client, under which key
    torn        \* a key was computed from a key pair that was being generated

clientFields == <<state, keyPair, halfKey, key, server, index, ack>>
threads      == <<listener, caller, responder>>
outside      == <<hosts, admitted, network>>
vars         == <<clientFields, threads, outside, torn, mayDisconnect>>

Idle == [pc |-> "idle", type |-> "INVALID_PACKET", packet |-> DisconnectPacket(ZeroKey)]

Init ==
    /\ mayDisconnect \in Applications
    /\ state = "DISCONNECTED" /\ keyPair = 0 /\ halfKey = FALSE /\ key = ZeroKey
    /\ server = NoAddress /\ index = NoAddress /\ ack = 0
    /\ listener = Idle
    /\ caller = [pc |-> "idle", key |-> ZeroKey]
    /\ responder = [r \in Responders |-> [pc |-> "idle", key |-> ZeroKey]]
    /\ hosts = [h \in Hosts |-> [pairs |-> 0, challenge |-> ZeroKey, connection |-> ZeroKey,
                                 sequence |-> 0]]
    /\ admitted = {}
    /\ network = {}
    /\ torn = FALSE

------------------------------------------------------------------------------
(* Hosts *)

\* A request is answered with the key pair of this handshake, a response under its key with
\* an index, which is named after the host; the host may then send data, or DISCONNECT, as
\* Server does.
Challenges(h, d) ==
    /\ d.packet.type = "CONNECTION_REQUEST" /\ d.dst = h
    /\ hosts[h].connection = ZeroKey /\ hosts[h].challenge = ZeroKey
    /\ hosts' = [hosts EXCEPT ![h].pairs = @ + 1,
                              ![h].challenge = SharedKey(d.packet.publicKey, KeyPair(h, hosts[h].pairs))]
    /\ network' = network \cup Sent(h, Me, ChallengePacket(KeyPair(h, hosts[h].pairs)))
    /\ UNCHANGED admitted

Admits(h, d) ==
    LET k == hosts[h].challenge
    IN  /\ d.dst = h /\ k # ZeroKey
        /\ VerifyPacketHMAC(k, d.packet) = "CHALLENGE_RESPONSE"
        /\ hosts' = [hosts EXCEPT ![h].challenge = ZeroKey, ![h].connection = k, ![h].sequence = 0]
        /\ admitted' = admitted \cup {[host |-> h, key |-> k]}
        /\ network' = network \cup Sent(h, Me, ConnectionAcceptedPacket(k, h))

\* A DISCONNECT ends the connection or, when there is none, the pending handshake, under
\* whose key it is.
Removes(h, d) ==
    /\ d.dst = h
    /\ \E entry \in {"connection", "challenge"} :
          /\ hosts[h][entry] # ZeroKey
          /\ entry = "challenge" => hosts[h].connection = ZeroKey
          /\ VerifyPacketHMAC(hosts[h][entry], d.packet) = "DISCONNECT"
          /\ hosts' = [hosts EXCEPT ![h][entry] = ZeroKey]
    /\ UNCHANGED <<admitted, network>>

Says(h) ==
    /\ hosts[h].connection # ZeroKey
    /\ hosts' = [hosts EXCEPT ![h].sequence = NextSequence(@)]
    /\ network' = network \cup
           Sent(h, Me, ConnectionDataPacket(hosts[h].connection, hosts'[h].sequence))
    /\ UNCHANGED admitted

\* The destructor, which a new server on that machine may follow.
Kicks(h) ==
    /\ \E entry \in {"connection", "challenge"} :
          /\ hosts[h][entry] # ZeroKey
          /\ hosts' = [hosts EXCEPT ![h][entry] = ZeroKey]
          /\ network' = network \cup Sent(h, Me, DisconnectPacket(hosts[h][entry]))
    /\ UNCHANGED admitted

HostSteps(h) ==
    /\ Says(h) \/ Kicks(h) \/ \E d \in network : Challenges(h, d) \/ Admits(h, d) \/ Removes(h, d)
    /\ UNCHANGED <<clientFields, threads, torn>>

------------------------------------------------------------------------------
(* Listen *)

\* Socket::Receive stores the sender of whatever it receives into m_serverAddress.
ReceiveFrom(d) == server' = d.src

Receive(d) ==
    /\ listener.pc = "idle"
    /\ d.dst = Me
    /\ ReceiveFrom(d)
    /\ listener' = [Idle EXCEPT !.pc = "verify", !.packet = d.packet]
    /\ UNCHANGED <<state, keyPair, halfKey, key, index, ack, caller, responder, outside, torn>>

Verify ==
    /\ listener.pc = "verify"
    /\ listener' = [listener EXCEPT !.pc = "test",
           !.type = IF state \in {"DISCONNECTED", "SENDING_REQUEST"}
                    THEN VerifyPacketCRC(listener.packet)
                    ELSE VerifyPacketHMAC(key, listener.packet)]
    /\ UNCHANGED <<clientFields, caller, responder, outside, torn>>

\* The case of the switch, with its test of m_state.
Handler(type) ==
    CASE type = "CHALLENGE" /\ state = "SENDING_REQUEST"  -> "challenge"
      [] type = "CONNECTION_ACCEPTED" /\ state = "SENDING_CHALLENGE_RESPONSE" -> "accepted"
      [] type = "CONNECTION_DATA" /\ state = "CONNECTED"  -> "data"
      [] type \in {"CONNECTION_DATA", "DISCONNECT"} /\ state # "DISCONNECTED" -> "disconnect"
      [] OTHER -> "idle"

Test ==
    /\ listener.pc = "test"
    /\ listener' = IF Handler(listener.type) = "idle" THEN Idle
                   ELSE [listener EXCEPT !.pc = Handler(listener.type)]
    /\ UNCHANGED <<clientFields, caller, responder, outside, torn>>

HandleChallenge ==
    /\ listener.pc = "challenge"
    /\ key' = SharedKey(listener.packet.publicKey, KeyPair(Me, keyPair))
    /\ torn' = (torn \/ halfKey)
    /\ \E r \in Responders :
          /\ responder[r].pc = "idle"
          /\ responder' = [responder EXCEPT ![r].pc = "write"]
    /\ listener' = Idle
    /\ UNCHANGED <<state, keyPair, halfKey, server, index, ack, caller, outside>>

HandleAccepted ==
    \/ /\ listener.pc = "accepted"
       /\ index' = listener.packet.clientID
       /\ listener' = [listener EXCEPT !.pc = "connected"]
       /\ UNCHANGED <<state, keyPair, halfKey, key, server, ack, caller, responder, outside, torn>>
    \/ /\ listener.pc = "connected"
       /\ state' = "CONNECTED"
       /\ listener' = Idle
       /\ UNCHANGED <<keyPair, halfKey, key, server, index, ack, caller, responder, outside, torn>>

HandleData ==
    /\ listener.pc = "data"
    /\ ack' = IF SequenceGreaterThan(listener.packet.sequence, ack)
              THEN listener.packet.sequence ELSE ack
    /\ listener' = Idle
    /\ UNCHANGED <<state, keyPair, halfKey, key, server, index, caller, responder, outside, torn>>

\* Disconnect: the key, the address and the state, one after the other.
DisconnectStep(pc, next) ==
    \/ /\ pc = "disconnect" /\ next = "address"
       /\ key' = ZeroKey
       /\ UNCHANGED <<server, state>>
    \/ /\ pc = "address" /\ next = "state"
       /\ server' = NoAddress
       /\ UNCHANGED <<key, state>>
    \/ /\ pc = "state" /\ next = "idle"
       /\ state' = "DISCONNECTED"
       /\ UNCHANGED <<key, server>>

HandleDisconnect ==
    /\ \E next \in {"address", "state", "idle"} :
          /\ DisconnectStep(listener.pc, next)
          /\ listener' = IF next = "idle" THEN Idle ELSE [listener EXCEPT !.pc = next]
    /\ UNCHANGED <<keyPair, halfKey, index, ack, caller, responder, outside, torn>>

ListenGoesOn ==
    \/ Verify \/ Test
    \/ HandleChallenge \/ HandleAccepted \/ HandleData \/ HandleDisconnect

------------------------------------------------------------------------------
(* RespondChallenge *)

Responds(r) ==
    \/ /\ responder[r].pc = "write"
       /\ responder' = [responder EXCEPT ![r] = [pc |-> "store", key |-> key]]
       /\ UNCHANGED <<clientFields, network>>
    \/ /\ responder[r].pc = "store"
       /\ state' = "SENDING_CHALLENGE_RESPONSE"
       /\ responder' = [responder EXCEPT ![r].pc = "send"]
       /\ UNCHANGED <<keyPair, halfKey, key, server, index, ack, network>>
    \/ /\ responder[r].pc = "send"
       /\ network' = network \cup Sent(Me, server, ChallengeResponsePacket(responder[r].key))
       /\ responder' = [responder EXCEPT ![r] = [pc |-> "idle", key |-> ZeroKey]]
       /\ UNCHANGED clientFields

Responding(r) == Responds(r) /\ UNCHANGED <<listener, caller, hosts, admitted, torn>>

------------------------------------------------------------------------------
(* The calls on main()'s thread *)

Calls(pc, next) == caller.pc = pc /\ caller' = [caller EXCEPT !.pc = next]

\* Variant: the state is stored first.
ConnectStateFirst ==
    \/ /\ Calls("idle", "generate")
       /\ state = "DISCONNECTED"
       /\ halfKey' = TRUE /\ state' = "SENDING_REQUEST"
       /\ UNCHANGED <<keyPair, network>>
    \/ /\ Calls("generate", "store")
       /\ halfKey' = FALSE /\ keyPair' = keyPair + 1
       /\ UNCHANGED <<state, network>>
    \/ /\ Calls("store", "request")
       /\ UNCHANGED <<keyPair, halfKey, state, network>>
    \/ /\ Calls("request", "idle")
       /\ network' = network \cup UNION
              {Sent(Me, h, ConnectionRequestPacket(KeyPair(Me, keyPair))) : h \in Hosts}
       /\ UNCHANGED <<keyPair, halfKey, state>>

\* Connect: m_state is tested, the key pair generated, m_state stored, the request sent.
Connect ==
    \/ /\ Calls("idle", "generate")
       /\ state = "DISCONNECTED"
       /\ halfKey' = TRUE
       /\ UNCHANGED <<keyPair, state, network>>
    \/ /\ Calls("generate", "store")
       /\ halfKey' = FALSE /\ keyPair' = keyPair + 1
       /\ UNCHANGED <<state, network>>
    \/ /\ Calls("store", "request")
       /\ state' = "SENDING_REQUEST"
       /\ UNCHANGED <<keyPair, halfKey, network>>
    \/ /\ Calls("request", "idle")
       /\ network' = network \cup UNION
              {Sent(Me, h, ConnectionRequestPacket(KeyPair(Me, keyPair))) : h \in Hosts}
       /\ UNCHANGED <<keyPair, halfKey, state>>

Connecting == Connect /\ UNCHANGED <<key, server, index, ack, listener, responder, hosts, admitted, torn>>

\* SendDisconnect: m_state is loaded twice; unless it is DISCONNECTED the first time or
\* SENDING_REQUEST the second, the packet is written and sent.  Disconnect is run in any case.
SendDisconnect ==
    /\ \/ /\ Calls("idle", IF state = "DISCONNECTED" THEN "disconnect" ELSE "test")
          /\ mayDisconnect
          /\ UNCHANGED <<key, server, state, network>>
       \/ /\ Calls("test", IF state = "SENDING_REQUEST" THEN "disconnect" ELSE "write")
          /\ UNCHANGED <<key, server, state, network>>
       \/ /\ caller.pc = "write"
          /\ caller' = [pc |-> "goodbye", key |-> key]
          /\ UNCHANGED <<key, server, state, network>>
       \/ /\ caller.pc = "goodbye"
          /\ caller' = [pc |-> "disconnect", key |-> ZeroKey]
          /\ network' = network
                 \cup SentTimes(Me, server, DisconnectPacket(caller.key), DisconnectCopies)
          /\ UNCHANGED <<key, server, state>>
       \/ /\ \E next \in {"address", "state", "idle"} :
                DisconnectStep(caller.pc, next) /\ Calls(caller.pc, next)
          /\ UNCHANGED network
    /\ UNCHANGED <<keyPair, halfKey, index, ack, listener, responder, hosts, admitted, torn>>

Next ==
    /\ \/ \E d \in network : Receive(d)
       \/ ListenGoesOn
       \/ \E r \in Responders : Responding(r)
       \/ Connecting \/ SendDisconnect
       \/ \E h \in Hosts : HostSteps(h)
    /\ UNCHANGED mayDisconnect

Spec == Init /\ [][Next]_vars

------------------------------------------------------------------------------
(* Properties *)

\* A client that is CONNECTED was admitted, under its index, by the very host it has agreed
\* its key with, whatever the hosts that answered the same request, repeated packets, earlier
\* handshakes and the threads that answer challenges do in between.  It is without a key only
\* while its Listen runs Disconnect, which forgets the key before it stores the state, or
\* where main() calls SendDisconnect: see ConnectedHoldsKey.
ConnectedToOneHost ==
    state = "CONNECTED" =>
        \/ [host |-> index, key |-> key] \in admitted
        \/ key = ZeroKey /\ (mayDisconnect \/ listener.pc \in {"address", "state"})

\* Where nobody calls SendDisconnect, no key is computed from a key pair that Connect is
\* generating: m_state keeps the CHALLENGE of an earlier attempt away until the pair is
\* complete.  False of the code where somebody does: Listen has tested m_state, the attempt
\* is given up and Connect called again before HandlePacket reads the pair.
KeyPairComplete == ~mayDisconnect => ~torn

\* False of the code: a client that is CONNECTED, with no call under way, holds a key.
\* SendDisconnect may reset it between Listen's test of m_state and HandlePacket's store.
ConnectedHoldsKey ==
    state = "CONNECTED" /\ listener.pc = "idle" /\ caller.pc = "idle" => key # ZeroKey

\* False of the code: a packet that Listen discards has no effect, and a connected client
\* goes on writing to the host it has agreed its key with.
ServerIsPartner ==
    state = "CONNECTED" /\ listener.pc = "idle" =>
        \A a \in admitted : a.key = key => server = a.host
=============================================================================

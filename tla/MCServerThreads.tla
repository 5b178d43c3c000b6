--------------------------- MODULE MCServerThreads ---------------------------
(* ServerThreads on a small instance: bounds, and the packets that matter.  *)
EXTENDS ServerThreads, TLC

CONSTANTS
    MaxKeyPairs,  \* handshakes the server may begin, and one more in a single loop
    MaxMessages,  \* messages the host may propagate
    MaxDeficit    \* how far below zero numConnections may fall

\* Each client keeps to one key pair, and seals with the keys that are in the tables.
LiveKeys ==
    {connections[i].sharedKey : i \in Slots} \cup {SettledKey(challenges[i]) : i \in Slots}

MCPackets(c) ==
    {ConnectionRequestPacket(KeyPair(c, 0))}
    \cup UNION {{ChallengeResponsePacket(k), DisconnectPacket(k)} : k \in LiveKeys}

Handshakes == IF TwoThreads THEN MaxKeyPairs ELSE MaxKeyPairs + 1

MCListens ==
    /\ numConnections > -MaxDeficit
    /\ \E c \in Clients : \E p \in MCPackets(c) :
          /\ p.type = "CONNECTION_REQUEST" => serverKeyPairs < Handshakes
          /\ Listens(Datagram(c, ServerAddress, p, 1))

MCNext ==
    /\ \/ MCListens
       \/ ListenGoesOn
       \/ messages < MaxMessages /\ Propagate
       \/ Switch
       \/ \E t \in Threads : Propagates(t)
    /\ UNCHANGED application

MCSpec == Init /\ [][MCNext]_vars

Application(twoThreads, fromCallback) ==
    [twoThreads |-> twoThreads, fromCallback |-> fromCallback]

\* The threads of main.cpp with a callback, and loops without one and with one.
MCApplications == {Application(TRUE, TRUE), Application(FALSE, FALSE), Application(FALSE, TRUE)}

MCSymmetry == Permutations(Clients)
=============================================================================

------------------------------ MODULE MCServer ------------------------------
(* Server on a small instance: the bounds of the counters and of the open   *)
(* environment, which are infinite in Server.                               *)
EXTENDS ServerAlone, TLC

CONSTANTS
    MaxKeyPairs,  \* handshakes the server may begin
    MaxDeficit    \* how far below zero numConnections may fall

\* Every client uses one key pair.  A packet is sealed with a key that is in some
\* table or with one that is in none of them.
PublicKey(c) == KeyPair(c, 0)
OtherKey     == SharedKey(NoKeyPair, NoKeyPair)
LiveKeys     ==
    {connections[i].sharedKey : i \in Slots}
    \cup {SettledKey(challenges[i]) : i \in Slots} \cup {OtherKey}

MCPackets(c) ==
    {ConnectionRequestPacket(PublicKey(c))}
    \cup UNION {{ChallengeResponsePacket(k), DisconnectPacket(k), ConnectionDataPacket(k, 1)} :
                   k \in LiveKeys}

MCListen ==
    /\ numConnections > -MaxDeficit
    /\ \E c \in Clients : \E p \in MCPackets(c) :
          /\ p.type = "CONNECTION_REQUEST" => serverKeyPairs < MaxKeyPairs
          /\ ServerListen(Datagram(c, ServerAddress, p, 1), {})

MCNext ==
    \/ MCListen
    \/ PropagateGameData({})
    \/ SwitchToLobby({})
    \/ SwitchToGame({})
    \/ ServerDestroy({})
    \/ ServerCreate({})

MCSpec == Init /\ [][MCNext]_vars

\* One key that no two key pairs give.
MCGarbage == {SharedKey(KeyPair(ServerAddress, MaxKeyPairs), KeyPair(ServerAddress, MaxKeyPairs))}

MCSymmetry == Permutations(Clients)
=============================================================================

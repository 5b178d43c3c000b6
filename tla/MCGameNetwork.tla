---------------------------- MODULE MCGameNetwork ----------------------------
(***************************************************************************)
(* GameNetwork on small instances.  A scenario says which calls the         *)
(* applications make and how often; a run goes through several of them.     *)
(***************************************************************************)
EXTENDS GameNetwork, FiniteSets, TLC

CONSTANTS
    Scenarios,    \* the scenarios of a run
    MaxDeficit    \* how far below zero numConnections may fall

VARIABLE scenario   \* the one this behaviour belongs to

\* "clients" of the clients connect, "rejoining" of them up to "connects" times, the others
\* once; each has "threads" RespondChallenge threads at a time.  The server begins "keyPairs"
\* handshakes, and either end gives "data" numbers to its messages in one session.
\* "garbage": a key task may read a stale index.  "patient": a client connects, or the host
\* propagates data, only when no handshake is going on, and a client leaves only when its
\* threads have answered.
Scenario(clients, threads, connects, keyPairs, data) ==
    [clients |-> clients, rejoining |-> clients, threads |-> threads, connects |-> connects,
     keyPairs |-> keyPairs, data |-> data, garbage |-> FALSE, patient |-> FALSE, calls |-> {}]

\* Two clients that connect and leave, of which one connects again.
Handshake ==
    [Scenario(2, 1, 2, 2, 2) EXCEPT !.rejoining = 1, !.garbage = TRUE,
                                    !.calls = {"SendDisconnect"}]

\* Two clients, a server that may be destroyed and created again, and clients that may be
\* destroyed; packets of either life may meet.
Restart ==
    [Scenario(2, 1, 1, 2, 1) EXCEPT !.calls =
        {"SendGameData", "PropagateGameData", "SwitchToGame", "SwitchToLobby", "ClientDestroy",
         "ServerDestroy", "ServerCreate"}]

\* The same for one client that may time out, and two that time out in the middle of a game.
RestartAndTimeout ==
    [Restart EXCEPT !.clients = 1, !.calls = @ \cup {"SetActiveTimeout"}]
Timeouts ==
    [Restart EXCEPT !.calls =
        {"SendGameData", "PropagateGameData", "SwitchToGame", "SetActiveTimeout"}]

\* One client in two sessions, with two threads that answer challenges.
Rejoin ==
    [Scenario(1, 2, 2, 2, 2) EXCEPT !.calls =
        {"SendDisconnect", "SendGameData", "SwitchToGame", "SwitchToLobby"}]

\* One client, whose second thread takes it back to its handshake, and which is sent game data.
TakenBack == [Scenario(1, 2, 1, 1, 2) EXCEPT !.calls = {"PropagateGameData", "ServerDestroy"}]

\* Two clients that join one after the other while game data goes both ways.
Join ==
    [Scenario(2, 2, 1, 2, 1) EXCEPT !.patient = TRUE,
                                    !.calls = {"SendGameData", "PropagateGameData"}]

\* Two clients that join one after the other and leave at will, one of which joins again.
Leave ==
    [Scenario(2, 1, 2, 3, 1) EXCEPT !.rejoining = 1, !.patient = TRUE,
                                    !.calls = {"SendDisconnect"}]

\* Two clients, of which one leaves; one client propagated to while its handshake ends;
\* one client propagated to in two sessions.
OneLeaves     == [Scenario(2, 1, 1, 2, 2) EXCEPT !.calls = {"SendDisconnect"}]
DataEarly     == [Scenario(1, 1, 1, 2, 2) EXCEPT !.calls = {"PropagateGameData"}]
DataInTwoSessions ==
    [Scenario(1, 1, 2, 2, 2) EXCEPT !.calls = {"SendDisconnect", "PropagateGameData"}]

MCSafety    == {Handshake, Restart, RestartAndTimeout, Timeouts, Rejoin, TakenBack}
MCJoin      == {Join}
MCLeave     == {Leave}
MCOneLeaves == {OneLeaves}
MCDataEarly == {DataEarly}
MCDataInTwoSessions == {DataInTwoSessions}

------------------------------------------------------------------------------
Joining ==
    \/ \E c \in Clients : client[c].state \in {"SENDING_REQUEST", "SENDING_CHALLENGE_RESPONSE"}
    \/ \E i \in Slots : challenged[i]

Calls(name) == name \in scenario.calls

MCServerReceives ==
    /\ numConnections > -MaxDeficit
    /\ \E d \in network :
          /\ d.packet.type = "CONNECTION_REQUEST" => serverKeyPairs < scenario.keyPairs
          /\ ServerReceives(d)
    /\ ~scenario.garbage => \A i \in Slots : challenges'[i].future \cap GarbageKeys = {}

MCDrop == \E d \in network : DropAtClosedSocket(d)

MCClientReceives(c) ==
    /\ \E d \in network : ClientReceives(c, d)
    /\ Cardinality({r \in Responders : responder'[c][r].pc # "idle"}) <= scenario.threads

MCClientCalls(c) ==
    \/ /\ client[c].keyPair < scenario.connects
       /\ client[c].keyPair = 0 =>
              Cardinality({x \in Clients : client[x].keyPair > 0}) < scenario.clients
       /\ client[c].keyPair = 1 =>
              Cardinality({x \in Clients : client[x].keyPair > 1}) < scenario.rejoining
       /\ scenario.patient => ~Joining
       /\ Connect(c, network)
       /\ UNCHANGED <<serverVars, history>>
    \/ /\ Calls("SendDisconnect")
       /\ scenario.patient => \A r \in Responders : responder[c][r].pc = "idle"
       /\ SendDisconnect(c, network)
       /\ UNCHANGED <<serverVars, history>>
    \/ /\ Calls("SetActiveTimeout")
       /\ \/ \E value \in BOOLEAN : SetActiveTimeout(c, value, network)
          \/ ClientListenIdle(c, network)
       /\ UNCHANGED <<serverVars, history>>
    \/ /\ Calls("ClientDestroy")
       /\ ClientDestroy(c, network)
       /\ UNCHANGED <<serverVars, history>>
    \/ /\ Calls("SendGameData")
       /\ client[c].sequence < scenario.data
       /\ ClientSendsData(c)

MCServerCalls ==
    /\ \/ /\ Calls("PropagateGameData")
          /\ \E i \in Slots \ {0} : connected[i]
          /\ \A i \in Slots : connections[i].sequence < scenario.data
          /\ scenario.patient => ~Joining
          /\ PropagateGameData(network)
       \/ Calls("SwitchToGame") /\ SwitchToGame(network)
       \/ Calls("SwitchToLobby") /\ SwitchToLobby(network)
       \/ Calls("ServerDestroy") /\ ServerDestroy(network)
       \/ Calls("ServerCreate") /\ ServerCreate(network)
    /\ UNCHANGED <<clientVars, history>>

MCNext ==
    /\ \/ MCServerReceives
       \/ MCDrop
       \/ \E c \in Clients : MCClientReceives(c) \/ MCClientCalls(c) \/ Responds(c)
       \/ MCServerCalls
    /\ UNCHANGED scenario

MCInit == Init /\ scenario \in Scenarios

MCSpec == MCInit /\ [][MCNext]_<<vars, scenario>>

\* The two listening loops of main.cpp and the threads of RespondChallenge keep running,
\* and no datagram is lost; nobody has to make a call.
MCFairness ==
    /\ WF_vars(MCServerReceives)
    /\ \A c \in Clients : WF_vars(MCClientReceives(c)) /\ WF_vars(Responds(c))

MCFairSpec == MCSpec /\ MCFairness

\* Every connection attempt succeeds, as long as no client leaves.
ConnectSucceeds ==
    \A c \in Clients :
        client[c].state = "SENDING_REQUEST" ~> client[c].state = "CONNECTED"

\* The first slot of the clients becomes free when its client has left, or has never learnt
\* that it has it, whatever another client does meanwhile.  Of the other slots this is false
\* of the code: RemoveClient clears the first slot for the clients that are in them, too.
Abandoned(i) ==
    /\ connected[i]
    /\ \A c \in Clients : client[c].key # connections[i].sharedKey
FirstSlotIsReleased == Abandoned(1) ~> ~connected[1]

MCSymmetry == Permutations(Clients) \cup Permutations(Responders)
MCGarbage  == {SharedKey(KeyPair(NoAddress, 1), KeyPair(NoAddress, 1))}
==============================================================================

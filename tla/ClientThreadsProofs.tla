------------------------- MODULE ClientThreadsProofs -------------------------
(***************************************************************************)
(* Proofs about ClientThreads for every number of hosts, of threads that    *)
(* respond and of handshakes: whom a client that is CONNECTED was admitted  *)
(* by, and when the key pair that Listen reads is complete.                 *)
(***************************************************************************)
EXTENDS ClientThreads, TLAPS

------------------------------------------------------------------------------
(* The inductive invariant *)

ListenerPlaces ==
    {"idle", "verify", "test", "challenge", "accepted", "connected", "data", "disconnect",
     "address", "state"}

\* The packets that may be in Listen's buffer: there, too, nothing is made up.
Heard == {DisconnectPacket(ZeroKey)} \cup {d.packet : d \in network}

ListenerTyped ==
    listener \in [pc : ListenerPlaces, packet : Heard,
                  type : {"INVALID_PACKET"} \cup {p.type : p \in Heard}]

\* Whoever sent it, and however late it arrives, a CONNECTION_ACCEPTED is an admission's.
Announces(p, a) ==
    a = [host |-> a.host, key |-> a.key] /\ p = ConnectionAcceptedPacket(a.key, a.host)

WelcomesAreAdmissions ==
    \A p \in Heard : p.type = "CONNECTION_ACCEPTED" => \E a \in admitted : Announces(p, a)

\* From Verify to the store of m_state the packet remains one sealed with the client's key,
\* unless a call of SendDisconnect has reset that key meanwhile.
Welcomed ==
    \/ listener.pc = "test" /\ listener.type = "CONNECTION_ACCEPTED"
    \/ listener.pc \in {"accepted", "connected"}

WelcomeUnderKey ==
    /\ Welcomed => /\ listener.packet.type = "CONNECTION_ACCEPTED"
                   /\ listener.packet.seal = HMAC(key) \/ (mayDisconnect /\ key = ZeroKey)
    /\ listener.pc = "connected" => index = listener.packet.clientID

\* Only Listen stores CONNECTED: what its handlers find out about m_state remains true.
NotConnected == listener.pc \in {"challenge", "accepted", "connected"} => state # "CONNECTED"

HostInv ==
    /\ ListenerTyped
    /\ WelcomesAreAdmissions
    /\ WelcomeUnderKey
    /\ NotConnected
    /\ ConnectedToOneHost

CallerPlaces ==
    {"idle", "generate", "store", "request", "test", "write", "goodbye", "disconnect", "address",
     "state"}

CallerTyped == DOMAIN caller = {"pc", "key"} /\ caller.pc \in CallerPlaces

\* Without SendDisconnect, a request that is out keeps Connect away until Disconnect is run
\* by Listen itself; hence a CHALLENGE in its handler does, too.
PairInv ==
    /\ CallerTyped
    /\ halfKey <=> caller.pc = "generate"
    /\ ~mayDisconnect =>
          /\ caller.pc \in {"idle", "generate", "store", "request"}
          /\ state = "SENDING_REQUEST" => caller.pc \in {"idle", "request"}
          /\ listener.pc = "challenge" =>
                /\ state \in {"SENDING_REQUEST", "SENDING_CHALLENGE_RESPONSE"}
                /\ caller.pc \in {"idle", "request"}
          /\ ~torn

ClientInv == HostInv /\ PairInv

------------------------------------------------------------------------------
(* Whom a client is connected to *)

LEMMA SealsDiffer ==
    /\ \A h, k : HMAC(h) = HMAC(k) => h = k
    /\ \A k : HMAC(k) # CRC
BY DEF HMAC, CRC

LEMMA PacketFacts ==
    /\ \A src, dst, packet : \A d \in Sent(src, dst, packet) : d.packet = packet
    /\ \A src, dst, packet, copies :
          \A d \in SentTimes(src, dst, packet, copies) : d.packet = packet
BY DEF Sent, SentTimes, Datagram

LEMMA PacketTypes ==
    /\ \A k, h : /\ ConnectionAcceptedPacket(k, h).seal = HMAC(k)
               /\ ConnectionAcceptedPacket(k, h).clientID = h
    /\ \A k : /\ ConnectionRequestPacket(k).type # "CONNECTION_ACCEPTED"
            /\ ChallengePacket(k).type # "CONNECTION_ACCEPTED"
            /\ ChallengeResponsePacket(k).type # "CONNECTION_ACCEPTED"
            /\ DisconnectPacket(k).type # "CONNECTION_ACCEPTED"
    /\ \A k, n : ConnectionDataPacket(k, n).type # "CONNECTION_ACCEPTED"
BY DEF ConnectionAcceptedPacket, ConnectionRequestPacket, ChallengePacket,
       ChallengeResponsePacket, DisconnectPacket, ConnectionDataPacket

\* Only admissions are announced.
LEMMA WelcomesStay ==
    ASSUME WelcomesAreAdmissions, network \subseteq network', admitted \subseteq admitted',
           \A d \in network' : \/ d \in network
                               \/ d.packet.type # "CONNECTION_ACCEPTED"
                               \/ \E a \in admitted' : Announces(d.packet, a)
    PROVE  WelcomesAreAdmissions' /\ Heard \subseteq Heard'
BY PacketTypes DEF WelcomesAreAdmissions, Heard

LEMMA ListenerStays ==
    ASSUME ListenerTyped, Heard \subseteq Heard', UNCHANGED listener
    PROVE  ListenerTyped'
<1>1. listener \in [pc : ListenerPlaces, packet : Heard',
                  type : {"INVALID_PACKET"} \cup {p.type : p \in Heard'}]
  BY DEF ListenerTyped
<1>. QED
  BY <1>1 DEF ListenerTyped

\* Steps that Listen does not take, of the hosts, of RespondChallenge and of Connect: none
\* stores CONNECTED or a key that is not reset, or the index.
LEMMA OthersKeepHosts ==
    ASSUME HostInv, Heard \subseteq Heard', WelcomesAreAdmissions', admitted \subseteq admitted',
           UNCHANGED <<listener, index, mayDisconnect>>,
           state' = "CONNECTED" => UNCHANGED state,
           key' = key \/ (mayDisconnect /\ key' = ZeroKey)
    PROVE  HostInv'
<1>1. ListenerTyped'
  BY ListenerStays DEF HostInv
<1>2. WelcomeUnderKey' /\ NotConnected' /\ ConnectedToOneHost'
  BY DEF HostInv, WelcomeUnderKey, Welcomed, NotConnected, ConnectedToOneHost
<1>. QED
  BY <1>1, <1>2 DEF HostInv

LEMMA HostStepKeepsHosts ==
    ASSUME HostInv, UNCHANGED mayDisconnect, NEW h \in Hosts, HostSteps(h) PROVE HostInv'
<1>1. UNCHANGED <<clientFields, threads>>
  BY DEF HostSteps
<1>2. /\ network \subseteq network' /\ admitted \subseteq admitted'
      /\ \A d \in network' : \/ d \in network
                             \/ d.packet.type # "CONNECTION_ACCEPTED"
                             \/ \E a \in admitted' : Announces(d.packet, a)
  <2>1. CASE Says(h)
    <3>1. /\ UNCHANGED admitted
          /\ \E p : /\ p.type # "CONNECTION_ACCEPTED"
                   /\ network' = network \cup Sent(h, Me, p)
      BY <2>1, PacketTypes DEF Says
    <3>. QED
      BY <3>1, PacketFacts
  <2>5. CASE Kicks(h)
    <3>1. /\ UNCHANGED admitted
          /\ \E p : /\ p.type # "CONNECTION_ACCEPTED"
                   /\ network' = network \cup Sent(h, Me, p)
      BY <2>5, PacketTypes DEF Kicks
    <3>. QED
      BY <3>1, PacketFacts
  <2>2. ASSUME NEW d \in network, Challenges(h, d) PROVE <1>2
    <3>1. /\ UNCHANGED admitted
          /\ \E p : /\ p.type # "CONNECTION_ACCEPTED"
                   /\ network' = network \cup Sent(h, Me, p)
      BY <2>2, PacketTypes DEF Challenges
    <3>. QED
      BY <3>1, PacketFacts
  <2>3. ASSUME NEW d \in network, Admits(h, d) PROVE <1>2
    <3>. DEFINE k == hosts[h].challenge
                a == [host |-> h, key |-> k]
    <3>1. /\ admitted' = admitted \cup {a}
          /\ network' = network \cup Sent(h, Me, ConnectionAcceptedPacket(k, h))
      BY <2>3 DEF Admits
    <3>2. a \in admitted' /\ Announces(ConnectionAcceptedPacket(k, h), a)
      BY <3>1 DEF Announces
    <3>. HIDE DEF a
    <3>. QED
      BY <3>1, <3>2, PacketFacts
  <2>4. ASSUME NEW d \in network, Removes(h, d) PROVE <1>2
    BY <2>4 DEF Removes
  <2>. QED
    BY <2>1, <2>2, <2>3, <2>4, <2>5 DEF HostSteps
<1>3. WelcomesAreAdmissions' /\ Heard \subseteq Heard'
  BY <1>2, WelcomesStay DEF HostInv
<1>. QED
  BY <1>1, <1>2, <1>3, OthersKeepHosts DEF clientFields, threads

LEMMA OwnStepKeepsHosts ==
    ASSUME HostInv, PairInv, UNCHANGED mayDisconnect,
           Connecting \/ SendDisconnect \/ \E r \in Responders : Responding(r)
    PROVE  HostInv'
<1>1. /\ network \subseteq network'
      /\ \A d \in network' : d \in network \/ d.packet.type # "CONNECTION_ACCEPTED"
      /\ state' = "CONNECTED" => UNCHANGED state
      /\ key' = key \/ (mayDisconnect /\ key' = ZeroKey)
      /\ UNCHANGED <<listener, index, admitted>>
  <2>1. CASE Connecting
    <3>1. /\ UNCHANGED <<listener, index, admitted, key>>
          /\ state' = state \/ state' = "SENDING_REQUEST"
          /\ \/ network' = network
             \/ network' = network \cup UNION
                    {Sent(Me, h, ConnectionRequestPacket(KeyPair(Me, keyPair))) : h \in Hosts}
      BY <2>1 DEF Connecting, Connect
    <3>2. /\ network \subseteq network'
          /\ \A d \in network' : d \in network \/ d.packet.type # "CONNECTION_ACCEPTED"
      BY <3>1, PacketFacts, PacketTypes
    <3>. QED
      BY <3>1, <3>2
  <2>2. CASE SendDisconnect
    <3>1. /\ UNCHANGED <<listener, index, admitted>>
          /\ state' = state \/ state' = "DISCONNECTED"
          /\ key' = key \/ (caller.pc = "disconnect" /\ key' = ZeroKey)
          /\ \/ network' = network
             \/ network' = network
                    \cup SentTimes(Me, server, DisconnectPacket(caller.key), DisconnectCopies)
      BY <2>2 DEF SendDisconnect, DisconnectStep
    <3>2. caller.pc = "disconnect" => mayDisconnect
      BY DEF PairInv
    <3>3. /\ network \subseteq network'
          /\ \A d \in network' : d \in network \/ d.packet.type # "CONNECTION_ACCEPTED"
      BY <3>1, PacketFacts, PacketTypes
    <3>. QED
      BY <3>1, <3>2, <3>3
  <2>3. ASSUME NEW r \in Responders, Responding(r) PROVE <1>1
    <3>1. /\ UNCHANGED <<listener, index, admitted, key>>
          /\ state' = state \/ state' = "SENDING_CHALLENGE_RESPONSE"
          /\ \/ network' = network
             \/ network' = network \cup Sent(Me, server, ChallengeResponsePacket(responder[r].key))
      BY <2>3 DEF Responding, Responds, clientFields
    <3>2. /\ network \subseteq network'
          /\ \A d \in network' : d \in network \/ d.packet.type # "CONNECTION_ACCEPTED"
      BY <3>1, PacketFacts, PacketTypes
    <3>. QED
      BY <3>1, <3>2
  <2>. QED
    BY <2>1, <2>2, <2>3
<1>2. WelcomesAreAdmissions' /\ Heard \subseteq Heard'
  BY <1>1, WelcomesStay DEF HostInv
<1>. QED
  BY <1>1, <1>2, OthersKeepHosts

LEMMA ListenKeepsHosts ==
    ASSUME HostInv, UNCHANGED mayDisconnect,
           (\E d \in network : Receive(d)) \/ ListenGoesOn
    PROVE  HostInv'
<1>1. UNCHANGED <<network, admitted>>
  BY DEF Receive, ListenGoesOn, Verify, Test, HandleChallenge, HandleAccepted, HandleData,
         HandleDisconnect, outside
<1>2. WelcomesAreAdmissions' /\ Heard' = Heard
  BY <1>1 DEF HostInv, WelcomesAreAdmissions, Heard
<1>. DEFINE Listeners == [pc : ListenerPlaces, packet : Heard,
                          type : {"INVALID_PACKET"} \cup {p.type : p \in Heard}]
<1>3. SUFFICES listener' \in Listeners /\ WelcomeUnderKey' /\ NotConnected' /\ ConnectedToOneHost'
  <2>1. ListenerTyped' <=> listener' \in Listeners
    BY <1>2 DEF ListenerTyped
  <2>. QED
    BY <1>2, <2>1 DEF HostInv
<1>4. /\ listener \in Listeners
      /\ Idle \in Listeners /\ Idle.pc = "idle"
  BY DEF HostInv, ListenerTyped, Idle, ListenerPlaces, Heard
<1>5. ASSUME NEW d \in network, Receive(d)
      PROVE  listener' \in Listeners /\ WelcomeUnderKey' /\ NotConnected' /\ ConnectedToOneHost'
  <2>1. /\ listener.pc = "idle"
        /\ listener' = [Idle EXCEPT !.pc = "verify", !.packet = d.packet]
        /\ UNCHANGED <<state, key, index, admitted>>
    BY <1>5 DEF Receive, outside
  <2>2. d.packet \in Heard
    BY DEF Heard
  <2>3. listener' \in Listeners /\ listener'.pc = "verify"
    BY <1>4, <2>1, <2>2 DEF ListenerPlaces
  <2>. QED
    BY <2>1, <2>3 DEF HostInv, WelcomeUnderKey, Welcomed, NotConnected, ConnectedToOneHost
<1>6. CASE Verify
  <2>. DEFINE type == IF state \in {"DISCONNECTED", "SENDING_REQUEST"}
                      THEN VerifyPacketCRC(listener.packet)
                      ELSE VerifyPacketHMAC(key, listener.packet)
  <2>1. /\ listener.pc = "verify"
        /\ listener' = [listener EXCEPT !.pc = "test", !.type = type]
        /\ UNCHANGED <<state, key, index, admitted>>
    BY <1>6 DEF Verify, outside, clientFields
  <2>2. listener.packet \in Heard
    BY <1>4
  <2>3. /\ type = "INVALID_PACKET" \/ type = listener.packet.type
        /\ type = "CONNECTION_ACCEPTED" =>
              /\ listener.packet.type = "CONNECTION_ACCEPTED"
              /\ listener.packet.seal = CRC \/ listener.packet.seal = HMAC(key)
    BY DEF VerifyPacketCRC, VerifyPacketHMAC
  <2>4. type = "CONNECTION_ACCEPTED" => listener.packet.seal = HMAC(key)
    BY <2>2, <2>3, SealsDiffer, PacketTypes DEF HostInv, WelcomesAreAdmissions, Announces
  <2>. HIDE DEF type
  <2>5. /\ listener' \in Listeners /\ listener'.pc = "test" /\ listener'.type = type
        /\ listener'.packet = listener.packet
    BY <1>4, <2>1, <2>2, <2>3 DEF ListenerPlaces
  <2>. QED
    BY <2>1, <2>3, <2>4, <2>5 DEF HostInv, WelcomeUnderKey, Welcomed, NotConnected, ConnectedToOneHost
<1>7. CASE Test
  <2>. DEFINE place == Handler(listener.type)
  <2>1. /\ listener' = IF place = "idle" THEN Idle ELSE [listener EXCEPT !.pc = place]
        /\ listener.pc = "test"
        /\ UNCHANGED <<state, key, index, admitted>>
    BY <1>7 DEF Test, outside, clientFields
  <2>2. /\ place \in ListenerPlaces
        /\ place \notin {"test", "connected"}
        /\ place = "challenge" => state = "SENDING_REQUEST"
        /\ place = "accepted" =>
              listener.type = "CONNECTION_ACCEPTED" /\ state = "SENDING_CHALLENGE_RESPONSE"
    BY DEF Handler, ListenerPlaces
  <2>. HIDE DEF place
  <2>3. /\ listener' \in Listeners
        /\ listener'.pc = place
        /\ place # "idle" => listener'.packet = listener.packet
    BY <1>4, <2>1, <2>2
  <2>. QED
    BY <2>1, <2>2, <2>3 DEF HostInv, WelcomeUnderKey, Welcomed, NotConnected, ConnectedToOneHost
<1>8. CASE HandleChallenge
  <2>1. /\ listener' = Idle /\ listener.pc = "challenge"
        /\ UNCHANGED <<state, index, admitted>>
    BY <1>8 DEF HandleChallenge, outside
  <2>. QED
    BY <1>4, <2>1 DEF HostInv, WelcomeUnderKey, Welcomed, NotConnected, ConnectedToOneHost
<1>9. CASE HandleAccepted
  <2>1. CASE /\ listener.pc = "accepted" /\ index' = listener.packet.clientID
             /\ listener' = [listener EXCEPT !.pc = "connected"]
             /\ UNCHANGED <<state, key, admitted>>
    <3>1. /\ listener' \in Listeners /\ listener'.pc = "connected"
          /\ listener'.packet = listener.packet
      BY <1>4, <2>1 DEF ListenerPlaces
    <3>. QED
      BY <2>1, <3>1 DEF HostInv, WelcomeUnderKey, Welcomed, NotConnected, ConnectedToOneHost
  <2>2. CASE /\ listener.pc = "connected" /\ listener' = Idle
             /\ UNCHANGED <<key, index, admitted>>
    <3>1. listener.packet \in Heard
      BY <1>4
    <3>2. /\ listener.packet.type = "CONNECTION_ACCEPTED"
          /\ listener.packet.seal = HMAC(key) \/ (mayDisconnect /\ key = ZeroKey)
          /\ index = listener.packet.clientID
      BY <2>2 DEF HostInv, WelcomeUnderKey, Welcomed
    <3>3. PICK a \in admitted : Announces(listener.packet, a)
      BY <3>1, <3>2 DEF HostInv, WelcomesAreAdmissions
    <3>4. [host |-> index, key |-> key] \in admitted \/ (mayDisconnect /\ key = ZeroKey)
      BY <3>2, <3>3, PacketTypes, SealsDiffer DEF Announces
    <3>. QED
      BY <1>4, <2>2, <3>4 DEF HostInv, WelcomeUnderKey, Welcomed, NotConnected, ConnectedToOneHost
  <2>. QED
    BY <1>9, <2>1, <2>2 DEF HandleAccepted, outside
<1>10. CASE HandleData
  BY <1>4, <1>10 DEF HandleData, outside, HostInv, WelcomeUnderKey, Welcomed, NotConnected,
                     ConnectedToOneHost
<1>11. CASE HandleDisconnect
  <2>1. PICK next \in {"address", "state", "idle"} :
           /\ DisconnectStep(listener.pc, next)
           /\ listener' = IF next = "idle" THEN Idle ELSE [listener EXCEPT !.pc = next]
    BY <1>11 DEF HandleDisconnect
  <2>2. /\ UNCHANGED <<index, admitted>>
        /\ key' = key \/ (next = "address" /\ key' = ZeroKey)
        /\ state' = state \/ state' = "DISCONNECTED"
        /\ next # "address" => UNCHANGED key
        /\ \/ listener.pc = "disconnect" /\ next = "address"
           \/ listener.pc = "address" /\ next = "state"
           \/ listener.pc = "state" /\ next = "idle" /\ state' = "DISCONNECTED"
    BY <1>11, <2>1 DEF HandleDisconnect, DisconnectStep, outside
  <2>3. listener' \in Listeners /\ listener'.pc = next
    BY <1>4, <2>1 DEF ListenerPlaces
  <2>. QED
    BY <2>2, <2>3 DEF HostInv, WelcomeUnderKey, Welcomed, NotConnected, ConnectedToOneHost
<1>. QED
  BY <1>5, <1>6, <1>7, <1>8, <1>9, <1>10, <1>11 DEF ListenGoesOn

------------------------------------------------------------------------------
(* When the key pair is complete *)

LEMMA PairsStay ==
    ASSUME PairInv, UNCHANGED <<state, caller, halfKey, torn, mayDisconnect>>,
           listener'.pc = "challenge" => listener.pc = "challenge"
    PROVE  PairInv'
BY DEF PairInv, CallerTyped

LEMMA ListenKeepsPairs ==
    ASSUME HostInv, PairInv, UNCHANGED mayDisconnect,
           (\E d \in network : Receive(d)) \/ ListenGoesOn
    PROVE  PairInv'
<1>1. /\ Idle.pc = "idle" /\ DOMAIN Idle = {"pc", "type", "packet"}
      /\ DOMAIN listener = {"pc", "type", "packet"}
  BY DEF Idle, HostInv, ListenerTyped
<1>2. UNCHANGED <<caller, halfKey>>
  BY DEF Receive, ListenGoesOn, Verify, Test, HandleChallenge, HandleAccepted, HandleData,
         HandleDisconnect, clientFields
<1>3. CASE HandleChallenge
  <2>1. /\ listener.pc = "challenge" /\ listener'.pc = "idle" /\ UNCHANGED state
        /\ torn' = (torn \/ halfKey)
    BY <1>1, <1>3 DEF HandleChallenge
  <2>2. ~mayDisconnect => ~halfKey /\ ~torn
    BY <2>1 DEF PairInv
  <2>3. ~mayDisconnect => ~torn'
    BY <2>1, <2>2
  <2>. QED
    BY <1>2, <2>1, <2>3 DEF PairInv, CallerTyped
<1>4. CASE HandleDisconnect
  <2>1. PICK next \in {"address", "state", "idle"} :
           /\ DisconnectStep(listener.pc, next)
           /\ listener' = IF next = "idle" THEN Idle ELSE [listener EXCEPT !.pc = next]
    BY <1>4 DEF HandleDisconnect
  <2>2. listener'.pc = next
    BY <1>1, <2>1
  <2>. QED
    BY <1>2, <1>4, <2>1, <2>2 DEF HandleDisconnect, DisconnectStep, PairInv, CallerTyped
<1>5. CASE HandleAccepted
  <2>1. /\ listener'.pc # "challenge" /\ UNCHANGED torn
        /\ state' = state \/ state' = "CONNECTED"
    BY <1>1, <1>5 DEF HandleAccepted
  <2>. QED
    BY <1>2, <2>1 DEF PairInv, CallerTyped
<1>6. CASE Test
  <2>1. Handler(listener.type) = "challenge" => state = "SENDING_REQUEST"
    BY DEF Handler
  <2>2. listener'.pc = "challenge" => state = "SENDING_REQUEST"
    BY <1>1, <1>6, <2>1 DEF Test
  <2>. QED
    BY <1>2, <1>6, <2>2 DEF Test, PairInv, CallerTyped, clientFields
<1>7. CASE (\E d \in network : Receive(d)) \/ Verify \/ HandleData
  <2>1. UNCHANGED <<state, torn>> /\ listener'.pc # "challenge"
    BY <1>1, <1>7 DEF Receive, Verify, HandleData, clientFields
  <2>. QED
    BY <1>2, <2>1, PairsStay
<1>. QED
  BY <1>3, <1>4, <1>5, <1>6, <1>7 DEF ListenGoesOn

LEMMA CallKeepsPairs ==
    ASSUME PairInv, UNCHANGED mayDisconnect, Connecting \/ SendDisconnect
    PROVE  PairInv'
<1>1. UNCHANGED <<listener, torn>>
  BY DEF Connecting, SendDisconnect
<1>2. DOMAIN caller = {"pc", "key"} /\ caller.pc \in CallerPlaces
  BY DEF PairInv, CallerTyped
<1>3. CASE Connecting
  <2>1. ASSUME NEW pc, NEW next, Calls(pc, next)
        PROVE  caller.pc = pc /\ caller'.pc = next /\ DOMAIN caller' = {"pc", "key"}
    BY <1>2, <2>1 DEF Calls
  <2>2. CASE Calls("idle", "generate") /\ state = "DISCONNECTED" /\ halfKey' = TRUE /\ UNCHANGED state
    BY <1>1, <2>1, <2>2 DEF PairInv, CallerTyped, CallerPlaces
  <2>3. CASE Calls("generate", "store") /\ halfKey' = FALSE /\ UNCHANGED state
    BY <1>1, <2>1, <2>3 DEF PairInv, CallerTyped, CallerPlaces
  <2>4. CASE Calls("store", "request") /\ state' = "SENDING_REQUEST" /\ UNCHANGED halfKey
    BY <1>1, <2>1, <2>4 DEF PairInv, CallerTyped, CallerPlaces
  <2>5. CASE Calls("request", "idle") /\ UNCHANGED <<halfKey, state>>
    BY <1>1, <2>1, <2>5 DEF PairInv, CallerTyped, CallerPlaces
  <2>. QED
    BY <1>3, <2>2, <2>3, <2>4, <2>5 DEF Connecting, Connect
<1>4. CASE SendDisconnect
  <2>. DEFINE Goes(from, to) == /\ caller.pc = from /\ caller'.pc = to
                                /\ DOMAIN caller' = {"pc", "key"}
  <2>1. ASSUME NEW pc, NEW next, Calls(pc, next) PROVE Goes(pc, next)
    BY <1>2, <2>1 DEF Calls
  <2>2. /\ UNCHANGED halfKey
        /\ state' = state \/ state' = "DISCONNECTED"
    BY <1>4 DEF SendDisconnect, DisconnectStep
  <2>3. \/ mayDisconnect /\ \E to \in {"disconnect", "test"} : Calls("idle", to)
        \/ \E to \in {"disconnect", "write"} : Calls("test", to)
        \/ caller.pc = "write" /\ caller' = [pc |-> "goodbye", key |-> key]
        \/ caller.pc = "goodbye" /\ caller' = [pc |-> "disconnect", key |-> ZeroKey]
        \/ /\ caller.pc \in {"disconnect", "address", "state"}
           /\ \E to \in {"address", "state", "idle"} : Calls(caller.pc, to)
    BY <1>4 DEF SendDisconnect, DisconnectStep
  <2>4. \/ mayDisconnect /\ \E to \in {"disconnect", "test"} : Goes("idle", to)
        \/ \E to \in {"disconnect", "write"} : Goes("test", to)
        \/ Goes("write", "goodbye")
        \/ Goes("goodbye", "disconnect")
        \/ \E from \in {"disconnect", "address", "state"} :
              \E to \in {"address", "state", "idle"} : Goes(from, to)
    BY <2>1, <2>3
  <2>5. /\ DOMAIN caller' = {"pc", "key"} /\ caller'.pc \in CallerPlaces
        /\ caller.pc # "generate" /\ caller'.pc # "generate"
        /\ ~mayDisconnect => caller.pc \notin {"idle", "generate", "store", "request"}
    BY <2>4 DEF CallerPlaces
  <2>. QED
    BY <1>1, <2>2, <2>5 DEF PairInv, CallerTyped
<1>. QED
  BY <1>3, <1>4

LEMMA RespondingKeepsPairs ==
    ASSUME PairInv, UNCHANGED mayDisconnect, NEW r \in Responders, Responding(r)
    PROVE  PairInv'
<1>1. /\ UNCHANGED <<listener, caller, torn, halfKey>>
      /\ state' = state \/ state' = "SENDING_CHALLENGE_RESPONSE"
  BY DEF Responding, Responds, clientFields
<1>. QED
  BY <1>1 DEF PairInv, CallerTyped

------------------------------------------------------------------------------
(* The theorems *)

LEMMA InitClient == Init => ClientInv
<1>. SUFFICES ASSUME Init PROVE ClientInv
  OBVIOUS
<1>1. HostInv
  BY PacketTypes DEF Init, Idle, HostInv, ListenerTyped, ListenerPlaces, Heard,
     WelcomesAreAdmissions, WelcomeUnderKey, Welcomed, NotConnected, ConnectedToOneHost
<1>2. PairInv
  BY DEF Init, Idle, PairInv, CallerTyped, CallerPlaces
<1>. QED
  BY <1>1, <1>2 DEF ClientInv

LEMMA StepKeepsClient == ClientInv /\ [Next]_vars => ClientInv'
<1>. SUFFICES ASSUME HostInv, PairInv, [Next]_vars PROVE HostInv' /\ PairInv'
  BY DEF ClientInv
<1>1. CASE UNCHANGED vars
  BY <1>1 DEF vars, clientFields, threads, outside, HostInv, ListenerTyped, Heard,
     WelcomesAreAdmissions, WelcomeUnderKey, Welcomed, NotConnected, ConnectedToOneHost,
     PairInv, CallerTyped
<1>2. UNCHANGED mayDisconnect
  BY DEF Next, vars
<1>3. CASE (\E d \in network : Receive(d)) \/ ListenGoesOn
  BY <1>2, <1>3, ListenKeepsHosts, ListenKeepsPairs
<1>4. CASE Connecting \/ SendDisconnect
  BY <1>2, <1>4, OwnStepKeepsHosts, CallKeepsPairs
<1>5. ASSUME NEW r \in Responders, Responding(r) PROVE HostInv' /\ PairInv'
  BY <1>2, <1>5, OwnStepKeepsHosts, RespondingKeepsPairs
<1>6. ASSUME NEW h \in Hosts, HostSteps(h) PROVE HostInv' /\ PairInv'
  BY <1>2, <1>6, HostStepKeepsHosts, PairsStay DEF HostSteps, clientFields, threads
<1>. QED
  BY <1>1, <1>3, <1>4, <1>5, <1>6 DEF Next

\* However Listen, the calls of main() and the threads of RespondChallenge interleave, and
\* whoever answers: what Listen has found out about m_state, the key and the packet is still
\* true when its handler uses it, as far as ClientInv says.
THEOREM ClientKeepsInvariant == Spec => []ClientInv
<1>. QED
  BY InitClient, StepKeepsClient, PTL DEF Spec

\* A client that is CONNECTED was admitted by the host that its key was agreed with, under
\* the index that this host gave it, or has had its key forgotten by a Disconnect under way or
\* by SendDisconnect.
THEOREM ConnectedToItsHost == Spec => []ConnectedToOneHost
<1>1. ClientInv => ConnectedToOneHost
  BY DEF ClientInv, HostInv
<1>. QED
  BY <1>1, ClientKeepsInvariant, PTL

\* Where nobody calls SendDisconnect, Listen reads no key pair that Connect is generating.
THEOREM NoKeyOfHalfAPair == Spec => []KeyPairComplete
<1>1. ClientInv => KeyPairComplete
  BY DEF ClientInv, PairInv, KeyPairComplete
<1>. QED
  BY <1>1, ClientKeepsInvariant, PTL
=============================================================================

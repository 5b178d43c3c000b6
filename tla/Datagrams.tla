------------------------------ MODULE Datagrams ------------------------------
(***************************************************************************)
(* What Client and Server exchange: the six packets of Packet.h, the two    *)
(* ways a packet is sealed (CRC32 keyed with the protocol id before a key   *)
(* is agreed, HMAC-SHA256 under the shared key afterwards), and the UDP     *)
(* datagrams that carry them.                                               *)
(*                                                                          *)
(* Keys are symbolic.  A key pair is <<owner, n>>, the n-th pair its owner  *)
(* generated; the Diffie-Hellman secret of two pairs is the unordered pair, *)
(* so that both sides compute the same value and different pairs give       *)
(* different secrets.  The all-zero ShortSharedKey of a reset object is {}. *)
(***************************************************************************)
EXTENDS SequenceNumbers, FiniteSets

CONSTANTS
    Clients,        \* addresses of the clients' sockets, one per Client object
    ServerAddress,  \* where the broadcast to SERVER_PORT reaches the server
    NoAddress,      \* Address{}: 0.0.0.0:0, to which sendto fails
    DisconnectCopies  \* 10 in the code: datagrams sent for one disconnection

ASSUME AddressAssumption ==
    /\ ServerAddress \notin Clients
    /\ NoAddress \notin Clients \cup {ServerAddress}

ASSUME CopiesAssumption == DisconnectCopies \in Nat \ {0}

VARIABLE network    \* the datagrams in flight

------------------------------------------------------------------------------
(* Keys *)

Owners   == Clients \cup {ServerAddress, NoAddress}
KeyPairs == Owners \X Nat
Keys     == SUBSET KeyPairs

KeyPair(owner, n) == <<owner, n>>
SharedKey(p, q)   == {p, q}      \* GenerateSharedKey, then SHA-256
ZeroKey           == {}

------------------------------------------------------------------------------
(* Packets *)

CRC     == <<"CRC">>
HMAC(k) == <<"HMAC", k>>
IsSeal(s) == s = CRC \/ (s = HMAC(s[2]) /\ s[2] \in Keys)

ConnectionRequestPacket(publicKey) ==
    [type |-> "CONNECTION_REQUEST", seal |-> CRC, publicKey |-> publicKey]
ChallengePacket(publicKey) ==
    [type |-> "CHALLENGE", seal |-> CRC, publicKey |-> publicKey]
ChallengeResponsePacket(k) ==
    [type |-> "CHALLENGE_RESPONSE", seal |-> HMAC(k)]

\* Variant: the index after the slot's.
ConnectionAcceptedPacketLate(k, id) ==
    [type |-> "CONNECTION_ACCEPTED", seal |-> HMAC(k), clientID |-> id + 1]

ConnectionAcceptedPacket(k, id) ==
    [type |-> "CONNECTION_ACCEPTED", seal |-> HMAC(k), clientID |-> id]
ConnectionDataPacket(k, s) ==
    [type |-> "CONNECTION_DATA", seal |-> HMAC(k), sequence |-> s]
DisconnectPacket(k) ==
    [type |-> "DISCONNECT", seal |-> HMAC(k)]

\* Everything a Client writes, under any keys.
ClientPackets ==
    {ConnectionRequestPacket(pk) : pk \in Clients \X Nat}
    \cup (UNION {{ChallengeResponsePacket(k), DisconnectPacket(k)} : k \in Keys})
    \cup {ConnectionDataPacket(k, s) : k \in Keys, s \in SeqNumbers}

\* Variant of VerifyPacketHMAC without the memcmp of the two HMACs.
VerifyPacketHMACUnchecked(k, packet) == packet.type

\* A CRC-sealed packet fails the HMAC comparison and an HMAC-sealed one the CRC
\* comparison: a coincidence of checksums is not modelled.
VerifyPacketHMAC(k, packet) ==
    IF packet.seal = HMAC(k) THEN packet.type ELSE "INVALID_PACKET"

VerifyPacketCRC(packet) ==
    IF packet.seal = CRC THEN packet.type ELSE "INVALID_PACKET"

------------------------------------------------------------------------------
(* Datagrams *)

\* "copy" tells apart the identical datagrams of one loop of sends.
Datagram(src, dst, packet, copy) ==
    [src |-> src, dst |-> dst, packet |-> packet, copy |-> copy]

\* What Socket::Send puts on the wire: nothing if the address is unset.
Sent(src, dst, packet) ==
    IF dst = NoAddress THEN {} ELSE {Datagram(src, dst, packet, 1)}

SentTimes(src, dst, packet, copies) ==
    IF dst = NoAddress THEN {}
    ELSE {Datagram(src, dst, packet, i) : i \in 1 .. copies}
==============================================================================

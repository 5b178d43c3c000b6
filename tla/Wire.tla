-------------------------------- MODULE Wire --------------------------------
(***************************************************************************)
(* The packets of Packet.h as bytes: what Write puts into a buffer, what    *)
(* Receive takes off the wire, what the two Verify functions accept and     *)
(* what Read then finds, up to the call of a handler; and what both Listen  *)
(* functions copy to the application, whose buffer has the size it says.    *)
(*                                                                          *)
(* One session between a client and the server: at most one datagram is in  *)
(* flight, which may also be a stray one from a program that is no part of  *)
(* the game.  Datagrams and Client say the same of packets as a whole.      *)
(***************************************************************************)
EXTENDS Buffers, SequenceNumbers

CONSTANTS
    ProtocolId,    \* Packet::PROTOCOL_ID
    KeyBytes,      \* ROUNDED_PUBLIC_KEY_SIZE
    HmacBytes,     \* Hash::HMAC::SIZE
    ReceiveBytes,  \* 1024 in the code: the size of Listen's buffer
    SessionKey,    \* the key the two ends agreed on
    Packets,       \* what either end may be asked to write
    BufferSizes,   \* the sizes of the applications' buffers
    StraySizes     \* the lengths of stray datagrams

VARIABLES
    phase,     \* where the two ends are in their session: see Phases
    ack,       \* m_ack of the client
    inFlight,  \* the datagram on the wire: to whom, its bytes, and the packet they were
    heard      \* what Listen made of the last datagram, until the next is sent: see Outcome

wireVars == <<phase, ack, inFlight, heard>>

------------------------------------------------------------------------------
(* Packets *)

PacketTypes == <<"CONNECTION_REQUEST", "CHALLENGE", "CHALLENGE_RESPONSE",
                 "CONNECTION_ACCEPTED", "CONNECTION_DATA", "DISCONNECT">>
CrcTypes    == {"CONNECTION_REQUEST", "CHALLENGE"}
ServerTypes == {"CHALLENGE", "CONNECTION_ACCEPTED", "CONNECTION_DATA", "DISCONNECT"}

\* The fields of a packet that its type does not have are 0 and <<>>; "data" are the game
\* data or the public key, "key" is what Write is given to seal it with.
Packet(type, key, id, sequence, data) ==
    [type |-> type, key |-> key, id |-> id, sequence |-> sequence, data |-> data]
NoPacket == Packet("INVALID_PACKET", "none", 0, 0, <<>>)

MINIMUM_HEADER_SIZE == 4 + 1

\* Variant: gameDataSize takes two bytes.
PacketSizeShort(p) ==
    MINIMUM_HEADER_SIZE +
    CASE p.type \in CrcTypes              -> KeyBytes
      [] p.type = "CONNECTION_ACCEPTED"   -> 4
      [] p.type = "CONNECTION_DATA"       -> 2 + 2 + Len(p.data)
      [] OTHER                            -> 0

\* What Write allocates, the HMAC aside.
PacketSize(p) ==
    MINIMUM_HEADER_SIZE +
    CASE p.type \in CrcTypes              -> KeyBytes
      [] p.type = "CONNECTION_ACCEPTED"   -> 4
      [] p.type = "CONNECTION_DATA"       -> 2 + 4 + Len(p.data)
      [] OTHER                            -> 0

\* What Write may be given: a public key of its size, an id of four bytes, a sequence number
\* of two, and game data so short that the size of the buffer is a number of four bytes.
ByteCells == {Byte(n) : n \in 0 .. ByteBase - 1}
Integers4 == 0 .. ByteBase * Weight[1] - 1

IsPacket(p) ==
    \/ /\ p.type \in CrcTypes /\ p.data \in [1 .. KeyBytes -> ByteCells]
       /\ p = Packet(p.type, "none", 0, 0, p.data)
    \/ p.type \in {"CHALLENGE_RESPONSE", "DISCONNECT"} /\ p = Packet(p.type, p.key, 0, 0, <<>>)
    \/ /\ p.type = "CONNECTION_ACCEPTED" /\ p.id \in Integers4
       /\ p = Packet(p.type, p.key, p.id, 0, <<>>)
    \/ /\ p.type = "CONNECTION_DATA" /\ p.sequence \in SeqNumbers /\ p.data \in Seq(ByteCells)
       /\ p = Packet(p.type, p.key, 0, p.sequence, p.data)
       /\ PacketSize(p) + HmacBytes \in Integers4

ASSUME WireAssumption ==
    /\ SeqModulus = ByteBase * ByteBase
    /\ ByteBase > Len(PacketTypes)
    /\ ProtocolId \in Integers4
    /\ {KeyBytes, HmacBytes, ReceiveBytes} \subseteq Nat \ {0}
    /\ \A p \in Packets : IsPacket(p)
    /\ BufferSizes \subseteq Nat /\ StraySizes \subseteq Nat \ {0}

Crc(cells)       == [i \in 1 .. 4 |-> <<"crc", cells, i>>]
Hmac(key, cells) == [i \in 1 .. HmacBytes |-> <<"hmac", key, cells, i>>]

\* Variant: the size is written in front of the sequence number.
WriteFieldsSwapped(b, p) ==
    CASE p.type \in CrcTypes              -> WriteBuffer(b, p.data)
      [] p.type = "CONNECTION_ACCEPTED"   -> WriteInteger(b, p.id)
      [] p.type = "CONNECTION_DATA"       ->
            WriteBuffer(WriteShort(WriteInteger(b, Len(p.data)), p.sequence), p.data)
      [] OTHER                            -> b

WriteFields(b, p) ==
    CASE p.type \in CrcTypes              -> WriteBuffer(b, p.data)
      [] p.type = "CONNECTION_ACCEPTED"   -> WriteInteger(b, p.id)
      [] p.type = "CONNECTION_DATA"       ->
            WriteBuffer(WriteInteger(WriteShort(b, p.sequence), Len(p.data)), p.data)
      [] OTHER                            -> b

\* The Write functions: a checksum takes the place of the protocol id, an HMAC follows.
Write(p) ==
    LET size   == PacketSize(p)
        b      == NewBuffer(size + IF p.type \in CrcTypes THEN 0 ELSE HmacBytes)
        type   == CHOOSE i \in DOMAIN PacketTypes : PacketTypes[i] = p.type
        filled == WriteFields(WriteByte(WriteInteger(b, ProtocolId), type), p)
        sealed == SubSeq(filled.data, 1, size)
    IN  IF p.type \in CrcTypes THEN WriteBuffer(Rewind(filled), Crc(sealed))
        ELSE WriteBuffer(filled, Hmac(p.key, sealed))

------------------------------------------------------------------------------
(* Verify and Read.  A verified buffer has its index behind the header. *)

Verified(type, b) == [type |-> type, buffer |-> b]
Invalid(b)        == Verified("INVALID_PACKET", b)

\* The byte as a PacketType.
TypeRead(b) ==
    LET n == ReadByte(b)
    IN  IF n \in DOMAIN PacketTypes THEN Verified(PacketTypes[n], AfterRead(b, 1))
                                    ELSE Invalid(AfterRead(b, 1))

VerifyPacketHMAC(key, b) ==
    LET size    == b.size - HmacBytes
        message == ReadCells(b, size)
        hmac    == ReadCells(AfterRead(b, size), HmacBytes)
        start   == Rewind(b)
    IN  IF b.size <= HmacBytes THEN Invalid(b)
        ELSE IF hmac # Hmac(key, message) \/ ReadInteger(start) # ProtocolId THEN Invalid(start)
        ELSE TypeRead(AfterRead(start, 4))

\* Variant: the checksum is taken over itself, not over the protocol id it replaced.
VerifyPacketCRCNotPatched(b) ==
    LET crc == ReadCells(b, 4)
    IN  IF b.size <= 0 THEN Invalid(b)
        ELSE IF ~Fits(b, 4) THEN Invalid(Throw(b))
        ELSE IF crc # Crc(b.data) THEN Invalid(AfterRead(b, 4))
        ELSE TypeRead(AfterRead(b, 4))

\* Variant: the protocol id is written behind the checksum.
VerifyPacketCRCNotRewound(b) ==
    LET patched == WriteInteger(AfterRead(b, 4), ProtocolId)
    IN  IF b.size <= 0 THEN Invalid(b)
        ELSE IF ~Fits(b, 4) THEN Invalid(Throw(b))
        ELSE IF ReadCells(b, 4) # Crc(patched.data) THEN Invalid(patched)
        ELSE TypeRead(patched)

VerifyPacketCRC(b) ==
    LET patched == WriteInteger(Rewind(b), ProtocolId)
    IN  IF b.size <= 0 THEN Invalid(b)
        ELSE IF ~Fits(b, 4) THEN Invalid(Throw(b))
        ELSE IF ReadCells(b, 4) # Crc(patched.data) THEN Invalid(patched)
        ELSE TypeRead(patched)

\* The Read functions.
Read(v, key) ==
    LET b    == v.buffer
        size == ReadInteger(AfterRead(b, 2))
    IN  CASE v.type \in CrcTypes            ->
               Packet(v.type, "none", 0, 0, ReadCells(b, KeyBytes))
          [] v.type = "CONNECTION_ACCEPTED" ->
               Packet(v.type, key, ReadInteger(b), 0, <<>>)
          [] v.type = "CONNECTION_DATA"     ->
               Packet(v.type, key, 0, ReadShort(b), ReadCells(AfterRead(AfterRead(b, 2), 4), size))
          [] OTHER                          -> Packet(v.type, key, 0, 0, <<>>)

------------------------------------------------------------------------------
(* The two ends.  The handlers that move them from phase to phase are those of Client and *)
(* Server; here every phase is looked at by itself.                                      *)

Phases ==
    [client : {"DISCONNECTED", "SENDING_REQUEST", "SENDING_CHALLENGE_RESPONSE", "CONNECTED"},
     server : {"LOBBY", "GAME"},
     seated : BOOLEAN]   \* the server knows the client's address, and the session's key

NoDatagram == [to |-> "nobody", cells |-> <<>>, packet |-> NoPacket]
NothingHeard == [end |-> "nobody", size |-> 0, result |-> "nothing", packet |-> NoPacket,
                 given |-> <<>>, returned |-> 0, sent |-> NoPacket]

\* What a call of Listen with a buffer of "size" made of the datagram: a "handler" is called
\* with "packet", the game "data" of it are given, the buffer is "too small", "nothing" is
\* done, or an exception leaves Listen.  "sent" is what the datagram was written as.
Outcome(end, size, result, packet, given, returned) ==
    [end |-> end, size |-> size, result |-> result, packet |-> packet, given |-> given,
     returned |-> returned, sent |-> inFlight.packet]

WireInit ==
    /\ phase \in Phases
    /\ ack = 0
    /\ inFlight = NoDatagram
    /\ heard = NothingHeard

Send(to, p) ==
    /\ inFlight = NoDatagram
    /\ inFlight' = [to |-> to, cells |-> IF Write(p).thrown THEN <<>> ELSE Write(p).data,
                    packet |-> p]
    /\ heard' = NothingHeard
    /\ UNCHANGED <<phase, ack>>

Stray(to, n) ==
    /\ inFlight = NoDatagram
    /\ inFlight' = [to |-> to, cells |-> [i \in 1 .. n |-> Byte(0)], packet |-> NoPacket]
    /\ heard' = NothingHeard
    /\ UNCHANGED <<phase, ack>>

\* Socket::Receive: a datagram that is too long for the buffer is lost with an error.
Received ==
    IF Len(inFlight.cells) > ReceiveBytes THEN ReceivedBuffer(<<>>, -1)
    ELSE ReceivedBuffer(inFlight.cells, Len(inFlight.cells))

ServerReceives(size) ==
    LET b == Received
        v == IF phase.seated THEN VerifyPacketHMAC(SessionKey, b) ELSE VerifyPacketCRC(b)
        p == Read(v, SessionKey)
        handles == \/ v.type = "CONNECTION_REQUEST" /\ phase.server = "LOBBY"
                   \/ phase.seated /\ v.type = "CHALLENGE_RESPONSE" /\ phase.server = "LOBBY"
                   \/ phase.seated /\ v.type = "DISCONNECT"
        hasData == phase.seated /\ v.type = "CONNECTION_DATA" /\ phase.server = "GAME"
        outcome(result, packet, given, returned) ==
            heard' = Outcome("server", size, result, packet, given, returned)
    IN  /\ inFlight.to = "server"
        /\ inFlight' = NoDatagram
        /\ \/ handles /\ outcome("handler", p, <<>>, 0)
           \/ hasData /\ size >= b.size + 4 /\ outcome("data", p, p.data, Len(p.data))
           \/ hasData /\ size < b.size + 4 /\ outcome("too small", p, <<>>, -1)
           \/ ~handles /\ ~hasData /\ outcome("nothing", NoPacket, <<>>, 0)
        /\ UNCHANGED <<phase, ack>>

\* Variants: the buffer must be larger than the data; the last byte is not copied.
GivesStrictly(size, p) == size > Len(p.data)
CopiedButOne(p) == SubSeq(p.data, 1, Len(p.data) - 1)

Gives(size, p) == size >= Len(p.data)
Copied(p)      == p.data

ClientReceives(size) ==
    LET b == Received
        v == IF phase.client \in {"DISCONNECTED", "SENDING_REQUEST"}
             THEN VerifyPacketCRC(b) ELSE VerifyPacketHMAC(SessionKey, b)
        p == Read(v, SessionKey)
        hasData == phase.client = "CONNECTED" /\ v.type = "CONNECTION_DATA"
        isNew   == hasData /\ SequenceGreaterThan(p.sequence, ack)
        handles == \/ v.type = "CHALLENGE" /\ phase.client = "SENDING_REQUEST"
                   \/ v.type = "CONNECTION_ACCEPTED" /\ phase.client = "SENDING_CHALLENGE_RESPONSE"
                   \/ v.type = "DISCONNECT" /\ phase.client # "DISCONNECTED"
        \* Data before the client is connected disconnects it without being read.
        drops   == v.type = "CONNECTION_DATA" /\ phase.client \in {"SENDING_REQUEST",
                                                        "SENDING_CHALLENGE_RESPONSE"}
        outcome(result, packet, given, returned) ==
            heard' = Outcome("client", size, result, packet, given, returned)
    IN  /\ inFlight.to = "client"
        /\ inFlight' = NoDatagram
        /\ ack' = IF isNew THEN p.sequence ELSE ack
        /\ \/ handles /\ outcome("handler", p, <<>>, 0)
           \/ drops /\ outcome("disconnect", NoPacket, <<>>, 0)
           \/ isNew /\ Gives(size, p) /\ outcome("data", p, Copied(p), Len(p.data))
           \/ isNew /\ ~Gives(size, p) /\ outcome("too small", p, <<>>, -1)
           \/ v.buffer.thrown /\ outcome("exception", NoPacket, <<>>, 0)
           \/ /\ ~handles /\ ~drops /\ ~isNew /\ ~v.buffer.thrown
              /\ outcome("nothing", NoPacket, <<>>, 0)
        /\ UNCHANGED phase

WireNext ==
    \/ \E p \in Packets : Send(IF p.type \in ServerTypes THEN "client" ELSE "server", p)
    \/ \E p \in Packets : p.type \in {"CONNECTION_DATA", "DISCONNECT"} /\ Send("server", p)
    \/ \E to \in {"client", "server"}, n \in StraySizes : Stray(to, n)
    \/ \E size \in BufferSizes : ServerReceives(size) \/ ClientReceives(size)

WireSpec == WireInit /\ [][WireNext]_wireVars

------------------------------------------------------------------------------
(* Properties *)

\* The size that each Write allocates is the size of what it writes: no byte of a datagram
\* is left as it was found in memory, and no Write runs out of its buffer.
EveryByteWritten ==
    inFlight.packet # NoPacket =>
        /\ inFlight.cells # <<>>
        /\ \A i \in DOMAIN inFlight.cells : inFlight.cells[i] # Junk

\* A handler, or the application, only ever gets a packet that the other end wrote, with
\* every field as it was written, and under the session's key once there is one: for every
\* order of bytes, checksum over the protocol id, and position of the buffer's index.
ReadsWhatWasWritten ==
    heard.result \in {"handler", "data", "too small"} => heard.packet = heard.sent

\* What the other end wrote for a phase, in that phase, is never taken for an invalid packet:
\* every datagram that fits Listen's buffer gets past the checks, to its handler or to the
\* application.  (One that does not fit is lost: game data beyond 1024 - 43 bytes.)
ValidPacketsArrive ==
    LET p     == heard.sent
        ours  == p.type \in CrcTypes \/ p.key = SessionKey
        fits  == PacketSize(p) + (IF p.type \in CrcTypes THEN 0 ELSE HmacBytes) <= ReceiveBytes
        awaited == CASE heard.end = "nobody"  -> {}
                     [] heard.end = "server" /\ ~phase.seated /\ phase.server = "LOBBY" ->
                            {"CONNECTION_REQUEST"}
                     [] heard.end = "server" /\ phase.seated /\ phase.server = "LOBBY" ->
                            {"CHALLENGE_RESPONSE", "DISCONNECT"}
                     [] heard.end = "server" /\ phase.seated /\ phase.server = "GAME" ->
                            {"CONNECTION_DATA", "DISCONNECT"}
                     [] heard.end = "client" /\ phase.client = "SENDING_REQUEST" ->
                            {"CHALLENGE"}
                     [] heard.end = "client" /\ phase.client = "SENDING_CHALLENGE_RESPONSE" ->
                            {"CONNECTION_ACCEPTED", "DISCONNECT"}
                     [] heard.end = "client" /\ phase.client = "CONNECTED" -> {"DISCONNECT"}
                     [] OTHER -> {}
    IN  p.type \in awaited /\ ours /\ fits => heard.result \in {"handler", "data", "too small"}

\* The application's buffer holds what is copied into it, the server's index in front of it
\* included, and what is copied is all of the message.
GivesTheWholeMessage ==
    heard.result = "data" =>
        /\ heard.given = heard.sent.data
        /\ heard.returned = Len(heard.given)
        /\ Len(heard.given) + (IF heard.end = "server" THEN 4 ELSE 0) <= heard.size

\* m_ack passes over a message once and for all, whether the application could take it or
\* not: it has got the whole message then, or Listen has told it, with -1, that its buffer
\* was smaller than that message.
SkippedOnlyIfTold ==
    [][ack' # ack =>
          \/ heard'.given = inFlight.packet.data
          \/ heard'.returned = -1 /\ heard'.size < Len(inFlight.packet.data)]_wireVars

\* An exception leaves Listen for one reason only: something outside the game has sent the
\* client, which has no key yet, fewer bytes than a checksum has.  No datagram that an end of
\* the game wrote does that, in any phase, and m_ack is not touched.
ThrowsOnlyAtStrays ==
    [][heard'.result = "exception" =>
          /\ inFlight.packet = NoPacket /\ Len(inFlight.cells) < 4
          /\ phase.client \in {"DISCONNECTED", "SENDING_REQUEST"}
          /\ ack' = ack]_wireVars

\* False of the code: Listen says "Buffer too small for Game Data" only of a buffer that is.
\* Server::Listen demands four bytes of the application's buffer that it does not write.
TooSmallOnlyIfItIs ==
    heard.returned = -1 =>
        heard.size < Len(heard.sent.data) + (IF heard.end = "server" THEN 4 ELSE 0)
=============================================================================

----------------------------- MODULE Addresses -----------------------------
(***************************************************************************)
(* Address.cpp.  An address holds two numbers in the byte order of the     *)
(* machine, which is little-endian; sockets hold the same as bytes, the    *)
(* most significant first (Buffers!htonl, Buffers!ntohl).                  *)
(***************************************************************************)
EXTENDS Buffers

\* Address(unsigned, unsigned short), and the copies and assignments of one.
Address(address, port) == [address |-> address, port |-> port]

\* Address()
NoAddress == Address(0, 0)

\* Address(a, b, c, d, port)
FromOctets(octets, port) == Address(NumberOf(octets), port)

\* Text that inet_pton does not understand.
NotAnAddress == <<>>

\* What inet_pton leaves in memory.
Parsed(text) == [i \in 1 .. 4 |-> Byte(text[i])]

\* Variant: the parsed bytes are taken as a number of the machine.
FromTextInNetworkOrder(text, port) ==
    IF text = NotAnAddress THEN Address(0, port)
    ELSE Address(ntohl(Reverse(Parsed(text))), port)

\* Address(const char*, port)
FromText(text, port) ==
    IF text = NotAnAddress THEN Address(0, port) ELSE Address(ntohl(Parsed(text)), port)

GetAddress(a) == htonl(a.address)

GetNPort(a) == htons(a.port)

\* GetA, GetB, GetC and GetD
Octet(a, i) == Digit(a.address, i)
=============================================================================

------------------------------ MODULE MCPackets ------------------------------
(***************************************************************************)
(* What a packet passes through on its way, in small: the bytes it is       *)
(* written to and read from, the sockets, and the two checksums.  They      *)
(* share no state; a behaviour runs one of them, the others rest.           *)
(***************************************************************************)
EXTENDS Wire, Sockets, CRC, Checksums, TLC

CONSTANT Keys   \* the keys packets are sealed with

VARIABLE machine   \* the one that runs

vars == <<wireVars, socketVars, crcVars, fletcherVars, machine>>

------------------------------------------------------------------------------
\* Wire: an INDEX of one byte and one of four, numbers of one byte and of two, and data of
\* every length up to one that makes the datagram too long.
MCPacketsWritten ==
    LET publicKeys == {[n \in 1 .. KeyBytes |-> Byte(n)]}
        data       == {[n \in 1 .. size |-> Byte(ByteBase - n)] : size \in 0 .. 4}
        ids        == {1, 2 * ByteBase^3 + 3}
        numbers    == {1, ByteBase \div 2, ByteBase^2 - 2}
    IN  {Packet(type, "none", 0, 0, k) : type \in CrcTypes, k \in publicKeys}
        \cup {Packet("CONNECTION_ACCEPTED", k, id, 0, <<>>) : k \in Keys, id \in ids}
        \cup {Packet("CONNECTION_DATA", k, 0, n, d) : k \in Keys, n \in numbers, d \in data}
        \cup {Packet(type, k, 0, 0, <<>>) : type \in {"CHALLENGE_RESPONSE", "DISCONNECT"},
                                            k \in Keys}

\* Sockets: a machine whose address reads differently backwards, as do the two ports.
MCHost      == <<1, 1, 0, 1>>
MCTexts     == {<<1, 1, 0, 1>>, <<0, 0, 1, 1>>, NotAnAddress}
MCLeftovers == {<<0, 0, 0, 0>>, <<1, 1, 0, 1>>, <<1, 0, 1, 1>>}

\* CRC: a checksum of six bits over bytes of three, and every message of one or two bytes,
\* with one of three bytes, longer than the checksum.
MCThreads    == Permutations(Threads)
MCPolynomial == {0, 1}   \* x^6 + x + 1
MCMessages   == TupleOf(Bytes, 1) \cup TupleOf(Bytes, 2) \cup {<<{0}, {1, 2}, {}>>}

\* Checksums: words of four bits and sums of eight.  Blocks of four words then fill the sums
\* as far as 360 words of 16 bits fill sums of 32: no longer block would do, in the code
\* neither (360 and 361).  The sizes are those around one and two blocks.
MCSizes == {0, 3, 4, 5, 8, 9}
ASSUME 2 * (M - 1) * (Block + 2) + M * (Block + 1) * (Block + 2) >= 2 * AccBase

------------------------------------------------------------------------------
MCInit ==
    /\ machine \in {"wire", "sockets", "crc", "checksums"}
    /\ WireInit /\ SocketsInit /\ CRCInit /\ FletcherInit
    /\ machine = "wire" \/ phase = CHOOSE resting \in Phases : TRUE
    /\ machine = "checksums" \/ p_size = 0

MCNext ==
    /\ \/ machine = "wire"      /\ WireNext     /\ UNCHANGED <<socketVars, crcVars, fletcherVars>>
       \/ machine = "sockets"   /\ SocketsNext  /\ UNCHANGED <<wireVars, crcVars, fletcherVars>>
       \/ machine = "crc"       /\ CRCNext      /\ UNCHANGED <<wireVars, socketVars, fletcherVars>>
       \/ machine = "checksums" /\ FletcherNext /\ UNCHANGED <<wireVars, socketVars, crcVars>>
    /\ UNCHANGED machine

MCSpec == MCInit /\ [][MCNext]_vars
==============================================================================

------------------------------ MODULE Buffers -------------------------------
(***************************************************************************)
(* Buffer.cpp: a cursor over a block of bytes.  A cell of the block is a    *)
(* byte that was written, a byte of a checksum, which is symbolic, or what  *)
(* "new uint8_t[n]" found in memory.  A call that would leave the block     *)
(* throws and changes nothing; "thrown" remembers it, as the exception ends *)
(* whatever the buffer was used for.                                        *)
(***************************************************************************)
EXTENDS Integers, SequencesExt

CONSTANT ByteBase   \* 256 in the code: the values of a byte

ASSUME ByteAssumption == ByteBase \in Nat /\ ByteBase >= 2

Byte(n) == <<"byte", n>>
Junk    == <<"junk">>

\* Buffer(p_size) and Init(p_size).
NewBuffer(n) == [data |-> [i \in 1 .. n |-> Junk], size |-> n, index |-> 0, thrown |-> FALSE]

\* The buffer Listen receives into: p_size is then the size of what arrived, -1 for nothing.
ReceivedBuffer(cells, n) == [data |-> cells, size |-> n, index |-> 0, thrown |-> FALSE]

\* What each of the four bytes of an integer counts, the most significant first.
Weight == <<ByteBase * ByteBase * ByteBase, ByteBase * ByteBase, ByteBase, 1>>

Digit(v, n) == (v \div Weight[n]) % ByteBase
NumberOf(d) == d[1] * Weight[1] + d[2] * Weight[2] + d[3] * Weight[3] + d[4] * Weight[4]

\* What htonl and htons leave in memory, and what ntohl and ntohs make of it.
htonl(v) == [n \in 1 .. 4 |-> Byte(Digit(v, n))]
htons(v) == [n \in 1 .. 2 |-> Byte(Digit(v, n + 2))]

ntohl(cells) == NumberOf([n \in 1 .. 4 |-> cells[n][2]])
ntohs(cells) == cells[1][2] * ByteBase + cells[2][2]

\* The block has room for, or holds, n cells from the index on.
Fits(b, n) == ~b.thrown /\ b.index + n <= b.size

Throw(b) == [b EXCEPT !.thrown = TRUE]

Rewind(b) == [b EXCEPT !.index = 0]

WriteBuffer(b, cells) ==
    IF ~Fits(b, Len(cells)) THEN Throw(b)
    ELSE [b EXCEPT !.data  = SubSeq(@, 1, b.index) \o cells
                             \o SubSeq(@, b.index + Len(cells) + 1, b.size),
                   !.index = @ + Len(cells)]

WriteInteger(b, v) == WriteBuffer(b, htonl(v))
WriteShort(b, v)   == WriteBuffer(b, htons(v))
WriteByte(b, v)    == WriteBuffer(b, <<Byte(v % ByteBase)>>)

\* A read is what it returns (of a buffer it fits in) and what it makes of the buffer.
ReadCells(b, n) == SubSeq(b.data, b.index + 1, b.index + n)
AfterRead(b, n) == IF Fits(b, n) THEN [b EXCEPT !.index = @ + n] ELSE Throw(b)

ReadInteger(b) == ntohl(ReadCells(b, 4))
ReadShort(b)   == ntohs(ReadCells(b, 2))
ReadByte(b)    == ReadCells(b, 1)[1][2]
=============================================================================

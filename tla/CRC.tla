-------------------------------- MODULE CRC --------------------------------
(***************************************************************************)
(* CRC.h: the checksum of the packets that have no key yet, and the table   *)
(* every thread that writes or verifies such a packet first sees to.  A     *)
(* word is the set of the positions of its ones, so that exclusive or is    *)
(* the symmetric difference.                                                *)
(*                                                                          *)
(* The table and its flag are plain variables, and threads of client and    *)
(* server use them at the same time: a thread sees what it has stored       *)
(* itself, but the stores of the others reach it in any order, or not yet.  *)
(***************************************************************************)
EXTENDS Integers, Sequences, FiniteSetsExt

CONSTANTS
    Width,       \* POLYNOMIAL_WIDTH: 32 in the code
    ByteWidth,   \* 8 in the code
    Polynomial,  \* the bits of POLYNOMIAL
    Messages,    \* what is checksummed: sequences of bytes
    Threads

Bits  == 0 .. Width - 1
Bytes == SUBSET (0 .. ByteWidth - 1)

\* What a uint_fast32_t holds.
Registers == SUBSET Bits

ASSUME CRCAssumption ==
    /\ Width \in Nat /\ ByteWidth \in 1 .. Width
    /\ Polynomial \subseteq Bits /\ 0 \in Polynomial
    /\ Messages \subseteq Seq(Bytes)

VARIABLES
    table, isTableInit,   \* the statics of CRC32, as the threads have stored them
    at,                   \* per thread: "idle", "filling", or "ready", past InitTable
    dividend              \* per thread: how many entries it has filled

crcVars == <<table, isTableInit, at, dividend>>

------------------------------------------------------------------------------
(* The functions *)

\* What n rounds of a loop make of a value, where step[k] is what the k-th makes of one.
Rounds(value, step, n) ==
    LET after[k \in 0 .. n] == IF k = 0 THEN value ELSE step[k][after[k - 1]]
    IN  after[n]

Xor(v, w) == (v \ w) \cup (w \ v)
Shift(w, n) == {b + n : b \in w} \cap Bits

\* The bit after the topmost one: as often ReverseBits loops.
Iterations(w) == IF w = {} THEN 0 ELSE Max(w) + 1

\* Variant: without the shift after the loop.
ReverseBitsUnaligned(w, n) ==
    Shift(w, Iterations(w)) \cup {Iterations(w) - 1 - b : b \in w}

\* "reverse" starts as the number itself, which the shifts push out of its lower n bits.
ReverseBits(w, n) ==
    LET k == Iterations(w)
    IN  Shift(Shift(w, k) \cup {k - 1 - b : b \in w}, n - k)

\* Variant: the top bit is not looked at.
DivideByBitAlways(r) == Xor(Shift(r, 1), Polynomial)

DivideByBit(r) == IF Width - 1 \in r THEN Xor(Shift(r, 1), Polynomial) ELSE Shift(r, 1)

DivideByByte(r) ==
    Rounds(r, [bit \in 1 .. ByteWidth |-> [w \in Registers |-> DivideByBit(w)]], ByteWidth)

INITIAL_REMAINDER == Bits
FINAL_XOR_VALUE   == Bits

\* What a byte of the message makes of the remainder.
DivideIn(r, byte) ==
    DivideByByte(Xor(r, Shift(ReverseBits(byte, ByteWidth), Width - ByteWidth)))

\* The same by the table, where "data" is an unsigned char.
LookUp(t, r, byte) ==
    LET data == Xor(ReverseBits(byte, ByteWidth), Shift(r, ByteWidth - Width))
                    \cap (0 .. ByteWidth - 1)
    IN  Xor(t[data], Shift(r, ByteWidth))

GetCRC(bytes) ==
    LET step == [n \in 1 .. Len(bytes) |-> [r \in Registers |-> DivideIn(r, bytes[n])]]
        remainder == Rounds(INITIAL_REMAINDER, step, Len(bytes))
    IN  Xor(ReverseBits(remainder, Width), FINAL_XOR_VALUE)

GetCRCTableBased(t, bytes) ==
    LET step == [n \in 1 .. Len(bytes) |-> [r \in Registers |-> LookUp(t, r, bytes[n])]]
        remainder == Rounds(INITIAL_REMAINDER, step, Len(bytes))
    IN  Xor(ReverseBits(remainder, Width), FINAL_XOR_VALUE)

------------------------------------------------------------------------------
(* The table *)

\* The byte whose bits are those of a number, which halving brings down one after the other.
ByteOf(n) ==
    LET half == [k \in 1 .. ByteWidth |-> [v \in Nat |-> v \div 2]]
    IN  {b \in 0 .. ByteWidth - 1 : Rounds(n, half, b) % 2 = 1}

\* One for each byte: 2^ByteWidth, doubling once for each bit.
Entries == Rounds(1, [k \in 1 .. ByteWidth |-> [v \in Nat |-> 2 * v]], ByteWidth)

CRCInit ==
    /\ table = [byte \in Bytes |-> {}]
    /\ isTableInit = FALSE
    /\ at = [t \in Threads |-> "idle"]
    /\ dividend = [t \in Threads |-> 0]

\* InitTable is called for the first time: another thread's store of the flag may have
\* reached this one or not.
Call(t) ==
    /\ at[t] = "idle"
    /\ \E next \in {"filling", "ready"} :
          /\ next = "ready" => isTableInit
          /\ at' = [at EXCEPT ![t] = next]
    /\ UNCHANGED <<table, isTableInit, dividend>>

\* Variant: the entry itself is what is shifted and divided.
FillInPlace(t) ==
    /\ at[t] = "filling" /\ dividend[t] < Entries
    /\ \/ /\ table' = [table EXCEPT ![ByteOf(dividend[t])] =
                            Shift(ByteOf(dividend[t]), Width - ByteWidth)]
          /\ UNCHANGED dividend
       \/ /\ table' = [table EXCEPT ![ByteOf(dividend[t])] =
                            DivideByByte(Shift(ByteOf(dividend[t]), Width - ByteWidth))]
          /\ dividend' = [dividend EXCEPT ![t] = @ + 1]
    /\ UNCHANGED <<isTableInit, at>>

Fill(t) ==
    /\ at[t] = "filling" /\ dividend[t] < Entries
    /\ table' = [table EXCEPT ![ByteOf(dividend[t])] =
                     DivideByByte(Shift(ByteOf(dividend[t]), Width - ByteWidth))]
    /\ dividend' = [dividend EXCEPT ![t] = @ + 1]
    /\ UNCHANGED <<isTableInit, at>>

\* Nothing keeps the store of the flag behind those of the entries.
Flag(t) ==
    /\ at[t] = "filling"
    /\ isTableInit' = TRUE
    /\ UNCHANGED <<table, at, dividend>>

Return(t) ==
    /\ at[t] = "filling" /\ dividend[t] = Entries /\ isTableInit
    /\ at' = [at EXCEPT ![t] = "ready"]
    /\ UNCHANGED <<table, isTableInit, dividend>>

CRCNext == \E t \in Threads : Call(t) \/ Fill(t) \/ Flag(t) \/ Return(t)

CRCSpec == CRCInit /\ [][CRCNext]_crcVars

\* The entries a thread has stored itself.
OwnEntries(t) == {ByteOf(n) : n \in 0 .. dividend[t] - 1}

\* The tables that a thread may compute a checksum by: of the other threads' entries any may
\* have reached it.
Views(t) ==
    {[byte \in Bytes |-> IF byte \in OwnEntries(t) \cup reached THEN table[byte] ELSE {}] :
        reached \in SUBSET Bytes}

------------------------------------------------------------------------------
(* Properties *)

\* InitTable has let the thread pass because it filled the table, not because of the flag.
HasFilled(t) == at[t] = "ready" /\ dividend[t] = Entries

\* A thread that has filled the table computes by it what GetCRC computes without, while
\* any other threads store into the same entries once more.
FillersAgree ==
    \A t \in Threads : HasFilled(t) =>
        \A view \in Views(t), m \in Messages : GetCRCTableBased(view, m) = GetCRC(m)

\* False of the code: whichever thread fills the table, a checksum by it is that of GetCRC.
\* Another thread's flag may be seen before its entries.
EveryThreadAgrees ==
    \A t \in Threads : at[t] = "ready" =>
        \A view \in Views(t), m \in Messages : GetCRCTableBased(view, m) = GetCRC(m)

\* A division step from the other end, with the polynomial mirrored.
LowestOut(r) ==
    IF 0 \in r THEN Xor(Shift(r, -1), {Width - 1 - b : b \in Polynomial}) ELSE Shift(r, -1)

\* The CRC as it is usually given: the lowest bit of a byte comes first.
LowestFirst(bytes) ==
    LET bits == [bit \in 1 .. ByteWidth |-> [w \in Registers |-> LowestOut(w)]]
        step == [n \in 1 .. Len(bytes) |->
                    [r \in Registers |-> Rounds(Xor(r, bytes[n]), bits, ByteWidth)]]
    IN  Xor(Rounds(Bits, step, Len(bytes)), Bits)

\* The two reversals of GetCRC make it that CRC.
IsTheUsualCRC ==
    \A t \in Threads : HasFilled(t) =>
        \A view \in Views(t), m \in Messages : GetCRCTableBased(view, m) = LowestFirst(m)

\* Bytes with some bits flipped; bit b of byte i has the number (i - 1) * ByteWidth + b.
Flipped(bytes, bits) ==
    [i \in DOMAIN bytes |->
        Xor(bytes[i], {b \in 0 .. ByteWidth - 1 : (i - 1) * ByteWidth + b \in bits})]

\* Bits to flip that are not further apart than the checksum is wide.
Bursts(n) ==
    UNION {{{first + b : b \in w \cup {0}} : w \in SUBSET Bits} : first \in 0 .. n - 1}

\* A checksummed message in which any such bits arrive flipped has another checksum.
DetectsBursts ==
    \A t \in Threads : HasFilled(t) =>
        \A view \in Views(t), m \in Messages :
            LET n == Len(m) * ByteWidth
            IN  \A burst \in Bursts(n) :
                    burst \subseteq 0 .. n - 1
                        => GetCRCTableBased(view, Flipped(m, burst)) # GetCRCTableBased(view, m)
=============================================================================

----------------------------- MODULE Checksums -----------------------------
(***************************************************************************)
(* Fletcher32_improved of Checksums.cpp, which makes PROTOCOL_ID, against   *)
(* Fletcher32: it takes the remainder of its sums only after every block of *)
(* 360 words, "delaying modulo until necessary", and so must not outgrow    *)
(* its accumulators before.  Both read the same words, of any value.        *)
(***************************************************************************)
EXTENDS Integers

CONSTANTS
    WordBase,   \* 2^16 in the code: uint16_t
    AccBase,    \* 2^32 in the code: uint32_t
    Block,      \* 360 in the code
    Sizes       \* the values of p_size

M == WordBase - 1

\* What sumA and sumB may have become after n words, from sums that are remainders.
BoundA(n) == (M - 1) + M * n
BoundB(n) == 2 * (M - 1) * (n + 1) + M * n * (n + 1)

ASSUME ChecksumsAssumption ==
    /\ WordBase \in Nat /\ WordBase >= 3
    /\ AccBase \in Nat
    /\ Block \in Nat \ {0}
    /\ BoundA(Block) < AccBase /\ BoundB(Block) < 2 * AccBase
    /\ Sizes \subseteq Nat

VARIABLES
    loop,           \* where the improved function is: "outer" loop, its "block", the "tail", "done"
    p_size, i,    \* its variables
    sumA, sumB,
    plainA, plainB   \* the sums of Fletcher32

fletcherVars == <<loop, p_size, i, sumA, sumB, plainA, plainB>>

Words == 0 .. WordBase - 1

\* An iteration of Fletcher32.
Fletcher32(word) ==
    /\ plainA' = (plainA + word) % M
    /\ plainB' = (plainB + plainA') % M

\* sumA = sumA + *p_data++; sumB = sumB + sumA
AddWord(word) ==
    /\ sumA' = (sumA + word) % AccBase
    /\ sumB' = (sumB + sumA') % AccBase
    /\ i' = i + 1

\* Variant: sumB is left as it is.
TakeRemainderOfA ==
    /\ sumA' = sumA % M
    /\ sumB' = sumB

TakeRemainders ==
    /\ sumA' = sumA % M
    /\ sumB' = sumB % M

FletcherInit ==
    /\ loop = "outer" /\ p_size \in Sizes /\ i = 0
    /\ sumA = 0 /\ sumB = 0 /\ plainA = 0 /\ plainB = 0

EnterBlock ==
    /\ loop = "outer" /\ p_size >= Block
    /\ loop' = "block" /\ i' = 0
    /\ UNCHANGED <<p_size, sumA, sumB, plainA, plainB>>

\* Variant: one word more.
InBlockToo(n) == n <= Block

InBlock(n) == n < Block

BlockWord ==
    /\ loop = "block" /\ InBlock(i)
    /\ \E word \in Words : AddWord(word) /\ Fletcher32(word)
    /\ UNCHANGED <<loop, p_size>>

BlockEnd ==
    /\ loop = "block" /\ ~InBlock(i)
    /\ TakeRemainders
    /\ loop' = "outer" /\ p_size' = p_size - Block
    /\ UNCHANGED <<i, plainA, plainB>>

EnterTail ==
    /\ loop = "outer" /\ p_size < Block
    /\ loop' = "tail" /\ i' = 0
    /\ UNCHANGED <<p_size, sumA, sumB, plainA, plainB>>

TailWord ==
    /\ loop = "tail" /\ i < p_size
    /\ \E word \in Words : AddWord(word) /\ Fletcher32(word)
    /\ UNCHANGED <<loop, p_size>>

TailEnd ==
    /\ loop = "tail" /\ i >= p_size
    /\ TakeRemainders
    /\ loop' = "done"
    /\ UNCHANGED <<p_size, i, plainA, plainB>>

FletcherNext ==
    EnterBlock \/ BlockWord \/ BlockEnd \/ EnterTail \/ TailWord \/ TailEnd

FletcherSpec == FletcherInit /\ [][FletcherNext]_fletcherVars

------------------------------------------------------------------------------
(* Properties *)

\* The sums stay within what 32 bits hold, at any number of words of any value, and what
\* they are is congruent to what Fletcher32 has: no addition of a block wraps around.
SumsAreTrue ==
    /\ sumA \in 0 .. BoundA(Block) /\ 2 * sumB <= BoundB(Block) /\ sumB \in Nat
    /\ plainA = sumA % M /\ plainB = sumB % M

\* Both functions return the same.
ImprovedIsFletcher32 == loop = "done" => sumA = plainA /\ sumB = plainB
=============================================================================

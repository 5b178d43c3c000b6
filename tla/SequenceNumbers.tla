--------------------------- MODULE SequenceNumbers ---------------------------
(***************************************************************************)
(* The 16-bit sequence number that PropagateGameData and SendGameData put  *)
(* into every CONNECTION_DATA packet, and the wrap-around comparison by     *)
(* which Client::Listen decides whether a packet is newer than the last one *)
(* it accepted (Packet::SequenceGreaterThan).                               *)
(***************************************************************************)
EXTENDS Integers

CONSTANT SeqModulus   \* 2^16 in the code: the number of values of a uint16_t

\* With fewer than three values no number is ahead of its predecessor.
ASSUME SeqModulusAssumption == SeqModulus \in Nat /\ SeqModulus >= 3

SeqNumbers == 0 .. SeqModulus - 1

\* Variant: a counter that never wraps.
NextSequencePlain(s) == s + 1

\* ++sequence on a uint16_t.
NextSequence(s) == (s + 1) % SeqModulus

------------------------------------------------------------------------------
\* Variant: no wrap-around.
SequenceGreaterThanPlain(s1, s2) == s1 > s2

------------------------------------------------------------------------------
(***************************************************************************)
(* numeric_limits<T>::max() * 0.5f is (SeqModulus - 1) / 2; both sides of   *)
(* the comparison are doubled to stay in the integers.  The subtraction is  *)
(* done on ints (integral promotion), so it does not wrap.                  *)
(***************************************************************************)
SequenceGreaterThan(s1, s2) ==
    \/ s1 > s2 /\ 2 * (s1 - s2) <= SeqModulus - 1
    \/ s1 < s2 /\ 2 * (s2 - s1) > SeqModulus - 1
==============================================================================

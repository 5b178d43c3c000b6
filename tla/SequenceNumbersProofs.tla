------------------------ MODULE SequenceNumbersProofs ------------------------
(***************************************************************************)
(* What Packet::SequenceGreaterThan promises, for every modulus.            *)
(***************************************************************************)
EXTENDS SequenceNumbers, TLAPS

\* Two different sequence numbers are always comparable, one way only, and none is
\* ahead of itself: at exactly half the range the second disjunct decides.
THEOREM SequenceTrichotomy ==
    ASSUME NEW s \in SeqNumbers, NEW t \in SeqNumbers
    PROVE  /\ ~SequenceGreaterThan(s, s)
           /\ s # t => (SequenceGreaterThan(s, t) <=> ~SequenceGreaterThan(t, s))
BY SeqModulusAssumption DEF SeqNumbers, SequenceGreaterThan

LEMMA Remainder ==
    ASSUME NEW n \in Nat
    PROVE  /\ n % SeqModulus \in SeqNumbers
           /\ n \div SeqModulus \in Int
           /\ n = SeqModulus * (n \div SeqModulus) + (n % SeqModulus)
<1>1. n % SeqModulus \in SeqNumbers
  BY SeqModulusAssumption DEF SeqNumbers
<1>2. n \div SeqModulus \in Int
  BY SeqModulusAssumption
<1>3. n = SeqModulus * (n \div SeqModulus) + (n % SeqModulus)
  BY SeqModulusAssumption
<1>. QED
  BY <1>1, <1>2, <1>3

\* Numbers less than one turn apart keep their distance, or lose one turn of it.
LEMMA DistanceModulo ==
    ASSUME NEW m \in Nat, NEW n \in Nat, n < m, m - n < SeqModulus
    PROVE  \/ (m % SeqModulus) - (n % SeqModulus) = m - n
           \/ (m % SeqModulus) - (n % SeqModulus) = m - n - SeqModulus
<1>. DEFINE M == SeqModulus
            q == (m \div M) - (n \div M)
            r == (m % M) - (n % M)
<1>1. /\ q \in Int /\ r \in Int /\ M \in Nat
      /\ m - n = M * q + r
      /\ -M < r /\ r < M
  BY Remainder, SeqModulusAssumption DEF SeqNumbers
<1>. HIDE DEF q, r
<1>2. q = 0 \/ q = 1
  <2>1. ASSUME q >= 2 PROVE FALSE
    <3>1. M * q >= 2 * M
      BY <1>1, <2>1
    <3>. QED
      BY <1>1, <3>1
  <2>2. ASSUME q <= -1 PROVE FALSE
    <3>1. M * q <= -M
      BY <1>1, <2>2
    <3>. QED
      BY <1>1, <3>1
  <2>. QED
    BY <1>1, <2>1, <2>2
<1>3. M * 0 = 0 /\ M * 1 = M
  BY <1>1
<1>. QED
  BY <1>1, <1>2, <1>3 DEF r

\* Adding one to a wrapped counter is adding one to the counter.
LEMMA NextModulo ==
    ASSUME NEW n \in Nat
    PROVE  NextSequence(n % SeqModulus) = (n + 1) % SeqModulus
<1>. DEFINE M == SeqModulus
            r == n % M
<1>1. r \in 0 .. M - 1 /\ (n + 1) % M \in 0 .. M - 1
  BY Remainder DEF SeqNumbers
<1>2. ((n + 1) % M) - r = 1 \/ ((n + 1) % M) - r = 1 - M
  <2>1. (n + 1) - n = 1 /\ n < n + 1 /\ (n + 1) - n < M
    BY SeqModulusAssumption
  <2>. QED
    BY <2>1, DistanceModulo
<1>. HIDE DEF r
<1>3. CASE r + 1 < M
  <2>1. (r + 1) % M = r + 1
    BY <1>1, <1>3, SeqModulusAssumption
  <2>. QED
    BY <1>1, <1>2, <1>3, <2>1, SeqModulusAssumption DEF NextSequence, r
<1>4. CASE r + 1 = M
  <2>1. (r + 1) % M = 0
    BY <1>1, <1>4, SeqModulusAssumption
  <2>. QED
    BY <1>1, <1>2, <1>4, <2>1, SeqModulusAssumption DEF NextSequence, r
<1>. QED
  BY <1>1, <1>3, <1>4, SeqModulusAssumption

\* Two counts that leave the same number are whole turns apart.
LEMMA SameRemainder ==
    ASSUME NEW m \in Nat, NEW n \in Nat, m % SeqModulus = n % SeqModulus
    PROVE  (m - n) % SeqModulus = 0
<1>. DEFINE M == SeqModulus
            x == m - n
            r == x % M
            q == (m \div M) - (n \div M) - (x \div M)
<1>1. /\ m = M * (m \div M) + (m % M) /\ n = M * (n \div M) + (n % M)
      /\ m \div M \in Int /\ n \div M \in Int /\ m % M \in Int /\ M \in Nat
  BY Remainder, SeqModulusAssumption DEF SeqNumbers
<1>2. x \in Int /\ x \div M \in Int /\ r \in 0 .. M - 1 /\ x = M * (x \div M) + r
  BY SeqModulusAssumption
<1>3. q \in Int /\ r = M * q
  <2>1. x = M * (m \div M) - M * (n \div M)
    BY <1>1
  <2>. QED
    BY <1>1, <1>2, <2>1
<1>. HIDE DEF q, r
<1>4. q = 0
  <2>1. ASSUME q >= 1 PROVE FALSE
    <3>1. M * q >= M
      BY <1>1, <1>3, <2>1
    <3>. QED
      BY <1>1, <1>2, <1>3, <3>1
  <2>2. ASSUME q <= -1 PROVE FALSE
    <3>1. M * q <= -M
      BY <1>1, <1>3, <2>2
    <3>. QED
      BY <1>1, <1>2, <1>3, <3>1, SeqModulusAssumption
  <2>. QED
    BY <1>3, <2>1, <2>2
<1>. QED
  BY <1>1, <1>3, <1>4 DEF r

\* Within half a turn the comparison of the 16-bit numbers is that of the packets'
\* true order, wherever the counter wraps around.
THEOREM SequenceOrder ==
    ASSUME NEW m \in Nat, NEW n \in Nat,
           2 * (m - n) <= SeqModulus - 1, 2 * (n - m) <= SeqModulus - 1
    PROVE  SequenceGreaterThan(m % SeqModulus, n % SeqModulus) <=> m > n
<1>1. m % SeqModulus \in SeqNumbers /\ n % SeqModulus \in SeqNumbers
  BY Remainder
<1>2. CASE n < m
  <2>1. m - n < SeqModulus
    BY <1>2, SeqModulusAssumption
  <2>2. \/ (m % SeqModulus) - (n % SeqModulus) = m - n
        \/ (m % SeqModulus) - (n % SeqModulus) = m - n - SeqModulus
    BY <1>2, <2>1, DistanceModulo
  <2>. QED
    BY <1>1, <1>2, <2>2, SeqModulusAssumption DEF SequenceGreaterThan, SeqNumbers
<1>3. CASE m < n
  <2>1. n - m < SeqModulus
    BY <1>3, SeqModulusAssumption
  <2>2. \/ (n % SeqModulus) - (m % SeqModulus) = n - m
        \/ (n % SeqModulus) - (m % SeqModulus) = n - m - SeqModulus
    BY <1>3, <2>1, DistanceModulo
  <2>. QED
    BY <1>1, <1>3, <2>2, SeqModulusAssumption DEF SequenceGreaterThan, SeqNumbers
<1>4. CASE m = n
  BY <1>1, <1>4, SequenceTrichotomy
<1>. QED
  BY <1>2, <1>3, <1>4
==============================================================================

-------------------------- MODULE DataStreamProofs --------------------------
(***************************************************************************)
(* DataStream hands over game data in order and without repetition, for     *)
(* every modulus and however often the counter wraps around: it implements  *)
(* InOrderDelivery.                                                         *)
(***************************************************************************)
EXTENDS DataStream, SequenceNumbersProofs

------------------------------------------------------------------------------
(* TypeOK and CountersAgree are inductive together. *)

Inv == TypeOK /\ CountersAgree

LEMMA InitInv == Init => Inv
<1>1. 0 \in SeqNumbers /\ 0 % SeqModulus = 0
  BY SeqModulusAssumption DEF SeqNumbers
<1>. QED
  BY <1>1, MaxLagAssumption DEF Init, Inv, TypeOK, CountersAgree

\* On the packets that can meet, the comparison is that of the true numbers.
LEMMA ComparesTrueOrder ==
    ASSUME Inv, NEW p \in inFlight
    PROVE  /\ p.number \in Nat /\ p.sequence \in SeqNumbers
           /\ SequenceGreaterThan(p.sequence, ack) <=> p.number > accepted
<1>1. p.number \in Nat /\ p.sequence \in SeqNumbers
  BY DEF Inv, TypeOK, Packets
<1>2. /\ 2 * (p.number - accepted) <= SeqModulus - 1
      /\ 2 * (accepted - p.number) <= SeqModulus - 1
  <2>1. p.number - accepted <= MaxLag /\ accepted - p.number <= MaxLag
    BY <1>1, MaxLagAssumption DEF Inv, TypeOK, CountersAgree
  <2>. QED
    BY <1>1, <2>1, MaxLagAssumption, SeqModulusAssumption DEF Inv, TypeOK
<1>3. p.sequence = p.number % SeqModulus /\ ack = accepted % SeqModulus
  BY DEF Inv, CountersAgree
<1>. QED
  BY <1>1, <1>2, <1>3, SequenceOrder DEF Inv, TypeOK

LEMMA NextInv == Inv /\ [Next]_vars => Inv'
<1>. SUFFICES ASSUME Inv, [Next]_vars PROVE Inv'
  OBVIOUS
<1>. USE DEF Inv
<1>1. CASE Send
  <2>. DEFINE new == [number |-> sent', sequence |-> sequence']
  <2>1. /\ sent' = sent + 1 /\ sequence' = (sent + 1) % SeqModulus
        /\ sequence' \in SeqNumbers /\ sent' \in Nat
    BY <1>1, NextModulo, Remainder DEF Send, TypeOK, CountersAgree
  <2>2. \A p \in inFlight' :
           \/ p = new
           \/ p \in inFlight /\ sent' - p.number <= MaxLag
    BY <1>1 DEF Send
  <2>3. new \in Packets
    BY <2>1 DEF Packets
  <2>4. TypeOK'
    BY <1>1, <2>1, <2>2, <2>3 DEF Send, TypeOK
  <2>5. \A p \in inFlight' :
           /\ p.sequence = p.number % SeqModulus
           /\ p.number <= sent' /\ sent' - p.number <= MaxLag
    <3>1. ASSUME NEW p \in inFlight, sent' - p.number <= MaxLag
          PROVE  /\ p.sequence = p.number % SeqModulus
                 /\ p.number <= sent' /\ sent' - p.number <= MaxLag
      BY <2>1, <3>1 DEF TypeOK, CountersAgree, Packets
    <3>2. /\ new.sequence = new.number % SeqModulus
          /\ new.number <= sent' /\ sent' - new.number <= MaxLag
      BY <1>1, <2>1, MaxLagAssumption DEF Send, TypeOK
    <3>. QED
      BY <2>2, <3>1, <3>2
  <2>6. CountersAgree'
    BY <1>1, <2>1, <2>5, MaxLagAssumption DEF Send, TypeOK, CountersAgree
  <2>. QED
    BY <2>4, <2>6
<1>2. ASSUME NEW p \in inFlight, Receive(p) PROVE Inv'
  <2>1. CASE p.number > accepted
    BY <1>2, <2>1, ComparesTrueOrder DEF Receive, TypeOK, CountersAgree
  <2>2. CASE ~ (p.number > accepted)
    BY <1>2, <2>2, ComparesTrueOrder DEF Receive, TypeOK, CountersAgree
  <2>. QED
    BY <2>1, <2>2
<1>3. ASSUME NEW p \in inFlight, Lose(p) PROVE Inv'
  BY <1>3 DEF Lose, TypeOK, CountersAgree
<1>4. CASE UNCHANGED vars
  BY <1>4 DEF vars, TypeOK, CountersAgree
<1>. QED
  BY <1>1, <1>2, <1>3, <1>4 DEF Next

\* The wrapped counters stand for the true ones in every reachable state.
THEOREM CountersAlwaysAgree == Spec => [](TypeOK /\ CountersAgree)
BY InitInv, NextInv, PTL DEF Spec, Inv

\* The counters at both ends, and the numbers of the packets under way, fit their width,
\* across every wrap-around.
THEOREM CountersAreTyped == Spec => []TypeOK
BY CountersAlwaysAgree, PTL

\* In every reachable state the comparison of the 16-bit numbers decides like that of
\* the true ones.
THEOREM DecisionIsByTrueOrder == Spec => []DecidesByTrueOrder
<1>1. Inv => DecidesByTrueOrder
  BY ComparesTrueOrder DEF DecidesByTrueOrder
<1>2. Spec => []Inv
  BY InitInv, NextInv, PTL DEF Spec
<1>. QED
  BY <1>1, <1>2, PTL

\* The stream delivers in order and at most once: it implements InOrderDelivery.
THEOREM StreamIsInOrder == Spec => InOrderSpec
<1>1. Init => InOrder!Init
  BY DEF Init, InOrder!Init
<1>2. Inv /\ [Next]_vars => [InOrder!Next]_<<sent, accepted>>
  <2>. SUFFICES ASSUME Inv, [Next]_vars PROVE [InOrder!Next]_<<sent, accepted>>
    OBVIOUS
  <2>1. CASE Send
    BY <2>1 DEF Send, InOrder!Next, InOrder!Send
  <2>2. ASSUME NEW p \in inFlight, Receive(p)
        PROVE  [InOrder!Next]_<<sent, accepted>>
    <3>1. CASE p.number > accepted
      <4>1. accepted' = p.number /\ sent' = sent
        BY <2>2, <3>1, ComparesTrueOrder DEF Receive
      <4>2. p.number \in accepted + 1 .. sent
        BY <3>1, ComparesTrueOrder DEF Inv, TypeOK, CountersAgree
      <4>. QED
        BY <4>1, <4>2 DEF InOrder!Next, InOrder!Deliver
    <3>2. CASE ~ (p.number > accepted)
      BY <2>2, <3>2, ComparesTrueOrder DEF Receive
    <3>. QED
      BY <3>1, <3>2
  <2>3. ASSUME NEW p \in inFlight, Lose(p)
        PROVE  [InOrder!Next]_<<sent, accepted>>
    BY <2>3 DEF Lose
  <2>4. CASE UNCHANGED vars
    BY <2>4 DEF vars
  <2>. QED
    BY <2>1, <2>2, <2>3, <2>4 DEF Next
<1>3. Spec => []Inv
  BY InitInv, NextInv, PTL DEF Spec
<1>. QED
  BY <1>1, <1>2, <1>3, PTL DEF Spec, InOrderSpec, InOrder!Spec
==============================================================================

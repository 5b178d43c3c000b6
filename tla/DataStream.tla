----------------------------- MODULE DataStream -----------------------------
(***************************************************************************)
(* The game data of one session in one direction: the sender numbers its    *)
(* CONNECTION_DATA packets with a counter of 16 bits, the network loses,    *)
(* duplicates and reorders them, and Client::Listen hands over those that   *)
(* SequenceGreaterThan finds newer than m_ack.  "number" is a packet's true  *)
(* place in the order of sending, which no program variable holds.          *)
(***************************************************************************)
EXTENDS SequenceNumbers

CONSTANT MaxLag   \* how many numbers apart the packets are that can still meet

\* The code compares within half a turn of the counter and leaves it to the network that
\* packets 32767 sends apart never meet.
ASSUME MaxLagAssumption == MaxLag \in Nat /\ 2 * MaxLag <= SeqModulus - 1

VARIABLES
    sent,      \* packets sent so far
    sequence,  \* m_sequence of the sender
    inFlight,  \* packets that may still arrive, [number, sequence]
    ack,       \* m_ack of the receiver
    accepted   \* the number of the packet handed over last; 0 for none

vars == <<sent, sequence, inFlight, ack, accepted>>

Packets == [number : Nat, sequence : SeqNumbers]

Init ==
    /\ sent = 0 /\ sequence = 0
    /\ inFlight = {}
    /\ ack = 0 /\ accepted = 0

\* SendGameData, or PropagateGameData for one connection.  The network's part: one of
\* MaxLag packets in a row arrives in time, and a packet MaxLag sends old is gone.
Send ==
    /\ sent - accepted < MaxLag
    /\ sent' = sent + 1
    /\ sequence' = NextSequence(sequence)
    /\ inFlight' = {p \in inFlight : sent' - p.number <= MaxLag}
                   \cup {[number |-> sent', sequence |-> sequence']}
    /\ UNCHANGED <<ack, accepted>>

\* Variants: the number is not compared; m_ack is not advanced.
ReceiveAny(p) ==
    /\ ack' = p.sequence /\ accepted' = p.number
    /\ UNCHANGED <<sent, sequence, inFlight>>
ReceiveKeepAck(p) ==
    /\ IF SequenceGreaterThan(p.sequence, ack) THEN accepted' = p.number ELSE UNCHANGED accepted
    /\ UNCHANGED <<sent, sequence, inFlight, ack>>

\* Listen on a CONNECTION_DATA packet.  The packet stays in flight: its copy may follow.
Receive(p) ==
    /\ IF SequenceGreaterThan(p.sequence, ack)
          THEN ack' = p.sequence /\ accepted' = p.number
          ELSE UNCHANGED <<ack, accepted>>
    /\ UNCHANGED <<sent, sequence, inFlight>>

Lose(p) ==
    /\ sent - accepted < MaxLag \/ \E q \in inFlight \ {p} : q.number > accepted
    /\ inFlight' = inFlight \ {p}
    /\ UNCHANGED <<sent, sequence, ack, accepted>>

Next ==
    \/ Send
    \/ \E p \in inFlight : Receive(p) \/ Lose(p)

Spec == Init /\ [][Next]_vars

------------------------------------------------------------------------------
(* Properties *)

\* The counters are numbers, and what is in flight was sent.
TypeOK ==
    /\ sent \in Nat /\ accepted \in Nat
    /\ sequence \in SeqNumbers /\ ack \in SeqNumbers
    /\ inFlight \subseteq Packets

\* The 16-bit numbers are the true ones modulo 2^16 throughout, across every
\* wrap-around: m_ack is that of the packet handed over last, and a packet in flight is
\* within MaxLag of it, in front or behind.
CountersAgree ==
    /\ sequence = sent % SeqModulus
    /\ ack = accepted % SeqModulus
    /\ accepted <= sent /\ sent - accepted <= MaxLag
    /\ \A p \in inFlight :
          /\ p.sequence = p.number % SeqModulus
          /\ p.number <= sent /\ sent - p.number <= MaxLag

\* Whichever packet arrives next, it is handed over exactly when it was sent later than
\* everything handed over before, on whichever side of the wrap-around either is: no new
\* packet is dropped and no old one is taken for new.
DecidesByTrueOrder ==
    \A p \in inFlight : SequenceGreaterThan(p.sequence, ack) <=> p.number > accepted

\* The application sees the messages in order and each at most once.
InOrder == INSTANCE InOrderDelivery WITH sent <- sent, accepted <- accepted
InOrderSpec == InOrder!Spec
==============================================================================

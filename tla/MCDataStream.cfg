\* A counter of eight values, three turns of it.
CONSTANTS
    SeqModulus = 8
    MaxLag = 3
    MaxSent = 26
SPECIFICATION MCSpec
INVARIANTS
    TypeOK
    CountersAgree
    DecidesByTrueOrder
PROPERTIES
    InOrderSpec
\* The sender may stop sending: it does after MaxSent packets.
CHECK_DEADLOCK FALSE

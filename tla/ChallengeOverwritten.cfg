\* Four clients against the server alone.
CONSTANTS
    Clients = {c1, c2, c3, c4}
    ServerAddress = server
    NoAddress = noaddress
    LocalHost = localhost
    SeqModulus = 3
    MAX_CLIENTS = 4
    GarbageKeys <- MCGarbage
    DisconnectCopies = 1
    MaxKeyPairs = 4
    MaxDeficit = 1
SPECIFICATION MCSpec
SYMMETRY MCSymmetry
PROPERTIES
    HandshakeKept

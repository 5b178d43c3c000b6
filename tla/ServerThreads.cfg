SPECIFICATION MCSpec
\* Two slots for clients, which change hands.
CONSTANTS
    Clients = {c1, c2}
    ServerAddress = server
    NoAddress = noaddress
    LocalHost = localhost
    SeqModulus = 8
    MAX_CLIENTS = 3
    GarbageKeys = {}
    DisconnectCopies = 1
    Applications <- MCApplications
    MaxKeyPairs = 2
    MaxMessages = 2
    MaxDeficit = 1
SYMMETRY MCSymmetry
INVARIANTS
    EntriesAreWhole
    NeverToAnEarlierOwner
    OneNumberPerMessage
    AcceptedFirst

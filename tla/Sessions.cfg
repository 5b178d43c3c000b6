\* Clients that connect, leave, rejoin and are destroyed, a server that is restarted;
\* every datagram may be repeated.
CONSTANTS
    Clients = {c1, c2}
    ServerAddress = server
    NoAddress = noaddress
    LocalHost = localhost
    Responders = {r1, r2}
    SeqModulus = 8
    MAX_CLIENTS = 3
    MaxDeficit = 1
    GarbageKeys <- MCGarbage
    DisconnectCopies = 1
    MayDuplicate = TRUE
    Scenarios <- MCSafety
SPECIFICATION MCSpec
SYMMETRY MCSymmetry
INVARIANTS
    TypeOK
    ConnectedIsAdmitted
    KeyAdmittedOnce
    HostAttribution
PROPERTIES
    SessionEndsForReason
    SessionsSpec

SPECIFICATION MCFairSpec
\* Two clients that join one after the other while game data goes both ways; nothing
\* is lost, everything may be repeated.  Liveness: no symmetry.
CONSTANTS
    Clients = {c1, c2}
    ServerAddress = server
    NoAddress = noaddress
    LocalHost = localhost
    Responders = {r1, r2}
    SeqModulus = 8
    MAX_CLIENTS = 3
    MaxDeficit = 1
    GarbageKeys = {}
    DisconnectCopies = 1
    MayDuplicate = TRUE
    Scenarios <- MCJoin
PROPERTIES
    ConnectSucceeds
\* Once everyone is connected nothing is left to do.
CHECK_DEADLOCK FALSE

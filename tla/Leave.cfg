SPECIFICATION MCFairSpec
\* Two clients that join and leave, one of them twice, each DISCONNECT sent twice; nothing is
\* lost.  Liveness: no symmetry.
CONSTANTS
    Clients = {c1, c2}
    ServerAddress = server
    NoAddress = noaddress
    LocalHost = localhost
    Responders = {r1, r2}
    SeqModulus = 8
    MAX_CLIENTS = 3
    MaxDeficit = 9
    GarbageKeys = {}
    DisconnectCopies = 2
    MayDuplicate = FALSE
    Scenarios <- MCLeave
PROPERTIES
    FirstSlotIsReleased

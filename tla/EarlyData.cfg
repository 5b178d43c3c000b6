\* The host propagates while the client's handshake ends.
CONSTANTS
    Clients = {c1, c2}
    ServerAddress = server
    NoAddress = noaddress
    LocalHost = localhost
    Responders = {r1, r2}
    SeqModulus = 8
    MAX_CLIENTS = 3
    MaxDeficit = 1
    GarbageKeys = {}
    DisconnectCopies = 1
    MayDuplicate = FALSE
    Scenarios <- MCDataEarly
SPECIFICATION MCSpec
PROPERTIES
    DisconnectedOnlyIfTold

SPECIFICATION MCSpec
\* Two servers may answer one broadcast, or one server while main() disconnects at will.
CONSTANTS
    Clients = {c1}
    Me = c1
    ServerAddress = server
    NoAddress = noaddress
    Hosts = {h1, h2}
    Responders = {r1, r2}
    SeqModulus = 8
    DisconnectCopies = 1
    Applications = {TRUE, FALSE}
    MaxConnects = 2
    MaxPairs = 2
    MaxData = 1
SYMMETRY MCSymmetry
INVARIANTS
    ConnectedToOneHost
    KeyPairComplete

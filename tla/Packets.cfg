SPECIFICATION MCSpec
CONSTANTS
    \* Bytes of four bits; datagrams of up to 18 of them are received, the longest is 19.
    ByteBase = 16
    SeqModulus = 256
    ProtocolId = 4660
    KeyBytes = 3
    HmacBytes = 4
    ReceiveBytes = 18
    SessionKey = "session"
    Keys = {"session", "another"}
    Packets <- MCPacketsWritten
    BufferSizes = {0, 1, 2, 3, 4, 19, 20, 21, 22}
    StraySizes = {1, 3, 4, 7, 18, 19}
    Sockets = {s1, s2}
    Handles = {h1, h2}
    MaxStartups = 2
    Host <- MCHost
    Ports = {1, 2}
    Texts <- MCTexts
    Leftovers <- MCLeftovers
    Width = 6
    ByteWidth = 3
    Polynomial <- MCPolynomial
    Messages <- MCMessages
    Threads = {t1, t2}
    WordBase = 16
    AccBase = 256
    Block = 4
    Sizes <- MCSizes
SYMMETRY MCThreads
INVARIANTS
    EveryByteWritten
    ReadsWhatWasWritten
    ValidPacketsArrive
    GivesTheWholeMessage
    HandlesAreOwn
    OpenIsReady
    SentWhereAsked
    SenderIsHost
    FillersAgree
    IsTheUsualCRC
    DetectsBursts
    SumsAreTrue
    ImprovedIsFletcher32
PROPERTIES
    SkippedOnlyIfTold
    ThrowsOnlyAtStrays
\* The checksum functions return.
CHECK_DEADLOCK FALSE

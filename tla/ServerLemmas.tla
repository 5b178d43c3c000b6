---------------------------- MODULE ServerLemmas ----------------------------
(***************************************************************************)
(* What every operation of Server preserves, whatever else is in flight     *)
(* ("rest") and whatever client sent the datagram: the inductive invariant  *)
(* of the server's tables, one lemma per operation.  The specifications     *)
(* that use Server (ServerAlone, GameNetwork) take their theorems from it.  *)
(***************************************************************************)
EXTENDS Server, Sequences, FiniteSetTheorems, WellFoundedInduction, TLAPS

------------------------------------------------------------------------------
(* The lookups *)

\* A nonempty set of slots has a least member, so that a loop that returns the first
\* index it finds returns one of the set.
LEMMA FirstIndexFound ==
    ASSUME NEW S \in SUBSET Slots
    PROVE  /\ S = {} => FirstIndex(S) = -1
           /\ S # {} => FirstIndex(S) \in S
<1>1. CASE S = {}
  BY <1>1 DEF FirstIndex
<1>2. CASE S # {}
  <2>1. S \subseteq Nat
    BY ServerAssumption DEF Slots
  <2>. DEFINE Less == {p \in Nat \X Nat : p[1] < p[2]}
  <2>2. IsWellFoundedOn(Less, Nat)
    BY NatLessThanWellFounded DEF OpToRel
  <2>3. PICK i \in S : \A j \in S : ~ (<<j, i>> \in Less)
    BY ONLY <1>2, <2>1, <2>2, WFMin
  <2>4. \A j \in S : i <= j
    <3>. SUFFICES ASSUME NEW j \in S PROVE ~ (j < i)
      BY <2>1
    <3>. QED
      BY <2>1, <2>3
  <2>. QED
    BY <1>2, <2>4 DEF FirstIndex
<1>. QED
  BY <1>1, <1>2

LEMMA ConnectionLookup ==
    ASSUME NEW address
    PROVE  LET i == FindExistingConnectionIndex(address)
           IN  \/ /\ i = -1
                  /\ \A j \in Slots : connected[j] => connections[j].clientAddress # address
               \/ /\ i \in Slots /\ connected[i]
                  /\ connections[i].clientAddress = address
<1>. DEFINE S == {i \in Slots : connected[i] /\ connections[i].clientAddress = address}
<1>1. S \in SUBSET Slots
  OBVIOUS
<1>. QED
  BY <1>1, FirstIndexFound DEF FindExistingConnectionIndex

LEMMA ChallengeLookup ==
    ASSUME NEW address
    PROVE  LET i == FindExistingChallengeIndex(address)
           IN  \/ /\ i = -1
                  /\ \A j \in Slots : challenged[j] => challenges[j].clientAddress # address
               \/ /\ i \in Slots /\ challenged[i]
                  /\ challenges[i].clientAddress = address
<1>. DEFINE S == {i \in Slots : challenged[i] /\ challenges[i].clientAddress = address}
<1>1. S \in SUBSET Slots
  OBVIOUS
<1>. QED
  BY <1>1, FirstIndexFound DEF FindExistingChallengeIndex

LEMMA FreeLookup ==
    /\ \/ FindFreeConnectionIndex = -1
       \/ FindFreeConnectionIndex \in Slots /\ ~connected[FindFreeConnectionIndex]
    /\ \/ FindFreeChallengeIndex = -1 /\ \A j \in Slots : challenged[j]
       \/ FindFreeChallengeIndex \in Slots /\ ~challenged[FindFreeChallengeIndex]
<1>. DEFINE S == {i \in Slots : ~connected[i]}
            T == {i \in Slots : ~challenged[i]}
<1>1. S \in SUBSET Slots /\ T \in SUBSET Slots
  OBVIOUS
<1>2. FindFreeConnectionIndex = FirstIndex(S) /\ FindFreeChallengeIndex = FirstIndex(T)
  BY DEF FindFreeConnectionIndex, FindFreeChallengeIndex
<1>3. \/ FirstIndex(S) = -1
      \/ FirstIndex(S) \in S
  BY <1>1, FirstIndexFound
<1>4. \/ FirstIndex(T) = -1 /\ T = {}
      \/ FirstIndex(T) \in T
  BY <1>1, FirstIndexFound
<1>. QED
  BY <1>2, <1>3, <1>4

------------------------------------------------------------------------------
(* Keys and pending handshakes *)

\* Waiting for a handshake's key changes neither its client nor the key it ends with.
LEMMA SettleFacts ==
    ASSUME NEW c \in ChallengeInfos
    PROVE  /\ SettledKey(c) \in Keys
           /\ Settle(c) \in ChallengeInfos
           /\ Settle(c).clientAddress = c.clientAddress
           /\ Settle(c).clientPublicKey = c.clientPublicKey
           /\ Settle(c).serverKeyPair = c.serverKeyPair
           /\ Settle(c).sharedKey = SettledKey(c)
           /\ SettledKey(Settle(c)) = SettledKey(c)
<1>1. SettledKey(c) \in Keys
  <2>1. c.sharedKey \in Keys /\ c.future \in SUBSET Keys
    BY DEF ChallengeInfos
  <2>. QED
    BY <2>1 DEF SettledKey
<1>. QED
  BY <1>1 DEF Settle, SettledKey, ChallengeInfos

LEMMA BlankEntries ==
    /\ NoConnection \in ConnectionInfos
    /\ NoChallenge \in ChallengeInfos
    /\ \A address \in Addresses, k \in Keys : ConnectionInfo(address, k) \in ConnectionInfos
    /\ ZeroKey \in Keys
<1>1. 0 \in SeqNumbers
  BY SeqModulusAssumption DEF SeqNumbers
<1>2. NoAddress \in Addresses /\ NoKeyPair \in KeyPairs /\ ZeroKey \in Keys
  BY DEF Addresses, NoKeyPair, KeyPair, KeyPairs, Owners, ZeroKey, Keys
<1>. QED
  BY <1>1, <1>2 DEF NoConnection, NoChallenge, ConnectionInfo, ConnectionInfos, ChallengeInfos

\* What Listen passes on as m_challenges: the pending handshakes, one of them settled.
SameHandshakes(table) ==
    /\ table \in [Slots -> ChallengeInfos]
    /\ \A i \in Slots : /\ table[i].clientAddress = challenges[i].clientAddress
                        /\ table[i].clientPublicKey = challenges[i].clientPublicKey
                        /\ table[i].serverKeyPair = challenges[i].serverKeyPair
                        /\ SettledKey(table[i]) = SettledKey(challenges[i])
                        /\ ~challenged[i] => table[i] = NoChallenge

LEMMA SettledTable ==
    ASSUME ServerTypeOK, \A i \in Slots : ~challenged[i] => challenges[i] = NoChallenge
    PROVE  /\ SameHandshakes(challenges)
           /\ \A i \in Slots :
                 challenged[i] =>
                     SameHandshakes([challenges EXCEPT ![i] = Settle(challenges[i])])
<1>1. SameHandshakes(challenges)
  BY DEF SameHandshakes, ServerTypeOK
<1>2. ASSUME NEW i \in Slots, challenged[i]
      PROVE  SameHandshakes([challenges EXCEPT ![i] = Settle(challenges[i])])
  <2>1. challenges \in [Slots -> ChallengeInfos]
    BY DEF ServerTypeOK
  <2>. QED
    BY <1>2, <2>1, SettleFacts DEF SameHandshakes
<1>. QED
  BY <1>1, <1>2

------------------------------------------------------------------------------
(* Keys, seals and histories *)

\* The key pairs the server has generated, and the keys it agrees on with them.
GeneratedPairs == {KeyPair(ServerAddress, n) : n \in 0 .. serverKeyPairs - 1}
AgreedKeys     == {SharedKey(p, q) : p \in GeneratedPairs, q \in Clients \X Nat}

LEMMA SealFacts ==
    /\ \A h, k : HMAC(h) = HMAC(k) => h = k
    /\ \A k : HMAC(k) # CRC
    /\ \A k : HMAC(k)[2] = k
BY DEF HMAC, CRC

\* An agreed key contains one pair of the server's, among those that it has generated.
LEMMA AgreedKeysTyped ==
    ASSUME serverKeyPairs \in Nat
    PROVE  /\ GeneratedPairs \subseteq {ServerAddress} \X Nat
           /\ AgreedKeys \subseteq Keys
           /\ \A k \in AgreedKeys :
                 /\ k # ZeroKey
                 /\ \E p \in GeneratedPairs : p \in k /\ p[1] = ServerAddress
                 /\ KeyPair(ServerAddress, serverKeyPairs) \notin k
<1>1. GeneratedPairs \subseteq {ServerAddress} \X Nat
  BY DEF GeneratedPairs, KeyPair
<1>. SUFFICES ASSUME NEW k \in AgreedKeys
     PROVE  /\ k \in Keys /\ k # ZeroKey
            /\ \E p \in GeneratedPairs : p \in k /\ p[1] = ServerAddress
            /\ KeyPair(ServerAddress, serverKeyPairs) \notin k
  BY <1>1
<1>2. PICK p \in GeneratedPairs, q \in Clients \X Nat : k = {p, q}
  BY DEF AgreedKeys, SharedKey
<1>3. p[1] = ServerAddress /\ p \in k
  BY <1>2 DEF GeneratedPairs, KeyPair
<1>4. KeyPair(ServerAddress, serverKeyPairs) # p
  BY <1>2 DEF GeneratedPairs, KeyPair
<1>5. KeyPair(ServerAddress, serverKeyPairs) # q
  <2>1. q[1] \in Clients
    BY <1>2
  <2>2. KeyPair(ServerAddress, serverKeyPairs)[1] = ServerAddress
    BY DEF KeyPair
  <2>. QED
    BY <2>1, <2>2, AddressAssumption
<1>6. p \in KeyPairs /\ q \in KeyPairs
  BY <1>1, <1>2 DEF KeyPairs, Owners
<1>. QED
  BY <1>2, <1>3, <1>4, <1>5, <1>6 DEF ZeroKey, Keys

LEMMA IntervalGrows ==
    ASSUME NEW a \in Nat, NEW b \in Nat, a <= b
    PROVE  \A n \in 0 .. a - 1 : n \in 0 .. b - 1
OBVIOUS

LEMMA PairsGrow ==
    ASSUME serverKeyPairs \in Nat, serverKeyPairs' \in Nat, serverKeyPairs <= serverKeyPairs'
    PROVE  GeneratedPairs \subseteq GeneratedPairs' /\ AgreedKeys \subseteq AgreedKeys'
<1>1. \A n \in 0 .. serverKeyPairs - 1 : n \in 0 .. serverKeyPairs' - 1
  BY IntervalGrows
<1>2. GeneratedPairs \subseteq GeneratedPairs'
  BY <1>1 DEF GeneratedPairs
<1>. QED
  BY <1>2 DEF AgreedKeys

LEMMA AppendFacts ==
    ASSUME NEW S, NEW q \in Seq(S), NEW e \in S
    PROVE  /\ Append(q, e) \in Seq(S)
           /\ Len(q) \in Nat /\ Len(Append(q, e)) = Len(q) + 1
           /\ DOMAIN q = 1 .. Len(q)
           /\ DOMAIN Append(q, e) = DOMAIN q \cup {Len(q) + 1}
           /\ Len(q) + 1 \notin DOMAIN q
           /\ \A i \in DOMAIN q : Append(q, e)[i] = q[i] /\ i <= Len(q) /\ i \in Nat
           /\ Append(q, e)[Len(q) + 1] = e
BY SMT

------------------------------------------------------------------------------
(* Counting slots *)

InUse(flags) == {i \in Slots : flags[i]}

LEMMA SlotsCounted ==
    ASSUME NEW flags \in [Slots -> BOOLEAN]
    PROVE  IsFiniteSet(InUse(flags)) /\ Cardinality(InUse(flags)) \in Nat
<1>1. IsFiniteSet(Slots)
  BY FS_Interval, ServerAssumption DEF Slots
<1>2. InUse(flags) \in SUBSET Slots
  BY DEF InUse
<1>. QED
  BY <1>1, <1>2, FS_Subset, FS_CardinalityType

LEMMA SlotTaken ==
    ASSUME NEW flags \in [Slots -> BOOLEAN], NEW i \in Slots, ~flags[i]
    PROVE  Cardinality(InUse([flags EXCEPT ![i] = TRUE])) = Cardinality(InUse(flags)) + 1
<1>1. InUse([flags EXCEPT ![i] = TRUE]) = InUse(flags) \cup {i}
  BY DEF InUse
<1>2. i \notin InUse(flags)
  BY DEF InUse
<1>. QED
  BY <1>1, <1>2, SlotsCounted, FS_AddElement

LEMMA SlotFreed ==
    ASSUME NEW flags \in [Slots -> BOOLEAN], NEW i \in Slots
    PROVE  Cardinality(InUse([flags EXCEPT ![i] = FALSE])) >= Cardinality(InUse(flags)) - 1
<1>1. InUse([flags EXCEPT ![i] = FALSE]) = InUse(flags) \ {i}
  BY DEF InUse
<1>2. IsFiniteSet(InUse(flags)) /\ Cardinality(InUse(flags)) \in Nat
  BY SlotsCounted
<1>3. \/ Cardinality(InUse(flags) \ {i}) = Cardinality(InUse(flags)) - 1
      \/ Cardinality(InUse(flags) \ {i}) = Cardinality(InUse(flags))
  BY <1>2, FS_RemoveElement
<1>4. ASSUME NEW n \in Nat, NEW m, m = n - 1 \/ m = n PROVE m >= n - 1
  BY <1>4
<1>. QED
  BY <1>1, <1>2, <1>3, <1>4

LEMMA HostCounted ==
    /\ HostConnected \in [Slots -> BOOLEAN]
    /\ Cardinality(InUse(HostConnected)) = 1
<1>1. HostConnected \in [Slots -> BOOLEAN]
  BY DEF HostConnected
<1>2. 0 \in Slots
  BY ServerAssumption DEF Slots
<1>3. \A i : i \in InUse(HostConnected) <=> i \in {0}
  BY <1>2 DEF InUse, HostConnected
<1>4. InUse(HostConnected) = {0}
  BY <1>3
<1>. QED
  BY <1>1, <1>4, FS_Singleton

------------------------------------------------------------------------------
(***************************************************************************)
(* The inductive invariant.  The properties are not inductive one by one:   *)
(* that an address is in the tables once needs the host's slot (the address *)
(* in slot 0 is no client's, and a client's admission never lands there),   *)
(* that a removal leaves no entry behind needs the pending handshake to be  *)
(* at slot 1, and a new server finds the tables blank only because the old  *)
(* one left them so.                                                        *)
(***************************************************************************)
BlankWhenDown ==
    ~serverUp => \A i \in Slots : ~connected[i] /\ ~challenged[i]

IInv ==
    /\ ServerTypeOK
    /\ HostSlotHeld
    /\ PendingHandshakeRemovable
    /\ OneEntryPerAddress
    /\ FreedSlotsBlank
    /\ CountNeverAbove
    /\ BlankWhenDown

LEMMA InitInv == ServerInit => IInv
<1>. SUFFICES ASSUME ServerInit PROVE IInv
  OBVIOUS
<1>. USE DEF ServerInit
<1>1. 0 \in Slots
  BY ServerAssumption DEF Slots
<1>2. LocalHost \in Addresses
  BY DEF Addresses
<1>3. ServerTypeOK
  <2>1. HostConnections \in [Slots -> ConnectionInfos]
    BY <1>2, BlankEntries DEF HostConnections
  <2>. QED
    BY <2>1, HostCounted, BlankEntries DEF ServerTypeOK
<1>4. HostSlotHeld
  BY <1>1 DEF HostSlotHeld, HostConnected, HostConnections, ConnectionInfo
<1>5. PendingHandshakeRemovable /\ OneEntryPerAddress /\ BlankWhenDown
  BY DEF PendingHandshakeRemovable, OneEntryPerAddress, BlankWhenDown, HostConnected
<1>6. FreedSlotsBlank
  BY DEF FreedSlotsBlank, HostConnected, HostConnections
<1>7. CountNeverAbove
  BY HostCounted DEF CountNeverAbove, InUse
<1>. QED
  BY <1>3, <1>4, <1>5, <1>6, <1>7 DEF IInv

------------------------------------------------------------------------------
(* One lemma per outcome of Listen *)

\* A key task ends with a key, the right one or not.
LEMMA KeyTaskType ==
    ASSUME NEW c \in ChallengeInfos, NEW k \in KeyTaskResults(c)
    PROVE  k \in Keys
<1>1. SharedKey(c.clientPublicKey, c.serverKeyPair) \in Keys
  BY DEF ChallengeInfos, SharedKey, Keys
<1>. QED
  BY <1>1, ServerAssumption DEF KeyTaskResults

\* A stranger's request starts a handshake in slot 1, with a key pair of its own.
Fresh(sender, publicKey) ==
    [NoChallenge EXCEPT !.clientAddress   = sender,
                        !.clientPublicKey = publicKey,
                        !.serverKeyPair   = KeyPair(ServerAddress, serverKeyPairs)]

LEMMA RequestEffect ==
    ASSUME PendingHandshakeRemovable, NEW rest, NEW sender, NEW publicKey,
           FindExistingChallengeIndex(sender) < 0,
           HandleConnectionRequest(sender, publicKey, challenges, rest)
    PROVE  /\ \E k \in KeyTaskResults(Fresh(sender, publicKey)) :
                 challenges' = [challenges EXCEPT ![1] =
                                   [Fresh(sender, publicKey) EXCEPT !.future = {k}]]
           /\ challenged' = [challenged EXCEPT ![1] = TRUE]
           /\ serverKeyPairs' = serverKeyPairs + 1
           /\ network' = rest \cup Sent(ServerAddress, sender,
                            ChallengePacket(KeyPair(ServerAddress, serverKeyPairs)))
           /\ UNCHANGED <<connected, connections, numConnections>>
<1>1. /\ 0 \in Slots /\ 1 \in Slots
      /\ \A i \in Slots : challenged[i] => i = 1
  BY ServerAssumption DEF Slots, PendingHandshakeRemovable, AsInt
<1>2. ChallengeSlot(sender) = 1
  <2>1. ~challenged[0]
    BY <1>1
  <2>2. FindFreeChallengeIndex \in Slots
    BY <1>1, <2>1, FreeLookup
  <2>3. FindFreeChallengeIndex >= 0
    BY <2>2, ServerAssumption DEF Slots
  <2>4. ~ (FindExistingChallengeIndex(sender) >= 0)
    BY <1>1, ChallengeLookup, ServerAssumption DEF Slots
  <2>. QED
    BY <2>3, <2>4 DEF ChallengeSlot, AsInt
<1>3. ~ (FindExistingChallengeIndex(sender) >= 0)
  BY ChallengeLookup, ServerAssumption DEF Slots
<1>4. ~ (FindExistingChallengeIndex(sender) < 0 /\ ChallengeSlot(sender) = 0)
  BY <1>2
<1>5. \E k \in KeyTaskResults(Fresh(sender, publicKey)) :
          challenges' = [challenges EXCEPT ![1] = [Fresh(sender, publicKey) EXCEPT !.future = {k}]]
  <2>1. \E k \in KeyTaskResults(Fresh(sender, publicKey)) :
            challenges' = [challenges EXCEPT ![ChallengeSlot(sender)] =
                              [Fresh(sender, publicKey) EXCEPT !.future = {k}]]
    BY <1>3, <1>4, Zenon DEF HandleConnectionRequest, Fresh
  <2>. QED
    BY <1>2, <2>1, Zenon
<1>6. network' = rest \cup Sent(ServerAddress, sender, ChallengePacket(Fresh(sender, publicKey).serverKeyPair))
  BY <1>3, <1>4, Zenon DEF HandleConnectionRequest, Fresh
<1>7. Fresh(sender, publicKey).serverKeyPair = KeyPair(ServerAddress, serverKeyPairs)
  BY DEF Fresh, NoChallenge
<1>8. /\ challenged' = [challenged EXCEPT ![1] = TRUE]
      /\ serverKeyPairs' = serverKeyPairs + 1
      /\ UNCHANGED <<connected, connections, numConnections>>
  BY <1>2, <1>3 DEF HandleConnectionRequest
<1>. QED
  BY <1>5, <1>6, <1>7, <1>8

LEMMA RequestKeepsInv ==
    ASSUME IInv, serverUp, UNCHANGED <<serverUp, serverState>>,
           NEW rest, NEW sender \in Clients, NEW publicKey \in KeyPairs,
           FindExistingConnectionIndex(sender) <= 0,
           FindExistingChallengeIndex(sender) < 0,
           HandleConnectionRequest(sender, publicKey, challenges, rest)
    PROVE  IInv'
<1>. DEFINE fresh == Fresh(sender, publicKey)
<1>1. /\ 0 \in Slots /\ 1 \in Slots
      /\ \A i \in Slots : challenged[i] => i = 1
  BY ServerAssumption DEF Slots, IInv, PendingHandshakeRemovable, AsInt
<1>3. /\ fresh \in ChallengeInfos
      /\ fresh.clientAddress = sender
  <2>1. KeyPair(ServerAddress, serverKeyPairs) \in KeyPairs
    BY DEF IInv, ServerTypeOK, KeyPair, KeyPairs, Owners
  <2>2. sender \in Addresses
    BY DEF Addresses
  <2>3. NoChallenge \in ChallengeInfos
    BY BlankEntries
  <2>. QED
    BY <2>1, <2>2, <2>3 DEF ChallengeInfos, NoChallenge, Fresh
<1>5. PICK k \in KeyTaskResults(fresh) :
          challenges' = [challenges EXCEPT ![1] = [fresh EXCEPT !.future = {k}]]
  BY RequestEffect DEF IInv
<1>6. /\ challenged' = [challenged EXCEPT ![1] = TRUE]
      /\ serverKeyPairs' = serverKeyPairs + 1
      /\ UNCHANGED <<connected, connections, numConnections, serverUp, serverState>>
  BY RequestEffect DEF IInv
<1>. DEFINE entry == [fresh EXCEPT !.future = {k}]
<1>7. /\ entry \in ChallengeInfos
      /\ entry.clientAddress = sender
  <2>1. k \in Keys
    BY <1>3, KeyTaskType
  <2>2. {k} \in SUBSET Keys
    BY <2>1
  <2>. HIDE DEF fresh
  <2>. QED
    BY <1>3, <2>2 DEF ChallengeInfos
<1>. HIDE DEF entry
<1>8. challenges' = [challenges EXCEPT ![1] = entry]
  BY <1>5 DEF entry
<1>9. ServerTypeOK'
  BY <1>1, <1>6, <1>7, <1>8 DEF IInv, ServerTypeOK
<1>10. HostSlotHeld' /\ CountNeverAbove' /\ BlankWhenDown'
  BY <1>6 DEF IInv, HostSlotHeld, CountNeverAbove, BlankWhenDown
<1>11. PendingHandshakeRemovable'
  BY <1>1, <1>6 DEF IInv, ServerTypeOK, PendingHandshakeRemovable, AsInt
<1>12. FreedSlotsBlank'
  BY <1>1, <1>6, <1>8 DEF IInv, ServerTypeOK, FreedSlotsBlank
<1>13. OneEntryPerAddress'
  <2>1. \A i \in Slots : connected[i] => connections[i].clientAddress # sender
    <3>1. connections[0].clientAddress # sender
      BY ServerAssumption DEF IInv, HostSlotHeld
    <3>. QED
      BY <3>1, ConnectionLookup, ServerAssumption DEF Slots
  <2>2. \A j \in Slots : challenged'[j] => challenges'[j].clientAddress = sender
    BY <1>1, <1>6, <1>7, <1>8 DEF IInv, ServerTypeOK
  <2>. QED
    BY <1>6, <2>1, <2>2 DEF IInv, OneEntryPerAddress
<1>. QED
  BY <1>9, <1>10, <1>11, <1>12, <1>13 DEF IInv

\* A packet that is not acted upon at most settles a pending handshake.
LEMMA IgnoredKeepsInv ==
    ASSUME IInv, UNCHANGED <<serverUp, serverState>>, NEW table, SameHandshakes(table),
           challenges' = table,
           UNCHANGED <<connected, connections, challenged, numConnections, serverKeyPairs>>
    PROVE  IInv'
<1>1. ServerTypeOK'
  BY DEF IInv, ServerTypeOK, SameHandshakes
<1>2. HostSlotHeld' /\ CountNeverAbove' /\ BlankWhenDown' /\ PendingHandshakeRemovable'
  BY DEF IInv, HostSlotHeld, CountNeverAbove, BlankWhenDown, PendingHandshakeRemovable
<1>3. FreedSlotsBlank' /\ OneEntryPerAddress'
  BY DEF IInv, SameHandshakes, FreedSlotsBlank, OneEntryPerAddress
<1>. QED
  BY <1>1, <1>2, <1>3 DEF IInv

\* The two ways RemoveClient ends: slot 1 of one table or of the other is blanked.
LEMMA ConnectionForgotten ==
    ASSUME IInv, serverUp, UNCHANGED <<serverUp, serverState, serverKeyPairs, challenged>>,
           NEW table, SameHandshakes(table), challenges' = table,
           ForgetConnection(1)
    PROVE  IInv'
<1>. USE DEF ForgetConnection
<1>1. 0 \in Slots /\ 1 \in Slots
  BY ServerAssumption DEF Slots
<1>2. ServerTypeOK'
  BY <1>1, BlankEntries DEF IInv, ServerTypeOK, SameHandshakes
<1>3. HostSlotHeld' /\ BlankWhenDown' /\ PendingHandshakeRemovable'
  <2>1. connected'[0] = connected[0] /\ connections'[0] = connections[0]
    BY <1>1 DEF IInv, ServerTypeOK
  <2>2. HostSlotHeld'
    BY <2>1 DEF IInv, HostSlotHeld
  <2>3. BlankWhenDown'
    BY DEF BlankWhenDown
  <2>4. PendingHandshakeRemovable'
    BY DEF IInv, PendingHandshakeRemovable
  <2>. QED
    BY <2>2, <2>3, <2>4
<1>4. FreedSlotsBlank'
  BY <1>1 DEF IInv, ServerTypeOK, SameHandshakes, FreedSlotsBlank
<1>5. OneEntryPerAddress'
  <2>1. \A i \in Slots :
           connected'[i] => connected[i] /\ connections'[i] = connections[i]
    BY <1>1 DEF IInv, ServerTypeOK
  <2>2. \A i \in Slots : challenges'[i].clientAddress = challenges[i].clientAddress
    BY DEF SameHandshakes
  <2>. QED
    BY <2>1, <2>2 DEF IInv, OneEntryPerAddress
<1>6. CountNeverAbove'
  <2>1. /\ numConnections <= Cardinality(InUse(connected))
        /\ numConnections \in Int
    BY DEF IInv, CountNeverAbove, InUse, ServerTypeOK
  <2>2. Cardinality(InUse(connected')) >= Cardinality(InUse(connected)) - 1
    BY <1>1, SlotFreed DEF IInv, ServerTypeOK
  <2>3. Cardinality(InUse(connected)) \in Nat /\ Cardinality(InUse(connected')) \in Nat
    BY <1>2, SlotsCounted DEF IInv, ServerTypeOK
  <2>4. numConnections' <= Cardinality(InUse(connected'))
    BY <2>1, <2>2, <2>3
  <2>. QED
    BY <2>4 DEF CountNeverAbove, InUse
<1>. QED
  BY <1>2, <1>3, <1>4, <1>5, <1>6 DEF IInv

LEMMA ChallengeForgotten ==
    ASSUME IInv, UNCHANGED <<serverUp, serverState, serverKeyPairs>>,
           UNCHANGED <<connected, connections, numConnections>>,
           NEW table, SameHandshakes(table), NEW i \in Slots,
           ForgetChallenge(i, table)
    PROVE  IInv'
<1>. USE DEF ForgetChallenge
<1>1. ServerTypeOK'
  BY BlankEntries DEF IInv, ServerTypeOK, SameHandshakes
<1>2. HostSlotHeld' /\ CountNeverAbove'
  BY DEF IInv, HostSlotHeld, CountNeverAbove
<1>3. BlankWhenDown' /\ PendingHandshakeRemovable'
  BY DEF IInv, BlankWhenDown, PendingHandshakeRemovable, ServerTypeOK
<1>4. FreedSlotsBlank'
  BY DEF IInv, ServerTypeOK, SameHandshakes, FreedSlotsBlank
<1>5. OneEntryPerAddress'
  <2>1. \A j \in Slots : challenged'[j] =>
            challenged[j] /\ challenges'[j].clientAddress = challenges[j].clientAddress
    BY DEF IInv, ServerTypeOK, SameHandshakes
  <2>. QED
    BY <2>1 DEF IInv, OneEntryPerAddress
<1>. QED
  BY <1>1, <1>2, <1>3, <1>4, <1>5 DEF IInv

LEMMA RemoveKeepsInv ==
    ASSUME IInv, serverUp, UNCHANGED <<serverUp, serverState, serverKeyPairs>>,
           NEW address, NEW table, SameHandshakes(table),
           RemoveClient(address, table)
    PROVE  IInv'
<1>1. 1 \in Slots
  BY ServerAssumption DEF Slots
<1>2. CASE /\ ForgetConnection(1)
           /\ challenges' = table /\ UNCHANGED challenged
  BY <1>2, ConnectionForgotten
<1>3. CASE /\ ForgetChallenge(1, table)
           /\ UNCHANGED <<connected, connections, numConnections>>
  BY <1>1, <1>3, ChallengeForgotten
<1>. QED
  BY <1>2, <1>3 DEF RemoveClient, AsInt

\* What an accepted response does to the tables, for the invariant and for the action
\* property.
LEMMA ResponseEffect ==
    ASSUME IInv, serverUp, NEW rest, NEW sender \in Clients, NEW table, SameHandshakes(table),
           HandleChallengeResponse(sender, table, rest),
           FindExistingChallengeIndex(sender) >= 0, FindFreeConnectionIndex > -1
    PROVE  \E i \in Slots \ {0}, j \in Slots :
              LET new == ConnectionInfo(sender, SettledKey(challenges[j]))
              IN  /\ ~connected[i] /\ challenged[j]
                  /\ challenges[j].clientAddress = sender
                  /\ new \in ConnectionInfos
                  /\ connected' = [connected EXCEPT ![i] = TRUE]
                  /\ connections' = [connections EXCEPT ![i] = new]
                  /\ numConnections' = numConnections + 1
                  /\ ForgetChallenge(j, table)
<1>. DEFINE i == FindFreeConnectionIndex
            j == FindExistingChallengeIndex(sender)
<1>1. i \in Slots \ {0} /\ ~connected[i]
  <2>1. connected[0]
    BY DEF IInv, HostSlotHeld
  <2>2. i # -1
    OBVIOUS
  <2>. QED
    BY <2>1, <2>2, FreeLookup
<1>2. /\ j \in Slots /\ challenged[j]
      /\ challenges[j].clientAddress = sender
  BY ChallengeLookup
<1>3. /\ table[j] \in ChallengeInfos
      /\ Settle(table[j]).clientAddress = sender
      /\ Settle(table[j]).sharedKey = SettledKey(challenges[j])
      /\ SettledKey(challenges[j]) \in Keys
  BY <1>2, SettleFacts DEF SameHandshakes
<1>4. ConnectionInfo(sender, SettledKey(challenges[j])) \in ConnectionInfos
  BY <1>3, BlankEntries DEF Addresses
<1>5. /\ connected' = [connected EXCEPT ![i] = TRUE]
      /\ connections' = [connections EXCEPT ![i] =
                            ConnectionInfo(sender, SettledKey(challenges[j]))]
      /\ numConnections' = numConnections + 1
      /\ ForgetChallenge(j, table)
  <2>1. ~ (FindExistingChallengeIndex(sender) < 0 \/ FindFreeConnectionIndex = -1)
    BY <1>1, <1>2, ServerAssumption DEF Slots
  <2>. QED
    BY <1>3, <2>1 DEF HandleChallengeResponse
<1>. HIDE DEF i, j
<1>. QED
  BY <1>1, <1>2, <1>4, <1>5

\* An accepted response moves its sender from the pending handshakes to a free slot.
LEMMA ResponseKeepsInv ==
    ASSUME IInv, serverUp, UNCHANGED <<serverUp, serverState, serverKeyPairs>>,
           NEW rest, NEW sender \in Clients, NEW table, SameHandshakes(table),
           HandleChallengeResponse(sender, table, rest)
    PROVE  IInv'
<1>1. CASE FindExistingChallengeIndex(sender) < 0 \/ FindFreeConnectionIndex = -1
  <2>1. ~ (FindExistingChallengeIndex(sender) >= 0 /\ FindFreeConnectionIndex > -1)
    BY <1>1, ChallengeLookup, ServerAssumption DEF Slots
  <2>. QED
    BY <2>1, IgnoredKeepsInv DEF HandleChallengeResponse
<1>2. CASE ~ (FindExistingChallengeIndex(sender) < 0 \/ FindFreeConnectionIndex = -1)
  <2>1. FindExistingChallengeIndex(sender) >= 0 /\ FindFreeConnectionIndex > -1
    BY <1>2 DEF HandleChallengeResponse
  <2>2. PICK i \in Slots \ {0}, j \in Slots :
            LET new == ConnectionInfo(sender, SettledKey(challenges[j]))
            IN  /\ ~connected[i] /\ challenged[j]
                /\ challenges[j].clientAddress = sender
                /\ new \in ConnectionInfos
                /\ connected' = [connected EXCEPT ![i] = TRUE]
                /\ connections' = [connections EXCEPT ![i] = new]
                /\ numConnections' = numConnections + 1
                /\ ForgetChallenge(j, table)
    BY <2>1, ResponseEffect
  <2>. DEFINE new == ConnectionInfo(sender, SettledKey(challenges[j]))
  <2>3. new.clientAddress = sender
    BY DEF ConnectionInfo
  <2>. HIDE DEF new
  <2>4. /\ new \in ConnectionInfos
        /\ connections' = [connections EXCEPT ![i] = new]
    BY <2>2 DEF new
  <2>5. /\ challenged' = [challenged EXCEPT ![j] = FALSE]
        /\ challenges' = [table EXCEPT ![j] = NoChallenge]
    BY <2>2 DEF ForgetChallenge
  <2>6. ServerTypeOK'
    BY <2>2, <2>4, <2>5, BlankEntries DEF IInv, ServerTypeOK, SameHandshakes
  <2>7. HostSlotHeld'
    <3>1. connected'[0] = connected[0] /\ connections'[0] = connections[0]
      <4>1. 0 \in Slots /\ i # 0
        BY ServerAssumption DEF Slots
      <4>. QED
        BY <2>2, <2>4, <4>1 DEF IInv, ServerTypeOK
    <3>. QED
      BY <3>1 DEF IInv, HostSlotHeld
  <2>8. BlankWhenDown'
    BY DEF BlankWhenDown
  <2>9. PendingHandshakeRemovable'
    BY <2>5 DEF IInv, ServerTypeOK, PendingHandshakeRemovable
  <2>10. FreedSlotsBlank'
    BY <2>2, <2>4, <2>5 DEF IInv, ServerTypeOK, SameHandshakes, FreedSlotsBlank
  <2>11. OneEntryPerAddress'
    <3>1. \A m \in Slots : connected[m] => connections[m].clientAddress # sender
      BY <2>2 DEF IInv, OneEntryPerAddress
    <3>2. \A m \in Slots :
             /\ connected'[m] => m = i \/ connected[m]
             /\ connections'[m].clientAddress =
                    IF m = i THEN sender ELSE connections[m].clientAddress
      BY <2>2, <2>3, <2>4 DEF IInv, ServerTypeOK
    <3>3. \A m \in Slots : challenged'[m] =>
             /\ m # j /\ challenged[m]
             /\ challenges'[m].clientAddress = challenges[m].clientAddress
      BY <2>5 DEF IInv, ServerTypeOK, SameHandshakes
    <3>4. \A m \in Slots : challenged'[m] => challenges'[m].clientAddress # sender
      BY <2>2, <3>3 DEF IInv, PendingHandshakeRemovable
    <3>5. \A m, n \in Slots :
             connected'[m] /\ connected'[n]
             /\ connections'[m].clientAddress = connections'[n].clientAddress => m = n
      BY <3>1, <3>2 DEF IInv, OneEntryPerAddress
    <3>6. \A m, n \in Slots :
             connected'[m] /\ challenged'[n]
             => connections'[m].clientAddress # challenges'[n].clientAddress
      BY <3>2, <3>3, <3>4 DEF IInv, OneEntryPerAddress
    <3>. QED
      BY <3>5, <3>6 DEF OneEntryPerAddress
  <2>12. CountNeverAbove'
    <3>1. numConnections <= Cardinality(InUse(connected)) /\ numConnections \in Int
      BY DEF IInv, CountNeverAbove, InUse, ServerTypeOK
    <3>2. Cardinality(InUse(connected')) = Cardinality(InUse(connected)) + 1
      BY <2>2, SlotTaken DEF IInv, ServerTypeOK
    <3>3. Cardinality(InUse(connected)) \in Nat
      BY SlotsCounted DEF IInv, ServerTypeOK
    <3>4. numConnections' <= Cardinality(InUse(connected'))
      BY <2>2, <3>1, <3>2, <3>3
    <3>. QED
      BY <3>4 DEF CountNeverAbove, InUse
  <2>. QED
    BY <2>6, <2>7, <2>8, <2>9, <2>10, <2>11, <2>12 DEF IInv
<1>. QED
  BY <1>1, <1>2

------------------------------------------------------------------------------
(* Listen *)

LEMMA ClientPacketForms ==
    ASSUME NEW packet \in ClientPackets
    PROVE  \/ \E pk \in Clients \X Nat : packet = ConnectionRequestPacket(pk)
           \/ \E h \in Keys : packet = ChallengeResponsePacket(h) \/ packet = DisconnectPacket(h)
           \/ \E h \in Keys, s \in SeqNumbers : packet = ConnectionDataPacket(h, s)
<1>1. CASE packet \in {ConnectionRequestPacket(pk) : pk \in Clients \X Nat}
  BY <1>1, Zenon
<1>2. CASE packet \in UNION {{ChallengeResponsePacket(h), DisconnectPacket(h)} : h \in Keys}
  <2>1. PICK h \in Keys : packet \in {ChallengeResponsePacket(h), DisconnectPacket(h)}
    BY <1>2
  <2>. QED
    BY <2>1
<1>3. CASE packet \in {ConnectionDataPacket(h, s) : h \in Keys, s \in SeqNumbers}
  <2>1. \E h \in Keys, s \in SeqNumbers : packet = ConnectionDataPacket(h, s)
    BY <1>3, SMT
  <2>. QED
    BY <2>1
<1>. QED
  BY <1>1, <1>2, <1>3 DEF ClientPackets

\* A packet sealed with a key is never a connection request.
LEMMA SealedIsNoRequest ==
    ASSUME NEW packet \in ClientPackets, NEW k
    PROVE  VerifyPacketHMAC(k, packet) # "CONNECTION_REQUEST"
<1>1. CASE \E pk \in Clients \X Nat : packet = ConnectionRequestPacket(pk)
  <2>1. packet.seal = CRC
    BY <1>1 DEF ConnectionRequestPacket
  <2>2. CRC # HMAC(k)
    BY DEF CRC, HMAC
  <2>. QED
    BY <2>1, <2>2 DEF VerifyPacketHMAC
<1>2. CASE \E h \in Keys : packet = ChallengeResponsePacket(h) \/ packet = DisconnectPacket(h)
  BY <1>2 DEF VerifyPacketHMAC, ChallengeResponsePacket, DisconnectPacket
<1>3. CASE \E h \in Keys, s \in SeqNumbers : packet = ConnectionDataPacket(h, s)
  BY <1>3 DEF VerifyPacketHMAC, ConnectionDataPacket
<1>. QED
  BY <1>1, <1>2, <1>3, ClientPacketForms

\* A packet with a matching checksum from a client is a connection request.
LEMMA RequestCarriesKey ==
    ASSUME NEW packet \in ClientPackets, VerifyPacketCRC(packet) = "CONNECTION_REQUEST"
    PROVE  packet.publicKey \in KeyPairs
<1>1. CASE \E pk \in Clients \X Nat : packet = ConnectionRequestPacket(pk)
  BY <1>1 DEF ConnectionRequestPacket, KeyPairs, Owners
<1>2. CASE \E h \in Keys : packet = ChallengeResponsePacket(h) \/ packet = DisconnectPacket(h)
  BY <1>2 DEF VerifyPacketCRC, ChallengeResponsePacket, DisconnectPacket
<1>3. CASE \E h \in Keys, s \in SeqNumbers : packet = ConnectionDataPacket(h, s)
  BY <1>3 DEF VerifyPacketCRC, ConnectionDataPacket
<1>. QED
  BY <1>1, <1>2, <1>3, ClientPacketForms

LEMMA DispatchKeepsInv ==
    ASSUME IInv, serverUp, UNCHANGED <<serverUp, serverState>>,
           NEW packetType, packetType # "CONNECTION_REQUEST",
           NEW rest, NEW c, NEW d, d.src = c, c \in Clients,
           NEW table, SameHandshakes(table),
           Dispatch(packetType, d, table, rest)
    PROVE  IInv'
<1>2. CASE HandleChallengeResponse(c, table, rest) /\ UNCHANGED serverKeyPairs
  BY <1>2, ResponseKeepsInv
<1>3. CASE RemoveClient(c, table) /\ UNCHANGED serverKeyPairs
  BY <1>3, RemoveKeepsInv
<1>4. CASE /\ challenges' = table
           /\ UNCHANGED <<connected, connections, challenged, numConnections, serverKeyPairs>>
  BY <1>4, IgnoredKeepsInv
<1>. QED
  BY <1>2, <1>3, <1>4 DEF Dispatch

LEMMA ListenKeepsInv ==
    ASSUME IInv, NEW rest, NEW c \in Clients, NEW packet \in ClientPackets,
           NEW d, d.src = c, d.packet = packet, ServerListen(d, rest)
    PROVE  IInv'
<1>1. d.src = c /\ d.packet = packet
  OBVIOUS
<1>2. /\ serverUp /\ UNCHANGED <<serverUp, serverState>>
      /\ ListenToConnected(d, rest) \/ ListenToStranger(d, rest) \/ ListenToChallenged(d, rest)
  BY DEF ServerListen
<1>3. SameHandshakes(challenges)
  BY SettledTable DEF IInv, FreedSlotsBlank
<1>4. ASSUME ListenToConnected(d, rest) PROVE IInv'
  <2>. DEFINE t == VerifyPacketHMAC(
                      connections[FindExistingConnectionIndex(c)].sharedKey, packet)
  <2>1. Dispatch(t, d, challenges, rest)
    BY <1>1, <1>4 DEF ListenToConnected
  <2>2. t # "CONNECTION_REQUEST"
    BY SealedIsNoRequest
  <2>. HIDE DEF t
  <2>. QED
    BY <1>2, <1>3, <2>1, <2>2, DispatchKeepsInv
<1>5. ASSUME ListenToStranger(d, rest) PROVE IInv'
  <2>1. /\ FindExistingConnectionIndex(c) <= 0
        /\ FindExistingChallengeIndex(c) < 0
    BY <1>1, <1>5 DEF ListenToStranger
  <2>2. CASE /\ VerifyPacketCRC(packet) = "CONNECTION_REQUEST"
             /\ HandleConnectionRequest(c, packet.publicKey, challenges, rest)
    BY <1>2, <2>1, <2>2, RequestCarriesKey, RequestKeepsInv
  <2>3. CASE UNCHANGED <<serverTables, serverKeyPairs>>
    BY <1>2, <1>3, <2>3, IgnoredKeepsInv DEF serverTables
  <2>4. CASE /\ VerifyPacketCRC(packet) = "CONNECTION_REQUEST"
             /\ challenges' = challenges
             /\ UNCHANGED <<connected, connections, challenged, numConnections, serverKeyPairs>>
    BY <1>2, <1>3, <2>4, IgnoredKeepsInv
  <2>. QED
    BY <1>1, <1>5, <2>2, <2>3, <2>4 DEF ListenToStranger, Dispatch
<1>6. ASSUME ListenToChallenged(d, rest) PROVE IInv'
  <2>. DEFINE i == FindExistingChallengeIndex(c)
              table == [challenges EXCEPT ![i] = Settle(challenges[i])]
              t == VerifyPacketHMAC(table[i].sharedKey, packet)
  <2>1. i >= 0 /\ Dispatch(t, d, table, rest)
    BY <1>1, <1>6 DEF ListenToChallenged
  <2>2. i \in Slots /\ challenged[i]
    BY <2>1, ChallengeLookup
  <2>3. SameHandshakes(table)
    BY <2>2, SettledTable DEF IInv, FreedSlotsBlank
  <2>4. t # "CONNECTION_REQUEST"
    BY SealedIsNoRequest
  <2>. HIDE DEF t, table
  <2>. QED
    BY <1>2, <2>1, <2>3, <2>4, DispatchKeepsInv
<1>. QED
  BY <1>2, <1>4, <1>5, <1>6

------------------------------------------------------------------------------
(* The host application's calls *)

LEMMA PropagateKeepsInv ==
    ASSUME IInv, NEW rest, PropagateGameData(rest)
    PROVE  IInv'
<1>1. /\ UNCHANGED <<serverUp, connected, challenged, challenges, numConnections,
                     serverState, serverKeyPairs>>
      /\ connections' \in [Slots -> ConnectionInfos]
      /\ \A i \in Slots :
            /\ connections'[i].clientAddress = connections[i].clientAddress
            /\ i = 0 \/ ~connected[i] => connections'[i] = connections[i]
  <2>1. connections \in [Slots -> ConnectionInfos]
    BY DEF IInv, ServerTypeOK
  <2>2. \A i \in Slots : NextSequence(connections[i].sequence) \in SeqNumbers
    BY <2>1, SeqModulusAssumption DEF ConnectionInfos, SeqNumbers, NextSequence
  <2>3. \A i \in Slots :
            [connections[i] EXCEPT !.sequence = NextSequence(connections[i].sequence)]
            \in ConnectionInfos
    BY <2>1, <2>2 DEF ConnectionInfos
  <2>. QED
    BY <2>1, <2>3 DEF PropagateGameData, ConnectionInfos
<1>2. 0 \in Slots
  BY ServerAssumption DEF Slots
<1>3. ServerTypeOK' /\ CountNeverAbove' /\ BlankWhenDown' /\ PendingHandshakeRemovable'
  BY <1>1 DEF IInv, ServerTypeOK, CountNeverAbove, BlankWhenDown, PendingHandshakeRemovable
<1>4. HostSlotHeld'
  BY <1>1, <1>2 DEF IInv, HostSlotHeld
<1>5. FreedSlotsBlank' /\ OneEntryPerAddress'
  BY <1>1 DEF IInv, FreedSlotsBlank, OneEntryPerAddress
<1>. QED
  BY <1>3, <1>4, <1>5 DEF IInv

LEMMA SwitchKeepsInv ==
    ASSUME IInv, NEW rest, NEW state \in {"LOBBY", "GAME"}, SwitchTo(state, rest)
    PROVE  IInv'
BY DEF SwitchTo, serverTables, IInv, ServerTypeOK, HostSlotHeld, PendingHandshakeRemovable,
       OneEntryPerAddress, FreedSlotsBlank, CountNeverAbove, BlankWhenDown

LEMMA DestroyKeepsInv ==
    ASSUME IInv, NEW rest, ServerDestroy(rest)
    PROVE  IInv'
<1>. USE DEF ServerDestroy, EmptyTables
<1>1. ServerTypeOK'
  <2>1. /\ connected' \in [Slots -> BOOLEAN] /\ challenged' \in [Slots -> BOOLEAN]
        /\ connections' \in [Slots -> ConnectionInfos]
        /\ challenges' \in [Slots -> ChallengeInfos]
    BY BlankEntries
  <2>2. serverUp' \in BOOLEAN
    BY Zenon
  <2>3. numConnections' \in Int
    <3>1. numConnections' = 0
      OBVIOUS
    <3>. QED
      BY ONLY <3>1
  <2>4. serverState' \in {"LOBBY", "GAME"} /\ serverKeyPairs' \in Nat
    BY DEF IInv, ServerTypeOK
  <2>. QED
    BY <2>1, <2>2, <2>3, <2>4 DEF ServerTypeOK
<1>2. HostSlotHeld' /\ CountNeverAbove' /\ BlankWhenDown'
  BY DEF HostSlotHeld, CountNeverAbove, BlankWhenDown
<1>3. PendingHandshakeRemovable' /\ OneEntryPerAddress' /\ FreedSlotsBlank'
  BY DEF PendingHandshakeRemovable, OneEntryPerAddress, FreedSlotsBlank
<1>. QED
  BY <1>1, <1>2, <1>3 DEF IInv

LEMMA CreateKeepsInv ==
    ASSUME IInv, NEW rest, ServerCreate(rest)
    PROVE  IInv'
<1>. USE DEF ServerCreate
<1>1. 0 \in Slots /\ LocalHost \in Addresses
  BY ServerAssumption DEF Slots, Addresses
<1>2. HostConnections \in [Slots -> ConnectionInfos]
  BY <1>1, BlankEntries DEF HostConnections
<1>3. ServerTypeOK'
  BY <1>2, HostCounted DEF IInv, ServerTypeOK
<1>4. HostSlotHeld'
  BY <1>1 DEF HostSlotHeld, HostConnected, HostConnections, ConnectionInfo
<1>5. \A i \in Slots : ~challenged'[i]
  BY DEF IInv, BlankWhenDown
<1>6. PendingHandshakeRemovable' /\ OneEntryPerAddress' /\ BlankWhenDown'
  BY <1>5 DEF PendingHandshakeRemovable, OneEntryPerAddress, BlankWhenDown, HostConnected
<1>7. FreedSlotsBlank'
  BY DEF IInv, FreedSlotsBlank, HostConnected, HostConnections
<1>8. CountNeverAbove'
  BY HostCounted DEF CountNeverAbove, InUse
<1>. QED
  BY <1>3, <1>4, <1>6, <1>7, <1>8 DEF IInv

------------------------------------------------------------------------------
(* Admissions *)

LEMMA NobodyAdmitted ==
    ASSUME \A i \in Slots \ {0} : connected'[i] => connected[i]
    PROVE  Admission
BY DEF Admission

LEMMA ResponseAdmits ==
    ASSUME IInv, serverUp, InLobby, NEW rest, NEW sender \in Clients, NEW table, SameHandshakes(table),
           HandleChallengeResponse(sender, table, rest)
    PROVE  Admission
<1>1. CASE FindExistingChallengeIndex(sender) >= 0 /\ FindFreeConnectionIndex > -1
  <2>1. PICK i \in Slots \ {0}, j \in Slots :
            LET new == ConnectionInfo(sender, SettledKey(challenges[j]))
            IN  /\ ~connected[i] /\ challenged[j]
                /\ challenges[j].clientAddress = sender
                /\ new \in ConnectionInfos
                /\ connected' = [connected EXCEPT ![i] = TRUE]
                /\ connections' = [connections EXCEPT ![i] = new]
                /\ numConnections' = numConnections + 1
                /\ ForgetChallenge(j, table)
    BY <1>1, ResponseEffect
  <2>2. ~challenged'[j]
    BY <2>1 DEF ForgetChallenge, IInv, ServerTypeOK
  <2>3. connections'[i] = ConnectionInfo(challenges[j].clientAddress, SettledKey(challenges[j]))
    BY <2>1 DEF IInv, ServerTypeOK
  <2>4. \A m \in Slots : connected'[m] => m = i \/ connected[m]
    BY <2>1 DEF IInv, ServerTypeOK
  <2>. QED
    BY <2>1, <2>2, <2>3, <2>4 DEF Admission, InLobby
<1>2. CASE ~ (FindExistingChallengeIndex(sender) >= 0 /\ FindFreeConnectionIndex > -1)
  BY <1>2, NobodyAdmitted DEF HandleChallengeResponse
<1>. QED
  BY <1>1, <1>2

LEMMA DispatchAdmits ==
    ASSUME IInv, serverUp, NEW packetType, NEW rest, NEW c, NEW d, d.src = c,
           c \in Clients, NEW table, SameHandshakes(table),
           Dispatch(packetType, d, table, rest)
    PROVE  Admission
<1>3. CASE UNCHANGED connected
  BY <1>3, NobodyAdmitted
<1>4. CASE InLobby /\ HandleChallengeResponse(c, table, rest)
  BY <1>4, ResponseAdmits
<1>5. CASE RemoveClient(c, table)
  <2>1. 1 \in Slots
    BY ServerAssumption DEF Slots
  <2>2. UNCHANGED connected \/ connected' = [connected EXCEPT ![1] = FALSE]
    BY <1>5 DEF RemoveClient, AsInt, ForgetConnection
  <2>. QED
    BY <2>1, <2>2, NobodyAdmitted DEF IInv, ServerTypeOK
<1>. QED
  BY <1>3, <1>4, <1>5 DEF Dispatch, HandleConnectionRequest

LEMMA ListenAdmits ==
    ASSUME IInv, NEW rest, NEW c \in Clients, NEW packet \in ClientPackets,
           NEW d, d.src = c, d.packet = packet, ServerListen(d, rest)
    PROVE  Admission
<1>1. d.src = c /\ d.packet = packet
  OBVIOUS
<1>2. SameHandshakes(challenges)
  BY SettledTable DEF IInv, FreedSlotsBlank
<1>3. CASE \E t : Dispatch(t, d, challenges, rest)
  BY <1>2, <1>3, DispatchAdmits DEF ServerListen
<1>4. CASE UNCHANGED <<serverTables, serverKeyPairs>>
  BY <1>4, NobodyAdmitted DEF serverTables
<1>5. CASE ListenToChallenged(d, rest)
  <2>. DEFINE i == FindExistingChallengeIndex(c)
              table == [challenges EXCEPT ![i] = Settle(challenges[i])]
              t == VerifyPacketHMAC(table[i].sharedKey, packet)
  <2>1. i >= 0 /\ Dispatch(t, d, table, rest)
    BY <1>1, <1>5 DEF ListenToChallenged
  <2>2. i \in Slots /\ challenged[i]
    BY <2>1, ChallengeLookup
  <2>3. SameHandshakes(table)
    BY <2>2, SettledTable DEF IInv, FreedSlotsBlank
  <2>. HIDE DEF t, table
  <2>. QED
    BY <2>1, <2>3, DispatchAdmits DEF ServerListen
<1>. QED
  BY <1>3, <1>4, <1>5 DEF ServerListen, ListenToConnected, ListenToStranger

\* A step that leaves the server alone keeps its invariant.
LEMMA UnchangedKeepsInv ==
    ASSUME IInv, UNCHANGED serverVars
    PROVE  IInv'
BY DEF serverVars, serverTables, IInv, ServerTypeOK, HostSlotHeld, PendingHandshakeRemovable,
       OneEntryPerAddress, FreedSlotsBlank, CountNeverAbove, BlankWhenDown
=============================================================================

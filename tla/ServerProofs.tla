---------------------------- MODULE ServerProofs ----------------------------
(***************************************************************************)
(* Proofs about Server for every number of slots, every set of clients and  *)
(* every sequence of datagrams: its type invariant, the invariants of its   *)
(* tables that MCServer.cfg checks, and the action property on admissions.  *)
(***************************************************************************)
EXTENDS ServerAlone, ServerLemmas

LEMMA NextKeepsInv == IInv /\ [Next]_vars => IInv'
<1>. SUFFICES ASSUME IInv, [Next]_vars PROVE IInv'
  OBVIOUS
<1>1. ASSUME NEW c \in Clients, NEW p \in ClientPackets,
             ServerListen(Datagram(c, ServerAddress, p, 1), {})
      PROVE  IInv'
  BY <1>1, ListenKeepsInv DEF Datagram
<1>2. CASE PropagateGameData({})
  BY <1>2, PropagateKeepsInv
<1>3. CASE SwitchToLobby({}) \/ SwitchToGame({})
  BY <1>3, SwitchKeepsInv DEF SwitchToLobby, SwitchToGame
<1>4. CASE ServerDestroy({})
  BY <1>4, DestroyKeepsInv
<1>5. CASE ServerCreate({})
  BY <1>5, CreateKeepsInv
<1>6. CASE UNCHANGED vars
  BY <1>6, UnchangedKeepsInv DEF vars
<1>. QED
  BY <1>1, <1>2, <1>3, <1>4, <1>5, <1>6 DEF Next

LEMMA NextAdmits == IInv /\ [Next]_vars => [Admission]_vars
<1>. SUFFICES ASSUME IInv, Next PROVE Admission
  OBVIOUS
<1>1. ASSUME NEW c \in Clients, NEW p \in ClientPackets,
             ServerListen(Datagram(c, ServerAddress, p, 1), {})
      PROVE  Admission
  BY <1>1, ListenAdmits DEF Datagram
<1>2. CASE PropagateGameData({}) \/ SwitchToLobby({}) \/ SwitchToGame({})
  BY <1>2, NobodyAdmitted
     DEF PropagateGameData, SwitchToLobby, SwitchToGame, SwitchTo, serverTables
<1>3. CASE ServerDestroy({})
  BY <1>3, NobodyAdmitted DEF ServerDestroy, EmptyTables
<1>4. CASE ServerCreate({})
  BY <1>4, NobodyAdmitted DEF ServerCreate, HostConnected
<1>. QED
  BY <1>1, <1>2, <1>3, <1>4 DEF Next

------------------------------------------------------------------------------
(* The theorems *)

\* The inductive invariant holds in every reachable state.
THEOREM ServerInvariant == Spec => []IInv
<1>1. Init => IInv
  BY InitInv DEF Init
<1>. QED
  BY <1>1, NextKeepsInv, PTL DEF Spec

\* Whatever clients send, the tables keep their types.
THEOREM ServerTypeCorrect == Spec => []ServerTypeOK
<1>1. IInv => ServerTypeOK
  BY DEF IInv
<1>. QED
  BY <1>1, ServerInvariant, PTL

\* No client is ever given the host's slot.
THEOREM HostSlotIsHeld == Spec => []HostSlotHeld
<1>1. IInv => HostSlotHeld
  BY DEF IInv
<1>. QED
  BY <1>1, ServerInvariant, PTL

\* A pending handshake is always where RemoveClient and KickClient find it.
THEOREM PendingHandshakeIsRemovable == Spec => []PendingHandshakeRemovable
<1>1. IInv => PendingHandshakeRemovable
  BY DEF IInv
<1>. QED
  BY <1>1, ServerInvariant, PTL

\* An address has at most one entry in the two tables together, for any number of
\* slots and clients.
THEOREM AddressesAreUnique == Spec => []OneEntryPerAddress
<1>1. IInv => OneEntryPerAddress
  BY DEF IInv
<1>. QED
  BY <1>1, ServerInvariant, PTL

\* A free slot holds nothing of its last owner.
THEOREM FreedSlotsAreBlank == Spec => []FreedSlotsBlank
<1>1. IInv => FreedSlotsBlank
  BY DEF IInv
<1>. QED
  BY <1>1, ServerInvariant, PTL

\* GetConnectedClientCount never exceeds the number of connected slots.
THEOREM CountIsNeverAbove == Spec => []CountNeverAbove
<1>1. IInv => CountNeverAbove
  BY DEF IInv
<1>. QED
  BY <1>1, ServerInvariant, PTL

\* A client gets a slot only in the lobby and only from its own pending handshake,
\* with the key of that handshake.
THEOREM AdmissionIsByHandshake == Spec => AdmittedByHandshake
BY ServerInvariant, NextAdmits, PTL DEF Spec, AdmittedByHandshake

=============================================================================

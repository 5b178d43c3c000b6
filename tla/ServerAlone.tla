---------------------------- MODULE ServerAlone -----------------------------
(***************************************************************************)
(* The server alone: any client may send it anything a Client can form, at  *)
(* any time, sealed with any key.  network holds what the last step sent.   *)
(***************************************************************************)
EXTENDS Server

vars == <<serverVars, network>>

Init == ServerInit /\ network = {}

Next ==
    \/ \E c \in Clients : \E p \in ClientPackets :
           ServerListen(Datagram(c, ServerAddress, p, 1), {})
    \/ PropagateGameData({})
    \/ SwitchToLobby({})
    \/ SwitchToGame({})
    \/ ServerDestroy({})
    \/ ServerCreate({})

Spec == Init /\ [][Next]_vars

------------------------------------------------------------------------------
\* Every admission of every step is by a handshake, in the lobby (see Admission).
AdmittedByHandshake == [][Admission]_vars

\* A client that has been sent a challenge keeps its pending handshake until it ends:
\* a request that finds no room is denied and displaces nobody.
HandshakeKept ==
    [][\A i \in Slots :
          challenged[i] /\ challenged'[i] =>
              challenges'[i].clientAddress = challenges[i].clientAddress]_vars
=============================================================================

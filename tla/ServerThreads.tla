---------------------------- MODULE ServerThreads ----------------------------
(***************************************************************************)
(* The server's two threads, as main.cpp runs them: one calls Listen, the   *)
(* other PropagateGameData, and nothing keeps them apart.  What both touch, *)
(* m_connected and m_connections, changes one field at a time here; what    *)
(* only Listen touches changes as in Server.  The connect callback, which   *)
(* Listen calls, may call PropagateGameData too.                            *)
(***************************************************************************)
EXTENDS Server, Sequences

\* The ways an application may make the calls: on two threads, or in turn in one loop, and
\* with a connect callback that propagates a message or one that does not.
CONSTANT Applications

ASSUME ApplicationsAssumption ==
    Applications \subseteq [twoThreads : BOOLEAN, fromCallback : BOOLEAN]

VARIABLES
    application,  \* the one there is
    listener,     \* where Listen is, and what it is storing into a slot
    propagation,  \* where each thread is in PropagateGameData
    messages,     \* how many messages were propagated
    owners,       \* the admissions so far: client, key and slot, in order
    sent          \* the packets sent to clients, in order: destination, packet, message

threadVars == <<listener, propagation, messages, owners, sent, application>>
vars       == <<serverVars, network, threadVars>>

TwoThreads   == application.twoThreads
FromCallback == application.fromCallback

Threads == {"main", "listener"}
Fields  == {"flag", "clientAddress", "sharedKey", "sequence"}

\* What clients send: a client seals with the keys that it has computed, and none of them
\* is what a key task makes of a stale index.
Packets == {p \in ClientPackets : \A k \in GarbageKeys : p.seal # HMAC(k)}

\* "pc" is idle, or where the handler is: at the "store" of the fields that are left in
\* "stores" into its slot, at the "callback" or where it "accept"s.
IdleListener ==
    [pc |-> "idle", slot |-> 0, stores |-> {}, flag |-> FALSE, entry |-> NoConnection,
     then |-> "removed"]

\* "pc" is idle, or the step of the loop that is next: see Propagates.
IdlePropagation == [pc |-> "idle", slot |-> 0, message |-> 0, number |-> 0, key |-> ZeroKey]

Init ==
    /\ application \in Applications
    /\ ServerInit
    /\ network = {}
    /\ listener = IdleListener
    /\ propagation = [t \in Threads |-> IdlePropagation]
    /\ messages = 0
    /\ owners = <<>>
    /\ sent = <<>>

\* Listen may go on: no callback is propagating, and if there is a single thread it is
\* not in PropagateGameData.
ListenerRuns ==
    /\ propagation["listener"].pc = "idle"
    /\ TwoThreads \/ propagation["main"].pc = "idle"

------------------------------------------------------------------------------
(* Listen *)

\* A datagram that changes nothing the other thread sees.
ListenElse(d) ==
    /\ ListenerRuns /\ listener.pc = "idle"
    /\ ServerListen(d, {})
    /\ connected' = connected /\ connections' = connections /\ numConnections' = numConnections
    /\ UNCHANGED threadVars

Storing(slot, flag, entry, then) ==
    [pc |-> "store", slot |-> slot, stores |-> Fields, flag |-> flag, entry |-> entry,
     then |-> then]

\* A CHALLENGE_RESPONSE that will admit its sender: m_state has been tested, the key has
\* been waited for, the slot is found.
BeginAdmission(d) ==
    LET i     == FindExistingChallengeIndex(d.src)
        table == [challenges EXCEPT ![i] = Settle(challenges[i])]
    IN  /\ ListenerRuns /\ listener.pc = "idle"
        /\ InLobby
        /\ FindExistingConnectionIndex(d.src) <= 0 /\ i >= 0
        /\ VerifyPacketHMAC(table[i].sharedKey, d.packet) = "CHALLENGE_RESPONSE"
        /\ FindFreeConnectionIndex > -1
        /\ listener' = Storing(FindFreeConnectionIndex, TRUE,
                               ConnectionInfo(d.src, table[i].sharedKey), "admitted")
        /\ challenges' = table
        /\ owners' = Append(owners, [client |-> d.src, key |-> table[i].sharedKey,
                                     slot |-> FindFreeConnectionIndex])
        /\ UNCHANGED <<serverUp, connected, connections, challenged, numConnections, serverState,
                       serverKeyPairs, network, propagation, messages, sent>>

\* A DISCONNECT of a connected client: RemoveClient clears slot 1.
BeginRemoval(d) ==
    LET i == FindExistingConnectionIndex(d.src)
    IN  /\ ListenerRuns /\ listener.pc = "idle"
        /\ i > 0
        /\ VerifyPacketHMAC(connections[i].sharedKey, d.packet) = "DISCONNECT"
        /\ listener' = Storing(AsInt(i > 0), FALSE, NoConnection, "removed")
        /\ UNCHANGED <<serverVars, network, propagation, messages, owners, sent>>

\* Variants: the entry of a client that has gone is not blanked; the key is not passed on.
StoreOfNothingRemoved(field) ==
    /\ connected' = [connected EXCEPT ![listener.slot] = IF field = "flag" THEN listener.flag ELSE @]
    /\ connections' = [connections EXCEPT ![listener.slot] =
           CASE listener.then = "removed"  -> @
             [] field = "flag"             -> @
             [] field = "clientAddress"    -> [@ EXCEPT !.clientAddress = listener.entry.clientAddress]
             [] field = "sharedKey"        -> [@ EXCEPT !.sharedKey = listener.entry.sharedKey]
             [] field = "sequence"         -> [@ EXCEPT !.sequence = listener.entry.sequence]]

StoreOfNoKey(field) ==
    /\ connected' = [connected EXCEPT ![listener.slot] = IF field = "flag" THEN listener.flag ELSE @]
    /\ connections' = [connections EXCEPT ![listener.slot] =
           CASE field \in {"flag", "sharedKey"} -> @
             [] field = "clientAddress"         -> [@ EXCEPT !.clientAddress = listener.entry.clientAddress]
             [] field = "sequence"              -> [@ EXCEPT !.sequence = listener.entry.sequence]]

StoreOf(field) ==
    /\ connected' = [connected EXCEPT ![listener.slot] = IF field = "flag" THEN listener.flag ELSE @]
    /\ connections' = [connections EXCEPT ![listener.slot] =
           CASE field = "flag"             -> @
             [] field = "clientAddress"    -> [@ EXCEPT !.clientAddress = listener.entry.clientAddress]
             [] field = "sharedKey"        -> [@ EXCEPT !.sharedKey = listener.entry.sharedKey]
             [] field = "sequence"         -> [@ EXCEPT !.sequence = listener.entry.sequence]]

\* m_connected[i] = ... and m_connections[i] = ...: neither is atomic or volatile, so that
\* the stores reach the other thread in any order.
Store(field) ==
    /\ ListenerRuns /\ listener.pc = "store"
    /\ field \in listener.stores
    /\ StoreOf(field)
    /\ listener' = [listener EXCEPT !.stores = @ \ {field}]
    /\ UNCHANGED <<serverUp, challenged, challenges, numConnections, serverState, serverKeyPairs,
                   network, propagation, messages, owners, sent>>

\* The rest of the admission up to the callback.
EndAdmission ==
    LET i == FindExistingChallengeIndex(listener.entry.clientAddress)
    IN  /\ ListenerRuns /\ listener.pc = "store"
        /\ listener.stores = {} /\ listener.then = "admitted"
        /\ numConnections' = numConnections + 1
        /\ ForgetChallenge(i, challenges)
        /\ listener' = [listener EXCEPT !.pc = "callback"]
        /\ UNCHANGED <<serverUp, connected, connections, serverState, serverKeyPairs, network,
                       propagation, messages, owners, sent>>

EndRemoval ==
    /\ ListenerRuns /\ listener.pc = "store"
    /\ listener.stores = {} /\ listener.then = "removed"
    /\ numConnections' = numConnections - 1
    /\ listener' = IdleListener
    /\ UNCHANGED <<serverUp, connected, connections, challenged, challenges, serverState,
                   serverKeyPairs, network, propagation, messages, owners, sent>>

\* m_clientConnectCallback, and what the application does in it.
Callback ==
    /\ ListenerRuns /\ listener.pc = "callback"
    /\ listener' = [listener EXCEPT !.pc = "accept"]
    /\ IF FromCallback
       THEN /\ propagation' = [propagation EXCEPT !["listener"] =
                   [IdlePropagation EXCEPT !.pc = "test", !.slot = 1, !.message = messages + 1]]
            /\ messages' = messages + 1
       ELSE UNCHANGED <<propagation, messages>>
    /\ UNCHANGED <<serverVars, network, owners, sent>>

\* To whom a packet was sent, and of which message; nothing is sent to no address.
SendTo(address, packet, message) ==
    sent' = IF address = NoAddress THEN sent
            ELSE Append(sent, [dst |-> address, packet |-> packet, message |-> message])

\* Variant: sealed with the key of the handshake, which has been reset.
AcceptFromChallenge ==
    /\ ListenerRuns /\ listener.pc = "accept"
    /\ SendTo(listener.entry.clientAddress, ConnectionAcceptedPacket(ZeroKey, listener.slot), 0)
    /\ listener' = IdleListener
    /\ UNCHANGED <<serverVars, network, propagation, messages, owners>>

Accept ==
    /\ ListenerRuns /\ listener.pc = "accept"
    /\ SendTo(listener.entry.clientAddress,
              ConnectionAcceptedPacket(connections[listener.slot].sharedKey, listener.slot), 0)
    /\ listener' = IdleListener
    /\ UNCHANGED <<serverVars, network, propagation, messages, owners>>

------------------------------------------------------------------------------
(* PropagateGameData.  "i" and "packetInfo" are locals of its thread. *)

\* The thread of main() calls it.
Propagate ==
    /\ propagation["main"].pc = "idle"
    /\ TwoThreads \/ (listener.pc = "idle" /\ propagation["listener"].pc = "idle")
    /\ propagation' = [propagation EXCEPT !["main"] =
           [IdlePropagation EXCEPT !.pc = "test", !.slot = 1, !.message = messages + 1]]
    /\ messages' = messages + 1
    /\ UNCHANGED <<serverVars, network, listener, owners, sent>>

\* The next slot, or the end of the loop.
NextSlot(p) ==
    IF p.slot + 1 \in Slots THEN [p EXCEPT !.pc = "test", !.slot = @ + 1] ELSE IdlePropagation

Goes(t, pc, next) ==
    /\ propagation[t].pc = pc
    /\ propagation' = [propagation EXCEPT ![t] = next]
    /\ UNCHANGED <<serverUp, connected, challenged, challenges, numConnections, serverState,
                   serverKeyPairs, network, listener, messages, owners>>

Test(t) ==
    LET p == propagation[t]
    IN  /\ Goes(t, "test", IF connected[p.slot] THEN [p EXCEPT !.pc = "load"] ELSE NextSlot(p))
        /\ UNCHANGED <<connections, sent>>

\* ++connectionInfo.sequence, a load and a store.
Load(t) ==
    LET p == propagation[t]
    IN  /\ Goes(t, "load", [p EXCEPT !.pc = "store",
                                     !.number = NextSequence(connections[p.slot].sequence)])
        /\ UNCHANGED <<connections, sent>>

\* Variant: the increment is lost.
StoreNumberNot(t) ==
    /\ Goes(t, "store", [propagation[t] EXCEPT !.pc = "write"])
    /\ UNCHANGED <<connections, sent>>

StoreNumber(t) ==
    LET p == propagation[t]
    IN  /\ Goes(t, "store", [p EXCEPT !.pc = "write"])
        /\ connections' = [connections EXCEPT ![p.slot].sequence = p.number]
        /\ UNCHANGED sent

\* packetInfo.Write seals the packet with the key that is in the entry by now.
WritePacket(t) ==
    LET p == propagation[t]
    IN  /\ Goes(t, "write", [p EXCEPT !.pc = "send", !.key = connections[p.slot].sharedKey])
        /\ UNCHANGED <<connections, sent>>

SendPacket(t) ==
    LET p == propagation[t]
    IN  /\ Goes(t, "send", NextSlot(p))
        /\ SendTo(connections[p.slot].clientAddress, ConnectionDataPacket(p.key, p.number), p.message)
        /\ UNCHANGED connections

Propagates(t) == Test(t) \/ Load(t) \/ StoreNumber(t) \/ WritePacket(t) \/ SendPacket(t)

\* main() switches only between two calls of its own.
Switch ==
    /\ propagation["main"].pc = "idle"
    /\ TwoThreads \/ listener.pc = "idle"
    /\ SwitchToLobby({}) \/ SwitchToGame({})
    /\ UNCHANGED threadVars

Listens(d) == ListenElse(d) \/ BeginAdmission(d) \/ BeginRemoval(d)

ListenGoesOn ==
    \/ \E field \in Fields : Store(field)
    \/ EndAdmission \/ EndRemoval \/ Callback \/ Accept

Next ==
    /\ \/ \E c \in Clients : \E p \in Packets : Listens(Datagram(c, ServerAddress, p, 1))
       \/ ListenGoesOn
       \/ Propagate \/ Switch
       \/ \E t \in Threads : Propagates(t)
    /\ UNCHANGED application

Spec == Init /\ [][Next]_vars

------------------------------------------------------------------------------
(* Properties *)

IsData(s) == s.packet.type = "CONNECTION_DATA"
SealedWith(s, k) == s.packet.seal = HMAC(k)

\* Between two calls of Listen and of PropagateGameData, an occupied slot holds the address
\* and the key of its latest admission together, and never a mixture of two clients': the
\* stores of an admission and of a removal do not get into each other's way.
EntriesAreWhole ==
    listener.pc = "idle" =>
        \A i \in Slots \ {0} : connected[i] =>
            \E n \in DOMAIN owners :
                /\ owners[n].slot = i
                /\ owners[n].client = connections[i].clientAddress
                /\ owners[n].key = connections[i].sharedKey
                /\ \A m \in DOMAIN owners : owners[m].slot = i => m <= n

\* Data sealed with a client's key goes to that client or, the slot having changed hands
\* between Write and Send, to one admitted after it: never back to a previous owner of the
\* slot, although the entry is read field by field while it is being stored.
NeverToAnEarlierOwner ==
    \A s \in {sent[j] : j \in DOMAIN sent} : IsData(s) =>
        \A n \in DOMAIN owners : SealedWith(s, owners[n].key) =>
            \E m \in DOMAIN owners : m >= n /\ owners[m].client = s.dst

\* Two messages to one session have two numbers, unless a whole turn of the counter is
\* between them: the client drops the second of two packets with the same one.  False of the
\* code on two threads: a message numbered between the stores of an admission has its number
\* taken back.
OneNumberPerMessage ==
    ~TwoThreads =>
        \A i, j \in DOMAIN sent :
            /\ IsData(sent[i]) /\ IsData(sent[j])
            /\ sent[i].dst = sent[j].dst
            /\ sent[i].packet = sent[j].packet
            /\ ~SealedWith(sent[i], ZeroKey)
            => (sent[i].message - sent[j].message) % SeqModulus = 0

\* CONNECTION_ACCEPTED is the first packet a client is sent under its session's key: data
\* in front of it would disconnect it.  False of the code on two threads, and of a message
\* that the connect callback propagates.
AcceptedFirst ==
    ~TwoThreads /\ ~FromCallback =>
        \A j \in DOMAIN sent : IsData(sent[j]) =>
            \A n \in DOMAIN owners :
                SealedWith(sent[j], owners[n].key) /\ sent[j].dst = owners[n].client =>
                    \E i \in 1 .. j - 1 :
                        sent[i].packet = ConnectionAcceptedPacket(owners[n].key, owners[n].slot)
=============================================================================

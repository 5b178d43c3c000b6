------------------------------ MODULE Sockets ------------------------------
(***************************************************************************)
(* Socket.cpp and NetworkPlugin.cpp: the life of the sockets of one process *)
(* against the operating system's, and the addresses that go down with a    *)
(* datagram and come up with one.  Every call of the operating system may   *)
(* fail; a handle that was closed may be given out again.                   *)
(*                                                                          *)
(* At most one datagram is on its way.  A step is one call of the class,    *)
(* which the exported functions forward once they have checked the pointer. *)
(***************************************************************************)
EXTENDS Addresses

CONSTANTS
    Sockets,      \* where "new Socket" may put an object
    Handles,      \* what the operating system calls its sockets
    Ports,        \* the ports an application may name
    Host,         \* the address of this machine, as four numbers
    Texts,        \* the addresses an application may name as text
    Leftovers,    \* what sin_addr may hold before anything is stored in it
    MaxStartups   \* WSAStartup fails from there on

NotConstructed == "not constructed"
INVALID_SOCKET == "INVALID_SOCKET"

\* A socket of the operating system that is closed, or not bound to a port.
Closed    == [port |-> -1, blocking |-> TRUE]
NotBound  == 0

ASSUME SocketsAssumption ==
    /\ Ports \subseteq 1 .. ByteBase * ByteBase - 1
    /\ {NotConstructed, INVALID_SOCKET} \cap Handles = {}
    /\ (Texts \ {NotAnAddress}) \cup Leftovers \cup {Host} \subseteq [1 .. 4 -> 0 .. ByteBase - 1]
    /\ MaxStartups \in Nat

VARIABLES
    handle,         \* m_handle of each object
    opened,         \* what Open last returned for it, FALSE again once it is closed
    os,             \* the operating system's sockets
    startups,       \* the calls of WSAStartup that no WSACleanup has taken back
    isInitialized,  \* NetworkAPI::isInitialized
    onWire,         \* the datagram on its way, and what its sender was asked for; or none
    sender,         \* o_sender of each object's last Receive
    cameFrom        \* where that datagram came from, as it was on the wire

socketVars == <<handle, opened, os, startups, isInitialized, onWire, sender, cameFrom>>

------------------------------------------------------------------------------
(* The operating system *)

\* An address and a port as bytes: sin_addr and sin_port.
Wire(address) == [address |-> GetAddress(address), port |-> GetNPort(address)]
Nowhere == [address |-> <<>>, port |-> <<>>]

Nothing == [from |-> Nowhere, to |-> Nowhere, asked |-> Nowhere]

OsOpen == {h \in Handles : os[h] # Closed}

\* WSAStartup: may fail, and needs no socket.
Startups(n) == {n} \cup (IF n < MaxStartups THEN {n + 1} ELSE {})

------------------------------------------------------------------------------
(* NetworkAPI *)

\* InitializeSockets, as the number of startups and the flag that it leaves.
Started(n, initialized) ==
    IF initialized THEN {<<n, TRUE>>} ELSE {<<m, FALSE>> : m \in Startups(n)}

InitializeSockets ==
    /\ \E s \in Started(startups, isInitialized) :
          startups' = s[1] /\ isInitialized' = s[2]
    /\ UNCHANGED <<handle, opened, os, onWire, sender, cameFrom>>

\* WSACleanup fails without a startup; the last one closes every socket of the process.
ShutdownSockets ==
    /\ startups' = IF isInitialized /\ startups > 0 THEN startups - 1 ELSE startups
    /\ os' = IF isInitialized /\ startups' = 0 THEN [h \in Handles |-> Closed] ELSE os
    /\ UNCHANGED <<handle, opened, isInitialized, onWire, sender, cameFrom>>

------------------------------------------------------------------------------
(* Socket *)

Constructed(s) == handle[s] # NotConstructed
IsOpen(s)      == handle[s] \in Handles

Create(s) ==
    /\ ~Constructed(s)
    /\ \E i \in Started(startups, isInitialized) :
          startups' = i[1] /\ isInitialized' = i[2]
    /\ handle' = [handle EXCEPT ![s] = INVALID_SOCKET]
    /\ UNCHANGED <<opened, os, onWire, sender, cameFrom>>

\* How far Open gets: the call that fails, or "done".
Stages == {"socket", "setsockopt", "bind", "ioctlsocket", "done"}

\* Variant: a socket that would block is good enough.
SucceededIf(stage) == stage \in {"ioctlsocket", "done"}

\* What Open returns.
Succeeds(stage) == stage = "done"

\* The operating system's socket that Open leaves.
Opened(stage, port) ==
    [port     |-> IF stage \in {"ioctlsocket", "done"} THEN port ELSE NotBound,
     blocking |-> stage # "done"]

\* The object keeps a handle that only the first stage failing does not give it, and forgets
\* the one it had.
Open(s, port) ==   \* For port 0, the client's, the system picks one.
    /\ Constructed(s)
    /\ \E i \in Started(startups, isInitialized), stage \in Stages :
          /\ startups' = i[1] /\ isInitialized' = i[2]
          /\ opened' = [opened EXCEPT ![s] = Succeeds(stage)]
          /\ IF stage = "socket"
             THEN /\ handle' = [handle EXCEPT ![s] = INVALID_SOCKET]
                  /\ os' = os
             ELSE /\ i[1] > 0
                  /\ \E h \in Handles \ OsOpen :
                        /\ handle' = [handle EXCEPT ![s] = h]
                        /\ os' = [os EXCEPT ![h] = Opened(stage, port)]
    /\ UNCHANGED <<onWire, sender, cameFrom>>

\* Variant: the handle is kept.
HandleAfterKept(h, closed) == h

\* m_handle after Close, whose closesocket may fail.
HandleAfter(h, closed) == IF closed THEN INVALID_SOCKET ELSE h

CloseOs(h, closed) == IF closed THEN [os EXCEPT ![h] = Closed] ELSE os

Close(s) ==
    /\ IsOpen(s)
    /\ \E closed \in BOOLEAN :
          /\ handle' = [handle EXCEPT ![s] = HandleAfter(@, closed)]
          /\ os' = CloseOs(handle[s], closed)
          /\ opened' = [opened EXCEPT ![s] = @ /\ ~closed]
    /\ UNCHANGED <<startups, isInitialized, onWire, sender, cameFrom>>

\* The destructor looks at nothing Close returns.
Destroy(s) ==
    /\ Constructed(s)
    /\ IF IsOpen(s) THEN \E closed \in BOOLEAN : os' = CloseOs(handle[s], closed) ELSE os' = os
    /\ handle' = [handle EXCEPT ![s] = NotConstructed]
    /\ opened' = [opened EXCEPT ![s] = FALSE]
    /\ sender' = [sender EXCEPT ![s] = NoAddress]
    /\ cameFrom' = [cameFrom EXCEPT ![s] = Wire(NoAddress)]
    /\ UNCHANGED <<startups, isInitialized, onWire>>

\* sendto binds a socket that has no port yet to one the system picks.
SendTo(s, to, asked) ==
    /\ IsOpen(s) /\ os[handle[s]] # Closed /\ onWire = Nothing
    /\ \E port \in Ports :
          /\ os[handle[s]].port \in {NotBound, port}
          /\ os' = [os EXCEPT ![handle[s]].port = port]
          /\ onWire' = [from |-> Wire(FromOctets(Host, port)), to |-> to, asked |-> asked]
    /\ UNCHANGED <<handle, opened, startups, isInitialized, sender, cameFrom>>

\* Send(const Address&, ...), to an address made of octets or of text, or to o_sender.
SendToOctets(s, octets, port) ==
    SendTo(s, Wire(FromOctets(octets, port)), [address |-> Parsed(octets), port |-> htons(port)])

\* What was asked for with a text, which may be no address at all.
AskedByText(text, port) ==
    IF text = NotAnAddress THEN Nowhere
    ELSE [address |-> Parsed(text), port |-> htons(port)]

SendToAddressOfText(s, text, port) ==
    SendTo(s, Wire(FromText(text, port)), AskedByText(text, port))

Reply(s) ==
    /\ sender[s] # NoAddress
    /\ SendTo(s, Wire(sender[s]), cameFrom[s])

\* Send(const char*, ...): sin_addr holds what was in memory if the text is no address.
SendToText(s, text, port) ==
    \E octets \in IF text = NotAnAddress THEN Leftovers ELSE {text} :
        SendTo(s, [address |-> Parsed(octets), port |-> htons(port)],
               AskedByText(text, port))

\* Variant: the address is taken as it is on the wire.
SenderOfRaw(from) == Address(ntohl(Reverse(from.address)), ntohs(from.port))

\* o_sender = { ntohl(from.sin_addr.s_addr), ntohs(from.sin_port) }
SenderOf(from) == Address(ntohl(from.address), ntohs(from.port))

Receive(s) ==
    /\ IsOpen(s) /\ os[handle[s]] # Closed /\ os[handle[s]].port # NotBound
    /\ onWire.to = Wire(FromOctets(Host, os[handle[s]].port))
    /\ sender' = [sender EXCEPT ![s] = SenderOf(onWire.from)]
    /\ cameFrom' = [cameFrom EXCEPT ![s] = onWire.from]
    /\ onWire' = Nothing
    /\ UNCHANGED <<handle, opened, os, startups, isInitialized>>

\* Receive on a blocking socket does not return while there is nothing for it.
Blocks(s) ==
    /\ IsOpen(s) /\ os[handle[s]] # Closed /\ os[handle[s]].port # NotBound
    /\ os[handle[s]].blocking

Lose ==
    /\ onWire # Nothing
    /\ onWire' = Nothing
    /\ UNCHANGED <<handle, opened, os, startups, isInitialized, sender, cameFrom>>

------------------------------------------------------------------------------
SocketsInit ==
    /\ handle = [s \in Sockets |-> NotConstructed]
    /\ opened = [s \in Sockets |-> FALSE]
    /\ os = [h \in Handles |-> Closed]
    /\ startups = 0
    /\ isInitialized = FALSE
    /\ onWire = Nothing
    /\ sender = [s \in Sockets |-> NoAddress]
    /\ cameFrom = [s \in Sockets |-> Wire(NoAddress)]

SocketsNext ==
    \/ InitializeSockets
    \/ ShutdownSockets
    \/ Lose
    \/ \E s \in Sockets :
          \/ Create(s) \/ Close(s) \/ Destroy(s) \/ Reply(s) \/ Receive(s)
          \/ \E port \in Ports :
                \/ Open(s, port)
                \/ SendToOctets(s, Host, port)
                \/ \E text \in Texts : SendToAddressOfText(s, text, port) \/ SendToText(s, text, port)

SocketsSpec == SocketsInit /\ [][SocketsNext]_socketVars

------------------------------------------------------------------------------
(* Properties *)

\* A handle an object holds is open at the operating system, or was never given to it: no
\* object works on a socket that was closed under it, or that now belongs to another.
HandlesAreOwn ==
    \A s \in Sockets : IsOpen(s) =>
        /\ os[handle[s]] # Closed
        /\ \A t \in Sockets \ {s} : handle[t] # handle[s]

\* Once Open has returned true, a Receive finds the socket bound and comes back at once.
OpenIsReady ==
    \A s \in Sockets : opened[s] => IsOpen(s) /\ os[handle[s]].port # NotBound /\ ~Blocks(s)

\* A datagram goes to the address and the port it was meant for, whichever constructor or
\* Send was used; an answer goes to where the datagram answered came from.
SentWhereAsked == onWire # Nothing /\ onWire.asked # Nowhere => onWire.to = onWire.asked

\* The address Receive reports spells, octet by octet, the machine the datagram came from.
SenderIsHost ==
    \A s \in Sockets : sender[s] # NoAddress =>
        [i \in 1 .. 4 |-> Octet(sender[s], i)] = Host

\* False of the code: an object whose Open has failed is not open ("Unable to open server
\* socket", Server.cpp:11).
FailedOpenIsClosed == \A s \in Sockets : IsOpen(s) => opened[s]

\* False of the code: a text that is no address ("Invalid String", Address.cpp:25) reaches no
\* machine.  It stands for 0.0.0.0 in an Address, but Socket::Send sends to Leftovers.
InvalidTextReachesNobody ==
    onWire # Nothing /\ onWire.asked = Nowhere => onWire.to.address = GetAddress(NoAddress)
=============================================================================

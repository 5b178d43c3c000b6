--------------------------- MODULE MCClientThreads ---------------------------
(* ClientThreads on a small instance: the bounds of what is counted. *)
EXTENDS ClientThreads, TLC

CONSTANTS
    MaxConnects,  \* calls of Connect
    MaxPairs,     \* handshakes each host may begin
    MaxData       \* messages a host sends in a session

Entries(h) == {hosts[h].connection, hosts[h].challenge}

\* Where main() calls SendDisconnect, which it does until its last Connect, one host answers,
\* a second time when the first handshake was given up, one thread responds at a time, and
\* game data is sent in the first session.  Otherwise every host answers, once, one of them
\* may be destroyed, and the threads respond together.
MCHostSteps(h) ==
    /\ HostSteps(h)
    /\ hosts'[h].pairs <= IF mayDisconnect THEN MaxPairs ELSE 1
    /\ hosts'[h].sequence <= IF mayDisconnect /\ hosts[h].pairs = 1 THEN MaxData ELSE 0
    /\ mayDisconnect => Cardinality({x \in Hosts : hosts'[x].pairs > 0}) <= 1
    /\ Cardinality({x \in Hosts : hosts'[x].pairs > 0 /\ Entries(x)' = {ZeroKey}}) <= 1

MCListenGoesOn ==
    /\ ListenGoesOn
    /\ mayDisconnect => Cardinality({r \in Responders : responder'[r].pc # "idle"}) <= 1

MCConnecting ==
    /\ Connecting
    /\ keyPair' <= MaxConnects
    /\ caller.pc = "idle" => keyPair < MaxConnects

MCSendDisconnect ==
    /\ SendDisconnect
    /\ caller.pc = "idle" => keyPair < MaxConnects

MCNext ==
    /\ \/ \E d \in network : Receive(d)
       \/ MCListenGoesOn
       \/ \E r \in Responders : Responding(r)
       \/ MCConnecting \/ MCSendDisconnect
       \/ \E h \in Hosts : MCHostSteps(h)
    /\ UNCHANGED mayDisconnect

MCSpec == Init /\ [][MCNext]_vars

MCSymmetry == Permutations(Responders) \cup Permutations(Hosts)
=============================================================================

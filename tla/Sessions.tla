------------------------------ MODULE Sessions ------------------------------
(***************************************************************************)
(* What a host and its clients promise each other, without packets, keys'   *)
(* origins, threads or tables: a session is a client, a key and a seat.     *)
(* The host admits it once and seats it until it is vacated; a client may   *)
(* join a session it was admitted to, speak in it and leave it; the host    *)
(* hears, from a seat, only what was said in the session that is seated.    *)
(***************************************************************************)
CONSTANTS
    Clients,  \* who may be admitted
    Keys,     \* what a session is known by
    Seats,    \* the places the host has for clients
    Numbers   \* the numbers messages are given

VARIABLES
    admissions,  \* every session there has been
    seated,      \* the sessions that have their seat
    joined,      \* the sessions their client believes to be in
    said,        \* messages: key, seat, and number
    heard        \* those the host was handed

sessionVars == <<admissions, seated, joined, said, heard>>

------------------------------------------------------------------------------
SessionType == [client : Clients, key : Keys, slot : Seats]

Message(s, n) == [key |-> s.key, slot |-> s.slot, sequence |-> n]

Init ==
    /\ admissions = {} /\ seated = {} /\ joined = {}
    /\ said = {} /\ heard = {}

\* A session begins: its key is new, its seat is free and its client has no other.
Admit(s) ==
    /\ s \in SessionType
    /\ \A t \in admissions : t.key # s.key
    /\ \A t \in seated : t.slot # s.slot /\ t.client # s.client
    /\ admissions' = admissions \cup {s}
    /\ seated' = seated \cup {s}
    /\ UNCHANGED <<joined, said, heard>>

\* Seats are given up: one at a time, or all when the host shuts down.
Vacate ==
    /\ seated' \subseteq seated
    /\ UNCHANGED <<admissions, joined, said, heard>>

\* A client joins one of its sessions, and is in one at a time.
Join(s) ==
    /\ s \in admissions
    /\ \A t \in joined : t.client # s.client
    /\ joined' = joined \cup {s}
    /\ UNCHANGED <<admissions, seated, said, heard>>

Leave(s) ==
    /\ joined' = joined \ {s}
    /\ UNCHANGED <<admissions, seated, said, heard>>

Say(s, n) ==
    /\ said' = said \cup {Message(s, n)}
    /\ UNCHANGED <<admissions, seated, joined, heard>>

Hear(s, n) ==
    /\ Message(s, n) \in said
    /\ heard' = heard \cup {Message(s, n)}
    /\ UNCHANGED <<admissions, seated, joined, said>>

\* The session that begins is one of those of the next state.
Next ==
    \/ \E s \in admissions' : Admit(s)
    \/ Vacate
    \/ \E s \in admissions : Join(s)
    \/ \E s \in joined : Leave(s)
    \/ \E s \in joined, n \in Numbers : Say(s, n)
    \/ \E s \in seated, n \in Numbers : Hear(s, n)

Spec == Init /\ [][Next]_sessionVars
=============================================================================

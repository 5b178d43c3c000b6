--------------------------- MODULE InOrderDelivery ---------------------------
(***************************************************************************)
(* What Client::Listen promises the application about the game data of one  *)
(* session: each message it is handed was sent later than the one before.   *)
(* Messages are counted in the order they were sent, without wrapping; some *)
(* may never arrive, none arrives twice or after a later one.               *)
(***************************************************************************)
EXTENDS Naturals

VARIABLES
    sent,      \* how many messages were sent
    accepted   \* which of them was handed over last; 0 for none

Init == sent = 0 /\ accepted = 0

Send == sent' = sent + 1 /\ UNCHANGED accepted

Deliver ==
    /\ accepted' \in accepted + 1 .. sent
    /\ UNCHANGED sent

Next == Send \/ Deliver

Spec == Init /\ [][Next]_<<sent, accepted>>
==============================================================================

------------------------------- MODULE Meter --------------------------------
(***************************************************************************)
(* What the bandwidth figures of the network panel promise: every byte a   *)
(* connection carries is counted at most once, after it was carried.  A    *)
(* byte may be missed.                                                     *)
(***************************************************************************)
EXTENDS Naturals

CONSTANT Conn \* the connections, each a 4-tuple

VARIABLES
    carried, \* the bytes a 4-tuple has carried
    counted  \* those that were shown as bandwidth

Init ==
    /\ carried = [c \in Conn |-> 0]
    /\ counted = [c \in Conn |-> 0]

Carry ==
    /\ carried' \in [Conn -> Nat]
    /\ \A c \in Conn : carried[c] <= carried'[c]
    /\ UNCHANGED counted

Count ==
    /\ counted' \in [Conn -> Nat]
    /\ \A c \in Conn : counted[c] <= counted'[c] /\ counted'[c] <= carried[c]
    /\ UNCHANGED carried

Spec == Init /\ [][Carry \/ Count]_<<carried, counted>>
=============================================================================

----------------------------- MODULE PeerNames ------------------------------
(***************************************************************************)
(* What the reverse-DNS resolver of src/web/netmon/rdns.go promises its    *)
(* caller: for every IP at most one lookup is under way, and what is       *)
(* remembered of an IP is an answer to a lookup of that IP.  Anything      *)
(* remembered may be forgotten at any time.                                *)
(***************************************************************************)
CONSTANTS
    IP,     \* the peer addresses
    Host,   \* the answers: a name, or that there is none
    OfIP(_), \* the address an answer was given for
    None    \* nothing is remembered

VARIABLES
    asked,  \* the addresses being looked up
    names   \* what is remembered of an address

Init ==
    /\ asked = {}
    /\ names = [ip \in IP |-> None]

\* Some of what is remembered is forgotten.
Forgets(from, to) == \A ip \in DOMAIN from : to[ip] \in {from[ip], None}

Ask(ip) ==
    /\ ip \notin asked
    /\ asked' = asked \cup {ip}
    /\ UNCHANGED names

Answer(ip) ==
    /\ ip \in asked
    /\ asked' = asked \ {ip}
    /\ \E h \in Host :
        /\ OfIP(h) = ip
        /\ names' \in [IP -> Host \cup {None}]
        /\ Forgets([names EXCEPT ![ip] = h], names')
        /\ names'[ip] = h

Forget ==
    /\ names' \in [IP -> Host \cup {None}]
    /\ Forgets(names, names')
    /\ UNCHANGED asked

Next == Forget \/ \E ip \in IP : Ask(ip) \/ Answer(ip)

Spec == Init /\ [][Next]_<<asked, names>>
=============================================================================

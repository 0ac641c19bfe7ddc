---------------------------- MODULE MCNetSampler ----------------------------
(***************************************************************************)
(* A small instance of NetSampler: a connection of each family and a list  *)
(* with room for one of them.  The one whose family is dumped first is     *)
(* quiet: it carries nothing and stays open once it is, but its row and    *)
(* its failed, partial and blind reads get in the way of the other.  There *)
(* is time for a failed cycle between two good ones.  The run also         *)
(* evaluates the checks of the range lookup the sampler calls.             *)
(***************************************************************************)
EXTENDS NetSampler, MCRangeLookup

\* The connections that carry nothing and are not closed.
Quiet == Conn \ Conn6

MCNext ==
    /\ Next
    /\ \A c \in Quiet : carried'[c] = 0 /\ (c \in live => c \in live')

MCSpec == Init /\ [][MCNext]_vars /\ Fairness
=============================================================================

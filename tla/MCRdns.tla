------------------------------- MODULE MCRdns -------------------------------
(***************************************************************************)
(* A small instance of Rdns: more addresses than the queue and the cache   *)
(* can hold, so that lookups are dropped and answers evicted.              *)
(***************************************************************************)
EXTENDS Rdns
=============================================================================

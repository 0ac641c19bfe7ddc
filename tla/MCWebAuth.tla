----------------------------- MODULE MCWebAuth ------------------------------
(***************************************************************************)
(* A small instance of WebAuth: after one failure, two browsers that fail  *)
(* at a time exceed the limit, and one may succeed beside the other.       *)
(***************************************************************************)
EXTENDS WebAuth
=============================================================================

---------------------------- MODULE MCShellHooks ----------------------------
(***************************************************************************)
(* Small instances of ShellHooks: two bash sessions, one of which can start *)
(* after the other has saved its history and one of which drops repeated   *)
(* commands, and a zsh or fish session.                                    *)
(***************************************************************************)
EXTENDS ShellHooks, TLC

Symmetric == Permutations(Text)
=============================================================================

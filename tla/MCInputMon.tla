----------------------------- MODULE MCInputMon -----------------------------
(***************************************************************************)
(* Small instances of InputMon: two devices with keys, and in one of them  *)
(* a device without (a lid switch, say), come and go at one path, so that  *)
(* the path is taken over while its reader is late.  One of them has more  *)
(* key events than the kernel keeps for a reader.                          *)
(***************************************************************************)
EXTENDS InputMon, TLC

CONSTANTS k1, k2, n1

MCDev == {k1, k2, n1}
MCKeyDev == {k1, k2}

MCMaxKeys == (k1 :> 3) @@ (k2 :> 1)
MCOneKey == [d \in MCKeyDev |-> 1]
=============================================================================

------------------------------ MODULE MCStore -------------------------------
(***************************************************************************)
(* Small instances of Store: two keys, so that a second container would    *)
(* have a key of its own, and bounds on the faults of each kind.           *)
(***************************************************************************)
EXTENDS Store, TLC

\* Two commands fail, and each other fault strikes once.
MCMaxFaults == [f \in Fault |-> IF f = "step" THEN 2 ELSE 1]

\* Nothing goes wrong.
MCNoFaults == [f \in Fault |-> 0]

\* Nothing goes wrong but the TPM.
MCOnlyClear == [f \in Fault |-> IF f = "clear" THEN 1 ELSE 0]
=============================================================================

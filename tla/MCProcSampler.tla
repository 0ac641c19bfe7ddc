--------------------------- MODULE MCProcSampler ----------------------------
(***************************************************************************)
(* A small instance of ProcSampler: a pid that processes use in turn and   *)
(* one whose process uses no CPU time and does not end, a list with room   *)
(* for one of them, and cycles enough for a panic and the next question to *)
(* nvidia-smi.                                                             *)
(***************************************************************************)
EXTENDS ProcSampler

CONSTANT Idle  \* the pids whose processes have memory and use no CPU time

\* They start before the first tick.  From then on nothing fails and no process ends.
MCNext ==
    /\ Next
    /\ Idle \cap live' # Idle \cap live => clock = 0
    /\ Idle \cap live' # {} =>
        /\ fails' = 0 /\ panics' = 0 /\ live \subseteq live' /\ resident \subseteq resident'
        /\ \A p \in Idle : carried'[p] = 0 /\ (p \in live' => p \in resident')

MCSpec == Init /\ [][MCNext]_vars /\ Fairness

\* With two metrics of three values and up to four rows, capUnion leaves at most
\* max rows for each metric, and a row it drops is beaten in every metric by as
\* many of those it keeps.
ASSUME LeadersAreKept ==
    \A n \in 0..4, max \in 1..2 :
        \A rows \in [1..n -> [{"cpu", "rss"} -> 0..2]] :
            LET kept == CapUnion(rows, {"cpu", "rss"}, max)
            IN  /\ Cardinality(kept) <= 2 * max
                /\ \A k \in (1..n) \ kept, m \in {"cpu", "rss"} :
                       Cardinality({j \in kept : rows[j][m] >= rows[k][m]}) >= max
=============================================================================

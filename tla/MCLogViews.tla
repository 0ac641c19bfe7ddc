----------------------------- MODULE MCLogViews -----------------------------
(***************************************************************************)
(* A small instance of LogViews: logs with more records than the window, a *)
(* rotation, and two loads that may overtake each other.  Page and report  *)
(* share the logs alone, and neither changes them: a behaviour of both is  *)
(* one of each beside the same writers, and the run explores the two one   *)
(* after the other instead of their product.                               *)
(***************************************************************************)
EXTENDS LogViews

VARIABLE reader  \* the one that is looked at in this behaviour

MCInit == ViewInit /\ reader \in {"page", "report"}

MCNext ==
    /\ \/ LogsNext
       \/ reader = "page" /\ PageNext
       \/ reader = "report" /\ ReportNext
    /\ UNCHANGED reader

MCSpec ==
    /\ MCInit /\ [][MCNext]_<<viewVars, reader>>
    /\ \A l \in Load : WF_<<viewVars, reader>>(reader = "page" /\ Loading(l) /\ UNCHANGED reader)

\* TabConverges, for the behaviours in which the page is there to do its part.
PageShowsTab == reader = "page" => TabConverges
=============================================================================

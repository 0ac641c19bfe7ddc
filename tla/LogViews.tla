------------------------------ MODULE LogViews ------------------------------
(***************************************************************************)
(* The logs as they are read: the log tabs of the dashboard (logview and   *)
(* tail in web/data.go, loadLog in web/dashboard.html) and the correlated  *)
(* timeline (report in web/data.go, buildReport in cli/cli.go).  A reader  *)
(* takes no lock: it looks for the end of a log and then reads up to it,   *)
(* while writers append and logrotate copies and truncates.  Answers reach *)
(* the page in any order.                                                  *)
(*                                                                         *)
(* A record is its time stamp, which no other has.  It is taken before the *)
(* record is appended, so that another writer's may come in between.  The  *)
(* parsing of a line and the texts are left out, and the limits on lines   *)
(* and on bytes are one: readers see the last Window records.  The web     *)
(* server reads up to the end it has looked up, the CLI up to the end at   *)
(* the time of the read.  Any read may fail.                               *)
(*                                                                         *)
(* The names are other than those of LayerControl, so that a module can    *)
(* extend both: the page shows the logs beside the layers.                 *)
(***************************************************************************)
EXTENDS Naturals, Sequences, FiniteSets, Functions

CONSTANTS
    Load,         \* loads of a log that the page can have under way
    File,         \* the logs: "buffer" and some of "commands" and "keys"
    Window,       \* how many records a tail returns
    Prompts,      \* how many prompts a report is asked for
    Skew,         \* how many records can overtake another on their way to the logs
    MaxRecords,   \* bound: records
    MaxRotations, \* bound: truncations
    MaxClicks     \* bound: clicks on a tab

ASSUME LogViewsAssumption ==
    /\ "buffer" \in File /\ File \subseteq {"buffer", "commands", "keys"}
    /\ Window \in Nat \ {0} /\ Prompts \in Nat \ {0} /\ Skew \in Nat
    /\ MaxRecords \in Nat /\ MaxRotations \in Nat /\ MaxClicks \in Nat

VARIABLES
    log,    \* the records of a log
    used,   \* annotation: the stamps of all records so far
    copied, \* logs that logrotate has copied and not truncated yet
    rotations,
    tab,    \* curLog: the tab that is selected
    selecting, \* userSelectingIn: whether text of the shown log is selected
    load,   \* what a load is doing
    columns, \* the tab whose columns the page shows, and the records in them
    report, \* what the report is doing and for whom (by); annotations: the prompts that
            \* it is asked for, the other records that were logged when it began (due),
            \* the logs it could not read (missed), whether one was truncated since (cut)
    clicks

logs == <<log, used, copied, rotations>>
page == <<tab, selecting, load, columns, clicks>>
viewVars == <<log, used, copied, rotations, tab, selecting, load, columns, report, clicks>>

LastOf(s, n) == IF Len(s) <= n THEN s ELSE SubSeq(s, Len(s) - n + 1, Len(s))

\* readFull: the window that ends at size, as far as the log still has it.
TailTo(s, size) ==
    LET from == IF size <= Window THEN 1 ELSE size - Window + 1
        to == IF Len(s) < size THEN Len(s) ELSE size
    IN  SubSeq(s, from, to)

\* readTailBytes and tailLines: from the start of that window to the end of now, and
\* of that the last records.
TailFrom(s, size) ==
    LET from == IF size <= Window THEN 1 ELSE size - Window + 1
    IN  LastOf(SubSeq(s, from, Len(s)), Window)

\* tail's "(unavailable: ...)" and the page's "error: ...": no record is like it.
Diagnostic == <<0>>

Nowhere == [at |-> "idle", f |-> "buffer", size |-> 0, lines |-> <<>>]
NoReport == [at |-> "idle", by |-> "web", f |-> "buffer", size |-> 0, t0 |-> 0, rows |-> {},
             left |-> {}, asked |-> {}, due |-> {}, missed |-> {}, cut |-> FALSE]

ViewInit ==
    /\ log = [f \in File |-> <<>>] /\ used = {}
    /\ copied = {} /\ rotations = 0
    /\ tab = "buffer" /\ selecting = FALSE /\ load = [l \in Load |-> Nowhere]
    /\ columns = [tab |-> "buffer", lines |-> <<>>]
    /\ report = NoReport
    /\ clicks = 0

-----------------------------------------------------------------------------
(* The writers and logrotate.                                              *)

Log(f) ==
    /\ \E s \in (1..MaxRecords) \ used :
        /\ s <= Cardinality(used) + 1 + Skew
        /\ log' = [log EXCEPT ![f] = Append(@, s)]
        /\ used' = used \cup {s}
    /\ UNCHANGED <<copied, rotations, page, report>>

Copy(f) ==
    /\ f \notin copied /\ rotations < MaxRotations
    /\ copied' = copied \cup {f} /\ rotations' = rotations + 1
    /\ UNCHANGED <<log, used, page, report>>

Truncate(f) ==
    /\ f \in copied
    /\ copied' = copied \ {f}
    /\ log' = [log EXCEPT ![f] = <<>>]
    /\ report' = [report EXCEPT !.cut = (report.at # "idle")]
    /\ UNCHANGED <<used, rotations, page>>

-----------------------------------------------------------------------------
(* The page.                                                               *)

\* loadLog asks for the log of the tab, and the server seeks its end.
Send(l, f) ==
    load' = [load EXCEPT ![l] = [at |-> "read", f |-> f, size |-> Len(log[f]), lines |-> <<>>]]

Click(l) ==
    /\ clicks < MaxClicks /\ load[l].at = "idle"
    /\ \E f \in File \ {tab} : tab' = f /\ Send(l, f)
    /\ clicks' = clicks + 1
    /\ UNCHANGED <<logs, selecting, columns, report>>

\* Mutant: the page asks only until something is shown.
PollUntilShown(l) ==
    /\ load[l].at = "idle" /\ columns.lines = <<>>
    /\ Send(l, tab)
    /\ UNCHANGED <<logs, tab, selecting, columns, report, clicks>>

\* tick, every few seconds.
PollLog(l) ==
    /\ load[l].at = "idle"
    /\ Send(l, tab)
    /\ UNCHANGED <<logs, tab, selecting, columns, report, clicks>>

Answers(l, lines) ==
    /\ load[l].at = "read"
    /\ load' = [load EXCEPT ![l] = [@ EXCEPT !.at = "answer", !.size = 0, !.lines = lines]]
    /\ UNCHANGED <<logs, tab, selecting, columns, report, clicks>>

ReadTail(l) == Answers(l, TailTo(log[load[l].f], load[l].size))

\* The log cannot be opened or read.
TailFails(l) == Answers(l, Diagnostic)

\* The answer arrives.  safeRender puts its lines into the columns of the tab of
\* then, unless text is selected.
Render(l) ==
    /\ load[l].at = "answer"
    /\ columns' = IF selecting THEN columns ELSE [tab |-> tab, lines |-> load[l].lines]
    /\ load' = [load EXCEPT ![l] = Nowhere]
    /\ UNCHANGED <<logs, tab, selecting, report, clicks>>

\* No answer arrives: an error takes the place of the table, selected or not.
FetchFails(l) ==
    /\ load[l].at # "idle"
    /\ columns' = [tab |-> "none", lines |-> Diagnostic]
    /\ load' = [load EXCEPT ![l] = Nowhere]
    /\ UNCHANGED <<logs, tab, selecting, report, clicks>>

\* The user selects text of the log, or lets it go.
Select ==
    /\ selecting' = ~selecting
    /\ UNCHANGED <<logs, tab, load, columns, report, clicks>>

-----------------------------------------------------------------------------
(* report: the last prompts, and what the other logs have since the first  *)
(* of them.                                                                *)

PromptsOf(s) == LastOf(LastOf(s, Window), Prompts)

Report(by) ==
    /\ report.at = "idle"
    /\ report' = [NoReport EXCEPT
           !.at = "read", !.by = by, !.size = Len(log["buffer"]), !.left = File \ {"buffer"},
           !.asked = Range(PromptsOf(log["buffer"])),
           !.due = UNION {Range(log[f]) : f \in File \ {"buffer"}}]
    /\ UNCHANGED <<logs, page>>

\* What the report reads of a log it has looked for the end of.
TailOf(s) == IF report.by = "web" THEN TailTo(s, report.size) ELSE TailFrom(s, report.size)

\* Mutant: what is older than the last prompt is left out.
ReadPromptsLate ==
    /\ report.at = "read" /\ report.f = "buffer"
    /\ LET bufs == LastOf(TailOf(log["buffer"]), Prompts)
       IN  report' = IF bufs = <<>> THEN [report EXCEPT !.at = "answer"]
                     ELSE [report EXCEPT !.at = "seek", !.size = 0, !.rows = Range(bufs),
                                         !.t0 = bufs[Len(bufs)]]
    /\ UNCHANGED <<logs, page>>

ReadPrompts ==
    /\ report.at = "read" /\ report.f = "buffer"
    /\ LET bufs == LastOf(TailOf(log["buffer"]), Prompts)
       IN  report' = IF bufs = <<>> THEN [report EXCEPT !.at = "answer"]
                     ELSE [report EXCEPT !.at = "seek", !.size = 0, !.rows = Range(bufs),
                                         !.t0 = bufs[1]]
    /\ UNCHANGED <<logs, page>>

\* commands.log first.
Seek ==
    /\ report.at = "seek"
    /\ IF report.left = {} THEN report' = [report EXCEPT !.at = "answer"]
       ELSE LET f == IF "commands" \in report.left THEN "commands" ELSE "keys"
            IN  report' = [report EXCEPT !.at = "read", !.f = f, !.size = Len(log[f]),
                                         !.left = @ \ {f}]
    /\ UNCHANGED <<logs, page>>

ReadEvents ==
    /\ report.at = "read" /\ report.f # "buffer"
    /\ LET got == Range(TailOf(log[report.f]))
       IN  report' = [report EXCEPT !.at = "seek",
                                    !.size = 0,
                                    !.rows = @ \cup {s \in got : s >= report.t0}]
    /\ UNCHANGED <<logs, page>>

\* The log cannot be opened or read, also not with sudo: nothing to correlate.
ReadFails ==
    /\ report.at = "read"
    /\ report' = [report EXCEPT !.at = IF report.f = "buffer" THEN "answer" ELSE "seek",
                                !.size = 0,
                                !.missed = @ \cup {report.f}]
    /\ UNCHANGED <<logs, page>>

\* The rows, sorted by their stamps, are printed or rendered.
Reported ==
    /\ report.at = "answer"
    /\ report' = NoReport
    /\ UNCHANGED <<logs, page>>

-----------------------------------------------------------------------------

Loading(l) == PollLog(l) \/ ReadTail(l) \/ TailFails(l) \/ Render(l) \/ FetchFails(l)

LogsNext == \E f \in File : Log(f) \/ Copy(f) \/ Truncate(f)

PageNext == Select \/ \E l \in Load : Click(l) \/ Loading(l)

ReportNext ==
    \/ \E by \in {"web", "cli"} : Report(by)
    \/ ReadPrompts \/ Seek \/ ReadEvents \/ ReadFails \/ Reported

ViewNext == LogsNext \/ PageNext \/ ReportNext

\* The page goes on polling, and its requests are answered or fail.
ViewFairness == \A l \in Load : WF_viewVars(Loading(l))

ViewSpec == ViewInit /\ [][ViewNext]_viewVars /\ ViewFairness

-----------------------------------------------------------------------------
(* Correctness.                                                            *)

\* The first prompt of the report, by its place in the log.
FirstShown(p) ==
    \E i \in DOMAIN log["buffer"] :
        /\ log["buffer"][i] = p /\ p \in report.rows
        /\ \A j \in 1..i - 1 : log["buffer"][j] \notin report.rows

\* It has the prompts that it is asked for, or that are still the last ones.
HasPrompts ==
    \/ report.asked \subseteq report.rows
    \/ "buffer" \in report.missed
    \/ /\ report.by = "cli"
       /\ report.asked \cap Range(PromptsOf(log["buffer"])) \subseteq report.rows

\* It has of a log what was there when it began and is not older than p.
HasSince(p, f) ==
    {s \in report.due \cap Range(LastOf(log[f], Window)) : s >= p} \subseteq report.rows

\* The logs are read one after the other while they grow.  A report that no rotation
\* runs into has the prompts it is asked for, that of the CLI those which are still
\* among the last ones, unless their log cannot be read; and of every other log that
\* can be read it has whatever was logged when it began and is not older than its
\* first prompt, unless so much came after it that it has left the window.
ReportComplete ==
    report.at = "answer" /\ ~report.cut =>
        /\ HasPrompts
        /\ \A p \in report.rows : FirstShown(p) =>
              \A f \in File \ ({"buffer"} \cup report.missed) : HasSince(p, f)

\* An answer may be late and land in the columns of another tab, fail, or be dropped
\* for the sake of a selection; but when the log and the tab stay as they are, reads
\* and requests work again and nothing is selected any more, the page comes to show
\* the end of that log.
TabConverges ==
    /\ <>[][UNCHANGED <<log, tab>> /\ ~\E l \in Load : TailFails(l) \/ FetchFails(l)]_viewVars
    /\ <>[]~selecting
    => <>[](columns.tab = tab /\ columns.lines = LastOf(log[tab], Window))
=============================================================================

------------------------------- MODULE Timing -------------------------------
(***************************************************************************)
(* The timing verdict (src/super_q/timing.py, tcl/common.tcl): what the    *)
(* reader of the text report and the dump of the report's panels make of   *)
(* one and the same report, read table by table and row by row, and which  *)
(* of the two a build believes.                                            *)
(*                                                                         *)
(* A report has a table of setup slacks and one of hold slacks for each    *)
(* operating condition, and tables of the same shape that neither reader   *)
(* has a name for (recovery, removal, pulse width).                        *)
(***************************************************************************)
EXTENDS Integers

CONSTANTS
  Clocks,
  Slacks,    \* slacks a row can show
  NoSlack    \* None

ASSUME TimingAssumption == Slacks \subseteq Int /\ NoSlack \notin Slacks

VARIABLES
  table,     \* the kind of the table being read
  section,   \* current_section of the text reader
  text,      \* the slacks it keeps: of each kind, for each clock
  dump,      \* what the Tcl dump has gathered
  shown,     \* history: the rows of setup and hold tables
  again,     \* history: a clock had a row in two tables of a kind
  strayed    \* history: the text reader took a row of another table

timingVars == <<table, section, text, dump, shown, again, strayed>>

Kinds == {"setup", "hold"}

\* The Fmax summary stands for every table with a name and no slacks of these kinds.
Tables == Kinds \cup {"fmax", "other"}

MinSlack(S) == IF S = {} THEN NoSlack ELSE CHOOSE s \in S : \A u \in S : s <= u

TimingInit ==
  /\ table = "none" /\ section = "none"
  /\ text = [k \in Kinds |-> [c \in Clocks |-> NoSlack]]
  /\ dump = [passed |-> TRUE, setup |-> NoSlack, hold |-> NoSlack]
  /\ shown = {} /\ again = FALSE /\ strayed = FALSE

-----------------------------------------------------------------------------
MutSectionOf(t) == IF t \in {"other", "hold"} THEN section ELSE t

\* Section detection: an unknown header leaves the section as it is.
SectionOf(t) == IF t = "other" THEN section ELSE t

Header ==
  /\ \E t \in Tables : table' = t /\ section' = SectionOf(t)
  /\ UNCHANGED <<text, dump, shown, again, strayed>>

\* The text reader: the last row of a clock stands.
TextReads(c, s) ==
  text' = IF section \in Kinds THEN [text EXCEPT ![section][c] = s] ELSE text

\* dump_timing_json: panels that are not matched are not looked at.
DumpReads(s) ==
  dump' = IF table \in Kinds
            THEN [dump EXCEPT ![table] = MinSlack({s, dump[table]} \ {NoSlack}),
                              !.passed = dump.passed /\ s >= 0]
            ELSE dump

\* Rows of the other two kinds have another shape.
Row(c, s) ==
  /\ table \in Kinds \cup {"other"}
  /\ TextReads(c, s) /\ DumpReads(s)
  /\ shown' = IF table \in Kinds THEN shown \cup {<<table, c, s>>} ELSE shown
  /\ again' = (again \/ \E r \in shown : r[1] = table /\ r[2] = c /\ r[3] # s)
  /\ strayed' = (strayed \/ (table = "other" /\ section \in Kinds))
  /\ UNCHANGED <<table, section>>

TimingNext == Header \/ \E c \in Clocks, s \in Slacks : Row(c, s)
-----------------------------------------------------------------------------
(* parse_sta_report, parse_timing_json and merge_reports, were the report to *)
(* end here.                                                                *)

Worst(k) == MinSlack({text[k][c] : c \in Clocks} \ {NoSlack})

FromText ==
  [passed |-> /\ \A k \in Kinds : Worst(k) # NoSlack => Worst(k) >= 0
              /\ \E k \in Kinds : Worst(k) # NoSlack,
   setup |-> Worst("setup"), hold |-> Worst("hold")]

\* The dump has clocks when it has rows of slacks.
DumpHasAnything == dump.setup # NoSlack \/ dump.hold # NoSlack \/ dump.passed

\* Whether timing.json is there, and can be read.
Merged(dumped) == IF dumped /\ DumpHasAnything THEN dump ELSE FromText

Met == \A r \in shown : r[3] >= 0

WorstShown(k) == MinSlack({r[3] : r \in {q \in shown : q[1] = k}})

\* With timing.json a build passes when no setup or hold slack of any operating condition
\* is negative, and its slack is the worst of all of them, whatever else the report has
\* and in whatever order (common.tcl:72-122, timing.py:212-234).
DumpJudgesAll ==
  /\ Merged(TRUE).passed <=> Met
  /\ \A k \in Kinds : Merged(TRUE)[k] = WorstShown(k)

\* Without it, the text says the same of a report of a single operating condition in which
\* no other table of slacks follows, and a report without a slack is no pass
\* (timing.py:96-176).
TextJudgesOneCorner ==
  ~again /\ ~strayed =>
    /\ Merged(FALSE).passed <=> Met /\ shown # {}
    /\ \A k \in Kinds : Merged(FALSE)[k] = WorstShown(k)

\* Of whatever is in a report, timing.json tells the worst of each kind, and the text
\* does where one operating condition was analysed and nothing strays into a table.
ReportsJudged == DumpJudgesAll /\ TextJudgesOneCorner
=============================================================================

----------------------------- MODULE FindCores -----------------------------
(***************************************************************************)
(* How a core is found (src/super_q/project.py): detect_core, which every  *)
(* command asks for one core, and find_cores, which a batch asks for all   *)
(* the cores below some directories.                                       *)
(*                                                                         *)
(* A directory is the sequence of the names that lead to it; one that has  *)
(* a .qpf file is a project, and one that has dist, .git or a README is    *)
(* marked.                                                                 *)
(***************************************************************************)
EXTENDS Naturals, Sequences, SequencesExt

CONSTANTS
  Places,     \* directories that may be projects
  Markable,   \* directories that may be marked
  Dotted,     \* the names that begin with a dot
  Given,      \* the paths a batch is given, in order
  NoCore,     \* nothing detected
  Unasked     \* nothing asked

ASSUME FindAssumption ==
  /\ IsFiniteSet(Places) /\ Places \subseteq Seq(STRING) /\ Given \in Seq(Seq(STRING))
  /\ NoCore \notin Places /\ Unasked \notin Places \cup {NoCore}

ASSUME DottedAssumption == Dotted \cap {"src", "pocket", "fpga", "hw", "quartus"} = {}

VARIABLES
  projects, marked,
  detected,   \* the project detect_core has found below each path
  looked,     \* paths find_cores has been through
  found       \* the cores it has found

findVars == <<projects, marked, detected, looked, found>>

\* _QPF_SEARCH_DIRS
SearchDirs ==
  << <<"src", "fpga">>, <<"src", "pocket", "fpga">>, <<"pocket", "fpga">>, <<"fpga">>,
     <<"hw", "quartus">>, <<"quartus">>, <<>> >>

Skipped ==
  {".git", "node_modules", ".superq", "output_files", "db", "incremental_db", "simulation",
   "tmp-clearbox", ".venv", "venv", "__pycache__"} \cup Dotted

Below(root, d) == SubSeq(d, Len(root) + 1, Len(d))

\* _enumerate_qpf: names are looked at below the root only.
Walked(root) ==
  {d \in projects : IsPrefix(root, d) /\ Len(Below(root, d)) <= 6
                      /\ \A i \in 1..Len(Below(root, d)) : Below(root, d)[i] \notin Skipped}

FindInit ==
  /\ projects \in SUBSET Places /\ marked \in SUBSET Markable
  /\ detected = [i \in 1..Len(Given) |-> Unasked]
  /\ looked = 0 /\ found = <<>>

\* detect_core: the search directories in their order, then the first that a walk meets.
Detect(i) ==
  LET direct == {k \in 1..Len(SearchDirs) : Given[i] \o SearchDirs[k] \in projects}
  IN  /\ detected[i] = Unasked
      /\ \E d \in IF direct # {}
                    THEN {Given[i] \o SearchDirs[CHOOSE k \in direct : \A j \in direct : k <= j]}
                    ELSE IF Walked(Given[i]) = {} THEN {NoCore} ELSE Walked(Given[i]) :
           detected' = [detected EXCEPT ![i] = d]
      /\ UNCHANGED <<projects, marked, looked, found>>

\* _core_root_for_qpf: five directories up at most, else the parent.
CoreRoot(d) ==
  LET up == {k \in 0..4 : k <= Len(d) /\ SubSeq(d, 1, Len(d) - k) \in marked}
      k  == IF up = {} THEN 1 ELSE CHOOSE m \in up : \A n \in up : m <= n
  IN  SubSeq(d, 1, IF k <= Len(d) THEN Len(d) - k ELSE 0)

MutSeen == {}

Seen == {found[i].qpf : i \in 1..Len(found)}

\* One path of find_cores.
Look ==
  /\ looked < Len(Given)
  /\ looked' = looked + 1
  /\ LET new == SetToSeq(Walked(Given[looked + 1]) \ Seen)
     IN  found' = found \o [i \in 1..Len(new) |-> [root |-> CoreRoot(new[i]), qpf |-> new[i]]]
  /\ UNCHANGED <<projects, marked, detected>>

FindNext == Look \/ \E i \in 1..Len(Given) : Detect(i)
-----------------------------------------------------------------------------
\* A batch builds each project once, however its paths overlap, all of the projects it
\* can reach, and in a root that the project is below (project.py:104-125).
FoundOnce ==
  /\ \A i, j \in 1..Len(found) : i # j => found[i].qpf # found[j].qpf
  /\ \A i \in 1..Len(found) : IsPrefix(found[i].root, found[i].qpf)
  /\ {found[i].qpf : i \in 1..Len(found)} = UNION {Walked(Given[i]) : i \in 1..looked}

\* The project that detect_core makes of a path is one that find_cores makes of it too,
\* and it fails only where find_cores finds none: where there is one project, every
\* command builds the same (project.py:85-147).
DetectedIsFound ==
  \A i \in 1..looked : detected[i] # Unasked =>
    IF detected[i] = NoCore THEN Walked(Given[i]) = {} ELSE detected[i] \in Seen

\* The two searches for cores agree: each core once, and one found alone is among them.
CoresFound == FoundOnce /\ DetectedIsFound
=============================================================================

---------------------------- MODULE SandboxCopy -----------------------------
(***************************************************************************)
(* prepare_work_dir (src/super_q/quartus.py): the project is copied into a *)
(* sandbox of its own.  The file system is a set of paths, sequences of    *)
(* names.  shutil.copytree lists a directory, makes the new one and then   *)
(* goes through what it has listed; the work directory may itself be below *)
(* the directory it copies.                                                *)
(***************************************************************************)
EXTENDS Integers, Sequences, SequencesExt

CONSTANTS
  Project,     \* the paths of the project, from its root on
  WorkDirs,    \* work directories it is built in
  DepthLimit   \* where Python's recursion limit stops a copy

ASSUME CopyAssumption == DepthLimit \in Nat

\* A project is a directory tree.
ASSUME ProjectAssumption ==
  /\ IsFiniteSet(Project) /\ Project \subseteq Seq(STRING) /\ <<>> \in Project
  /\ \A p \in Project : \A n \in 0..Len(p) : SubSeq(p, 1, n) \in Project

ASSUME WorkDirsAssumption == WorkDirs \subseteq Seq(STRING) \ {<<>>}

VARIABLES
  tree,   \* the paths there are
  work,   \* the work directory of the latest build
  pend,   \* the copies to make, source and destination, the next one first
  copy    \* how far prepare_work_dir is

copyVars == <<tree, work, pend, copy>>

Root == <<"core">>

\* Names that copytree leaves out, of those that occur here.
Ignored == {".superq", "db"}

Sandbox == work \o Root

Below(path) == {q \in tree : IsPrefix(path, q)}

Within(path) == {SubSeq(q, Len(path) + 1, Len(q)) : q \in Below(path)}

\* What a sandbox is to hold.
Wanted == {p \in Project : \A i \in 1..Len(p) : p[i] \notin Ignored}

CopyInit ==
  /\ tree = {Root \o p : p \in Project}
  /\ work = <<>>
  /\ pend = <<>>
  /\ copy = "idle"

-----------------------------------------------------------------------------
\* The work directory and those above it are made.
prepare_work_dir ==
  /\ copy = "idle"
  /\ \E dir \in WorkDirs :
       /\ work' = dir
       /\ tree' = tree \cup {SubSeq(dir, 1, n) : n \in 1..Len(dir)}
  /\ copy' = "clear"
  /\ UNCHANGED pend

MutClear ==
  /\ copy = "clear"
  /\ copy' = "copy"
  /\ pend' = << <<Root, Sandbox>> >>
  /\ UNCHANGED <<tree, work>>

\* The sandbox of an earlier build of the seed goes.
Clear ==
  /\ copy = "clear"
  /\ tree' = tree \ Below(Sandbox)
  /\ copy' = "copy"
  /\ pend' = << <<Root, Sandbox>> >>
  /\ UNCHANGED work

Listed(dir) == {q \in tree : Len(q) = Len(dir) + 1 /\ IsPrefix(dir, q)}

Kept(dir) == {q \in Listed(dir) : q[Len(q)] \notin Ignored}

copytree ==
  /\ copy = "copy" /\ pend # <<>>
  /\ LET src == Head(pend)[1]
         dst == Head(pend)[2]
     IN  IF Len(dst) > DepthLimit
           THEN /\ copy' = "raised"
                /\ UNCHANGED <<tree, pend>>
           ELSE /\ \E order \in SetToSeqs(Kept(src)) :
                     pend' = [i \in DOMAIN order |->
                                <<order[i], Append(dst, order[i][Len(order[i])])>>]
                             \o Tail(pend)
                /\ tree' = tree \cup {dst}
                /\ UNCHANGED copy
  /\ UNCHANGED work

CopyEnds ==
  /\ copy = "copy" /\ pend = <<>>
  /\ copy' = "ready"
  /\ UNCHANGED <<tree, work, pend>>

\* Quartus builds in the sandbox, and the next build may be of the same seed.
Build ==
  /\ copy = "ready"
  /\ tree' = tree \cup {Append(Sandbox, name) : name \in {"db", "made"}}
  /\ copy' = "idle"
  /\ UNCHANGED <<work, pend>>

CopyNext == prepare_work_dir \/ Clear \/ copytree \/ CopyEnds \/ Build

-----------------------------------------------------------------------------
\* "Copy the project into an isolated sandbox" (src/super_q/quartus.py:92): while
\* it is made a sandbox holds nothing but the project, nothing of a copy of it
\* within and nothing of an earlier build, and when it is ready it holds it all.
SandboxIsProject ==
  /\ copy \in {"copy", "ready", "raised"} => Within(Sandbox) \subseteq Wanted
  /\ copy = "ready" => Within(Sandbox) = Wanted
=============================================================================

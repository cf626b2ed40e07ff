----------------------------- MODULE LocalBuild -----------------------------
(***************************************************************************)
(* The local backend: seeds of one sweep that compile on this machine      *)
(* (src/super_q/backends/local.py and quartus.py).                         *)
(*                                                                         *)
(* Each task is a thread that waits for a slot, copies the core into a     *)
(* sandbox, starts Quartus in a process group of its own, polls it once a  *)
(* second for its exit, for a cancellation and for the deadline, reads the *)
(* reports, collects the outputs and gives the slot back.  What collecting *)
(* does is in Artifacts.                                                   *)
(*                                                                         *)
(* A task is the seed it builds, so a sandbox belongs to one task.  The    *)
(* tree of the core is taken to hold outputs of an earlier build, the      *)
(* value Old: the sandbox is copied without them.                          *)
(***************************************************************************)
EXTENDS Integers, FiniteSets

CONSTANTS
  Tasks,    \* the seeds of the sweep
  Slots,    \* LocalBackend._max
  Main,     \* tasks whose thread is the main thread, the one Ctrl-C reaches
  Ambient,  \* seed the environment of this process leads the TCL scripts to
  NoTask

ASSUME TasksAssumption == IsFiniteSet(Tasks) /\ Main \subseteq Tasks /\ NoTask \notin Tasks
ASSUME SlotsAssumption == Slots \in Nat \ {0}

VARIABLES
  host,     \* what this machine has
  mode,     \* the mode the caller asks for, then the one the tasks get
  cancel,   \* the sweep's cancel_event
  sem,      \* free slots
  pc,       \* where each task is
  leader,   \* the quartus_sh of each task: none, up, its exit code, or stuck
  seen,     \* the seed that quartus_sh was started with
  box,      \* output_files in the task's sandbox
  verdict   \* what run() is about to return, or has returned

vars == <<host, mode, cancel, sem, pc, leader, seen, box, verdict>>

-----------------------------------------------------------------------------
Steps == {"called", "slot", "start", "wait", "collect", "done", "raised"}

\* Steps inside `with self._sem`.
Holding == {"start", "wait", "collect"}

Codes == {"exit0", "exit1", "exit2"}

\* What is in output_files: nothing, the bitstream, the bitstream and a report,
\* a good report without a bitstream; or the outputs of an earlier build.
Contents == {"none", "rbf", "met", "missed", "no_rbf", "old"}

\* What a machine may have.
Hosts == [quartus : BOOLEAN, scripts : BOOLEAN]

Asked == {"ask full", "ask split"}

LocalTypeOK ==
  /\ host \in Hosts
  /\ mode \in Asked \cup {"full", "split"}
  /\ cancel \in BOOLEAN
  /\ sem \in 0..Slots
  /\ pc \in [Tasks -> Steps]
  /\ leader \in [Tasks -> {"none", "up", "stuck"} \cup Codes]
  /\ seen \in [Tasks -> {Ambient, NoTask}]
  /\ box \in [Tasks -> Contents]
  /\ verdict \in [Tasks -> {"none", "ok", "bad"}]

LocalInit ==
  /\ host \in Hosts
  /\ mode \in Asked
  /\ cancel = FALSE
  /\ sem = Slots
  /\ pc = [t \in Tasks |-> "called"]
  /\ leader = [t \in Tasks |-> "none"]
  /\ seen = [t \in Tasks |-> NoTask]
  /\ box = [t \in Tasks |-> "none"]
  /\ verdict = [t \in Tasks |-> "none"]

Goto(t, step) == pc' = [pc EXCEPT ![t] = step]

\* An exception leaves run(): the slot is given back.
Raise(t) == Goto(t, "raised") /\ sem' = sem + 1

-----------------------------------------------------------------------------
(* The scheduler, before and beside the tasks.                              *)

\* split-fit synthesises once, outside of the slots; when that fails, for
\* whatever reason, the seeds are compiled in full.
Settle ==
  /\ mode \in Asked
  /\ \/ mode = "ask split" /\ host.quartus /\ host.scripts /\ mode' = "split"
     \/ mode' = "full"
  /\ UNCHANGED <<host, cancel, sem, pc, leader, seen, box, verdict>>

\* Another seed has passed.
SetCancel ==
  /\ mode \notin Asked /\ ~cancel
  /\ cancel' = TRUE
  /\ UNCHANGED <<host, mode, sem, pc, leader, seen, box, verdict>>

-----------------------------------------------------------------------------
(* The thread of a task.                                                    *)

Run(t) ==
  /\ mode \notin Asked /\ pc[t] = "called"
  /\ Goto(t, IF host.quartus THEN "slot" ELSE "raised")
  /\ UNCHANGED <<host, mode, cancel, sem, leader, seen, box, verdict>>

MutAcquire(t) ==
  /\ pc[t] = "slot"
  /\ sem' = sem - 1
  /\ Goto(t, "start")
  /\ UNCHANGED <<host, mode, cancel, leader, seen, box, verdict>>

Acquire(t) ==
  /\ pc[t] = "slot" /\ sem > 0
  /\ sem' = sem - 1
  /\ Goto(t, "start")
  /\ UNCHANGED <<host, mode, cancel, leader, seen, box, verdict>>

MutCopied == "old"

\* What the copy of the core leaves in the sandbox's output_files.
Copied == "none"

\* The sandbox is made anew.  The environment overrides are built and then
\* dropped, so the scripts see the seed of this process's own environment.
Start(t) ==
  /\ pc[t] = "start" /\ host.scripts
  /\ box' = [box EXCEPT ![t] = Copied]
  /\ leader' = [leader EXCEPT ![t] = "up"]
  /\ seen' = [seen EXCEPT ![t] = Ambient]
  /\ Goto(t, "wait")
  /\ UNCHANGED <<host, mode, cancel, sem, verdict>>

\* The copy fails (a full disk, a file that vanishes), or no script is there.
StartFails(t) ==
  /\ pc[t] = "start"
  /\ Raise(t)
  /\ UNCHANGED <<host, mode, cancel, leader, seen, box, verdict>>

\* The verdict of run_full_compile and run_split_fit, and of _run_inner, which
\* asks for a bitstream besides.
Passes(t, code) == code = "exit0" /\ box[t] \in {"met", "old"}

RunReturns(t, code, left) ==
  /\ leader' = [leader EXCEPT ![t] = left]
  /\ verdict' = [verdict EXCEPT ![t] = IF Passes(t, code) THEN "ok" ELSE "bad"]
  /\ seen' = [seen EXCEPT ![t] = NoTask]
  /\ Goto(t, "collect")
  /\ UNCHANGED <<host, mode, cancel, sem, box>>

\* proc.wait(timeout=1.0) returns the exit code.
Exited(t) ==
  /\ pc[t] = "wait" /\ leader[t] \in Codes
  /\ RunReturns(t, leader[t], "none")

MutTerminated(t) == {"none", leader[t]}

\* SIGTERM to the group, and SIGKILL to it when the leader is there ten seconds
\* later; a process inside the kernel outlives that and the last five seconds.
Terminated(t) == IF leader[t] = "up" THEN {"none", "stuck"} ELSE {"none"}

\* A second passes without an exit, and then the event is seen set: the process
\* may have ended in between, and nobody looks at its exit code.
Cancelled(t) ==
  /\ pc[t] = "wait" /\ cancel
  /\ \E left \in Terminated(t) : RunReturns(t, "130", left)

MutTimedOut(t) ==
  /\ pc[t] = "wait" /\ ~cancel /\ leader[t] # "up"
  /\ \E left \in Terminated(t) : RunReturns(t, "124", left)

\* The cancellation is tested first.
TimedOut(t) ==
  /\ pc[t] = "wait" /\ ~cancel
  /\ \E left \in Terminated(t) : RunReturns(t, "124", left)

KeyboardInterrupt(t) ==
  /\ t \in Main /\ pc[t] = "wait"
  /\ \E left \in Terminated(t) : leader' = [leader EXCEPT ![t] = left]
  /\ seen' = [seen EXCEPT ![t] = NoTask]
  /\ Raise(t)
  /\ UNCHANGED <<host, mode, cancel, box, verdict>>

Collect(t) ==
  /\ pc[t] = "collect"
  /\ Goto(t, "done")
  /\ sem' = sem + 1
  /\ UNCHANGED <<host, mode, cancel, leader, seen, box, verdict>>

MutCollectFails(t) ==
  /\ pc[t] = "collect"
  /\ Goto(t, "raised")
  /\ verdict' = [verdict EXCEPT ![t] = "none"]
  /\ UNCHANGED <<host, mode, cancel, sem, leader, seen, box>>

CollectFails(t) ==
  /\ pc[t] = "collect"
  /\ Raise(t)
  /\ verdict' = [verdict EXCEPT ![t] = "none"]
  /\ UNCHANGED <<host, mode, cancel, leader, seen, box>>

-----------------------------------------------------------------------------
(* Quartus.                                                                 *)

Ends(t, code) == leader' = [leader EXCEPT ![t] = code]

\* Without SUPER_Q_QDB, which is dropped with the other overrides, the
\* split-fit script ends at once.
SplitGivesUp(t) ==
  /\ leader[t] = "up" /\ mode = "split"
  /\ Ends(t, "exit2")
  /\ UNCHANGED <<host, mode, cancel, sem, pc, seen, box, verdict>>

\* The assembler writes the bitstream, where the settings ask for one, and then
\* the timing analyser its report.
Writes(t) ==
  /\ leader[t] = "up" /\ mode = "full"
  /\ \/ /\ box[t] \in {"none", "old"}
        /\ \E file \in {"rbf", "no_rbf"} : box' = [box EXCEPT ![t] = file]
     \/ /\ box[t] = "rbf"
        /\ \E report \in {"met", "missed"} : box' = [box EXCEPT ![t] = report]
  /\ UNCHANGED <<host, mode, cancel, sem, pc, leader, seen, verdict>>

\* A flow may fail, and it may end well and leave files out.
FlowEnds(t) ==
  /\ leader[t] = "up" /\ mode = "full"
  /\ \E code \in {"exit0", "exit1"} : Ends(t, code)
  /\ UNCHANGED <<host, mode, cancel, sem, pc, seen, box, verdict>>

-----------------------------------------------------------------------------
Thread(t) ==
  \/ Run(t) \/ Acquire(t) \/ Start(t) \/ StartFails(t)
  \/ Exited(t) \/ Cancelled(t) \/ Collect(t) \/ CollectFails(t)

Quartus(t) == SplitGivesUp(t) \/ Writes(t) \/ FlowEnds(t)

LocalNext ==
  \/ Settle \/ SetCancel
  \/ \E t \in Tasks : Thread(t) \/ TimedOut(t) \/ KeyboardInterrupt(t) \/ Quartus(t)

\* Threads run, and the deadline of every run passes one day; Quartus owes
\* nothing.
LocalFairness ==
  /\ WF_vars(Settle)
  /\ \A t \in Tasks : WF_vars(Thread(t)) /\ WF_vars(TimedOut(t))

-----------------------------------------------------------------------------
\* A seed is reported ok only for the bitstream and the passing report that its
\* own compile made: never for what an earlier build left in the tree, and never
\* for a run that was killed.
OkIsOwn ==
  [][\A t \in Tasks : verdict'[t] = "ok" /\ verdict[t] # "ok" =>
       leader[t] = "exit0" /\ box[t] = "met"]_vars

\* No more Quartus runs at a time than slots, whatever is cancelled, times out
\* or fails: a slot is handed on only when its process is gone or beyond SIGKILL.
SlotsHold == Cardinality({t \in Tasks : leader[t] = "up"}) <= Slots

\* This machine as a backend: a seed is fit when its sandbox has a bitstream and a
\* report that meets timing, which only its own compile can write there.
LocalCall ==
  [t \in Tasks |-> CASE pc[t] \in {"called", "slot"} -> "asked"
                     [] pc[t] \in Holding -> "inside"
                     [] pc[t] = "done" -> verdict[t]
                     [] OTHER -> "raised"]

LocalFit == {t \in Tasks : box[t] = "met"}

LocalPromise == INSTANCE Backend WITH
  Jobs <- Tasks, call <- LocalCall, free <- sem, fit <- LocalFit

\* The local backend keeps what the scheduler relies on: slots are lent once and come
\* back on every error path, and a task is called once and answered once.
LocalIsBackend == LocalPromise!Spec

\* Every task that was given to the backend comes back, however long Quartus runs
\* and however others fail.
Returns == \A t \in Tasks : (pc[t] = "slot") ~> (pc[t] \in {"done", "raised"})

\* "driven through our TCL wrapper so we control the seed"
\* (src/super_q/quartus.py:6-7): the seed a run is given is the seed of its task.
SeedReachesQuartus == \A t \in Tasks : leader[t] = "up" => seen[t] = t
=============================================================================

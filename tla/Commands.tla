------------------------------ MODULE Commands ------------------------------
(***************************************************************************)
(* The commands that sweep one core or many (src/super_q/cli.py), the plan *)
(* they make of their options (seeds.py), the pool of threads of a batch   *)
(* (scheduler.py), and what they end with: an exit code, the outputs of a  *)
(* CI job (ci.py), or the answer to a client (mcp_server.py, daemon.py).   *)
(*                                                                         *)
(* A sweep is seen from outside: it raises, or it returns an outcome with  *)
(* or without a best seed.  A best seed may have no slack: a timing panel  *)
(* with no row is a pass.                                                  *)
(***************************************************************************)
EXTENDS Integers, Sequences, FiniteSets

CONSTANTS
  Cores,          \* what find_cores finds for a batch
  ParallelCores,  \* threads of the batch
  Bounds,         \* values of --min and --max
  Counts          \* values of --count

ASSUME CommandsAssumption ==
  /\ ParallelCores \in Nat \ {0}
  /\ Bounds \subseteq Nat /\ Counts \subseteq Nat

VARIABLES
  command, asJson,
  plan,       \* the seeds
  sweeping,   \* what became of each core's sweep
  outcomes,   \* the outcomes batch_run has appended
  outputs,    \* `passed` as the later steps of a CI job see it
  exit        \* the exit code; 9 before it

commandVars == <<command, asJson, plan, sweeping, outcomes, outputs, exit>>

Single == {"build", "sweep", "ci_build", "bench"}

\* Tools of the MCP server, and operations of the daemon.
Served == {"build_core", "sweep_seeds", "batch_sweep"}

Many == {"batch", "batch_sweep"}

Asked == IF command \in Many THEN Cores ELSE {CHOOSE c \in Cores : TRUE}

Ended == {"slack", "no_slack", "none", "empty", "raised"}

-----------------------------------------------------------------------------
(* SeedPlan *)

\* Never more than 65530 seeds here.
Spaced(count) == [i \in 1..count |-> 1 + (i - 1) * (65530 \div count)]

RangePlan(lo, hi) == [i \in 1..(IF hi < lo THEN 0 ELSE hi - lo + 1) |-> lo + i - 1]

\* random.sample draws without repetition: some such seeds, the least and the most.
Sampled(count) == {[i \in 1..count |-> i], [i \in 1..count |-> 65535 - i]}

\* _make_plan; zero stands for no --count.
Plans(strategy, lo, hi, count) ==
  LET n == IF count > 0 THEN count ELSE IF hi < lo THEN 1 ELSE hi - lo + 1
  IN  IF strategy = "random" THEN Sampled(n)
      ELSE IF strategy = "spaced" THEN {Spaced(n)} ELSE {RangePlan(lo, hi)}

CommandsInit ==
  /\ command \in Single \cup Served \cup {"batch"}
  /\ asJson \in BOOLEAN
  /\ \E lo, hi \in Bounds, n \in Counts, s \in {"range", "random", "spaced"} :
       /\ plan \in CASE command \in {"sweep", "sweep_seeds"} -> Plans(s, lo, hi, n)
                     [] command \in {"ci_build"} \cup Many -> {RangePlan(lo, hi)}
                     [] OTHER -> {<<lo>>}
  /\ sweeping = [c \in Asked |-> "queued"]
  /\ outcomes = <<>> /\ outputs = "unset"
  /\ exit = 9

-----------------------------------------------------------------------------
(* Sweeps, in the threads of batch_run or in the command's own.             *)

Free == Cardinality({c \in Asked : sweeping[c] = "running"}) < ParallelCores

Sweeps(c) ==
  /\ sweeping[c] = "queued" /\ Free
  /\ sweeping' = [sweeping EXCEPT ![c] = "running"]
  /\ UNCHANGED <<command, asJson, plan, outcomes, outputs, exit>>

\* A plan of no seeds leaves a sweep nothing to do.
SweepEnds(c) ==
  /\ sweeping[c] = "running"
  /\ \E how \in IF plan = <<>> THEN {"empty", "raised"} ELSE Ended \ {"empty"} :
       sweeping' = [sweeping EXCEPT ![c] = how]
  /\ UNCHANGED <<command, asJson, plan, outcomes, outputs, exit>>

Reported == {outcomes[i] : i \in 1..Len(outcomes)}

\* One of as_completed: an exception is logged.
Collected(c) ==
  /\ command \in Many
  /\ sweeping[c] \in Ended \ {"raised"} /\ c \notin Reported
  /\ outcomes' = Append(outcomes, c)
  /\ UNCHANGED <<command, asJson, plan, sweeping, outputs, exit>>

-----------------------------------------------------------------------------
(* Exit codes.  Python ends a command that raises with 1.                   *)

Passed(c) == sweeping[c] \in {"slack", "no_slack"}

\* The result is printed before the code is chosen, and a slack of None cannot be.
Unprintable(c) == sweeping[c] = "no_slack" /\ (command = "ci_build" \/ ~asJson)

MutExitForOutcome(c) == IF sweeping[c] = "empty" THEN 3 ELSE 0

\* _exit_for_outcome asks the results, which have no status, for it.
_exit_for_outcome(c) ==
  IF Passed(c) THEN 0 ELSE IF sweeping[c] = "empty" THEN 3 ELSE 1

\* set_output, of a sweep that has returned.
Tells(c) ==
  /\ command = "ci_build" /\ sweeping[c] \in Ended \ {"raised"} /\ outputs = "unset"
  /\ outputs' = IF Passed(c) THEN "true" ELSE "false"
  /\ UNCHANGED <<command, asJson, plan, sweeping, outcomes, exit>>

SingleExits ==
  \E c \in Asked :
    /\ command \in Single
    /\ sweeping[c] \in Ended /\ exit = 9
    /\ (command = "ci_build" /\ sweeping[c] # "raised" => outputs # "unset")
    /\ exit' = IF sweeping[c] = "raised" \/ Unprintable(c) THEN 1
               ELSE IF command \in {"build", "sweep"} THEN _exit_for_outcome(c)
               ELSE IF Passed(c) THEN 0 ELSE 3
    /\ UNCHANGED <<command, asJson, plan, sweeping, outcomes, outputs>>

BatchCode == IF asJson \/ \A c \in Reported : Passed(c) THEN 0 ELSE 3

BatchExits ==
  /\ command = "batch" /\ exit = 9
  /\ \A c \in Asked : sweeping[c] = "raised" \/ c \in Reported
  /\ exit' = BatchCode
  /\ UNCHANGED <<command, asJson, plan, sweeping, outcomes, outputs>>

\* The outcomes, or the error that call_tool and _dispatch make of an exception.
Answers ==
  /\ command \in Served /\ exit = 9
  /\ \A c \in Asked : sweeping[c] \in Ended
  /\ \/ command # "batch_sweep"
     \/ \A c \in Asked : sweeping[c] = "raised" \/ c \in Reported
  /\ exit' = IF command # "batch_sweep" /\ \E c \in Asked : sweeping[c] = "raised" THEN 1 ELSE 0
  /\ UNCHANGED <<command, asJson, plan, sweeping, outcomes, outputs>>

CommandsNext ==
  \/ \E c \in Asked : Sweeps(c) \/ SweepEnds(c) \/ Collected(c) \/ Tells(c)
  \/ SingleExits \/ BatchExits \/ Answers
-----------------------------------------------------------------------------
\* A batch runs no more sweeps at once than it has threads, and what it reports is every
\* sweep that returned, once, in whatever order they end; a 0 that is not of --json means
\* that each of those passed (scheduler.py:363-374, cli.py:229-239).
BatchTellsAll ==
  /\ Cardinality({c \in Asked : sweeping[c] = "running"}) <= ParallelCores
  /\ Len(outcomes) = Cardinality(Reported)
  /\ exit # 9 /\ command \in Many =>
       /\ Reported = {c \in Asked : sweeping[c] # "raised"}
       /\ exit = 0 /\ command = "batch" /\ ~asJson => \A c \in Reported : Passed(c)

\* A single command that says 0 has a best seed to show for it, one that says 3 has
\* none, and neither is said of a sweep that did not return (cli.py:849, 1282, 1436-1441).
CodeIsEarned ==
  command \in Single =>
    /\ exit = 0 => \A c \in Asked : Passed(c)
    /\ exit = 3 => \A c \in Asked : sweeping[c] \in {"none", "empty"}

\* The outputs of a CI job never contradict the code it ends with, and a job that has
\* outputs knows what its sweep returned (cli.py:1265-1282).
OutputsAgree ==
  /\ outputs # "unset" => \A c \in Asked : sweeping[c] \in Ended \ {"raised"}
  /\ exit = 0 /\ command = "ci_build" => outputs = "true"
  /\ exit = 3 /\ command = "ci_build" => outputs = "false"
=============================================================================

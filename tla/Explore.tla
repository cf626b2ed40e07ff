------------------------------ MODULE Explore ------------------------------
(***************************************************************************)
(* The budget-bounded ladder (src/super_q/explore.py) and the exit codes   *)
(* of the two commands that climb it.  Each rung is a whole sweep; the     *)
(* clock is read before it, to size its timeout, after it, to say why it   *)
(* stopped, and once more at the end.                                      *)
(*                                                                         *)
(* A sweep is what Sweep.tla makes of it: its seeds run in waves, after a  *)
(* synthesis of its own when the rung shares one, which no timeout of the  *)
(* ladder reaches, and before the wait for stragglers.  A seed takes more  *)
(* than its timeout: its project is copied, its processes are given time   *)
(* to die.  Time is counted in halves of a second, since the timeout       *)
(* handed on is a whole number.                                            *)
(***************************************************************************)
EXTENDS Naturals, Sequences

CONSTANTS
  Ladder,    \* the rungs: [waves |-> seeds over parallel, rounded up, split |-> shared synthesis]
  Budget,    \* budget_s, in half seconds
  Cap,       \* the longest timeout of a seed
  SynthCap,  \* the longest shared synthesis
  Grace,     \* what a seed takes beside its timeout: the copy, SIGTERM, SIGKILL, the outputs
  Drained    \* the wait for stragglers at the end of a sweep

ASSUME ExploreAssumption ==
  /\ Ladder \in Seq([waves : Nat \ {0}, split : BOOLEAN])
  /\ Budget \in Nat /\ Cap \in Nat \ {0} /\ SynthCap \in Nat
  /\ Grace \in Nat /\ Drained \in Nat

VARIABLES
  clock,     \* half seconds since the deadline was set
  stage,     \* where explore() is
  rung,      \* rungs begun
  timeout,   \* timeout_s of the current sweep
  best,      \* what a rung's best seed has to show: "none" for no best seed
  printed,   \* not --json, nor ci: the result is printed for a reader
  reasons,   \* stopped_reason of each rung
  code       \* the exit code; 9 before it

exploreVars == <<clock, stage, rung, timeout, best, printed, reasons, code>>

MaxOf(S) == CHOOSE x \in S : \A y \in S : y <= x
MinOf(S) == CHOOSE x \in S : \A y \in S : x <= y

ExploreInit ==
  /\ clock = 0 /\ stage = "rung" /\ rung = 0 /\ timeout = 0
  /\ best = "none" /\ printed \in BOOLEAN /\ reasons = <<>> /\ code = 9

\* A moment may pass between two readings of the clock.
Moment == clock' \in {clock, clock + 1}

MutSweepFor(remaining) == MinOf({Budget, Cap})

\* int(min(remaining, 60 * 60))
SweepFor(remaining) == 2 * (MinOf({remaining, Cap}) \div 2)

\* The for loop is over, or the budget.
EndsLadder == rung = Len(Ladder) \/ clock >= Budget

Begin ==
  /\ stage = "rung" /\ ~EndsLadder
  /\ rung' = rung + 1
  /\ timeout' = SweepFor(Budget - clock)
  /\ stage' = "sweep"
  /\ Moment
  /\ UNCHANGED <<best, printed, reasons, code>>

Longest ==
  Ladder[rung].waves * (timeout + Grace) + Drained + IF Ladder[rung].split THEN SynthCap ELSE 0

\* scheduler.run_sweep, with stop_on_first_pass.
Swept ==
  /\ stage = "sweep"
  /\ \E d \in 0..Longest : clock' = clock + d
  /\ best' \in {"none", "slack", "no_slack"}
  /\ stage' = "swept"
  /\ UNCHANGED <<rung, timeout, printed, reasons, code>>

\* What run_sweep raises goes through: Python ends the command with 1.
SweepRaises ==
  /\ stage = "sweep"
  /\ \E d \in 0..Longest : clock' = clock + d
  /\ stage' = "over" /\ code' = 1
  /\ UNCHANGED <<rung, timeout, best, printed, reasons>>

Why == IF best # "none" THEN "passed" ELSE IF clock >= Budget THEN "budget" ELSE "failed"

Recorded ==
  /\ stage = "swept"
  /\ reasons' = Append(reasons, Why)
  /\ stage' = IF best # "none" THEN "told" ELSE "rung"
  /\ Moment
  /\ UNCHANGED <<rung, timeout, best, printed, code>>

Leave ==
  /\ stage = "rung" /\ EndsLadder
  /\ stage' = "told"
  /\ Moment
  /\ UNCHANGED <<rung, timeout, best, printed, reasons, code>>

timed_out == best = "none" /\ clock >= Budget

\* ExploreOutcome, and typer.Exit; a slack that is None cannot be formatted.
Exits ==
  /\ stage = "told"
  /\ code' = IF timed_out THEN 4
              ELSE IF best = "none" THEN 3
              ELSE IF printed /\ best = "no_slack" THEN 1 ELSE 0
  /\ stage' = "over"
  /\ UNCHANGED <<clock, rung, timeout, best, printed, reasons>>

ExploreNext == Begin \/ Swept \/ SweepRaises \/ Recorded \/ Leave \/ Exits
-----------------------------------------------------------------------------
\* Every rung is sized by the time left: as long as no sweep raises, the ladder ends
\* within the budget, the later waves of the rung that crosses the deadline, the time its
\* waves take beside their timeouts, its shared synthesis and its stragglers, never by a
\* budget for each rung (explore.py:150-176).
OverrunBounded ==
  LET waves == {Ladder[i].waves : i \in 1..Len(Ladder)} \cup {1}
  IN  clock <= (Budget + Grace) * MaxOf(waves) + Drained + SynthCap + 3

\* What the outcome says is what happened: a pass is the last rung's and there is no
\* rung after it or after the budget; the exit code is 0 for a pass, 4 only when the
\* budget is spent, and 3 only when every rung was tried and failed
\* (explore.py:178-210, cli.py:512).
ToldAsItWent ==
  LET n == Len(reasons)
  IN  /\ \A i \in 1..n - 1 : reasons[i] = "failed"
      /\ code = 0 => n > 0 /\ reasons[n] = "passed"
      /\ code = 4 => clock >= Budget
      /\ code = 3 => n = Len(Ladder) /\ \A i \in 1..n : reasons[i] = "failed"
=============================================================================

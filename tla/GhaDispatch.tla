----------------------------- MODULE GhaDispatch ----------------------------
(***************************************************************************)
(* The GitHub Actions backend (src/super_q/backends/gha.py).               *)
(*                                                                         *)
(* A dispatch does not return the run it makes, so the task looks for it   *)
(* in the list of runs, by the job id alone: the newest run of the job     *)
(* that the list shows.  It waits for that run, and then takes the first   *)
(* artifact of it whose name mentions the job and the seed.  In that zip   *)
(* are all the bitstreams of the core on the runner, the one of the run    *)
(* and any that lay in output_files when the core was sent; which of them  *)
(* is taken is up to the order of the files.                               *)
(***************************************************************************)
EXTENDS Pools

CONSTANTS
  Seeds,     \* the seeds of the sweep: a task is known by its seed
  Parallel,  \* max_parallel of the pool
  MaxPolls,  \* how often the list is read; 30 in the code
  Within,    \* pairs of seeds the first of which is found in the second's name
  Earlier    \* in the place of a seed: an earlier build of the core

ASSUME GhaAssumption ==
  Parallel \in Nat \ {0} /\ MaxPolls \in Nat \ {0}
  /\ IsFiniteSet(Seeds) /\ None \notin Seeds

ASSUME EarlierAssumption == Earlier \notin Seeds \cup {None}

VARIABLES
  titled,   \* the workflow names its runs after the job
  littered, \* a bitstream lies in the output_files of the core that is sent
  gFree,    \* the semaphore
  gAt,      \* where each task is
  polls,    \* how often a task has read the list
  runs,     \* the runs that the list shows, oldest first, by the seed they build
  hidden,   \* runs GitHub has accepted and does not show yet
  state,    \* each seed's run: none, active, success, failure
  chosen,   \* the run a task takes for its own, by its seed
  got,      \* whose bitstream is in the task's directory
  gOut      \* what run() returned

ghaVars == <<titled, littered, gFree, gAt, polls, runs, hidden, state, chosen, got, gOut>>

InGha == {"publish", "dispatch", "find", "await", "download"}

GhaTypeOK ==
  /\ titled \in BOOLEAN /\ littered \in BOOLEAN
  /\ gFree \in 0..Parallel
  /\ gAt \in [Seeds -> {"call", "done", "raised"} \cup InGha]
  /\ polls \in [Seeds -> 0..MaxPolls]
  /\ runs \in UNION {[1..n -> Seeds] : n \in 0..Cardinality(Seeds)}
  /\ hidden \subseteq Seeds
  /\ state \in [Seeds -> {"none", "active", "success", "failure"}]
  /\ chosen \in [Seeds -> Seeds \cup {None}]
  /\ got \in [Seeds -> Seeds \cup {None, Earlier}]
  /\ gOut \in [Seeds -> {"none", "ok", "bad"}]

GhaInit ==
  /\ titled \in BOOLEAN /\ littered \in BOOLEAN
  /\ gFree = Parallel
  /\ gAt = [t \in Seeds |-> "call"]
  /\ polls = [t \in Seeds |-> 0]
  /\ runs = <<>>
  /\ hidden = {}
  /\ state = [t \in Seeds |-> "none"]
  /\ chosen = [t \in Seeds |-> None]
  /\ got = [t \in Seeds |-> None]
  /\ gOut = [t \in Seeds |-> "none"]

GhaGoto(t, from, to) == gAt[t] = from /\ gAt' = [gAt EXCEPT ![t] = to]

GhaLeave(t, from, to) == GhaGoto(t, from, to) /\ gFree' = gFree + 1

-----------------------------------------------------------------------------
GhaEnter(t) ==
  /\ pool = "gha" /\ gFree > 0
  /\ GhaGoto(t, "call", "publish")
  /\ gFree' = gFree - 1
  /\ UNCHANGED <<titled, littered, polls, runs, hidden, state, chosen, got, gOut>>

_publish_sandbox(t) ==
  /\ GhaGoto(t, "publish", "dispatch")
  /\ UNCHANGED <<titled, littered, gFree, polls, runs, hidden, state, chosen, got, gOut>>

_dispatch_workflow(t) ==
  /\ GhaGoto(t, "dispatch", "find")
  /\ hidden' = hidden \cup {t}
  /\ state' = [state EXCEPT ![t] = "active"]
  /\ UNCHANGED <<titled, littered, gFree, polls, runs, chosen, got, gOut>>

\* No bucket, a refused dispatch, or a call to S3 or GitHub that fails: nothing
\* here catches it.  A dispatch may have been accepted all the same.
GhaRaises(t) ==
  /\ \E stage \in InGha : GhaLeave(t, stage, "raised")
  /\ IF gAt[t] = "dispatch"
       THEN \E accepted \in SUBSET {t} :
              /\ hidden' = hidden \cup accepted
              /\ state' = [u \in Seeds |-> IF u \in accepted THEN "active" ELSE state[u]]
       ELSE UNCHANGED <<hidden, state>>
  /\ UNCHANGED <<titled, littered, polls, runs, chosen, got, gOut>>

\* One reading of the list, newest run first.
Find(t) ==
  /\ IF titled /\ runs # <<>>
       THEN /\ GhaGoto(t, "find", "await")
            /\ chosen' = [chosen EXCEPT ![t] = runs[Len(runs)]]
            /\ UNCHANGED polls
       ELSE /\ polls[t] < MaxPolls /\ GhaGoto(t, "find", "find")
            /\ polls' = [polls EXCEPT ![t] = @ + 1]
            /\ UNCHANGED chosen
  /\ UNCHANGED <<titled, littered, gFree, runs, hidden, state, got, gOut>>

\* The list was read as often as it may be.
NotFound(t) ==
  /\ polls[t] = MaxPolls /\ ~(titled /\ runs # <<>>)
  /\ GhaLeave(t, "find", "raised")
  /\ UNCHANGED <<titled, littered, polls, runs, hidden, state, chosen, got, gOut>>

_await_run(t) ==
  /\ GhaGoto(t, "await", "download")
  /\ state[chosen[t]] = "success"
  /\ UNCHANGED <<titled, littered, gFree, polls, runs, hidden, state, chosen, got, gOut>>

AwaitFails(t) ==
  /\ GhaLeave(t, "await", "done")
  /\ state[chosen[t]] = "failure"
  /\ gOut' = [gOut EXCEPT ![t] = "bad"]
  /\ UNCHANGED <<titled, littered, polls, runs, hidden, state, chosen, got>>

AwaitTimesOut(t) ==
  /\ GhaLeave(t, "await", "done")
  /\ gOut' = [gOut EXCEPT ![t] = "bad"]
  /\ UNCHANGED <<titled, littered, polls, runs, hidden, state, chosen, got>>

MutMentions(t, seed) == TRUE

\* The name of a run's artifact mentions the job, and a seed as a piece of text.
Mentions(t, seed) == <<t, seed>> \in Within

\* What else the zip holds beside the bitstream of the run.
Left == IF littered THEN {Earlier} ELSE {}

\* Nothing of the seed's name in the run, or no bitstream in the zip: the outcome is
\* not ok.
_download_artifact(t) ==
  /\ GhaLeave(t, "download", "done")
  /\ \/ /\ Mentions(t, chosen[t])
        /\ \E file \in {chosen[t]} \cup Left : got' = [got EXCEPT ![t] = file]
        /\ gOut' = [gOut EXCEPT ![t] = "ok"]
     \/ UNCHANGED got /\ gOut' = [gOut EXCEPT ![t] = "bad"]
  /\ UNCHANGED <<titled, littered, polls, runs, hidden, state, chosen>>

-----------------------------------------------------------------------------
(* GitHub.                                                                  *)

Show(t) ==
  /\ t \in hidden
  /\ hidden' = hidden \ {t}
  /\ runs' = Append(runs, t)
  /\ UNCHANGED <<titled, littered, gFree, gAt, polls, state, chosen, got, gOut>>

RunEnds(t) ==
  /\ state[t] = "active"
  /\ \E end \in {"success", "failure"} : state' = [state EXCEPT ![t] = end]
  /\ UNCHANGED <<titled, littered, gFree, gAt, polls, runs, hidden, chosen, got, gOut>>

GhaThread(t) ==
  \/ GhaEnter(t) \/ _publish_sandbox(t)
  \/ _dispatch_workflow(t) \/ Find(t) \/ NotFound(t)
  \/ _await_run(t) \/ AwaitFails(t) \/ _download_artifact(t)

GhaNext ==
  \E t \in Seeds :
    GhaThread(t) \/ GhaRaises(t) \/ AwaitTimesOut(t) \/ Show(t) \/ RunEnds(t)

\* A thread goes on when it can, and the deadline comes; GitHub may do nothing.
GhaFairness ==
  \A t \in Seeds : WF_ghaVars(GhaThread(t)) /\ WF_ghaVars(AwaitTimesOut(t))

-----------------------------------------------------------------------------
\* The workflow runs as a backend: although tasks may wait for each other's runs, a
\* seed is fit only when its own run succeeded and a file of its artifact came: the
\* bitstream that this run made, or, of a core that was sent with one, that one.
GhaCall ==
  [t \in Seeds |-> CASE gAt[t] = "call" -> "asked"
                     [] gAt[t] \in InGha -> "inside"
                     [] gAt[t] = "done" -> gOut[t]
                     [] OTHER -> "raised"]

GhaFit == {t \in Seeds : state[t] = "success" /\ got[t] \in {t} \cup Left}

GhaPromise == INSTANCE Backend WITH
  Jobs <- Seeds, call <- GhaCall, free <- gFree, fit <- GhaFit

\* A dispatched task comes back, whatever GitHub shows and however long a run takes.
GhaTasksReturn == \A t \in Seeds : (gAt[t] = "find") ~> (gAt[t] \in {"done", "raised"})
=============================================================================

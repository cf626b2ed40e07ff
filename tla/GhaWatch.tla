------------------------------ MODULE GhaWatch ------------------------------
(***************************************************************************)
(* `superq gha trigger` and `superq gha watch` (src/super_q/gha.py, cli.py *)
(* 965-1160): the dispatch of a workflow, the search for the run it made,  *)
(* and the poll that tells a run's progress until it completes.            *)
(*                                                                         *)
(* Runs move on while they are polled, a dispatch that gh reports as       *)
(* failed may have been accepted, a new run is listed some time after, and *)
(* the status of a run and the jobs of it are two reads.                   *)
(***************************************************************************)
EXTENDS Naturals, FiniteSets

CONSTANTS
  Retries,   \* attempts of gh after the first
  MaxLists,  \* polls of the list of runs after a dispatch
  MaxPolls   \* polls that fit in the timeout of a watch

ASSUME GhaWatchAssumption == Retries \in Nat /\ MaxLists \in Nat \ {0} /\ MaxPolls \in Nat \ {0}

VARIABLES
  remote,    \* the dispatched runs of the workflow and branch, newest last; 0 is an older one
  ghaAt,     \* where the command is
  thenWatch, \* trigger --watch
  json,      \* watch --json
  tries,     \* failed attempts of the current gh call
  polls,
  target,    \* the run to watch
  got,       \* the run's state as get_run returned it, and the state its jobs were read in
  reported,  \* the latest of those given to on_update
  ghaCode    \* the exit code; 9 before it

ghaWatchVars == <<remote, ghaAt, thenWatch, json, tries, polls, target, got, reported, ghaCode>>

RunIds == 0..Retries + 1

NoRun == Retries + 2

Stages == <<"queued", "first_step", "second_step">>

Completed == {"success", "failure", "cancelled"}

Listed == {Stages[i] : i \in 1..3} \cup Completed

Nothing == <<"none", "none">>

\* How far a run has come; jobs that were not asked for have come nowhere.
Progress(s) ==
  IF s = "none" THEN 0 ELSE IF s \in Completed THEN 4 ELSE CHOOSE i \in 1..3 : Stages[i] = s

\* get_run knows of no steps.
StatusOf(s) == IF s = "second_step" THEN "first_step" ELSE s

GhaWatchInit ==
  /\ \E older \in {"absent", "queued", "failure"} :
       remote = [i \in RunIds |-> IF i = 0 THEN older ELSE "absent"]
  /\ ghaAt \in {"post", "latest"}
  /\ thenWatch \in BOOLEAN /\ json \in BOOLEAN
  /\ (ghaAt = "latest" => thenWatch)
  /\ (ghaAt = "post" => ~json)
  /\ tries = 0 /\ polls = 0 /\ target = NoRun
  /\ got = Nothing /\ reported = Nothing /\ ghaCode = 9

-----------------------------------------------------------------------------
(* GitHub *)

Appears(i) ==
  /\ remote[i] = "hidden"
  /\ remote' = [remote EXCEPT ![i] = "queued"]

Advances(i) ==
  \/ \E k \in 1..2 : remote[i] = Stages[k] /\ remote' = [remote EXCEPT ![i] = Stages[k + 1]]
  \/ /\ remote[i] \in Listed \ Completed
     /\ \E c \in IF remote[i] = "second_step" THEN Completed ELSE Completed \ {"success"} :
          remote' = [remote EXCEPT ![i] = c]

GitHub ==
  /\ \E i \in RunIds : Appears(i) \/ Advances(i)
  /\ UNCHANGED <<ghaAt, thenWatch, json, tries, polls, target, got, reported, ghaCode>>

\* A new dispatched run, in the newest place.
Accept ==
  LET new == CHOOSE i \in RunIds \ {0} :
               remote[i] = "absent" /\ \A j \in RunIds \ {0} : j < i => remote[j] # "absent"
  IN  remote' = [remote EXCEPT ![new] = "hidden"]

-----------------------------------------------------------------------------
(* _gh_api: transient failures are tried again, others and the last raise.   *)

Leaves(c) == ghaAt' = "over" /\ ghaCode' = c

GivesUp ==
  IF tries < Retries
    THEN tries' = tries + 1 /\ UNCHANGED <<ghaAt, ghaCode>>
    ELSE UNCHANGED tries /\ Leaves(2)

Raises == UNCHANGED tries /\ Leaves(2)

\* A call that only reads.
ReadFails ==
  /\ ghaAt \in {"list", "latest", "run", "jobs"}
  /\ GivesUp \/ Raises
  /\ UNCHANGED <<remote, thenWatch, json, polls, target, got, reported>>

\* The answer to a dispatch may be lost as well as the dispatch.
PostFails ==
  /\ ghaAt = "post"
  /\ \/ GivesUp /\ (Accept \/ UNCHANGED remote)
     \/ Raises /\ UNCHANGED remote
  /\ UNCHANGED <<thenWatch, json, polls, target, got, reported>>

-----------------------------------------------------------------------------
(* trigger_workflow *)

Post ==
  /\ ghaAt = "post"
  /\ Accept
  /\ ghaAt' = "list" /\ tries' = 0
  /\ UNCHANGED <<thenWatch, json, polls, target, got, reported, ghaCode>>

\* The list has the newest run first.
Newest(S) == CHOOSE i \in S : \A j \in S : j <= i

Matching == {i \in RunIds : remote[i] \in Listed \ Completed}

Found ==
  /\ ghaAt = "list" /\ Matching # {}
  /\ target' = Newest(Matching)
  /\ IF thenWatch THEN ghaAt' = "run" /\ UNCHANGED ghaCode ELSE Leaves(0)
  /\ tries' = 0 /\ polls' = 0
  /\ UNCHANGED <<remote, thenWatch, json, got, reported>>

NotListed ==
  /\ ghaAt = "list" /\ Matching = {}
  /\ IF polls + 1 < MaxLists
       THEN polls' = polls + 1 /\ UNCHANGED <<ghaAt, ghaCode>>
       ELSE Leaves(2) /\ UNCHANGED polls
  /\ tries' = 0
  /\ UNCHANGED <<remote, thenWatch, json, target, got, reported>>

-----------------------------------------------------------------------------
(* watch_run *)

\* list_runs with a limit of one, finished runs included.
Latest ==
  /\ ghaAt = "latest"
  /\ LET runs == {i \in RunIds : remote[i] \in Listed}
     IN  IF runs = {} THEN Leaves(1) /\ UNCHANGED target
                      ELSE target' = Newest(runs) /\ ghaAt' = "run" /\ UNCHANGED ghaCode
  /\ tries' = 0
  /\ UNCHANGED <<remote, thenWatch, json, polls, got, reported>>

MutLatestRun ==
  /\ ghaAt = "run"
  /\ LET newest == Newest({i \in RunIds : remote[i] \in Listed})
     IN  /\ got' = <<StatusOf(remote[newest]), "none">>
         /\ ghaAt' = IF remote[newest] = "queued" THEN "told?" ELSE "jobs"
  /\ tries' = 0
  /\ UNCHANGED <<remote, thenWatch, json, polls, target, reported, ghaCode>>

get_run ==
  /\ ghaAt = "run"
  /\ got' = <<StatusOf(remote[target]), "none">>
  /\ ghaAt' = IF remote[target] = "queued" THEN "told?" ELSE "jobs"
  /\ tries' = 0
  /\ UNCHANGED <<remote, thenWatch, json, polls, target, reported, ghaCode>>

get_jobs ==
  /\ ghaAt = "jobs"
  /\ got' = <<got[1], remote[target]>>
  /\ ghaAt' = "told?" /\ tries' = 0
  /\ UNCHANGED <<remote, thenWatch, json, polls, target, reported, ghaCode>>

\* The exit code mirrors the conclusion.  The summary under the live table formats a
\* duration, which only a completed run has: TypeError, and Python's 1.
CodeOf(s) ==
  IF s \notin Completed /\ ~json THEN 1
  ELSE IF s = "success" THEN 0
  ELSE IF s = "failure" THEN 3 ELSE 4

\* on_update is called when the fingerprint differs.
Compare ==
  /\ ghaAt = "told?"
  /\ reported' = got
  /\ \/ /\ got[1] \in Completed
        /\ Leaves(CodeOf(got[1])) /\ UNCHANGED polls
     \/ /\ got[1] \notin Completed
        /\ \/ polls < MaxPolls /\ polls' = polls + 1 /\ ghaAt' = "run" /\ UNCHANGED ghaCode
           \/ Leaves(CodeOf(got[1])) /\ UNCHANGED polls
  /\ UNCHANGED <<remote, thenWatch, json, tries, target, got>>

\* "stopped watching; run still in flight"
StopWatching ==
  /\ ghaAt \in {"run", "jobs", "told?"}
  /\ ghaAt' = "stopped" /\ ghaCode' = 0
  /\ UNCHANGED <<remote, thenWatch, json, tries, polls, target, got, reported>>

GhaCommand ==
  \/ ReadFails \/ PostFails \/ Post \/ Found \/ NotListed
  \/ Latest \/ get_run \/ get_jobs \/ Compare

GhaWatchNext == GitHub \/ GhaCommand \/ StopWatching
-----------------------------------------------------------------------------
\* Updates only move forward: neither the status nor the steps that on_update is given
\* go back, though they come from two reads (gha.py:194-205).
ToldForward ==
  [][reported' # reported =>
       /\ Progress(reported[1]) <= Progress(reported'[1])
       /\ Progress(reported[2]) <= Progress(reported'[2])]_ghaWatchVars

\* What the last update says is what the exit code says, and a run that was reported to be
\* completed was reported with its jobs as they ended (gha.py:190-221, cli.py:1062-1067).
EndIsTold ==
  ghaAt = "over" /\ reported # Nothing /\ ghaCode \in {0, 3, 4} =>
    /\ ghaCode = 0 => remote[target] = "success"
    /\ ghaCode = 3 => remote[target] = "failure"
    /\ ghaCode = 4 => reported[1] \notin {"success", "failure"}
    /\ reported[1] \in Completed => reported[2] = reported[1]

\* Without an unfinished dispatched run of before, the run that trigger returns is one
\* it dispatched (gha.py:243-263); an older one is otherwise as good as the new.
FreshIfAlone ==
  [][target' # target /\ ghaAt = "list" /\ remote[0] \notin Listed \ Completed
       => target' # 0]_ghaWatchVars

\* What a gha command tells only moves forward, and is of the run that it dispatched.
GhaTells == ToldForward /\ FreshIfAlone

\* gha trigger and gha watch end, whatever GitHub does: retries, lists and polls are
\* all bounded (gha.py:77-92, 256-263, 222-225).
GhaEnds == ghaAt \in {"list", "run", "jobs", "told?"} ~> ghaAt \in {"over", "stopped"}
=============================================================================

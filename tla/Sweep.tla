------------------------------- MODULE Sweep -------------------------------
(***************************************************************************)
(* One seed sweep: Scheduler.run_sweep in its own thread, the executor     *)
(* threads that run _run_one for each seed, `super-q-worker daemon`        *)
(* processes that pull rows from the same database, and a user who cancels *)
(* the job (CLI, build daemon and MCP all end in Store.cancel_job).        *)
(*                                                                         *)
(* A step is one store transaction or one change of a Future, an Event or  *)
(* a local of run_sweep that another thread can observe.  A task is a      *)
(* position in plan.seeds.  The score of a seed is an integer that stands  *)
(* for slack minus the duration penalty (SeedResult.score); NegInf is the  *)
(* -inf of a seed that failed or passed without timing.                    *)
(***************************************************************************)
EXTENDS Store, Integers, SequencesExt

CONSTANTS
  MaxWorkers,   \* ThreadPoolExecutor(max_workers=max(1, parallel))
  StopOnFirst,  \* plan.stop_on_first_pass
  Scores,       \* the scores a build with timing can get
  MayCancel,    \* may a user cancel the job?
  MaxFaults     \* bound on failing store calls, dead workers and crashes

NegInf == -1

ASSUME SweepAssumption ==
  /\ MaxWorkers \in Nat \ {0}
  /\ StopOnFirst \in BOOLEAN
  /\ Scores \subseteq Nat
  /\ MayCancel \in BOOLEAN
  /\ MaxFaults \in Nat

Outcome == [ok : {TRUE}, score : Scores \cup {NegInf}]
             \cup [ok : {FALSE}, score : {NegInf}]
Failure == [ok |-> FALSE, score |-> NegInf]

\* The control point of run_sweep.
Control == {"init", "created", "dispatch", "submit", "collect", "signal",
            "cancel", "drain", "finish", "announce", "done",
            "error", "raised", "dead"}

\* The state of a Future; for a running one, where its thread is in _run_one.
\* "cancelled" is Future.cancel()'s state, "notified" the one a thread gives
\* it when it takes it off the queue: only then does cf.wait count it.
Stages     == {"checking", "claiming", "starting", "building"}
Waiting    == {"pending", "cancelled"}
Settled    == {"done", "raised", "notified"}
FutureType == {"absent", "lost"} \cup Waiting \cup Stages \cup Settled

VARIABLES
  pc,         \* control point of run_sweep
  next,       \* the next position its loop over the plan or the futures visits
  fut,        \* the futures
  out,        \* the TaskOutcome of a finished future
  flag,       \* cancel_flag.is_set()
  results,    \* the results list, as task positions in arrival order
  lead,       \* the local `best`
  dpc,        \* control point of each worker daemon
  dtask,      \* the row it took
  faults,     \* faults so far
  lateStarts  \* history: builds started by the pool after cancel_flag was set

sweepVars  == <<pc, next, fut, out, flag, results, lead, lateStarts>>
daemonVars == <<dpc, dtask>>
vars       == <<store, sweepVars, daemonVars, faults>>

Active      == {t \in Tasks : fut[t] \in Stages}
Recorded    == ToSet(results)
PassedTasks == {t \in Recorded : out[t].ok}

SweepTypeOK ==
  /\ StoreTypeOK
  /\ pc \in Control
  /\ next \in 1..(N + 1)
  /\ fut \in [Tasks -> FutureType]
  /\ out \in [Tasks -> Outcome]
  /\ flag \in BOOLEAN
  /\ results \in Seq(Tasks)
  /\ lead \in Tasks \cup {NoTask}
  /\ dpc \in [Daemons -> {"poll", "claim", "spec", "build", "gone"}]
  /\ dtask \in [Daemons -> Tasks \cup {NoTask}]
  /\ faults \in 0..MaxFaults
  /\ lateStarts \in Nat

Init ==
  /\ StoreInit
  /\ pc = "init"
  /\ next = 1
  /\ fut = [t \in Tasks |-> "absent"]
  /\ out = [t \in Tasks |-> Failure]
  /\ flag = FALSE
  /\ results = <<>>
  /\ lead = NoTask
  /\ dpc = [d \in Daemons |-> "poll"]
  /\ dtask = [d \in Daemons |-> NoTask]
  /\ faults = 0
  /\ lateStarts = 0
-----------------------------------------------------------------------------
(* run_sweep: create the job, dispatch the plan *)

Create ==
  /\ pc = "init"
  /\ CreateJob
  /\ pc' = "created"
  /\ UNCHANGED <<next, fut, out, flag, results, lead, lateStarts, daemonVars,
                 faults>>

AfterSubmit(n) == IF n > N THEN "collect" ELSE "dispatch"

Start ==
  /\ pc = "created"
  /\ StartJob
  /\ pc' = AfterSubmit(1)
  /\ UNCHANGED <<next, fut, out, flag, results, lead, lateStarts, daemonVars,
                 faults>>

Dispatch ==
  /\ pc = "dispatch"
  /\ CreateTask(next)
  /\ pc' = "submit"
  /\ UNCHANGED <<next, fut, out, flag, results, lead, lateStarts, daemonVars,
                 faults>>

\* The row of a task is visible to every worker before its future exists, and
\* the first tasks run while the later rows are still being created.
Submit ==
  /\ pc = "submit"
  /\ fut' = [fut EXCEPT ![next] = "pending"]
  /\ next' = next + 1
  /\ pc' = AfterSubmit(next + 1)
  /\ UNCHANGED <<store, out, flag, results, lead, lateStarts, daemonVars, faults>>
-----------------------------------------------------------------------------
(* run_sweep: collect the outcomes *)

\* Mutant: the last passing seed wins.
MutBetterLast(b, t) == IF out[t].ok THEN t ELSE b

\* Mutant: ties go to the later seed.
MutBetterTies(b, t) ==
  IF out[t].ok /\ (b = NoTask \/ out[t].score >= out[b].score) THEN t ELSE b

\* Mutant: a pass without timing is not a candidate.
MutBetterScored(b, t) ==
  IF out[t].ok /\ out[t].score > (IF b = NoTask THEN NegInf ELSE out[b].score)
  THEN t ELSE b

\* `sr.passed and (best is None or sr.score > best.score)`
Better(b, t) ==
  IF out[t].ok /\ (b = NoTask \/ out[t].score > out[b].score) THEN t ELSE b

\* Once done, a future reaches the collector in no particular order.
Collect(t) ==
  /\ pc = "collect"
  /\ fut[t] = "done"
  /\ t \notin Recorded
  /\ FinishTask(t, IF out[t].ok THEN "passed" ELSE "failed")
  /\ results' = Append(results, t)
  /\ lead' = Better(lead, t)
  /\ pc' = IF out[t].ok /\ StopOnFirst THEN "signal" ELSE "collect"
  /\ UNCHANGED <<next, fut, out, flag, lateStarts, daemonVars, faults>>

CollectAny == \E t \in Tasks : Collect(t)

\* fut.result() re-raises what a store call of _run_one raised.
CollectRaised ==
  /\ pc = "collect"
  /\ \E t \in Tasks : fut[t] = "raised"
  /\ pc' = "error"
  /\ UNCHANGED <<store, next, fut, out, flag, results, lead, lateStarts,
                 daemonVars, faults>>

\* as_completed is exhausted.
CollectEnd ==
  /\ pc = "collect"
  /\ Recorded = Tasks
  /\ pc' = "finish"
  /\ UNCHANGED <<store, next, fut, out, flag, results, lead, lateStarts,
                 daemonVars, faults>>
-----------------------------------------------------------------------------
(* run_sweep: early exit *)

Signal ==
  /\ pc = "signal"
  /\ flag' = TRUE
  /\ next' = 1
  /\ pc' = "cancel"
  /\ UNCHANGED <<store, fut, out, results, lead, lateStarts, daemonVars, faults>>

\* Mutant: the loop over the futures runs one too far.
MutCancelFuture ==
  /\ pc = "cancel"
  /\ next <= N + 1
  /\ fut' = [fut EXCEPT ![next] = IF @ = "pending" THEN "cancelled" ELSE @]
  /\ next' = next + 1
  /\ UNCHANGED <<store, pc, out, flag, results, lead, lateStarts, daemonVars,
                 faults>>

CancelFuture ==
  /\ pc = "cancel"
  /\ next <= N
  /\ fut' = [fut EXCEPT ![next] = IF @ = "pending" THEN "cancelled" ELSE @]
  /\ next' = next + 1
  /\ UNCHANGED <<store, pc, out, flag, results, lead, lateStarts, daemonVars,
                 faults>>

CancelEnd ==
  /\ pc = "cancel"
  /\ next > N
  /\ pc' = "drain"
  /\ UNCHANGED <<store, next, fut, out, flag, results, lead, lateStarts,
                 daemonVars, faults>>

\* cf.wait(futures, timeout=15.0) returns when every future is settled or when
\* the time is up, and the sweep goes on alike: it may end at any moment.
Drain ==
  /\ pc = "drain"
  /\ pc' = "finish"
  /\ UNCHANGED <<store, next, fut, out, flag, results, lead, lateStarts,
                 daemonVars, faults>>
-----------------------------------------------------------------------------
(* run_sweep: the verdict *)

\* summarize(): the first of the results with the highest score, if finite.
SummaryBest ==
  LET first(i) == \A j \in DOMAIN results :
                     \/ out[results[j]].score < out[results[i]].score
                     \/ out[results[j]].score = out[results[i]].score /\ i <= j
      top == {results[i] : i \in {k \in DOMAIN results : first(k)}}
  IN {t \in top : out[t].score # NegInf}

Finish ==
  /\ pc = "finish"
  /\ FinishJob(IF lead = NoTask THEN "failed" ELSE "passed", lead)
  /\ pc' = "announce"
  /\ UNCHANGED <<next, fut, out, flag, results, lead, lateStarts, daemonVars,
                 faults>>

\* The job.finished event: one more store call, after the verdict.
Announce ==
  /\ pc = "announce"
  /\ pc' = "done"
  /\ UNCHANGED <<store, next, fut, out, flag, results, lead, lateStarts,
                 daemonVars, faults>>

\* except Exception: the job fails; the pool is not shut down, cancel_flag is
\* not set, and the threads go on with what is queued.
Error ==
  /\ pc = "error"
  /\ FinishJob("failed", NoTask)
  /\ pc' = "raised"
  /\ UNCHANGED <<next, fut, out, flag, results, lead, lateStarts, daemonVars,
                 faults>>

RunSweep ==
  \/ Create \/ Start \/ Dispatch \/ Submit
  \/ CollectAny \/ CollectRaised \/ CollectEnd
  \/ Signal \/ CancelFuture \/ CancelEnd \/ Drain
  \/ Finish \/ Announce \/ Error
-----------------------------------------------------------------------------
(* _run_one in a thread of the pool *)

QueueHead(t) ==
  /\ fut[t] \in Waiting
  /\ \A u \in Tasks : u < t => fut[u] \notin Waiting

\* A free thread takes the head of the work queue; a future that was
\* cancelled in the meantime is only marked.
Take(t) ==
  /\ Cardinality(Active) < MaxWorkers
  /\ QueueHead(t)
  /\ fut' = [fut EXCEPT ![t] = IF @ = "pending" THEN "checking" ELSE "notified"]
  /\ UNCHANGED <<store, pc, next, out, flag, results, lead, lateStarts,
                 daemonVars, faults>>

\* Mutant: a thread does not look at cancel_flag before it starts a seed.
MutCheck(t) ==
  /\ fut[t] = "checking"
  /\ fut' = [fut EXCEPT ![t] = "claiming"]
  /\ UNCHANGED <<store, pc, next, out, flag, results, lead, lateStarts,
                 daemonVars, faults>>

Check(t) ==
  /\ fut[t] = "checking"
  /\ ~ flag
  /\ fut' = [fut EXCEPT ![t] = "claiming"]
  /\ UNCHANGED <<store, pc, next, out, flag, results, lead, lateStarts,
                 daemonVars, faults>>

\* Mutant: the row of a seed that is not started is left alone.
MutSkipCancelled(t) ==
  /\ fut[t] = "checking"
  /\ flag
  /\ fut' = [fut EXCEPT ![t] = "done"]
  /\ UNCHANGED <<store, pc, next, out, flag, results, lead, lateStarts,
                 daemonVars, faults>>

SkipCancelled(t) ==
  /\ fut[t] = "checking"
  /\ flag
  /\ FinishTask(t, "cancelled")
  /\ fut' = [fut EXCEPT ![t] = "done"]
  /\ UNCHANGED <<pc, next, out, flag, results, lead, lateStarts, daemonVars,
                 faults>>

ClaimWon(t) ==
  /\ fut[t] = "claiming"
  /\ ClaimTask(t, Inline)
  /\ fut' = [fut EXCEPT ![t] = "starting"]
  /\ UNCHANGED <<pc, next, out, flag, results, lead, lateStarts, daemonVars,
                 faults>>

\* Mutant: the thread does not look at what claim_task returned.
MutClaimIgnored(t) ==
  /\ fut[t] = "claiming"
  /\ ClaimRefused(t)
  /\ fut' = [fut EXCEPT ![t] = "starting"]
  /\ UNCHANGED <<pc, next, out, flag, results, lead, lateStarts, daemonVars,
                 faults>>

\* The outcome "already claimed" is an ordinary failure for the collector.
ClaimLost(t) ==
  /\ fut[t] = "claiming"
  /\ ClaimRefused(t)
  /\ fut' = [fut EXCEPT ![t] = "done"]
  /\ UNCHANGED <<pc, next, out, flag, results, lead, lateStarts, daemonVars,
                 faults>>

StartBuild(t) ==
  /\ fut[t] = "starting"
  /\ StartTask(t)
  /\ fut' = [fut EXCEPT ![t] = "building"]
  /\ lateStarts' = IF flag THEN lateStarts + 1 ELSE lateStarts
  /\ UNCHANGED <<pc, next, out, flag, results, lead, daemonVars, faults>>

\* backend.run returns or raises (a failure either way).  With cancel_flag set
\* it is killed, but a process that has just exited still counts.
EndBuild(t) ==
  /\ fut[t] = "building"
  /\ \E o \in Outcome : out' = [out EXCEPT ![t] = o]
  /\ fut' = [fut EXCEPT ![t] = "done"]
  /\ UNCHANGED <<store, pc, next, flag, results, lead, lateStarts, daemonVars,
                 faults>>

RunOne(t) ==
  \/ Take(t) \/ Check(t) \/ SkipCancelled(t) \/ ClaimWon(t) \/ ClaimLost(t)
  \/ StartBuild(t) \/ EndBuild(t)
-----------------------------------------------------------------------------
(* super-q-worker daemon: one task at a time, whatever --slots says *)

Poll(d) ==
  /\ dpc[d] = "poll"
  /\ \E t \in NextQueued : dtask' = [dtask EXCEPT ![d] = t]
  /\ dpc' = [dpc EXCEPT ![d] = "claim"]
  /\ UNCHANGED <<store, sweepVars, faults>>

DaemonWon(d) ==
  /\ dpc[d] = "claim"
  /\ ClaimTask(dtask[d], d)
  /\ dpc' = [dpc EXCEPT ![d] = "spec"]
  /\ UNCHANGED <<sweepVars, dtask, faults>>

DaemonLost(d) ==
  /\ dpc[d] = "claim"
  /\ ClaimRefused(dtask[d])
  /\ dpc' = [dpc EXCEPT ![d] = "poll"]
  /\ UNCHANGED <<sweepVars, dtask, faults>>

\* The core is detected again from the job's spec_json; the status of the job
\* is not looked at.
Materialise(d) ==
  /\ dpc[d] = "spec"
  /\ dpc' = [dpc EXCEPT ![d] = "build"]
  /\ UNCHANGED <<store, sweepVars, dtask, faults>>

BadCore(d) ==
  /\ dpc[d] = "spec"
  /\ FinishTask(dtask[d], "failed")
  /\ dpc' = [dpc EXCEPT ![d] = "poll"]
  /\ UNCHANGED <<sweepVars, dtask, faults>>

\* No start_task: the row stays `claimed` while the daemon builds.
DaemonBuild(d) ==
  /\ dpc[d] = "build"
  /\ \E status \in {"passed", "failed"} : FinishTask(dtask[d], status)
  /\ dpc' = [dpc EXCEPT ![d] = "poll"]
  /\ UNCHANGED <<sweepVars, dtask, faults>>

\* A signal or --idle-quit ends the loop at its head only.
Quit(d) ==
  /\ dpc[d] = "poll"
  /\ dpc' = [dpc EXCEPT ![d] = "gone"]
  /\ UNCHANGED <<store, sweepVars, dtask, faults>>

WorkOn(d) ==
  \/ DaemonWon(d) \/ DaemonLost(d)
  \/ Materialise(d) \/ BadCore(d) \/ DaemonBuild(d)
-----------------------------------------------------------------------------
(* The user, and what goes wrong *)

Cancel ==
  /\ MayCancel
  /\ job # "absent"
  /\ CancelJob
  /\ UNCHANGED <<sweepVars, daemonVars, faults>>

Fault ==
  /\ faults < MaxFaults
  /\ faults' = faults + 1

\* A store call of run_sweep raises (the database stays locked for 30 s).
\* Before the try block, and in the handler itself, nothing records it.
StoreFault ==
  /\ Fault
  /\ \/ pc \in {"created", "error"} /\ pc' = "raised"
     \/ pc \in {"dispatch", "finish", "announce"} /\ pc' = "error"
     \/ /\ pc = "collect"
        /\ \E t \in Tasks \ Recorded : fut[t] = "done"
        /\ pc' = "error"
  /\ UNCHANGED <<store, next, fut, out, flag, results, lead, lateStarts,
                 daemonVars>>

\* A store call of _run_one raises: the future keeps the exception.
ThreadFault(t) ==
  /\ Fault
  /\ fut[t] \in Stages
  /\ fut[t] = "checking" => flag
  /\ fut' = [fut EXCEPT ![t] = "raised"]
  /\ UNCHANGED <<store, pc, next, out, flag, results, lead, lateStarts,
                 daemonVars>>

\* The scheduler's process dies; only its rows are left.
Crash ==
  /\ Fault
  /\ pc \notin {"init", "dead"}
  /\ pc' = "dead"
  /\ fut' = [t \in Tasks |-> "lost"]
  /\ UNCHANGED <<store, next, out, flag, results, lead, lateStarts, daemonVars>>

DaemonDies(d) ==
  /\ Fault
  /\ dpc[d] # "gone"
  /\ dpc' = [dpc EXCEPT ![d] = "gone"]
  /\ UNCHANGED <<store, sweepVars, dtask>>

\* Nothing is left to do; the step keeps it from counting as a deadlock.
Over ==
  /\ pc \in {"done", "raised", "dead"}
  /\ \A t \in Tasks : fut[t] \notin Waiting \cup Stages
  /\ \A d \in Daemons : dpc[d] \in {"poll", "gone"}
  /\ UNCHANGED vars

Next ==
  \/ RunSweep
  \/ \E t \in Tasks : RunOne(t) \/ ThreadFault(t)
  \/ \E d \in Daemons : Poll(d) \/ WorkOn(d) \/ Quit(d) \/ DaemonDies(d)
  \/ Cancel
  \/ StoreFault
  \/ Crash
  \/ Over

Spec == Init /\ [][Next]_vars

\* Threads are scheduled, Quartus runs end (timeout_s kills them), and a
\* daemon that holds a row goes on with it.  Nobody has to start or to stop a
\* daemon, to cancel, or to fail.
Fairness ==
  /\ WF_vars(RunSweep)
  /\ \A t \in Tasks : WF_vars(RunOne(t))
  /\ \A d \in Daemons : WF_vars(WorkOn(d))

FairSpec == Spec /\ Fairness
-----------------------------------------------------------------------------
(* Properties *)

\* Who is between its claim of a row and the end of its build.
Builders(t) ==
  {w \in Owners : \/ w = Inline /\ fut[t] \in {"starting", "building"}
                  \/ w \in Daemons /\ dtask[w] = t /\ dpc[w] \in {"spec", "build"}}

\* A seed is built by the worker whose id is in its row and by nobody else,
\* whatever the scheduler's threads, several daemons and cancellations do to
\* the row meanwhile: all of them write the same work directory.
OneBuilder == \A t \in Tasks : Builders(t) \subseteq {holder[t]}

\* Seen as claims on seeds, a sweep with its daemons, cancellations, faults and
\* crashes is WorkClaims: a seed is claimed once, its owner alone builds it,
\* and a build that ended for whatever reason is never begun again.
Work == INSTANCE WorkClaims WITH
          Seeds <- Tasks, Workers <- Owners,
          owner <- holder, busy <- [t \in Tasks |-> Builders(t) # {}]

ClaimsSpec == Work!Spec

\* Once the collector has stored the outcome of a seed built inline, the row
\* says what the build said, however late a cancellation comes and whatever
\* daemons write to other rows.
RecordedRowHolds ==
  \A t \in Recorded :
    holder[t] = Inline => row[t] = IF out[t].ok THEN "passed" ELSE "failed"

\* The job passes exactly if a collected seed passed, and its best_seed is a
\* passed seed that no collected seed outscores, in every order of arrival.
VerdictSound ==
  pc \in {"announce", "done"} =>
    IF PassedTasks = {}
    THEN job = "failed" /\ best = NoTask
    ELSE /\ job = "passed"
         /\ best \in PassedTasks
         /\ \A t \in PassedTasks : out[t].score <= out[best].score

\* The best seed of the summary printed to the user is the one of the job row,
\* ties included, unless the passes carry no timing: then the summary names
\* none although the job row does.
SummaryAgrees ==
  pc = "done" => SummaryBest = IF lead = NoTask \/ out[lead].score = NegInf
                               THEN {} ELSE {lead}

\* The seeds whose thread is through with them and whose row is still open.
LeftOpen == {t \in Tasks : fut[t] \in Settled /\ row[t] \notin ClosedTask}

\* What a sweep may leave open in the database.  A seed it has recorded never is,
\* and a sweep that collected all of its seeds leaves nothing.  After an early
\* exit or an error a row is open for one of three reasons: a worker daemon took
\* it; a thread of the pool built it and nobody recorded the outcome, which came
\* while the pool was drained (the straggler's row stays `running`); or its
\* future was cancelled in the queue, or failed before the claim, and the row is
\* up for any daemon.
LeftOpenExplained ==
  /\ \A t \in LeftOpen :
       /\ t \notin Recorded
       /\ \/ holder[t] \in Daemons
          \/ holder[t] = Inline /\ fut[t] \in {"done", "raised"}
          \/ holder[t] = Nobody /\ fut[t] \in {"notified", "raised"}
  /\ pc \in {"finish", "announce", "done"} /\ ~ flag => LeftOpen = {}

\* After the first pass, the pool starts at most one more build per thread.
FewLateStarts == lateStarts <= MaxWorkers

\* A verdict `passed` is final: no cancellation or late worker undoes it.
VerdictStays == [][job = "passed" => job' = "passed"]_vars

\* Every sweep returns, raises or dies with its process; and if a build of the pool
\* passes, the job ends as passed.
SweepEnds ==
  /\ <>(pc \in {"done", "raised", "dead"})
  /\ \A t \in Tasks : fut[t] = "done" /\ out[t].ok ~> job = "passed"

\* With no early exit, every row of the plan gets a final status.
RowsSettle == <>[](\A t \in Tasks : row[t] \in ClosedTask)

(* The inductive invariant behind them *)

\* A row nobody can have claimed yet has no owner.
FreeRows == \A t \in Tasks : row[t] \in {"absent", "queued"} => holder[t] = Nobody

\* Rows and futures are created in the order of the plan.
RowsAhead ==
  /\ pc \in {"init", "created"} => next = 1
  /\ pc \in {"dispatch", "submit"} =>
       next <= N /\ \A t \in Tasks : t >= next => fut[t] = "absent"
  /\ pc \in {"init", "created"} => \A t \in Tasks : fut[t] = "absent"
  /\ pc \in {"init", "created", "dispatch"} =>
       \A t \in Tasks : t >= next => row[t] = "absent"
  /\ pc = "submit" => \A t \in Tasks : t > next => row[t] = "absent"

\* Whoever works on a row owns it.
OwnersWork ==
  /\ \A t \in Tasks : fut[t] \in {"starting", "building"} => holder[t] = Inline
  /\ \A d \in Daemons : dpc[d] \in {"claim", "spec", "build"} => dtask[d] \in Tasks
  /\ \A d \in Daemons : dpc[d] \in {"spec", "build"} => holder[dtask[d]] = d

\* Whoever waits for a row or works on it works on a row that was created.
RowsExist ==
  /\ pc = "submit" => row[next] # "absent"
  /\ \A t \in Tasks : fut[t] \in Waiting \cup Stages => row[t] # "absent"
  /\ \A d \in Daemons :
       dpc[d] \in {"claim", "spec", "build"} => row[dtask[d]] # "absent"

ClaimInv == SweepTypeOK /\ FreeRows /\ RowsAhead /\ RowsExist /\ OwnersWork

\* A collected future is finished and its outcome does not change any more.
RecordedSettled == \A t \in Recorded : fut[t] \in {"done", "lost"}

\* `best` is right after every outcome.
LeadInv ==
  IF PassedTasks = {} THEN lead = NoTask
  ELSE /\ lead \in PassedTasks
       /\ \A t \in PassedTasks : out[t].score <= out[lead].score

\* `best` is the first of the best passes that arrived.
LeadFirst ==
  IF lead = NoTask THEN \A j \in DOMAIN results : ~ out[results[j]].ok
  ELSE \E i \in DOMAIN results :
         /\ results[i] = lead /\ out[lead].ok
         /\ \A j \in DOMAIN results : out[results[j]].ok =>
              \/ out[results[j]].score < out[lead].score
              \/ out[results[j]].score = out[lead].score /\ i <= j

\* The job row repeats the scheduler's `best` once the verdict is written.
VerdictInv ==
  pc \in {"announce", "done"} =>
    /\ job = IF lead = NoTask THEN "failed" ELSE "passed"
    /\ best = lead

\* A recorded row is closed for good, and a sweep ends without an early exit
\* only when all of its seeds are recorded.
RecordedClosed ==
  /\ \A t \in Recorded : row[t] \in ClosedTask
  /\ pc \in {"cancel", "drain"} => flag
  /\ pc \in {"finish", "announce", "done"} /\ ~ flag => Recorded = Tasks

\* Whose the open rows are: a claim leaves a name in the row, the pool's own only
\* once it has won it, and a future that is done has seen its row claimed or closed.
OpenOwned ==
  \A t \in Tasks :
    /\ row[t] \in {"claimed", "running"} => holder[t] # Nobody
    /\ fut[t] \in {"absent", "checking", "claiming", "notified"} \cup Waiting => holder[t] # Inline
    /\ fut[t] = "done" /\ holder[t] = Nobody => row[t] \in ClosedTask

LeftInv == RecordedClosed /\ OpenOwned

\* Without faults no exception is under way, and a job passes only by its
\* verdict.
FaultFree ==
  /\ faults = 0
  /\ \A t \in Tasks : fut[t] # "raised"
  /\ pc \notin {"error", "raised", "dead"}
  /\ job = "passed" => pc \in {"announce", "done"}

\* The seeds a thread will still start, having passed its look at cancel_flag.
Coming == {t \in Tasks : fut[t] \in {"claiming", "starting"}}

\* Every late start uses up one of the threads that were past that look when
\* the flag was set.
LateInv ==
  /\ Cardinality(Active) <= MaxWorkers
  /\ ~ flag => lateStarts = 0
  /\ flag => lateStarts + Cardinality(Coming) <= MaxWorkers

SweepInv == ClaimInv /\ RecordedSettled /\ RecordedRowHolds /\ LeadInv /\ VerdictInv

(* What the repository says and the code does not do *)

\* "Cancel a running job.": a cancelled job stays cancelled.
CancelHonoured == [][job = "cancelled" => job' = "cancelled"]_vars
=============================================================================

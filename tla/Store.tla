------------------------------- MODULE Store -------------------------------
(***************************************************************************)
(* The rows of super-q's SQLite state (db.py) for one job: the job row and *)
(* one task row per position of the seed plan.  Every statement of Store   *)
(* runs in one BEGIN IMMEDIATE transaction under the handle's lock         *)
(* (db.py:123-139), so each operator below is one atomic change, and the   *)
(* modules that EXTEND this one decide who calls it and in which order.    *)
(*                                                                         *)
(* Left out: time stamps, the copied timing and path columns, and the      *)
(* append-only event log, which no decision of the code reads.             *)
(***************************************************************************)
EXTENDS Naturals, Sequences, FiniteSets

CONSTANTS
  N,        \* the number of seeds in the plan, one task row for each
  Daemons,  \* the ids of the `super-q-worker daemon` processes
  Inline,   \* the owner written by the scheduler's own threads
  Nobody,   \* worker_id IS NULL
  NoTask    \* best_seed IS NULL

ASSUME StoreAssumption ==
  /\ N \in Nat
  /\ Inline \notin Daemons
  /\ Nobody \notin Daemons \cup {Inline}
  /\ NoTask \notin 1..N

Tasks  == 1..N
Owners == Daemons \cup {Inline}

JobStatus  == {"absent", "queued", "running", "passed", "failed", "cancelled"}
TaskStatus == {"absent", "queued", "claimed", "running",
               "passed", "failed", "cancelled"}

\* The statuses cancel_job still touches, and the ones it leaves alone.
OpenTask   == {"queued", "claimed", "running"}
OpenJob    == {"queued", "running"}
ClosedTask == {"passed", "failed", "cancelled"}

VARIABLES
  job,      \* jobs.status
  best,     \* jobs.best_seed
  row,      \* tasks.status
  holder    \* tasks.worker_id

store == <<job, best, row, holder>>

StoreTypeOK ==
  /\ job \in JobStatus
  /\ best \in Tasks \cup {NoTask}
  /\ row \in [Tasks -> TaskStatus]
  /\ holder \in [Tasks -> Owners \cup {Nobody}]

StoreInit ==
  /\ job = "absent"
  /\ best = NoTask
  /\ row = [t \in Tasks |-> "absent"]
  /\ holder = [t \in Tasks |-> Nobody]
-----------------------------------------------------------------------------
(* jobs *)

CreateJob ==
  /\ job' = "queued"
  /\ UNCHANGED <<best, row, holder>>

\* WHERE status='queued': a job cancelled before its sweep starts stays so.
StartJob ==
  /\ job' = IF job = "queued" THEN "running" ELSE job
  /\ UNCHANGED <<best, row, holder>>

\* No guard on the previous status, and best_seed is always overwritten: the
\* call that reports an exception passes none and so clears it.
FinishJob(status, winner) ==
  /\ job' = status
  /\ best' = winner
  /\ UNCHANGED <<row, holder>>

\* Mutant: the job is cancelled whatever its status.
MutCancelAnyJob ==
  /\ row' = [t \in Tasks |-> IF row[t] \in OpenTask THEN "cancelled" ELSE row[t]]
  /\ job' = "cancelled"
  /\ UNCHANGED <<best, holder>>

\* Mutant: the task update has no status filter.
MutCancelAnyTask ==
  /\ row' = [t \in Tasks |-> IF row[t] # "absent" THEN "cancelled" ELSE row[t]]
  /\ job' = IF job \in OpenJob THEN "cancelled" ELSE job
  /\ UNCHANGED <<best, holder>>

\* One transaction over the tasks and the job; closed rows are left alone.
CancelJob ==
  /\ row' = [t \in Tasks |-> IF row[t] \in OpenTask THEN "cancelled" ELSE row[t]]
  /\ job' = IF job \in OpenJob THEN "cancelled" ELSE job
  /\ UNCHANGED <<best, holder>>
-----------------------------------------------------------------------------
(* tasks *)

CreateTask(t) ==
  /\ row' = [row EXCEPT ![t] = "queued"]
  /\ UNCHANGED <<job, best, holder>>

\* Mutant: the claim has no status filter.
MutClaimTask(t, w) ==
  /\ row[t] # "absent"
  /\ row' = [row EXCEPT ![t] = "claimed"]
  /\ holder' = [holder EXCEPT ![t] = w]
  /\ UNCHANGED <<job, best>>

\* UPDATE ... WHERE status='queued' with rowcount 1 ...
ClaimTask(t, w) ==
  /\ row[t] = "queued"
  /\ row' = [row EXCEPT ![t] = "claimed"]
  /\ holder' = [holder EXCEPT ![t] = w]
  /\ UNCHANGED <<job, best>>

\* ... and with rowcount 0: the caller is told it did not get the task.
ClaimRefused(t) ==
  /\ row[t] # "queued"
  /\ UNCHANGED store

StartTask(t) ==
  /\ row' = [row EXCEPT ![t] = "running"]
  /\ UNCHANGED <<job, best, holder>>

\* Mutant: only a row that start_task touched can be finished.
MutFinishTask(t, status) ==
  /\ row' = [row EXCEPT ![t] = IF @ = "running" THEN status ELSE @]
  /\ UNCHANGED <<job, best, holder>>

\* No guard on the previous status; worker_id keeps its value.
FinishTask(t, status) ==
  /\ row' = [row EXCEPT ![t] = status]
  /\ UNCHANGED <<job, best, holder>>

\* What next_queued_task may return.  Its order is that of random ids, and it
\* does not look at the status of the job the row belongs to.
NextQueued == {t \in Tasks : row[t] = "queued"}
=============================================================================

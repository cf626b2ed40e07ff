---------------------------- MODULE MCRemotePools ---------------------------
(***************************************************************************)
(* Instances of the backends that run elsewhere, for TLC.  The backend     *)
(* chosen first is the only one that acts, so their states add up; the      *)
(* guards keep the initial choices of one from multiplying the others.      *)
(***************************************************************************)
EXTENDS SshPool, GhaDispatch, CloudRun

MCInit == pool = "asked" /\ SshInit /\ GhaInit /\ CloudInit

Resolve == resolve_backend /\ UNCHANGED <<sshVars, ghaVars, cloudVars>>

MCNext ==
  \/ Resolve
  \/ titled /\ ~littered /\ urls /\ SshNext /\ UNCHANGED <<pool, ghaVars, cloudVars>>
  \/ urls /\ GhaNext /\ UNCHANGED <<pool, sshVars, cloudVars>>
  \/ titled /\ ~littered /\ CloudNext /\ UNCHANGED <<pool, sshVars, ghaVars>>

MCSpec == MCInit /\ [][MCNext]_<<pool, sshVars, ghaVars, cloudVars>>

MCFairSpec == MCSpec /\ SshFairness /\ GhaFairness /\ CloudFairness

\* Seeds that are found in their own names only.
Same == {<<t, t>> : t \in Seeds}

-----------------------------------------------------------------------------
\* The state of every backend has its type.
RemoteTypeOK == SshTypeOK /\ GhaTypeOK /\ CloudTypeOK

\* Every backend keeps what the scheduler relies on (backends/base.py): slots are lent
\* once and come back on every error path, and ok is said only of a seed whose own run
\* succeeded and whose bitstream came with that run, whatever uploads fail, runs are
\* mixed up or machines are taken back.  On GitHub the bitstream is the one that run
\* made unless the core was sent with an older one.
PoolsAreBackends == SshPromise!Spec /\ GhaPromise!Spec /\ CloudPromise!Spec

\* A task that got as far as its backend comes back, whatever the worker, GitHub or the
\* machine does, for every wait of it has a limit; all but the copies to and from a host,
\* which keep it, and those that wait for its slot, for as long as they hang.
TasksReturn == SshTasksReturn /\ GhaTasksReturn /\ CloudReturns
=============================================================================

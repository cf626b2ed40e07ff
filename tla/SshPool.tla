------------------------------- MODULE SshPool ------------------------------
(***************************************************************************)
(* The SSH backend (src/super_q/backends/ssh.py): hosts with slots.        *)
(*                                                                         *)
(* A task picks a host from the semaphores' counters under a lock, and     *)
(* takes the semaphore of that host when it has let the lock go.  On the   *)
(* host it copies the core into a directory, runs the worker there until   *)
(* it ends or the client gives up, copies the directory back and removes   *)
(* it.  What runs on the host does not notice that the client is gone.     *)
(***************************************************************************)
EXTENDS Pools

CONSTANTS
  Tasks,       \* the tasks of the sweep
  NHosts,      \* the hosts of the pool, in the order of the configuration
  HostSlots    \* slots of each of them

ASSUME SshAssumption == IsFiniteSet(Tasks) /\ NHosts \in Nat \ {0} /\ HostSlots \in Nat \ {0}

VARIABLES
  rr,       \* _round_robin
  free,     \* the counter of each host's semaphore
  sAt,      \* where each task is
  on,       \* the host a task has picked
  remote,   \* the worker on that host: none, running, or how it ended
  back,     \* tasks whose files have come back
  sRc,      \* what the ssh client returned
  sOut      \* what run() returned

sshVars == <<rr, free, sAt, on, remote, back, sRc, sOut>>

SshHosts == 0..(NHosts - 1)

Ends == {"passed", "failed"}

InSlot == {"push", "ssh", "wait", "pull", "clean"}

SshTypeOK ==
  /\ rr \in 0..(NHosts + Cardinality(Tasks))
  /\ free \in [SshHosts -> 0..HostSlots]
  /\ sAt \in [Tasks -> {"call", "blocked", "done", "raised"} \cup InSlot]
  /\ on \in [Tasks -> SshHosts \cup {None}]
  /\ remote \in [Tasks -> {"none", "running"} \cup Ends]
  /\ back \subseteq Tasks
  /\ sRc \in [Tasks -> {"none", "ok", "bad", "raise"}]
  /\ sOut \in [Tasks -> {"none", "ok", "bad"}]

SshInit ==
  /\ rr = 0
  /\ free = [h \in SshHosts |-> HostSlots]
  /\ sAt = [t \in Tasks |-> "call"]
  /\ on = [t \in Tasks |-> None]
  /\ remote = [t \in Tasks |-> "none"]
  /\ back = {}
  /\ sRc = [t \in Tasks |-> "none"]
  /\ sOut = [t \in Tasks |-> "none"]

SshGoto(t, from, to) == sAt[t] = from /\ sAt' = [sAt EXCEPT ![t] = to]

-----------------------------------------------------------------------------
\* The first host from the rotation on whose counter is positive; when all are
\* busy the next one in the rotation, which then counts on without a modulus.
Idle == {i \in SshHosts : free[(rr + i) % NHosts] > 0}

_pick_host(t) ==
  /\ pool = "ssh"
  /\ SshGoto(t, "call", "blocked")
  /\ IF Idle = {}
       THEN on' = [on EXCEPT ![t] = rr % NHosts] /\ rr' = rr + 1
       ELSE \E i \in Idle :
              /\ \A j \in Idle : i <= j
              /\ on' = [on EXCEPT ![t] = (rr + i) % NHosts]
              /\ rr' = (rr + i + 1) % NHosts
  /\ UNCHANGED <<free, remote, back, sRc, sOut>>

MutEnter(t) ==
  /\ SshGoto(t, "blocked", "push")
  /\ free' = [free EXCEPT ![on[t]] = IF @ > 0 THEN @ - 1 ELSE @]
  /\ UNCHANGED <<rr, on, remote, back, sRc, sOut>>

Enter(t) ==
  /\ SshGoto(t, "blocked", "push")
  /\ free[on[t]] > 0
  /\ free' = [free EXCEPT ![on[t]] = @ - 1]
  /\ UNCHANGED <<rr, on, remote, back, sRc, sOut>>

\* rsync ends with 0; or it does not, which raises through the clean-up.
_rsync_to(t) ==
  /\ SshGoto(t, "push", "ssh")
  /\ UNCHANGED <<rr, free, on, remote, back, sRc, sOut>>

MutReleases(t) ==
  /\ SshGoto(t, "push", "clean")
  /\ sRc' = [sRc EXCEPT ![t] = "raise"]
  /\ free' = [free EXCEPT ![on[t]] = @ + 1]
  /\ UNCHANGED <<rr, on, remote, back, sOut>>

PushFails(t) ==
  /\ SshGoto(t, "push", "clean")
  /\ sRc' = [sRc EXCEPT ![t] = "raise"]
  /\ UNCHANGED <<rr, free, on, remote, back, sOut>>

_ssh_run(t) ==
  /\ SshGoto(t, "ssh", "wait")
  /\ remote' = [remote EXCEPT ![t] = "running"]
  /\ UNCHANGED <<rr, free, on, back, sRc, sOut>>

\* The worker on the host: 0 for a seed that passed.
WorkerEnds(t) ==
  /\ remote[t] = "running"
  /\ \E end \in Ends : remote' = [remote EXCEPT ![t] = end]
  /\ UNCHANGED <<rr, free, sAt, on, back, sRc, sOut>>

SshReturns(t) ==
  /\ SshGoto(t, "wait", "pull")
  /\ remote[t] \in Ends
  /\ sRc' = [sRc EXCEPT ![t] = IF remote[t] = "passed" THEN "ok" ELSE "bad"]
  /\ UNCHANGED <<rr, free, on, remote, back, sOut>>

\* The deadline (124) or a lost connection (255): only the client ends.
SshGivesUp(t) ==
  /\ SshGoto(t, "wait", "pull")
  /\ sRc' = [sRc EXCEPT ![t] = "bad"]
  /\ UNCHANGED <<rr, free, on, remote, back, sOut>>

\* Both copies back are unchecked.
_rsync_back(t) ==
  /\ SshGoto(t, "pull", "clean")
  /\ back' \in {back, back \cup {t}}
  /\ UNCHANGED <<rr, free, on, remote, sRc, sOut>>

-----------------------------------------------------------------------------
(* Where the files are.  The worker builds in out/<root>, its root being    *)
(* the remote directory; that directory comes back twice.                   *)

OutputsOnHost == <<"out", "remote dir", "output_files">>

OutputsHere == {OutputsOnHost, <<"remote dir">> \o OutputsOnHost}

LookedFor == <<"core", "output_files">>

Found(t) == t \in back /\ LookedFor \in OutputsHere

Reports(t, rc) == IF rc = "ok" /\ Found(t) THEN "ok" ELSE "bad"

\* The finally clause, best effort, and what follows it.
Clean(t) ==
  /\ SshGoto(t, "clean", IF sRc[t] = "raise" THEN "raised" ELSE "done")
  /\ free' = [free EXCEPT ![on[t]] = @ + 1]
  /\ sOut' = [sOut EXCEPT ![t] = IF sRc[t] = "raise" THEN "none" ELSE Reports(t, sRc[t])]
  /\ UNCHANGED <<rr, on, remote, back, sRc>>

SshThread(t) ==
  \/ _pick_host(t) \/ Enter(t) \/ _ssh_run(t) \/ SshReturns(t) \/ Clean(t)

Rsync(t) == _rsync_to(t) \/ PushFails(t) \/ _rsync_back(t)

SshNext == \E t \in Tasks : SshThread(t) \/ Rsync(t) \/ WorkerEnds(t) \/ SshGivesUp(t)

\* A thread goes on when it can, and the deadline of ssh comes.  Nothing makes rsync
\* end: it is run without a limit.
SshFairness ==
  \A t \in Tasks : WF_sshVars(SshThread(t)) /\ WF_sshVars(SshGivesUp(t))

-----------------------------------------------------------------------------
\* However stale the counter a host was picked by, the tasks at work on it never
\* outnumber its slots, and no error path loses or invents one.
HostSlotsHold ==
  \A h \in SshHosts :
    free[h] + Cardinality({t \in Tasks : on[t] = h /\ sAt[t] \in InSlot}) = HostSlots

\* The pool as a backend: a seed is fit when its files came back from a worker that
\* passed.  A copy that failed unnoticed does not make a pass.
SshCall ==
  [t \in Tasks |-> CASE sAt[t] \in {"call", "blocked"} -> "asked"
                     [] sAt[t] \in InSlot -> "inside"
                     [] sAt[t] = "done" -> sOut[t]
                     [] OTHER -> "raised"]

SumTo(f, n) == LET sum[i \in 0..n] == IF i = 0 THEN 0 ELSE sum[i - 1] + f[i - 1]
               IN  sum

SshFree == SumTo(free, NHosts)[NHosts]

SshFit == {t \in back : remote[t] = "passed"}

SshPromise == INSTANCE Backend WITH
  Jobs <- Tasks, call <- SshCall, free <- SshFree, fit <- SshFit

\* A task that has picked a host comes back whatever its worker does, unless copies hang
\* for ever on that host: its own, or as many as the host has slots.
SshTasksReturn ==
  \A t \in Tasks :
    \/ (sAt[t] = "blocked") ~> (sAt[t] \in {"done", "raised"})
    \/ \E hung \in SUBSET Tasks :
         /\ t \in hung \/ Cardinality(hung) = HostSlots
         /\ <>[](\A u \in hung : on[u] = on[t] /\ sAt[u] \in {"push", "pull"})
=============================================================================

------------------------------ MODULE CloudRun ------------------------------
(***************************************************************************)
(* The backends that start a machine for a seed: Fly, AWS, Modal and       *)
(* Docker (src/super_q/backends/{fly,aws,modal,docker}.py), with what runs *)
(* on that machine (worker.py one-shot, modal_app.py, the init scripts).   *)
(*                                                                         *)
(* Fly and AWS machines answer through a bucket, one object at a time and  *)
(* each in its own order, and the client polls for one object and then     *)
(* takes the other.  A Modal function and a Docker container answer with   *)
(* all they have when they end.                                            *)
(***************************************************************************)
EXTENDS Pools

CONSTANTS
  Runs,        \* the tasks
  CloudSlots   \* max_parallel of the pool

ASSUME CloudAssumption == IsFiniteSet(Runs) /\ CloudSlots \in Nat \ {0}

VARIABLES
  urls,      \* Fly: something sets the two URLs that its script uploads to
  cFree,     \* the semaphore, which AWS has not
  cAt,       \* where each task is
  machine,   \* its machine: none, build, upload, gone, or idle (up for nothing)
  made,      \* what the build made
  todo,      \* what the machine has yet to upload
  store,     \* the objects in the bucket
  local,     \* tasks with a reversed bitstream in their directory
  cOut       \* what run() returned

cloudVars == <<urls, cFree, cAt, machine, made, todo, store, local, cOut>>

Clouds == {"fly", "aws", "modal", "docker"}

Bucket == {"fly", "aws"}

InCloud == {"ship", "create", "poll", "fetch"}

\* No result at all; no bitstream; one, but Quartus failed; one that misses timing;
\* one that meets it.
Made == {"crash", "nobit", "broken", "missed", "passed"}

WithBit == {"broken", "missed", "passed"}

Objects == {"result", "bitstream"}

CloudTypeOK ==
  /\ urls \in BOOLEAN
  /\ cFree \in 0..CloudSlots
  /\ cAt \in [Runs -> {"call", "done", "raised"} \cup InCloud]
  /\ machine \in [Runs -> {"none", "build", "upload", "idle", "gone"}]
  /\ made \in [Runs -> {"none"} \cup Made]
  /\ todo \in [Runs -> UNION {[1..n -> Objects] : n \in 0..2}]
  /\ store \in [Runs -> SUBSET Objects]
  /\ local \subseteq Runs
  /\ cOut \in [Runs -> {"none", "ok", "bad"}]

CloudInit ==
  /\ urls \in BOOLEAN
  /\ cFree = CloudSlots
  /\ cAt = [t \in Runs |-> "call"]
  /\ machine = [t \in Runs |-> "none"]
  /\ made = [t \in Runs |-> "none"]
  /\ todo = [t \in Runs |-> <<>>]
  /\ store = [t \in Runs |-> {}]
  /\ local = {}
  /\ cOut = [t \in Runs |-> "none"]

-----------------------------------------------------------------------------
CloudGoto(t, from, to) == cAt[t] = from /\ cAt' = [cAt EXCEPT ![t] = to]

\* AWS starts as many machines as it is asked to.
Freed == IF pool = "aws" THEN cFree ELSE cFree + 1

CloudLeave(t, from, to) == CloudGoto(t, from, to) /\ cFree' = Freed

CloudEnter(t) ==
  /\ pool \in Clouds
  /\ pool # "aws" => cFree > 0
  /\ CloudGoto(t, "call", "ship")
  /\ cFree' = IF pool = "aws" THEN cFree ELSE cFree - 1
  /\ UNCHANGED <<urls, machine, made, todo, store, local, cOut>>

\* The core as a tar: into the bucket, or along with the call; Docker mounts it.
_upload_sandbox(t) ==
  /\ CloudGoto(t, "ship", "create")
  /\ UNCHANGED <<urls, cFree, machine, made, todo, store, local, cOut>>

_launch(t) ==
  /\ CloudGoto(t, "create", "poll")
  /\ machine' = [machine EXCEPT ![t] = "build"]
  /\ UNCHANGED <<urls, cFree, made, todo, store, local, cOut>>

\* Fly reports a refused machine and Modal a call that failed, as a bad seed.
LaunchRefused(t) ==
  /\ pool \in {"fly", "modal"}
  /\ CloudLeave(t, "create", "done")
  /\ cOut' = [cOut EXCEPT ![t] = "bad"]
  /\ UNCHANGED <<urls, machine, made, todo, store, local>>

\* Other errors are not caught: the network's, boto's, Docker's deadline, those of reading
\* or keeping what has come.  Modal's call is guarded, the unpacking of its answer is not.
CloudRaises(t) ==
  /\ \E stage \in InCloud : CloudLeave(t, stage, "raised")
  /\ pool = "modal" /\ cAt[t] = "poll" => machine[t] = "gone" /\ made[t] # "crash"
  /\ UNCHANGED <<urls, machine, made, todo, store, local, cOut>>

-----------------------------------------------------------------------------
(* On the machine.                                                          *)

\* Fly removes a machine that is done.  On AWS the script asks for the shutdown
\* in its last line, and stops before it when a command fails.
Done(t, well) ==
  machine' = [machine EXCEPT ![t] = IF pool = "aws" /\ ~well THEN "idle" ELSE "gone"]

\* What a build leads to in the bucket, in order.  Without a bitstream AWS gets
\* nothing; on Fly the script stops when the URLs are not set.
ToUpload(end) ==
  CASE pool = "aws" /\ end \in WithBit -> <<"bitstream", "result">>
    [] pool = "fly" /\ urls /\ end \in WithBit -> <<"result", "bitstream">>
    [] pool = "fly" /\ urls /\ end = "nobit" -> <<"result">>
    [] OTHER -> <<>>

MachineBuilds(t) ==
  /\ machine[t] = "build"
  /\ \E end \in Made :
       /\ made' = [made EXCEPT ![t] = end]
       /\ todo' = [todo EXCEPT ![t] = ToUpload(end)]
       /\ IF ToUpload(end) = <<>>
            THEN Done(t, FALSE)
            ELSE machine' = [machine EXCEPT ![t] = "upload"]
  /\ UNCHANGED <<urls, cFree, cAt, store, local, cOut>>

Upload(t) ==
  /\ machine[t] = "upload"
  /\ store' = [store EXCEPT ![t] = @ \cup {Head(todo[t])}]
  /\ todo' = [todo EXCEPT ![t] = Tail(@)]
  /\ IF Tail(todo[t]) = <<>> THEN Done(t, made[t] = "passed") ELSE UNCHANGED machine
  /\ UNCHANGED <<urls, cFree, cAt, made, local, cOut>>

UploadFails(t) ==
  /\ machine[t] = "upload"
  /\ todo' = [todo EXCEPT ![t] = <<>>]
  /\ Done(t, FALSE)
  /\ UNCHANGED <<urls, cFree, cAt, made, store, local, cOut>>

\* A spot instance is taken back, a container is killed, a function times out.
Interrupted(t) ==
  /\ machine[t] \in {"build", "upload"}
  /\ machine' = [machine EXCEPT ![t] = "gone"]
  /\ made' = [made EXCEPT ![t] = IF @ = "none" THEN "crash" ELSE @]
  /\ todo' = [todo EXCEPT ![t] = <<>>]
  /\ UNCHANGED <<urls, cFree, cAt, store, local, cOut>>

-----------------------------------------------------------------------------
\* result.json is there: the bitstream is next.
_poll_object(t) ==
  /\ pool \in Bucket /\ "result" \in store[t]
  /\ CloudGoto(t, "poll", "fetch")
  /\ UNCHANGED <<urls, cFree, machine, made, todo, store, local, cOut>>

MutPollTimesOut(t) ==
  /\ pool \in Bucket /\ machine[t] = "gone"
  /\ CloudLeave(t, "poll", "done")
  /\ cOut' = [cOut EXCEPT ![t] = "bad"]
  /\ UNCHANGED <<urls, machine, made, todo, store, local>>

PollTimesOut(t) ==
  /\ pool \in Bucket
  /\ CloudLeave(t, "poll", "done")
  /\ cOut' = [cOut EXCEPT ![t] = "bad"]
  /\ UNCHANGED <<urls, machine, made, todo, store, local>>

\* What run() calls ok: AWS the worker's word alone, Modal a run that ended well
\* with a bitstream, the others both.
Accepts(end, here) ==
  CASE pool = "aws" -> end = "passed"
    [] pool = "modal" -> end \in {"missed", "passed"} /\ here
    [] OTHER -> end = "passed" /\ here

Report(t, here) ==
  /\ local' = IF here THEN local \cup {t} ELSE local
  /\ cOut' = [cOut EXCEPT ![t] = IF Accepts(made[t], here) THEN "ok" ELSE "bad"]

\* A bitstream that is not there yet, or cannot be read, is passed over.
_fetch_object(t) ==
  /\ CloudLeave(t, "fetch", "done")
  /\ \E here \in {FALSE, "bitstream" \in store[t]} : Report(t, here)
  /\ UNCHANGED <<urls, machine, made, todo, store>>

\* fn.remote returns, or docker run does.
Answered(t) ==
  /\ pool \notin Bucket /\ machine[t] = "gone"
  /\ CloudLeave(t, "poll", "done")
  /\ Report(t, made[t] \in WithBit)
  /\ UNCHANGED <<urls, machine, made, todo, store>>

CloudThread(t) ==
  \/ CloudEnter(t) \/ _upload_sandbox(t) \/ _launch(t) \/ LaunchRefused(t)
  \/ _poll_object(t) \/ _fetch_object(t) \/ Answered(t)

CloudNext ==
  \E t \in Runs :
    \/ CloudThread(t) \/ CloudRaises(t) \/ PollTimesOut(t)
    \/ MachineBuilds(t) \/ Upload(t) \/ UploadFails(t) \/ Interrupted(t)

\* Threads run and deadlines pass: the client's for Fly and AWS, that of
\* subprocess.run for Docker (CloudRaises), that of the function for Modal.
CloudFairness ==
  \A t \in Runs :
    /\ WF_cloudVars(CloudThread(t))
    /\ WF_cloudVars(PollTimesOut(t))
    /\ WF_cloudVars(pool = "docker" /\ cAt[t] = "poll" /\ CloudRaises(t))
    /\ WF_cloudVars(pool = "modal" /\ Interrupted(t))

-----------------------------------------------------------------------------
\* A user can have the bitstream: it is in the seed's directory, or, on AWS, where a
\* failed download is not an error, in the bucket.
Kept(t) == t \in local \/ (pool = "aws" /\ "bitstream" \in store[t])

\* The machines as a backend: a seed is fit when its bitstream is kept and Quartus met
\* timing; on Modal Quartus need only have ended well.  AWS counts no slots.
CloudCall ==
  [t \in Runs |-> CASE cAt[t] = "call" -> "asked"
                    [] cAt[t] \in InCloud -> "inside"
                    [] cAt[t] = "done" -> cOut[t]
                    [] OTHER -> "raised"]

CloudFree ==
  IF pool = "aws" THEN Cardinality({t \in Runs : cAt[t] \notin InCloud}) ELSE cFree

CloudFit ==
  {t \in Runs : Kept(t) /\ (made[t] = "passed" \/ (pool = "modal" /\ made[t] = "missed"))}

CloudPromise == INSTANCE Backend WITH
  Jobs <- Runs, call <- CloudCall, free <- CloudFree, fit <- CloudFit

\* A task comes back whatever becomes of its machine.
CloudReturns == \A t \in Runs : (cAt[t] = "ship") ~> (cAt[t] \in {"done", "raised"})
=============================================================================
